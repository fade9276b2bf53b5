SPECIFICATION Spec
CONSTANTS
    c1 = c1
    c2 = c2
    k1 = k1
    p1 = p1
    m1 = m1
    m2 = m2
    s1 = s1
    s2 = s2
    o1 = o1
    o2 = o2
    o3 = o3
    Consumers = {c1}
    Companies = {k1}
    CompanyOf <- MCCompanyOf
    Providers = {p1}
    Menus = {m1, m2}
    ProviderOf <- MCProviderOf
    Schedules = {s1, s2}
    MenuOf <- MCMenuOf
    DateOf <- MCFriday
    Stock <- MCStock1
    Unlimited = {s2}
    OrderIds = {o1, o2}
    MaxUnits = 2
    UnitPrices = {0}
    MaxPrice = 0
    FirstDay = 4
    LastDay = 6
    MonthOf <- MCOneMonth
    HasDeadline = {}
    Closable = {}
    TakedownKinds = {"unpublish", "delete_keep", "delete_reject"}
SYMMETRY Symmetry
INVARIANTS
    TypeOK
    StockRespected
    LinkedToPublished
PROPERTIES
    KeepsLifecycle
CHECK_DEADLOCK FALSE
