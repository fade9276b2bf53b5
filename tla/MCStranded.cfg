SPECIFICATION Spec
CONSTANTS
    c1 = c1
    c2 = c2
    k1 = k1
    p1 = p1
    m1 = m1
    m2 = m2
    s1 = s1
    s2 = s2
    o1 = o1
    o2 = o2
    o3 = o3
    Consumers = {c1}
    Companies = {k1}
    CompanyOf <- MCCompanyOf
    Providers = {p1}
    Menus = {m1}
    ProviderOf <- MCProviderOf
    Schedules = {s1}
    MenuOf <- MCMenuOf
    DateOf <- MCThursday
    Stock <- MCStock3
    Unlimited = {}
    OrderIds = {o1, o2}
    MaxUnits = 1
    UnitPrices = {0}
    MaxPrice = 0
    FirstDay = 4
    LastDay = 4
    MonthOf <- MCOneMonth
    HasDeadline = {}
    Closable = {}
    TakedownKinds = {"unpublish"}
SYMMETRY Symmetry
INVARIANTS
    ActiveOrdersKeepSchedule
CHECK_DEADLOCK FALSE
