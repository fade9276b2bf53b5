SPECIFICATION FairSpec
CONSTANTS
    c1 = c1
    c2 = c2
    k1 = k1
    p1 = p1
    m1 = m1
    m2 = m2
    s1 = s1
    s2 = s2
    o1 = o1
    o2 = o2
    o3 = o3
    Consumers = {c1}
    Companies = {k1}
    CompanyOf <- MCCompanyOf
    Providers = {p1}
    Menus = {m1}
    ProviderOf <- MCProviderOf
    Schedules = {s1}
    MenuOf <- MCMenuOf
    DateOf <- MCFriday
    Stock <- MCStock3
    Unlimited = {}
    OrderIds = {o1, o2}
    MaxUnits = 2
    UnitPrices = {1}
    MaxPrice = 2
    FirstDay = 4
    LastDay = 6
    MonthOf <- MCMonthEnd5
    HasDeadline = {}
    Closable = {}
    TakedownKinds = {"delete_reject"}
INVARIANTS
    LedgerExact
PROPERTIES
    AcceptedAsAgreed
    LedgerSettles
CHECK_DEADLOCK FALSE
