SPECIFICATION AccountsSpec
CONSTANTS
    c1 = c1
    c2 = c2
    k1 = k1
    p1 = p1
    m1 = m1
    m2 = m2
    s1 = s1
    s2 = s2
    o1 = o1
    o2 = o2
    o3 = o3
    r1 = r1
    r2 = r2
    Consumers = {c1}
    Companies = {k1}
    CompanyOf <- MCCompanyOf
    Providers = {p1}
    Menus = {m1, m2}
    ProviderOf <- MCProviderOf
    Schedules = {s1, s2}
    MenuOf <- MCMenuOf
    DateOf <- MCMonthEndDates
    Stock <- MCStock3
    Unlimited = {}
    OrderIds = {o1, o2}
    MaxUnits = 1
    UnitPrices = {1}
    MaxPrice = 1
    FirstDay = 3
    LastDay = 6
    MonthOf <- MCMonthEnd4
    HasDeadline = {p1}
    Closable <- MCClosable
    TakedownKinds = {}
    IsCompany = TRUE
    Requests = {r1, r2}
    MaxDebt = 2
    MaxReceipts = 2
    MaxInvoices = 2
SYMMETRY OrdersOrRequests
INVARIANTS
    LedgerExactThisMonth
    OneOfEach
    PaidOnceUnlessCrossed
    CollectedAndInvoiced
PROPERTIES
    KeepsReview
    ApprovedStays
CHECK_DEADLOCK FALSE
