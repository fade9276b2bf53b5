SPECIFICATION FlowSpec
CONSTANTS
    o1 = o1
    o2 = o2
    w = w
    Nobody = Nobody
    Unset = Unset
    NotSent = NotSent
    NoDay = NoDay
    NoVisit = NoVisit
    NoName = NoName
    NoTime = NoTime
    NoTrip = NoTrip
    NoMove = NoMove
    blank = blank
    None = None
    Failed = Failed
    Orders = {o1, o2}
    DateOf <- SomeDates
    MethodOf <- SomeMethods
    TextOf <- SomeTexts
    Dates = {1, 2}
    Searches <- SomeSearches
    MaxDecisions = 2
    Week = 2
    LastDay = 4
    ClosedDays = {4}
    DaysAtFirst = {2}
    MaxEdits = 2
    MaxSends = 1
    Dishes = {w}
    PublishDays = {o1, o2}
    MaxWritten = 1
    MaxVisits = 3
    Cards = {w}
    Names = {o1, o2}
    MaxImports = 2
    MaxMenuMoves = 1
    Times = {o1, o2}
    Alerts = {w}
    MaxTrips = 3
    WorkingDays = 2
    LastWeek = 2
    ThisDay = 3
    Rows = {o1, o2, w}
    DayOfRow <- SomeDays
    MaxMoves = 2
    Sessions = {w}
    Schedules = {o1}
    Notes = {blank}
    Blank = blank
    Benefits <- NoBenefits
    MaxStock = 2
    MaxPrice = 1
    MaxPicks = 1
    MaxRequests = 2
    MaxPosts = 1
    MaxChanges = 1
INVARIANTS
    PricedAsAsked
    ChargedAsShown
    PublishedAsSaid
    ImportedWithCare
    ListsAgree
PROPERTIES
    AgendasAgree
    StepsKept
    DayKept
    EveryWaitEnds
CHECK_DEADLOCK FALSE
