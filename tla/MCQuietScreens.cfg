SPECIFICATION QuietSpec
CONSTANTS
    a = a
    b = b
    d1 = d1
    d2 = d2
    blank = blank
    coupon = coupon
    None = None
    Failed = Failed
    NotChosen = NotChosen
    NoSheet = NoSheet
    NoStar = NoStar
    NoGroups = NoGroups
    NoRule = NoRule
    All = All
    NoMonth = NoMonth
    Sessions = {a, b}
    Schedules = {d1}
    Notes = {blank, b}
    Blank = blank
    Benefits <- OneBenefit
    MaxStock = 2
    MaxPrice = 2
    MaxPicks = 2
    MaxRequests = 1
    MaxPosts = 2
    MaxChanges = 0
    Menus <- SomeMenus
    MaxOfferings = 2
    Kitchens = {d1, d2}
    Stars = {d1, a}
    Closures <- SomeClosures
    WeekDays = {1, 2}
    MaxStars = 2
    Lists <- SomeLists
    MaxGroups = 1
    MaxIds = 3
    MaxSavings = 2
    Staff = {a}
    Amounts = {4, 101}
    GiftDays = {29, 30}
    NoGiftDay = 0
    FirstDay = 30
    LastFormDay = 31
    MaxFillings = 1
    Books <- SomeBooks
    BooksAtFirst <- SomeBooksAtFirst
    ThisMonth = 3
    MonthsInYear = 2
    MaxMeals = 2
    MaxTurns = 4
    NoOne = NoOne
    AllClients = AllClients
    Clients = {a}
    EmployerOf <- OneEmployer
    ConsumerOf <- OneConsumer
    Charged <- SomeCharged
    Subsidised <- SomeSubsidised
    MaxReceiptsSent = 2
    MaxReviews = 2
INVARIANTS
    CartKept
    OrderedOnceAndGone
    RefusedOnlyIfChanged
    LeftAsChosen
    OfferedAsWritten
    FormAndServerAgree
    OneDebt
    BooksAgree
PROPERTIES
    ReviewedAsTold
CHECK_DEADLOCK FALSE
