SPECIFICATION CompanySpec
CONSTANTS
    d1 = d1
    d2 = d2
    m1 = m1
    m2 = m2
    s1 = s1
    s2 = s2
    Nothing = Nothing
    NoOne = NoOne
    Unfit = Unfit
    NoSubsidy = NoSubsidy
    NoProgramming = NoProgramming
    None = None
    One = One
    Months = {m1, m2}
    Providers = {1, 2}
    Consumed <- SomeConsumed
    Selections = {s1, s2}
    MaxAsked = 3
    Details = {d1, d2}
    MaxUnits = 2
    MaxOrders = 2
    MaxSaves = 2
    Subsidies = {s1, s2}
    LastMonth = 2
    MaxProgrammings = 2
    Items = {m1, m2}
    MaxSent = 2
    LastDay = 130
INVARIANTS
    DialogsKeepTheirWord
    AssignedInTime
    OrderableIsShownAndPublishable
PROPERTIES
    ShowsWhatWasAsked
    AcceptedOrderKept
    ProgrammedWithCare
    EveryMonthIsConfigurable
    WindowNeverRetracts
    EveryWaitEnds
CHECK_DEADLOCK FALSE
