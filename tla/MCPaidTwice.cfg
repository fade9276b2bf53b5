SPECIFICATION PaymentsSpec
CONSTANTS
    r1 = r1
    r2 = r2
    IsCompany = FALSE
    Requests = {r1, r2}
    MaxDebt = 1
    MaxReceipts = 2
    MaxInvoices = 0
SYMMETRY Symmetry
INVARIANTS
    PaidWithinDebt
CHECK_DEADLOCK FALSE
