SPECIFICATION ImportSpec
CONSTANTS
    c1 = c1
    n1 = n1
    n2 = n2
    NoName = NoName
    Cards = {c1}
    Names = {n1, n2}
    MaxImports = 2
    MaxMenuMoves = 1
PROPERTIES
    FailedCardSaysWhy
CHECK_DEADLOCK FALSE
