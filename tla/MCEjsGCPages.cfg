CONSTANTS
    MaxPages = 2
    Class = {1, 2, 5}
    NumCells <- MCNumCells
    LosId = {l1}
    Nil = Nil
SPECIFICATION Spec
INVARIANT HeadersExact
CHECK_DEADLOCK FALSE
