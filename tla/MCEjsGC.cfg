CONSTANTS
    Obj = {o1, o2}
    Slot = {s1}
    Module = {m1}
    Null = Null
    MaxRegistrations = 2
    MaxPages = 2
    Class = {4, 5}
    NumCells <- MCNumCells
    LosId = {l1}
    Nil = Nil
SPECIFICATION MCSpec
INVARIANTS
    TypeOK
    NoDangling
    ColoursConsistent
    MarkIsReachability
PROPERTIES
    OnlyGarbageFreed
    CollectionEnds
    AllocReturns
CHECK_DEADLOCK FALSE
