CONSTANTS
    Kind = {"Map", "Set"}
    Key = {zero, negzero, o1, o2}
    Value = {v1, v2}
    Iter = {i1}
    Empty = Empty
    undefined = undefined
    null = null
    zero = zero
    negzero = negzero
    MapDeletes = FALSE
    MaxEntries = 4
    MaxLoops = 1
SPECIFICATION Spec
INVARIANTS
    TypeOK
    KeysUnique
    IteratorInOrder
PROPERTIES
    ForEachVisitsAll
    Implements
CHECK_DEADLOCK FALSE
