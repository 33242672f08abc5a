CONSTANTS
    Val = {1, 2}
    undefined = undefined
    true = true
    false = false
    Hole = Hole
    Garbage = Garbage
    Nil = Nil
    Slack = 1
    GrowBy = 2
    SPARSE_ARRAY_CUTOFF = 2
    Args <- MCArgs
    Relative <- MCRelative
    MaxLen = 3
    MaxCalls = 3
SPECIFICATION Spec
INVARIANTS
    ElementsInitialised
    MethodsExact
PROPERTIES
    CallbacksExact
CHECK_DEADLOCK FALSE
