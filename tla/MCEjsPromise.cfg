CONSTANTS
    Value = {undefined}
    Thenable = {t}
    BadThen = {}
    undefined = undefined
    Repeats = {FALSE}
    MaxOps = 4
SPECIFICATION Spec
INVARIANTS
    TypeOK
    OneResolver
    HandlersOnceInOrder
PROPERTY SettledIsFinal
CHECK_DEADLOCK FALSE
