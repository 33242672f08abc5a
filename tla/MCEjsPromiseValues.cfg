CONSTANTS
    Value = {undefined, v}
    Thenable = {t}
    BadThen = {g}
    undefined = undefined
    Repeats = {TRUE, FALSE}
    MaxOps = 3
SPECIFICATION FairSpec
INVARIANTS
    ValuesFlow
PROPERTY DerivedResolves
CHECK_DEADLOCK FALSE
