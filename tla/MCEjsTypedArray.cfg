CONSTANTS
    Byte = 3
    Word = 64
    undefined = undefined
    Freed = Freed
    Garbage = Garbage
    Nil = Nil
    RangeError = RangeError
    Types = {"Int8", "Uint16", "Uint8Clamped"}
    Numbers <- MCNumbers
    Relative <- MCRelative
    Arrays <- MCArrays
    Windows <- MCWindows
    Spans <- MCSpans
    BufferSize = 4
    MaxBuffers = 3
    MaxViews = 2
    MaxCalls = 3
SPECIFICATION Spec
INVARIANTS
    ViewsSafe
    AccessExact
CHECK_DEADLOCK FALSE
