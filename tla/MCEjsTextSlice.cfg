\* A substring of a rope that holds a slice, as the code copies it.
SPECIFICATION Spec
CHECK_DEADLOCK FALSE
CONSTANTS
  FLAT_ROPE_THRESHOLD = 3
  FLAT_DEP_THRESHOLD = 2
  Literals <- MCLiterals
  Offsets <- MCOffsets
  CodePoints <- MCCodePoints
  Omitted = Omitted
  MaxStringCalls = 3
  Defects = {"slice"}
  Values <- MCValues
  Heaps <- MCHeaps
  Spaces <- MCSpaces
  PropertyLists <- MCPropertyLists
  GapLimit = 2
  MaxEdits = 1
  MaxDepth = 3
  Lengths = {0}
  FlagTexts <- MCFlagTexts
  OwnExec = {FALSE}
  MaxOwnExecs = 2
  MaxReCalls = 1
  NoMatch = NoMatch
  BadOffset = BadOffset
  NoResult = NoResult
  Bits = 4
  Operands <- MCOperands
  Conversions <- MCConversions
  Ints <- MCInts
INVARIANTS FlattenExact
