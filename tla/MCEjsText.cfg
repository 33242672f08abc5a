\* The thresholds are 32 in the code; three string calls reach ropes of
\* slices.  The gap is limited to 10 units in the code.
\* Every pattern on subjects of no and of two units; ints of four bits.
SPECIFICATION Spec
CHECK_DEADLOCK FALSE
CONSTANTS
  FLAT_ROPE_THRESHOLD = 3
  FLAT_DEP_THRESHOLD = 2
  Literals <- MCLiterals
  Offsets <- MCOffsets
  CodePoints <- MCCodePoints
  Omitted = Omitted
  MaxStringCalls = 3
  Defects = {}
  Values <- MCValues
  Heaps <- MCHeaps
  Spaces <- MCSpaces
  PropertyLists <- MCPropertyLists
  GapLimit = 2
  MaxEdits = 1
  MaxDepth = 3
  Lengths = {0, 2}
  FlagTexts <- MCFlagTexts
  OwnExec = {TRUE, FALSE}
  MaxOwnExecs = 2
  MaxReCalls = 2
  NoMatch = NoMatch
  BadOffset = BadOffset
  NoResult = NoResult
  Bits = 4
  Operands <- MCOperands
  Conversions <- MCConversions
  Ints <- MCInts
INVARIANTS
  StringsExact
  JsonExact
  RegExpExact
  OperatorsAgree
PROPERTIES
  LoopsEnd
