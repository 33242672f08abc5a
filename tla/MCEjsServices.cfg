\* Three generators nest to the full depth of the array; three timers share two
\* blocks, so that a freed block is used again; two weak maps and a weak set.
SPECIFICATION Spec
CONSTANTS
  Gens = {g1, g2, g3}
  Values = {v1, v2}
  Main = Main
  Other = Other
  undefined = undefined
  Nil = Nil
  MAX_GENERATORS = 3
  Misuse = FALSE
  MaxResumes = 3
  Timers = {t1, t2, t3}
  Blocks = {b1, b2}
  Delays = {0, 2}
  Nobody = Nobody
  NULL = NULL
  MaxSleep = 2
  StaleClears = FALSE
  o1 = o1
  o2 = o2
  o3 = o3
  Objs = {o1, o2, o3}
  WeakMaps = {m1, m2}
  WeakSets = {s1}
  Null = Null
  Absent = Absent
  Protos <- TwoShapes
  Frozen = {o3}
  WeakMapDeletes = FALSE
  MaxWeakCalls = 4
INVARIANTS
  GeneratorsExact
  TimersConsistent
  WeakCollections
PROPERTIES
  ImplementsCoroutines
  FiresAsAsked
  TimersFire
CHECK_DEADLOCK FALSE
