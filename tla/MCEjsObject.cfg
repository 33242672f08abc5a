CONSTANTS
    n1 = n1
    n2 = n2
    n3 = n3
    name_a = name_a
    name_b = name_b
    s = s
    v1 = v1
    f = f
    Name <- MCName
    Hash <- MCHash
    Index <- MCIndex
    Word = 8
    primes <- MCprimes
    Attributes <- MCAttributes
    Properties <- MCProperties
    Obj = {o1, o2}
    _ejs_Object_prototype = o1
    Symbol = {s}
    Val = {v1}
    Fun = {f}
    Nil = Nil
    undefined = undefined
    null = null
    zero = zero
    TypeError = TypeError
    NotImplemented = NotImplemented
    MaxCalls = 4
SPECIFICATION Spec
INVARIANTS
    TypeOK
    ObjectsSound
    ProxyHonest
PROPERTIES
    PromisesKept
    KeysExact
CHECK_DEADLOCK FALSE
