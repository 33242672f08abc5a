--------------------------- MODULE EjsPropertyMap ---------------------------
(***************************************************************************)
(* The property maps of runtime/ejs-object.c: a hash table whose entries   *)
(* are also linked in the order they were inserted.  A map is a record     *)
(*    [head_insert, tail_insert, buckets, nbuckets, inuse, next_insert,    *)
(*     next_bucket, desc]                                                  *)
(* and every operation maps such a record to another.  An entry is named   *)
(* by the property name it holds: insert makes no second one for a name    *)
(* that its search finds.  desc[n] is Nil if n has no entry.               *)
(***************************************************************************)
EXTENDS Integers, Sequences, FiniteSets

CONSTANTS
    Name,    \* property keys: strings and symbols
    Hash,    \* PropertyKeyHash
    primes,  \* sizes of the bucket array
    Nil      \* NULL

\* A program makes finitely many names.
ASSUME NameAssumption == IsFiniteSet(Name) /\ Nil \notin Name
ASSUME HashAssumption == Hash \in [Name -> Nat]
ASSUME primesAssumption == /\ primes \in Seq(Nat \ {0})
                           /\ Len(primes) > 0
                           /\ \A i \in 1 .. Len(primes) - 1 : primes[i] < primes[i + 1]

\* The maps whose entries hold members of D.
Maps(D) ==
    [head_insert : Name \union {Nil}, tail_insert : Name \union {Nil},
     buckets : UNION {[0 .. size - 1 -> Name \union {Nil}] : size \in {0} \union {primes[i] : i \in 1 .. Len(primes)}},
     nbuckets : Nat, inuse : Nat, next_insert : [Name -> Name \union {Nil}],
     next_bucket : [Name -> Name \union {Nil}], desc : [Name -> D \union {Nil}]]

_ejs_propertymap_init ==
    [head_insert |-> Nil, tail_insert |-> Nil, buckets |-> <<>>, nbuckets |-> 0,
     inuse |-> 0, next_insert |-> [n \in Name |-> Nil],
     next_bucket |-> [n \in Name |-> Nil], desc |-> [n \in Name |-> Nil]]

\* The entries from start along next; one more than there are if they form a ring.
Follow(next, start) ==
    LET at[i \in 0 .. Cardinality(Name)] ==
            IF i = 0 THEN start
            ELSE IF at[i - 1] = Nil THEN Nil ELSE next[at[i - 1]]
    IN  [i \in 1 .. Cardinality({j \in DOMAIN at : at[j] # Nil}) |-> at[i - 1]]

Elements(s) == {s[i] : i \in 1 .. Len(s)}

\* The entries in insertion order: _ejs_propertymap_foreach_property.
Entries(map) == Follow(map.next_insert, map.head_insert)

Bucket(map, n) == Hash[n] % map.nbuckets
Chain(map, b) == Follow(map.next_bucket, map.buckets[b])

\* The search compares hash and name.
Found(map, n) == n \in Elements(Chain(map, Bucket(map, n)))

_ejs_propertymap_lookup(map, n) ==
    IF map.inuse = 0 \/ ~Found(map, n) THEN Nil ELSE map.desc[n]

\* Puts entry n in front of its bucket.
Link(map, n) ==
    [map EXCEPT !.next_bucket[n] = map.buckets[Bucket(map, n)],
                !.buckets[Bucket(map, n)] = n]

\* The next size up; there is none after the last.
NextPrimes(map) == {primes[i + 1] : i \in {j \in 1 .. Len(primes) - 1 : map.nbuckets = primes[j]}}

\* Fault: the entries stay where they were.
GrowOnly(map) ==
    LET size == CHOOSE p \in NextPrimes(map) : TRUE
    IN  [map EXCEPT !.nbuckets = size,
                    !.buckets = [b \in 0 .. size - 1 |-> IF b < map.nbuckets THEN map.buckets[b] ELSE Nil]]

\* Entries are linked again in insertion order.
_ejs_propertymap_rehash(map) ==
    LET size == CHOOSE p \in NextPrimes(map) : TRUE
        empty == [map EXCEPT !.nbuckets = size, !.buckets = [b \in 0 .. size - 1 |-> Nil]]
        order == Entries(map)
        linked[i \in 0 .. Len(order)] ==
            IF i = 0 THEN empty ELSE Link(linked[i - 1], order[i])
    IN  linked[Len(order)]

Allocated(map) ==
    IF map.buckets # <<>> THEN map
    ELSE [map EXCEPT !.nbuckets = primes[1], !.buckets = [b \in 0 .. primes[1] - 1 |-> Nil]]

\* inuse > nbuckets * 0.75
Crowded(map) == 4 * map.inuse > 3 * map.nbuckets

\* Inserting n finds the map crowded at its last size: abort().
InsertAborts(map, n) ==
    LET m == Allocated(map)
    IN  ~Found(m, n) /\ Crowded([m EXCEPT !.inuse = @ + 1]) /\ NextPrimes(m) = {}

_ejs_propertymap_insert(map, n, d) ==
    LET m == Allocated(map)
        new == [Link(m, n) EXCEPT
                    !.desc[n] = d,
                    !.inuse = @ + 1,
                    !.head_insert = IF @ = Nil THEN n ELSE @,
                    !.next_insert = [e \in Name |-> IF e = n THEN Nil
                                                    ELSE IF e = m.tail_insert THEN n ELSE @[e]],
                    !.tail_insert = n]
    IN  IF Found(m, n) THEN [m EXCEPT !.desc[n] = d]
        ELSE IF Crowded(new) THEN _ejs_propertymap_rehash(new) ELSE new

\* Takes n out of the list that starts at start: the new start and links.
Unlinked(next, start, n) ==
    [start |-> IF start = n THEN next[n] ELSE start,
     next |-> [e \in Name |-> IF e = n THEN Nil ELSE IF next[e] = n THEN next[n] ELSE next[e]]]

\* The tail after n has gone: NULL, or the entry in front of it.
NewTail(map, n) ==
    IF map.tail_insert # n THEN map.tail_insert
    ELSE IF map.head_insert = n THEN Nil
    ELSE CHOOSE e \in Elements(Entries(map)) : map.next_insert[e] = n

_ejs_propertymap_remove(map, n) ==
    IF map.inuse = 0 \/ ~Found(map, n) THEN map
    ELSE LET b == Bucket(map, n)
             hashed == Unlinked(map.next_bucket, map.buckets[b], n)
             inserted == Unlinked(map.next_insert, map.head_insert, n)
         IN  [map EXCEPT !.buckets[b] = hashed.start, !.next_bucket = hashed.next,
                         !.head_insert = inserted.start, !.next_insert = inserted.next,
                         !.tail_insert = NewTail(map, n),
                         !.desc[n] = Nil, !.inuse = @ - 1]

-----------------------------------------------------------------------------
(* What the operations rely on.                                            *)

\* Through insertions, removals and rehashes every entry is on the insertion list
\* once and on the chain of its own bucket, nothing else is, inuse counts them and
\* the tail is the last one.
WellFormed(map) ==
    LET order == Entries(map)
        live == {n \in Name : map.desc[n] # Nil}
    IN  /\ Elements(order) = live
        /\ Len(order) = Cardinality(live)
        /\ map.inuse = Cardinality(live)
        /\ map.tail_insert = IF order = <<>> THEN Nil ELSE order[Len(order)]
        /\ \A b \in DOMAIN map.buckets :
              /\ Elements(Chain(map, b)) = {n \in live : Bucket(map, n) = b}
              /\ Len(Chain(map, b)) = Cardinality(Elements(Chain(map, b)))
=============================================================================
