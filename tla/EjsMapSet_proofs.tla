-------------------------- MODULE EjsMapSet_proofs --------------------------
(***************************************************************************)
(* Keys are unique, iterators go forwards, forEach leaves nothing out and  *)
(* the results are those of an ordered collection, for all sets of keys,   *)
(* values and iterators and for any number of entries.                     *)
(***************************************************************************)
EXTENDS EjsMapSet, FiniteSetTheorems, WellFoundedInduction, TLAPS

Entry == [key : Key \union {zero, Empty}, value : Value \union {undefined, Empty}]
EntriesType == entries \in Seq(Entry)

\* The live entries before position q.
Below(q) == {p \in Live : p < q}

\* An iterator that has returned n entries has fewer than n live entries before
\* the one it returned last, and that is true whatever is deleted or added.
IteratorInv(it) ==
    /\ it.returned \in Seq(Positions)
    /\ it.next_index = Len(it.returned)
    /\ \A m, n \in 1 .. Len(it.returned) : m < n => it.returned[m] < it.returned[n]
    /\ Len(it.returned) # 0 => Cardinality(Below(it.returned[Len(it.returned)])) < it.next_index

IterInv == iter \in [Iter -> [iterated : BOOLEAN, next_index : Nat, returned : Seq(Nat)]]
             /\ \A i \in Iter : IteratorInv(iter[i])

IInv == EntriesType /\ KeysUnique /\ IterInv

\* The sets that are counted are finite.
LEMMA BelowFinite ==
    ASSUME EntriesType, NEW q
    PROVE  IsFiniteSet(Live) /\ IsFiniteSet(Below(q)) /\ Cardinality(Below(q)) \in Nat
<1>1. Len(entries) \in Int
  BY DEF EntriesType
<1>2. IsFiniteSet(1 .. Len(entries))
  BY <1>1, FS_Interval
<1>3. Live \in SUBSET (1 .. Len(entries)) /\ Below(q) \in SUBSET (1 .. Len(entries))
  BY DEF Live, Below
<1>4. IsFiniteSet(Live) /\ IsFiniteSet(Below(q))
  BY <1>2, <1>3, FS_Subset
<1> QED
  BY <1>4, FS_CardinalityType

\* What an iterator knows stays true when entries are only emptied or appended.
LEMMA IteratorFrame ==
    ASSUME EntriesType, EntriesType', IterInv, UNCHANGED iter,
           Len(entries) <= Len(entries'),
           \A p \in Positions : entries'[p].key # Empty => entries[p].key # Empty
    PROVE  IterInv'
<1> SUFFICES ASSUME NEW i \in Iter
             PROVE  IteratorInv(iter[i])'
  BY DEF IterInv
<1> DEFINE r == iter[i].returned
<1>1. IteratorInv(iter[i]) /\ r \in Seq(Positions)
  BY DEF IterInv, IteratorInv
<1>2. Len(entries) \in Nat /\ Len(entries') \in Nat
  BY DEF EntriesType
<1>3. Positions \subseteq Positions'
  BY <1>2 DEF Positions
<1>4. r \in Seq(Positions')
  BY <1>1, <1>3
<1>5. ASSUME Len(r) # 0
      PROVE  Cardinality(Below(r[Len(r)])') < iter[i].next_index
  <2> DEFINE q == r[Len(r)]
  <2>1. q \in Positions /\ q \in Nat
    BY <1>1, <1>5 DEF Positions
  <2>2. Below(q)' \in SUBSET Below(q)
    BY <1>2, <2>1 DEF Below, Live, IsEmpty, Positions
  <2>3. IsFiniteSet(Below(q)) /\ Cardinality(Below(q)) \in Nat
    BY BelowFinite
  <2>4. Cardinality(Below(q)') <= Cardinality(Below(q)) /\ Cardinality(Below(q)') \in Nat
    BY <2>2, <2>3, FS_Subset, FS_CardinalityType
  <2>5. Cardinality(Below(q)) < iter[i].next_index /\ iter[i].next_index \in Nat
    BY <1>1, <1>5 DEF IteratorInv, IterInv
  <2> HIDE DEF q
  <2>6. Cardinality(Below(q)') < iter[i].next_index
    BY <2>3, <2>4, <2>5
  <2> QED
    BY <2>6 DEF q
<1> QED
  BY <1>1, <1>4, <1>5 DEF IteratorInv

LEMMA FreshIterator ==
    /\ IteratorInv(NewIterator) /\ IteratorInv(Exhausted)
    /\ NewIterator \in [iterated : BOOLEAN, next_index : Nat, returned : Seq(Nat)]
    /\ Exhausted \in [iterated : BOOLEAN, next_index : Nat, returned : Seq(Nat)]
<1>1. /\ NewIterator.returned = <<>> /\ NewIterator.next_index = 0
      /\ Exhausted.returned = <<>> /\ Exhausted.next_index = 0
  BY DEF NewIterator, Exhausted
<1>2. <<>> \in Seq(Positions) /\ <<>> \in Seq(Nat) /\ Len(<<>>) = 0
  OBVIOUS
<1>3. IteratorInv(NewIterator) /\ IteratorInv(Exhausted)
  BY <1>1, <1>2 DEF IteratorInv
<1> QED
  BY <1>2, <1>3 DEF NewIterator, Exhausted

LEMMA InitIInv == Init => IInv
<1> SUFFICES ASSUME Init PROVE IInv
  OBVIOUS
<1>1. EntriesType
  BY DEF Init, EntriesType
<1>2. KeysUnique
  BY DEF Init, KeysUnique, Live
<1>3. IterInv
  BY FreshIterator DEF Init, IterInv
<1> QED
  BY <1>1, <1>2, <1>3 DEF IInv

\* An appended key is not there yet, even when it is a zero.
LEMMA AddStep ==
    ASSUME IInv, NEW k \in Key, NEW v \in Value \union {undefined},
           Matches(k) = {}, Add(k, v), UNCHANGED iter
    PROVE  IInv'
<1> DEFINE e == [key |-> Canonical(k), value |-> v]
<1>1. e \in Entry /\ e.key = Canonical(k)
  BY DEF Entry, Canonical
<1>2. entries \in Seq(Entry) /\ entries' = Append(entries, e)
  BY DEF IInv, EntriesType, Add
<1> HIDE DEF e
<1>3. /\ entries' \in Seq(Entry)
      /\ Len(entries') = Len(entries) + 1
      /\ entries'[Len(entries) + 1] = e
      /\ \A p \in 1 .. Len(entries) : entries'[p] = entries[p]
  BY <1>1, <1>2
<1>4. Len(entries) \in Nat
  BY <1>2
<1>5. \A p \in 1 .. Len(entries) : ~SameValueZero(entries[p].key, k)
  BY DEF Matches
<1>6. \A p \in 1 .. Len(entries) : entries[p].key # Canonical(k)
  BY <1>5, ZeroAssumption DEF Canonical, SameValueZero, IsNumber
<1>7. Canonical(k) # negzero
  BY ZeroAssumption DEF Canonical
<1>8. Live \subseteq 1 .. Len(entries) /\ Live' = Live \union (Live' \intersect {Len(entries) + 1})
  BY <1>3, <1>4 DEF Live, IsEmpty
<1>9. KeysUnique'
  <2>1. ASSUME NEW p \in Live', NEW q \in Live', entries'[p].key = entries'[q].key
        PROVE  p = q
    <3>1. p \in Live \/ p = Len(entries) + 1
      BY <1>8
    <3>2. q \in Live \/ q = Len(entries) + 1
      BY <1>8
    <3> QED
      BY <1>1, <1>3, <1>6, <1>8, <2>1, <3>1, <3>2 DEF IInv, KeysUnique
  <2>2. ASSUME NEW p \in Live' PROVE entries'[p].key # negzero
    BY <1>1, <1>3, <1>7, <1>8 DEF IInv, KeysUnique
  <2> QED
    BY <2>1, <2>2 DEF KeysUnique
<1>10. IterInv'
  BY <1>2, <1>3, <1>4, IteratorFrame DEF IInv, EntriesType, Positions
<1> QED
  BY <1>3, <1>9, <1>10 DEF IInv, EntriesType

\* Changing a value and emptying entries.
LEMMA EraseStep ==
    ASSUME IInv, EntriesType', UNCHANGED iter, Len(entries') = Len(entries),
           \A p \in Positions : entries'[p].key \in {Empty, entries[p].key}
    PROVE  IInv'
<1>1. Len(entries) \in Nat
  BY DEF IInv, EntriesType
<1>2. Live' \subseteq Live /\ \A p \in Live' : entries'[p].key = entries[p].key
  BY <1>1 DEF Live, IsEmpty, Positions
<1>3. KeysUnique'
  BY <1>2 DEF IInv, KeysUnique
<1>4. IterInv'
  BY <1>1, IteratorFrame DEF IInv
<1> QED
  BY <1>3, <1>4 DEF IInv

LEMMA MapSetStep ==
    ASSUME IInv, NEW k \in Key, NEW v \in Value, _ejs_map_set(k, v)
    PROVE  IInv'
<1>1. CASE Matches(k) # {} /\ entries' = [entries EXCEPT ![First(Matches(k))].value = v]
  <2> DEFINE m == First(Matches(k))
  <2>1. entries \in Seq(Entry) /\ Len(entries) \in Nat
    BY DEF IInv, EntriesType
  <2> HIDE DEF m
  <2>2. entries' = [entries EXCEPT ![m].value = v]
    BY <1>1 DEF m
  <2>3. ASSUME NEW p \in 1 .. Len(entries)
        PROVE  entries'[p] \in Entry /\ entries'[p].key = entries[p].key
    <3>1. entries[p] \in Entry
      BY <2>1
    <3>2. entries'[p] \in {entries[p], [entries[p] EXCEPT !.value = v]}
      BY <2>1, <2>2
    <3> QED
      BY <3>1, <3>2 DEF Entry
  <2>4. entries' \in [1 .. Len(entries) -> Entry]
    <3>1. DOMAIN entries = 1 .. Len(entries)
      BY <2>1
    <3>2. entries' = [p \in 1 .. Len(entries) |->
                         IF p = m THEN [entries[m] EXCEPT !.value = v] ELSE entries[p]]
      BY <2>2, <3>1, Zenon
    <3>3. entries' = [p \in 1 .. Len(entries) |-> entries'[p]]
      BY <3>2
    <3> QED
      BY <2>3, <3>3
  <2>5. entries' \in Seq(Entry) /\ Len(entries') = Len(entries)
    BY <2>1, <2>4
  <2> QED
    BY <2>3, <2>5, EraseStep DEF _ejs_map_set, EntriesType, Positions
<1>2. CASE Matches(k) = {} /\ Add(k, v)
  BY <1>2, AddStep DEF _ejs_map_set
<1> QED
  BY <1>1, <1>2 DEF _ejs_map_set

LEMMA SetAddStep ==
    ASSUME IInv, NEW k \in Key, _ejs_set_add(k)
    PROVE  IInv'
<1>1. CASE Matches(k) # {} /\ UNCHANGED entries
  BY <1>1, EraseStep DEF _ejs_set_add, IInv, EntriesType
<1>2. CASE Matches(k) = {} /\ Add(k, undefined)
  BY <1>2, AddStep DEF _ejs_set_add
<1> QED
  BY <1>1, <1>2 DEF _ejs_set_add

LEMMA DeleteStep ==
    ASSUME IInv, NEW k \in Key, _ejs_set_delete(k)
    PROVE  IInv'
<1> DEFINE m == First(Matches(k))
<1>1. entries \in Seq(Entry) /\ Len(entries) \in Nat
  BY DEF IInv, EntriesType
<1>2. Erased \in Entry /\ Erased.key = Empty
  BY DEF Erased, Entry
<1>3. entries' = entries \/ entries' = [entries EXCEPT ![m] = Erased]
  BY DEF _ejs_set_delete
<1> HIDE DEF m
<1>4. entries' \in Seq(Entry) /\ Len(entries') = Len(entries)
  BY <1>1, <1>2, <1>3
<1>5. \A p \in Positions : entries'[p].key \in {Empty, entries[p].key}
  BY <1>1, <1>2, <1>3 DEF Positions
<1> QED
  BY <1>4, <1>5, EraseStep DEF _ejs_set_delete, EntriesType

LEMMA ClearStep ==
    ASSUME IInv, Clear
    PROVE  IInv'
<1>1. Len(entries) \in Nat
  BY DEF IInv, EntriesType
<1>2. Erased \in Entry /\ Erased.key = Empty
  BY DEF Erased, Entry
<1>3. entries' \in Seq(Entry) /\ Len(entries') = Len(entries)
  BY <1>1, <1>2 DEF Clear
<1>4. \A p \in Positions : entries'[p].key = Empty
  BY <1>1, <1>2 DEF Clear, Positions
<1> QED
  BY <1>3, <1>4, EraseStep DEF Clear, EntriesType

\* The entry of a given rank is unique, so that First finds it.
LEMMA EntryAtUnique ==
    ASSUME EntriesType, NEW n, EntryAt(n) # {}
    PROVE  First(EntryAt(n)) \in EntryAt(n)
<1>1. PICK p \in EntryAt(n) : TRUE
  OBVIOUS
<1>2. ASSUME NEW x \in EntryAt(n), NEW y \in EntryAt(n), x < y
      PROVE  FALSE
  <2>1. x \in Live /\ y \in Live /\ x \in Nat /\ y \in Nat
    BY DEF EntryAt, Live, EntriesType
  <2>2. Cardinality(Below(x)) = Cardinality(Below(y))
    BY DEF EntryAt, Below
  <2>3. Below(x) \in SUBSET Below(y) /\ IsFiniteSet(Below(y))
    <3>1. Below(x) \subseteq Below(y)
      BY <1>2, <2>1 DEF Below, Live, EntriesType
    <3> QED
      BY <3>1, BelowFinite
  <2>4. Below(x) = Below(y)
    BY <2>2, <2>3, FS_Subset
  <2>5. x \in Below(y) /\ x \notin Below(x)
    BY <1>2, <2>1 DEF Below
  <2> QED
    BY <2>4, <2>5
<1>3. \A x \in EntryAt(n) : x \in Nat
  BY DEF EntryAt, Live, EntriesType
<1>4. \A q \in EntryAt(n) : p <= q
  BY <1>1, <1>2, <1>3
<1> QED
  BY <1>1, <1>4 DEF First

\* Steps that only look, and new iterators.
LEMMA OtherSteps ==
    ASSUME IInv, UNCHANGED entries,
           UNCHANGED iter \/ \E i \in Iter : iter' = [iter EXCEPT ![i] = NewIterator]
    PROVE  IInv'
<1>1. EntriesType' /\ KeysUnique'
  BY DEF IInv, EntriesType, KeysUnique, Live, IsEmpty
<1>2. \A i \in Iter : IteratorInv(iter'[i])
  BY FreshIterator DEF IInv, IterInv
<1>3. iter' \in [Iter -> [iterated : BOOLEAN, next_index : Nat, returned : Seq(Nat)]]
  BY FreshIterator DEF IInv, IterInv
<1>4. IterInv'
  BY <1>2, <1>3 DEF IterInv, IteratorInv, Below, Live, IsEmpty, Positions
<1> QED
  BY <1>1, <1>4 DEF IInv

\* next() keeps the entries it has returned in order: the entry it finds has more
\* live entries before it than the one returned last.
LEMMA NextStep ==
    ASSUME IInv, NEW i \in Iter, NextEntry(i)
    PROVE  IInv'
<1> DEFINE n == iter[i].next_index
           r == iter[i].returned
           p == First(EntryAt(n))
<1>1. /\ IteratorInv(iter[i]) /\ EntriesType /\ n \in Nat
      /\ r \in Seq(Positions) /\ n = Len(r) /\ r \in Seq(Nat)
  BY DEF IInv, IterInv, IteratorInv
<1>2. UNCHANGED <<entries, kind>>
  BY DEF NextEntry
<1>3. CASE iter[i].iterated /\ EntryAt(n) = {}
  <2>1. iter' = [iter EXCEPT ![i].iterated = FALSE]
    BY <1>3 DEF NextEntry
  <2>2. IteratorInv(iter'[i])
    BY <1>1, <2>1 DEF IInv, IterInv, IteratorInv
  <2> QED
    BY <1>2, <2>1, <2>2 DEF IInv, IterInv, IteratorInv, EntriesType, KeysUnique,
                            Live, IsEmpty, Positions, Below
<1>4. CASE iter[i].iterated /\ EntryAt(n) # {}
  <2>1. iter' = [iter EXCEPT ![i] = [iterated |-> TRUE, next_index |-> n + 1,
                                     returned |-> Append(r, p)]]
    BY <1>4 DEF NextEntry
  <2>2. p \in EntryAt(n)
    BY <1>1, <1>4, EntryAtUnique
  <2> HIDE DEF p
  <2>3. p \in Positions /\ p \in Nat /\ Cardinality(Below(p)) = n
    BY <1>1, <2>2 DEF EntryAt, Live, Below, Positions, EntriesType
  <2>4. ASSUME Len(r) # 0
        PROVE  r[Len(r)] < p
    <3> DEFINE q == r[Len(r)]
    <3>1. q \in Nat /\ q \in Positions
      BY <1>1, <2>4
    <3>2. Cardinality(Below(q)) < n
      BY <1>1, <2>4 DEF IteratorInv
    <3> HIDE DEF q
    <3>3. ASSUME p <= q PROVE FALSE
      <4>1. Below(p) \in SUBSET Below(q)
        BY <2>3, <3>1, <3>3 DEF Below, Live, Positions, EntriesType
      <4>2. IsFiniteSet(Below(q)) /\ Cardinality(Below(q)) \in Nat
        BY <1>1, BelowFinite
      <4>3. Cardinality(Below(p)) <= Cardinality(Below(q))
        BY <4>1, <4>2, FS_Subset
      <4> QED
        BY <1>1, <2>3, <3>2, <4>2, <4>3
    <3>4. q < p
      BY <2>3, <3>1, <3>3
    <3> QED
      BY <3>4 DEF q
  <2> DEFINE r2 == Append(r, p)
  <2>5. /\ r2 \in Seq(Positions) /\ r2 \in Seq(Nat) /\ Len(r2) = n + 1
        /\ r2[n + 1] = p /\ \A j \in 1 .. n : r2[j] = r[j]
    BY <1>1, <2>3
  <2>6. ASSUME NEW j \in 1 .. n
        PROVE  r[j] \in Nat /\ r[j] <= r[Len(r)]
    <3>1. n \in 1 .. n /\ r[j] \in Nat /\ r[n] \in Nat
      BY <1>1
    <3>2. j < n => r[j] < r[n]
      BY <1>1, <3>1 DEF IteratorInv
    <3> QED
      BY <1>1, <3>1, <3>2
  <2> HIDE DEF r2, r, n
  <2>7. \A j, k \in 1 .. n + 1 : j < k => r2[j] < r2[k]
    <3> SUFFICES ASSUME NEW j \in 1 .. n + 1, NEW k \in 1 .. n + 1, j < k
                 PROVE  r2[j] < r2[k]
      OBVIOUS
    <3>1. CASE k = n + 1
      <4>1. j \in 1 .. n /\ Len(r) # 0
        BY <1>1, <3>1
      <4>2. r2[j] = r[j] /\ r2[k] = p
        BY <2>5, <3>1, <4>1
      <4>3. r[j] <= r[Len(r)] /\ r[Len(r)] < p /\ r[j] \in Nat /\ r[Len(r)] \in Nat
        BY <1>1, <2>4, <2>6, <4>1
      <4> QED
        BY <2>3, <4>2, <4>3
    <3>2. CASE k # n + 1
      <4>1. j \in 1 .. n /\ k \in 1 .. n
        BY <1>1, <3>2
      <4> QED
        BY <1>1, <2>5, <4>1 DEF IteratorInv, r
    <3> QED
      BY <3>1, <3>2
  <2> DEFINE it == [iterated |-> TRUE, next_index |-> n + 1, returned |-> r2]
  <2>8. iter' = [iter EXCEPT ![i] = it]
    BY <2>1 DEF r2, r, n
  <2>9. it.next_index = n + 1 /\ it.returned = r2
    OBVIOUS
  <2> HIDE DEF it
  <2>10. IteratorInv(it)
    BY <1>1, <2>3, <2>5, <2>7, <2>9 DEF IteratorInv
  <2>11. it \in [iterated : BOOLEAN, next_index : Nat, returned : Seq(Nat)]
    BY <1>1, <2>5 DEF it, IInv, IterInv
  <2>12. \A x \in Iter : IteratorInv(iter'[x])
    BY <2>8, <2>10 DEF IInv, IterInv
  <2>13. IterInv'
    BY <1>2, <2>8, <2>11, <2>12 DEF IInv, IterInv, IteratorInv, Below, Live, IsEmpty, Positions
  <2> QED
    BY <1>2, <2>13 DEF IInv, EntriesType, KeysUnique, Live, IsEmpty
<1>5. CASE ~iter[i].iterated
  BY <1>2, <1>5, OtherSteps DEF NextEntry
<1> QED
  BY <1>3, <1>4, <1>5

LEMMA NextIInv == IInv /\ [Next]_vars => IInv'
<1> SUFFICES ASSUME IInv, [Next]_vars PROVE IInv'
  OBVIOUS
<1>1. ASSUME NEW k \in Key, NEW v \in Value, _ejs_map_set(k, v) PROVE IInv'
  BY <1>1, MapSetStep
<1>2. ASSUME NEW k \in Key, _ejs_set_add(k) PROVE IInv'
  BY <1>2, SetAddStep
<1>3. ASSUME NEW k \in Key, _ejs_set_delete(k) PROVE IInv'
  BY <1>3, DeleteStep
<1>4. ASSUME NEW k \in Key, Has(k) \/ _ejs_map_get(k) \/ _ejs_map_delete(k) PROVE IInv'
  BY <1>4, OtherSteps DEF Has, _ejs_map_get, _ejs_map_delete
<1>5. CASE Clear
  BY <1>5, ClearStep
<1>6. CASE Size \/ StartLoop \/ CallbackReturns \/ CallbackThrows
  BY <1>6, OtherSteps DEF Size, StartLoop, CallbackReturns, CallbackThrows
<1>7. ASSUME NEW i \in Iter, CreateIterator(i) PROVE IInv'
  BY <1>7, OtherSteps DEF CreateIterator
<1>8. ASSUME NEW i \in Iter, NextEntry(i) PROVE IInv'
  BY <1>8, NextStep
<1>9. CASE UNCHANGED vars
  BY <1>9, OtherSteps DEF vars
<1>10. CASE MapStep
  BY <1>1, <1>4, <1>5, <1>6, <1>7, <1>8, <1>10 DEF MapStep, _ejs_map_has,
     _ejs_Map_prototype_clear, _ejs_Map_prototype_get_size, _ejs_map_iterator_new,
     _ejs_MapIterator_prototype_next, _ejs_Map_prototype_forEach
<1>11. CASE SetStep
  BY <1>2, <1>3, <1>4, <1>5, <1>6, <1>7, <1>8, <1>11 DEF SetStep, _ejs_set_has,
     _ejs_Set_prototype_clear, _ejs_Set_prototype_get_size, _ejs_set_iterator_new,
     _ejs_SetIterator_prototype_next, _ejs_Set_prototype_forEach
<1> QED
  BY <1>6, <1>9, <1>10, <1>11 DEF Next

\* The invariant that the theorems follow from.
THEOREM Invariance == Spec => []IInv
<1> QED
  BY InitIInv, NextIInv, PTL DEF Spec

\* Map and Set never hold a key twice, nor a negative zero: _ejs_map_set,
\* _ejs_set_add, _ejs_set_delete and clear keep it so in any order of calls.
THEOREM KeysAreUnique == Spec => []KeysUnique
<1>1. IInv => KeysUnique
  BY DEF IInv
<1> QED
  BY <1>1, Invariance, PTL

\* next() of MapIterator and SetIterator never returns an entry twice or out of
\* insertion order, although it counts only the entries that are left.
THEOREM IteratorsGoForward == Spec => []IteratorInOrder
<1>1. IInv => IteratorInOrder
  BY DEF IInv, IterInv, IteratorInv, IteratorInOrder
<1> QED
  BY <1>1, Invariance, PTL

-----------------------------------------------------------------------------
(* forEach and the types.                                                  *)

Loop == [at : Positions, visited : SUBSET Positions]

\* A forEach call has visited every live entry up to the one it is at, however
\* many of them other calls have emptied since.
LoopInv(l) == \A q \in Live : q <= l.at => q \in l.visited

LoopsInv == loops \in Seq(Loop) /\ \A j \in 1 .. Len(loops) : LoopInv(loops[j])

KindInv == kind \in {"Map", "Set"}

MapSetInv == IInv /\ LoopsInv /\ KindInv

\* First takes the least position of a set that has one.
LEMMA FirstIsLeast ==
    ASSUME NEW S \in SUBSET Nat, S # {}
    PROVE  First(S) \in S /\ \A q \in S : First(S) <= q
<1>1. \E x \in S : \A y \in S : ~(<<y, x>> \in OpToRel(<, Nat))
  BY NatLessThanWellFounded, WFMin
<1>2. PICK x \in S : \A y \in S : ~(<<y, x>> \in OpToRel(<, Nat))
  BY <1>1
<1>3. ASSUME NEW y \in S PROVE x <= y
  <2>1. x \in Nat /\ y \in Nat /\ <<y, x>> \in Nat \X Nat
    OBVIOUS
  <2>2. ~(y < x)
    BY <1>2, <2>1 DEF OpToRel
  <2> QED
    BY <2>1, <2>2
<1> QED
  BY <1>3 DEF First

\* What a forEach call knows stays true when entries are only emptied or appended.
LEMMA LoopsFrame ==
    ASSUME EntriesType, EntriesType', LoopsInv, UNCHANGED loops,
           Len(entries) <= Len(entries'),
           \A p \in Positions : entries'[p].key # Empty => entries[p].key # Empty
    PROVE  LoopsInv'
<1>1. Len(entries) \in Nat /\ Len(entries') \in Nat
  BY DEF EntriesType
<1>2. Positions \subseteq Positions'
  BY <1>1 DEF Positions
<1>3. Loop \subseteq Loop'
  BY <1>2 DEF Loop
<1>4. loops \in Seq(Loop) /\ loops \in Seq(Loop')
  BY <1>3 DEF LoopsInv
<1>5. ASSUME NEW j \in 1 .. Len(loops) PROVE LoopInv(loops[j])'
  <2>1. loops[j] \in Loop /\ LoopInv(loops[j])
    BY <1>4 DEF LoopsInv
  <2>2. loops[j].at \in Positions
    BY <2>1 DEF Loop
  <2>3. ASSUME NEW q \in Live', q <= loops[j].at PROVE q \in loops[j].visited
    <3>1. q \in 1 .. Len(entries') /\ entries'[q].key # Empty
      BY DEF Live, IsEmpty
    <3>2. q \in Positions
      BY <1>1, <2>2, <2>3, <3>1 DEF Positions
    <3>3. q \in Live
      BY <3>1, <3>2 DEF Live, IsEmpty, Positions
    <3> QED
      BY <2>1, <2>3, <3>3 DEF LoopInv
  <2> QED
    BY <2>3 DEF LoopInv
<1> QED
  BY <1>4, <1>5 DEF LoopsInv

\* Setting, adding, deleting and clearing only empty or append.
LEMMA EntriesGrow ==
    ASSUME IInv, NEW k, NEW v,
           _ejs_map_set(k, v) \/ _ejs_set_add(k) \/ _ejs_set_delete(k) \/ Clear
    PROVE  /\ Len(entries) <= Len(entries')
           /\ \A p \in Positions : entries'[p].key # Empty => entries[p].key # Empty
<1>1. entries \in Seq(Entry) /\ Len(entries) \in Nat
  BY DEF IInv, EntriesType
<1> DEFINE m == First(Matches(k))
<1> HIDE DEF m
<1>2. ASSUME NEW w, Add(k, w)
      PROVE  /\ Len(entries) <= Len(entries')
             /\ \A p \in Positions : entries'[p].key # Empty => entries[p].key # Empty
  <2> DEFINE e == [key |-> Canonical(k), value |-> w]
  <2>1. entries' = Append(entries, e)
    BY <1>2 DEF Add
  <2> HIDE DEF e
  <2>2. Len(entries') = Len(entries) + 1 /\ \A p \in Positions : entries'[p] = entries[p]
    BY <1>1, <2>1 DEF Positions
  <2> QED
    BY <1>1, <2>2
<1>3. ASSUME entries' = entries
      PROVE  /\ Len(entries) <= Len(entries')
             /\ \A p \in Positions : entries'[p].key # Empty => entries[p].key # Empty
  BY <1>1, <1>3
<1>4. ASSUME entries' = [entries EXCEPT ![m].value = v]
      PROVE  /\ Len(entries) <= Len(entries')
             /\ \A p \in Positions : entries'[p].key # Empty => entries[p].key # Empty
  <2>1. Len(entries') = Len(entries)
    BY <1>1, <1>4
  <2>2. ASSUME NEW p \in Positions PROVE entries'[p].key = entries[p].key
    <3>1. entries[p] \in Entry
      BY <1>1 DEF Positions
    <3>2. entries'[p] \in {entries[p], [entries[p] EXCEPT !.value = v]}
      BY <1>1, <1>4 DEF Positions
    <3> QED
      BY <3>1, <3>2 DEF Entry
  <2> QED
    BY <1>1, <2>1, <2>2
<1>5. ASSUME entries' = [entries EXCEPT ![m] = Erased]
      PROVE  /\ Len(entries) <= Len(entries')
             /\ \A p \in Positions : entries'[p].key # Empty => entries[p].key # Empty
  <2>1. Len(entries') = Len(entries) /\ Erased.key = Empty
    BY <1>1, <1>5 DEF Erased
  <2>2. ASSUME NEW p \in Positions PROVE entries'[p] \in {entries[p], Erased}
    BY <1>1, <1>5 DEF Positions
  <2> QED
    BY <1>1, <2>1, <2>2
<1>6. ASSUME Clear
      PROVE  /\ Len(entries) <= Len(entries')
             /\ \A p \in Positions : entries'[p].key # Empty => entries[p].key # Empty
  BY <1>1, <1>6 DEF Clear, Erased, Positions
<1> QED
  BY <1>2, <1>3, <1>4, <1>5, <1>6 DEF _ejs_map_set, _ejs_set_add, _ejs_set_delete, m

LEMMA EntriesChange ==
    ASSUME MapSetInv, [Next]_vars, NEW k, NEW v,
           _ejs_map_set(k, v) \/ _ejs_set_add(k) \/ _ejs_set_delete(k) \/ Clear
    PROVE  LoopsInv' /\ KindInv'
<1>1. IInv /\ LoopsInv /\ KindInv
  BY DEF MapSetInv
<1>2. IInv'
  BY <1>1, NextIInv
<1>3. EntriesType /\ EntriesType'
  BY <1>1, <1>2 DEF IInv
<1>4. UNCHANGED <<loops, kind>>
  BY DEF _ejs_map_set, _ejs_set_add, _ejs_set_delete, Clear
<1>5. LoopsInv'
  BY <1>1, <1>3, <1>4, EntriesGrow, LoopsFrame
<1> QED
  BY <1>1, <1>4, <1>5 DEF KindInv

\* forEach goes from p to the first live entry after p: nothing lies between.
LEMMA NextVisit ==
    ASSUME EntriesType, NEW at \in Nat, NEW visited \in SUBSET Positions,
           \A q \in Live : q <= at => q \in visited,
           LiveAfter(at) # {}
    PROVE  LET l == [at |-> First(LiveAfter(at)),
                     visited |-> visited \union {First(LiveAfter(at))}]
           IN  l \in Loop /\ LoopInv(l)
<1> DEFINE p == First(LiveAfter(at))
<1>1. LiveAfter(at) \in SUBSET Nat /\ LiveAfter(at) \subseteq Live /\ Live \subseteq Positions
  BY DEF LiveAfter, Live, EntriesType, Positions
<1>2. p \in LiveAfter(at) /\ \A q \in LiveAfter(at) : p <= q
  BY <1>1, FirstIsLeast
<1> HIDE DEF p
<1>3. p \in Positions /\ p \in Nat
  BY <1>1, <1>2
<1> DEFINE l == [at |-> p, visited |-> visited \union {p}]
<1>4. l \in Loop
  BY <1>3 DEF Loop
<1>5. l.at = p /\ l.visited = visited \union {p}
  OBVIOUS
<1>6. ASSUME NEW q \in Live, q <= p PROVE q \in visited \union {p}
  <2>1. q \in Nat
    BY <1>1 DEF Positions, EntriesType
  <2>2. CASE q <= at
    BY <2>2
  <2>3. CASE ~(q <= at)
    <3>1. q \in LiveAfter(at)
      BY <2>1, <2>3 DEF LiveAfter
    <3> QED
      BY <1>2, <1>3, <1>6, <2>1, <3>1
  <2> QED
    BY <2>2, <2>3
<1>7. LoopInv(l)
  BY <1>5, <1>6 DEF LoopInv
<1> QED
  BY <1>4, <1>7 DEF p

\* Popping the innermost call, and pushing one.
LEMMA OuterInv ==
    ASSUME EntriesType, LoopsInv, loops # <<>>
    PROVE  /\ Len(loops) \in Nat \ {0} /\ loops[Len(loops)] \in Loop
           /\ Outer \in Seq(Loop) /\ Len(Outer) = Len(loops) - 1
           /\ \A j \in 1 .. Len(Outer) : Outer[j] = loops[j]
<1> DEFINE n == Len(loops)
<1>1. loops \in Seq(Loop) /\ n \in Nat /\ n # 0
  BY DEF LoopsInv
<1>2. 1 \in 1 .. n + 1 /\ n - 1 \in Nat /\ n \in 1 .. n
  BY <1>1
<1>3. loops[n] \in Loop /\ \A j \in 1 .. n - 1 : loops[j] \in Loop
  BY <1>1, <1>2
<1>4. Outer = [j \in 1 .. n - 1 |-> loops[j]]
  BY <1>1, <1>2 DEF Outer
<1> HIDE DEF n
<1>5. Outer \in Seq(Loop) /\ Len(Outer) = n - 1 /\ \A j \in 1 .. n - 1 : Outer[j] = loops[j]
  BY <1>2, <1>3, <1>4
<1> QED
  BY <1>1, <1>3, <1>5 DEF n

LEMMA PushInv ==
    ASSUME NEW s \in Seq(Loop), \A j \in 1 .. Len(s) : LoopInv(s[j]),
           NEW l \in Loop, LoopInv(l)
    PROVE  /\ Append(s, l) \in Seq(Loop)
           /\ \A j \in 1 .. Len(Append(s, l)) : LoopInv(Append(s, l)[j])
<1>1. /\ Append(s, l) \in Seq(Loop) /\ Len(Append(s, l)) = Len(s) + 1 /\ Len(s) \in Nat
      /\ \A j \in 1 .. Len(s) : Append(s, l)[j] = s[j]
      /\ Append(s, l)[Len(s) + 1] = l
  OBVIOUS
<1>2. ASSUME NEW j \in 1 .. Len(s) + 1 PROVE LoopInv(Append(s, l)[j])
  <2>1. CASE j = Len(s) + 1
    BY <1>1, <2>1
  <2>2. CASE j # Len(s) + 1
    <3>1. j \in 1 .. Len(s)
      BY <1>1, <2>2
    <3> QED
      BY <1>1, <3>1
  <2> QED
    BY <2>1, <2>2
<1> QED
  BY <1>1, <1>2

\* Loops change and entries do not.
LEMMA LoopsNew ==
    ASSUME UNCHANGED entries, loops' \in Seq(Loop),
           \A j \in 1 .. Len(loops') : LoopInv(loops'[j])
    PROVE  LoopsInv'
<1>1. Loop' = Loop
  BY DEF Loop, Positions
<1>2. Live' = Live
  BY DEF Live, IsEmpty
<1> QED
  BY <1>1, <1>2 DEF LoopsInv, LoopInv

LEMMA StartLoopStep ==
    ASSUME EntriesType, LoopsInv, StartLoop
    PROVE  LoopsInv'
<1>1. CASE LiveAfter(0) = {}
  BY <1>1, LoopsNew DEF StartLoop, LoopsInv
<1>2. CASE LiveAfter(0) # {}
  <2> DEFINE p == First(LiveAfter(0))
             l == [at |-> p, visited |-> {} \union {p}]
  <2>1. \A q \in Live : ~(q <= 0)
    BY DEF Live, EntriesType
  <2>2. l \in Loop /\ LoopInv(l)
    BY <1>2, <2>1, NextVisit
  <2>3. loops' = Append(loops, l) /\ UNCHANGED entries
    BY <1>2 DEF StartLoop
  <2> HIDE DEF l
  <2> QED
    BY <2>2, <2>3, PushInv, LoopsNew DEF LoopsInv
<1> QED
  BY <1>1, <1>2

LEMMA ReturnsStep ==
    ASSUME EntriesType, LoopsInv, CallbackReturns
    PROVE  LoopsInv'
<1> DEFINE top == loops[Len(loops)]
<1>1. /\ Len(loops) \in Nat \ {0} /\ top \in Loop
      /\ Outer \in Seq(Loop) /\ Len(Outer) = Len(loops) - 1
      /\ \A j \in 1 .. Len(Outer) : Outer[j] = loops[j]
  BY OuterInv DEF CallbackReturns
<1>2. LoopInv(top) /\ \A j \in 1 .. Len(Outer) : LoopInv(Outer[j])
  BY <1>1 DEF LoopsInv
<1>3. UNCHANGED entries
  BY DEF CallbackReturns
<1>4. CASE LiveAfter(top.at) = {}
  BY <1>1, <1>2, <1>3, <1>4, LoopsNew DEF CallbackReturns
<1>5. CASE LiveAfter(top.at) # {}
  <2> DEFINE p == First(LiveAfter(top.at))
             l == [at |-> p, visited |-> top.visited \union {p}]
  <2>1. loops' = Append(Outer, l)
    BY <1>5 DEF CallbackReturns
  <2>2. top.at \in Positions /\ top.visited \in SUBSET Positions
    BY <1>1 DEF Loop
  <2>3. top.at \in Nat /\ \A q \in Live : q <= top.at => q \in top.visited
    BY <1>2, <2>2 DEF LoopInv, Positions, EntriesType
  <2> HIDE DEF top
  <2>4. l \in Loop /\ LoopInv(l)
    BY <1>5, <2>2, <2>3, NextVisit
  <2> HIDE DEF l
  <2> QED
    BY <1>1, <1>2, <1>3, <2>1, <2>4, PushInv, LoopsNew
<1> QED
  BY <1>4, <1>5

LEMMA ThrowsStep ==
    ASSUME EntriesType, LoopsInv, CallbackThrows
    PROVE  LoopsInv'
<1>1. /\ Outer \in Seq(Loop) /\ Len(Outer) = Len(loops) - 1 /\ Len(loops) \in Nat
      /\ \A j \in 1 .. Len(Outer) : Outer[j] = loops[j]
  BY OuterInv DEF CallbackThrows
<1>2. \A j \in 1 .. Len(Outer) : LoopInv(Outer[j])
  BY <1>1 DEF LoopsInv
<1> QED
  BY <1>1, <1>2, LoopsNew DEF CallbackThrows

LEMMA LoopsUntouched ==
    ASSUME LoopsInv, KindInv, UNCHANGED <<kind, entries, loops>>
    PROVE  LoopsInv' /\ KindInv'
BY LoopsNew DEF LoopsInv, KindInv

LEMMA MapSetInvStep == MapSetInv /\ [Next]_vars => MapSetInv'
<1> SUFFICES ASSUME MapSetInv, [Next]_vars PROVE MapSetInv'
  OBVIOUS
<1>1. IInv /\ LoopsInv /\ KindInv /\ EntriesType
  BY DEF MapSetInv, IInv
<1>2. IInv'
  BY <1>1, NextIInv
<1> SUFFICES LoopsInv' /\ KindInv'
  BY <1>2 DEF MapSetInv
<1>3. ASSUME NEW k \in Key, NEW v \in Value, _ejs_map_set(k, v) PROVE LoopsInv' /\ KindInv'
  BY <1>3, EntriesChange
<1>4. ASSUME NEW k \in Key, _ejs_set_add(k) \/ _ejs_set_delete(k) PROVE LoopsInv' /\ KindInv'
  BY <1>4, EntriesChange
<1>5. CASE Clear
  BY <1>5, EntriesChange
<1>6. ASSUME NEW k \in Key, Has(k) \/ _ejs_map_get(k) \/ _ejs_map_delete(k)
      PROVE  LoopsInv' /\ KindInv'
  BY <1>1, <1>6, LoopsUntouched DEF Has, _ejs_map_get, _ejs_map_delete
<1>7. CASE Size \/ UNCHANGED vars
  BY <1>1, <1>7, LoopsUntouched DEF Size, vars
<1>8. ASSUME NEW i \in Iter, CreateIterator(i) \/ NextEntry(i) PROVE LoopsInv' /\ KindInv'
  BY <1>1, <1>8, LoopsUntouched DEF CreateIterator, NextEntry
<1>9. CASE StartLoop
  BY <1>1, <1>9, StartLoopStep DEF KindInv, StartLoop
<1>10. CASE CallbackReturns
  BY <1>1, <1>10, ReturnsStep DEF KindInv, CallbackReturns
<1>11. CASE CallbackThrows
  BY <1>1, <1>11, ThrowsStep DEF KindInv, CallbackThrows
<1>12. CASE MapStep
  BY <1>3, <1>5, <1>6, <1>7, <1>8, <1>9, <1>12 DEF MapStep, _ejs_map_has,
     _ejs_Map_prototype_clear, _ejs_Map_prototype_get_size, _ejs_map_iterator_new,
     _ejs_MapIterator_prototype_next, _ejs_Map_prototype_forEach
<1>13. CASE SetStep
  BY <1>4, <1>5, <1>6, <1>7, <1>8, <1>9, <1>13 DEF SetStep, _ejs_set_has,
     _ejs_Set_prototype_clear, _ejs_Set_prototype_get_size, _ejs_set_iterator_new,
     _ejs_SetIterator_prototype_next, _ejs_Set_prototype_forEach
<1> QED
  BY <1>7, <1>10, <1>11, <1>12, <1>13 DEF Next

\* With the forEach calls the invariant is still inductive.
THEOREM MapSetInvariance == Spec => []MapSetInv
<1>1. Init => MapSetInv
  BY InitIInv, KindAssumption DEF Init, MapSetInv, LoopsInv, KindInv
<1> QED
  BY <1>1, MapSetInvStep, PTL DEF Spec

\* Every entry, iterator and forEach call of ejs-map.c and ejs-set.c keeps its
\* type: positions that iterators and callbacks hold never leave the list.
THEOREM MapSetTypes == Spec => []TypeOK
<1>1. MapSetInv => TypeOK
  <2> SUFFICES ASSUME MapSetInv PROVE TypeOK
    OBVIOUS
  <2>1. /\ kind \in {"Map", "Set"} /\ entries \in Seq(Entry) /\ loops \in Seq(Loop)
    BY DEF MapSetInv, IInv, EntriesType, LoopsInv, KindInv
  <2>2. /\ iter \in [Iter -> [iterated : BOOLEAN, next_index : Nat, returned : Seq(Nat)]]
        /\ \A i \in Iter : iter[i].returned \in Seq(Positions)
    BY DEF MapSetInv, IInv, IterInv, IteratorInv
  <2>3. ASSUME NEW i \in Iter
        PROVE  iter[i] \in [iterated : BOOLEAN, next_index : Nat, returned : Seq(Positions)]
    <3>1. iter[i] \in [iterated : BOOLEAN, next_index : Nat, returned : Seq(Nat)]
      BY <2>2
    <3>2. iter[i].returned \in Seq(Positions)
      BY <2>2
    <3> QED
      BY <3>1, <3>2
  <2>4. iter \in [Iter -> [iterated : BOOLEAN, next_index : Nat, returned : Seq(Positions)]]
    BY <2>2, <2>3
  <2> QED
    BY <2>1, <2>4 DEF TypeOK, Entry, Loop
<1> QED
  BY <1>1, MapSetInvariance, PTL

\* When forEach returns, and does not throw, every entry that is in the
\* collection then has been given to its callback, whatever the callbacks
\* emptied, added or iterated over on the way.
THEOREM ForEachLeavesNoneOut == Spec => ForEachVisitsAll
<1> DEFINE Returns == loops # <<>> /\ Len(loops') < Len(loops) /\ res'[1] # "throw"
<1>1. ASSUME MapSetInv, [Next]_vars, Returns
      PROVE  Live \subseteq loops[Len(loops)].visited
  <2>1. loops \in Seq(Loop) /\ Len(loops) \in Nat /\ EntriesType
    BY <1>1 DEF MapSetInv, LoopsInv, IInv
  <2>2. ASSUME UNCHANGED loops PROVE FALSE
    BY <1>1, <2>1, <2>2
  <2>3. ASSUME StartLoop PROVE FALSE
    <3>1. loops' \in {loops, Append(loops, [at |-> First(LiveAfter(0)), visited |-> {First(LiveAfter(0))}])}
      BY <2>3 DEF StartLoop
    <3> QED
      BY <1>1, <2>1, <3>1
  <2>4. ASSUME CallbackThrows PROVE FALSE
    BY <1>1, <2>4 DEF CallbackThrows
  <2>5. CallbackReturns
    BY <1>1, <2>2, <2>3, <2>4 DEF Next, vars, MapStep, SetStep, _ejs_map_set, _ejs_set_add,
       _ejs_set_delete, _ejs_map_delete, Clear, _ejs_Map_prototype_clear, _ejs_Set_prototype_clear,
       Has, _ejs_map_has, _ejs_set_has, _ejs_map_get, Size, _ejs_Map_prototype_get_size,
       _ejs_Set_prototype_get_size, CreateIterator, _ejs_map_iterator_new, _ejs_set_iterator_new,
       NextEntry, _ejs_MapIterator_prototype_next, _ejs_SetIterator_prototype_next,
       _ejs_Map_prototype_forEach, _ejs_Set_prototype_forEach
  <2> DEFINE top == loops[Len(loops)]
             p == First(LiveAfter(top.at))
             l == [at |-> p, visited |-> top.visited \union {p}]
  <2>6. /\ Len(loops) \in Nat \ {0} /\ top \in Loop /\ LoopInv(top)
        /\ Outer \in Seq(Loop) /\ Len(Outer) = Len(loops) - 1
    BY <1>1, <2>1, OuterInv DEF MapSetInv, LoopsInv
  <2>7. LiveAfter(top.at) = {}
    <3>1. CASE LiveAfter(top.at) # {}
      <4>1. loops' = Append(Outer, l)
        BY <2>5, <3>1 DEF CallbackReturns
      <4> HIDE DEF l
      <4>2. Len(loops') = Len(loops)
        BY <2>6, <4>1
      <4> QED
        BY <1>1, <2>1, <4>2
    <3> QED
      BY <3>1
  <2>8. top.at \in Nat /\ Live \subseteq Nat
    BY <2>1, <2>6 DEF Loop, Positions, EntriesType, Live
  <2> QED
    BY <2>6, <2>7, <2>8 DEF LoopInv, LiveAfter
<1>2. MapSetInv /\ [Next]_vars => [Returns => Live \subseteq loops[Len(loops)].visited]_vars
  BY <1>1
<1> QED
  BY <1>2, MapSetInvariance, PTL DEF Spec, ForEachVisitsAll

-----------------------------------------------------------------------------
(* Induction and recursion along an interval.  Sets and functions take the   *)
(* place of operator parameters.                                             *)

\* A set that contains 0 and with a number the next one contains all.
LEMMA Induction ==
    ASSUME NEW P, 0 \in P, \A n \in Nat : n \in P => n + 1 \in P
    PROVE  \A n \in Nat : n \in P
<1> DEFINE T == {n \in Nat : n \notin P}
<1> SUFFICES ASSUME T # {} PROVE FALSE
  OBVIOUS
<1>1. T \subseteq Nat
  OBVIOUS
<1>2. PICK x \in T : \A y \in T : ~(<<y, x>> \in OpToRel(<, Nat))
  BY <1>1, NatLessThanWellFounded, WFMin
<1>3. x \in Nat /\ x # 0 /\ x - 1 \in Nat /\ x - 1 + 1 = x
  OBVIOUS
<1>4. x - 1 \in T
  BY <1>3
<1>5. <<x - 1, x>> \in OpToRel(<, Nat)
  BY <1>3 DEF OpToRel
<1> QED
  BY <1>2, <1>4, <1>5

\* The same up to a bound.
LEMMA BoundedInduction ==
    ASSUME NEW N \in Nat, NEW P, 0 \in P, \A n \in 0 .. N - 1 : n \in P => n + 1 \in P
    PROVE  \A n \in 0 .. N : n \in P
<1> DEFINE Q == {n \in Nat : n \in 0 .. N => n \in P}
<1>1. 0 \in Q
  OBVIOUS
<1>2. ASSUME NEW n \in Nat, n \in Q PROVE n + 1 \in Q
  <2>1. CASE n + 1 \in 0 .. N
    <3>1. n \in 0 .. N - 1 /\ n \in 0 .. N
      BY <2>1
    <3> QED
      BY <1>2, <3>1
  <2>2. CASE n + 1 \notin 0 .. N
    BY <2>2
  <2> QED
    BY <2>1, <2>2
<1> HIDE DEF Q
<1>3. \A n \in Nat : n \in Q
  BY <1>1, <1>2, Induction
<1> QED
  BY <1>3 DEF Q

Iterates(N, x0, step, f) == f[0] = x0 /\ \A i \in 1 .. N : f[i] = step[<<i, f[i - 1]>>]

\* A function defined by recursion exists.
LEMMA Recursion ==
    ASSUME NEW N \in Nat, NEW S, NEW x0 \in S, NEW step \in [(1 .. N) \X S -> S]
    PROVE  \E f \in [0 .. N -> S] : Iterates(N, x0, step, f)
<1> DEFINE Good(n, f) == f[0] = x0 /\ \A i \in 1 .. n : f[i] = step[<<i, f[i - 1]>>]
           P == {n \in 0 .. N : \E f \in [0 .. n -> S] : Good(n, f)}
<1>1. 0 \in P
  <2> DEFINE f == [i \in 0 .. 0 |-> x0]
  <2>1. f \in [0 .. 0 -> S] /\ f[0] = x0 /\ 1 .. 0 = {}
    OBVIOUS
  <2> HIDE DEF f
  <2>2. \E ff \in [0 .. 0 -> S] : Good(0, ff)
    BY <2>1
  <2>3. 0 \in 0 .. N
    OBVIOUS
  <2> QED
    BY <2>2, <2>3
<1>2. ASSUME NEW n \in 0 .. N - 1, n \in P PROVE n + 1 \in P
  <2>1. PICK f \in [0 .. n -> S] : Good(n, f)
    BY <1>2
  <2> DEFINE g == [i \in 0 .. n + 1 |-> IF i = n + 1 THEN step[<<n + 1, f[n]>>] ELSE f[i]]
  <2>2. n \in 0 .. n /\ <<n + 1, f[n]>> \in (1 .. N) \X S
    OBVIOUS
  <2>3. g \in [0 .. n + 1 -> S]
    BY <2>2
  <2>4. g[0] = x0 /\ g[n + 1] = step[<<n + 1, f[n]>>] /\ g[n] = f[n]
    BY <2>1
  <2>5. ASSUME NEW i \in 1 .. n PROVE g[i] = step[<<i, g[i - 1]>>]
    <3>1. g[i] = f[i] /\ g[i - 1] = f[i - 1]
      OBVIOUS
    <3> QED
      BY <2>1, <3>1
  <2>6. n + 1 - 1 = n /\ \A i \in 1 .. n + 1 : i \in 1 .. n \/ i = n + 1
    OBVIOUS
  <2> HIDE DEF g
  <2>7. ASSUME NEW i \in 1 .. n + 1 PROVE g[i] = step[<<i, g[i - 1]>>]
    BY <2>4, <2>5, <2>6
  <2>8. n + 1 \in 0 .. N
    OBVIOUS
  <2> QED
    BY <2>3, <2>4, <2>7, <2>8
<1> HIDE DEF P
<1>3. \A n \in 0 .. N : n \in P
  BY <1>1, <1>2, BoundedInduction
<1> QED
  BY <1>3 DEF P, Iterates

-----------------------------------------------------------------------------
(* The refinement.  pos lists the positions of the live entries.             *)

Lined(pos) ==
    /\ pos \in Seq(Positions)
    /\ \A m, n \in 1 .. Len(pos) : m < n => pos[m] < pos[n]
    /\ {pos[n] : n \in 1 .. Len(pos)} = Live

ItemsInv == \E pos : Lined(pos)

\* The items are the entries at the positions in pos.
LEMMA ItemsAre ==
    ASSUME EntriesType, NEW pos, Lined(pos)
    PROVE  /\ Items \in Seq(Entry) /\ Len(Items) = Len(pos)
           /\ \A n \in 1 .. Len(pos) : Items[n] = entries[pos[n]]
<1> DEFINE N == Len(entries)
           S == Seq(Entry)
           To(p, r) == IF IsEmpty(p) THEN r ELSE Append(r, entries[p])
           Eq(f) == f = [p \in 0 .. N |-> IF p = 0 THEN <<>>
                                          ELSE IF IsEmpty(p) THEN f[p - 1] ELSE Append(f[p - 1], entries[p])]
           f == CHOOSE f : Eq(f)
           step == [x \in (1 .. N) \X S |-> To(x[1], x[2])]
<1>1. Items = f[N]
  BY DEF Items
<1>2. entries \in Seq(Entry) /\ N \in Nat /\ <<>> \in S
  BY DEF EntriesType
<1>3. ASSUME NEW p \in 1 .. N, NEW r \in S PROVE To(p, r) \in S
  BY <1>2
<1>4. step \in [(1 .. N) \X S -> S] /\ \A p \in 1 .. N, r \in S : step[<<p, r>>] = To(p, r)
  <2> HIDE DEF N, S, To
  <2> QED
    BY <1>3
<1> HIDE DEF step
<1>5. \E g \in [0 .. N -> S] : Iterates(N, <<>>, step, g)
  BY <1>2, <1>4, Recursion
<1>6. PICK g \in [0 .. N -> S] : g[0] = <<>> /\ \A p \in 1 .. N : g[p] = step[<<p, g[p - 1]>>]
  BY <1>5 DEF Iterates
<1>7. ASSUME NEW p \in 0 .. N PROVE g[p] = IF p = 0 THEN <<>> ELSE To(p, g[p - 1])
  <2>1. CASE p = 0
    BY <1>6, <2>1
  <2>2. CASE p # 0
    <3>1. p \in 1 .. N /\ p - 1 \in 0 .. N
      BY <1>2, <2>2
    <3> QED
      BY <1>4, <1>6, <2>2, <3>1
  <2> QED
    BY <2>1, <2>2
<1>8. Eq(g)
  <2>1. g = [p \in 0 .. N |-> g[p]]
    BY <1>6
  <2> QED
    BY <1>7, <2>1
<1>9. Eq(f)
  <2> HIDE DEF Eq
  <2> QED
    BY <1>8
<1> HIDE DEF f
<1>10. f[0] = <<>> /\ \A p \in 1 .. N : f[p] = To(p, f[p - 1])
  <2>1. 0 \in 0 .. N /\ \A p \in 1 .. N : p \in 0 .. N /\ p # 0
    BY <1>2
  <2> QED
    BY <1>9, <2>1
<1> HIDE DEF Eq
<1>11. /\ pos \in Seq(Positions) /\ Len(pos) \in Nat
       /\ \A n \in 1 .. Len(pos) : pos[n] \in 1 .. N /\ ~IsEmpty(pos[n]) /\ entries[pos[n]] \in Entry
       /\ \A m, n \in 1 .. Len(pos) : m < n => pos[m] < pos[n]
       /\ \A p \in 1 .. N : ~IsEmpty(p) => \E n \in 1 .. Len(pos) : pos[n] = p
  <2>1. pos \in Seq(Positions) /\ {pos[n] : n \in 1 .. Len(pos)} = Live
    BY DEF Lined
  <2>2. \A n \in 1 .. Len(pos) : pos[n] \in Live
    BY <2>1
  <2> QED
    BY <1>2, <2>1, <2>2 DEF Lined, Live
<1> DEFINE Shows(r, p, m) ==
               /\ \A n \in 1 .. Len(pos) : pos[n] <= p <=> n <= m
               /\ r \in S /\ Len(r) = m /\ \A n \in 1 .. m : r[n] = entries[pos[n]]
           P == {p \in 0 .. N : \E m \in 0 .. Len(pos) : Shows(f[p], p, m)}
<1>12. 0 \in P
  <2>1. Shows(f[0], 0, 0) /\ 0 \in 0 .. Len(pos) /\ 0 \in 0 .. N
    BY <1>2, <1>10, <1>11
  <2> QED
    BY <2>1
<1>13. ASSUME NEW i \in 0 .. N - 1, i \in P PROVE i + 1 \in P
  <2> DEFINE p == i + 1
             r == f[i]
  <2>1. p \in 1 .. N /\ p \in Nat /\ p - 1 = i /\ p \in 0 .. N /\ i \in Nat
    BY <1>2
  <2>2. PICK m \in 0 .. Len(pos) : Shows(r, i, m)
    BY <1>13
  <2>3. r \in Seq(Entry) /\ Len(r) = m /\ \A n \in 1 .. m : r[n] = entries[pos[n]]
    BY <2>2
  <2>4. f[p] = To(p, r)
    BY <1>10, <2>1
  <2>5. \A n \in 1 .. Len(pos) : pos[n] <= p <=> n <= m \/ pos[n] = p
    BY <1>11, <2>1, <2>2
  <2> HIDE DEF p, r
  <2>6. CASE IsEmpty(p)
    <3>1. Shows(f[p], p, m)
      BY <1>11, <2>3, <2>4, <2>5, <2>6
    <3> QED
      BY <2>1, <3>1 DEF p
  <2>7. CASE ~IsEmpty(p)
    <3>1. PICK j \in 1 .. Len(pos) : pos[j] = p
      BY <1>11, <2>1, <2>7
    <3>2. j > m /\ ~(m + 1 < j)
      <4>1. j > m
        BY <1>11, <2>1, <2>2, <3>1 DEF p
      <4>2. ASSUME m + 1 < j PROVE FALSE
        <5>1. m + 1 \in 1 .. Len(pos)
          BY <1>11, <4>2
        <5>2. pos[m + 1] < p /\ pos[m + 1] \in Nat
          BY <1>11, <3>1, <4>2, <5>1
        <5>3. pos[m + 1] <= i
          BY <2>1, <5>2
        <5> QED
          BY <2>2, <5>1, <5>3
      <4> QED
        BY <4>1, <4>2
    <3>3. j = m + 1
      BY <1>11, <3>2
    <3>4. entries[p] \in Entry /\ f[p] = Append(r, entries[p])
      BY <1>11, <2>4, <2>7, <3>1
    <3> DEFINE t == Append(r, entries[p])
    <3>5. /\ t \in Seq(Entry) /\ Len(t) = m + 1 /\ t[m + 1] = entries[p]
          /\ \A n \in 1 .. m : t[n] = r[n]
      BY <2>3, <3>4
    <3> HIDE DEF t
    <3>6. \A n \in 1 .. m + 1 : t[n] = entries[pos[n]]
      <4>1. t[m + 1] = entries[pos[m + 1]]
        BY <3>1, <3>3, <3>5
      <4>2. \A n \in 1 .. m : t[n] = entries[pos[n]]
        BY <2>3, <3>5
      <4>3. \A n \in 1 .. m + 1 : n \in 1 .. m \/ n = m + 1
        BY <1>11
      <4> QED
        BY <4>1, <4>2, <4>3
    <3>7. \A n \in 1 .. Len(pos) : pos[n] <= p <=> n <= m + 1
      <4>1. \A n \in 1 .. Len(pos) : pos[n] = p => n = j
        BY <1>11, <3>1
      <4> QED
        BY <1>11, <2>5, <3>1, <3>3, <4>1
    <3>8. Shows(f[p], p, m + 1) /\ m + 1 \in 0 .. Len(pos)
      BY <3>3, <3>4, <3>5, <3>6, <3>7 DEF t
    <3> QED
      BY <2>1, <3>8 DEF p
  <2> QED
    BY <2>6, <2>7
<1> HIDE DEF P
<1>14. \A p \in 0 .. N : p \in P
  BY <1>2, <1>12, <1>13, BoundedInduction
<1>15. N \in P
  BY <1>2, <1>14
<1>16. PICK m \in 0 .. Len(pos) : Shows(f[N], N, m)
  BY <1>15 DEF P
<1>17. m = Len(pos)
  <2>1. CASE Len(pos) = 0
    BY <1>16, <2>1
  <2>2. CASE Len(pos) # 0
    <3>1. Len(pos) \in 1 .. Len(pos) /\ pos[Len(pos)] <= N
      BY <1>2, <1>11, <2>2
    <3> QED
      BY <1>11, <1>16, <3>1
  <2> QED
    BY <2>1, <2>2
<1> QED
  BY <1>1, <1>16, <1>17

\* Entries that are only changed in place, and not emptied, stay where they are.
LEMMA LinedFrame ==
    ASSUME EntriesType, EntriesType', NEW pos, Lined(pos), Len(entries') = Len(entries),
           \A p \in Positions : entries'[p].key = Empty <=> entries[p].key = Empty
    PROVE  Lined(pos)'
<1>1. Positions' = Positions
  BY DEF Positions
<1>2. Live' = Live
  BY DEF Live, IsEmpty, Positions
<1> QED
  BY <1>1, <1>2 DEF Lined

\* The same for the next state.
ItemsFact ==
    \A pos : EntriesType /\ Lined(pos) =>
        /\ Items \in Seq(Entry) /\ Len(Items) = Len(pos)
        /\ \A n \in 1 .. Len(pos) : Items[n] = entries[pos[n]]

LEMMA ItemsAreAlways == ItemsFact
BY ItemsAre DEF ItemsFact

LEMMA ItemsAreNext == ItemsFact'
BY ItemsAreAlways, PTL

LEMMA LinedAppend ==
    ASSUME EntriesType, EntriesType', NEW pos, Lined(pos), NEW e, e.key # Empty, e \in Entry,
           entries' = Append(entries, e),
           NEW t, t = Append(pos, Len(entries) + 1)
    PROVE  Lined(t)' /\ Len(t) = Len(pos) + 1 /\ \A n \in 1 .. Len(pos) : t[n] = pos[n]
<1> DEFINE N == Len(entries)
           L == Len(pos)
<1>1. /\ N \in Nat /\ Len(entries') = N + 1 /\ entries'[N + 1] = e
      /\ \A p \in 1 .. N : entries'[p] = entries[p]
  BY DEF EntriesType
<1>2. /\ pos \in Seq(Positions) /\ L \in Nat /\ {pos[n] : n \in 1 .. L} = Live
      /\ \A n \in 1 .. L : pos[n] \in 1 .. N
      /\ \A m, n \in 1 .. L : m < n => pos[m] < pos[n]
  BY DEF Lined, Positions
<1>3. pos \in Seq(Positions') /\ N + 1 \in Positions'
  <2>1. pos \in Seq(1 .. N)
    BY <1>2 DEF Positions
  <2>2. 1 .. N \subseteq Positions' /\ N + 1 \in Positions'
    BY <1>1 DEF Positions
  <2> QED
    BY <2>1, <2>2
<1>4. /\ t \in Seq(Positions') /\ Len(t) = L + 1 /\ t[L + 1] = N + 1
      /\ \A n \in 1 .. L : t[n] = pos[n]
  BY <1>2, <1>3
<1>5. Live' = Live \union {N + 1}
  BY <1>1 DEF Live, IsEmpty
<1> HIDE DEF N, L
<1>6. \A n \in 1 .. L + 1 : n \in 1 .. L \/ n = L + 1
  BY <1>2
<1>7. ASSUME NEW m \in 1 .. Len(t), NEW n \in 1 .. Len(t), m < n PROVE t[m] < t[n]
  <2>1. m \in 1 .. L
    BY <1>2, <1>4, <1>7
  <2>2. CASE n \in 1 .. L
    BY <1>2, <1>4, <1>7, <2>1, <2>2
  <2>3. CASE n = L + 1
    BY <1>1, <1>2, <1>4, <2>1, <2>3
  <2> QED
    BY <1>4, <1>6, <2>2, <2>3
<1>8. {t[n] : n \in 1 .. Len(t)} = Live'
  <2>1. L + 1 \in 1 .. L + 1 /\ \A n \in 1 .. L : n \in 1 .. L + 1
    BY <1>2
  <2> QED
    BY <1>2, <1>4, <1>5, <1>6, <2>1
<1>9. Len(t) = Len(pos) + 1
  BY <1>4 DEF L
<1> QED
  BY <1>4, <1>7, <1>8, <1>9 DEF Lined, L

LEMMA LinedErase ==
    ASSUME EntriesType, EntriesType', NEW pos, Lined(pos), NEW i \in 1 .. Len(pos),
           entries' = [entries EXCEPT ![pos[i]] = Erased],
           NEW t, t = [j \in 1 .. Len(pos) - 1 |-> pos[IF j < i THEN j ELSE j + 1]]
    PROVE  Lined(t)' /\ Len(t) = Len(pos) - 1
<1> DEFINE N == Len(entries)
           L == Len(pos)
           p == pos[i]
<1>1. /\ pos \in Seq(Positions) /\ L \in Nat /\ {pos[n] : n \in 1 .. L} = Live
      /\ \A n \in 1 .. L : pos[n] \in 1 .. N /\ pos[n] \in Positions
      /\ \A m, n \in 1 .. L : m < n => pos[m] < pos[n]
  BY DEF Lined, Positions
<1>2. N \in Nat /\ Len(entries') = N /\ Positions' = Positions
  BY <1>1 DEF EntriesType, Positions
<1>3. entries'[p].key = Empty /\ \A q \in 1 .. N : q # p => entries'[q] = entries[q]
  BY <1>1 DEF EntriesType, Erased
<1>4. Live' = Live \ {p}
  BY <1>2, <1>3 DEF Live, IsEmpty
<1>5. i \in 1 .. L /\ L - 1 \in Nat
  BY <1>1
<1> HIDE DEF N, L
<1>6. ASSUME NEW j \in 1 .. L - 1 PROVE t[j] \in Positions /\ t[j] \in Live /\ t[j] # p
  <2>1. CASE j < i
    BY <1>1, <1>5, <1>6, <2>1 DEF L
  <2>2. CASE ~(j < i)
    BY <1>1, <1>5, <1>6, <2>2 DEF L
  <2> QED
    BY <2>1, <2>2
<1>7. t \in Seq(Positions') /\ Len(t) = L - 1
  BY <1>2, <1>5, <1>6 DEF L
<1>8. ASSUME NEW m \in 1 .. L - 1, NEW n \in 1 .. L - 1, m < n PROVE t[m] < t[n]
  <2>1. /\ t[m] = pos[IF m < i THEN m ELSE m + 1] /\ t[n] = pos[IF n < i THEN n ELSE n + 1]
        /\ (IF m < i THEN m ELSE m + 1) \in 1 .. L /\ (IF n < i THEN n ELSE n + 1) \in 1 .. L
        /\ (IF m < i THEN m ELSE m + 1) < (IF n < i THEN n ELSE n + 1)
    BY <1>5, <1>8 DEF L
  <2> QED
    BY <1>1, <2>1
<1>9. ASSUME NEW q \in Live, q # p PROVE \E j \in 1 .. L - 1 : t[j] = q
  <2>1. PICK n \in 1 .. L : pos[n] = q
    BY <1>1
  <2>2. CASE n < i
    <3>1. n \in 1 .. L - 1 /\ t[n] = pos[n]
      BY <1>5, <2>1, <2>2 DEF L
    <3> QED
      BY <2>1, <3>1
  <2>3. CASE n > i
    <3>1. n - 1 \in 1 .. L - 1 /\ t[n - 1] = pos[n]
      BY <1>5, <2>1, <2>3 DEF L
    <3> QED
      BY <2>1, <3>1
  <2>4. n # i
    BY <1>9, <2>1
  <2> QED
    BY <1>5, <2>2, <2>3, <2>4
<1>10. {t[n] : n \in 1 .. L - 1} = Live'
  <2>1. \A q \in {t[n] : n \in 1 .. L - 1} : q \in Live \ {p}
    BY <1>6
  <2>2. \A q \in Live \ {p} : q \in {t[n] : n \in 1 .. L - 1}
    BY <1>9
  <2> QED
    BY <1>4, <2>1, <2>2
<1> QED
  BY <1>7, <1>8, <1>10 DEF Lined, L

\* What the search for a key finds, if undefined and null are no keys.
LEMMA MatchesIs ==
    ASSUME Key \intersect {undefined, null} = {}, IInv, NEW k \in Key
    PROVE  /\ Matches(k) = {p \in Live : entries[p].key = Canonical(k)}
           /\ Canonical(k) # Empty
           /\ Matches(k) # {} => First(Matches(k)) \in Matches(k)
<1>1. ASSUME NEW p \in 1 .. Len(entries)
      PROVE  SameValueZero(entries[p].key, k) <=> ~IsEmpty(p) /\ entries[p].key = Canonical(k)
  <2> DEFINE x == entries[p].key
  <2>1. x \in Key \union {zero, Empty} /\ (x # Empty => x # negzero)
    <3>1. entries[p] \in Entry
      BY DEF IInv, EntriesType
    <3>2. x # Empty => p \in Live
      BY DEF Live, IsEmpty
    <3> QED
      BY <3>1, <3>2 DEF IInv, Entry, KeysUnique
  <2> HIDE DEF x
  <2>2. SameValueZero(x, k) <=> x # Empty /\ x = Canonical(k)
    BY <2>1, EmptyAssumption, ZeroAssumption DEF SameValueZero, Canonical, IsNumber
  <2> QED
    BY <2>2 DEF x, IsEmpty
<1>2. Matches(k) = {p \in Live : entries[p].key = Canonical(k)}
  BY <1>1 DEF Matches, Live
<1>3. Canonical(k) # Empty
  BY EmptyAssumption DEF Canonical
<1>4. \A p, q \in Matches(k) : p = q
  BY <1>2 DEF IInv, KeysUnique
<1>5. Matches(k) # {} => First(Matches(k)) \in Matches(k)
  <2> SUFFICES ASSUME NEW p \in Matches(k) PROVE First(Matches(k)) \in Matches(k)
    OBVIOUS
  <2>1. p \in Nat
    BY DEF Matches, IInv, EntriesType
  <2>2. \E m \in Matches(k) : \A q \in Matches(k) : m <= q
    BY <1>4, <2>1
  <2> QED
    BY <2>2 DEF First
<1> QED
  BY <1>2, <1>3, <1>5

\* A step keeps the order of the items and is one of the ordered collection.
Refines == ItemsInv' /\ [Abstract!Next]_(Abstract!vars)

\* The abstract collection has the keys that the search finds.
LEMMA HasIs ==
    ASSUME Key \intersect {undefined, null} = {}, IInv, NEW pos, Lined(pos), NEW k \in Key
    PROVE  /\ \A n \in 1 .. Len(pos) : Items[n].key = Canonical(k) <=> pos[n] \in Matches(k)
           /\ Abstract!Has(Canonical(k)) <=> Matches(k) # {}
           /\ Matches(k) # {} => \E n \in 1 .. Len(pos) : pos[n] = First(Matches(k))
<1>1. Len(Items) = Len(pos) /\ \A n \in 1 .. Len(pos) : Items[n] = entries[pos[n]]
  BY ItemsAre DEF IInv
<1>2. {pos[n] : n \in 1 .. Len(pos)} = Live
  BY DEF Lined
<1>3. /\ Matches(k) = {p \in Live : entries[p].key = Canonical(k)}
      /\ Matches(k) # {} => First(Matches(k)) \in Matches(k)
  BY MatchesIs
<1>4. \A n \in 1 .. Len(pos) : Items[n].key = Canonical(k) <=> pos[n] \in Matches(k)
  BY <1>1, <1>2, <1>3
<1>5. \A p \in Matches(k) : \E n \in 1 .. Len(pos) : pos[n] = p
  BY <1>2, <1>3
<1>6. Abstract!Has(Canonical(k)) <=> \E n \in 1 .. Len(pos) : Items[n].key = Canonical(k)
  BY <1>1 DEF Abstract!Has
<1> QED
  BY <1>3, <1>4, <1>5, <1>6

LEMMA ItemsFrame ==
    ASSUME ItemsInv, UNCHANGED entries
    PROVE  ItemsInv' /\ Items' = Items
<1>1. Items' = Items
  BY DEF Items, IsEmpty
<1>2. PICK pos : Lined(pos)
  BY DEF ItemsInv
<1>3. Lined(pos)'
  BY <1>2 DEF Lined, Live, IsEmpty, Positions
<1> QED
  BY <1>1, <1>3 DEF ItemsInv

\* A key that is not there goes to the end.
LEMMA AddRefines ==
    ASSUME IInv, IInv', ItemsInv, NEW k \in Key, NEW v \in Value \union {undefined},
           Canonical(k) # Empty, Add(k, v)
    PROVE  ItemsInv' /\ Items' = Append(Items, Abstract!Item(Canonical(k), v))
<1> DEFINE e == [key |-> Canonical(k), value |-> v]
<1>1. e \in Entry /\ e.key # Empty
  BY DEF Entry, Canonical
<1>2. e = Abstract!Item(Canonical(k), v)
  BY DEF Abstract!Item
<1>3. EntriesType /\ EntriesType' /\ entries' = Append(entries, e)
  BY DEF IInv, Add
<1> HIDE DEF e
<1>4. PICK pos : Lined(pos)
  BY DEF ItemsInv
<1> PICK t : t = Append(pos, Len(entries) + 1)
  OBVIOUS
<1> DEFINE s == Append(Items, e)
<1>5. Lined(t)' /\ Len(t) = Len(pos) + 1 /\ \A n \in 1 .. Len(pos) : t[n] = pos[n]
  BY <1>1, <1>3, <1>4, LinedAppend
<1>6. /\ Items \in Seq(Entry) /\ Len(Items) = Len(pos)
      /\ \A n \in 1 .. Len(pos) : Items[n] = entries[pos[n]]
  BY <1>3, <1>4, ItemsAre
<1>7. /\ pos \in Seq(Positions) /\ Len(pos) \in Nat /\ t[Len(pos) + 1] = Len(entries) + 1
      /\ \A n \in 1 .. Len(pos) : pos[n] \in 1 .. Len(entries)
  BY <1>4 DEF Lined, Positions
<1>8. s \in Seq(Entry) /\ Len(s) = Len(pos) + 1 /\ s[Len(pos) + 1] = e /\ \A n \in 1 .. Len(pos) : s[n] = Items[n]
  BY <1>1, <1>6
<1>9. entries'[Len(entries) + 1] = e /\ \A p \in 1 .. Len(entries) : entries'[p] = entries[p]
  BY <1>1, <1>3 DEF EntriesType
<1> HIDE DEF s
<1>10. /\ (Items \in Seq(Entry))' /\ Len(Items') = Len(t)
       /\ \A n \in 1 .. Len(t) : Items'[n] = entries'[t[n]]
  BY <1>3, <1>5, ItemsAreNext DEF ItemsFact
<1>11. ASSUME NEW n \in 1 .. Len(t) PROVE Items'[n] = s[n]
  <2>1. n \in 1 .. Len(pos) \/ n = Len(pos) + 1
    BY <1>5, <1>7
  <2>2. Items'[n] = entries'[t[n]]
    BY <1>10
  <2>3. CASE n \in 1 .. Len(pos)
    <3>1. t[n] = pos[n] /\ pos[n] \in 1 .. Len(entries)
      BY <1>5, <1>7, <2>3
    <3>2. entries'[pos[n]] = entries[pos[n]]
      BY <1>9, <3>1
    <3> QED
      BY <1>6, <1>8, <2>2, <2>3, <3>1, <3>2
  <2>4. CASE n = Len(pos) + 1
    BY <1>7, <1>8, <1>9, <2>2, <2>4
  <2> QED
    BY <2>1, <2>3, <2>4
<1>12. Items' = s
  <2>1. Entry' = Entry
    BY DEF Entry
  <2> QED
    BY <1>5, <1>8, <1>10, <1>11, <2>1
<1> QED
  BY <1>2, <1>5, <1>12 DEF ItemsInv, s

LEMMA SetRefines ==
    ASSUME Key \intersect {undefined, null} = {}, IInv, IInv', ItemsInv,
           NEW k \in Key, NEW v \in Value, _ejs_map_set(k, v)
    PROVE  ItemsInv' /\ Abstract!Set(Canonical(k), v)
<1> DEFINE c == Canonical(k)
           p == First(Matches(k))
<1>1. PICK pos : Lined(pos)
  BY DEF ItemsInv
<1>2. /\ c # Empty /\ Matches(k) = {q \in Live : entries[q].key = c}
      /\ Matches(k) # {} => p \in Matches(k)
  BY MatchesIs
<1>3. /\ \A n \in 1 .. Len(pos) : Items[n].key = c <=> pos[n] \in Matches(k)
      /\ Abstract!Has(c) <=> Matches(k) # {}
      /\ Matches(k) # {} => \E n \in 1 .. Len(pos) : pos[n] = p
  BY <1>1, HasIs
<1>4. res' = <<"set", c>>
  BY DEF _ejs_map_set
<1>5. CASE Matches(k) = {}
  <2>1. Add(k, v)
    BY <1>5 DEF _ejs_map_set
  <2>2. ItemsInv' /\ Items' = Append(Items, Abstract!Item(c, v))
    BY <1>2, <2>1, AddRefines
  <2>3. ~Abstract!Has(c)
    BY <1>3, <1>5
  <2> HIDE DEF c
  <2> QED
    BY <1>4, <2>2, <2>3 DEF Abstract!Set, c
<1>6. CASE Matches(k) # {}
  <2>1. entries' = [entries EXCEPT ![p].value = v]
    BY <1>6 DEF _ejs_map_set, Add
  <2>2. p \in Matches(k) /\ p \in Live /\ entries[p].key = c /\ p \in 1 .. Len(entries)
    BY <1>2, <1>6 DEF Live
  <2>3. \A q \in Matches(k) : q = p
    BY <1>2, <2>2 DEF IInv, KeysUnique
  <2> HIDE DEF p, c
  <2>4. EntriesType /\ EntriesType'
    BY DEF IInv
  <2>5. /\ Len(entries') = Len(entries)
        /\ entries'[p] = [entries[p] EXCEPT !.value = v]
        /\ \A q \in 1 .. Len(entries) : q # p => entries'[q] = entries[q]
    BY <2>1, <2>2, <2>4 DEF EntriesType
  <2>6. entries[p] \in Entry
    BY <2>2, <2>4 DEF EntriesType
  <2>7. entries'[p] = Abstract!Item(c, v)
    BY <2>2, <2>5, <2>6 DEF Entry, Abstract!Item
  <2>8. Abstract!Item(c, v).key = c
    BY DEF Abstract!Item
  <2>9. \A q \in Positions : entries'[q].key = Empty <=> entries[q].key = Empty
    BY <2>2, <2>5, <2>7, <2>8 DEF Positions
  <2>10. Lined(pos)'
    BY <1>1, <2>4, <2>5, <2>9, LinedFrame
  <2>11. /\ Items \in Seq(Entry) /\ Len(Items) = Len(pos)
         /\ \A n \in 1 .. Len(pos) : Items[n] = entries[pos[n]]
    BY <1>1, <2>4, ItemsAre
  <2>12. /\ (Items \in Seq(Entry))' /\ Len(Items') = Len(pos)
         /\ \A n \in 1 .. Len(pos) : Items'[n] = entries'[pos[n]]
    BY <2>4, <2>10, ItemsAreNext DEF ItemsFact
  <2>13. \A n \in 1 .. Len(pos) : pos[n] \in 1 .. Len(entries)
    BY <1>1 DEF Lined, Positions
  <2>14. ASSUME NEW n \in 1 .. Len(pos)
         PROVE  Items'[n] = IF Items[n].key = c THEN Abstract!Item(c, v) ELSE Items[n]
    <3>1. CASE Items[n].key = c
      <4>1. pos[n] = p
        BY <1>3, <2>3, <3>1 DEF c
      <4> QED
        BY <2>7, <2>12, <3>1, <4>1
    <3>2. CASE Items[n].key # c
      <4>1. pos[n] # p
        BY <1>3, <2>2, <3>2 DEF c
      <4> QED
        BY <2>5, <2>11, <2>12, <2>13, <3>2, <4>1
    <3> QED
      BY <3>1, <3>2
  <2>15. Items' = [n \in 1 .. Len(Items) |-> IF Items[n].key = c THEN Abstract!Item(c, v) ELSE Items[n]]
    BY <2>11, <2>12, <2>14
  <2>16. Abstract!Has(c)
    BY <1>3, <1>6 DEF c
  <2> QED
    BY <1>4, <2>10, <2>15, <2>16 DEF ItemsInv, Abstract!Set, c
<1> QED
  BY <1>5, <1>6

LEMMA SetAddRefines ==
    ASSUME Key \intersect {undefined, null} = {}, IInv, IInv', ItemsInv, NEW k \in Key, _ejs_set_add(k)
    PROVE  ItemsInv' /\ Abstract!Add(Canonical(k))
<1> DEFINE c == Canonical(k)
<1>1. PICK pos : Lined(pos)
  BY DEF ItemsInv
<1>2. c # Empty /\ (Abstract!Has(c) <=> Matches(k) # {})
  BY <1>1, MatchesIs, HasIs
<1>3. res' = <<"add", c>>
  BY DEF _ejs_set_add
<1>4. CASE Matches(k) # {}
  <2>1. ItemsInv' /\ Items' = Items
    BY <1>4, ItemsFrame DEF _ejs_set_add, Add
  <2> HIDE DEF c
  <2> QED
    BY <1>2, <1>3, <1>4, <2>1 DEF Abstract!Add, c
<1>5. CASE Matches(k) = {}
  <2>1. Add(k, undefined)
    BY <1>5 DEF _ejs_set_add
  <2>2. ItemsInv' /\ Items' = Append(Items, Abstract!Item(c, undefined))
    BY <1>2, <2>1, AddRefines
  <2>3. ~Abstract!Has(c)
    BY <1>2, <1>5
  <2> HIDE DEF c
  <2> QED
    BY <1>3, <2>2, <2>3 DEF Abstract!Add, c
<1> QED
  BY <1>4, <1>5

LEMMA DeleteRefines ==
    ASSUME Key \intersect {undefined, null} = {}, IInv, IInv', ItemsInv, NEW k \in Key, _ejs_set_delete(k)
    PROVE  ItemsInv' /\ Abstract!Delete(Canonical(k))
<1> DEFINE c == Canonical(k)
           p == First(Matches(k))
<1>1. PICK pos : Lined(pos)
  BY DEF ItemsInv
<1>2. Matches(k) # {} => p \in Matches(k)
  BY MatchesIs
<1>3. /\ \A n \in 1 .. Len(pos) : Items[n].key = c <=> pos[n] \in Matches(k)
      /\ Abstract!Has(c) <=> Matches(k) # {}
      /\ Matches(k) # {} => \E n \in 1 .. Len(pos) : pos[n] = p
  BY <1>1, HasIs
<1>4. res' = <<"delete", Abstract!Has(c)>>
  <2>1. (Matches(k) # {}) = Abstract!Has(c)
    BY <1>3 DEF Abstract!Has
  <2> QED
    BY <2>1 DEF _ejs_set_delete
<1>5. CASE Matches(k) = {}
  <2>1. ItemsInv' /\ Items' = Items
    BY <1>5, ItemsFrame DEF _ejs_set_delete
  <2> HIDE DEF c
  <2> QED
    BY <1>3, <1>4, <1>5, <2>1 DEF Abstract!Delete, c
<1>6. CASE Matches(k) # {}
  <2>1. PICK i \in 1 .. Len(pos) : pos[i] = p
    BY <1>3, <1>6
  <2>2. entries' = [entries EXCEPT ![pos[i]] = Erased]
    BY <1>6, <2>1 DEF _ejs_set_delete
  <2>3. Items[i].key = c
    BY <1>2, <1>3, <1>6, <2>1
  <2> HIDE DEF c, p
  <2>4. EntriesType /\ EntriesType'
    BY DEF IInv
  <2>5. PICK t : t = [j \in 1 .. Len(pos) - 1 |-> pos[IF j < i THEN j ELSE j + 1]]
    OBVIOUS
  <2>6. Lined(t)' /\ Len(t) = Len(pos) - 1
    BY <1>1, <2>2, <2>4, <2>5, LinedErase
  <2>7. /\ Items \in Seq(Entry) /\ Len(Items) = Len(pos)
        /\ \A n \in 1 .. Len(pos) : Items[n] = entries[pos[n]]
    BY <1>1, <2>4, ItemsAre
  <2>8. /\ (Items \in Seq(Entry))' /\ Len(Items') = Len(t)
        /\ \A n \in 1 .. Len(t) : Items'[n] = entries'[t[n]]
    BY <2>4, <2>6, ItemsAreNext DEF ItemsFact
  <2>9. /\ \A n \in 1 .. Len(pos) : pos[n] \in 1 .. Len(entries)
        /\ \A m, n \in 1 .. Len(pos) : m < n => pos[m] < pos[n]
        /\ Len(pos) \in Nat
    <3>1. pos \in Seq(1 .. Len(entries)) /\ \A m, n \in 1 .. Len(pos) : m < n => pos[m] < pos[n]
      BY <1>1 DEF Lined, Positions
    <3> QED
      BY <3>1
  <2>10. ASSUME NEW j \in 1 .. Len(pos) - 1
         PROVE  Items'[j] = Items[IF j < i THEN j ELSE j + 1]
    <3> DEFINE n == IF j < i THEN j ELSE j + 1
    <3>1. n \in 1 .. Len(pos) /\ n # i
      BY <2>9
    <3>2. t[j] = pos[n]
      BY <2>5
    <3> HIDE DEF n
    <3>3. pos[n] # pos[i] /\ pos[n] \in 1 .. Len(entries)
      BY <2>9, <3>1
    <3>4. entries'[pos[n]] = entries[pos[n]]
      BY <2>2, <2>4, <3>3 DEF EntriesType
    <3>5. Items'[j] = Items[n]
      BY <2>6, <2>7, <2>8, <3>1, <3>2, <3>4
    <3> QED
      BY <3>5 DEF n
  <2>11. Items' = Abstract!Without(i)
    <3>1. Items' = [j \in 1 .. Len(Items) - 1 |-> Items[IF j < i THEN j ELSE j + 1]]
      BY <2>6, <2>7, <2>8, <2>10
    <3> QED
      BY <3>1 DEF Abstract!Without
  <2>12. i \in 1 .. Len(Items)
    BY <2>7
  <2> QED
    BY <1>4, <2>3, <2>6, <2>11, <2>12 DEF ItemsInv, Abstract!Delete, c
<1> QED
  BY <1>5, <1>6

LEMMA ClearRefines ==
    ASSUME IInv, IInv', Clear
    PROVE  ItemsInv' /\ Abstract!Clear
<1>1. Live' = {}
  BY DEF Clear, Erased, Live, IsEmpty, IInv, EntriesType
<1>2. PICK t : t = <<>>
  OBVIOUS
<1>3. Lined(t)'
  BY <1>1, <1>2 DEF Lined
<1>4. (Items \in Seq(Entry))' /\ Len(Items') = Len(t)
  BY <1>3, ItemsAreNext DEF ItemsFact, IInv
<1>5. Items' = <<>>
  BY <1>2, <1>4
<1> QED
  BY <1>3, <1>5 DEF ItemsInv, Abstract!Clear, Clear

LEMMA HasRefines ==
    ASSUME Key \intersect {undefined, null} = {}, IInv, ItemsInv, NEW k \in Key, Has(k)
    PROVE  ItemsInv' /\ Abstract!HasQuery(Canonical(k))
<1>1. PICK pos : Lined(pos)
  BY DEF ItemsInv
<1>2. (Matches(k) # {}) = Abstract!Has(Canonical(k))
  BY <1>1, HasIs DEF Abstract!Has
<1>3. ItemsInv' /\ Items' = Items
  BY ItemsFrame DEF Has
<1> QED
  BY <1>2, <1>3 DEF Has, Abstract!HasQuery

\* The stub answers right for a key that is not there.
LEMMA MapDeleteRefines ==
    ASSUME Key \intersect {undefined, null} = {}, ~MapDeletes, IInv, ItemsInv, NEW k \in Key,
           _ejs_map_delete(k)
    PROVE  ItemsInv' /\ Abstract!Delete(Canonical(k))
<1>1. PICK pos : Lined(pos)
  BY DEF ItemsInv
<1>2. Abstract!Has(Canonical(k)) = FALSE
  BY <1>1, HasIs DEF Abstract!Has, _ejs_map_delete
<1>3. ItemsInv' /\ Items' = Items
  BY ItemsFrame DEF _ejs_map_delete
<1> QED
  BY <1>2, <1>3 DEF _ejs_map_delete, Abstract!Delete

LEMMA GetRefines ==
    ASSUME Key \intersect {undefined, null} = {}, IInv, ItemsInv, NEW k \in Key, _ejs_map_get(k)
    PROVE  ItemsInv' /\ Abstract!Get(Canonical(k))
<1> DEFINE c == Canonical(k)
           p == First(Matches(k))
<1>1. PICK pos : Lined(pos)
  BY DEF ItemsInv
<1>2. Matches(k) # {} => p \in Matches(k)
  BY MatchesIs
<1>3. /\ \A n \in 1 .. Len(pos) : Items[n].key = c <=> pos[n] \in Matches(k)
      /\ Abstract!Has(c) <=> Matches(k) # {}
      /\ Matches(k) # {} => \E n \in 1 .. Len(pos) : pos[n] = p
  BY <1>1, HasIs
<1>4. ItemsInv' /\ Items' = Items
  BY ItemsFrame DEF _ejs_map_get
<1>5. Len(Items) = Len(pos) /\ \A n \in 1 .. Len(pos) : Items[n] = entries[pos[n]]
  BY <1>1, ItemsAre DEF IInv
<1>6. CASE Matches(k) = {}
  <2>1. res' = <<"get", undefined>>
    BY <1>6 DEF _ejs_map_get
  <2> HIDE DEF c
  <2> QED
    BY <1>3, <1>4, <1>6, <2>1 DEF Abstract!Get, c
<1>7. CASE Matches(k) # {}
  <2>1. res' = <<"get", entries[p].value>>
    BY <1>7 DEF _ejs_map_get
  <2>2. PICK n \in 1 .. Len(pos) : pos[n] = p
    BY <1>3, <1>7
  <2>3. n \in 1 .. Len(Items) /\ Items[n].key = c /\ res' = <<"get", Items[n].value>>
    BY <1>2, <1>3, <1>5, <1>7, <2>1, <2>2
  <2> HIDE DEF c
  <2> QED
    BY <1>4, <2>3 DEF Abstract!Get, c
<1> QED
  BY <1>6, <1>7

\* The size counts the live entries, which are as many as the items.
LEMMA SizeRefines ==
    ASSUME IInv, ItemsInv, Size
    PROVE  ItemsInv' /\ Abstract!Size
<1>1. PICK pos : Lined(pos)
  BY DEF ItemsInv
<1>2. Len(Items) = Len(pos)
  BY <1>1, ItemsAre DEF IInv
<1>3. /\ Len(pos) \in Nat /\ pos \in Seq(Positions) /\ {pos[n] : n \in 1 .. Len(pos)} = Live
      /\ \A n \in 1 .. Len(pos) : pos[n] \in Nat
      /\ \A m, n \in 1 .. Len(pos) : m < n => pos[m] < pos[n]
  BY <1>1 DEF Lined, Positions, IInv, EntriesType
<1>4. pos \in [1 .. Len(pos) -> Live]
  BY <1>3
<1>5. \A m, n \in 1 .. Len(pos) : pos[m] = pos[n] => m = n
  BY <1>3
<1>6. pos \in Bijection(1 .. Len(pos), Live)
  BY <1>3, <1>4, <1>5 DEF Bijection, Injection, Surjection, IsInjective
<1>7. IsFiniteSet(1 .. Len(pos)) /\ Cardinality(1 .. Len(pos)) = Len(pos)
  <2>1. 1 \in Int /\ Len(pos) \in Int
    BY <1>3
  <2>2. /\ IsFiniteSet(1 .. Len(pos))
        /\ Cardinality(1 .. Len(pos)) = IF 1 > Len(pos) THEN 0 ELSE Len(pos) - 1 + 1
    BY <2>1, FS_Interval
  <2> QED
    BY <1>3, <2>2
<1>8. Cardinality(Live) = Len(pos)
  <2>1. IsFiniteSet(Live)
    BY BelowFinite DEF IInv
  <2> QED
    BY <1>6, <1>7, <2>1, FS_Bijection DEF ExistsBijection
<1>9. ItemsInv' /\ Items' = Items
  BY ItemsFrame DEF Size
<1> QED
  BY <1>2, <1>8, <1>9 DEF Size, Abstract!Size

LEMMA StepRefines ==
    ASSUME Key \intersect {undefined, null} = {}, ~MapDeletes, MapSetInv, MapSetInv', ItemsInv, [Next]_vars
    PROVE  Refines
<1>1. IInv /\ IInv'
  BY DEF MapSetInv
<1>2. \A k \in Key : Canonical(k) \in {Canonical(x) : x \in Key}
  OBVIOUS
<1>3. ASSUME NEW k \in Key, NEW v \in Value, _ejs_map_set(k, v) PROVE Refines
  BY <1>1, <1>2, <1>3, SetRefines DEF Refines, Abstract!Next
<1>4. ASSUME NEW k \in Key, _ejs_set_add(k) PROVE Refines
  BY <1>1, <1>2, <1>4, SetAddRefines DEF Refines, Abstract!Next
<1>5. ASSUME NEW k \in Key, _ejs_set_delete(k) PROVE Refines
  BY <1>1, <1>2, <1>5, DeleteRefines DEF Refines, Abstract!Next
<1>6. ASSUME NEW k \in Key, Has(k) PROVE Refines
  BY <1>1, <1>2, <1>6, HasRefines DEF Refines, Abstract!Next
<1>7. ASSUME NEW k \in Key, _ejs_map_get(k) PROVE Refines
  BY <1>1, <1>2, <1>7, GetRefines DEF Refines, Abstract!Next
<1>8. CASE Clear
  BY <1>1, <1>8, ClearRefines DEF Refines, Abstract!Next
<1>9. CASE Size
  BY <1>1, <1>9, SizeRefines DEF Refines, Abstract!Next
<1>10. ASSUME NEW k \in Key, _ejs_map_delete(k) PROVE Refines
  BY <1>1, <1>2, <1>10, MapDeleteRefines DEF Refines, Abstract!Next
<1>11. ASSUME UNCHANGED entries, res' \in {<<"iterate">>, <<"throw">>} PROVE Refines
  BY <1>11, ItemsFrame DEF Refines, Abstract!Next, Abstract!Iterate
<1>12. ASSUME NEW i \in Iter, CreateIterator(i) \/ NextEntry(i) PROVE Refines
  BY <1>11, <1>12 DEF CreateIterator, NextEntry
<1>13. CASE StartLoop \/ CallbackReturns \/ CallbackThrows
  BY <1>11, <1>13 DEF StartLoop, CallbackReturns, CallbackThrows
<1>14. CASE UNCHANGED vars
  BY <1>14, ItemsFrame DEF vars, Refines, Abstract!vars
<1>15. CASE MapStep
  BY <1>3, <1>6, <1>7, <1>8, <1>9, <1>10, <1>12, <1>13, <1>15 DEF MapStep, _ejs_map_has,
     _ejs_Map_prototype_clear, _ejs_Map_prototype_get_size, _ejs_map_iterator_new,
     _ejs_MapIterator_prototype_next, _ejs_Map_prototype_forEach
<1>16. CASE SetStep
  BY <1>4, <1>5, <1>6, <1>8, <1>9, <1>12, <1>13, <1>16 DEF SetStep, _ejs_set_has,
     _ejs_Set_prototype_clear, _ejs_Set_prototype_get_size, _ejs_set_iterator_new,
     _ejs_SetIterator_prototype_next, _ejs_Set_prototype_forEach
<1> QED
  BY <1>13, <1>14, <1>15, <1>16 DEF Next

\* Map and Set (ejs-map.c, ejs-set.c) answer has, get, size, delete and add as a list
\* of items without duplicate keys does, for any keys that are objects or numbers (but
\* NaN) and any calls, as long as no key is deleted that a Map holds: _ejs_map_delete
\* is a stub.  It does not hold with undefined or null as keys, because SameValueZero
\* takes all that is no number for them.
THEOREM CollectionsAreOrdered ==
    ASSUME Key \intersect {undefined, null} = {}, ~MapDeletes
    PROVE  Spec => Implements
<1>1. Init => Abstract!Init /\ ItemsInv
  <2> SUFFICES ASSUME Init PROVE Abstract!Init /\ ItemsInv
    OBVIOUS
  <2>1. entries = <<>> /\ Live = {}
    BY DEF Init, Live
  <2>2. Lined(<<>>)
    BY <2>1 DEF Lined
  <2>3. Items = <<>>
    <3>1. EntriesType
      BY <2>1 DEF EntriesType
    <3>2. Items \in Seq(Entry) /\ Len(Items) = Len(<<>>)
      BY <2>2, <3>1, ItemsAre
    <3> QED
      BY <3>2
  <2> QED
    BY <2>2, <2>3 DEF Init, Abstract!Init, ItemsInv
<1>2. MapSetInv /\ MapSetInv' /\ ItemsInv /\ [Next]_vars => ItemsInv' /\ [Abstract!Next]_(Abstract!vars)
  BY StepRefines DEF Refines
<1> QED
  BY <1>1, <1>2, MapSetInvariance, PTL DEF Spec, Implements, Abstract!Spec
==============================================================================
