------------------------------ MODULE EjsMapSet ------------------------------
(***************************************************************************)
(* Map and Set of runtime/ejs-map.c and ejs-set.c, with their iterators    *)
(* and forEach.  A collection is a list of entries in insertion order; an  *)
(* entry is never unlinked, deleting it writes the magic value Empty into  *)
(* it.  Iterators and forEach callbacks are suspended while the program    *)
(* changes the collection.                                                 *)
(*                                                                         *)
(* Keys are objects, undefined, null and the two zeros; all other numbers  *)
(* but NaN behave like objects here.  Strings, booleans and symbols are    *)
(* not modelled: SameValueZero mixes up strings and what is no string, and *)
(* ends the program for symbols.  An entry of a Set has the value          *)
(* undefined.                                                              *)
(***************************************************************************)
EXTENDS Integers, Sequences, FiniteSets

CONSTANTS
    Kind,        \* the classes of collection to consider: "Map", "Set"
    Key,         \* the keys the program uses
    Value,       \* the values of a Map
    Iter,        \* iterator objects
    Empty,       \* EJS_NO_ITER_VALUE
    undefined,
    null,
    zero,
    negzero,     \* +0 and -0
    MapDeletes,  \* whether the program deletes keys that a Map holds
    MaxEntries,  \* bound on the entries ever added
    MaxLoops     \* bound on nested forEach calls

ASSUME KindAssumption == Kind \subseteq {"Map", "Set"}
ASSUME MapDeletesAssumption == MapDeletes \in BOOLEAN
ASSUME EmptyAssumption == Empty \notin Key \union {undefined, null, zero, negzero}
ASSUME ZeroAssumption == zero # negzero /\ {undefined, null} \intersect {zero, negzero} = {}

VARIABLES
    kind,     \* the class of the collection
    entries,  \* from head_insert to tail_insert
    iter,     \* the iterator objects
    loops,    \* the forEach calls on the C stack, each in a callback
    res       \* the operation last called and its result

vars == <<kind, entries, iter, loops, res>>

\* iterated is not undefined; returned is the entries next() has returned.
NewIterator == [iterated |-> TRUE, next_index |-> 0, returned |-> <<>>]
Exhausted == [iterated |-> FALSE, next_index |-> 0, returned |-> <<>>]

Init ==
    /\ kind \in Kind
    /\ entries = <<>>
    /\ iter = [i \in Iter |-> Exhausted]
    /\ loops = <<>>
    /\ res = <<"new">>

IsNumber(k) == k \in {zero, negzero}
IsEmpty(p) == entries[p].key = Empty
Live == {p \in 1 .. Len(entries) : ~IsEmpty(p)}
First(S) == CHOOSE p \in S : \A q \in S : p <= q

\* Fault: the two zeros are told apart.
SameValue(x, y) == x = y

\* Types are compared only if exactly one of the two is a number; what follows
\* looks at the type of x alone.
SameValueZero(x, y) ==
    /\ IsNumber(x) = IsNumber(y)
    /\ x \in {undefined, null} \/ IsNumber(x) \/ x = y

\* The entries a search for k stops at: an empty one never is.
Matches(k) == {p \in 1 .. Len(entries) : SameValueZero(entries[p].key, k)}

\* Fault: the sign of zero is kept.
KeepSign(k) == k

\* "If key is -0, let key be +0."
Canonical(k) == IF k = negzero THEN zero ELSE k

Add(k, v) ==
    /\ Len(entries) < MaxEntries
    /\ entries' = Append(entries, [key |-> Canonical(k), value |-> v])

-----------------------------------------------------------------------------
(* Operations of the program.                                              *)

_ejs_map_set(k, v) ==
    /\ kind = "Map"
    /\ \/ /\ Matches(k) # {}
          /\ entries' = [entries EXCEPT ![First(Matches(k))].value = v]
       \/ Matches(k) = {} /\ Add(k, v)
    /\ res' = <<"set", Canonical(k)>>
    /\ UNCHANGED <<kind, iter, loops>>

_ejs_set_add(k) ==
    /\ kind = "Set"
    /\ \/ Matches(k) # {} /\ UNCHANGED entries
       \/ Matches(k) = {} /\ Add(k, undefined)
    /\ res' = <<"add", Canonical(k)>>
    /\ UNCHANGED <<kind, iter, loops>>

Erased == [key |-> Empty, value |-> Empty]

_ejs_set_delete(k) ==
    /\ kind = "Set"
    /\ entries' = IF Matches(k) = {} THEN entries
                  ELSE [entries EXCEPT ![First(Matches(k))] = Erased]
    /\ res' = <<"delete", Matches(k) # {}>>
    /\ UNCHANGED <<kind, iter, loops>>

\* Only the comments of the steps are there: no entry is looked for, and the answer
\* is always false.  That is right for a key that is not there.
_ejs_map_delete(k) ==
    /\ kind = "Map"
    /\ MapDeletes \/ Matches(k) = {}
    /\ res' = <<"delete", FALSE>>
    /\ UNCHANGED <<kind, entries, iter, loops>>

Clear ==
    /\ entries' = [p \in 1 .. Len(entries) |-> Erased]
    /\ res' = <<"clear">>
    /\ UNCHANGED <<kind, iter, loops>>
_ejs_Map_prototype_clear == kind = "Map" /\ Clear
_ejs_Set_prototype_clear == kind = "Set" /\ Clear

Has(k) ==
    /\ res' = <<"has", Matches(k) # {}>>
    /\ UNCHANGED <<kind, entries, iter, loops>>
_ejs_map_has(k) == kind = "Map" /\ Has(k)
_ejs_set_has(k) == kind = "Set" /\ Has(k)

_ejs_map_get(k) ==
    /\ kind = "Map"
    /\ res' = <<"get", IF Matches(k) = {} THEN undefined
                       ELSE entries[First(Matches(k))].value>>
    /\ UNCHANGED <<kind, entries, iter, loops>>

Size ==
    /\ res' = <<"size", Cardinality(Live)>>
    /\ UNCHANGED <<kind, entries, iter, loops>>
_ejs_Map_prototype_get_size == kind = "Map" /\ Size
_ejs_Set_prototype_get_size == kind = "Set" /\ Size

\* keys(), values() and entries()
CreateIterator(i) ==
    /\ iter' = [iter EXCEPT ![i] = NewIterator]
    /\ res' = <<"iterate">>
    /\ UNCHANGED <<kind, entries, loops>>
_ejs_map_iterator_new(i) == kind = "Map" /\ CreateIterator(i)
_ejs_set_iterator_new(i) == kind = "Set" /\ CreateIterator(i)

\* Fault: i is counted up before it is compared.
PreIncrement(index) ==
    {p \in Live : Cardinality({q \in Live : q <= p}) = index \/ (index = 0 /\ p = First(Live))}

\* Live entries are counted, empty ones are not.
EntryAt(index) == {p \in Live : Cardinality({q \in Live : q < p}) = index}

NextEntry(i) ==
    /\ \/ ~iter[i].iterated /\ UNCHANGED iter
       \/ /\ iter[i].iterated
          /\ EntryAt(iter[i].next_index) = {}
          /\ iter' = [iter EXCEPT ![i].iterated = FALSE]
       \/ /\ iter[i].iterated
          /\ EntryAt(iter[i].next_index) # {}
          /\ iter' = [iter EXCEPT ![i] =
                         [iterated |-> TRUE,
                          next_index |-> @.next_index + 1,
                          returned |-> Append(@.returned, First(EntryAt(@.next_index)))]]
    /\ res' = <<"iterate">>
    /\ UNCHANGED <<kind, entries, loops>>
_ejs_MapIterator_prototype_next(i) == kind = "Map" /\ NextEntry(i)
_ejs_SetIterator_prototype_next(i) == kind = "Set" /\ NextEntry(i)

-----------------------------------------------------------------------------
(* forEach.  The callback runs for the entry at; it may call anything.     *)

\* Fault: an entry deleted by its callback leads nowhere.
LiveAfterUnlinked(p) ==
    IF p = 0 THEN Live ELSE IF IsEmpty(p) THEN {} ELSE {q \in Live : q > p}

\* Fault: the loop goes one past the tail.
PastTail(p) == {q \in 1 .. Len(entries) + 1 : q > p}

LiveAfter(p) == {q \in Live : q > p}

StartLoop ==
    /\ Len(loops) < MaxLoops
    /\ loops' = IF LiveAfter(0) = {} THEN loops
                ELSE LET p == First(LiveAfter(0))
                     IN  Append(loops, [at |-> p, visited |-> {p}])
    /\ res' = <<"iterate">>
    /\ UNCHANGED <<kind, entries, iter>>

_ejs_Map_prototype_forEach == kind = "Map" /\ StartLoop
_ejs_Set_prototype_forEach == kind = "Set" /\ StartLoop

Outer == SubSeq(loops, 1, Len(loops) - 1)

CallbackReturns ==
    /\ loops # <<>>
    /\ LET top == loops[Len(loops)]
           p == First(LiveAfter(top.at))
       IN  loops' = IF LiveAfter(top.at) = {} THEN Outer
                    ELSE Append(Outer, [at |-> p, visited |-> top.visited \union {p}])
    /\ res' = <<"iterate">>
    /\ UNCHANGED <<kind, entries, iter>>

CallbackThrows ==
    /\ loops # <<>>
    /\ loops' = Outer
    /\ res' = <<"throw">>
    /\ UNCHANGED <<kind, entries, iter>>

MapStep ==
    \/ \E k \in Key : \/ \E v \in Value : _ejs_map_set(k, v)
                      \/ _ejs_map_has(k) \/ _ejs_map_get(k) \/ _ejs_map_delete(k)
    \/ _ejs_Map_prototype_clear \/ _ejs_Map_prototype_get_size
    \/ \E i \in Iter : _ejs_map_iterator_new(i) \/ _ejs_MapIterator_prototype_next(i)
    \/ _ejs_Map_prototype_forEach

SetStep ==
    \/ \E k \in Key : _ejs_set_add(k) \/ _ejs_set_has(k) \/ _ejs_set_delete(k)
    \/ _ejs_Set_prototype_clear \/ _ejs_Set_prototype_get_size
    \/ \E i \in Iter : _ejs_set_iterator_new(i) \/ _ejs_SetIterator_prototype_next(i)
    \/ _ejs_Set_prototype_forEach

Next == MapStep \/ SetStep \/ CallbackReturns \/ CallbackThrows

Spec == Init /\ [][Next]_vars
-----------------------------------------------------------------------------
(* Properties.                                                             *)

Positions == 1 .. Len(entries)

\* The type invariant of entries, iterators and forEach calls.
TypeOK ==
    /\ kind \in {"Map", "Set"}
    /\ entries \in Seq([key : Key \union {zero, Empty}, value : Value \union {undefined, Empty}])
    /\ iter \in [Iter -> [iterated : BOOLEAN, next_index : Nat, returned : Seq(Positions)]]
    /\ loops \in Seq([at : Positions, visited : SUBSET Positions])

\* A key has one entry, whatever was added, deleted and added again, and the two
\* zeros are one key: the search of set and add, the erasing of delete and the
\* change of -0 to +0 keep it so.
KeysUnique ==
    /\ \A p, q \in Live : entries[p].key = entries[q].key => p = q
    /\ \A p \in Live : entries[p].key # negzero

\* "in original key insertion order": an iterator returns an entry at most once
\* and never an earlier one after a later one, whatever is deleted and added
\* between two calls of next.
IteratorInOrder ==
    \A i \in Iter : \A m, n \in 1 .. Len(iter[i].returned) :
        m < n => iter[i].returned[m] < iter[i].returned[n]

\* forEach leaves nothing out: when it returns, every entry that is there then
\* has been visited, also those that callbacks added.
ForEachVisitsAll ==
    [][loops # <<>> /\ Len(loops') < Len(loops) /\ res'[1] # "throw"
          => Live \subseteq loops[Len(loops)].visited]_vars

\* The live entries, in the order of the list.
Items ==
    LET run[p \in 0 .. Len(entries)] ==
            IF p = 0 THEN <<>>
            ELSE IF IsEmpty(p) THEN run[p - 1] ELSE Append(run[p - 1], entries[p])
    IN  run[Len(entries)]

\* The collection implements the ordered list of items: the results of has, get,
\* size and delete, and the order, are those of the abstract specification.  The Map
\* does so only as long as the program deletes no key that it holds.
Abstract == INSTANCE OrderedCollection
    WITH items <- Items,
         Key <- {Canonical(k) : k \in Key}
Implements == Abstract!Spec
=============================================================================
