------------------------- MODULE OrderedCollection -------------------------
(***************************************************************************)
(* What a Map or Set promises: a list of items without duplicate keys, in  *)
(* the order the keys were added.  res is the result of the last operation.*)
(***************************************************************************)
EXTENDS Naturals, Sequences

CONSTANTS Key, Value, undefined

VARIABLES items, res

Has(k) == \E i \in 1 .. Len(items) : items[i].key = k
Item(k, v) == [key |-> k, value |-> v]

Init == items = <<>> /\ res = <<"new">>

\* Map.set replaces the value of a key that is there.
Set(k, v) ==
    /\ items' = IF Has(k)
                THEN [i \in 1 .. Len(items) |->
                         IF items[i].key = k THEN Item(k, v) ELSE items[i]]
                ELSE Append(items, Item(k, v))
    /\ res' = <<"set", k>>

Add(k) ==
    /\ items' = IF Has(k) THEN items ELSE Append(items, Item(k, undefined))
    /\ res' = <<"add", k>>

\* The items without the one at i.
Without(i) == [j \in 1 .. Len(items) - 1 |-> items[IF j < i THEN j ELSE j + 1]]

\* Map.delete and Set.delete take the item away and say whether there was one.
Delete(k) ==
    /\ \/ ~Has(k) /\ UNCHANGED items
       \/ \E i \in 1 .. Len(items) : items[i].key = k /\ items' = Without(i)
    /\ res' = <<"delete", Has(k)>>

Clear == items' = <<>> /\ res' = <<"clear">>

HasQuery(k) == UNCHANGED items /\ res' = <<"has", Has(k)>>

Get(k) ==
    /\ UNCHANGED items
    /\ \/ ~Has(k) /\ res' = <<"get", undefined>>
       \/ \E i \in 1 .. Len(items) : items[i].key = k /\ res' = <<"get", items[i].value>>

Size == UNCHANGED items /\ res' = <<"size", Len(items)>>

\* Iterators and callbacks do not change the collection.
Iterate == UNCHANGED items /\ res' \in {<<"iterate">>, <<"throw">>}

Next ==
    \/ \E k \in Key : \/ \E v \in Value : Set(k, v)
                      \/ Add(k) \/ Delete(k) \/ HasQuery(k) \/ Get(k)
    \/ Clear \/ Size \/ Iterate

vars == <<items, res>>

Spec == Init /\ [][Next]_vars
=============================================================================
