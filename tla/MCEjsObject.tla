----------------------------- MODULE MCEjsObject -----------------------------
(* Two objects with a few properties of every kind.                         *)
EXTENDS EjsProxy, TLC

CONSTANTS n1, n2, n3, name_a, name_b, s, v1, f

MCName == {n1, n2, n3, name_a, name_b, s}
MCHash == (n3 :> 1) @@ (n1 :> 1) @@ (n2 :> 2) @@ (name_a :> 3) @@ (name_b :> 2) @@ (s :> 3)
MCIndex == (n3 :> 5) @@ (n1 :> 1) @@ (n2 :> 2)
MCprimes == <<2, 3>>

MCAttributes ==
    {<<name_a, [value |-> v1, writable |-> TRUE, configurable |-> TRUE]>>,
     <<name_a, [value |-> undefined, enumerable |-> TRUE]>>,
     <<name_a, [configurable |-> FALSE]>>,
     <<name_a, [get |-> f, enumerable |-> TRUE, configurable |-> TRUE]>>,
     <<name_a, [set |-> f]>>,
     <<name_a, [value |-> v1, get |-> f]>>,
     <<n1, [value |-> v1, writable |-> TRUE]>>}

MCProperties == {<< <<name_a, [value |-> v1, writable |-> TRUE]>>, <<n1, [set |-> f]>> >>}
=============================================================================
