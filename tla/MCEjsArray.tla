----------------------------- MODULE MCEjsArray -----------------------------
(* Arrays of up to three elements of two values.                            *)
EXTENDS EjsArray

MCArgs == {<<1>>, <<2, 1>>, <<2, 1, 2>>}
MCRelative == {-1, 0, 1}
=============================================================================
