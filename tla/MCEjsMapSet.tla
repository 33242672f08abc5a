----------------------------- MODULE MCEjsMapSet -----------------------------
(* A collection with a few keys, an iterator and forEach.                   *)
EXTENDS EjsMapSet, TLC
=============================================================================
