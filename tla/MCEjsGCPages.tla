---------------------------- MODULE MCEjsGCPages ----------------------------
(* An arena of two pages, of three cells of 16 bytes or two of 32, and one     *)
(* large object of 256 bytes.                                                 *)
EXTENDS EjsGCPages, TLC

MCNumCells == [c \in Class |-> IF c = 1 THEN 3 ELSE 2]
=============================================================================
