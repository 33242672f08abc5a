--------------------------- MODULE MCEjsTypedArray ---------------------------
(* Buffers of four bytes of three values each.                              *)
EXTENDS EjsTypedArray

MCNumbers == {-1, 5}
MCRelative == {-1, 0, 1, 2}
MCWindows == {<<3, 1>>, <<4, 2>>, <<2, 6>>}
MCSpans == {<<0, undefined>>, <<1, 2>>, <<2, 1>>}
MCArrays == {<<4, 2>>}
=============================================================================
