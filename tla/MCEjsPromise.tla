---------------------------- MODULE MCEjsPromise ----------------------------
(* A program that makes a few promise calls.                                *)
EXTENDS EjsPromise, TLC
=============================================================================
