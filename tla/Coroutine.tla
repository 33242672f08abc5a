------------------------------ MODULE Coroutine ------------------------------
(* What generators promise: a stack of routines, the top one running.  A      *)
(* routine calls one that is not on the stack; what is said to a suspended    *)
(* routine is what its yield hears, and what a routine yields, or its end, is *)
(* heard by the routine that called it.                                       *)
EXTENDS Integers, Sequences

CONSTANTS Routines, Main, Words, undefined

VARIABLES stack, status, heard,
          said   \* the last word to a routine, and whether it was a send or a throw

cvars == <<stack, status, heard, said>>

Silence == [kind |-> "nothing", word |-> undefined]
Top == stack[Len(stack)]
Below == SubSeq(stack, 1, Len(stack) - 1)

Init == /\ stack = <<Main>>
        /\ status = [r \in Routines |-> "none"]
        /\ heard = Silence /\ said = Silence

Create(r) == /\ status[r] = "none"
             /\ status' = [status EXCEPT ![r] = "fresh"]
             /\ UNCHANGED <<stack, heard, said>>

\* A fresh routine begins and hears nothing; a suspended one hears the word.
Call(r, kind, w) ==
  /\ status[r] \in {"fresh", "suspended"}
  /\ stack' = Append(stack, r)
  /\ said' = [kind |-> kind, word |-> w]
  /\ heard' = IF status[r] = "fresh" THEN Silence ELSE said'
  /\ status' = [status EXCEPT ![r] = "running"]

Yield(w) == /\ Top # Main
            /\ stack' = Below
            /\ status' = [status EXCEPT ![Top] = "suspended"]
            /\ heard' = [kind |-> "yielded", word |-> w]
            /\ UNCHANGED said

End == /\ Top # Main
       /\ stack' = Below
       /\ status' = [status EXCEPT ![Top] = "over"]
       /\ heard' = [kind |-> "done", word |-> undefined]
       /\ UNCHANGED said

Next == \/ \E r \in Routines : Create(r)
        \/ \E r \in Routines, k \in {"send", "throw"}, w \in Words : Call(r, k, w)
        \/ \E w \in Words : Yield(w)
        \/ End

Spec == Init /\ [][Next]_cvars
==============================================================================
