---------------------------- MODULE MCEjsServices ----------------------------
(* Generators, timers and weak collections.  They share no state, so each      *)
(* behaviour exercises one of them: the state spaces add up.                   *)
EXTENDS EjsGenerator, EjsTimers, EjsWeak, TLC

CONSTANTS o1, o2, o3

VARIABLE part
vars == <<part, gvars, tvars, wvars>>

\* No prototypes among the keys, and o1 as the prototype of o2.
TwoShapes == {[o \in Objs |-> Null], [o \in Objs |-> IF o = o2 THEN o1 ELSE Null]}

Init == /\ part \in {"generators", "timers", "weak"}
        /\ GenInit /\ TimerInit /\ WeakInit
        /\ part # "weak" => proto[o2] = Null

Next == \/ part = "generators" /\ GenNext /\ UNCHANGED <<part, tvars, wvars>>
        \/ part = "timers" /\ TimerNext /\ UNCHANGED <<part, gvars, wvars>>
        \/ part = "weak" /\ WeakNext /\ UNCHANGED <<part, gvars, tvars>>

Spec == Init /\ [][Next]_vars /\ TimerFairness
==============================================================================
