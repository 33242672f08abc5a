------------------------------ MODULE MCEjsGC ------------------------------
(* A heap of a few cells, one root variable and one module; and, in the other  *)
(* behaviours, the page allocator asked for objects of 128 and of 256 bytes    *)
(* in an arena of two pages of two cells.  The two share no state.             *)
EXTENDS EjsGC, TLC

CONSTANTS MaxPages, Class, NumCells, LosId, Nil

VARIABLES part, num_pages, cell_class, freeBits, num_free, bump, lists, los_list,
          alloc_phase, cursor, req

Pages == INSTANCE EjsGCPages WITH phase <- alloc_phase

allocVars == <<num_pages, cell_class, freeBits, num_free, bump, lists, los_list,
               alloc_phase, cursor, req>>

MCNumCells == [c \in Class |-> 2]

MCInit == part \in {"cells", "pages"} /\ Init /\ Pages!Init

MCNext == \/ part = "cells" /\ Next /\ UNCHANGED <<part, allocVars>>
          \/ part = "pages" /\ Pages!Next /\ UNCHANGED <<part, vars>>

MCSpec == /\ MCInit /\ [][MCNext]_<<part, vars, allocVars>>
          /\ WF_vars(part = "cells" /\ CollectorStep /\ UNCHANGED <<part, allocVars>>)
          /\ WF_allocVars(part = "pages" /\ (Pages!AllocStep \/ Pages!SweepStep)
                           /\ UNCHANGED <<part, vars>>)

\* Every allocation of 128 bytes or more returns or throws, see EjsGCPages.
AllocReturns == Pages!AllocReturns
=============================================================================
