------------------------------- MODULE EjsGC -------------------------------
(***************************************************************************)
(* The mark and sweep collector of runtime/ejs-gc.c.                       *)
(*                                                                         *)
(* A cell of the heap is a member of Obj.  Which page a cell lives on and  *)
(* how free cells are found is the subject of EjsGCPages; here a cell is   *)
(* its entry in a page bitmap (a free bit and two colour bits) and the set *)
(* of references that the Scan functions visit.                            *)
(*                                                                         *)
(* The collector is stop-the-world: between _ejs_gc_collect's first line   *)
(* and its last no mutator step happens.  Every iteration of its loops is  *)
(* one step here, so that the invariants are checked in the middle of      *)
(* marking and of sweeping too.                                            *)
(***************************************************************************)
EXTENDS Integers, Sequences, FiniteSets

CONSTANTS
    Obj,     \* the cells of the heap
    Slot,    \* addresses of ejsval C variables that may be registered as roots
    Module,  \* the statically allocated module objects, _ejs_modules[]
    Null,    \* a root variable that holds no heap pointer
    MaxRegistrations  \* bound on how often one slot is registered at a time

ASSUME NullAssumption == Null \notin Obj
ASSUME MaxRegistrationsAssumption == MaxRegistrations \in Nat

VARIABLES
    freeCell,    \* the cells with CELL_FREE set in their bitmap entry
    color,       \* the CELL_COLOR_MASK bits of each bitmap entry
    white_mask,  \* the colour that IS_WHITE compares with
    black_mask,  \* the colour that IS_BLACK compares with
    fields,      \* the heap references each cell's contents hold
    root_set,    \* how many RootSetEntry's name each slot
    slotVal,     \* the value of each root variable
    moduleRefs,  \* what the Scan of each module visits
    locals,      \* references in live C stack slots of the mutator
    words,       \* the gcthing-looking words found in the stack by this collection
    work_list,   \* the grey objects, a stack
    phase,       \* where _ejs_gc_collect_inner is, or "mutator"
    pending,     \* what the current loop still has to visit
    shutting_down

mutatorVars == <<fields, slotVal, moduleRefs, locals>>
vars == <<freeCell, color, white_mask, black_mask, fields, root_set, slotVal,
          moduleRefs, locals, words, work_list, phase, pending, shutting_down>>

CELL_GRAY_MASK == 2

Allocated == Obj \ freeCell

IS_WHITE(o) == color[o] = white_mask
IS_GRAY(o)  == color[o] = CELL_GRAY_MASK
IS_BLACK(o) == color[o] = black_mask

Registered == {s \in Slot : root_set[s] > 0}

Init ==
    /\ freeCell = Obj
    /\ color = [o \in Obj |-> 0]
    /\ white_mask = 0 /\ black_mask = 1
    /\ fields = [o \in Obj |-> {}]
    /\ root_set = [s \in Slot |-> 0]
    /\ slotVal = [s \in Slot |-> Null]
    /\ moduleRefs = [m \in Module |-> {}]
    /\ locals = {} /\ words = {} /\ pending = {}
    /\ work_list = <<>>
    /\ phase = "mutator"
    /\ shutting_down = FALSE

-----------------------------------------------------------------------------
(* The mutator.  The compiled program and the runtime hold references in   *)
(* stack slots and reach everything else through them.                     *)

\* SET_ALLOCATED then SET_WHITE; the memory is zeroed, the caller gets the
\* pointer.
_ejs_gc_alloc(o) ==
    /\ phase = "mutator"
    /\ o \in freeCell
    /\ freeCell' = freeCell \ {o}
    /\ color' = [color EXCEPT ![o] = white_mask]
    /\ fields' = [fields EXCEPT ![o] = {}]
    /\ locals' = locals \union {o}
    /\ UNCHANGED <<white_mask, black_mask, root_set, slotVal, moduleRefs,
                   words, work_list, phase, pending, shutting_down>>

\* The mutator writes a reference into an object, a root variable or a module
\* export, or erases one; reads one back; or leaves the scope of a local.
StoreField(o, p) ==
    /\ phase = "mutator" /\ o \in locals /\ p \in locals
    /\ fields' = [fields EXCEPT ![o] = @ \union {p}]
    /\ UNCHANGED <<slotVal, moduleRefs, locals>>

EraseField(o, p) ==
    /\ phase = "mutator" /\ o \in locals /\ p \in fields[o]
    /\ fields' = [fields EXCEPT ![o] = @ \ {p}]
    /\ UNCHANGED <<slotVal, moduleRefs, locals>>

LoadField(o, p) ==
    /\ phase = "mutator" /\ o \in locals /\ p \in fields[o]
    /\ locals' = locals \union {p}
    /\ UNCHANGED <<fields, slotVal, moduleRefs>>

DropLocal(o) ==
    /\ phase = "mutator" /\ o \in locals
    /\ locals' = locals \ {o}
    /\ UNCHANGED <<fields, slotVal, moduleRefs>>

SetSlot(s, v) ==
    /\ phase = "mutator" /\ s \in Registered /\ v \in locals \union {Null}
    /\ slotVal' = [slotVal EXCEPT ![s] = v]
    /\ UNCHANGED <<fields, moduleRefs, locals>>

LoadSlot(s) ==
    /\ phase = "mutator" /\ s \in Registered /\ slotVal[s] # Null
    /\ locals' = locals \union {slotVal[s]}
    /\ UNCHANGED <<fields, slotVal, moduleRefs>>

SetExport(m, p) ==
    /\ phase = "mutator" /\ p \in locals
    /\ moduleRefs' = [moduleRefs EXCEPT ![m] = {p}]
    /\ UNCHANGED <<fields, slotVal, locals>>

LoadExport(m, p) ==
    /\ phase = "mutator" /\ p \in moduleRefs[m]
    /\ locals' = locals \union {p}
    /\ UNCHANGED <<fields, slotVal, moduleRefs>>

MutatorStep ==
    /\ \/ \E o, p \in Obj : StoreField(o, p) \/ EraseField(o, p) \/ LoadField(o, p)
       \/ \E o \in Obj : DropLocal(o)
       \/ \E s \in Slot : LoadSlot(s) \/ \E v \in Obj \union {Null} : SetSlot(s, v)
       \/ \E m \in Module, p \in Obj : SetExport(m, p) \/ LoadExport(m, p)
    /\ UNCHANGED <<freeCell, color, white_mask, black_mask, root_set, words,
                   work_list, phase, pending, shutting_down>>

\* A root variable is initialised with a live value (or none) when it is
\* registered: callers do either first and then the other, with no allocation
\* in between.
_ejs_gc_add_root(s, v) ==
    /\ phase = "mutator"
    /\ root_set[s] < MaxRegistrations
    /\ v \in locals \union {Null}
    /\ root_set' = [root_set EXCEPT ![s] = @ + 1]
    /\ slotVal' = [slotVal EXCEPT ![s] = v]
    /\ UNCHANGED <<freeCell, color, white_mask, black_mask, fields, moduleRefs,
                   locals, words, work_list, phase, pending, shutting_down>>

\* Detaches the first entry for the slot and returns; a slot that is not
\* registered is ignored.
_ejs_gc_remove_root(s) ==
    /\ phase = "mutator"
    /\ s \in Registered
    /\ root_set' = [root_set EXCEPT ![s] = @ - 1]
    /\ UNCHANGED <<freeCell, color, white_mask, black_mask, mutatorVars, words,
                   work_list, phase, pending, shutting_down>>

-----------------------------------------------------------------------------
(* The collector.                                                          *)

\* Fault: a cell is greyed but not pushed.
GrayWithoutPush(o) ==
    /\ color' = [color EXCEPT ![o] = IF IS_WHITE(o) THEN CELL_GRAY_MASK ELSE @]
    /\ UNCHANGED work_list

\* WORKLIST_PUSH_AND_GRAY: push and grey a cell whose colour is white.  The
\* free bit is not looked at.
PushAndGray(o) ==
    IF IS_WHITE(o)
    THEN /\ work_list' = Append(work_list, o)
         /\ color' = [color EXCEPT ![o] = CELL_GRAY_MASK]
    ELSE UNCHANGED <<work_list, color>>

\* Fault: the test of the free bit is the wrong way round.
MarkFreeOnly(o) ==
    IF o \in freeCell THEN PushAndGray(o) ELSE UNCHANGED <<work_list, color>>

\* mark_from_roots and mark_ejsvals_in_range skip free cells before that.
MarkChecked(o) ==
    IF o \in freeCell THEN UNCHANGED <<work_list, color>> ELSE PushAndGray(o)

\* _ejs_gc_collect, called by the allocator's triggers or by GC.collect();
\* shutdown passes shutting_down and skips the marking.
_ejs_gc_collect ==
    /\ phase = "mutator"
    /\ phase' = "roots"
    /\ pending' = Registered
    /\ UNCHANGED <<freeCell, color, white_mask, black_mask, mutatorVars, root_set,
                   words, work_list, shutting_down>>

_ejs_gc_shutdown ==
    /\ phase = "mutator"
    /\ phase' = "sweep"
    /\ pending' = Obj
    /\ shutting_down' = TRUE
    /\ UNCHANGED <<freeCell, color, white_mask, black_mask, mutatorVars, root_set,
                   words, work_list>>

mark_from_roots(s) ==
    /\ phase = "roots" /\ s \in pending
    /\ pending' = pending \ {s}
    /\ IF slotVal[s] = Null THEN UNCHANGED <<work_list, color>>
                            ELSE MarkChecked(slotVal[s])
    /\ UNCHANGED <<freeCell, white_mask, black_mask, mutatorVars, root_set, words,
                   phase, shutting_down>>

BeginModules ==
    /\ phase = "roots" /\ pending = {}
    /\ phase' = "modules"
    /\ pending' = UNION {moduleRefs[m] : m \in Module}
    /\ UNCHANGED <<freeCell, color, white_mask, black_mask, mutatorVars, root_set,
                   words, work_list, shutting_down>>

mark_from_modules(o) ==
    /\ phase = "modules" /\ o \in pending
    /\ pending' = pending \ {o}
    /\ PushAndGray(o)
    /\ UNCHANGED <<freeCell, white_mask, black_mask, mutatorVars, root_set, words,
                   phase, shutting_down>>

\* The stack is scanned conservatively: besides the live locals there may be
\* any stale or accidental word that looks like a reference to a cell.
BeginStack ==
    /\ phase = "modules" /\ pending = {}
    /\ phase' = "stack"
    /\ \E junk \in SUBSET Obj : words' = locals \union junk
    /\ pending' = words'
    /\ UNCHANGED <<freeCell, color, white_mask, black_mask, mutatorVars, root_set,
                   work_list, shutting_down>>

mark_thread_stack(o) ==
    /\ phase = "stack" /\ o \in pending
    /\ pending' = pending \ {o}
    /\ MarkChecked(o)
    /\ UNCHANGED <<freeCell, white_mask, black_mask, mutatorVars, root_set, words,
                   phase, shutting_down>>

BeginProcess ==
    /\ phase = "stack" /\ pending = {}
    /\ phase' = "process"
    /\ UNCHANGED <<freeCell, color, white_mask, black_mask, mutatorVars, root_set,
                   words, work_list, pending, shutting_down>>

\* Fault: the cell popped stays on the list.
PopKeeps == UNCHANGED work_list

\* The list is last in, first out.
_ejs_gc_worklist_pop == work_list' = SubSeq(work_list, 1, Len(work_list) - 1)

\* One turn of process_worklist's loop: pop, set_black, and start the Scan.
process_worklist ==
    /\ phase = "process" /\ pending = {} /\ work_list # <<>>
    /\ LET p == work_list[Len(work_list)]
       IN  /\ color' = [color EXCEPT ![p] = black_mask]
           /\ pending' = fields[p]
    /\ _ejs_gc_worklist_pop
    /\ UNCHANGED <<freeCell, white_mask, black_mask, mutatorVars, root_set, words,
                   phase, shutting_down>>

_scan_ejsvalue(o) ==
    /\ phase = "process" /\ o \in pending
    /\ pending' = pending \ {o}
    /\ PushAndGray(o)
    /\ UNCHANGED <<freeCell, white_mask, black_mask, mutatorVars, root_set, words,
                   phase, shutting_down>>

BeginSweep ==
    /\ phase = "process" /\ pending = {} /\ work_list = <<>>
    /\ phase' = "sweep"
    /\ pending' = Obj
    /\ UNCHANGED <<freeCell, color, white_mask, black_mask, mutatorVars, root_set,
                   words, work_list, shutting_down>>

\* sweep_heap's visit of one cell.  _ejs_finalize_obj overwrites the memory,
\* so whatever it referred to is gone, and SET_FREE clears the colour bits.
sweep_heap(o) ==
    /\ phase = "sweep" /\ o \in pending
    /\ pending' = pending \ {o}
    /\ IF o \notin freeCell /\ IS_WHITE(o)
       THEN /\ freeCell' = freeCell \union {o}
            /\ color' = [color EXCEPT ![o] = 0]
            /\ fields' = [fields EXCEPT ![o] = {}]
       ELSE UNCHANGED <<freeCell, color, fields>>
    /\ UNCHANGED <<white_mask, black_mask, root_set, slotVal, moduleRefs, locals,
                   words, work_list, phase, shutting_down>>

\* Faults: the masks are left as they are, or one is lost in the exchange.
KeepMasks == UNCHANGED <<white_mask, black_mask>>
LoseMask == white_mask' = black_mask /\ UNCHANGED black_mask

SwapMasks == white_mask' = black_mask /\ black_mask' = white_mask

\* The masks trade places, so that what was marked black is white for the next
\* collection; a shutdown also nulls and forgets every root.
EndCollect ==
    /\ phase = "sweep" /\ pending = {}
    /\ SwapMasks
    /\ words' = {}
    /\ IF shutting_down
       THEN /\ slotVal' = [s \in Slot |-> IF s \in Registered THEN Null ELSE slotVal[s]]
            /\ root_set' = [s \in Slot |-> 0]
            /\ phase' = "exited"
       ELSE /\ phase' = "mutator"
            /\ UNCHANGED <<slotVal, root_set>>
    /\ UNCHANGED <<freeCell, color, fields, moduleRefs, locals, work_list, pending,
                   shutting_down>>

CollectorStep ==
    \/ \E s \in Slot : mark_from_roots(s)
    \/ BeginModules \/ BeginStack \/ BeginProcess \/ BeginSweep
    \/ \E o \in Obj : \/ mark_from_modules(o) \/ mark_thread_stack(o)
                      \/ _scan_ejsvalue(o)    \/ sweep_heap(o)
    \/ process_worklist
    \/ EndCollect

Next ==
    \/ \E o \in Obj : _ejs_gc_alloc(o)
    \/ MutatorStep
    \/ \E s \in Slot : \/ \E v \in Obj \union {Null} : _ejs_gc_add_root(s, v)
                       \/ _ejs_gc_remove_root(s)
    \/ _ejs_gc_collect \/ _ejs_gc_shutdown
    \/ CollectorStep

\* The collector is a plain call: once entered it runs to its end.
Spec == Init /\ [][Next]_vars
FairSpec == Spec /\ WF_vars(CollectorStep)
-----------------------------------------------------------------------------
(* Properties.                                                             *)

Phases == {"mutator", "roots", "modules", "stack", "process", "sweep", "exited"}
Marking == phase \in {"roots", "modules", "stack", "process"}
OnWorkList(o) == \E i \in 1 .. Len(work_list) : work_list[i] = o

\* The type invariant of the collector's state: bitmap entries, masks, roots,
\* the work list and the cursor of the loop it is in.
TypeOK ==
    /\ freeCell \subseteq Obj
    /\ color \in [Obj -> {0, 1, CELL_GRAY_MASK}]
    /\ white_mask \in {0, 1} /\ black_mask \in {0, 1} /\ white_mask # black_mask
    /\ fields \in [Obj -> SUBSET Obj]
    /\ root_set \in [Slot -> Nat]
    /\ slotVal \in [Slot -> Obj \union {Null}]
    /\ moduleRefs \in [Module -> SUBSET Obj]
    /\ locals \subseteq Obj /\ words \subseteq Obj
    /\ work_list \in Seq(Obj)
    /\ phase \in Phases
    /\ pending \subseteq (IF phase = "roots" THEN Slot ELSE Obj)
    /\ shutting_down \in BOOLEAN

Condemned == {o \in Allocated : phase = "sweep" /\ IS_WHITE(o)}

\* No dangling reference: until the heap is torn down at exit, whatever a live
\* local, a registered root, a module or an allocated object refers to is an
\* allocated cell, in the middle of a collection and of its sweep too.  Only an
\* object condemned by the sweep under way may refer to one already freed (so
\* no Finalize operation may follow references).
NoDangling ==
    ~shutting_down =>
        /\ locals \subseteq Allocated
        /\ \A s \in Registered : slotVal[s] # Null => slotVal[s] \in Allocated
        /\ \A m \in Module : moduleRefs[m] \subseteq Allocated
        /\ \A o \in Allocated \ Condemned : fields[o] \subseteq Allocated

\* The mask swap works: whenever the mutator runs every allocated cell is white
\* under the current masks, whatever the parity of the number of collections.
\* _ejs_gc_shutdown, which sweeps without marking, relies on it.
MutatorSeesWhite ==
    phase = "mutator" => \A o \in Allocated : IS_WHITE(o)

\* The work list holds exactly the grey cells, each once, so that its length is
\* bounded by the number of objects and process_worklist ends.
WorkListIsGray ==
    /\ \A o \in Obj : IS_GRAY(o) <=> OnWorkList(o)
    /\ \A i, j \in 1 .. Len(work_list) : work_list[i] = work_list[j] => i = j

\* The colour bits of a free cell stay clear: no word that merely looks like a
\* reference, and no scan, gets a free cell marked or pushed.
FreeCellsUnmarked == \A o \in freeCell : color[o] = 0

\* Reference definition: the least set that holds the start cells, which are those
\* that a root, a module, a live local or a word found on the stack refers to, and
\* is closed under the references of its members.
Starts ==
    ({slotVal[s] : s \in Registered} \union (UNION {moduleRefs[m] : m \in Module})
      \union locals \union words) \intersect Allocated
Closed(S) == \A o \in S : fields[o] \subseteq S
Reachable == {o \in Obj : \A S \in SUBSET Obj : Starts \subseteq S /\ Closed(S) => o \in S}

\* Marking is exact: when it is over, what is not white among the allocated
\* cells is what can be reached from the roots, the modules and the words found
\* on the stack.  Nothing reachable is swept and no garbage floats.
MarkIsReachability ==
    phase = "sweep" /\ pending = Obj /\ ~shutting_down =>
        {o \in Allocated : ~IS_WHITE(o)} = Reachable

\* After _ejs_gc_shutdown every cell has been finalized and no root is left.
ShutdownFreesAll ==
    phase = "exited" => freeCell = Obj /\ Registered = {}

\* Garbage, all of it and nothing else: whatever step frees a cell, before the heap
\* is torn down, no chain of references leads to it at that moment from a live local,
\* a registered root or a module; and when a sweep hands the heap back to the mutator
\* everything that is still allocated is reached by such a chain or from a word that
\* the marking found on the stack.
OnlyGarbageFreed ==
    [][/\ \A o \in Allocated : o \in freeCell' => shutting_down \/ o \notin Reachable
       /\ phase = "sweep" /\ phase' = "mutator" => Allocated = Reachable]_vars

\* A collection, once entered, comes back to the mutator or exits.
CollectionEnds == phase = "roots" ~> phase \in {"mutator", "exited"}

\* The colours mean what each phase takes them to mean: outside a collection every
\* allocated cell is white, the work list holds the grey cells, each once, and no free
\* cell has a colour, however often the masks have traded places.
ColoursConsistent == MutatorSeesWhite /\ WorkListIsGray /\ FreeCellsUnmarked
=============================================================================
