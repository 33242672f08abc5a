---------------------------- MODULE EjsGC_proofs ----------------------------
(***************************************************************************)
(* Safety of the collector for every heap, set of root variables and set   *)
(* of modules.                                                             *)
(***************************************************************************)
EXTENDS EjsGC, TLAPS

NonWhite(o) == ~IS_WHITE(o)

\* What is true of the control state whatever the heap looks like.
ControlInv ==
    /\ shutting_down => phase \in {"sweep", "exited"}
    /\ phase = "exited" => shutting_down /\ freeCell = Obj /\ Registered = {}
    /\ phase \in {"sweep", "mutator", "exited"} => work_list = <<>>
    /\ phase \in {"mutator", "roots", "modules"} => words = {}
    /\ phase = "roots" => pending \subseteq Registered

\* How far the loop over each kind of root has come: what it has visited is no
\* longer white, what the precise scans still have to visit is allocated.
RootsDone ==
    phase \in {"roots", "modules", "stack", "process", "sweep"} /\ ~shutting_down =>
        \A s \in Registered : slotVal[s] # Null =>
            NonWhite(slotVal[s]) \/ (phase = "roots" /\ s \in pending)

ModulesDone ==
    phase \in {"modules", "stack", "process", "sweep"} /\ ~shutting_down =>
        \A m \in Module : \A p \in moduleRefs[m] :
            NonWhite(p) \/ (phase = "modules" /\ p \in pending)

StackDone ==
    phase \in {"stack", "process", "sweep"} /\ ~shutting_down =>
        /\ locals \subseteq words
        /\ \A p \in words \intersect Allocated :
              NonWhite(p) \/ (phase = "stack" /\ p \in pending)

PendingAllocated ==
    phase \in {"modules", "process"} => pending \subseteq Allocated

\* The tri-colour invariant: an allocated black cell refers to no white cell,
\* except for the references that the Scan in progress has still to visit.
TriColor ==
    phase \in {"roots", "modules", "stack", "process", "sweep"} /\ ~shutting_down =>
        \A o \in Allocated : IS_BLACK(o) =>
            /\ phase \in {"process", "sweep"}
            /\ \A p \in fields[o] : NonWhite(p) \/ (phase = "process" /\ p \in pending)

\* The sweep leaves no white cell behind it, and a shutdown, which marked
\* nothing, frees everything it visits.
SweptIsBlack ==
    /\ phase = "sweep" => \A o \in Allocated : NonWhite(o) \/ o \in pending
    /\ phase = "sweep" /\ shutting_down => \A o \in Allocated : IS_WHITE(o)

\* Nothing is marked that cannot be reached.
MarkedReachable ==
    /\ Marking => \A o \in Allocated : NonWhite(o) => o \in Reachable
    /\ phase = "modules" => pending \subseteq Starts
    /\ phase = "stack" => pending \subseteq words
    /\ phase = "process" => pending \subseteq Reachable
    /\ phase = "sweep" /\ ~shutting_down =>
          \A o \in Allocated : NonWhite(o) => o \in Reachable

IInv ==
    /\ TypeOK
    /\ WorkListIsGray
    /\ FreeCellsUnmarked
    /\ MutatorSeesWhite
    /\ NoDangling
    /\ ControlInv
    /\ RootsDone
    /\ ModulesDone
    /\ StackDone
    /\ PendingAllocated
    /\ TriColor
    /\ SweptIsBlack

-----------------------------------------------------------------------------

\* PushAndGray and MarkChecked keep the work list equal to the set of grey
\* cells and change no other cell than the one they are applied to.
LEMMA PushAndGrayLemma ==
    ASSUME TypeOK, WorkListIsGray, NEW o \in Obj, PushAndGray(o),
           UNCHANGED <<white_mask, black_mask>>
    PROVE  /\ color' \in [Obj -> {0, 1, CELL_GRAY_MASK}]
           /\ work_list' \in Seq(Obj)
           /\ WorkListIsGray'
           /\ \A x \in Obj : x # o => color'[x] = color[x]
           /\ IS_WHITE(o) => color'[o] = CELL_GRAY_MASK
           /\ ~IS_WHITE(o) => color'[o] = color[o]
<1> USE DEF TypeOK, PushAndGray, IS_WHITE, IS_GRAY, CELL_GRAY_MASK
<1>1. CASE ~IS_WHITE(o)
  BY <1>1 DEF WorkListIsGray, OnWorkList
<1>2. CASE IS_WHITE(o)
  <2>1. /\ work_list' = Append(work_list, o)
        /\ color' = [color EXCEPT ![o] = 2]
    BY <1>2
  <2>2. /\ work_list' \in Seq(Obj)
        /\ Len(work_list') = Len(work_list) + 1
        /\ \A i \in 1 .. Len(work_list) : work_list'[i] = work_list[i]
        /\ work_list'[Len(work_list) + 1] = o
    BY <2>1
  <2>3. Len(work_list) \in Nat
    OBVIOUS
  <2>4. ~OnWorkList(o)
    BY <1>2 DEF WorkListIsGray
  <2>5. \A x \in Obj : IS_GRAY(x)' <=> OnWorkList(x)'
    BY <2>1, <2>2, <2>3 DEF WorkListIsGray, OnWorkList
  <2>6. ASSUME NEW i \in 1 .. Len(work_list'), NEW j \in 1 .. Len(work_list'),
               work_list'[i] = work_list'[j]
        PROVE  i = j
    <3>1. CASE i \in 1 .. Len(work_list) /\ j \in 1 .. Len(work_list)
      BY <2>2, <2>6, <3>1 DEF WorkListIsGray
    <3>2. ASSUME NEW k \in 1 .. Len(work_list)
          PROVE  work_list'[k] # o
      BY <2>2, <2>4 DEF OnWorkList
    <3>3. CASE i = Len(work_list) + 1 \/ j = Len(work_list) + 1
      BY <2>2, <2>3, <2>6, <3>2, <3>3
    <3> QED
      BY <2>2, <2>3, <3>1, <3>3
  <2> QED
    BY <1>2, <2>1, <2>2, <2>5, <2>6 DEF WorkListIsGray
<1> QED
  BY <1>1, <1>2

\* All but the last element of a sequence.
LEMMA FrontLemma ==
    ASSUME NEW S, NEW s \in Seq(S), s # <<>>
    PROVE  /\ SubSeq(s, 1, Len(s) - 1) \in Seq(S)
           /\ Len(SubSeq(s, 1, Len(s) - 1)) = Len(s) - 1
           /\ \A i \in 1 .. Len(s) - 1 : SubSeq(s, 1, Len(s) - 1)[i] = s[i]
<1>0. Len(s) \in Nat /\ Len(s) # 0
  OBVIOUS
<1>1. PICK n \in Nat : n = Len(s) - 1 /\ n < Len(s)
  <2>1. Len(s) - 1 \in Nat /\ Len(s) - 1 < Len(s)
    BY <1>0
  <2> QED
    BY <2>1
<1>2. SubSeq(s, 1, n) \in Seq(S)
  BY <1>1
<1>3. Len(SubSeq(s, 1, n)) = n
  BY <1>1
<1>4. \A i \in 1 .. n : SubSeq(s, 1, n)[i] = s[i]
  BY <1>1
<1> QED
  BY <1>1, <1>2, <1>3, <1>4, Zenon

\* Popping the top of the work list and blackening it removes just that cell
\* from the grey ones.
LEMMA PopLemma ==
    ASSUME TypeOK, WorkListIsGray, work_list # <<>>,
           NEW p, p = work_list[Len(work_list)],
           color' = [color EXCEPT ![p] = black_mask],
           work_list' = SubSeq(work_list, 1, Len(work_list) - 1),
           UNCHANGED <<white_mask, black_mask>>
    PROVE  /\ p \in Obj /\ IS_GRAY(p)
           /\ work_list' \in Seq(Obj)
           /\ WorkListIsGray'
<1> USE DEF TypeOK, IS_GRAY, CELL_GRAY_MASK
<1>1. Len(work_list) \in Nat /\ Len(work_list) > 0
  OBVIOUS
<1>2. p \in Obj
  BY <1>1
<1>3. OnWorkList(p)
  BY <1>1 DEF OnWorkList
<1>4. IS_GRAY(p)
  BY <1>2, <1>3 DEF WorkListIsGray
<1>5. /\ work_list' \in Seq(Obj)
      /\ Len(work_list') = Len(work_list) - 1
      /\ \A i \in 1 .. Len(work_list) - 1 : work_list'[i] = work_list[i]
  BY FrontLemma
<1>6. \A x \in Obj : IS_GRAY(x)' <=> OnWorkList(x)'
  <2> TAKE x \in Obj
  <2>1. CASE x = p
    <3>1. ~IS_GRAY(x)'
      BY <2>1
    <3>2. ~OnWorkList(x)'
      <4>1. ASSUME NEW i \in 1 .. Len(work_list) - 1
            PROVE  work_list'[i] # p
        BY <1>1, <1>5 DEF WorkListIsGray
      <4> QED
        BY <2>1, <1>5, <4>1 DEF OnWorkList
    <3> QED
      BY <3>1, <3>2
  <2>2. CASE x # p
    <3>1. IS_GRAY(x)' <=> IS_GRAY(x)
      BY <2>2
    <3>2. OnWorkList(x)' <=> OnWorkList(x)
      <4>1. OnWorkList(x) => OnWorkList(x)'
        <5> SUFFICES ASSUME NEW i \in 1 .. Len(work_list), work_list[i] = x
                     PROVE  OnWorkList(x)'
          BY DEF OnWorkList
        <5>1. i # Len(work_list)
          BY <2>2
        <5>2. i \in 1 .. Len(work_list')
          BY <1>1, <1>5, <5>1
        <5> QED
          BY <1>5, <5>2 DEF OnWorkList
      <4>2. OnWorkList(x)' => OnWorkList(x)
        <5> SUFFICES ASSUME NEW i \in 1 .. Len(work_list'), work_list'[i] = x
                     PROVE  OnWorkList(x)
          BY DEF OnWorkList
        <5> QED
          BY <1>1, <1>5 DEF OnWorkList
      <4> QED
        BY <4>1, <4>2
    <3> QED
      BY <3>1, <3>2 DEF WorkListIsGray
  <2> QED
    BY <2>1, <2>2
<1>7. \A i, j \in 1 .. Len(work_list') : work_list'[i] = work_list'[j] => i = j
  BY <1>1, <1>5 DEF WorkListIsGray
<1> QED
  BY <1>2, <1>4, <1>5, <1>6, <1>7 DEF WorkListIsGray

\* One visit of a marking loop: an allocated cell that was white becomes grey, a
\* free one is left alone, and no other cell changes.
LEMMA MarkLemma ==
    ASSUME IInv, NEW o \in Obj,
           o \in freeCell => UNCHANGED <<work_list, color>>,
           o \notin freeCell => PushAndGray(o),
           UNCHANGED <<freeCell, white_mask, black_mask>>
    PROVE  /\ color' \in [Obj -> {0, 1, CELL_GRAY_MASK}]
           /\ work_list' \in Seq(Obj)
           /\ WorkListIsGray'
           /\ FreeCellsUnmarked'
           /\ o \in Allocated => NonWhite(o)'
           /\ \A x \in Obj : NonWhite(x) => NonWhite(x)'
           /\ \A x \in Obj : IS_BLACK(x)' <=> IS_BLACK(x)
           /\ \A x \in Obj : NonWhite(x)' => NonWhite(x) \/ (x = o /\ o \in Allocated)
<1> USE DEF IInv
<1>1. CASE o \in freeCell
  BY <1>1 DEF TypeOK, WorkListIsGray, OnWorkList, IS_GRAY, FreeCellsUnmarked,
              Allocated, NonWhite, IS_WHITE, IS_BLACK
<1>2. CASE o \notin freeCell
  <2>1. /\ color' \in [Obj -> {0, 1, CELL_GRAY_MASK}]
        /\ work_list' \in Seq(Obj)
        /\ WorkListIsGray'
        /\ \A x \in Obj : x # o => color'[x] = color[x]
        /\ IS_WHITE(o) => color'[o] = CELL_GRAY_MASK
        /\ ~IS_WHITE(o) => color'[o] = color[o]
    BY <1>2, PushAndGrayLemma
  <2>2. white_mask # CELL_GRAY_MASK /\ black_mask # CELL_GRAY_MASK /\ white_mask # black_mask
    BY DEF TypeOK, CELL_GRAY_MASK
  <2>3. FreeCellsUnmarked'
    BY <1>2, <2>1 DEF FreeCellsUnmarked, TypeOK
  <2>4. NonWhite(o)'
    BY <2>1, <2>2 DEF NonWhite, IS_WHITE
  <2>5. \A x \in Obj : NonWhite(x) => NonWhite(x)'
    BY <2>1, <2>4 DEF NonWhite, IS_WHITE
  <2>6. \A x \in Obj : IS_BLACK(x)' <=> IS_BLACK(x)
    BY <2>1, <2>2 DEF IS_BLACK, IS_WHITE
  <2>7. \A x \in Obj : NonWhite(x)' => NonWhite(x) \/ (x = o /\ o \in Allocated)
    BY <1>2, <2>1 DEF NonWhite, IS_WHITE, Allocated
  <2> QED
    BY <2>1, <2>3, <2>4, <2>5, <2>6, <2>7
<1> QED
  BY <1>1, <1>2

\* The empty heap satisfies the inductive invariant.
LEMMA InitIInv == Init => IInv
<1> SUFFICES ASSUME Init PROVE IInv
  OBVIOUS
<1> USE DEF Init
<1>1. TypeOK
  <2>1. work_list \in Seq(Obj)
    OBVIOUS
  <2>2. shutting_down \in BOOLEAN
    OBVIOUS
  <2>3. phase \in Phases /\ phase # "roots"
    BY DEF Phases
  <2>4. /\ color \in [Obj -> {0, 1, CELL_GRAY_MASK}]
        /\ white_mask \in {0, 1} /\ black_mask \in {0, 1} /\ white_mask # black_mask
        /\ fields \in [Obj -> SUBSET Obj]
        /\ root_set \in [Slot -> Nat]
        /\ slotVal \in [Slot -> Obj \union {Null}]
        /\ moduleRefs \in [Module -> SUBSET Obj]
    OBVIOUS
  <2> QED
    BY <2>1, <2>2, <2>3, <2>4 DEF TypeOK
<1>2. WorkListIsGray
  <2>1. 1 .. Len(work_list) = {}
    OBVIOUS
  <2>2. \A o \in Obj : ~IS_GRAY(o)
    BY DEF IS_GRAY, CELL_GRAY_MASK
  <2> QED
    BY <2>1, <2>2 DEF WorkListIsGray, OnWorkList
<1>3. FreeCellsUnmarked
  BY DEF FreeCellsUnmarked
<1>4. Allocated = {} /\ Registered = {}
  BY DEF Allocated, Registered
<1> QED
  BY <1>1, <1>2, <1>3, <1>4
     DEF IInv, MutatorSeesWhite, NoDangling, ControlInv, RootsDone, ModulesDone,
         StackDone, PendingAllocated, TriColor, SweptIsBlack

\* Allocation preserves the inductive invariant: the new cell is white, holds no
\* reference, and is referred to by the caller's local only.
LEMMA AllocStep ==
    ASSUME IInv, NEW o \in Obj, _ejs_gc_alloc(o)
    PROVE  IInv'
<1> USE DEF IInv, _ejs_gc_alloc
<1>1. TypeOK'
  BY DEF TypeOK
<1>2. /\ Allocated' = Allocated \union {o}
      /\ Allocated \subseteq Obj
      /\ color \in [Obj -> {0, 1, 2}] /\ color'[o] = white_mask
      /\ white_mask \in {0, 1}
      /\ \A x \in Obj : x # o => color'[x] = color[x]
      /\ Registered' = Registered
  BY DEF Allocated, TypeOK, Registered, CELL_GRAY_MASK
<1>3. WorkListIsGray'
  <2>1. /\ ~IS_GRAY(o)' /\ ~IS_GRAY(o)
        /\ \A x \in Obj : IS_GRAY(x)' <=> IS_GRAY(x)
    BY <1>2 DEF IS_GRAY, CELL_GRAY_MASK, FreeCellsUnmarked
  <2> QED
    BY <2>1 DEF WorkListIsGray, OnWorkList
<1>4. FreeCellsUnmarked'
  BY <1>2 DEF FreeCellsUnmarked, TypeOK
<1>5. MutatorSeesWhite'
  BY <1>2 DEF MutatorSeesWhite, IS_WHITE
<1>6. NoDangling'
  <2>1. \A x \in Allocated' : fields'[x] \subseteq Allocated'
    BY <1>2 DEF NoDangling, ControlInv, TypeOK, Condemned
  <2> QED
    BY <1>2, <2>1 DEF NoDangling, ControlInv
<1>7. /\ RootsDone' /\ ModulesDone' /\ StackDone' /\ PendingAllocated' /\ TriColor'
      /\ SweptIsBlack'
  BY DEF RootsDone, ModulesDone, StackDone, PendingAllocated, TriColor, SweptIsBlack
<1>8. ControlInv'
  BY <1>2 DEF ControlInv
<1> QED
  BY <1>1, <1>3, <1>4, <1>5, <1>6, <1>7, <1>8

\* The mutator moves references around among what it can already reach.
LEMMA MutatorSteps ==
    ASSUME IInv, MutatorStep
    PROVE  IInv'
<1> USE DEF IInv
<1>1. /\ phase = "mutator"
      /\ UNCHANGED <<freeCell, color, white_mask, black_mask, root_set, words,
                     work_list, phase, pending, shutting_down>>
      /\ Allocated' = Allocated /\ Registered' = Registered
      /\ Condemned = {} /\ Condemned' = {}
      /\ ~shutting_down
  BY DEF MutatorStep, StoreField, EraseField, LoadField, DropLocal, LoadSlot, SetSlot,
         SetExport, LoadExport, Allocated, Registered, Condemned, ControlInv
<1>2. /\ RootsDone' /\ ModulesDone' /\ StackDone' /\ PendingAllocated' /\ TriColor'
      /\ SweptIsBlack' /\ ControlInv'
  BY <1>1 DEF RootsDone, ModulesDone, StackDone, PendingAllocated, TriColor,
              SweptIsBlack, ControlInv
<1>3. WorkListIsGray' /\ FreeCellsUnmarked' /\ MutatorSeesWhite'
  BY <1>1 DEF WorkListIsGray, FreeCellsUnmarked, MutatorSeesWhite, IS_GRAY, IS_WHITE,
              OnWorkList
<1>4. TypeOK' /\ NoDangling'
  <2> USE DEF TypeOK, NoDangling
  <2>1. ASSUME NEW o \in Obj, NEW p \in Obj, StoreField(o, p)
        PROVE  TypeOK' /\ NoDangling'
    BY <1>1, <2>1 DEF StoreField
  <2>2. ASSUME NEW o \in Obj, NEW p \in Obj, EraseField(o, p)
        PROVE  TypeOK' /\ NoDangling'
    BY <1>1, <2>2 DEF EraseField
  <2>3. ASSUME NEW o \in Obj, NEW p \in Obj, LoadField(o, p)
        PROVE  TypeOK' /\ NoDangling'
    BY <1>1, <2>3 DEF LoadField
  <2>4. ASSUME NEW o \in Obj, DropLocal(o)
        PROVE  TypeOK' /\ NoDangling'
    BY <1>1, <2>4 DEF DropLocal
  <2>5. ASSUME NEW s \in Slot, LoadSlot(s)
        PROVE  TypeOK' /\ NoDangling'
    BY <1>1, <2>5 DEF LoadSlot
  <2>6. ASSUME NEW s \in Slot, NEW v \in Obj \union {Null}, SetSlot(s, v)
        PROVE  TypeOK' /\ NoDangling'
    BY <1>1, <2>6, NullAssumption DEF SetSlot
  <2>7. ASSUME NEW m \in Module, NEW p \in Obj, SetExport(m, p)
        PROVE  TypeOK' /\ NoDangling'
    BY <1>1, <2>7 DEF SetExport
  <2>8. ASSUME NEW m \in Module, NEW p \in Obj, LoadExport(m, p)
        PROVE  TypeOK' /\ NoDangling'
    BY <1>1, <2>8 DEF LoadExport
  <2> QED
    BY <2>1, <2>2, <2>3, <2>4, <2>5, <2>6, <2>7, <2>8 DEF MutatorStep
<1> QED
  BY <1>2, <1>3, <1>4

\* Registering a root and removing one.
LEMMA RootSteps ==
    ASSUME IInv, NEW s \in Slot,
           \/ \E v \in Obj \union {Null} : _ejs_gc_add_root(s, v)
           \/ _ejs_gc_remove_root(s)
    PROVE  IInv'
<1> USE DEF IInv
<1>1. /\ phase = "mutator"
      /\ UNCHANGED <<freeCell, color, white_mask, black_mask, fields, moduleRefs,
                     locals, words, work_list, phase, pending, shutting_down>>
      /\ Allocated' = Allocated /\ Condemned' = {} /\ Condemned = {}
      /\ ~shutting_down
  BY DEF _ejs_gc_add_root, _ejs_gc_remove_root, Allocated, Condemned, ControlInv,
         mutatorVars
<1>2. /\ RootsDone' /\ ModulesDone' /\ StackDone' /\ PendingAllocated' /\ TriColor'
      /\ SweptIsBlack' /\ ControlInv'
  BY <1>1 DEF RootsDone, ModulesDone, StackDone, PendingAllocated, TriColor,
              SweptIsBlack, ControlInv
<1>3. WorkListIsGray' /\ FreeCellsUnmarked' /\ MutatorSeesWhite'
  BY <1>1 DEF WorkListIsGray, FreeCellsUnmarked, MutatorSeesWhite, IS_GRAY, IS_WHITE,
              OnWorkList
<1>4. ASSUME NEW v \in Obj \union {Null}, _ejs_gc_add_root(s, v)
      PROVE  TypeOK' /\ NoDangling'
  BY <1>1, <1>4, NullAssumption DEF _ejs_gc_add_root, TypeOK, NoDangling, Registered
<1>5. ASSUME _ejs_gc_remove_root(s)
      PROVE  TypeOK' /\ NoDangling'
  <2>1. /\ root_set' \in [Slot -> Nat] /\ slotVal' = slotVal
        /\ Registered' \subseteq Registered
    BY <1>5 DEF _ejs_gc_remove_root, TypeOK, Registered, mutatorVars
  <2> QED
    BY <1>1, <2>1 DEF TypeOK, NoDangling
<1> QED
  BY <1>2, <1>3, <1>4, <1>5

\* Entering a collection, with or without a marking.
LEMMA EnterSteps ==
    ASSUME IInv, _ejs_gc_collect \/ _ejs_gc_shutdown
    PROVE  IInv'
<1> USE DEF IInv
<1>1. /\ phase = "mutator" /\ phase' \in {"roots", "sweep"}
      /\ UNCHANGED <<freeCell, color, white_mask, black_mask, mutatorVars, root_set,
                     words, work_list>>
      /\ Allocated' = Allocated /\ Registered' = Registered
      /\ phase' = "roots" => pending' = Registered /\ ~shutting_down'
      /\ phase' = "sweep" => pending' = Obj /\ shutting_down'
      /\ shutting_down' \in BOOLEAN
  <2>1. CASE _ejs_gc_collect
    BY <2>1 DEF _ejs_gc_collect, Allocated, Registered, ControlInv, TypeOK
  <2>2. CASE _ejs_gc_shutdown
    BY <2>2 DEF _ejs_gc_shutdown, Allocated, Registered
  <2> QED
    BY <2>1, <2>2
<1>2. \A o \in Allocated : IS_WHITE(o) /\ IS_WHITE(o)' /\ ~IS_BLACK(o)'
  BY <1>1 DEF MutatorSeesWhite, TypeOK, IS_WHITE, IS_BLACK
<1>3. TypeOK'
  BY <1>1 DEF TypeOK, Registered, mutatorVars, Phases
<1>4. WorkListIsGray' /\ FreeCellsUnmarked' /\ MutatorSeesWhite'
  <2>1. WorkListIsGray'
    BY <1>1 DEF WorkListIsGray, IS_GRAY, OnWorkList
  <2> QED
    BY <1>1, <2>1 DEF FreeCellsUnmarked, MutatorSeesWhite
<1>5. NoDangling'
  BY <1>1 DEF NoDangling, ControlInv, mutatorVars, Condemned
<1>6. ControlInv'
  BY <1>1 DEF ControlInv
<1>7. RootsDone' /\ ModulesDone' /\ StackDone' /\ PendingAllocated' /\ TriColor'
  BY <1>1, <1>2 DEF RootsDone, ModulesDone, StackDone, PendingAllocated, TriColor
<1>8. SweptIsBlack'
  <2>1. Allocated \subseteq Obj
    BY DEF Allocated
  <2> QED
    BY <1>1, <1>2, <2>1 DEF SweptIsBlack
<1> QED
  BY <1>3, <1>4, <1>5, <1>6, <1>7, <1>8

\* A visit of the root loop, of the module scan, of the stack scan or of the scan
\* of a grey object.
LEMMA MarkSteps ==
    ASSUME IInv,
           \/ \E s \in Slot : mark_from_roots(s)
           \/ \E o \in Obj : mark_from_modules(o) \/ mark_thread_stack(o) \/ _scan_ejsvalue(o)
    PROVE  IInv'
<1> USE DEF IInv
<1>1. /\ Marking /\ phase \notin {"mutator", "sweep", "exited"}
      /\ UNCHANGED <<freeCell, white_mask, black_mask, mutatorVars, root_set, words,
                     phase, shutting_down>>
      /\ pending' \subseteq pending
      /\ Allocated' = Allocated /\ Registered' = Registered
      /\ Allocated \subseteq Obj
      /\ Condemned = {} /\ Condemned' = {}
      /\ ~shutting_down
  BY DEF mark_from_roots, mark_from_modules, mark_thread_stack, _scan_ejsvalue, Marking,
         Allocated, Registered, Condemned, ControlInv
<1>2. ASSUME color' \in [Obj -> {0, 1, CELL_GRAY_MASK}],
             work_list' \in Seq(Obj),
             WorkListIsGray', FreeCellsUnmarked',
             \A x \in Obj : NonWhite(x) => NonWhite(x)',
             \A x \in Obj : IS_BLACK(x)' <=> IS_BLACK(x),
             \A x \in pending \ pending' :
                 /\ phase = "roots" /\ slotVal[x] # Null /\ x \in Registered => NonWhite(slotVal[x])'
                 /\ phase \in {"modules", "stack", "process"} /\ x \in Allocated => NonWhite(x)'
      PROVE  IInv'
  <2>1. TypeOK'
    BY <1>1, <1>2 DEF TypeOK, mutatorVars
  <2>2. NoDangling'
    BY <1>1 DEF NoDangling, mutatorVars
  <2>3. ControlInv' /\ MutatorSeesWhite' /\ SweptIsBlack' /\ PendingAllocated'
    BY <1>1 DEF ControlInv, MutatorSeesWhite, SweptIsBlack, PendingAllocated
  <2>4. RootsDone'
    BY <1>1, <1>2 DEF RootsDone, TypeOK, mutatorVars, Registered
  <2>5. ModulesDone'
    BY <1>1, <1>2 DEF ModulesDone, TypeOK, mutatorVars, NoDangling
  <2>6. StackDone'
    BY <1>1, <1>2 DEF StackDone, TypeOK, mutatorVars
  <2>7. TriColor'
    BY <1>1, <1>2 DEF TriColor, TypeOK, mutatorVars, NoDangling
  <2> QED
    BY <1>2, <2>1, <2>2, <2>3, <2>4, <2>5, <2>6, <2>7
<1>3. ASSUME NEW s \in Slot, mark_from_roots(s) PROVE IInv'
  <2>1. CASE slotVal[s] = Null
    BY <1>1, <1>2, <1>3, <2>1
       DEF mark_from_roots, TypeOK, WorkListIsGray, FreeCellsUnmarked, NonWhite,
           IS_WHITE, IS_BLACK, IS_GRAY, OnWorkList
  <2>2. CASE slotVal[s] # Null
    <3>1. slotVal[s] \in Obj
      BY <2>2 DEF TypeOK
    <3>2. /\ slotVal[s] \in freeCell => UNCHANGED <<work_list, color>>
          /\ slotVal[s] \notin freeCell => PushAndGray(slotVal[s])
          /\ pending \ pending' \subseteq {s} /\ phase = "roots"
      BY <1>3, <2>2 DEF mark_from_roots, MarkChecked
    <3>3. s \in Registered => slotVal[s] \in Allocated
      BY <1>1, <2>2 DEF NoDangling
    <3>4. /\ color' \in [Obj -> {0, 1, CELL_GRAY_MASK}]
          /\ work_list' \in Seq(Obj)
          /\ WorkListIsGray' /\ FreeCellsUnmarked'
          /\ slotVal[s] \in Allocated => NonWhite(slotVal[s])'
          /\ \A x \in Obj : NonWhite(x) => NonWhite(x)'
          /\ \A x \in Obj : IS_BLACK(x)' <=> IS_BLACK(x)
      <4> HIDE DEF IInv
      <4>1. PICK r \in Obj : r = slotVal[s] /\ r = slotVal'[s]
        BY <1>1, <3>1 DEF mutatorVars
      <4>2. /\ r \in freeCell => UNCHANGED <<work_list, color>>
            /\ r \notin freeCell => PushAndGray(r)
            /\ UNCHANGED <<freeCell, white_mask, black_mask>>
        BY <1>1, <3>2, <4>1
      <4>3. /\ color' \in [Obj -> {0, 1, CELL_GRAY_MASK}]
            /\ work_list' \in Seq(Obj)
            /\ WorkListIsGray' /\ FreeCellsUnmarked'
            /\ r \in Allocated => NonWhite(r)'
            /\ \A x \in Obj : NonWhite(x) => NonWhite(x)'
            /\ \A x \in Obj : IS_BLACK(x)' <=> IS_BLACK(x)
        BY <4>2, MarkLemma
      <4> QED
        BY <4>1, <4>3 DEF NonWhite, IS_WHITE
    <3> HIDE DEF IInv
    <3> QED
      BY <1>1, <1>2, <3>1, <3>2, <3>3, <3>4
  <2> QED
    BY <2>1, <2>2
<1>4. ASSUME NEW o \in Obj, mark_from_modules(o) \/ mark_thread_stack(o) \/ _scan_ejsvalue(o)
      PROVE  IInv'
  <2>1. /\ o \in freeCell => UNCHANGED <<work_list, color>>
        /\ o \notin freeCell => PushAndGray(o)
        /\ pending \ pending' \subseteq {o} /\ phase # "roots"
    BY <1>4 DEF mark_from_modules, mark_thread_stack, _scan_ejsvalue, MarkChecked,
                PendingAllocated, Allocated
  <2> HIDE DEF IInv
  <2> QED
    BY <1>1, <1>2, <2>1, MarkLemma
<1> QED
  BY <1>3, <1>4

\* From one loop of the marking to the next, and from the marking to the sweep.
LEMMA BeginSteps ==
    ASSUME IInv, BeginModules \/ BeginStack \/ BeginProcess \/ BeginSweep
    PROVE  IInv'
<1> USE DEF IInv
<1>1. /\ phase \in {"roots", "modules", "stack", "process"} /\ pending = {}
      /\ phase' \in {"modules", "stack", "process", "sweep"}
      /\ UNCHANGED <<freeCell, color, white_mask, black_mask, mutatorVars, root_set,
                     work_list, shutting_down>>
      /\ ~shutting_down
      /\ Allocated' = Allocated /\ Registered' = Registered /\ Allocated \subseteq Obj
  <2>1. /\ phase \in {"roots", "modules", "stack", "process"} /\ pending = {}
        /\ phase' \in {"modules", "stack", "process", "sweep"}
        /\ UNCHANGED <<freeCell, color, white_mask, black_mask, mutatorVars, root_set,
                       work_list, shutting_down>>
    BY DEF BeginModules, BeginStack, BeginProcess, BeginSweep
  <2>2. ~shutting_down
    BY <2>1 DEF ControlInv
  <2> QED
    BY <2>1, <2>2 DEF Allocated, Registered
<1>2. WorkListIsGray' /\ FreeCellsUnmarked' /\ MutatorSeesWhite'
  <2>1. WorkListIsGray'
    BY <1>1 DEF WorkListIsGray, IS_GRAY, OnWorkList
  <2> QED
    BY <1>1, <2>1 DEF FreeCellsUnmarked, MutatorSeesWhite
<1>3. CASE BeginModules
  <2> USE DEF BeginModules
  <2>1. pending' \subseteq Allocated
    BY <1>1, <1>3 DEF NoDangling
  <2>2. TypeOK'
    BY <1>1, <1>3, <2>1 DEF TypeOK, mutatorVars, Phases
  <2>3. NoDangling' /\ ControlInv' /\ SweptIsBlack' /\ PendingAllocated'
    BY <1>1, <1>3, <2>1 DEF NoDangling, ControlInv, SweptIsBlack, PendingAllocated,
                            mutatorVars, Condemned
  <2>4. RootsDone'
    BY <1>1, <1>3 DEF RootsDone, mutatorVars, NonWhite, IS_WHITE
  <2>5. ModulesDone'
    BY <1>1, <1>3 DEF ModulesDone, mutatorVars, NonWhite, IS_WHITE
  <2>6. StackDone'
    BY <1>1, <1>3 DEF StackDone, mutatorVars, NonWhite, IS_WHITE
  <2>7. TriColor'
    BY <1>1, <1>3 DEF TriColor, mutatorVars, NonWhite, IS_WHITE, IS_BLACK
  <2> QED
    BY <1>2, <2>2, <2>3, <2>4, <2>5, <2>6, <2>7
<1>4. CASE BeginStack
  <2> USE DEF BeginStack
  <2>1. locals \subseteq words' /\ words' \subseteq Obj /\ pending' = words' /\ phase = "modules"
        /\ phase' = "stack"
    BY <1>4 DEF TypeOK
  <2>2. TypeOK'
    BY <1>1, <2>1 DEF TypeOK, mutatorVars, Phases
  <2>3. NoDangling' /\ ControlInv' /\ SweptIsBlack' /\ PendingAllocated'
    BY <1>1, <2>1 DEF NoDangling, ControlInv, SweptIsBlack, PendingAllocated,
                      mutatorVars, Condemned
  <2>4. RootsDone'
    BY <1>1, <2>1 DEF RootsDone, mutatorVars, NonWhite, IS_WHITE
  <2>5. ModulesDone'
    BY <1>1, <2>1 DEF ModulesDone, mutatorVars, NonWhite, IS_WHITE
  <2>6. TriColor'
    BY <1>1, <2>1 DEF TriColor, mutatorVars, NonWhite, IS_WHITE, IS_BLACK
  <2>7. StackDone'
    BY <1>1, <2>1 DEF StackDone, mutatorVars, NonWhite, IS_WHITE
  <2> QED
    BY <1>2, <2>2, <2>3, <2>4, <2>5, <2>6, <2>7
<1>5. CASE BeginProcess
  <2> USE DEF BeginProcess
  <2>1. TypeOK' /\ NoDangling' /\ ControlInv' /\ SweptIsBlack' /\ PendingAllocated'
    BY <1>1, <1>5 DEF TypeOK, NoDangling, ControlInv, SweptIsBlack, PendingAllocated,
                      mutatorVars, Condemned, Phases
  <2>2. RootsDone'
    BY <1>1, <1>5 DEF RootsDone, mutatorVars, NonWhite, IS_WHITE
  <2>3. ModulesDone'
    BY <1>1, <1>5 DEF ModulesDone, mutatorVars, NonWhite, IS_WHITE
  <2>4. TriColor'
    BY <1>1, <1>5 DEF TriColor, mutatorVars, NonWhite, IS_WHITE, IS_BLACK
  <2>5. StackDone'
    BY <1>1, <1>5 DEF StackDone, mutatorVars, NonWhite, IS_WHITE
  <2> QED
    BY <1>2, <2>1, <2>2, <2>3, <2>4, <2>5
<1>6. CASE BeginSweep
  <2> USE DEF BeginSweep
  <2>1. TypeOK' /\ ControlInv' /\ PendingAllocated' /\ SweptIsBlack'
    BY <1>1, <1>6 DEF TypeOK, ControlInv, PendingAllocated, SweptIsBlack, mutatorVars,
                      Phases
  <2>2. NoDangling'
    BY <1>1, <1>6 DEF NoDangling, mutatorVars, Condemned
  <2>3. RootsDone'
    BY <1>1, <1>6 DEF RootsDone, mutatorVars, NonWhite, IS_WHITE
  <2>4. ModulesDone'
    BY <1>1, <1>6 DEF ModulesDone, mutatorVars, NonWhite, IS_WHITE
  <2>5. TriColor'
    BY <1>1, <1>6 DEF TriColor, mutatorVars, NonWhite, IS_WHITE, IS_BLACK
  <2>6. StackDone'
    BY <1>1, <1>6 DEF StackDone, mutatorVars, NonWhite, IS_WHITE
  <2> QED
    BY <1>2, <2>1, <2>2, <2>3, <2>4, <2>5, <2>6
<1> QED
  BY <1>3, <1>4, <1>5, <1>6

\* A grey object is blackened and its references become what the Scan has to
\* visit.
LEMMA ProcessStep ==
    ASSUME IInv, process_worklist
    PROVE  IInv'
<1> USE DEF IInv
<1>1. PICK p : /\ p = work_list[Len(work_list)]
               /\ color' = [color EXCEPT ![p] = black_mask]
               /\ pending' = fields[p]
  BY DEF process_worklist, _ejs_gc_worklist_pop
<1>2. /\ phase = "process" /\ pending = {} /\ work_list # <<>>
      /\ work_list' = SubSeq(work_list, 1, Len(work_list) - 1)
      /\ UNCHANGED <<freeCell, white_mask, black_mask, mutatorVars, root_set, words,
                     phase, shutting_down>>
      /\ Allocated' = Allocated /\ Registered' = Registered /\ Allocated \subseteq Obj
      /\ ~shutting_down
      /\ Condemned = {} /\ Condemned' = {}
  BY DEF process_worklist, _ejs_gc_worklist_pop, Allocated, Registered, ControlInv, Condemned
<1>3. /\ p \in Obj /\ IS_GRAY(p)
      /\ work_list' \in Seq(Obj)
      /\ WorkListIsGray'
  <2> HIDE DEF IInv
  <2>1. TypeOK /\ WorkListIsGray
    BY DEF IInv
  <2>2. UNCHANGED <<white_mask, black_mask>>
    BY <1>2
  <2> QED
    BY <1>1, <1>2, <2>1, <2>2, PopLemma
<1>4. p \in Allocated
  BY <1>3 DEF FreeCellsUnmarked, IS_GRAY, CELL_GRAY_MASK, Allocated
<1>5. /\ white_mask # black_mask
      /\ \A x \in Obj : x # p => color'[x] = color[x]
      /\ color'[p] = black_mask
      /\ \A x \in Obj : NonWhite(x) => NonWhite(x)'
      /\ \A x \in Obj : x # p => (IS_BLACK(x)' <=> IS_BLACK(x))
  BY <1>1, <1>2, <1>3 DEF TypeOK, NonWhite, IS_WHITE, IS_BLACK
<1>6. pending' \subseteq Allocated
  BY <1>1, <1>2, <1>4 DEF NoDangling
<1>7. TypeOK'
  BY <1>1, <1>2, <1>3, <1>6 DEF TypeOK, mutatorVars, Phases
<1>8. FreeCellsUnmarked' /\ MutatorSeesWhite' /\ ControlInv' /\ SweptIsBlack' /\ PendingAllocated'
  BY <1>2, <1>4, <1>5, <1>6 DEF FreeCellsUnmarked, MutatorSeesWhite, ControlInv,
     SweptIsBlack, PendingAllocated, TypeOK, Allocated
<1>9. NoDangling'
  BY <1>2 DEF NoDangling, mutatorVars
<1>10. RootsDone' /\ ModulesDone' /\ StackDone'
  BY <1>2, <1>5 DEF RootsDone, ModulesDone, StackDone, mutatorVars, TypeOK, NoDangling
<1>11. TriColor'
  BY <1>1, <1>2, <1>5 DEF TriColor, mutatorVars, TypeOK, NoDangling
<1> QED
  BY <1>3, <1>7, <1>8, <1>9, <1>10, <1>11

\* The sweep of one cell: what it frees is white, so no survivor refers to it.
LEMMA SweepStep ==
    ASSUME IInv, NEW o \in Obj, sweep_heap(o)
    PROVE  IInv'
<1> USE DEF IInv
<1>1. /\ phase = "sweep" /\ o \in pending /\ pending' = pending \ {o}
      /\ UNCHANGED <<white_mask, black_mask, root_set, slotVal, moduleRefs, locals,
                     words, work_list, phase, shutting_down>>
      /\ Registered' = Registered /\ Allocated \subseteq Obj
      /\ work_list = <<>>
  BY DEF sweep_heap, Registered, Allocated, ControlInv
<1>2. CASE ~(o \notin freeCell /\ IS_WHITE(o))
  <2>1. UNCHANGED <<freeCell, color, fields>>
    BY <1>2 DEF sweep_heap
  <2>2. TypeOK' /\ ControlInv' /\ PendingAllocated' /\ MutatorSeesWhite' /\ FreeCellsUnmarked'
    BY <1>1, <2>1 DEF TypeOK, ControlInv, PendingAllocated, MutatorSeesWhite,
                      FreeCellsUnmarked
  <2>3. WorkListIsGray'
    BY <1>1, <2>1 DEF WorkListIsGray, IS_GRAY, OnWorkList
  <2>4. NoDangling'
    BY <1>1, <2>1 DEF NoDangling, Condemned, IS_WHITE, Allocated
  <2>5. RootsDone' /\ ModulesDone' /\ StackDone' /\ TriColor'
    BY <1>1, <2>1 DEF RootsDone, ModulesDone, StackDone, TriColor, NonWhite, IS_WHITE,
                      IS_BLACK, Allocated
  <2>6. SweptIsBlack'
    BY <1>1, <1>2, <2>1 DEF SweptIsBlack, NonWhite, IS_WHITE, Allocated
  <2> QED
    BY <2>2, <2>3, <2>4, <2>5, <2>6
<1>3. CASE o \notin freeCell /\ IS_WHITE(o)
  <2>1. /\ freeCell' = freeCell \union {o}
        /\ color' = [color EXCEPT ![o] = 0]
        /\ fields' = [fields EXCEPT ![o] = {}]
        /\ Allocated' = Allocated \ {o}
    BY <1>3 DEF sweep_heap, Allocated
  <2>2. /\ \A x \in Obj : x # o => color'[x] = color[x] /\ fields'[x] = fields[x]
        /\ color'[o] = 0
        /\ color[o] = white_mask
    BY <1>3, <2>1 DEF TypeOK, IS_WHITE
  <2>3. \A x \in Obj : NonWhite(x) => x # o /\ NonWhite(x)'
    BY <1>1, <2>2 DEF NonWhite, IS_WHITE
  <2>4. TypeOK'
    BY <1>1, <2>1 DEF TypeOK, CELL_GRAY_MASK
  <2>5. ControlInv' /\ PendingAllocated' /\ MutatorSeesWhite' /\ FreeCellsUnmarked'
    BY <1>1, <2>1, <2>2 DEF ControlInv, PendingAllocated, MutatorSeesWhite,
                            FreeCellsUnmarked, TypeOK
  <2>6. WorkListIsGray'
    <3>1. ~IS_GRAY(o) /\ ~IS_GRAY(o)'
      BY <1>3, <2>2 DEF IS_GRAY, IS_WHITE, CELL_GRAY_MASK, TypeOK
    <3>2. \A x \in Obj : IS_GRAY(x)' <=> IS_GRAY(x)
      BY <2>2, <3>1 DEF IS_GRAY
    <3> QED
      BY <1>1, <3>2 DEF WorkListIsGray, OnWorkList
  <2>7. RootsDone' /\ ModulesDone' /\ StackDone'
    <3>1. RootsDone'
      BY <1>1, <2>3 DEF RootsDone, TypeOK, Registered
    <3>2. ModulesDone'
      BY <1>1, <2>3 DEF ModulesDone, TypeOK
    <3>3. StackDone'
      BY <1>1, <2>1, <2>3 DEF StackDone, TypeOK
    <3> QED
      BY <3>1, <3>2, <3>3
  <2>8. TriColor'
    <3>1. \A x \in Allocated' : fields'[x] = fields[x] /\ (IS_BLACK(x)' => IS_BLACK(x))
      BY <1>1, <2>1, <2>2 DEF IS_BLACK, Allocated
    <3> QED
      BY <1>1, <2>1, <2>3, <3>1 DEF TriColor, TypeOK
  <2>9. SweptIsBlack'
    BY <1>1, <2>1, <2>2 DEF SweptIsBlack, NonWhite, IS_WHITE
  <2>10. NoDangling'
    <3> SUFFICES ASSUME ~shutting_down PROVE NoDangling'
      BY <1>1 DEF NoDangling
    <3>1. /\ locals \subseteq Allocated \ {o}
          /\ \A s \in Registered : slotVal[s] # Null => slotVal[s] \in Allocated \ {o}
          /\ \A m \in Module : moduleRefs[m] \subseteq Allocated \ {o}
      BY <1>1, <2>3 DEF NoDangling, RootsDone, ModulesDone, StackDone, TypeOK, Registered
    <3>2. ASSUME NEW x \in Allocated' \ Condemned'
          PROVE  fields'[x] \subseteq Allocated'
      <4>1. x \in Allocated /\ x # o /\ NonWhite(x)
        BY <1>1, <2>1, <2>2, <3>2 DEF Condemned, NonWhite, IS_WHITE
      <4>2. IS_BLACK(x)
        <5>1. ~IS_GRAY(x)
          BY <1>1, <4>1 DEF WorkListIsGray, OnWorkList
        <5> QED
          BY <1>1, <4>1, <5>1 DEF NonWhite, IS_WHITE, IS_GRAY, IS_BLACK, TypeOK, CELL_GRAY_MASK
      <4>3. \A p \in fields[x] : NonWhite(p) /\ p \in Obj
        BY <1>1, <4>1, <4>2 DEF TriColor, TypeOK
      <4>4. fields[x] \subseteq Allocated
        BY <1>1, <4>1 DEF NoDangling, Condemned, NonWhite
      <4> QED
        BY <1>1, <2>1, <2>2, <2>3, <4>1, <4>3, <4>4
    <3> QED
      BY <1>1, <2>1, <3>1, <3>2 DEF NoDangling
  <2> QED
    BY <2>4, <2>5, <2>6, <2>7, <2>8, <2>9, <2>10
<1> QED
  BY <1>2, <1>3

\* The end of a collection: all that is left is black, and the swap of the masks
\* makes it white again.
LEMMA EndStep ==
    ASSUME IInv, EndCollect
    PROVE  IInv'
<1> USE DEF IInv
<1>1. /\ phase = "sweep" /\ pending = {} /\ work_list = <<>>
      /\ white_mask' = black_mask /\ black_mask' = white_mask
      /\ UNCHANGED <<freeCell, color, fields, moduleRefs, locals, work_list, pending,
                     shutting_down>>
      /\ Allocated' = Allocated /\ Allocated \subseteq Obj
      /\ words' = {}
  BY DEF EndCollect, SwapMasks, Allocated, ControlInv
<1>2. WorkListIsGray' /\ FreeCellsUnmarked'
  <2>1. WorkListIsGray'
    BY <1>1 DEF WorkListIsGray, IS_GRAY, OnWorkList
  <2> QED
    BY <1>1, <2>1 DEF FreeCellsUnmarked
<1>3. CASE ~shutting_down
  <2>1. phase' = "mutator" /\ UNCHANGED <<slotVal, root_set>> /\ Registered' = Registered
    BY <1>3 DEF EndCollect, SwapMasks, Registered
  <2>2. \A o \in Allocated : ~IS_WHITE(o) /\ IS_BLACK(o)
    <3>1. \A o \in Allocated : ~IS_WHITE(o) /\ ~IS_GRAY(o)
      BY <1>1 DEF SweptIsBlack, NonWhite, WorkListIsGray, OnWorkList
    <3> QED
      BY <1>1, <3>1 DEF IS_WHITE, IS_GRAY, IS_BLACK, TypeOK, CELL_GRAY_MASK
  <2>3. MutatorSeesWhite'
    BY <1>1, <2>2 DEF MutatorSeesWhite, IS_WHITE, IS_BLACK
  <2>4. TypeOK'
    BY <1>1, <2>1 DEF TypeOK, Phases
  <2>5. NoDangling'
    BY <1>1, <1>3, <2>1, <2>2 DEF NoDangling, Condemned
  <2>6. ControlInv' /\ RootsDone' /\ ModulesDone' /\ StackDone' /\ PendingAllocated' /\ TriColor'
        /\ SweptIsBlack'
    BY <1>1, <1>3, <2>1 DEF ControlInv, RootsDone, ModulesDone, StackDone,
                            PendingAllocated, TriColor, SweptIsBlack
  <2> QED
    BY <1>2, <2>3, <2>4, <2>5, <2>6
<1>4. CASE shutting_down
  <2>1. /\ phase' = "exited" /\ root_set' = [s \in Slot |-> 0]
        /\ slotVal' = [s \in Slot |-> IF s \in Registered THEN Null ELSE slotVal[s]]
    BY <1>4 DEF EndCollect, SwapMasks
  <2>2. Registered' = {}
    BY <2>1 DEF Registered
  <2>3. freeCell = Obj
    BY <1>1, <1>4 DEF SweptIsBlack, NonWhite, Allocated, TypeOK
  <2>4. TypeOK'
    <3>1. slotVal' \in [Slot -> Obj \union {Null}] /\ root_set' \in [Slot -> Nat]
      BY <2>1 DEF TypeOK
    <3> QED
      BY <1>1, <2>1, <3>1 DEF TypeOK, Phases
  <2>5. NoDangling' /\ MutatorSeesWhite'
    BY <1>1, <1>4, <2>1 DEF NoDangling, MutatorSeesWhite
  <2>6. ControlInv' /\ RootsDone' /\ ModulesDone' /\ StackDone' /\ PendingAllocated' /\ TriColor'
        /\ SweptIsBlack'
    BY <1>1, <1>4, <2>1, <2>2, <2>3 DEF ControlInv, RootsDone, ModulesDone, StackDone,
                            PendingAllocated, TriColor, SweptIsBlack
  <2> QED
    BY <1>2, <2>4, <2>5, <2>6
<1> QED
  BY <1>3, <1>4

\* The invariant is inductive.
LEMMA NextIInv == IInv /\ [Next]_vars => IInv'
<1> SUFFICES ASSUME IInv, [Next]_vars PROVE IInv'
  OBVIOUS
<1>1. ASSUME NEW o \in Obj, _ejs_gc_alloc(o) PROVE IInv'
  BY <1>1, AllocStep
<1>2. CASE MutatorStep
  BY <1>2, MutatorSteps
<1>3. ASSUME NEW s \in Slot,
             \/ \E v \in Obj \union {Null} : _ejs_gc_add_root(s, v)
             \/ _ejs_gc_remove_root(s)
      PROVE  IInv'
  BY <1>3, RootSteps
<1>4. CASE _ejs_gc_collect \/ _ejs_gc_shutdown
  BY <1>4, EnterSteps
<1>5. CASE CollectorStep
  <2>1. ASSUME NEW o \in Obj, sweep_heap(o) PROVE IInv'
    BY <2>1, SweepStep
  <2> QED
    BY <1>5, <2>1, MarkSteps, BeginSteps, ProcessStep, EndStep DEF CollectorStep
<1>6. CASE UNCHANGED vars
  BY <1>6 DEF vars, IInv, TypeOK, WorkListIsGray, FreeCellsUnmarked, MutatorSeesWhite,
              NoDangling, ControlInv, RootsDone, ModulesDone, StackDone, PendingAllocated,
              TriColor, SweptIsBlack, OnWorkList, Allocated, Registered, Condemned,
              IS_WHITE, IS_GRAY, IS_BLACK, NonWhite
<1> QED
  BY <1>1, <1>2, <1>3, <1>4, <1>5, <1>6 DEF Next

\* The inductive invariant holds in every reachable state of the collector.
THEOREM Invariance == Spec => []IInv
  BY InitIInv, NextIInv, PTL DEF Spec

\* The type invariant of the collector.
THEOREM TypeCorrect == Spec => []TypeOK
<1>1. IInv => TypeOK
  BY DEF IInv
<1> QED
  BY <1>1, Invariance, PTL

\* For every heap and every mutator: no live local, registered root, module or
\* surviving object ever refers to a freed cell.
THEOREM HeapSafety == Spec => []NoDangling
<1>1. IInv => NoDangling
  BY DEF IInv
<1> QED
  BY <1>1, Invariance, PTL

\* The colours are consistent: after each exchange of the masks every allocated
\* cell is white, the work list is the set of grey cells, without duplicates, and
\* free cells are never marked.
THEOREM ColoursCorrect == Spec => []ColoursConsistent
<1>1. IInv => ColoursConsistent
  BY DEF IInv, ColoursConsistent
<1> QED
  BY <1>1, Invariance, PTL

\* _ejs_gc_shutdown finalizes every object and forgets every root.
THEOREM ShutdownCorrect == Spec => []ShutdownFreesAll
<1>1. IInv => ShutdownFreesAll
  BY DEF IInv, ControlInv, ShutdownFreesAll
<1> QED
  BY <1>1, Invariance, PTL

-----------------------------------------------------------------------------
(* Exactness of the marking.                                               *)

\* Membership in the start cells.
LEMMA StartsMember ==
    ASSUME NEW x
    PROVE  x \in Starts <=> /\ x \in Allocated
                            /\ \/ \E s \in Registered : x = slotVal[s]
                               \/ \E m \in Module : x \in moduleRefs[m]
                               \/ x \in locals \union words
  BY DEF Starts

\* The start cells are reachable, and so is whatever a reachable cell refers to.
LEMMA ReachableClosed ==
    ASSUME TypeOK
    PROVE  /\ Starts \subseteq Reachable
           /\ \A o \in Reachable : fields[o] \subseteq Reachable
<1>1. Starts \subseteq Obj
  BY DEF Starts, Allocated
<1>2. ASSUME NEW o \in Reachable, NEW p \in fields[o] PROVE p \in Reachable
  <2>1. o \in Obj /\ p \in Obj
    BY <1>2 DEF Reachable, TypeOK
  <2>2. ASSUME NEW S \in SUBSET Obj, Starts \subseteq S, Closed(S) PROVE p \in S
    BY <1>2, <2>2 DEF Reachable, Closed
  <2> QED
    BY <2>1, <2>2 DEF Reachable
<1> QED
  BY <1>1, <1>2 DEF Reachable

\* More start cells reach more, as long as the reachable cells keep their fields.
LEMMA ReachableMonotonic ==
    ASSUME TypeOK, Starts \subseteq Starts', \A y \in Reachable : fields'[y] = fields[y]
    PROVE  Reachable \subseteq Reachable'
<1> SUFFICES ASSUME NEW o \in Reachable PROVE o \in Reachable'
  OBVIOUS
<1>1. o \in Obj
  BY DEF Reachable
<1>2. ASSUME NEW S \in SUBSET Obj, Starts' \subseteq S, Closed(S)' PROVE o \in S
  <2> DEFINE T == S \intersect Reachable
  <2>1. T \in SUBSET Obj
    OBVIOUS
  <2>2. Starts \subseteq Reachable /\ \A y \in Reachable : fields[y] \subseteq Reachable
    BY ReachableClosed
  <2>3. Starts \subseteq T
    BY <1>2, <2>2
  <2>4. \A y \in T : fields[y] \subseteq T
    BY <1>2, <2>2 DEF Closed
  <2>5. o \in T
    BY <2>1, <2>3, <2>4 DEF Reachable, Closed
  <2> QED
    BY <2>5
<1> QED
  BY <1>1, <1>2 DEF Reachable

\* During a sweep after a marking, what is reachable is allocated and not white.
LEMMA ReachableIsMarked ==
    ASSUME IInv, phase = "sweep", ~shutting_down
    PROVE  Reachable \subseteq {o \in Allocated : ~IS_WHITE(o)}
<1> DEFINE N == {o \in Allocated : ~IS_WHITE(o)}
<1>2. N \in SUBSET Obj
  BY DEF Allocated
<1>3. Starts \subseteq N
  <2> SUFFICES ASSUME NEW x \in Starts PROVE ~IS_WHITE(x)
    BY DEF Starts
  <2>1. x \in Allocated /\ x # Null
    BY NullAssumption DEF Starts, Allocated
  <2>2. ASSUME NEW s \in Registered, x = slotVal[s] PROVE ~IS_WHITE(x)
    BY <2>1, <2>2 DEF IInv, RootsDone, NonWhite
  <2>3. ASSUME NEW m \in Module, x \in moduleRefs[m] PROVE ~IS_WHITE(x)
    BY <2>3 DEF IInv, ModulesDone, NonWhite
  <2>4. ASSUME x \in locals \union words PROVE ~IS_WHITE(x)
    BY <2>1, <2>4 DEF IInv, StackDone, NonWhite
  <2> QED
    BY <2>2, <2>3, <2>4, StartsMember
<1>4. Closed(N)
  <2> SUFFICES ASSUME NEW o \in N PROVE fields[o] \subseteq N
    BY DEF Closed
  <2>1. ~IS_GRAY(o)
    BY <1>2 DEF IInv, ControlInv, WorkListIsGray, OnWorkList
  <2>2. IS_BLACK(o)
    BY <1>2, <2>1 DEF IInv, TypeOK, IS_WHITE, IS_GRAY, IS_BLACK, CELL_GRAY_MASK
  <2>3. fields[o] \subseteq Allocated
    BY DEF IInv, NoDangling, Condemned
  <2>4. \A p \in fields[o] : ~IS_WHITE(p)
    BY <2>2 DEF IInv, TriColor, NonWhite
  <2> QED
    BY <2>3, <2>4
<1> QED
  BY <1>2, <1>3, <1>4 DEF Reachable

\* Every step keeps what is marked within what is reachable.
LEMMA NextMarkedReachable ==
    ASSUME IInv, IInv', MarkedReachable, [Next]_vars
    PROVE  MarkedReachable'
<1>1. TypeOK /\ NoDangling /\ ControlInv /\ TypeOK' /\ NoDangling' /\ ControlInv'
  BY DEF IInv
<1>2. CASE phase = "mutator"
  <2>1. CASE _ejs_gc_collect
    <3>1. \A o \in Allocated' : ~NonWhite(o)'
      BY <1>2, <2>1 DEF IInv, MutatorSeesWhite, _ejs_gc_collect, Allocated, NonWhite, IS_WHITE
    <3>2. phase' = "roots"
      BY <2>1 DEF _ejs_gc_collect
    <3> QED
      BY <3>1, <3>2 DEF MarkedReachable
  <2>2. CASE _ejs_gc_shutdown
    <3>1. phase' = "sweep" /\ shutting_down'
      BY <2>2 DEF _ejs_gc_shutdown
    <3> QED
      BY <3>1 DEF MarkedReachable, Marking
  <2>3. CASE phase' = phase
    BY <1>2, <2>3 DEF MarkedReachable, Marking
  <2> QED
    BY <1>2, <2>1, <2>2, <2>3
       DEF Next, vars, _ejs_gc_alloc, MutatorStep, _ejs_gc_add_root, _ejs_gc_remove_root,
           CollectorStep, mark_from_roots, BeginModules, BeginStack, BeginProcess,
           BeginSweep, mark_from_modules, mark_thread_stack, _scan_ejsvalue, sweep_heap,
           process_worklist, _ejs_gc_worklist_pop, EndCollect, SwapMasks
<1>3. CASE phase # "mutator" /\ (CollectorStep \/ UNCHANGED vars)
  <2>1. CASE \E o \in Obj : sweep_heap(o)
    <3> PICK o \in Obj : sweep_heap(o)
      BY <2>1
    <3>1. phase = "sweep" /\ phase' = "sweep" /\ shutting_down' = shutting_down
      BY DEF sweep_heap
    <3> SUFFICES ASSUME ~shutting_down, NEW x \in Allocated', NonWhite(x)'
                 PROVE  x \in Reachable'
      BY <3>1 DEF MarkedReachable, Marking
    <3>2. o \in freeCell \/ ~IS_WHITE(o) =>
            UNCHANGED <<freeCell, color, fields>>
      BY DEF sweep_heap
    <3>3. o \notin freeCell /\ IS_WHITE(o) =>
            /\ freeCell' = freeCell \union {o}
            /\ color' = [color EXCEPT ![o] = 0]
            /\ fields' = [fields EXCEPT ![o] = {}]
      BY DEF sweep_heap
    <3>4. UNCHANGED <<white_mask, root_set, slotVal, moduleRefs, locals, words>>
      BY DEF sweep_heap
    <3>5. Reachable \subseteq {y \in Allocated : ~IS_WHITE(y)}
      BY <3>1, ReachableIsMarked
    <3>6. Starts \subseteq Reachable
      BY <1>1, ReachableClosed
    <3>7. \A y \in Reachable : fields'[y] = fields[y]
      BY <1>1, <3>2, <3>3, <3>5 DEF TypeOK, Allocated
    <3>8. Starts \subseteq Starts'
      <4> SUFFICES ASSUME NEW y \in Starts PROVE y \in Starts'
        OBVIOUS
      <4>1. y \in Allocated /\ ~IS_WHITE(y)
        BY <3>5, <3>6
      <4>2. y \in Allocated'
        BY <3>2, <3>3, <4>1 DEF Allocated
      <4> QED
        BY <3>4, <4>2 DEF Starts, Registered
    <3>9. Reachable \subseteq Reachable'
      BY <1>1, <3>7, <3>8, ReachableMonotonic
    <3>10. x \in Allocated /\ NonWhite(x)
      BY <1>1, <3>2, <3>3, <3>4 DEF Allocated, NonWhite, IS_WHITE, TypeOK
    <3> QED
      BY <3>1, <3>9, <3>10 DEF MarkedReachable
  <2>2. CASE EndCollect
    BY <2>2 DEF EndCollect, SwapMasks, MarkedReachable, Marking
  <2>3. CASE UNCHANGED vars
    BY <2>3 DEF vars, MarkedReachable, Marking, Allocated, NonWhite, IS_WHITE, Reachable,
                Starts, Closed, Registered
  <2>4. CASE \/ \E s \in Slot : mark_from_roots(s)
             \/ BeginModules \/ BeginStack \/ BeginProcess \/ BeginSweep
             \/ \E o \in Obj : mark_from_modules(o) \/ mark_thread_stack(o) \/ _scan_ejsvalue(o)
             \/ process_worklist
    <3>1. /\ Marking
          /\ UNCHANGED <<freeCell, white_mask, black_mask, mutatorVars, root_set>>
          /\ UNCHANGED words \/ (words = {} /\ BeginStack)
          /\ Allocated' = Allocated /\ Registered' = Registered
      BY <1>1, <2>4
         DEF mark_from_roots, BeginModules, BeginStack, BeginProcess, BeginSweep,
             mark_from_modules, mark_thread_stack, _scan_ejsvalue, process_worklist, _ejs_gc_worklist_pop,
             Marking, ControlInv, Allocated, Registered
    <3>2. Starts \subseteq Starts' /\ UNCHANGED fields
      BY <3>1 DEF Starts, mutatorVars
    <3>3. Reachable \subseteq Reachable'
      BY <1>1, <3>2, ReachableMonotonic
    <3>4. Starts \subseteq Reachable /\ \A o \in Reachable : fields[o] \subseteq Reachable
      BY <1>1, ReachableClosed
    <3>5. \A o \in Allocated : NonWhite(o) => o \in Reachable
      BY <3>1 DEF MarkedReachable
    <3>6. ASSUME NEW o \in Obj, o \in Allocated => o \in Reachable,
                 o \in freeCell => UNCHANGED <<work_list, color>>,
                 o \notin freeCell => PushAndGray(o)
          PROVE  \A x \in Allocated' : NonWhite(x)' => x \in Reachable'
      <4>1. UNCHANGED <<freeCell, white_mask, black_mask>> /\ Allocated \subseteq Obj
        BY <3>1 DEF Allocated
      <4>2. \A x \in Obj : NonWhite(x)' => NonWhite(x) \/ (x = o /\ o \in Allocated)
        BY <3>6, <4>1, MarkLemma
      <4> QED
        BY <3>1, <3>3, <3>5, <3>6, <4>1, <4>2
    <3>7. CASE \E s \in Slot : mark_from_roots(s)
      <4> PICK s \in Slot : mark_from_roots(s)
        BY <3>7
      <4>1. phase = "roots" /\ phase' = "roots" /\ s \in Slot
        BY DEF mark_from_roots
      <4>2. CASE slotVal[s] = Null \/ slotVal[s] \in freeCell
        BY <3>1, <3>3, <3>5, <4>1, <4>2
           DEF mark_from_roots, MarkChecked, MarkedReachable, NonWhite, IS_WHITE
      <4>3. CASE slotVal[s] # Null /\ slotVal[s] \notin freeCell
        <5>1. PICK r \in Obj : r = slotVal[s]
          BY <1>1, <4>3 DEF TypeOK
        <5>2. PushAndGray(r) /\ r \notin freeCell
          BY <4>3, <5>1 DEF mark_from_roots, MarkChecked
        <5>3. r \in Reachable \/ s \notin Registered
          BY <3>4, <4>3, <5>1 DEF Starts, Allocated
        <5>4. s \in Registered
          BY <1>1, <4>1 DEF mark_from_roots, IInv, ControlInv
        <5>5. \A x \in Allocated' : NonWhite(x)' => x \in Reachable'
          BY <3>6, <5>2, <5>3, <5>4
        <5> QED
          BY <4>1, <5>5 DEF MarkedReachable
      <4> QED
        BY <4>2, <4>3
    <3>8. CASE \E o \in Obj : mark_from_modules(o) \/ mark_thread_stack(o) \/ _scan_ejsvalue(o)
      <4> PICK o \in Obj : mark_from_modules(o) \/ mark_thread_stack(o) \/ _scan_ejsvalue(o)
        BY <3>8
      <4>1. /\ o \in pending /\ pending' \subseteq pending /\ phase' = phase
            /\ phase \in {"modules", "stack", "process"} /\ words' = words
            /\ o \in freeCell => UNCHANGED <<work_list, color>>
            /\ o \notin freeCell => PushAndGray(o)
        BY DEF mark_from_modules, mark_thread_stack, _scan_ejsvalue, MarkChecked,
               IInv, PendingAllocated, Allocated
      <4>2. o \in Allocated => o \in Reachable
        <5>1. phase = "stack" /\ o \in Allocated => o \in Starts
          BY <4>1, StartsMember DEF MarkedReachable
        <5>2. phase = "modules" => o \in Starts
          BY <4>1 DEF MarkedReachable
        <5>3. phase = "process" => o \in Reachable
          BY <4>1 DEF MarkedReachable
        <5> QED
          BY <3>4, <4>1, <5>1, <5>2, <5>3
      <4>3. \A x \in Allocated' : NonWhite(x)' => x \in Reachable'
        BY <3>6, <4>1, <4>2
      <4> QED
        BY <3>2, <3>3, <4>1, <4>3 DEF MarkedReachable
    <3>9. CASE BeginModules \/ BeginStack \/ BeginProcess \/ BeginSweep
      <4>1. \A x \in Allocated' : NonWhite(x)' => x \in Reachable'
        BY <3>1, <3>3, <3>5, <3>9
           DEF BeginModules, BeginStack, BeginProcess, BeginSweep, NonWhite, IS_WHITE
      <4>2. phase' = "modules" => pending' \subseteq Starts'
        <5> SUFFICES ASSUME BeginModules PROVE pending' \subseteq Starts'
          BY <3>9 DEF BeginStack, BeginProcess, BeginSweep
        <5>1. ~shutting_down /\ moduleRefs' = moduleRefs
          BY <1>1 DEF BeginModules, ControlInv, mutatorVars
        <5>2. pending' = UNION {moduleRefs[m] : m \in Module} /\ pending' \subseteq Allocated
          BY <1>1, <5>1 DEF BeginModules, NoDangling
        <5> QED
          BY <3>1, <5>1, <5>2 DEF Starts
      <4>3. /\ phase' = "stack" => pending' \subseteq words'
            /\ phase' = "process" => pending' \subseteq Reachable'
        BY <3>9 DEF BeginModules, BeginStack, BeginProcess, BeginSweep
      <4> QED
        BY <4>1, <4>2, <4>3 DEF MarkedReachable
    <3>10. CASE process_worklist
      <4>1. PICK p : /\ p = work_list[Len(work_list)]
                     /\ color' = [color EXCEPT ![p] = black_mask]
                     /\ pending' = fields[p]
                     /\ phase = "process" /\ phase' = "process" /\ work_list # <<>>
                     /\ work_list' = SubSeq(work_list, 1, Len(work_list) - 1)
        BY <3>10 DEF process_worklist, _ejs_gc_worklist_pop
      <4>2. p \in Obj /\ IS_GRAY(p)
        <5>1. WorkListIsGray /\ UNCHANGED <<white_mask, black_mask>>
          BY <3>1 DEF IInv
        <5> QED
          BY <1>1, <4>1, <5>1, PopLemma
      <4>3. p \in Allocated /\ NonWhite(p)
        BY <1>1, <4>2 DEF IInv, FreeCellsUnmarked, IS_GRAY, CELL_GRAY_MASK, Allocated,
                          NonWhite, IS_WHITE, TypeOK
      <4>4. p \in Reachable
        BY <3>5, <4>3
      <4>5. \A x \in Allocated' : NonWhite(x)' => x \in Reachable'
        BY <1>1, <3>1, <3>3, <3>5, <4>1, <4>4 DEF NonWhite, IS_WHITE, TypeOK, Allocated
      <4>6. pending' \subseteq Reachable'
        BY <3>3, <3>4, <4>1, <4>4
      <4> QED
        BY <4>1, <4>5, <4>6 DEF MarkedReachable
    <3> QED
      BY <2>4, <3>7, <3>8, <3>9, <3>10
  <2> QED
    BY <1>3, <2>1, <2>2, <2>3, <2>4 DEF CollectorStep
<1> QED
  BY <1>2, <1>3
     DEF Next, _ejs_gc_alloc, MutatorStep, StoreField, EraseField, LoadField, DropLocal,
         LoadSlot, SetSlot, SetExport, LoadExport, _ejs_gc_add_root, _ejs_gc_remove_root,
         _ejs_gc_collect, _ejs_gc_shutdown

\* At the start of a sweep the marked cells are the reachable ones.
LEMMA MarkExact == IInv /\ MarkedReachable => MarkIsReachability
  BY ReachableIsMarked DEF MarkedReachable, NonWhite, MarkIsReachability

\* What is marked can be reached, throughout marking and sweeping.
LEMMA MarkedAlways == Spec => []MarkedReachable
<1>1. Init => MarkedReachable
  BY DEF Init, MarkedReachable, Marking
<1>2. IInv /\ IInv' /\ MarkedReachable /\ [Next]_vars => MarkedReachable'
  BY NextMarkedReachable
<1> QED
  BY <1>1, <1>2, Invariance, PTL DEF Spec

\* Marking is exact for every heap: at the start of the sweep the cells that are
\* not white are those reachable from roots, modules and stack words.
THEOREM MarkingExact == Spec => []MarkIsReachability
  BY Invariance, MarkedAlways, MarkExact, PTL

\* Until shutdown no step frees a cell that a chain of references reaches from a live
\* local, a registered root or a module, and a collection leaves no cell behind that
\* nothing reaches.
THEOREM FreesOnlyGarbage == Spec => OnlyGarbageFreed
<1> DEFINE A == /\ \A o \in Allocated : o \in freeCell' => shutting_down \/ o \notin Reachable
                /\ phase = "sweep" /\ phase' = "mutator" => Allocated = Reachable
<1>1. ASSUME IInv, MarkedReachable, Next PROVE A
  <2>1. ASSUME NEW o \in Allocated, o \in freeCell', ~shutting_down
        PROVE  o \notin Reachable
    <3>1. phase = "sweep" /\ IS_WHITE(o)
      BY <1>1, <2>1
         DEF Next, _ejs_gc_alloc, MutatorStep, _ejs_gc_add_root, _ejs_gc_remove_root,
             _ejs_gc_collect, _ejs_gc_shutdown, CollectorStep, mark_from_roots, BeginModules,
             BeginStack, BeginProcess, BeginSweep, mark_from_modules, mark_thread_stack,
             _scan_ejsvalue, sweep_heap, process_worklist, _ejs_gc_worklist_pop, EndCollect,
             SwapMasks, Allocated
    <3> QED
      BY <1>1, <2>1, <3>1, ReachableIsMarked
  <2>2. ASSUME phase = "sweep", phase' = "mutator" PROVE Allocated = Reachable
    <3>1. EndCollect
      BY <1>1, <2>2
         DEF Next, _ejs_gc_alloc, MutatorStep, _ejs_gc_add_root, _ejs_gc_remove_root,
             _ejs_gc_collect, _ejs_gc_shutdown, CollectorStep, mark_from_roots, BeginModules,
             BeginStack, BeginProcess, BeginSweep, mark_from_modules, mark_thread_stack,
             _scan_ejsvalue, sweep_heap, process_worklist
    <3>2. pending = {} /\ ~shutting_down
      BY <2>2, <3>1 DEF EndCollect
    <3>3. \A o \in Allocated : NonWhite(o)
      BY <1>1, <2>2, <3>2 DEF IInv, SweptIsBlack
    <3>4. Allocated \subseteq Reachable
      BY <1>1, <2>2, <3>2, <3>3 DEF MarkedReachable
    <3>5. Reachable \subseteq Allocated
      BY <1>1, <2>2, <3>2, ReachableIsMarked
    <3> QED
      BY <3>4, <3>5
  <2> QED
    BY <2>1, <2>2
<1>2. IInv /\ MarkedReachable /\ [Next]_vars => [A]_vars
  BY <1>1
<1> QED
  BY <1>2, Invariance, MarkedAlways, PTL DEF Spec, OnlyGarbageFreed

=============================================================================
