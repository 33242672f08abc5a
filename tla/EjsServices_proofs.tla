------------------------- MODULE EjsServices_proofs -------------------------
(***************************************************************************)
(* Timers, generators and weak collections: three small components that    *)
(* share no state, each sound for any number of timers, blocks and delays, *)
(* of generators, values and calls, of objects, prototypes and collections.*)
(***************************************************************************)
EXTENDS EjsTimers, EjsGenerator, EjsWeak, SequenceTheorems, TLAPS

-----------------------------------------------------------------------------
(* Timers are consistent and fire as asked, whether or not the program clears *)
(* them through handles that are stale.                                       *)

BlockType == [used : BOOLEAN, task : Timers \cup {Nobody}, armed : BOOLEAN, left : Int,
              repeat : Nat, repeats : BOOLEAN, after : SUBSET Blocks]
TimerType == [handle : Blocks \cup {NULL}, set : BOOLEAN, oneShot : BOOLEAN,
              cleared : BOOLEAN, fired : 0 .. 2]

\* The shape of the state, without what TimerTypeOK says of used blocks.
TimerShape ==
  /\ block \in [Blocks -> BlockType]
  /\ timer \in [Timers -> TimerType]
  /\ rooted \subseteq Timers /\ inside \in Blocks \cup {NULL} /\ script \in {"main", "loop"}

\* A block that is in use belongs to a timer that was set, whose callback is a
\* root, and which is an interval if the loop is to start the block again.
UsedInv(b) ==
  block[b].used => /\ block[b].task \in Timers /\ block[b].task \in rooted
                   /\ timer[block[b].task].set
                   /\ timer[block[b].task].oneShot => block[b].repeat = 0

\* A block the loop may fire is the one its timer points to, and that timer may
\* still fire.
ArmedInv(b) ==
  block[b].armed => /\ block[b].used
                    /\ timer[block[b].task].handle = b
                    /\ ~timer[block[b].task].cleared
                    /\ timer[block[b].task].oneShot => timer[block[b].task].fired = 0

\* No two blocks in use belong to the same timer.
OneBlock == \A b, c \in Blocks : block[b].used /\ block[c].used /\ b # c => block[b].task # block[c].task

\* The inductive invariant.
TimerInv ==
  /\ TimerShape
  /\ \A b \in Blocks : UsedInv(b) /\ ArmedInv(b)
  /\ OneBlock
  /\ inside # NULL => block[inside].used
  /\ \A t \in Timers : ~timer[t].set => timer[t].fired = 0

\* The records that EXCEPT makes, field by field.
LEMMA StartedBlock ==
    ASSUME NEW rec \in BlockType, NEW d \in Int, NEW r \in Nat, NEW s \in SUBSET Blocks
    PROVE  LET new == [rec EXCEPT !.armed = TRUE, !.left = d, !.repeat = r, !.after = s] IN
           /\ new \in BlockType /\ new.used = rec.used /\ new.task = rec.task
           /\ new.repeat = r /\ new.armed
<1> DEFINE new == [rec EXCEPT !.armed = TRUE, !.left = d, !.repeat = r, !.after = s]
<1>1. new \in BlockType
  BY DEF BlockType
<1>2. new.used = rec.used /\ new.task = rec.task
  BY DEF BlockType
<1>3. new.repeat = r
  BY DEF BlockType
<1>4. new.armed
  BY DEF BlockType
<1> HIDE DEF new
<1> QED
  BY <1>1, <1>2, <1>3, <1>4 DEF new

LEMMA GivenBlock ==
    ASSUME NEW rec \in BlockType, NEW t \in Timers, NEW rep \in BOOLEAN
    PROVE  LET new == [rec EXCEPT !.used = TRUE, !.task = t, !.repeats = rep] IN
           new \in BlockType /\ new.used /\ new.task = t
<1> DEFINE new == [rec EXCEPT !.used = TRUE, !.task = t, !.repeats = rep]
<1>1. new \in BlockType
  BY DEF BlockType
<1>2. new.used
  BY DEF BlockType
<1>3. new.task = t
  BY DEF BlockType
<1> HIDE DEF new
<1> QED
  BY <1>1, <1>2, <1>3 DEF new

LEMMA GivenTimer ==
    ASSUME NEW b \in Blocks, NEW rep \in BOOLEAN
    PROVE  LET new == [Unset EXCEPT !.handle = b, !.set = TRUE, !.oneShot = ~rep] IN
           /\ new \in TimerType /\ new.handle = b /\ new.set /\ new.oneShot = ~rep
           /\ ~new.cleared /\ new.fired = 0
<1> DEFINE new == [Unset EXCEPT !.handle = b, !.set = TRUE, !.oneShot = ~rep]
<1>1. new \in TimerType
  <2>1. ASSUME NEW rec \in TimerType, NEW o \in BOOLEAN
        PROVE  [rec EXCEPT !.handle = b, !.set = TRUE, !.oneShot = o] \in TimerType
    BY DEF TimerType
  <2>2. Unset \in TimerType
    BY DEF TimerType, Unset
  <2>3. PICK o \in BOOLEAN : o = ~rep
    OBVIOUS
  <2>4. [Unset EXCEPT !.handle = b, !.set = TRUE, !.oneShot = o] \in TimerType
    BY <2>1, <2>2, Zenon
  <2> QED
    BY <2>3, <2>4, Zenon
<1>2. new.handle = b /\ new.fired = 0
  BY DEF Unset
<1>3. new.set
  BY DEF Unset
<1>4. new.oneShot = ~rep
  BY DEF Unset
<1>5. ~new.cleared
  BY DEF Unset
<1> HIDE DEF new
<1> QED
  BY <1>1, <1>2, <1>3, <1>4, <1>5 DEF new

\* Starting a timer changes the fields of its own block only.
LEMMA StartShape ==
    ASSUME NEW bl \in [Blocks -> BlockType], NEW b \in Blocks, NEW d \in Nat, NEW r \in Nat
    PROVE  /\ uv_timer_start(bl, b, d, r) \in [Blocks -> BlockType]
           /\ \A c \in Blocks \ {b} : uv_timer_start(bl, b, d, r)[c] = bl[c]
           /\ uv_timer_start(bl, b, d, r)[b].used = bl[b].used
           /\ uv_timer_start(bl, b, d, r)[b].task = bl[b].task
           /\ uv_timer_start(bl, b, d, r)[b].repeat = r
           /\ uv_timer_start(bl, b, d, r)[b].armed
<1> DEFINE rec == [bl[b] EXCEPT !.armed = TRUE, !.left = d, !.repeat = r, !.after = Armed(bl) \ {b}]
<1>1. bl[b] \in BlockType
  OBVIOUS
<1>2. rec \in BlockType /\ rec.used = bl[b].used /\ rec.task = bl[b].task /\ rec.repeat = r /\ rec.armed
  <2> DEFINE rest == Armed(bl) \ {b}
  <2>1. rest \in SUBSET Blocks /\ d \in Int
    BY DEF Armed
  <2> HIDE DEF rest
  <2>2. LET new == [bl[b] EXCEPT !.armed = TRUE, !.left = d, !.repeat = r, !.after = rest] IN
        /\ new \in BlockType /\ new.used = bl[b].used /\ new.task = bl[b].task
        /\ new.repeat = r /\ new.armed
    BY <1>1, <2>1, StartedBlock
  <2> QED
    BY <2>2, Zenon DEF rest
<1>3. uv_timer_start(bl, b, d, r) = [bl EXCEPT ![b] = rec]
  BY <1>1 DEF uv_timer_start, BlockType
<1> HIDE DEF rec
<1> QED
  BY <1>2, <1>3

\* Stopping a timer leaves it unarmed and forgets it in the order of the others.
LEMMA StopShape ==
    ASSUME NEW bl \in [Blocks -> BlockType], NEW b \in Blocks
    PROVE  /\ uv_timer_stop(bl, b) \in [Blocks -> BlockType]
           /\ ~uv_timer_stop(bl, b)[b].armed
           /\ \A c \in Blocks :
                /\ uv_timer_stop(bl, b)[c].used = bl[c].used
                /\ uv_timer_stop(bl, b)[c].task = bl[c].task
                /\ uv_timer_stop(bl, b)[c].repeat = bl[c].repeat
                /\ uv_timer_stop(bl, b)[c].repeats = bl[c].repeats
                /\ c # b => uv_timer_stop(bl, b)[c].armed = bl[c].armed
<1> DEFINE rec(c) == [bl[c] EXCEPT !.armed = @ /\ c # b, !.after = @ \ {b}]
<1>1. ASSUME NEW c \in Blocks
      PROVE  /\ rec(c) \in BlockType
             /\ rec(c).used = bl[c].used /\ rec(c).task = bl[c].task
             /\ rec(c).repeat = bl[c].repeat /\ rec(c).repeats = bl[c].repeats
             /\ rec(c).armed = (bl[c].armed /\ c # b)
  <2>1. bl[c] \in BlockType
    OBVIOUS
  <2>2. (bl[c].armed /\ c # b) \in BOOLEAN
    OBVIOUS
  <2> QED
    BY <2>1, <2>2 DEF BlockType
<1>2. uv_timer_stop(bl, b) = [c \in Blocks |-> rec(c)]
  BY DEF uv_timer_stop
<1>3. \A c \in Blocks : uv_timer_stop(bl, b)[c] = rec(c)
  BY <1>2
<1>4. uv_timer_stop(bl, b) \in [Blocks -> BlockType]
  BY <1>1, <1>2
<1>5. \A c \in Blocks : c # b => bl[c].armed = (bl[c].armed /\ c # b)
  BY DEF BlockType
<1> HIDE DEF rec
<1> QED
  BY <1>1, <1>3, <1>4, <1>5

LEMMA TimerInitInv == TimerInit => TimerInv
  BY TimerAssumption
  DEF TimerInit, TimerInv, TimerShape, BlockType, TimerType, Free, Unset, UsedInv, ArmedInv, OneBlock

\* A new timer gets a block nobody uses and points to it.
LEMMA SetTimerInv ==
    ASSUME TimerInv, NEW t \in Timers, NEW d \in Delays, NEW rep \in BOOLEAN, _ejs_setTimer(t, d, rep)
    PROVE  TimerInv'
<1>1. PICK b \in Blocks :
        /\ ~block[b].used
        /\ block' = _ejs_runloop_add_task_timeout(b, t, d, rep)
        /\ timer' = [timer EXCEPT ![t] = [Unset EXCEPT !.handle = b, !.set = TRUE, !.oneShot = ~rep]]
  BY DEF _ejs_setTimer
<1>2. ~timer[t].set /\ rooted' = rooted \cup {t} /\ UNCHANGED <<inside, script>>
  BY DEF _ejs_setTimer, create_task_arg
<1> DEFINE ms == IF d = 0 THEN 1 ELSE d
           bl == [block EXCEPT ![b] = [Free EXCEPT !.used = TRUE, !.task = t, !.repeats = rep]]
<1>3. ms \in Nat
  BY TimerAssumption
<1>4. bl \in [Blocks -> BlockType] /\ bl[b].used /\ bl[b].task = t /\ \A c \in Blocks \ {b} : bl[c] = block[c]
  <2> DEFINE new == [Free EXCEPT !.used = TRUE, !.task = t, !.repeats = rep]
  <2>1. new \in BlockType /\ new.used /\ new.task = t
    <3>1. Free \in BlockType
      BY DEF BlockType, Free
    <3> QED
      BY <3>1, GivenBlock
  <2>2. bl = [block EXCEPT ![b] = new]
    OBVIOUS
  <2> HIDE DEF new, bl
  <2> QED
    BY <2>1, <2>2 DEF TimerInv, TimerShape
<1>5. block' = uv_timer_start(bl, b, ms, IF rep THEN ms ELSE 0)
  BY <1>1 DEF _ejs_runloop_add_task_timeout
<1>6. (IF rep THEN ms ELSE 0) \in Nat
  BY <1>3
<1> HIDE DEF ms, bl
<1>7. /\ block' \in [Blocks -> BlockType]
      /\ \A c \in Blocks \ {b} : block'[c] = block[c]
      /\ block'[b].used /\ block'[b].task = t /\ block'[b].armed
      /\ block'[b].repeat = IF rep THEN ms ELSE 0
  BY <1>3, <1>4, <1>5, <1>6, StartShape
<1>8. /\ timer' \in [Timers -> TimerType]
      /\ timer'[t].handle = b /\ timer'[t].set /\ timer'[t].oneShot = ~rep
      /\ ~timer'[t].cleared /\ timer'[t].fired = 0
      /\ \A u \in Timers \ {t} : timer'[u] = timer[u]
  <2> DEFINE new == [Unset EXCEPT !.handle = b, !.set = TRUE, !.oneShot = ~rep]
  <2>1. /\ new \in TimerType /\ new.handle = b /\ new.set /\ new.oneShot = ~rep
        /\ ~new.cleared /\ new.fired = 0
    BY GivenTimer
  <2> HIDE DEF new
  <2>2. timer' = [timer EXCEPT ![t] = new]
    BY <1>1 DEF new
  <2> QED
    BY <2>1, <2>2 DEF TimerInv, TimerShape
<1>9. TimerShape'
  BY <1>2, <1>7, <1>8 DEF TimerInv, TimerShape
<1>10. \A c \in Blocks \ {b} : block[c].used => block[c].task # t
  BY <1>2 DEF TimerInv, UsedInv
<1>11. ASSUME NEW c \in Blocks
       PROVE  UsedInv(c)' /\ ArmedInv(c)'
  <2>1. CASE c = b
    BY <2>1, <1>2, <1>7, <1>8 DEF UsedInv, ArmedInv
  <2>2. CASE c # b
    BY <2>2, <1>2, <1>7, <1>8, <1>10 DEF TimerInv, UsedInv, ArmedInv
  <2> QED
    BY <2>1, <2>2
<1>12. OneBlock'
  BY <1>7, <1>10 DEF TimerInv, OneBlock
<1>13. inside' # NULL => block'[inside'].used
  BY <1>2, <1>7 DEF TimerInv, TimerShape
<1>14. \A u \in Timers : ~timer'[u].set => timer'[u].fired = 0
  BY <1>8 DEF TimerInv
<1> QED
  BY <1>9, <1>11, <1>12, <1>13, <1>14 DEF TimerInv

\* A clear stops the block the handle points to, another timer's if it is stale;
\* no other block belongs to the timer that is cleared.
LEMMA ClearTimerInv ==
    ASSUME TimerInv, NEW t \in Timers, _ejs_clearTimeout_impl(t)
    PROVE  TimerInv'
<1> DEFINE h == timer[t].handle
<1>1. /\ h \in Blocks /\ block' = uv_timer_stop(block, h)
      /\ timer' = [timer EXCEPT ![t].handle = NULL, ![t].cleared = TRUE]
      /\ UNCHANGED <<rooted, inside, script>>
  BY DEF _ejs_clearTimeout_impl, _ejs_clearTimer, _ejs_runloop_remove_task, TimerInv, TimerShape, TimerType
<1> HIDE DEF h
<1>2. /\ block' \in [Blocks -> BlockType] /\ ~block'[h].armed
      /\ \A c \in Blocks : /\ block'[c].used = block[c].used /\ block'[c].task = block[c].task
                           /\ block'[c].repeat = block[c].repeat
                           /\ c # h => block'[c].armed = block[c].armed
  BY <1>1, StopShape DEF TimerInv, TimerShape
<1>3. /\ timer' \in [Timers -> TimerType]
      /\ \A u \in Timers : /\ timer'[u].set = timer[u].set /\ timer'[u].fired = timer[u].fired
                           /\ timer'[u].oneShot = timer[u].oneShot
                           /\ u # t => timer'[u] = timer[u]
  BY <1>1 DEF TimerInv, TimerShape, TimerType
<1>4. TimerShape'
  BY <1>1, <1>2, <1>3 DEF TimerInv, TimerShape
<1>5. ASSUME NEW c \in Blocks
      PROVE  UsedInv(c)'
  BY <1>1, <1>2, <1>3 DEF TimerInv, UsedInv
<1>6. ASSUME NEW c \in Blocks
      PROVE  ArmedInv(c)'
  <2>1. CASE c = h
    BY <2>1, <1>2 DEF ArmedInv
  <2>2. CASE c # h
    <3>1. SUFFICES ASSUME block[c].armed
                   PROVE  ArmedInv(c)'
      BY <2>2, <1>2 DEF ArmedInv
    <3>2. block[c].used /\ block[c].task \in Timers /\ timer[block[c].task].handle = c
      BY <3>1 DEF TimerInv, ArmedInv, UsedInv
    <3>3. block[c].task # t
      BY <2>2, <3>2 DEF h
    <3> QED
      BY <2>2, <3>1, <3>2, <3>3, <1>2, <1>3 DEF TimerInv, ArmedInv
  <2> QED
    BY <2>1, <2>2
<1>7. OneBlock'
  BY <1>2 DEF TimerInv, OneBlock
<1>8. inside' # NULL => block'[inside'].used
  BY <1>1, <1>2 DEF TimerInv, TimerShape
<1>9. \A u \in Timers : ~timer'[u].set => timer'[u].fired = 0
  BY <1>3 DEF TimerInv
<1> QED
  BY <1>4, <1>5, <1>6, <1>7, <1>8, <1>9 DEF TimerInv

\* What firing a block does to the blocks: only an interval's is armed again.
LEMMA FireShape ==
    ASSUME TimerInv, NEW b \in Blocks, Fire(b)
    PROVE  /\ block' \in [Blocks -> BlockType]
           /\ block[b].repeat = 0 => ~block'[b].armed
           /\ \A c \in Blocks : /\ block'[c].used = block[c].used /\ block'[c].task = block[c].task
                                /\ block'[c].repeat = block[c].repeat
                                /\ c # b => block'[c].armed = block[c].armed
<1> DEFINE bl == uv_timer_stop(block, b)
<1>1. block' = uv_timer_again(bl, b)
  BY DEF Fire
<1>2. block \in [Blocks -> BlockType]
  BY DEF TimerInv, TimerShape
<1>3. bl \in [Blocks -> BlockType] /\ bl[b].repeat \in Nat
  BY <1>2, StopShape DEF BlockType
<1>4. /\ ~bl[b].armed
      /\ \A c \in Blocks : /\ bl[c].used = block[c].used /\ bl[c].task = block[c].task
                           /\ bl[c].repeat = block[c].repeat
                           /\ c # b => bl[c].armed = block[c].armed
  BY <1>2, StopShape
<1> HIDE DEF bl
<1>5. CASE bl[b].repeat = 0
  BY <1>1, <1>3, <1>4, <1>5 DEF uv_timer_again
<1>6. CASE bl[b].repeat # 0
  <2>1. block' = uv_timer_start(bl, b, bl[b].repeat, bl[b].repeat)
    BY <1>1, <1>6 DEF uv_timer_again
  <2>2. /\ block' \in [Blocks -> BlockType]
        /\ \A c \in Blocks \ {b} : block'[c] = bl[c]
        /\ block'[b].used = bl[b].used /\ block'[b].task = bl[b].task /\ block'[b].repeat = bl[b].repeat
    BY <2>1, <1>3, StartShape
  <2> QED
    BY <2>2, <1>4, <1>6
<1> QED
  BY <1>5, <1>6

LEMMA FireInv ==
    ASSUME TimerInv, NEW b \in Blocks, Fire(b)
    PROVE  TimerInv'
<1> DEFINE t == block[b].task
<1>1. /\ block[b].armed /\ inside' = b /\ UNCHANGED <<rooted, script>>
      /\ timer' = [timer EXCEPT ![t].fired = IF @ < 2 THEN @ + 1 ELSE 2]
  BY DEF Fire
<1>2. block[b].used /\ t \in Timers
  BY <1>1 DEF TimerInv, ArmedInv, UsedInv
<1> HIDE DEF t
<1>3. /\ timer' \in [Timers -> TimerType]
      /\ \A u \in Timers \ {t} : timer'[u] = timer[u]
      /\ timer'[t].handle = timer[t].handle /\ timer'[t].set = timer[t].set
      /\ timer'[t].oneShot = timer[t].oneShot /\ timer'[t].cleared = timer[t].cleared
  BY <1>1, <1>2 DEF TimerInv, TimerShape, TimerType
<1>4. TimerShape'
  BY <1>1, <1>3, FireShape DEF TimerInv, TimerShape
<1>5. ASSUME NEW c \in Blocks
      PROVE  UsedInv(c)'
  BY <1>1, <1>3, FireShape DEF TimerInv, UsedInv
<1>6. ASSUME NEW c \in Blocks
      PROVE  ArmedInv(c)'
  <2>1. CASE c = b
    <3>1. timer[t].oneShot => ~block'[b].armed
      BY <1>2, FireShape DEF TimerInv, UsedInv, t
    <3> QED
      BY <2>1, <3>1, <1>1, <1>2, <1>3, FireShape DEF TimerInv, ArmedInv, t
  <2>2. CASE c # b
    <3>1. block[c].used => block[c].task # t
      BY <2>2, <1>2 DEF TimerInv, OneBlock, t
    <3> QED
      BY <2>2, <3>1, <1>3, FireShape DEF TimerInv, ArmedInv, UsedInv
  <2> QED
    BY <2>1, <2>2
<1>7. OneBlock'
  BY FireShape DEF TimerInv, OneBlock
<1>8. inside' # NULL => block'[inside'].used
  BY <1>1, <1>2, FireShape
<1>9. \A u \in Timers : ~timer'[u].set => timer'[u].fired = 0
  BY <1>2, <1>3 DEF TimerInv, UsedInv, t
<1> QED
  BY <1>4, <1>5, <1>6, <1>7, <1>8, <1>9 DEF TimerInv

\* The end of a callback frees a one-shot timer's block and root together.
LEMMA ReturnInv ==
    ASSUME TimerInv, Return
    PROVE  TimerInv'
<1> DEFINE b == inside
<1>1. b \in Blocks /\ block[b].used /\ inside' = NULL /\ UNCHANGED <<timer, script>>
  BY DEF TimerInv, TimerShape, Return
<1>2. CASE block[b].repeats
  BY <1>1, <1>2 DEF Return, invoke_task_done, TimerInv, TimerShape, UsedInv, ArmedInv, OneBlock
<1>3. CASE ~block[b].repeats
  <2>1. /\ rooted' = rooted \ {block[b].task}
        /\ block' = [uv_timer_stop(block, b) EXCEPT ![b] = Free]
    BY <1>3 DEF Return, invoke_task_done
  <2>2. Free \in BlockType /\ ~Free.used /\ ~Free.armed
    BY DEF Free, BlockType
  <2>3. /\ uv_timer_stop(block, b) \in [Blocks -> BlockType]
        /\ \A c \in Blocks : /\ uv_timer_stop(block, b)[c].used = block[c].used
                             /\ uv_timer_stop(block, b)[c].task = block[c].task
                             /\ uv_timer_stop(block, b)[c].repeat = block[c].repeat
                             /\ c # b => uv_timer_stop(block, b)[c].armed = block[c].armed
    BY <1>1, StopShape DEF TimerInv, TimerShape
  <2>4. /\ block' \in [Blocks -> BlockType]
        /\ ~block'[b].used /\ ~block'[b].armed
        /\ \A c \in Blocks \ {b} : /\ block'[c].used = block[c].used /\ block'[c].task = block[c].task
                                   /\ block'[c].repeat = block[c].repeat /\ block'[c].armed = block[c].armed
    BY <1>1, <2>1, <2>2, <2>3
  <2>5. TimerShape'
    BY <1>1, <2>1, <2>4 DEF TimerInv, TimerShape
  <2>6. ASSUME NEW c \in Blocks
        PROVE  UsedInv(c)' /\ ArmedInv(c)'
    <3>1. CASE c = b
      BY <3>1, <2>4 DEF UsedInv, ArmedInv
    <3>2. CASE c # b
      <4>1. block[c].used => block[c].task # block[b].task
        BY <3>2, <1>1 DEF TimerInv, OneBlock
      <4> QED
        BY <3>2, <4>1, <1>1, <2>1, <2>4 DEF TimerInv, UsedInv, ArmedInv
    <3> QED
      BY <3>1, <3>2
  <2>7. OneBlock'
    BY <2>4 DEF TimerInv, OneBlock
  <2> QED
    BY <1>1, <2>5, <2>6, <2>7 DEF TimerInv
<1> QED
  BY <1>2, <1>3

LEMMA TickInv ==
    ASSUME TimerInv, NEW n \in 1 .. MaxSleep, Tick(n)
    PROVE  TimerInv'
<1>1. /\ block' = [b \in Blocks |-> IF block[b].armed THEN [block[b] EXCEPT !.left = @ - n] ELSE block[b]]
      /\ UNCHANGED <<timer, rooted, inside, script>>
  BY DEF Tick
<1>2. n \in Int
  BY TimerAssumption
<1>3. /\ block' \in [Blocks -> BlockType]
      /\ \A c \in Blocks : /\ block'[c].used = block[c].used /\ block'[c].task = block[c].task
                           /\ block'[c].repeat = block[c].repeat /\ block'[c].armed = block[c].armed
  BY <1>1, <1>2 DEF TimerInv, TimerShape, BlockType
<1> QED
  BY <1>1, <1>3 DEF TimerInv, TimerShape, UsedInv, ArmedInv, OneBlock

LEMMA TimerStepInv == TimerInv /\ [TimerNext]_tvars => TimerInv'
<1> SUFFICES ASSUME TimerInv, [TimerNext]_tvars
             PROVE  TimerInv'
  OBVIOUS
<1>1. ASSUME NEW t \in Timers, NEW d \in Delays, _ejs_setTimeout_impl(t, d) \/ _ejs_setInterval_impl(t, d)
      PROVE  TimerInv'
  BY <1>1, SetTimerInv DEF _ejs_setTimeout_impl, _ejs_setInterval_impl
<1>2. ASSUME NEW t \in Timers, _ejs_clearTimeout_impl(t)
      PROVE  TimerInv'
  BY <1>2, ClearTimerInv
<1>3. ASSUME NEW b \in Blocks, Fire(b)
      PROVE  TimerInv'
  BY <1>3, FireInv
<1>4. CASE Return
  BY <1>4, ReturnInv
<1>5. ASSUME NEW n \in 1 .. MaxSleep, Tick(n)
      PROVE  TimerInv'
  BY <1>5, TickInv
<1>6. CASE _ejs_runloop_start
  BY <1>6 DEF _ejs_runloop_start, TimerInv, TimerShape, UsedInv, ArmedInv, OneBlock
<1>7. CASE UNCHANGED tvars
  BY <1>7 DEF tvars, TimerInv, TimerShape, UsedInv, ArmedInv, OneBlock
<1> QED
  BY <1>1, <1>2, <1>3, <1>4, <1>5, <1>6, <1>7 DEF TimerNext

LEMMA TimerInvConsistent == TimerInv => TimersConsistent
<1> SUFFICES ASSUME TimerInv
             PROVE  TimersConsistent
  OBVIOUS
<1>1. \A b \in Blocks : (block[b].armed \/ b = inside) => block[b].used
  BY TimerAssumption DEF TimerInv, ArmedInv
<1>2. TimerTypeOK
  BY <1>1 DEF TimerInv, TimerShape, TimerTypeOK, BlockType, TimerType
<1>3. CallableIsRooted
  BY <1>1 DEF TimerInv, UsedInv, CallableIsRooted
<1> QED
  BY <1>2, <1>3 DEF TimersConsistent

\* Blocks are allocated while the loop or a callback uses them, and every callback
\* that can still run is a root (create_task_arg, invoke_task, uv_timer_again).
THEOREM TimersAlwaysConsistent == TimerSpec => []TimersConsistent
<1>1. TimerSpec => []TimerInv
  BY TimerInitInv, TimerStepInv, PTL DEF TimerSpec
<1> QED
  BY <1>1, TimerInvConsistent, PTL

\* What a step may do to the number of times a timer has fired.
LEMMA FiresAsAskedStep ==
    ASSUME TimerInv, [TimerNext]_tvars, NEW t \in Timers, timer'[t].fired # timer[t].fired
    PROVE  ~timer[t].cleared /\ (timer[t].oneShot => timer[t].fired = 0)
<1>0. timer \in [Timers -> TimerType]
  BY DEF TimerInv, TimerShape
<1>1. ASSUME NEW u \in Timers, NEW d \in Delays, NEW rep \in BOOLEAN, _ejs_setTimer(u, d, rep)
      PROVE  FALSE
  <2>1. PICK b \in Blocks :
          timer' = [timer EXCEPT ![u] = [Unset EXCEPT !.handle = b, !.set = TRUE, !.oneShot = ~rep]]
    BY <1>1 DEF _ejs_setTimer
  <2>2. ~timer[u].set /\ timer[u].fired = 0
    BY <1>1 DEF _ejs_setTimer, TimerInv
  <2> QED
    BY <2>1, <2>2, <1>0 DEF TimerType, Unset
<1>2. ASSUME NEW u \in Timers, _ejs_clearTimeout_impl(u)
      PROVE  FALSE
  BY <1>0, <1>2 DEF _ejs_clearTimeout_impl, _ejs_clearTimer, TimerType
<1>3. ASSUME NEW b \in Blocks, Fire(b)
      PROVE  ~timer[t].cleared /\ (timer[t].oneShot => timer[t].fired = 0)
  <2>1. /\ block[b].armed
        /\ timer' = [timer EXCEPT ![block[b].task].fired = IF @ < 2 THEN @ + 1 ELSE 2]
    BY <1>3 DEF Fire
  <2>2. t = block[b].task
    BY <2>1, <1>0 DEF TimerType
  <2> QED
    BY <2>1, <2>2 DEF TimerInv, ArmedInv
<1>4. CASE Return
  BY <1>4 DEF Return
<1>5. ASSUME NEW n \in 1 .. MaxSleep, Tick(n)
      PROVE  FALSE
  BY <1>5 DEF Tick
<1>6. CASE _ejs_runloop_start
  BY <1>6 DEF _ejs_runloop_start
<1>7. CASE UNCHANGED tvars
  BY <1>7 DEF tvars
<1>8. ASSUME NEW u \in Timers, NEW d \in Delays, _ejs_setTimeout_impl(u, d) \/ _ejs_setInterval_impl(u, d)
      PROVE  FALSE
  BY <1>1, <1>8 DEF _ejs_setTimeout_impl, _ejs_setInterval_impl
<1> QED
  BY <1>2, <1>3, <1>4, <1>5, <1>6, <1>7, <1>8 DEF TimerNext

\* A one-shot timer fires once and a cleared timer never again, even when the
\* program clears through handles to blocks that were freed and used again: the
\* stale clear (_ejs_runloop_remove_task) can silence a timer, never revive one.
THEOREM TimersFireAsAsked == TimerSpec => FiresAsAsked
<1>1. TimerSpec => []TimerInv
  BY TimerInitInv, TimerStepInv, PTL DEF TimerSpec
<1>2. TimerInv /\ [TimerNext]_tvars =>
        [\A t \in Timers : timer'[t].fired # timer[t].fired =>
            ~timer[t].cleared /\ (timer[t].oneShot => timer[t].fired = 0)]_tvars
  BY FiresAsAskedStep
<1> QED
  BY <1>1, <1>2, PTL DEF TimerSpec, FiresAsAsked

-----------------------------------------------------------------------------
(* Generators, their array and the iterator wrapper are sound and implement   *)
(* coroutines.                                                                *)

WrapperType == [iterator : Gens \cup {Other, Nil}, done : BOOLEAN, resting : BOOLEAN,
                given : Seq(Words), taken : Seq(Words), rest : Seq(Words)]
GensType == [context : {"none", "start", "yield"}, caller_context : Gens \cup {Main},
             yielded_value : Message({"nothing", "yielded", "done"}), sent_value : Words, throwing : BOOLEAN]
Hearable == Message({"nothing", "send", "throw", "yielded", "done"})

\* The shape of the state.
GenShape ==
  /\ gens \in [Gens -> GensType]
  /\ frames \in [Gens -> {"none", "fresh", "suspended", "running", "over"}]
  /\ cur \in Gens \cup {Main} /\ generators \in Seq(Gens)
  /\ heard \in Hearable /\ wrapper \in WrapperType
  /\ fate \in {"ok", "aborted", "lost"} /\ resumes \in Nat

\* The saved context of a generator is the one its frames were left in, and an
\* exception flag that is up between two switches is a misuse.
Contexts ==
  \A g \in Gens : /\ frames[g] = "none" <=> gens[g].context = "none"
                  /\ frames[g] = "fresh" => gens[g].context = "start"
                  /\ frames[g] = "suspended" => gens[g].context = "yield"
                  /\ gens[g].throwing => Misuse

\* The array of generators is the chain of callers, whatever the program's fate.
At(i) == IF i = 0 THEN Main ELSE generators[i]
Chain ==
  /\ cur = At(Len(generators))
  /\ \A i \in 1 .. Len(generators) : gens[generators[i]].caller_context = At(i - 1)
  /\ \A g \in Gens : frames[g] = "running" <=> \E i \in 1 .. Len(generators) : generators[i] = g
  /\ \A i, j \in 1 .. Len(generators) : generators[i] = generators[j] => i = j

\* While its wrapper has not seen the end, the wrapped generator can go on; it runs
\* only if the wrapper has not; and what comes behind the rest is the end.
Wrapped ==
  /\ \A g \in Gens : wrapper.iterator = g =>
       /\ ~wrapper.done => frames[g] \in {"fresh", "suspended", "running"}
       /\ frames[g] = "running" => ~wrapper.done
  /\ ~wrapper.resting /\ wrapper.rest # <<>> => wrapper.done
  /\ WrapperExact

\* The inductive invariant.
GenInv == GenShape /\ Contexts /\ Chain /\ Wrapped /\ NeverLost

LEMMA GenInitInv == GenInit => GenInv
<1> SUFFICES ASSUME GenInit
             PROVE  GenInv
  OBVIOUS
<1>1. Blank \in GensType
  BY DEF Blank, GensType, Message, Silent, Words
<1>2. GenShape
  <2>1. NoWrapper \in WrapperType
    BY DEF NoWrapper, WrapperType
  <2> QED
    BY <1>1, <2>1 DEF GenInit, GenShape, Hearable, Message, Silent, Words
<1>3. Contexts
  BY DEF GenInit, Contexts, Blank
<1>4. Chain
  BY DEF GenInit, Chain, At
<1>5. Wrapped
  BY GenAssumption DEF GenInit, Wrapped, WrapperExact, NoWrapper
<1> QED
  BY <1>2, <1>3, <1>4, <1>5 DEF GenInv, NeverLost, GenInit

\* The main program runs only when no generator does.
LEMMA MainAlone ==
    ASSUME GenInv, cur = Main
    PROVE  Len(generators) = 0 /\ \A g \in Gens : frames[g] # "running"
<1>1. generators \in Seq(Gens) /\ Len(generators) \in Nat
  BY DEF GenInv, GenShape
<1>2. CASE Len(generators) # 0
  BY <1>1, <1>2, GenAssumption DEF GenInv, Chain, At
<1>3. CASE Len(generators) = 0
  BY <1>3 DEF GenInv, Chain
<1> QED
  BY <1>2, <1>3

\* A generator that runs the program is the last one of the array.
LEMMA RunningIsLast ==
    ASSUME GenInv, cur \in Gens
    PROVE  /\ Len(generators) \in Nat /\ Len(generators) >= 1
           /\ generators[Len(generators)] = cur
           /\ frames[cur] = "running"
           /\ gens[cur].caller_context = At(Len(generators) - 1)
<1>1. generators \in Seq(Gens) /\ Len(generators) \in Nat
  BY DEF GenInv, GenShape
<1>2. Len(generators) >= 1 /\ generators[Len(generators)] = cur
  BY <1>1, GenAssumption DEF GenInv, Chain, At
<1> QED
  BY <1>1, <1>2 DEF GenInv, Chain

LEMMA NewInv ==
    ASSUME GenInv, NEW g \in Gens, _ejs_generator_new(g)
    PROVE  GenInv'
<1>1. /\ frames[g] = "none" /\ frames' = [frames EXCEPT ![g] = "fresh"]
      /\ gens' = [gens EXCEPT ![g] = [Blank EXCEPT !.context = "start"]]
      /\ UNCHANGED <<cur, generators, heard, said, wrapper, fate, resumes>>
  BY DEF _ejs_generator_new
<1>2. [Blank EXCEPT !.context = "start"] \in GensType /\ [Blank EXCEPT !.context = "start"].context = "start"
  BY DEF Blank, GensType, Message, Silent, Words
<1>3. ~[Blank EXCEPT !.context = "start"].throwing
  BY DEF Blank
<1> DEFINE new == [Blank EXCEPT !.context = "start"]
<1> HIDE DEF new
<1>4. gens' = [gens EXCEPT ![g] = new] /\ new \in GensType /\ new.context = "start" /\ ~new.throwing
  BY <1>1, <1>2, <1>3 DEF new
<1>5. GenShape'
  BY <1>1, <1>4 DEF GenInv, GenShape
<1>6. Contexts'
  BY <1>1, <1>4 DEF GenInv, GenShape, Contexts
<1>7. Chain'
  <2>1. generators \in Seq(Gens)
    BY DEF GenInv, GenShape
  <2>2. \A i \in 1 .. Len(generators) : generators[i] # g
    BY <1>1, <2>1 DEF GenInv, Chain
  <2> QED
    BY <1>1, <1>4, <2>1, <2>2 DEF GenInv, GenShape, Chain, At
<1>8. Wrapped'
  BY <1>1 DEF GenInv, GenShape, Wrapped, WrapperExact
<1> QED
  BY <1>1, <1>5, <1>6, <1>7, <1>8 DEF GenInv, NeverLost

\* What a push does to the array.
LEMMA PushFacts ==
    ASSUME NEW s \in Seq(Gens), NEW g \in Gens
    PROVE  /\ Append(s, g) \in Seq(Gens) /\ Len(Append(s, g)) = Len(s) + 1 /\ Len(s) \in Nat
           /\ Append(s, g)[Len(s) + 1] = g
           /\ \A i \in 1 .. Len(s) : Append(s, g)[i] = s[i]
  OBVIOUS

\* What a pop does to the array.
LEMMA PopFacts ==
    ASSUME NEW s \in Seq(Gens), Len(s) >= 1
    PROVE  /\ SubSeq(s, 1, Len(s) - 1) \in Seq(Gens) /\ Len(SubSeq(s, 1, Len(s) - 1)) = Len(s) - 1
           /\ Len(s) \in Nat
           /\ \A i \in 1 .. Len(s) - 1 : SubSeq(s, 1, Len(s) - 1)[i] = s[i]
<1> DEFINE n == Len(s) - 1
<1>1. Len(s) \in Nat /\ n \in Nat /\ \A i \in 1 .. n : s[i] \in Gens
  OBVIOUS
<1> HIDE DEF n
<1>2. /\ SubSeq(s, 1, n) \in Seq(Gens)
      /\ Len(SubSeq(s, 1, n)) = IF 1 <= n THEN n - 1 + 1 ELSE 0
      /\ \A i \in 1 .. n - 1 + 1 : SubSeq(s, 1, n)[i] = s[1 + i - 1]
  BY <1>1, SubSeqProperties
<1>3. n - 1 + 1 = n /\ \A i \in 1 .. n : 1 + i - 1 = i
  BY <1>1
<1>4. Len(SubSeq(s, 1, n)) = n /\ \A i \in 1 .. n : SubSeq(s, 1, n)[i] = s[i]
  BY <1>1, <1>2, <1>3
<1> QED
  BY <1>1, <1>2, <1>4 DEF n

\* Into a generator: by the program or by a wrapper that has not seen the end.
LEMMA SwitchToInv ==
    ASSUME GenInv, NEW g \in Gens, NEW arg \in Words, NEW flag \in BOOLEAN, NEW kind \in {"send", "throw"},
           SwitchTo(g, arg, flag, kind), UNCHANGED wrapper, resumes' \in Nat,
           flag => Misuse \/ frames[g] = "suspended",
           Misuse \/ CanResume(g),
           wrapper.iterator = g => ~wrapper.done
    PROVE  GenInv'
<1>1. CASE ~CanResume(g)
  <2>1. fate' = "lost" /\ Misuse /\ UNCHANGED <<gens, frames, cur, generators, heard, said>>
    BY <1>1 DEF SwitchTo
  <2> QED
    <3>1. GenShape'
      BY <2>1 DEF GenInv, GenShape
    <3>2. Contexts' /\ Wrapped'
      BY <2>1 DEF GenInv, Contexts, Wrapped, WrapperExact
    <3>3. Chain'
      BY <2>1 DEF GenInv, Chain, At
    <3> QED
      BY <2>1, <3>1, <3>2, <3>3 DEF GenInv, NeverLost
<1>2. CASE CanResume(g)
  <2>1. /\ frames[g] \in {"fresh", "suspended"}
        /\ generators' = Append(generators, g)
        /\ frames' = [frames EXCEPT ![g] = "running"] /\ cur' = g /\ UNCHANGED fate
    BY <1>2 DEF CanResume, SwitchTo, _ejs_gc_push_generator
  <2>2. /\ gens' \in [Gens -> GensType] /\ heard' \in Hearable
        /\ gens'[g].caller_context = cur /\ gens'[g].context = gens[g].context
        /\ gens'[g].throwing => Misuse
        /\ \A h \in Gens \ {g} : gens'[h] = gens[h]
    <3>1. PICK b \in BOOLEAN :
             /\ gens' = [gens EXCEPT ![g].throwing = b, ![g].sent_value = arg,
                                     ![g].yielded_value = Silent, ![g].caller_context = cur]
             /\ b => Misuse
      <4>1. CASE gens[g].context = "start" /\ Begin(g, arg, flag)
        <5>1. frames[g] # "suspended"
          BY <4>1 DEF GenInv, Contexts
        <5> QED
          BY <4>1, <5>1 DEF Begin
      <4>2. CASE gens[g].context = "yield" /\ Awake(g, arg, flag)
        BY <4>2 DEF Awake
      <4> QED
        BY <1>2, <4>1, <4>2 DEF SwitchTo
    <3>2. heard' \in Hearable
      BY <1>2 DEF SwitchTo, Begin, Awake, Hearable, Message, Silent, Words
    <3>3. gens[g] \in GensType /\ Silent \in Message({"nothing", "yielded", "done"}) /\ cur \in Gens \cup {Main}
      BY DEF GenInv, GenShape, Message, Silent, Words
    <3> DEFINE rec == [gens[g] EXCEPT !.throwing = b, !.sent_value = arg, !.yielded_value = Silent, !.caller_context = cur]
    <3>4. /\ rec \in GensType /\ rec.caller_context = cur /\ rec.context = gens[g].context
          /\ rec.throwing => b
      BY <3>3 DEF GensType
    <3>5. gens' = [gens EXCEPT ![g] = rec]
      BY <3>1, <3>3 DEF GenInv, GenShape, GensType
    <3>6. rec.throwing => Misuse
      BY <3>1, <3>4
    <3>7. gens \in [Gens -> GensType]
      BY DEF GenInv, GenShape
    <3> HIDE DEF rec
    <3> QED
      BY <3>2, <3>4, <3>5, <3>6, <3>7
  <2>3. GenShape'
    BY <2>1, <2>2, PushFacts DEF GenInv, GenShape
  <2>4. Contexts'
    BY <2>1, <2>2 DEF GenInv, GenShape, Contexts
  <2>5. Chain'
    <3>1. generators \in Seq(Gens)
      BY DEF GenInv, GenShape
    <3>2. \A i \in 1 .. Len(generators) : generators[i] \in Gens \ {g}
      BY <2>1, <3>1 DEF GenInv, Chain
    <3> DEFINE n == Len(generators)
    <3>3. /\ n \in Nat /\ Len(generators') = n + 1 /\ generators'[n + 1] = g
          /\ \A i \in 1 .. n : generators'[i] = generators[i]
      BY <2>1, <3>1, PushFacts
    <3>4. ASSUME NEW i \in 0 .. n
          PROVE  At(i)' = At(i)
      BY <3>3 DEF At
    <3>5. cur' = At(Len(generators))'
      BY <2>1, <3>3, <3>4 DEF At
    <3>6. ASSUME NEW i \in 1 .. Len(generators')
          PROVE  gens'[generators'[i]].caller_context = At(i - 1)'
      <4>1. CASE i = n + 1
        BY <4>1, <2>2, <3>3, <3>4 DEF GenInv, Chain
      <4>2. CASE i \in 1 .. n
        BY <4>2, <2>2, <3>2, <3>3, <3>4 DEF GenInv, Chain
      <4> QED
        BY <4>1, <4>2, <3>3
    <3>7. ASSUME NEW h \in Gens
          PROVE  frames'[h] = "running" <=> \E i \in 1 .. Len(generators') : generators'[i] = h
      <4>1. CASE h = g
        BY <4>1, <2>1, <3>3 DEF GenInv, GenShape
      <4>2. CASE h # g
        <5>1. frames'[h] = frames[h]
          BY <4>2, <2>1 DEF GenInv, GenShape
        <5>2. (\E i \in 1 .. n + 1 : generators'[i] = h) <=> (\E i \in 1 .. n : generators[i] = h)
          BY <4>2, <3>3
        <5> QED
          BY <5>1, <5>2, <3>3 DEF GenInv, Chain
      <4> QED
        BY <4>1, <4>2
    <3>8. \A i, j \in 1 .. Len(generators') : generators'[i] = generators'[j] => i = j
      <4>1. \A i, j \in 1 .. n : generators[i] = generators[j] => i = j
        BY DEF GenInv, Chain
      <4> QED
        BY <4>1, <3>2, <3>3
    <3> QED
      BY <3>5, <3>6, <3>7, <3>8 DEF Chain
  <2>6. Wrapped'
    BY <2>1 DEF GenInv, GenShape, Wrapped, WrapperExact
  <2> QED
    BY <2>1, <2>3, <2>4, <2>5, <2>6 DEF GenInv, NeverLost
<1> QED
  BY <1>1, <1>2

\* A value appended to the rest, or to what was taken before a rest, is appended
\* to both together.
LEMMA TakenAppend ==
    ASSUME NEW a \in Seq(Words), NEW b \in Seq(Words), NEW w \in Words
    PROVE  /\ a \o Append(b, w) = Append(a \o b, w)
           /\ b = <<>> => Append(a, w) \o b = Append(a \o b, w)
<1>1. a \o Append(b, w) = Append(a \o b, w)
  OBVIOUS
<1>2. a \o <<>> = a /\ Append(a, w) \o <<>> = Append(a, w)
  OBVIOUS
<1> QED
  BY <1>1, <1>2

\* What getNextValue does with a value or an end keeps the wrapper exact, if the
\* end was not seen before.
LEMMA TookExact ==
    ASSUME wrapper \in WrapperType, WrapperExact, ~wrapper.done,
           ~wrapper.resting /\ wrapper.rest # <<>> => wrapper.done,
           NEW r \in Message({"yielded", "done"}), Took(r)
    PROVE  /\ wrapper' \in WrapperType /\ WrapperExact'
           /\ wrapper'.iterator = wrapper.iterator
           /\ wrapper'.done <=> r.kind = "done"
           /\ ~wrapper'.resting /\ wrapper'.rest # <<>> => wrapper'.done
<1> DEFINE given == IF r.kind = "done" THEN wrapper.given ELSE Append(wrapper.given, r.word)
           taken == IF wrapper.resting \/ r.kind = "done" THEN wrapper.taken ELSE Append(wrapper.taken, r.word)
           rest == IF wrapper.resting /\ r.kind # "done" THEN Append(wrapper.rest, r.word) ELSE wrapper.rest
<1>1. r.word \in Words
  BY DEF Message
<1>2. wrapper' = [wrapper EXCEPT !.done = (r.kind = "done"), !.given = given, !.taken = taken, !.rest = rest]
  BY DEF Took
<1>3. /\ wrapper.given \in Seq(Words) /\ wrapper.taken \in Seq(Words) /\ wrapper.rest \in Seq(Words)
      /\ wrapper.taken \o wrapper.rest = wrapper.given
  BY DEF WrapperType, WrapperExact
<1>4. given \in Seq(Words) /\ taken \in Seq(Words) /\ rest \in Seq(Words)
  BY <1>1, <1>3
<1>5. taken \o rest = given
  <2>1. CASE r.kind = "done"
    BY <2>1, <1>3
  <2>2. CASE r.kind # "done" /\ wrapper.resting
    BY <2>2, <1>1, <1>3, TakenAppend
  <2>3. CASE r.kind # "done" /\ ~wrapper.resting
    BY <2>3, <1>1, <1>3, TakenAppend
  <2> QED
    BY <2>1, <2>2, <2>3
<1>6. ~wrapper.resting /\ r.kind # "done" => rest = <<>>
  OBVIOUS
<1> HIDE DEF given, taken, rest
<1>7. PICK e \in BOOLEAN : e <=> r.kind = "done"
  OBVIOUS
<1>8. wrapper' = [wrapper EXCEPT !.done = e, !.given = given, !.taken = taken, !.rest = rest]
  BY <1>2, <1>7, Zenon
<1>9. /\ wrapper' \in WrapperType /\ wrapper'.iterator = wrapper.iterator /\ wrapper'.done = e
      /\ wrapper'.given = given /\ wrapper'.taken = taken /\ wrapper'.rest = rest
      /\ wrapper'.resting = wrapper.resting
  BY <1>4, <1>8 DEF WrapperType
<1> QED
  BY <1>5, <1>6, <1>7, <1>9 DEF WrapperExact

\* Back from a generator, which is suspended or over afterwards.
LEMMA SwitchBackInv ==
    ASSUME GenInv, cur \in Gens, fate = "ok",
           NEW r \in Message({"yielded", "done"}), NEW f \in {"suspended", "over"},
           r.kind = "done" <=> f = "over",
           frames' = [frames EXCEPT ![cur] = f],
           gens' \in [Gens -> GensType],
           \A g \in Gens : gens'[g].caller_context = gens[g].caller_context,
           \A g \in Gens \ {cur} : gens'[g] = gens[g],
           gens'[cur].context # "none", f = "suspended" => gens'[cur].context = "yield",
           gens'[cur].throwing => Misuse,
           _ejs_gc_pop_generator, SwitchBack(cur, r)
    PROVE  GenInv'
<1> DEFINE n == Len(generators)
           g == cur
<1>1. /\ cur' = gens[g].caller_context /\ heard' = r
      /\ IF wrapper.iterator = g THEN Took(r) ELSE UNCHANGED wrapper
      /\ UNCHANGED <<said, fate, resumes>>
      /\ generators' = SubSeq(generators, 1, n - 1)
  BY DEF SwitchBack, _ejs_gc_pop_generator
<1>2. /\ n \in Nat /\ n >= 1 /\ generators[n] = g /\ frames[g] = "running"
      /\ gens[g].caller_context = At(n - 1) /\ generators \in Seq(Gens)
  BY RunningIsLast DEF GenInv, GenShape
<1>3. /\ generators' \in Seq(Gens) /\ Len(generators') = n - 1
      /\ \A i \in 1 .. n - 1 : generators'[i] = generators[i]
  BY <1>1, <1>2, PopFacts
<1>4. /\ wrapper' \in WrapperType /\ WrapperExact'
      /\ wrapper'.iterator = wrapper.iterator
      /\ ~wrapper'.resting /\ wrapper'.rest # <<>> => wrapper'.done
      /\ wrapper.iterator # g => wrapper' = wrapper
      /\ wrapper.iterator = g => (wrapper'.done <=> r.kind = "done")
  <2>1. CASE wrapper.iterator = g
    BY <2>1, <1>1, <1>2, TookExact DEF GenInv, GenShape, Wrapped
  <2>2. CASE wrapper.iterator # g
    BY <2>2, <1>1 DEF GenInv, GenShape, Wrapped, WrapperExact
  <2> QED
    BY <2>1, <2>2
<1>5. heard' \in Hearable
  BY <1>1 DEF Hearable, Message
<1>6. GenShape'
  BY <1>1, <1>3, <1>4, <1>5 DEF GenInv, GenShape, GensType
<1>7. \A h \in Gens : frames'[h] = IF h = g THEN f ELSE frames[h]
  BY DEF GenInv, GenShape
<1>8. Contexts'
  BY <1>7 DEF GenInv, GenShape, Contexts
<1>9. Wrapped'
  BY <1>4, <1>7 DEF GenInv, Wrapped
<1>10. Chain'
  <2>1. ASSUME NEW i \in 0 .. n - 1
        PROVE  At(i)' = At(i)
    BY <1>2, <1>3 DEF At
  <2>2. cur' = At(Len(generators))'
    BY <1>1, <1>2, <1>3, <2>1 DEF At
  <2>3. \A i \in 1 .. n - 1 : generators[i] \in Gens \ {g}
    <3>1. \A i, j \in 1 .. n : generators[i] = generators[j] => i = j
      BY DEF GenInv, Chain
    <3> QED
      BY <1>2, <3>1
  <2>4. ASSUME NEW i \in 1 .. n - 1
        PROVE  gens'[generators'[i]].caller_context = At(i - 1)'
    <3>1. At(i - 1)' = At(i - 1)
      BY <1>2, <2>1
    <3>2. gens[generators[i]].caller_context = At(i - 1)
      BY <1>2 DEF GenInv, Chain
    <3> QED
      BY <3>1, <3>2, <1>3, <2>3
  <2>5. ASSUME NEW h \in Gens
        PROVE  frames'[h] = "running" <=> \E i \in 1 .. n - 1 : generators'[i] = h
    <3>1. CASE h = g
      BY <3>1, <1>3, <1>7, <2>3
    <3>2. CASE h # g
      <4>1. (\E i \in 1 .. n : generators[i] = h) <=> (\E i \in 1 .. n - 1 : generators'[i] = h)
        BY <3>2, <1>2, <1>3
      <4> QED
        BY <3>2, <4>1, <1>7 DEF GenInv, Chain
    <3> QED
      BY <3>1, <3>2
  <2>6. \A i, j \in 1 .. n - 1 : generators'[i] = generators'[j] => i = j
    <3>1. \A i, j \in 1 .. n : generators[i] = generators[j] => i = j
      BY DEF GenInv, Chain
    <3> QED
      BY <1>2, <1>3, <3>1
  <2> QED
    BY <1>3, <2>2, <2>4, <2>5, <2>6 DEF Chain
<1> QED
  BY <1>1, <1>6, <1>8, <1>9, <1>10 DEF GenInv, NeverLost

LEMMA YieldInv ==
    ASSUME GenInv, NEW arg \in Words, _ejs_generator_yield(arg)
    PROVE  GenInv'
<1> DEFINE r == _ejs_create_iter_result(arg, FALSE)
<1>1. /\ fate = "ok" /\ cur \in Gens
      /\ gens' = [gens EXCEPT ![cur].yielded_value = r, ![cur].sent_value = undefined, ![cur].context = "yield"]
      /\ frames' = [frames EXCEPT ![cur] = "suspended"]
      /\ _ejs_gc_pop_generator /\ SwitchBack(cur, r)
  BY DEF _ejs_generator_yield
<1>2. r \in Message({"yielded", "done"}) /\ r.kind # "done" /\ r \in Message({"nothing", "yielded", "done"})
  BY DEF _ejs_create_iter_result, Message
<1>3. undefined \in Words /\ gens[cur] \in GensType
  BY <1>1 DEF Words, GenInv, GenShape
<1> HIDE DEF r
<1> DEFINE rec == [gens[cur] EXCEPT !.yielded_value = r, !.sent_value = undefined, !.context = "yield"]
<1>4. /\ rec \in GensType /\ rec.context = "yield" /\ rec.caller_context = gens[cur].caller_context
      /\ rec.throwing = gens[cur].throwing
  BY <1>2, <1>3 DEF GensType
<1>5. gens' = [gens EXCEPT ![cur] = rec]
  BY <1>1, <1>3 DEF GenInv, GenShape, GensType
<1> HIDE DEF rec
<1>6. gens[cur].throwing => Misuse
  BY <1>1 DEF GenInv, Contexts
<1>7. /\ gens' \in [Gens -> GensType] /\ gens'[cur] = rec
      /\ \A g \in Gens : gens'[g].caller_context = gens[g].caller_context
      /\ \A g \in Gens \ {cur} : gens'[g] = gens[g]
  BY <1>1, <1>4, <1>5 DEF GenInv, GenShape
<1>8. gens'[cur].throwing => Misuse
  BY <1>4, <1>6, <1>7
<1> QED
  BY <1>1, <1>2, <1>4, <1>7, <1>8, SwitchBackInv

LEMMA EndInv ==
    ASSUME GenInv, _ejs_generator_start
    PROVE  GenInv'
<1>1. /\ fate = "ok" /\ cur \in Gens
      /\ gens' = [gens EXCEPT ![cur].yielded_value = TheEnd]
      /\ frames' = [frames EXCEPT ![cur] = "over"]
      /\ _ejs_gc_pop_generator /\ SwitchBack(cur, TheEnd)
  BY DEF _ejs_generator_start
<1>2. /\ TheEnd \in Message({"yielded", "done"}) /\ TheEnd.kind = "done"
      /\ TheEnd \in Message({"nothing", "yielded", "done"})
  BY DEF TheEnd, _ejs_create_iter_result, Message, Words
<1>3. gens[cur] \in GensType
  BY <1>1 DEF GenInv, GenShape
<1> DEFINE rec == [gens[cur] EXCEPT !.yielded_value = TheEnd]
<1>4. /\ rec \in GensType /\ rec.context = gens[cur].context /\ rec.caller_context = gens[cur].caller_context
      /\ rec.throwing = gens[cur].throwing
  BY <1>2, <1>3 DEF GensType
<1>5. gens' = [gens EXCEPT ![cur] = rec]
  BY <1>1, <1>3 DEF GenInv, GenShape, GensType
<1> HIDE DEF rec
<1>6. gens[cur].throwing => Misuse
  BY <1>1 DEF GenInv, Contexts
<1>7. gens[cur].context # "none"
  BY <1>1, RunningIsLast DEF GenInv, Contexts
<1>8. /\ gens' \in [Gens -> GensType] /\ gens'[cur] = rec
      /\ \A g \in Gens : gens'[g].caller_context = gens[g].caller_context
      /\ \A g \in Gens \ {cur} : gens'[g] = gens[g]
  BY <1>1, <1>4, <1>5 DEF GenInv, GenShape
<1>9. (gens'[cur].throwing => Misuse) /\ gens'[cur].context # "none"
  BY <1>4, <1>6, <1>7, <1>8
<1> QED
  BY <1>1, <1>2, <1>8, <1>9, SwitchBackInv

\* A call of the program's own.
LEMMA CallInv ==
    ASSUME GenInv, NEW g \in Gens, NEW v \in Words,
           _ejs_Generator_prototype_next(g, v) \/ _ejs_Generator_prototype_throw(g, v)
    PROVE  GenInv'
<1>1. /\ wrapper.iterator # g /\ (Misuse \/ CanResume(g)) /\ UNCHANGED wrapper
      /\ resumes' = resumes + 1
  BY DEF _ejs_Generator_prototype_next, _ejs_Generator_prototype_throw, MayCall
<1>2. resumes' \in Nat
  BY <1>1 DEF GenInv, GenShape
<1>3. CASE _ejs_Generator_prototype_next(g, v)
  <2>1. SwitchTo(g, v, gens[g].throwing, "send")
    BY <1>3 DEF _ejs_Generator_prototype_next, _ejs_generator_send
  <2>2. gens[g].throwing \in BOOLEAN /\ (gens[g].throwing => Misuse)
    BY DEF GenInv, GenShape, GensType, Contexts
  <2> QED
    BY <1>1, <1>2, <2>1, <2>2, SwitchToInv
<1>4. CASE _ejs_Generator_prototype_throw(g, v)
  <2>1. SwitchTo(g, v, TRUE, "throw") /\ (Misuse \/ frames[g] = "suspended")
    BY <1>4 DEF _ejs_Generator_prototype_throw, _ejs_generator_throw
  <2> QED
    BY <1>1, <1>2, <2>1, SwitchToInv
<1> QED
  BY <1>3, <1>4

\* The wrapped generator can go on when the wrapper, used by the main program
\* alone, asks it.
LEMMA WrappedCanResume ==
    ASSUME GenInv, cur = Main, wrapper.iterator \in Gens, ~wrapper.done
    PROVE  CanResume(wrapper.iterator)
<1>1. Len(generators) = 0 /\ \A g \in Gens : frames[g] # "running"
  BY MainAlone
<1>2. Len(generators) < MAX_GENERATORS
  BY <1>1, GenAssumption
<1>3. frames[wrapper.iterator] \in {"fresh", "suspended", "running"}
  BY DEF GenInv, Wrapped
<1> QED
  BY <1>1, <1>2, <1>3 DEF CanResume

\* The wrapper's own state changes, the generators do not.
LEMMA WrapperFrame ==
    ASSUME GenInv, UNCHANGED <<gens, frames, cur, generators, heard, said, fate>>, resumes' \in Nat,
           wrapper' \in WrapperType, Wrapped'
    PROVE  GenInv'
<1>1. GenShape'
  BY DEF GenInv, GenShape
<1>2. Contexts'
  BY DEF GenInv, Contexts
<1>3. Chain'
  BY DEF GenInv, Chain, At
<1> QED
  BY <1>1, <1>2, <1>3 DEF GenInv, NeverLost

LEMMA WrapperNewInv ==
    ASSUME GenInv, NEW it \in Gens \cup {Other}, _ejs_iterator_wrapper_new(it)
    PROVE  GenInv'
<1>1. /\ it \in Gens => frames[it] \in {"fresh", "suspended"}
      /\ wrapper' = [wrapper EXCEPT !.iterator = it]
      /\ UNCHANGED <<gens, frames, cur, generators, heard, said, fate, resumes>>
  BY DEF _ejs_iterator_wrapper_new, CanResume
<1>2. wrapper \in WrapperType /\ resumes \in Nat
  BY DEF GenInv, GenShape
<1>3. /\ wrapper' \in WrapperType /\ wrapper'.iterator = it /\ wrapper'.done = wrapper.done
      /\ wrapper'.resting = wrapper.resting /\ wrapper'.taken = wrapper.taken
      /\ wrapper'.rest = wrapper.rest /\ wrapper'.given = wrapper.given
  BY <1>1, <1>2 DEF WrapperType
<1>4. Wrapped'
  BY <1>1, <1>3 DEF GenInv, Wrapped, WrapperExact
<1> QED
  BY <1>1, <1>2, <1>3, <1>4, WrapperFrame

LEMMA GetNextValueInv ==
    ASSUME GenInv, cur = Main, getNextValue
    PROVE  GenInv'
<1>0. resumes' \in Nat /\ wrapper \in WrapperType
  BY DEF getNextValue, GenInv, GenShape
<1>1. CASE wrapper.done /\ UNCHANGED <<gens, frames, cur, generators, heard, said, wrapper, fate>>
  <2>1. Wrapped'
    BY <1>1 DEF GenInv, Wrapped, WrapperExact
  <2> QED
    BY <1>0, <1>1, <2>1, WrapperFrame
<1>2. CASE ~wrapper.done /\ wrapper.iterator = Other /\ OtherNext
  <2>1. UNCHANGED <<gens, frames, cur, generators, heard, said, fate>>
    BY <1>2 DEF OtherNext
  <2>2. ASSUME NEW r \in Message({"yielded", "done"}), Took(r)
        PROVE  GenInv'
    <3>1. /\ wrapper' \in WrapperType /\ WrapperExact' /\ wrapper'.iterator = Other
          /\ ~wrapper'.resting /\ wrapper'.rest # <<>> => wrapper'.done
      BY <1>0, <1>2, <2>2, TookExact DEF GenInv, Wrapped
    <3>2. Wrapped'
      BY <3>1, GenAssumption DEF Wrapped
    <3> QED
      BY <1>0, <2>1, <3>1, <3>2, WrapperFrame
  <2>3. TheEnd \in Message({"yielded", "done"})
    BY DEF TheEnd, _ejs_create_iter_result, Message, Words
  <2>4. \A v \in Values : _ejs_create_iter_result(v, FALSE) \in Message({"yielded", "done"})
    BY DEF _ejs_create_iter_result, Message, Words
  <2>5. CASE wrapper' = NoWrapper
    <3>1. wrapper' \in WrapperType /\ Wrapped'
      BY <2>5, GenAssumption DEF NoWrapper, WrapperType, Wrapped, WrapperExact
    <3> QED
      BY <1>0, <2>1, <3>1, WrapperFrame
  <2> QED
    BY <1>2, <2>2, <2>3, <2>4, <2>5 DEF OtherNext
<1>3. CASE /\ ~wrapper.done /\ wrapper.iterator \in Gens
           /\ _ejs_generator_send(wrapper.iterator, undefined)
           /\ UNCHANGED wrapper
  <2> DEFINE g == wrapper.iterator
  <2>1. SwitchTo(g, undefined, gens[g].throwing, "send")
    BY <1>3 DEF _ejs_generator_send
  <2>2. gens[g].throwing \in BOOLEAN /\ (gens[g].throwing => Misuse)
    BY <1>3 DEF GenInv, GenShape, GensType, Contexts
  <2>3. CanResume(g) /\ undefined \in Words
    BY <1>3, WrappedCanResume DEF Words
  <2> QED
    BY <1>0, <1>3, <2>1, <2>2, <2>3, SwitchToInv
<1> QED
  BY <1>1, <1>2, <1>3 DEF getNextValue

LEMMA GetRestInv ==
    ASSUME GenInv, _ejs_IteratorWrapper_prototype_getRest
    PROVE  GenInv'
<1>1. CASE wrapper.resting /\ ~wrapper.done /\ getNextValue
  BY <1>1, GetNextValueInv DEF _ejs_IteratorWrapper_prototype_getRest
<1>2. ASSUME NEW b \in BOOLEAN, Resting(b), b \/ wrapper.done
      PROVE  GenInv'
  <2>1. /\ wrapper' = [wrapper EXCEPT !.resting = b]
        /\ UNCHANGED <<gens, frames, cur, generators, heard, said, fate, resumes>>
    BY <1>2 DEF Resting
  <2>2. wrapper \in WrapperType /\ resumes \in Nat
    BY DEF GenInv, GenShape
  <2>3. /\ wrapper' \in WrapperType /\ wrapper'.iterator = wrapper.iterator /\ wrapper'.done = wrapper.done
        /\ wrapper'.resting = b /\ wrapper'.taken = wrapper.taken
        /\ wrapper'.rest = wrapper.rest /\ wrapper'.given = wrapper.given
    BY <2>1, <2>2 DEF WrapperType
  <2>4. Wrapped'
    BY <1>2, <2>1, <2>3 DEF GenInv, Wrapped, WrapperExact
  <2> QED
    BY <2>1, <2>2, <2>3, <2>4, WrapperFrame
<1> QED
  BY <1>1, <1>2 DEF _ejs_IteratorWrapper_prototype_getRest

LEMMA GenStepInv == GenInv /\ [GenNext]_gvars => GenInv'
<1> SUFFICES ASSUME GenInv, [GenNext]_gvars
             PROVE  GenInv'
  OBVIOUS
<1>1. ASSUME NEW g \in Gens, _ejs_generator_new(g)
      PROVE  GenInv'
  BY <1>1, NewInv
<1>2. CASE Abort
  <2>1. GenShape' /\ Contexts' /\ Wrapped'
    BY <1>2 DEF Abort, GenInv, GenShape, Contexts, Wrapped, WrapperExact
  <2>2. Chain'
    BY <1>2 DEF Abort, GenInv, Chain, At
  <2> QED
    BY <1>2, <2>1, <2>2 DEF Abort, GenInv, NeverLost
<1>3. ASSUME NEW g \in Gens, NEW v \in Words,
             _ejs_Generator_prototype_next(g, v) \/ _ejs_Generator_prototype_throw(g, v)
      PROVE  GenInv'
  BY <1>3, CallInv
<1>4. ASSUME NEW v \in Words, _ejs_generator_yield(v)
      PROVE  GenInv'
  BY <1>4, YieldInv
<1>5. CASE _ejs_generator_start
  BY <1>5, EndInv
<1>6. ASSUME NEW it \in Gens \cup {Other}, _ejs_iterator_wrapper_new(it)
      PROVE  GenInv'
  BY <1>6, WrapperNewInv
<1>7. CASE _ejs_IteratorWrapper_prototype_getNextValue
  BY <1>7, GetNextValueInv DEF _ejs_IteratorWrapper_prototype_getNextValue
<1>8. CASE _ejs_IteratorWrapper_prototype_getRest
  BY <1>8, GetRestInv
<1>9. CASE UNCHANGED gvars
  <2>1. GenShape' /\ Contexts' /\ Wrapped'
    BY <1>9 DEF gvars, GenInv, GenShape, Contexts, Wrapped, WrapperExact
  <2>2. Chain'
    BY <1>9 DEF gvars, GenInv, Chain, At
  <2> QED
    BY <1>9, <2>1, <2>2 DEF gvars, GenInv, NeverLost
<1>10. CASE GenNext
  BY <1>10, <1>1, <1>2, <1>3, <1>4, <1>5, <1>6, <1>7, <1>8
  DEF GenNext, Uncaught, _ejs_Generator_prototype_return
<1> QED
  BY <1>9, <1>10

LEMMA GenInvExact == GenInv => GeneratorsExact
<1> SUFFICES ASSUME GenInv
             PROVE  GeneratorsExact
  OBVIOUS
<1>1. GenTypeOK
  <2>1. ASSUME NEW g \in Gens
        PROVE  (frames[g] = "none") = (gens[g].context = "none")
    <3>1. frames[g] = "none" <=> gens[g].context = "none"
      BY DEF GenInv, Contexts
    <3> QED
      BY <3>1, Zenon
  <2>2. \A g \in Gens : gens[g].throwing => Misuse
    BY DEF GenInv, Contexts
  <2>3. wrapper.iterator \in Gens \cup {Other, Nil}
    BY DEF GenInv, GenShape, WrapperType
  <2> QED
    BY <2>1, <2>2, <2>3 DEF GenInv, GenShape, GenTypeOK, GensType, Hearable
<1>2. GeneratorStack
  <2>1. ASSUME NEW g \in Gens
        PROVE  (frames[g] = "running") = (\E i \in 1 .. Len(generators) : generators[i] = g)
    <3>1. frames[g] = "running" <=> \E i \in 1 .. Len(generators) : generators[i] = g
      BY DEF GenInv, Chain
    <3> QED
      BY <3>1, Zenon
  <2> QED
    BY <2>1, Zenon DEF GenInv, Chain, At, GeneratorStack
<1> QED
  BY <1>1, <1>2 DEF GenInv, Wrapped, GeneratorsExact

\* For any generators, calls and depth, misused or not: the collector's array is the
\* chain of saved callers (_ejs_gc_push_generator and _ejs_gc_pop_generator around
\* every swapcontext), a program that resumes neither a running nor a finished
\* generator never enters frames that are gone, and destructuring loses nothing.
THEOREM GeneratorsAlwaysExact == GenSpec => []GeneratorsExact
<1>1. GenSpec => []GenInv
  BY GenInitInv, GenStepInv, PTL DEF GenSpec
<1> QED
  BY <1>1, GenInvExact, PTL

----------------------------------------------------------------------------
(* The refinement.  Its stack is the array behind the main stack.             *)

\* Pushes and pops of the array are pushes and pops of the stack.
LEMMA StackFacts ==
    ASSUME NEW s \in Seq(Gens), NEW g \in Gens
    PROVE  /\ <<Main>> \o Append(s, g) = Append(<<Main>> \o s, g)
           /\ Len(<<Main>> \o s) = Len(s) + 1 /\ Len(s) \in Nat
           /\ (<<Main>> \o s)[Len(s) + 1] = IF Len(s) = 0 THEN Main ELSE s[Len(s)]
           /\ Len(s) >= 1 => <<Main>> \o SubSeq(s, 1, Len(s) - 1) = SubSeq(<<Main>> \o s, 1, Len(s))
<1> DEFINE T == Gens \cup {Main}
           m == <<Main>>
<1>1. m \in Seq(T) /\ s \in Seq(T) /\ g \in T /\ Len(m) = 1 /\ m[1] = Main /\ Len(s) \in Nat
  OBVIOUS
<1> HIDE DEF m, T
<1>2. m \o Append(s, g) = Append(m \o s, g)
  BY <1>1
<1>3. ASSUME NEW t \in Seq(T)
      PROVE  /\ m \o t \in Seq(T) /\ Len(m \o t) = Len(t) + 1
             /\ \A i \in 1 .. Len(t) + 1 : (m \o t)[i] = IF i <= 1 THEN m[i] ELSE t[i - 1]
  <2>1. /\ m \o t \in Seq(T) /\ Len(m \o t) = Len(m) + Len(t)
        /\ \A i \in 1 .. Len(m) + Len(t) : (m \o t)[i] = IF i <= Len(m) THEN m[i] ELSE t[i - Len(m)]
    BY <1>1, ConcatProperties
  <2>2. Len(t) \in Nat /\ 1 + Len(t) = Len(t) + 1
    OBVIOUS
  <2> QED
    BY <1>1, <2>1, <2>2
<1>4. (m \o s)[Len(s) + 1] = IF Len(s) = 0 THEN Main ELSE s[Len(s)]
  BY <1>1, <1>3
<1>5. ASSUME Len(s) >= 1
      PROVE  m \o SubSeq(s, 1, Len(s) - 1) = SubSeq(m \o s, 1, Len(s))
  <2> DEFINE p == SubSeq(s, 1, Len(s) - 1)
             q == SubSeq(m \o s, 1, Len(s))
  <2>1. /\ p \in Seq(T) /\ Len(p) = Len(s) - 1
        /\ \A i \in 1 .. Len(s) - 1 : p[i] = s[i]
    BY <1>1, <1>5, PopFacts DEF T
  <2>2. \A i \in 1 .. Len(s) : (m \o s)[i] \in T
    BY <1>1, <1>3
  <2>3. /\ q \in Seq(T) /\ Len(q) = IF 1 <= Len(s) THEN Len(s) - 1 + 1 ELSE 0
        /\ \A i \in 1 .. Len(s) - 1 + 1 : q[i] = (m \o s)[1 + i - 1]
    BY <1>1, <2>2, SubSeqProperties
  <2> HIDE DEF p, q
  <2>4. Len(q) = Len(s) /\ \A i \in 1 .. Len(s) : q[i] = (m \o s)[i]
    BY <1>1, <1>5, <2>3
  <2>5. /\ m \o p \in Seq(T) /\ Len(m \o p) = Len(s)
        /\ \A i \in 1 .. Len(s) : (m \o p)[i] = IF i <= 1 THEN m[i] ELSE p[i - 1]
    BY <1>1, <1>3, <2>1
  <2>6. ASSUME NEW i \in 1 .. Len(s)
        PROVE  (m \o p)[i] = q[i]
    <3>1. (m \o s)[i] = IF i <= 1 THEN m[i] ELSE s[i - 1]
      BY <1>1, <1>3
    <3>2. i > 1 => p[i - 1] = s[i - 1]
      BY <1>1, <2>1
    <3> QED
      BY <3>1, <3>2, <2>4, <2>5, <1>1
  <2>7. m \o p = q
    BY <2>3, <2>4, <2>5, <2>6, SeqEqual
  <2> QED
    BY <2>7 DEF p, q
<1> QED
  BY <1>1, <1>2, <1>3, <1>4, <1>5 DEF m

\* The routine on top of the stack is the one that runs.
LEMMA TopIsCur ==
    ASSUME GenInv
    PROVE  Abstract!Top = cur /\ Len(generators) \in Nat /\ Len(<<Main>> \o generators) = Len(generators) + 1
<1>1. generators \in Seq(Gens)
  BY DEF GenInv, GenShape
<1>2. CASE Len(generators) = 0
  <2>1. generators = <<>>
    BY <1>1, <1>2
  <2> QED
    BY <2>1 DEF GenInv, Chain, At, Abstract!Top
<1>3. CASE Len(generators) # 0
  <2>1. generators[Len(generators)] \in Gens
    BY <1>1, <1>3
  <2>2. /\ Len(<<Main>> \o generators) = Len(generators) + 1 /\ Len(generators) \in Nat
        /\ (<<Main>> \o generators)[Len(generators) + 1] = generators[Len(generators)]
    BY <1>1, <1>3, <2>1, StackFacts
  <2> QED
    BY <1>3, <2>2 DEF GenInv, Chain, At, Abstract!Top
<1> QED
  BY <1>2, <1>3

\* A switch into a generator calls the routine: a fresh one hears nothing, and one
\* that waits in a yield hears what was said.
LEMMA SwitchToCalls ==
    ASSUME GenInv, NEW g \in Gens, NEW arg \in Words, NEW kind \in {"send", "throw"}, NEW flag \in BOOLEAN,
           SwitchTo(g, arg, flag, kind), CanResume(g),
           frames[g] = "suspended" => (flag <=> kind = "throw")
    PROVE  Abstract!Call(g, kind, arg)
<1>1. /\ frames[g] \in {"fresh", "suspended"} /\ generators' = Append(generators, g)
      /\ frames' = [frames EXCEPT ![g] = "running"]
      /\ said' = [kind |-> kind, word |-> arg]
      /\ \/ gens[g].context = "start" /\ Begin(g, arg, flag)
         \/ gens[g].context = "yield" /\ Awake(g, arg, flag)
  BY DEF SwitchTo, CanResume, _ejs_gc_push_generator
<1>2. <<Main>> \o generators' = Append(<<Main>> \o generators, g)
  BY <1>1, StackFacts DEF GenInv, GenShape
<1>3. heard' = IF frames[g] = "fresh" THEN Silent ELSE said'
  <2>1. CASE frames[g] = "fresh"
    BY <2>1, <1>1 DEF GenInv, Contexts, Begin
  <2>2. CASE frames[g] = "suspended"
    BY <2>2, <1>1 DEF GenInv, Contexts, Awake
  <2> QED
    BY <1>1, <2>1, <2>2
<1> QED
  BY <1>1, <1>2, <1>3 DEF Abstract!Call, Abstract!Silence, Silent

\* A yield or an end pops the routine that runs.
LEMMA SwitchBackPops ==
    ASSUME GenInv, cur \in Gens, _ejs_gc_pop_generator
    PROVE  /\ Abstract!Top = cur /\ cur # Main
           /\ <<Main>> \o generators' = Abstract!Below
<1>1. generators \in Seq(Gens) /\ Len(generators) >= 1 /\ Len(generators) \in Nat
  BY RunningIsLast DEF GenInv, GenShape
<1>2. Len(<<Main>> \o generators) - 1 = Len(generators)
  BY <1>1, TopIsCur
<1>3. <<Main>> \o SubSeq(generators, 1, Len(generators) - 1) = SubSeq(<<Main>> \o generators, 1, Len(generators))
  BY <1>1, StackFacts
<1> QED
  BY <1>2, <1>3, TopIsCur, GenAssumption DEF _ejs_gc_pop_generator, Abstract!Below

\* Every step of a program that misuses no generator is a step of the coroutines.
LEMMA StepIsCoroutineStep ==
    ASSUME ~Misuse, GenInv, [GenNext]_gvars
    PROVE  [Abstract!Next]_(Abstract!cvars)
<1>1. ASSUME NEW g \in Gens, _ejs_generator_new(g)
      PROVE  Abstract!Create(g)
  BY <1>1 DEF _ejs_generator_new, Abstract!Create
<1>2. ASSUME NEW g \in Gens, NEW v \in Words, _ejs_Generator_prototype_next(g, v)
      PROVE  Abstract!Call(g, "send", v)
  <2>1. gens[g].throwing \in BOOLEAN /\ ~gens[g].throwing
    BY DEF GenInv, GenShape, GensType, Contexts
  <2> QED
    BY <1>2, <2>1, SwitchToCalls DEF _ejs_Generator_prototype_next, MayCall, _ejs_generator_send
<1>3. ASSUME NEW g \in Gens, NEW v \in Words, _ejs_Generator_prototype_throw(g, v)
      PROVE  Abstract!Call(g, "throw", v)
  BY <1>3, SwitchToCalls DEF _ejs_Generator_prototype_throw, MayCall, _ejs_generator_throw
<1>4. ASSUME NEW v \in Words, _ejs_generator_yield(v)
      PROVE  Abstract!Yield(v)
  BY <1>4, SwitchBackPops DEF _ejs_generator_yield, SwitchBack, _ejs_create_iter_result, Abstract!Yield
<1>5. CASE _ejs_generator_start
  <2>1. Abstract!End
    BY <1>5, SwitchBackPops DEF _ejs_generator_start, SwitchBack, TheEnd, _ejs_create_iter_result, Abstract!End
  <2> QED
    BY <2>1 DEF Abstract!Next
<1>6. CASE Abort \/ UNCHANGED gvars \/ \E it \in Gens \cup {Other} : _ejs_iterator_wrapper_new(it)
  BY <1>6 DEF Abort, gvars, _ejs_iterator_wrapper_new, Abstract!cvars
<1>7. ASSUME cur = Main, getNextValue
      PROVE  [Abstract!Next]_(Abstract!cvars)
  <2>1. CASE UNCHANGED <<generators, frames, heard, said>>
    BY <2>1 DEF Abstract!cvars
  <2>2. CASE /\ ~wrapper.done /\ wrapper.iterator \in Gens
             /\ _ejs_generator_send(wrapper.iterator, undefined)
    <3> DEFINE g == wrapper.iterator
    <3>1. gens[g].throwing \in BOOLEAN /\ ~gens[g].throwing
      BY <2>2 DEF GenInv, GenShape, GensType, Contexts
    <3>2. CanResume(g) /\ undefined \in Words
      BY <1>7, <2>2, WrappedCanResume DEF Words
    <3>3. Abstract!Call(g, "send", undefined)
      BY <2>2, <3>1, <3>2, SwitchToCalls DEF _ejs_generator_send
    <3> QED
      BY <2>2, <3>2, <3>3 DEF Abstract!Next
  <2> QED
    BY <1>7, <2>1, <2>2 DEF getNextValue, OtherNext
<1>8. CASE _ejs_IteratorWrapper_prototype_getNextValue
  BY <1>7, <1>8 DEF _ejs_IteratorWrapper_prototype_getNextValue
<1>9. CASE _ejs_IteratorWrapper_prototype_getRest
  <2>1. CASE \E b \in BOOLEAN : Resting(b)
    BY <2>1 DEF Resting, Abstract!cvars
  <2> QED
    BY <1>7, <1>9, <2>1 DEF _ejs_IteratorWrapper_prototype_getRest
<1>10. CASE GenNext
  BY <1>10, <1>1, <1>2, <1>3, <1>4, <1>5, <1>6, <1>8, <1>9
  DEF GenNext, Uncaught, _ejs_Generator_prototype_return, Abstract!Next
<1> QED
  BY <1>6, <1>10

\* The context switches, the four fields and the throwing flag (_ejs_generator_send,
\* _ejs_generator_throw, _ejs_generator_yield) implement coroutines, for programs
\* that resume neither a running nor a finished generator and throw into no new one.
THEOREM GeneratorsAreCoroutines ==
    ASSUME ~Misuse
    PROVE  GenSpec => ImplementsCoroutines
<1>1. GenInit => Abstract!Init
  <2>1. <<Main>> \o <<>> = <<Main>>
    OBVIOUS
  <2> QED
    BY <2>1 DEF GenInit, Abstract!Init, Abstract!Silence, Silent
<1>2. GenSpec => []GenInv
  BY GenInitInv, GenStepInv, PTL DEF GenSpec
<1>3. GenInv /\ [GenNext]_gvars => [Abstract!Next]_(Abstract!cvars)
  BY StepIsCoroutineStep
<1> QED
  BY <1>1, <1>2, <1>3, PTL DEF GenSpec, ImplementsCoroutines, Abstract!Spec

-----------------------------------------------------------------------------
(* Weak collections answer as if they held their entries, and give out no     *)
(* value that was freed.                                                      *)

Entries == [Colls -> [Objs -> Objs \cup {Absent}]]

WeakShape ==
  /\ proto \in [Objs -> Objs \cup {Null}] /\ owns \in [{"map", "set"} -> SUBSET Objs]
  /\ idata \in Entries /\ asked \in Entries
  /\ held \subseteq alive /\ alive \subseteq Objs \cup Colls /\ filling \in Colls \cup {Null}

\* An entry is kept by its key: in a Map the key owns, for as long as it lives.
KeyKeeps == \A c \in Colls, o \in Objs : idata[c][o] # Absent => o \in owns[kindOf(c)] /\ o \in alive

\* Whatever a live object refers to is alive.
AliveClosed ==
  \A o \in alive \cap Objs :
    /\ proto[o] # Null => proto[o] \in alive
    /\ \A c \in Colls : idata[c][o] # Absent => c \in alive /\ idata[c][o] \in alive

\* Nothing is left of a collection that was freed.
DeadAreEmpty == \A c \in Colls \ alive, o \in Objs : asked[c][o] = Absent /\ idata[c][o] = Absent

\* A key outside all prototype chains keeps in its own Map what was put in, unless
\* the program deletes and the stub keeps what was to go.
Ordinary(o) == Alone(o) /\ o \notin Frozen
OwnEntries ==
  ~WeakMapDeletes => \A c \in Colls, o \in alive \cap Objs : Ordinary(o) => asked[c][o] = idata[c][o]

\* The inductive invariant.
WeakInv == WeakShape /\ KeyKeeps /\ AliveClosed /\ DeadAreEmpty /\ OwnEntries

\* The search for the hidden property stays in every set that contains the key
\* and the prototypes of its members.
LEMMA SearchStays ==
    ASSUME WeakShape, NEW k \in {"map", "set"}, NEW key \in Objs, NEW S \in SUBSET Objs,
           key \in S, \A y \in S : proto[y] # Null => proto[y] \in S
    PROVE  Searched(k, key) \subseteq S
BY DEF Searched

\* What the search finds: an owner, alive as the key is, and either the key or a
\* prototype; a key without a prototype finds only what it owns itself.
LEMMA SearchFinds ==
    ASSUME WeakShape, AliveClosed, NEW k \in {"map", "set"}, NEW key \in alive \cap Objs
    PROVE  /\ getprop(k, key) # Null =>
                /\ getprop(k, key) \in owns[k] /\ getprop(k, key) \in alive \cap Objs
                /\ getprop(k, key) = key \/ \E x \in Objs : proto[x] = getprop(k, key)
           /\ getprop(k, key) \in Objs \cup {Null}
           /\ proto[key] = Null => getprop(k, key) = IF key \in owns[k] THEN key ELSE Null
<1> DEFINE found == Searched(k, key) \cap owns[k]
           P == {key} \cup {x \in Objs : \E y \in Objs : proto[y] = x}
<1>1. owns[k] \subseteq Objs /\ proto \in [Objs -> Objs \cup {Null}] /\ Null \notin Objs
  BY WeakAssumption DEF WeakShape
<1>2. Searched(k, key) \subseteq alive \cap Objs
  <2>1. \A y \in alive \cap Objs : proto[y] # Null => proto[y] \in alive \cap Objs
    BY <1>1 DEF AliveClosed
  <2> QED
    BY <2>1, SearchStays
<1>3. Searched(k, key) \subseteq P
  <2>1. P \in SUBSET Objs /\ key \in P /\ \A y \in P : proto[y] # Null => proto[y] \in P
    BY <1>1
  <2> QED
    BY <2>1, SearchStays
<1>4. getprop(k, key) = IF found = {} THEN Null ELSE CHOOSE o \in found : TRUE
  BY DEF getprop
<1>5. getprop(k, key) # Null => getprop(k, key) \in found
  BY <1>4
<1>6. found # {} => getprop(k, key) \in found
  BY <1>4
<1>7. ASSUME proto[key] = Null
      PROVE  getprop(k, key) = IF key \in owns[k] THEN key ELSE Null
  <2>1. Searched(k, key) \subseteq {key}
    <3>1. {key} \in SUBSET Objs /\ \A y \in {key} : proto[y] # Null => proto[y] \in {key}
      BY <1>7
    <3> QED
      BY <3>1, SearchStays
  <2>2. key \in Searched(k, key)
    BY DEF Searched
  <2> HIDE DEF found
  <2>3. found = {key} \cap owns[k]
    BY <2>1, <2>2 DEF found
  <2>4. CASE key \in owns[k]
    BY <1>6, <2>3, <2>4
  <2>5. CASE key \notin owns[k]
    BY <1>4, <2>3, <2>5
  <2> QED
    BY <2>4, <2>5
<1> HIDE DEF P
<1>8. ASSUME getprop(k, key) # Null
      PROVE  /\ getprop(k, key) \in owns[k] /\ getprop(k, key) \in alive \cap Objs
             /\ getprop(k, key) = key \/ \E x \in Objs : proto[x] = getprop(k, key)
  BY <1>2, <1>3, <1>5, <1>8 DEF P
<1> QED
  BY <1>7, <1>8

\* From d to e one entry of one collection changes.
Written(d, e, c, o, v) ==
  /\ e \in Entries /\ e[c][o] = v
  /\ \A b \in Colls, x \in Objs : b # c \/ x # o => e[b][x] = d[b][x]

LEMMA SetEntry ==
    ASSUME NEW d \in Entries, NEW c \in Colls, NEW o \in Objs, NEW v \in Objs \cup {Absent},
           NEW e, e = [d EXCEPT ![c][o] = v]
    PROVE  Written(d, e, c, o, v)
BY DEF Entries, Written

-----------------------------------------------------------------------------
(* Changing entries.                                                       *)

\* The entry for key of c is written at the object o, where the key's data was
\* found or made; v is what the program asked for.
LEMMA WrittenAt ==
    ASSUME WeakInv, NEW c \in Colls, c \in alive, NEW key \in alive \cap Objs,
           NEW o \in alive \cap Objs, NEW v \in (alive \cap Objs) \cup {Absent},
           o = key \/ \E x \in Objs : proto[x] = o,
           Ordinary(key) => o = key,
           Written(idata, idata', c, o, v), Written(asked, asked', c, key, v),
           owns' \in [{"map", "set"} -> SUBSET Objs],
           \A k \in {"map", "set"} : owns[k] \subseteq owns'[k],
           o \in owns'[kindOf(c)],
           UNCHANGED <<proto, alive, held, filling>>
    PROVE  WeakInv'
<1>1. WeakShape /\ KeyKeeps /\ AliveClosed /\ DeadAreEmpty /\ OwnEntries /\ idata \in Entries /\ asked \in Entries
  BY DEF WeakInv, WeakShape
<1>2. /\ idata' \in Entries /\ idata'[c][o] = v
      /\ \A b \in Colls, x \in Objs : b # c \/ x # o => idata'[b][x] = idata[b][x]
  BY DEF Written
<1>3. /\ asked' \in Entries /\ asked'[c][key] = v
      /\ \A b \in Colls, x \in Objs : b # c \/ x # key => asked'[b][x] = asked[b][x]
  BY DEF Written
<1>4. WeakShape'
  BY <1>1, <1>2, <1>3 DEF WeakShape
<1>5. KeyKeeps'
  <2> SUFFICES ASSUME NEW b \in Colls, NEW x \in Objs, idata'[b][x] # Absent
               PROVE  x \in owns'[kindOf(b)] /\ x \in alive
    BY DEF KeyKeeps, kindOf
  <2>1. CASE b = c /\ x = o
    BY <2>1
  <2>2. CASE b # c \/ x # o
    <3>1. x \in owns[kindOf(b)] /\ x \in alive
      BY <1>1, <1>2, <2>2 DEF KeyKeeps
    <3>2. kindOf(b) \in {"map", "set"}
      BY DEF kindOf
    <3> QED
      BY <3>1, <3>2
  <2> QED
    BY <2>1, <2>2
<1>6. AliveClosed'
  BY <1>1, <1>2 DEF AliveClosed
<1>7. DeadAreEmpty'
  BY <1>1, <1>2, <1>3 DEF DeadAreEmpty
<1>8. OwnEntries'
  <2> SUFFICES ASSUME ~WeakMapDeletes, NEW b \in Colls, NEW x \in alive \cap Objs, Ordinary(x)
               PROVE  asked'[b][x] = idata'[b][x]
    BY DEF OwnEntries, Ordinary, Alone
  <2>1. CASE x = key
    <3>1. o = key
      BY <2>1
    <3> QED
      BY <1>1, <1>2, <1>3, <2>1, <3>1 DEF OwnEntries
  <2>2. CASE x # key
    <3>1. x # o
      BY <2>2 DEF Ordinary, Alone
    <3> QED
      BY <1>1, <1>2, <1>3, <2>2, <3>1 DEF OwnEntries
  <2> QED
    BY <2>1, <2>2
<1> QED
  BY <1>4, <1>5, <1>6, <1>7, <1>8 DEF WeakInv

\* The call changes what was asked for and nothing else: the key has no data, and
\* either it takes none or there is nothing to delete.
LEMMA NothingWritten ==
    ASSUME WeakInv, NEW c \in Colls, c \in alive, NEW key \in alive \cap Objs,
           NEW v \in Objs \cup {Absent},
           ~WeakMapDeletes /\ Ordinary(key) => v = idata[c][key],
           Written(asked, asked', c, key, v),
           UNCHANGED <<proto, idata, owns, alive, held, filling>>
    PROVE  WeakInv'
<1>1. WeakShape /\ KeyKeeps /\ AliveClosed /\ DeadAreEmpty /\ OwnEntries /\ asked \in Entries
  BY DEF WeakInv, WeakShape
<1>2. /\ asked' \in Entries /\ asked'[c][key] = v
      /\ \A b \in Colls, x \in Objs : b # c \/ x # key => asked'[b][x] = asked[b][x]
  BY DEF Written
<1>3. WeakShape' /\ KeyKeeps' /\ AliveClosed'
  BY <1>1, <1>2 DEF WeakShape, KeyKeeps, AliveClosed, kindOf
<1>4. DeadAreEmpty'
  BY <1>1, <1>2 DEF DeadAreEmpty
<1>5. OwnEntries'
  <2> SUFFICES ASSUME ~WeakMapDeletes, NEW b \in Colls, NEW x \in alive \cap Objs, Ordinary(x)
               PROVE  asked'[b][x] = idata[b][x]
    BY DEF OwnEntries, Ordinary, Alone
  <2> QED
    BY <1>1, <1>2 DEF OwnEntries
<1> QED
  BY <1>3, <1>4, <1>5 DEF WeakInv

LEMMA PutStep ==
    ASSUME WeakInv, NEW c \in Colls, NEW key \in Objs, NEW v \in Objs, {c, key, v} \subseteq held,
           put(c, key, v), asked' = [asked EXCEPT ![c][key] = v],
           UNCHANGED <<proto, alive, held, filling>>
    PROVE  WeakInv'
<1> DEFINE k == kindOf(c)
           o == getprop(k, key)
<1>1. WeakShape /\ AliveClosed /\ k \in {"map", "set"} /\ {c, key, v} \subseteq alive
  BY DEF WeakInv, WeakShape, kindOf
<1>2. /\ o # Null => /\ o \in owns[k] /\ o \in alive \cap Objs
                     /\ o = key \/ \E x \in Objs : proto[x] = o
      /\ proto[key] = Null => o = IF key \in owns[k] THEN key ELSE Null
  BY <1>1, SearchFinds
<1>3. owns \in [{"map", "set"} -> SUBSET Objs]
  BY <1>1 DEF WeakShape
<1>4. \/ o # Null /\ idata' = [idata EXCEPT ![c][o] = v] /\ UNCHANGED owns
      \/ /\ o = Null /\ key \notin Frozen /\ owns' = [owns EXCEPT ![k] = @ \cup {key}]
         /\ idata' = [idata EXCEPT ![c][key] = v]
      \/ o = Null /\ key \in Frozen /\ UNCHANGED <<idata, owns>>
  BY DEF put
<1>5. Ordinary(key) => proto[key] = Null /\ key \notin Frozen
  BY DEF Ordinary, Alone
<1>9. idata \in Entries /\ asked \in Entries
  BY <1>1 DEF WeakShape
<1>10. Written(asked, asked', c, key, v)
  BY <1>9, SetEntry
<1> HIDE DEF o
<1>6. CASE o # Null /\ idata' = [idata EXCEPT ![c][o] = v] /\ UNCHANGED owns
  <2>1. Ordinary(key) => o = key
    BY <1>2, <1>5, <1>6
  <2>2. o \in owns'[kindOf(c)] /\ o \in alive \cap Objs /\ (o = key \/ \E x \in Objs : proto[x] = o)
    BY <1>2, <1>6
  <2>3. v \in (alive \cap Objs) \cup {Absent} /\ c \in alive /\ key \in alive \cap Objs
    BY <1>1
  <2>4. owns' \in [{"map", "set"} -> SUBSET Objs] /\ \A l \in {"map", "set"} : owns[l] \subseteq owns'[l]
    BY <1>3, <1>6
  <2>5. Written(idata, idata', c, o, v)
    BY <1>6, <1>9, <2>2, SetEntry
  <2> HIDE DEF k
  <2> QED
    BY <1>10, <2>1, <2>2, <2>3, <2>4, <2>5, WrittenAt
<1>7. CASE /\ o = Null /\ key \notin Frozen /\ owns' = [owns EXCEPT ![k] = @ \cup {key}]
           /\ idata' = [idata EXCEPT ![c][key] = v]
  <2>1. v \in (alive \cap Objs) \cup {Absent} /\ c \in alive /\ key \in alive \cap Objs
    BY <1>1
  <2> HIDE DEF k
  <2>2. /\ owns' \in [{"map", "set"} -> SUBSET Objs]
        /\ \A l \in {"map", "set"} : owns[l] \subseteq owns'[l]
        /\ key \in owns'[k]
    BY <1>1, <1>3, <1>7, <2>1
  <2>3. Written(idata, idata', c, key, v)
    BY <1>7, <1>9, SetEntry
  <2> QED
    BY <1>10, <2>1, <2>2, <2>3, WrittenAt DEF k
<1>8. CASE o = Null /\ key \in Frozen /\ UNCHANGED <<idata, owns>>
  BY <1>1, <1>5, <1>8, <1>10, NothingWritten
<1> QED
  BY <1>4, <1>6, <1>7, <1>8

LEMMA RemoveStep ==
    ASSUME WeakInv, NEW c \in WeakSets, NEW key \in Objs, {c, key} \subseteq held,
           remove(c, key), asked' = [asked EXCEPT ![c][key] = Absent],
           UNCHANGED <<proto, alive, held, filling>>
    PROVE  WeakInv'
<1> DEFINE k == kindOf(c)
           o == getprop("set", key)
<1>0. k = "set" /\ c \in Colls
  BY WeakAssumption DEF kindOf, Colls
<1>1. WeakShape /\ AliveClosed /\ KeyKeeps /\ k \in {"map", "set"} /\ {c, key} \subseteq alive
  BY <1>0 DEF WeakInv, WeakShape
<1>2. /\ o # Null => /\ o \in owns[k] /\ o \in alive \cap Objs
                     /\ o = key \/ \E x \in Objs : proto[x] = o
      /\ proto[key] = Null => o = IF key \in owns[k] THEN key ELSE Null
  BY <1>0, <1>1, SearchFinds
<1>3. owns \in [{"map", "set"} -> SUBSET Objs] /\ UNCHANGED owns
  BY <1>1 DEF WeakShape, remove
<1>4. idata' = IF o = Null THEN idata ELSE [idata EXCEPT ![c][o] = Absent]
  BY DEF remove
<1>5. Ordinary(key) => proto[key] = Null
  BY DEF Ordinary, Alone
<1>8. idata \in Entries /\ asked \in Entries
  BY <1>1 DEF WeakShape
<1>9. Written(asked, asked', c, key, Absent)
  BY <1>0, <1>8, SetEntry
<1> HIDE DEF o
<1>6. CASE o # Null
  <2>1. Ordinary(key) => o = key
    BY <1>2, <1>5, <1>6
  <2>2. o \in owns'[kindOf(c)] /\ o \in alive \cap Objs /\ (o = key \/ \E x \in Objs : proto[x] = o)
    BY <1>0, <1>2, <1>3, <1>6
  <2>5. idata' = [idata EXCEPT ![c][o] = Absent]
    BY <1>4, <1>6
  <2>3. Written(idata, idata', c, o, Absent)
    BY <1>0, <1>8, <2>2, <2>5, SetEntry
  <2>4. Absent \in (alive \cap Objs) \cup {Absent} /\ c \in alive /\ key \in alive \cap Objs
    BY <1>1
  <2> HIDE DEF k
  <2> QED
    BY <1>0, <1>3, <1>9, <2>1, <2>2, <2>3, <2>4, WrittenAt
<1>7. CASE o = Null
  <2>1. Ordinary(key) => Absent = idata[c][key]
    <3>1. Ordinary(key) => key \notin owns[k]
      BY <1>2, <1>5, <1>7, WeakAssumption
    <3> QED
      BY <1>0, <1>1, <3>1 DEF KeyKeeps
  <2>2. UNCHANGED idata
    BY <1>4, <1>7
  <2> QED
    BY <1>0, <1>1, <1>3, <1>9, <2>1, <2>2, NothingWritten
<1> QED
  BY <1>6, <1>7

\* The stub changes nothing, so what was asked for is lost unless there is no entry.
LEMMA MapDeleteStep ==
    ASSUME WeakInv, NEW m, NEW key \in Objs, _ejs_WeakMap_prototype_delete(m, key)
    PROVE  WeakInv'
<1>1. /\ m \in Colls /\ kindOf(m) = "map" /\ m \in alive /\ key \in alive \cap Objs
      /\ asked' = [asked EXCEPT ![m][key] = Absent]
      /\ UNCHANGED <<proto, idata, owns, alive, held, filling>>
  BY DEF _ejs_WeakMap_prototype_delete, Colls, kindOf, WeakInv, WeakShape
<1>2. WeakShape /\ KeyKeeps /\ AliveClosed /\ asked \in Entries
  BY DEF WeakInv, WeakShape
<1>3. Written(asked, asked', m, key, Absent)
  BY <1>1, <1>2, SetEntry
<1>4. ASSUME ~WeakMapDeletes, Ordinary(key) PROVE Absent = idata[m][key]
  <2>1. getprop("map", key) = IF key \in owns["map"] THEN key ELSE Null
    BY <1>1, <1>2, <1>4, SearchFinds DEF Ordinary, Alone
  <2>2. key \notin owns["map"] => idata[m][key] = Absent
    BY <1>1, <1>2 DEF KeyKeeps
  <2>3. _ejs_WeakMap_prototype_get(m, key) = Absent
    BY <1>4 DEF _ejs_WeakMap_prototype_delete, _ejs_WeakMap_prototype_has
  <2>4. key \in owns["map"] => idata[m][key] = Absent
    BY <2>1, <2>3, WeakAssumption DEF _ejs_WeakMap_prototype_get
  <2> QED
    BY <2>2, <2>4
<1> QED
  BY <1>1, <1>3, <1>4, NothingWritten

-----------------------------------------------------------------------------
(* The other steps.                                                        *)

LEMMA MadeStep ==
    ASSUME WeakInv, NEW c \in Colls, Made(c), filling' \in {Null, c},
           UNCHANGED <<proto, idata, owns, asked>>
    PROVE  WeakInv'
<1>1. WeakShape /\ KeyKeeps /\ AliveClosed /\ DeadAreEmpty /\ OwnEntries
  BY DEF WeakInv
<1>2. c \notin alive /\ alive' = alive \cup {c} /\ held' = held \cup {c}
  BY DEF Made
<1>3. c \notin Objs
  BY WeakAssumption DEF Colls
<1>4. WeakShape' /\ KeyKeeps'
  BY <1>1, <1>2 DEF WeakShape, KeyKeeps, kindOf
<1>5. AliveClosed' /\ DeadAreEmpty'
  BY <1>1, <1>2, <1>3 DEF AliveClosed, DeadAreEmpty
<1>6. OwnEntries'
  BY <1>1, <1>2, <1>3 DEF OwnEntries, Ordinary, Alone
<1> QED
  BY <1>4, <1>5, <1>6 DEF WeakInv

LEMMA HeldShrinks ==
    ASSUME WeakInv, held' \subseteq held, filling' \in {filling, Null},
           UNCHANGED <<proto, idata, owns, asked, alive>>
    PROVE  WeakInv'
<1>1. WeakShape'
  BY DEF WeakInv, WeakShape
<1>2. KeyKeeps' /\ AliveClosed' /\ DeadAreEmpty' /\ OwnEntries'
  BY DEF WeakInv, KeyKeeps, kindOf, AliveClosed, DeadAreEmpty, OwnEntries, Ordinary, Alone
<1> QED
  BY <1>1, <1>2 DEF WeakInv

\* What the scans reach from the program's variables was alive, and whatever it
\* refers to is reached as well.
LEMMA ReachedLemma ==
    ASSUME WeakShape, AliveClosed
    PROVE  /\ held \subseteq Reached(held) /\ Reached(held) \subseteq alive
           /\ \A o \in Reached(held) \cap Objs :
                /\ proto[o] # Null => proto[o] \in Reached(held)
                /\ \A c \in Colls : idata[c][o] # Absent =>
                       c \in Reached(held) /\ idata[c][o] \in Reached(held)
<1>1. /\ proto \in [Objs -> Objs \cup {Null}] /\ idata \in [Colls -> [Objs -> Objs \cup {Absent}]]
      /\ held \subseteq alive /\ alive \subseteq Objs \cup Colls
  BY DEF WeakShape, Entries
<1>2. \A o \in Objs : Scanned(o) \subseteq Objs \cup Colls
  BY <1>1 DEF Scanned
<1>3. ASSUME NEW o \in alive \cap Objs PROVE Scanned(o) \subseteq alive
  BY <1>1 DEF Scanned, AliveClosed
<1>4. held \subseteq Reached(held)
  BY <1>1 DEF Reached
<1>5. Reached(held) \subseteq alive
  BY <1>1, <1>3 DEF Reached
<1>6. ASSUME NEW o \in Reached(held) \cap Objs PROVE Scanned(o) \subseteq Reached(held)
  <2> SUFFICES ASSUME NEW x \in Scanned(o), NEW S \in SUBSET (Objs \cup Colls),
                      held \subseteq S, \A y \in S \cap Objs : Scanned(y) \subseteq S
               PROVE  x \in S
    BY <1>2 DEF Reached
  <2>1. o \in S
    BY DEF Reached
  <2> QED
    BY <2>1
<1>7. ASSUME NEW o \in Objs
      PROVE  /\ proto[o] # Null => proto[o] \in Scanned(o)
             /\ \A c \in Colls : idata[c][o] # Absent => c \in Scanned(o) /\ idata[c][o] \in Scanned(o)
  <2>1. proto[o] # Null => proto[o] \in Scanned(o)
    BY DEF Scanned
  <2>2. ASSUME NEW c \in Colls, idata[c][o] # Absent
        PROVE  c \in Scanned(o) /\ idata[c][o] \in Scanned(o)
    <3>1. {c, idata[c][o]} \in {{b, idata[b][o]} : b \in {b \in Colls : idata[b][o] # Absent}}
      BY <2>2
    <3>2. {c, idata[c][o]} \subseteq UNION {{b, idata[b][o]} : b \in {b \in Colls : idata[b][o] # Absent}}
      BY <3>1
    <3> QED
      BY <3>2 DEF Scanned
  <2> QED
    BY <2>1, <2>2
<1> QED
  BY <1>4, <1>5, <1>6, <1>7

\* A collection frees neither what the program can reach nor what it could get
\* out of a weak map it can reach, and leaves nothing of what it frees.
LEMMA CollectStep ==
    ASSUME WeakInv, CollectGarbage
    PROVE  WeakInv'
<1> DEFINE R == Reached(held)
<1>1. WeakShape /\ KeyKeeps /\ AliveClosed /\ DeadAreEmpty /\ OwnEntries
  BY DEF WeakInv
<1>2. /\ held \subseteq R /\ R \subseteq alive
      /\ \A o \in R \cap Objs :
           /\ proto[o] # Null => proto[o] \in R
           /\ \A c \in Colls : idata[c][o] # Absent => c \in R /\ idata[c][o] \in R
  BY <1>1, ReachedLemma
<1>3. alive' = R
  BY <1>2 DEF CollectGarbage
<1> HIDE DEF R
<1>4. /\ owns' = [k \in {"map", "set"} |-> owns[k] \cap R]
      /\ idata' = [c \in Colls |-> [o \in Objs |-> IF o \in R THEN idata[c][o] ELSE Absent]]
      /\ asked' = [c \in Colls |-> [o \in Objs |-> IF o \in R /\ c \in R THEN asked[c][o] ELSE Absent]]
      /\ UNCHANGED <<proto, held, filling>>
  BY <1>3 DEF CollectGarbage
<1>5. /\ idata \in [Colls -> [Objs -> Objs \cup {Absent}]]
      /\ asked \in [Colls -> [Objs -> Objs \cup {Absent}]]
      /\ owns \in [{"map", "set"} -> SUBSET Objs]
  BY <1>1 DEF WeakShape, Entries
<1>6. \A c \in Colls, o \in Objs :
          /\ idata'[c][o] = IF o \in R THEN idata[c][o] ELSE Absent
          /\ asked'[c][o] = IF o \in R /\ c \in R THEN asked[c][o] ELSE Absent
  BY <1>4
<1>7. WeakShape'
  <2>1. idata' \in Entries /\ asked' \in Entries
    BY <1>4, <1>5 DEF Entries
  <2>2. owns' \in [{"map", "set"} -> SUBSET Objs]
    BY <1>4, <1>5
  <2> QED
    BY <1>1, <1>2, <1>3, <1>4, <2>1, <2>2 DEF WeakShape
<1>8. KeyKeeps'
  <2> SUFFICES ASSUME NEW c \in Colls, NEW o \in Objs, idata'[c][o] # Absent
               PROVE  o \in owns'[kindOf(c)] /\ o \in R
    BY <1>3 DEF KeyKeeps, kindOf
  <2>1. o \in R /\ idata[c][o] # Absent
    BY <1>6
  <2>2. o \in owns[kindOf(c)] /\ kindOf(c) \in {"map", "set"}
    BY <1>1, <2>1 DEF KeyKeeps, kindOf
  <2> QED
    BY <1>4, <2>1, <2>2
<1>9. AliveClosed'
  BY <1>2, <1>3, <1>4, <1>6 DEF AliveClosed
<1>10. DeadAreEmpty'
  <2> SUFFICES ASSUME NEW c \in Colls \ R, NEW o \in Objs
               PROVE  asked'[c][o] = Absent /\ idata'[c][o] = Absent
    BY <1>3 DEF DeadAreEmpty
  <2> QED
    BY <1>2, <1>6
<1>11. OwnEntries'
  <2> SUFFICES ASSUME ~WeakMapDeletes, NEW c \in Colls, NEW o \in R \cap Objs, Ordinary(o)
               PROVE  asked'[c][o] = idata'[c][o]
    BY <1>3, <1>4 DEF OwnEntries, Ordinary, Alone
  <2>1. asked[c][o] = idata[c][o]
    BY <1>1, <1>2 DEF OwnEntries
  <2> QED
    BY <1>2, <1>6, <2>1
<1> QED
  BY <1>7, <1>8, <1>9, <1>10, <1>11 DEF WeakInv

LEMMA WeakInitInv == WeakInit => WeakInv
<1> SUFFICES ASSUME WeakInit PROVE WeakInv
  OBVIOUS
<1>1. \A c \in Colls, o \in Objs : idata[c][o] = Absent /\ asked[c][o] = Absent
  BY DEF WeakInit, Empty
<1>2. idata \in Entries /\ asked \in Entries
  BY DEF WeakInit, Empty, Entries
<1>3. WeakShape
  BY <1>2, WeakAssumption DEF WeakInit, WeakShape
<1>4. AliveClosed
  BY <1>1, <1>3 DEF AliveClosed, WeakInit, WeakShape
<1> QED
  BY <1>1, <1>3, <1>4 DEF WeakInv, KeyKeeps, DeadAreEmpty, OwnEntries

LEMMA WeakStep == WeakInv /\ [WeakNext]_wvars => WeakInv'
<1> SUFFICES ASSUME WeakInv, [WeakNext]_wvars PROVE WeakInv'
  OBVIOUS
<1>1. WeakMaps \subseteq Colls /\ WeakSets \subseteq Colls
  BY DEF Colls
<1>2. ASSUME NEW m, NEW key \in Objs, NEW value \in Objs, _ejs_WeakMap_prototype_set(m, key, value)
      PROVE  WeakInv'
  BY <1>1, <1>2, PutStep DEF _ejs_WeakMap_prototype_set
<1>3. ASSUME NEW s, NEW value \in Objs, _ejs_WeakSet_prototype_add(s, value) PROVE WeakInv'
  BY <1>1, <1>3, PutStep DEF _ejs_WeakSet_prototype_add
<1>4. ASSUME NEW m, NEW key \in Objs, _ejs_WeakMap_prototype_delete(m, key) PROVE WeakInv'
  BY <1>4, MapDeleteStep
<1>5. ASSUME NEW s, NEW value \in Objs, _ejs_WeakSet_prototype_delete(s, value) PROVE WeakInv'
  BY <1>1, <1>5, RemoveStep DEF _ejs_WeakSet_prototype_delete
<1>6. ASSUME NEW c, _ejs_WeakMap_impl(c) \/ _ejs_WeakSet_impl(c) PROVE WeakInv'
  BY <1>1, <1>6, MadeStep DEF _ejs_WeakMap_impl, _ejs_WeakSet_impl
<1>7. CASE NextItem
  BY <1>2, <1>3, <1>7 DEF NextItem
<1>8. ASSUME NEW thrown, FillingEnds(thrown) PROVE WeakInv'
  BY <1>8, HeldShrinks DEF FillingEnds
<1>9. ASSUME NEW x, Drop(x) PROVE WeakInv'
  BY <1>9, HeldShrinks DEF Drop
<1>10. CASE CollectGarbage
  BY <1>10, CollectStep
<1>11. CASE UNCHANGED wvars
  BY <1>11, HeldShrinks DEF wvars
<1> QED
  BY <1>2, <1>3, <1>4, <1>5, <1>6, <1>7, <1>8, <1>9, <1>10, <1>11 DEF WeakNext

\* get, has and the liveness of values follow from the invariant.
LEMMA InvGivesAnswers ==
    WeakInv => WeakTypeOK /\ WeakValuesLive /\ (~WeakMapDeletes => WeakExact)
<1> SUFFICES ASSUME WeakInv
             PROVE  WeakTypeOK /\ WeakValuesLive /\ (~WeakMapDeletes => WeakExact)
  OBVIOUS
<1>1. WeakShape /\ KeyKeeps /\ AliveClosed /\ DeadAreEmpty /\ OwnEntries
  BY DEF WeakInv
<1>2. WeakTypeOK
  BY <1>1 DEF WeakTypeOK, WeakShape, KeyKeeps, Entries
<1>3. WeakMaps \subseteq Colls /\ WeakSets \subseteq Colls /\ held \subseteq alive
        /\ Null \notin Objs /\ WeakMaps \cap WeakSets = {}
  BY <1>1, WeakAssumption DEF Colls, WeakShape
<1>4. ASSUME ~WeakMapDeletes, NEW o \in held \cap Objs, Alone(o), o \notin Frozen, NEW c \in Colls
      PROVE  /\ getprop(kindOf(c), o) # Null => idata[c][getprop(kindOf(c), o)] = asked[c][o]
             /\ getprop(kindOf(c), o) = Null => asked[c][o] = Absent
  <2> DEFINE k == kindOf(c)
  <2>1. k \in {"map", "set"} /\ o \in alive \cap Objs /\ proto[o] = Null
    BY <1>3, <1>4 DEF kindOf, Alone
  <2>2. getprop(k, o) = IF o \in owns[k] THEN o ELSE Null
    BY <1>1, <2>1, SearchFinds
  <2>3. asked[c][o] = idata[c][o]
    BY <1>1, <1>4, <2>1 DEF OwnEntries, Ordinary
  <2>4. o \notin owns[k] => idata[c][o] = Absent
    BY <1>1 DEF KeyKeeps
  <2> QED
    BY <1>3, <2>1, <2>2, <2>3, <2>4
<1>5. ASSUME ~WeakMapDeletes PROVE WeakExact
  <2> SUFFICES ASSUME NEW o \in held \cap Objs, Alone(o), o \notin Frozen
               PROVE  /\ \A m \in held \cap WeakMaps :
                           /\ _ejs_WeakMap_prototype_get(m, o) = asked[m][o]
                           /\ _ejs_WeakMap_prototype_has(m, o) = (asked[m][o] # Absent)
                      /\ \A s \in held \cap WeakSets :
                           _ejs_WeakSet_prototype_has(s, o) = (asked[s][o] # Absent)
    BY DEF WeakExact
  <2>1. ASSUME NEW m \in held \cap WeakMaps
        PROVE  /\ _ejs_WeakMap_prototype_get(m, o) = asked[m][o]
               /\ _ejs_WeakMap_prototype_has(m, o) = (asked[m][o] # Absent)
    <3>1. kindOf(m) = "map" /\ m \in Colls
      BY <1>3 DEF kindOf
    <3>2. _ejs_WeakMap_prototype_get(m, o) = asked[m][o]
      BY <1>4, <1>5, <3>1 DEF _ejs_WeakMap_prototype_get
    <3> QED
      BY <3>2 DEF _ejs_WeakMap_prototype_has
  <2>2. ASSUME NEW s \in held \cap WeakSets
        PROVE  _ejs_WeakSet_prototype_has(s, o) = (asked[s][o] # Absent)
    <3>1. kindOf(s) = "set" /\ s \in Colls
      BY <1>3 DEF kindOf
    <3> QED
      BY <1>4, <1>5, <3>1 DEF _ejs_WeakSet_prototype_has
  <2> QED
    BY <2>1, <2>2
<1>6. WeakValuesLive
  <2> SUFFICES ASSUME NEW m \in held \cap WeakMaps, NEW o \in held \cap Objs
               PROVE  _ejs_WeakMap_prototype_get(m, o) \in alive \cup {Absent}
    BY DEF WeakValuesLive
  <2> DEFINE p == getprop("map", o)
  <2>1. p # Null => p \in alive \cap Objs
    BY <1>1, <1>3, SearchFinds
  <2>2. p # Null => idata[m][p] \in alive \cup {Absent}
    BY <1>1, <1>3, <2>1 DEF AliveClosed
  <2> QED
    BY <2>2 DEF _ejs_WeakMap_prototype_get
<1> QED
  BY <1>2, <1>5, <1>6

\* What get returns, through prototypes too, has not been freed, whatever the program
\* does: the keys keep the Maps, and these the collections and the values.
THEOREM WeakValuesAlwaysLive == WeakSpec => [](WeakTypeOK /\ WeakValuesLive)
<1>1. WeakSpec => []WeakInv
  BY WeakInitInv, WeakStep, PTL DEF WeakSpec
<1> QED
  BY <1>1, InvGivesAnswers, PTL

\* WeakMap and WeakSet answer as if they held their entries, for extensible keys
\* outside each other's prototype chains, as long as the program deletes nothing that
\* a weak map has: WeakMap.prototype.delete (ejs-weakmap.c) erases nothing.
THEOREM WeakCollectionsExact ==
    ASSUME ~WeakMapDeletes
    PROVE  WeakSpec => []WeakCollections
<1>1. WeakSpec => []WeakInv
  BY WeakInitInv, WeakStep, PTL DEF WeakSpec
<1>2. WeakInv => WeakCollections
  BY InvGivesAnswers DEF WeakCollections
<1> QED
  BY <1>1, <1>2, PTL
=============================================================================
