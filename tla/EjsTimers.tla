------------------------------ MODULE EjsTimers ------------------------------
(* setTimeout, setInterval and the clear functions (ejs-timers.c) on the libuv *)
(* run loop (ejs-runloop-libuv.c).  The loop runs one callback at a time; the  *)
(* program acts in its main script and in callbacks.  Memory of a task_timer   *)
(* is a block that malloc may hand out again once invoke_task has freed it.    *)
EXTENDS Integers, FiniteSets

CONSTANTS Timers,     \* timer values the program receives
          Blocks,     \* memory blocks of the size of a task_timer
          Delays,     \* arguments of setTimeout and setInterval after ToLength
          Nobody, NULL,
          MaxSleep,   \* bound on the time between two updates of the loop's time
          StaleClears \* the program clears one-shot timers that have fired

ASSUME TimerAssumption ==
  /\ Delays \subseteq Nat /\ MaxSleep \in Nat \ {0} /\ StaleClears \in BOOLEAN
  /\ Nobody \notin Timers /\ NULL \notin Blocks

VARIABLES block,   \* block[b]: the task_timer and its uv_timer_t, or free
          timer,   \* timer[t]: the EJSTimer's handle and what was asked for
          rooted,  \* timers whose callback and arguments are roots of the collector
          inside,  \* the block whose callback runs, or NULL
          script   \* "main", or "loop" once _ejs_runloop_start has been called

tvars == <<block, timer, rooted, inside, script>>

Free == [used |-> FALSE, task |-> Nobody, armed |-> FALSE, left |-> 0, repeat |-> 0, repeats |-> FALSE, after |-> {}]
Unset == [handle |-> NULL, set |-> FALSE, oneShot |-> FALSE, cleared |-> FALSE, fired |-> 0]

TimerInit ==
  /\ block = [b \in Blocks |-> Free]
  /\ timer = [t \in Timers |-> Unset]
  /\ rooted = {} /\ inside = NULL /\ script = "main"

ProgramActs == script = "main" \/ inside # NULL
Armed(bl) == {b \in Blocks : bl[b].armed}

----------------------------------------------------------------------------
(* The loop's timers (libuv).  uv_timer_start puts a timer behind those that  *)
(* are due at the same time; "after" holds the ones started before it.        *)

uv_timer_start(bl, b, delay, repeat) ==
  [bl EXCEPT ![b].armed = TRUE, ![b].left = delay, ![b].repeat = repeat,
             ![b].after = Armed(bl) \ {b}]

uv_timer_stop(bl, b) ==
  [c \in Blocks |-> [bl[c] EXCEPT !.armed = @ /\ c # b, !.after = @ \ {b}]]

uv_timer_again(bl, b) ==
  IF bl[b].repeat = 0 THEN bl ELSE uv_timer_start(bl, b, bl[b].repeat, bl[b].repeat)

Earliest(b) ==
  \A c \in Armed(block) \ {b} :
     block[b].left < block[c].left \/ (block[b].left = block[c].left /\ c \in block[b].after)

\* uv_run: when nothing is due the loop sleeps and brings its time up to date.
Tick(n) ==
  /\ script = "loop" /\ inside = NULL
  /\ Armed(block) # {} /\ \A b \in Armed(block) : block[b].left > 0
  /\ block' = [b \in Blocks |-> IF block[b].armed THEN [block[b] EXCEPT !.left = @ - n] ELSE block[b]]
  /\ UNCHANGED <<timer, rooted, inside, script>>

----------------------------------------------------------------------------
\* Fault: the repeat time of an interval is not passed on.
NoRepeat(b, t, timeout, repeats) ==
  uv_timer_start([block EXCEPT ![b] = [Free EXCEPT !.used = TRUE, !.task = t, !.repeats = repeats]],
                 b, IF timeout = 0 THEN 1 ELSE timeout, 0)

_ejs_runloop_add_task_timeout(b, t, timeout, repeats) ==
  LET ms == IF timeout = 0 THEN 1 ELSE timeout IN
  uv_timer_start([block EXCEPT ![b] = [Free EXCEPT !.used = TRUE, !.task = t, !.repeats = repeats]],
                 b, ms, IF repeats THEN ms ELSE 0)

create_task_arg(t) == rooted' = rooted \cup {t}

_ejs_setTimer(t, timeout, repeats) ==
  /\ ProgramActs /\ ~timer[t].set
  /\ create_task_arg(t)
  /\ \E b \in {b \in Blocks : ~block[b].used} :
       /\ block' = _ejs_runloop_add_task_timeout(b, t, timeout, repeats)
       /\ timer' = [timer EXCEPT ![t] = [Unset EXCEPT !.handle = b, !.set = TRUE, !.oneShot = ~repeats]]
  /\ UNCHANGED <<inside, script>>

_ejs_setTimeout_impl(t, timeout) == _ejs_setTimer(t, timeout, FALSE)
_ejs_setInterval_impl(t, timeout) == _ejs_setTimer(t, timeout, TRUE)

\* Fault: a clear only drops the loop's reference to the timer.
OnlyUnref(b) == block

\* Stops the timer; its block and its task argument stay allocated.
_ejs_runloop_remove_task(b) == uv_timer_stop(block, b)

\* The handle of a one-shot timer that has fired points to a block that was freed.
Stale(t) == timer[t].handle # NULL /\ (block[timer[t].handle].task # t \/ ~block[timer[t].handle].used)

_ejs_clearTimer(t) ==
  /\ ProgramActs /\ timer[t].handle # NULL
  /\ StaleClears \/ ~Stale(t)
  /\ block' = _ejs_runloop_remove_task(timer[t].handle)
  /\ timer' = [timer EXCEPT ![t].handle = NULL, ![t].cleared = TRUE]
  /\ UNCHANGED <<rooted, inside, script>>

_ejs_clearTimeout_impl(t) == _ejs_clearTimer(t)

----------------------------------------------------------------------------
\* Fault: the task's argument is destroyed after every call.
DestroyAlways(b) ==
  /\ rooted' = rooted \ {block[b].task}
  /\ block' = IF block[b].repeats THEN block ELSE [uv_timer_stop(block, b) EXCEPT ![b] = Free]

\* The end of invoke_task, after the task: dtor, stop and free unless it repeats.
invoke_task_done(b) ==
  IF block[b].repeats
  THEN UNCHANGED <<block, rooted>>
  ELSE /\ rooted' = rooted \ {block[b].task}
       /\ block' = [uv_timer_stop(block, b) EXCEPT ![b] = Free]

\* The loop stops the timer, starts it again if it repeats, and calls invoke_task.
Fire(b) ==
  /\ script = "loop" /\ inside = NULL
  /\ block[b].armed /\ block[b].left <= 0 /\ Earliest(b)
  /\ inside' = b
  /\ block' = uv_timer_again(uv_timer_stop(block, b), b)
  /\ timer' = [timer EXCEPT ![block[b].task].fired = IF @ < 2 THEN @ + 1 ELSE 2]
  /\ UNCHANGED <<rooted, script>>

Return ==
  /\ inside # NULL
  /\ invoke_task_done(inside)
  /\ inside' = NULL
  /\ UNCHANGED <<timer, script>>

_ejs_runloop_start == script = "main" /\ script' = "loop" /\ UNCHANGED <<block, timer, rooted, inside>>

TimerNext ==
  \/ \E t \in Timers, d \in Delays : _ejs_setTimeout_impl(t, d) \/ _ejs_setInterval_impl(t, d)
  \/ \E t \in Timers : _ejs_clearTimeout_impl(t)
  \/ \E b \in Blocks : Fire(b)
  \/ Return
  \/ \E n \in 1 .. MaxSleep : Tick(n)
  \/ _ejs_runloop_start

\* Callbacks return, the main script ends, time passes and the loop runs what is due.
TimerFairness == /\ WF_tvars(_ejs_runloop_start) /\ WF_tvars(\E n \in 1 .. MaxSleep : Tick(n))
                 /\ WF_tvars(\E b \in Blocks : Fire(b)) /\ WF_tvars(Return)

TimerSpec == TimerInit /\ [][TimerNext]_tvars /\ TimerFairness

----------------------------------------------------------------------------
\* Type correctness of blocks and timers; no block runs or is armed unallocated.
TimerTypeOK ==
  /\ block \in [Blocks -> [used : BOOLEAN, task : Timers \cup {Nobody}, armed : BOOLEAN, left : Int,
                           repeat : Nat, repeats : BOOLEAN, after : SUBSET Blocks]]
  /\ timer \in [Timers -> [handle : Blocks \cup {NULL}, set : BOOLEAN, oneShot : BOOLEAN,
                           cleared : BOOLEAN, fired : 0 .. 2]]
  /\ rooted \subseteq Timers /\ inside \in Blocks \cup {NULL} /\ script \in {"main", "loop"}
  /\ \A b \in Blocks : (block[b].armed \/ b = inside) => block[b].used

\* A callback the loop can still call, and the one it is calling, is a root of
\* the collector with its arguments: an interval's stays one after every call,
\* a one-shot timer's is given up only behind its last use.
CallableIsRooted ==
  \A b \in Blocks : (block[b].armed \/ b = inside) => block[b].task \in rooted

\* A one-shot timer fires once, however often time passes, and a timer that was
\* cleared, by the main script, by another callback or by its own, does not fire
\* again: a due interval that the loop has started again already included.
FiresAsAsked ==
  [][\A t \in Timers : timer'[t].fired # timer[t].fired =>
        ~timer[t].cleared /\ (timer[t].oneShot => timer[t].fired = 0)]_tvars

\* Every timeout that is not cleared fires, whatever the other timers do, and an
\* interval goes on firing until it is cleared.
TimersFire ==
  \A t \in Timers :
    /\ timer[t].set ~> (timer[t].fired > 0 \/ timer[t].cleared)
    /\ (timer[t].set /\ ~timer[t].oneShot) ~> (timer[t].fired = 2 \/ timer[t].cleared)

\* The blocks of the run loop are allocated while they are used, also when malloc
\* hands out one again, and every callback that can still be called is a root.
TimersConsistent == TimerTypeOK /\ CallableIsRooted
==============================================================================
