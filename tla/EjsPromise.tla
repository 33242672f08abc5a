----------------------------- MODULE EjsPromise -----------------------------
(***************************************************************************)
(* The promises of runtime/ejs-promise.c and the task queue they run on    *)
(* (runtime/ejs-runloop-libuv.c).                                          *)
(*                                                                         *)
(* A promise is an index into the sequence promise, a PromiseReaction one  *)
(* into reaction, both in order of creation.  A pair of resolving          *)
(* functions is <<p, i>>: the i-th pair made for promise p, whose shared   *)
(* [[AlreadyResolved]] is promise[p].resolved[i].                          *)
(*                                                                         *)
(* Everything runs on one thread.  User code (the script, a handler, the   *)
(* then method of a foreign object) is an arbitrary sequence of the calls  *)
(* below, MaxOps of them in all, and runs to completion before the next    *)
(* task starts.                                                            *)
(***************************************************************************)
EXTENDS Integers, Sequences, FiniteSets

CONSTANTS
    Value,      \* values whose "then" is not callable, primitives included
    Thenable,   \* foreign objects with a callable "then"
    BadThen,    \* objects whose "then" is a getter that throws
    undefined,  \* a member of Value
    Repeats,    \* what task_timer.repeats, which add_task leaves unset, may hold
    MaxOps      \* how many calls user code makes

ASSUME UndefinedAssumption == undefined \in Value
\* A value is one of the four: promises are the numbers.
ASSUME ValueAssumption == \A v \in Value : v \notin Thenable \union BadThen \union Nat
ASSUME RepeatsAssumption == Repeats \subseteq BOOLEAN /\ Repeats # {}
ASSUME MaxOpsAssumption == MaxOps \in Nat

VARIABLES
    promise,   \* the EJSPromise objects
    reaction,  \* the EJSPromiseReaction records that have been malloced
    freed,     \* the reactions that have been freed
    tasks,     \* the run loop's queue
    current,   \* the task being run, Script or Idle
    known,     \* the promises user code can name
    held,      \* the pairs of resolving functions user code can call
    ops        \* calls that user code has made

vars == <<promise, reaction, freed, tasks, current, known, held, ops>>

Promises == 1 .. Len(promise)
AnyValue == Value \union Thenable \union BadThen \union known

NoPair == <<0, 0>>
ReactionTask(k, arg) == [kind |-> "reaction", subject |-> k, arg |-> arg, called |-> FALSE]
ThenableTask(p, x) == [kind |-> "thenable", subject |-> p, arg |-> x, called |-> FALSE]
Script == [kind |-> "script", subject |-> 0, arg |-> undefined, called |-> FALSE]
Idle == [kind |-> "idle", subject |-> 0, arg |-> undefined, called |-> FALSE]

\* Handlers: a user function, the identity and thrower functions that stand in
\* for a missing one, or the resolving functions of a pair.
Handler(k, pair) == [kind |-> k, pair |-> pair]
User == Handler("user", NoPair)
Identity == Handler("identity", NoPair)
Thrower == Handler("thrower", NoPair)

\* Fault: the state is left as the allocator made it.
NewUninitialized == [state |-> "uninitialized", result |-> undefined,
                     fulfillReactions |-> <<>>, rejectReactions |-> <<>>,
                     resolved |-> <<FALSE>>]

\* What the Promise constructor makes: a pending promise without reactions and
\* its first pair of resolving functions.
NewPromise == [state |-> "pending", result |-> undefined, fulfillReactions |-> <<>>,
               rejectReactions |-> <<>>, resolved |-> <<FALSE>>]

Init ==
    /\ promise = <<>> /\ reaction = <<>> /\ freed = {}
    /\ tasks = <<>> /\ current = Script
    /\ known = {} /\ held = {} /\ ops = 0

-----------------------------------------------------------------------------
(* Settling.  The operators take the promises as ps and the queue as q, so *)
(* that they can follow other assignments of the same call.                *)

\* Fault: reactions are triggered from the end of the list.
TasksReversed(rs, arg) == [i \in 1 .. Len(rs) |-> ReactionTask(rs[Len(rs) + 1 - i], arg)]

ReactionTasks(rs, arg) == [i \in 1 .. Len(rs) |-> ReactionTask(rs[i], arg)]

\* Faults: the reactions are dropped; the state is not set; the wrong list is
\* triggered.
FulfillForgets(ps, q, p, x) ==
    /\ promise' = [ps EXCEPT ![p].result = x, ![p].fulfillReactions = <<>>,
                             ![p].state = "fulfilled"]
    /\ tasks' = q
FulfillKeepsState(ps, q, p, x) ==
    /\ promise' = [ps EXCEPT ![p].result = x, ![p].fulfillReactions = <<>>]
    /\ tasks' = q \o ReactionTasks(ps[p].fulfillReactions, x)
RejectTriggersFulfill(ps, q, p, x) ==
    /\ promise' = [ps EXCEPT ![p].result = x, ![p].fulfillReactions = <<>>,
                             ![p].state = "rejected"]
    /\ tasks' = q \o ReactionTasks(ps[p].fulfillReactions, x)

\* Both list assignments of the code are to fulfillReactions.
FulfillPromise(ps, q, p, x) ==
    /\ promise' = [ps EXCEPT ![p].result = x, ![p].fulfillReactions = <<>>,
                             ![p].state = "fulfilled"]
    /\ tasks' = q \o ReactionTasks(ps[p].fulfillReactions, x)

RejectPromise(ps, q, p, x) ==
    /\ promise' = [ps EXCEPT ![p].result = x, ![p].fulfillReactions = <<>>,
                             ![p].state = "rejected"]
    /\ tasks' = q \o ReactionTasks(ps[p].rejectReactions, x)

\* Fault: the flag that both functions of a pair share is never set.
NeverResolved(ps, pair) == ps

AlreadyResolved(ps, pair) == ps[pair[1]].resolved[pair[2]]
SetResolved(ps, pair) == [ps EXCEPT ![pair[1]].resolved[pair[2]] = TRUE]

reject(ps, q, pair, x) ==
    IF AlreadyResolved(ps, pair) THEN promise' = ps /\ tasks' = q
    ELSE RejectPromise(SetResolved(ps, pair), q, pair[1], x)

\* The TypeError of a promise resolved with itself is abstracted to undefined.
\* A getter that throws leaves resolve by the exception.
resolve(ps, q, pair, x) ==
    LET p == pair[1]
        set == SetResolved(ps, pair)
    IN  IF AlreadyResolved(ps, pair) THEN promise' = ps /\ tasks' = q
        ELSE \/ x = p /\ RejectPromise(set, q, p, undefined)
             \/ x \in Value /\ FulfillPromise(set, q, p, x)
             \/ x \in BadThen /\ promise' = set /\ tasks' = q
             \/ /\ x \in Thenable \union ((1 .. Len(ps)) \ {p})
                /\ promise' = set
                /\ tasks' = Append(q, ThenableTask(p, x))

\* The promise of the capability is the last one of ps.  A pending promise keeps
\* one reaction in each list; a settled one gets its task at once.
_ejs_Promise_prototype_then(ps, q, p, onFulfilled, onRejected) ==
    LET cap == Len(ps) + 1
        n == Len(reaction)
        ext == Append(ps, NewPromise)
        Rec(h) == [of |-> p, cap |-> <<cap, 1>>, handler |-> h]
    IN  \/ /\ ps[p].state = "pending"
           /\ reaction' = reaction \o <<Rec(onFulfilled), Rec(onRejected)>>
           /\ promise' = [ext EXCEPT ![p].fulfillReactions = Append(@, n + 1),
                                     ![p].rejectReactions = Append(@, n + 2)]
           /\ tasks' = q
        \/ /\ ps[p].state # "pending"
           /\ reaction' = Append(reaction, Rec(IF ps[p].state = "fulfilled"
                                               THEN onFulfilled ELSE onRejected))
           /\ promise' = ext
           /\ tasks' = Append(q, ReactionTask(n + 1, ps[p].result))

-----------------------------------------------------------------------------
(* User code.                                                              *)

\* The script, a user handler or a foreign then method is on the stack.
UserCodeRuns ==
    \/ current.kind \in {"script", "thenable"}
    \/ current.kind = "reaction" /\ reaction[current.subject].handler = User

UserOp == UserCodeRuns /\ ops < MaxOps /\ ops' = ops + 1 /\ UNCHANGED <<freed, current>>

\* new Promise(executor): the executor, user code, gets the pair.  If it throws,
\* the pair's reject function is called, which CallReject stands for.
_ejs_Promise_impl ==
    /\ UserOp
    /\ promise' = Append(promise, NewPromise)
    /\ known' = known \union {Len(promise) + 1}
    /\ held' = held \union {<<Len(promise) + 1, 1>>}
    /\ UNCHANGED <<reaction, tasks>>

\* then, and catch, which calls it without onFulfilled.
CallThen(p, onFulfilled, onRejected) ==
    /\ UserOp
    /\ p \in known
    /\ _ejs_Promise_prototype_then(promise, tasks, p, onFulfilled, onRejected)
    /\ known' = known \union {Len(promise) + 1}
    /\ UNCHANGED held

CallResolve(pair, x) ==
    /\ UserOp
    /\ pair \in held /\ x \in AnyValue
    /\ resolve(promise, tasks, pair, x)
    /\ UNCHANGED <<reaction, known, held>>

CallReject(pair, x) ==
    /\ UserOp
    /\ pair \in held
    /\ reject(promise, tasks, pair, x)
    /\ UNCHANGED <<reaction, known, held>>

\* Promise.resolve(x) and Promise.reject(x) keep the pair to themselves.  The
\* constructor slot that _ejs_Promise_resolve compares is never set, so a promise
\* is wrapped like any thenable; if resolve throws, no promise is returned.
_ejs_Promise_resolve(x) ==
    /\ UserOp
    /\ resolve(Append(promise, NewPromise), tasks, <<Len(promise) + 1, 1>>, x)
    /\ known' = known \union (IF x \in BadThen THEN {} ELSE {Len(promise) + 1})
    /\ UNCHANGED <<reaction, held>>

_ejs_Promise_reject(x) ==
    /\ UserOp
    /\ reject(Append(promise, NewPromise), tasks, <<Len(promise) + 1, 1>>, x)
    /\ known' = known \union {Len(promise) + 1}
    /\ UNCHANGED <<reaction, held>>

UserStep ==
    \/ _ejs_Promise_impl
    \/ \E x \in AnyValue : _ejs_Promise_resolve(x)
    \/ \E x \in Value : _ejs_Promise_reject(x)
    \/ \E p \in known : CallThen(p, User, User) \/ CallThen(p, Identity, User)
                        \/ CallThen(p, User, Thrower)
    \/ \E pair \in held : \/ \E x \in AnyValue : CallResolve(pair, x)
                          \/ \E x \in Value : CallReject(pair, x)

\* main() returns from the script and starts the run loop.
_ejs_runloop_start ==
    /\ current = Script /\ current' = Idle
    /\ UNCHANGED <<promise, reaction, freed, tasks, known, held, ops>>

-----------------------------------------------------------------------------
(* The run loop.  libuv runs timers of the same due time in the order they *)
(* were started, so the queue is first in, first out.                      *)

\* invoke_task after the task: "repeats" is never initialised by add_task, so it
\* may read as true, and then the destructor, which frees the reaction, is not run.
FinishTask ==
    /\ current' = Idle
    /\ \E repeats \in Repeats :
          freed' = IF current.kind = "reaction" /\ ~repeats
                   THEN freed \union {current.subject} ELSE freed

\* The task of a reaction: the handler is called ...
StartReaction ==
    /\ current = Idle /\ tasks # <<>> /\ Head(tasks).kind = "reaction"
    /\ current' = Head(tasks) /\ tasks' = Tail(tasks)
    /\ UNCHANGED <<promise, reaction, freed, known, held, ops>>

\* ... and is a resolving function ...
CallHandler ==
    LET h == reaction[current.subject].handler
    IN  /\ current.kind = "reaction" /\ ~current.called
        /\ \/ h.kind = "resolve" /\ resolve(promise, tasks, h.pair, current.arg)
           \/ h.kind = "reject" /\ reject(promise, tasks, h.pair, current.arg)
        /\ current' = [current EXCEPT !.called = TRUE]
        /\ UNCHANGED <<reaction, freed, known, held, ops>>

\* ... or returns x, with which the promise of the capability is resolved ...
HandlerReturns(x) ==
    LET h == reaction[current.subject].handler
    IN  /\ current.kind = "reaction"
        /\ \/ h.kind = "user" /\ x \in AnyValue
           \/ h.kind = "identity" /\ x = current.arg
           \/ h.kind \in {"resolve", "reject"} /\ current.called /\ x = undefined
        /\ resolve(promise, tasks, reaction[current.subject].cap, x)
        /\ FinishTask
        /\ UNCHANGED <<reaction, known, held, ops>>

\* ... or throws x, with which it is rejected.
HandlerThrows(x) ==
    LET h == reaction[current.subject].handler
    IN  /\ current.kind = "reaction"
        /\ \/ h.kind = "user" /\ x \in Value
           \/ h.kind = "thrower" /\ x = current.arg
        /\ reject(promise, tasks, reaction[current.subject].cap, x)
        /\ FinishTask
        /\ UNCHANGED <<reaction, known, held, ops>>

\* The task for a thenable makes a new pair for the promise and passes it to the
\* thenable's then.  For a promise that is _ejs_Promise_prototype_then.
PromiseResolveThenableTask ==
    LET p == Head(tasks).subject
        x == Head(tasks).arg
        ps == [promise EXCEPT ![p].resolved = Append(@, FALSE)]
        pair == <<p, Len(promise[p].resolved) + 1>>
    IN  /\ current = Idle /\ tasks # <<>> /\ Head(tasks).kind = "thenable"
        /\ \/ /\ x \in Promises
              /\ _ejs_Promise_prototype_then(ps, Tail(tasks), x,
                     Handler("resolve", pair), Handler("reject", pair))
              /\ UNCHANGED <<current, held>>
           \/ /\ x \in Thenable
              /\ promise' = ps /\ tasks' = Tail(tasks) /\ current' = Head(tasks)
              /\ held' = held \union {pair}
              /\ UNCHANGED reaction
        /\ UNCHANGED <<freed, known, ops>>

\* The foreign then method returns, or throws x.
ThenableReturns ==
    /\ current.kind = "thenable"
    /\ FinishTask
    /\ UNCHANGED <<promise, reaction, tasks, known, held, ops>>

ThenableThrows(x) ==
    LET p == current.subject
    IN  /\ current.kind = "thenable"
        /\ reject(promise, tasks, <<p, Len(promise[p].resolved)>>, x)
        /\ FinishTask
        /\ UNCHANGED <<reaction, known, held, ops>>

TaskStep ==
    \/ StartReaction \/ CallHandler
    \/ \E x \in AnyValue \union {current.arg} : HandlerReturns(x) \/ HandlerThrows(x)
    \/ PromiseResolveThenableTask \/ ThenableReturns
    \/ \E x \in Value : ThenableThrows(x)

Next == UserStep \/ _ejs_runloop_start \/ TaskStep

Spec == Init /\ [][Next]_vars
\* The run loop runs until its queue is empty, and handlers return or throw.
FairSpec == Spec /\ WF_vars(_ejs_runloop_start) /\ WF_vars(TaskStep)
-----------------------------------------------------------------------------
(* Properties.                                                             *)

Settled(p) == promise[p].state # "pending"
Pair == Promises \X Nat
Handlers == [kind : {"user", "identity", "thrower"}, pair : {NoPair}]
              \union [kind : {"resolve", "reject"}, pair : Pair]
TaskType ==
    [kind : {"reaction"}, subject : 1 .. Len(reaction), arg : Value, called : BOOLEAN]
      \union [kind : {"thenable"}, subject : Promises, arg : Thenable \union Promises,
              called : {FALSE}]

\* The type invariant of promises, reactions, tasks and what user code holds.
TypeOK ==
    /\ \A p \in Promises :
          /\ promise[p].state \in {"pending", "fulfilled", "rejected"}
          /\ promise[p].result \in Value
          /\ promise[p].fulfillReactions \in Seq(1 .. Len(reaction))
          /\ promise[p].rejectReactions \in Seq(1 .. Len(reaction))
          /\ promise[p].resolved \in Seq(BOOLEAN)
    /\ \A k \in 1 .. Len(reaction) :
          reaction[k].of \in Promises /\ reaction[k].cap \in Pair
            /\ reaction[k].handler \in Handlers
    /\ freed \subseteq 1 .. Len(reaction)
    /\ \A i \in 1 .. Len(tasks) : tasks[i] \in TaskType
    /\ current \in TaskType \union {Script, Idle}
    /\ known \subseteq Promises /\ held \subseteq Pair
    /\ ops \in 0 .. MaxOps

\* The pairs that have not been used, and the thenable tasks, of promise p.
Unresolved(p) == {i \in 1 .. Len(promise[p].resolved) : ~promise[p].resolved[i]}
Waiting(p) == {i \in 1 .. Len(tasks) : tasks[i].kind = "thenable" /\ tasks[i].subject = p}

\* A promise can be resolved in one way only.  Of all the pairs of resolving
\* functions made for it (one by the constructor, one more by every thenable it
\* was resolved with) and the thenable tasks waiting for it, at most one can still
\* decide it, and none once it is settled.  RejectPromise and FulfillPromise rely
\* on it: "Assert: the value of promise's [[PromiseState]] internal slot is
\* pending" is only a comment.
OneResolution ==
    \A p \in Promises :
        /\ \A i, j \in Unresolved(p) : i = j
        /\ \A i, j \in Waiting(p) : i = j
        /\ Waiting(p) # {} => Unresolved(p) = {}
        /\ Settled(p) => Unresolved(p) = {} /\ Waiting(p) = {}

\* A settled promise keeps its state and its result, whoever still calls its
\* resolving functions.
SettledIsFinal ==
    [][\A p \in Promises : Settled(p) =>
          promise'[p].state = promise[p].state /\ promise'[p].result = promise[p].result]_vars

\* The task being run and the ones behind it.
Running == IF current.kind = "reaction" THEN <<current>> \o tasks ELSE tasks
ReactionIndices == {i \in 1 .. Len(Running) : Running[i].kind = "reaction"}

\* A handler runs at most once, and never both handlers of one then: the reaction
\* of a task has not been freed, its capability has not been resolved, and no
\* other task has that capability.
AtMostOnce ==
    \A i \in ReactionIndices :
        LET c == reaction[Running[i].subject].cap
        IN  /\ Running[i].subject \notin freed
            /\ ~AlreadyResolved(promise, c)
            /\ \A j \in ReactionIndices : reaction[Running[j].subject].cap = c => i = j

\* The handlers of one promise run "in original insertion order", also those
\* added after it was settled.
InsertionOrder ==
    \A i, j \in ReactionIndices :
        i < j /\ reaction[Running[i].subject].of = reaction[Running[j].subject].of
            => Running[i].subject < Running[j].subject

\* What a handler gets is what its promise was settled with, and the handler is
\* the one for the promise's state.
HandlerGetsResult ==
    \A i \in ReactionIndices :
        LET k == Running[i].subject
            p == reaction[k].of
        IN  /\ Settled(p) /\ Running[i].arg = promise[p].result
            /\ reaction[k].handler.kind \in (IF promise[p].state = "fulfilled"
                                             THEN {"user", "identity", "resolve"}
                                             ELSE {"user", "thrower", "reject"})

\* A promise resolved with another one ends as that one does: when the queue is
\* empty and the other one is settled, both have the same state and result.
AdoptsState ==
    current = Idle /\ tasks = <<>> =>
        \A k \in 1 .. Len(reaction) :
            LET q == reaction[k].of
                p == reaction[k].handler.pair[1]
            IN  reaction[k].handler.kind \in {"resolve", "reject"} /\ Settled(q) =>
                    /\ promise[p].state = promise[q].state
                    /\ promise[p].result = promise[q].result

\* Once a promise is settled, the promise that each of its then calls returned
\* gets resolved: no reaction is forgotten, neither one that was waiting nor one
\* that comes late.
MaxReactions == 4 * MaxOps
Due(k) == IF k \in 1 .. Len(reaction) THEN Settled(reaction[k].of) ELSE FALSE
Served(k) == IF k \in 1 .. Len(reaction) THEN AlreadyResolved(promise, reaction[k].cap)
                                         ELSE FALSE
DerivedResolves == \A k \in 1 .. MaxReactions : Due(k) ~> Served(k)

\* resolve: "If then is an abrupt completion, then a. Return RejectPromise(promise,
\* then.[[value]])".  A promise that nothing can resolve any more has been settled.
PendingHasResolver ==
    \A p \in Promises : Settled(p) \/ Unresolved(p) # {} \/ Waiting(p) # {}

\* A pending promise has exactly one way to be settled: never a second pair of
\* functions that could, and never none.
OneResolver == OneResolution /\ PendingHasResolver

\* Handlers run at most once, in the order then was called, whether they were
\* added before or after the promise was settled.
HandlersOnceInOrder == AtMostOnce /\ InsertionOrder

\* What a promise was settled with is what its handlers are called with, and what
\* the promises that have adopted it are settled with.
ValuesFlow == HandlerGetsResult /\ AdoptsState
=============================================================================
