-------------------------- MODULE EjsPromise_proofs --------------------------
(***************************************************************************)
(* Promises for any values, thenables and number of calls.  The invariant  *)
(* takes the promises, the reactions, the freed reactions, the queue and   *)
(* the current task as parameters: one call of the code is a composition   *)
(* of a few operations on them, and there is one lemma per operation.      *)
(***************************************************************************)
EXTENDS EjsPromise, SequenceTheorems, TLAPS

States == {"pending", "fulfilled", "rejected"}
PromiseType(n) == [state : States, result : Value, fulfillReactions : Seq(1 .. n),
                   rejectReactions : Seq(1 .. n), resolved : Seq(BOOLEAN)]
Kinds == {"user", "identity", "thrower", "resolve", "reject"}
ReactionType == [of : Nat, cap : Nat \X Nat, handler : [kind : Kinds, pair : Nat \X Nat]]
Tasks(n, m) ==
    [kind : {"reaction"}, subject : 1 .. n, arg : Value, called : BOOLEAN]
      \union [kind : {"thenable"}, subject : 1 .. m, arg : Thenable \union 1 .. m, called : {FALSE}]

\* The pair <<p, i>> has been made, as the i-th pair of promise p.
Made(ps, p, i) == p \in 1 .. Len(ps) /\ i \in 1 .. Len(ps[p].resolved)

\* The kinds of handlers that wait for, and run after, a settlement.
KindsFor(state) == IF state = "fulfilled" THEN {"user", "identity", "resolve"}
                   ELSE {"user", "thrower", "reject"}

TypesInv(ps, rs, fr, q, c) ==
    /\ rs \in Seq(ReactionType)
    /\ ps \in Seq(PromiseType(Len(rs)))
    /\ fr \subseteq 1 .. Len(rs)
    /\ q \in Seq(Tasks(Len(rs), Len(ps)))
    /\ c \in Tasks(Len(rs), Len(ps)) \union {Script, Idle}
    /\ \A p \in 1 .. Len(ps) : Len(ps[p].resolved) >= 1

\* A capability is the first pair of a promise; the resolving functions that a
\* thenable task makes are later pairs.
ReactionsInv(ps, rs) ==
    \A k \in 1 .. Len(rs) :
        /\ rs[k].of \in 1 .. Len(ps)
        /\ rs[k].cap[1] \in 1 .. Len(ps) /\ rs[k].cap[2] = 1 /\ rs[k].cap = <<rs[k].cap[1], 1>>
        /\ rs[k].handler.kind \in {"resolve", "reject"} =>
              /\ Made(ps, rs[k].handler.pair[1], rs[k].handler.pair[2]) /\ rs[k].handler.pair[2] >= 2
              /\ rs[k].handler.pair = <<rs[k].handler.pair[1], rs[k].handler.pair[2]>>
        /\ rs[k].handler.kind \notin {"resolve", "reject"} => rs[k].handler.pair = NoPair
        /\ \A l \in 1 .. Len(rs) : rs[k].cap = rs[l].cap => rs[k].of = rs[l].of

\* The pairs of promise p that are unused, and its thenable tasks in the queue.
Open(ps, p) == {i \in 1 .. Len(ps[p].resolved) : ~ps[p].resolved[i]}
Awaits(q, p) == {i \in 1 .. Len(q) : q[i].kind = "thenable" /\ q[i].subject = p}

OneInv(ps, q, c) ==
    /\ \A p \in 1 .. Len(ps) :
          /\ \A i, j \in Open(ps, p) : i = j
          /\ \A i, j \in Awaits(q, p) : i = j
          /\ Awaits(q, p) # {} => Open(ps, p) = {}
          /\ ps[p].state # "pending" => Open(ps, p) = {} /\ Awaits(q, p) = {}
    /\ c.kind = "thenable" => Len(ps[c.subject].resolved) >= 2

\* A reaction that waits for promise p, in the list for a state.
WaitsFor(ps, rs, fr, p, k, state) ==
    /\ rs[k].of = p /\ k \notin fr
    /\ ~ps[rs[k].cap[1]].resolved[1]
    /\ rs[k].handler.kind \in KindsFor(state)

\* A list of reactions is in the order of the calls of then, one for each call.
ListInv(ps, rs, fr, p, list, state) ==
    /\ \A i \in 1 .. Len(list) : WaitsFor(ps, rs, fr, p, list[i], state)
    /\ \A i, j \in 1 .. Len(list) : i < j => list[i] < list[j] /\ rs[list[i]].cap # rs[list[j]].cap

ListsInv(ps, rs, fr) ==
    \A p \in 1 .. Len(ps) : ps[p].state = "pending" =>
        /\ ListInv(ps, rs, fr, p, ps[p].fulfillReactions, "fulfilled")
        /\ ListInv(ps, rs, fr, p, ps[p].rejectReactions, "rejected")

\* A task of a reaction that has not been served: its promise is settled with the
\* argument, its capability is not resolved.
Ready(ps, rs, fr, t) ==
    LET k == t.subject
        p == rs[k].of
    IN  /\ k \notin fr /\ ~ps[rs[k].cap[1]].resolved[1]
        /\ ps[p].state # "pending" /\ t.arg = ps[p].result
        /\ rs[k].handler.kind \in KindsFor(ps[p].state)

\* Task t runs before task u: they serve different calls of then, in their order.
Before(rs, t, u) ==
    /\ rs[t.subject].cap # rs[u.subject].cap
    /\ rs[t.subject].of = rs[u.subject].of => t.subject < u.subject

QueueInv(ps, rs, fr, q, c) ==
    /\ \A i \in 1 .. Len(q) : q[i].kind = "reaction" => Ready(ps, rs, fr, q[i])
    /\ \A i, j \in 1 .. Len(q) :
          i < j /\ q[i].kind = "reaction" /\ q[j].kind = "reaction" => Before(rs, q[i], q[j])
    /\ c.kind = "reaction" => /\ Ready(ps, rs, fr, c)
                              /\ \A j \in 1 .. Len(q) : q[j].kind = "reaction" => Before(rs, c, q[j])

Inv(ps, rs, fr, q, c) ==
    /\ TypesInv(ps, rs, fr, q, c) /\ ReactionsInv(ps, rs) /\ OneInv(ps, q, c)
    /\ ListsInv(ps, rs, fr) /\ QueueInv(ps, rs, fr, q, c)

\* User code knows promises that were made, and holds pairs that were made and are
\* no capability of a reaction.
HeldInv(ps, rs, kn, hd) ==
    /\ kn \subseteq 1 .. Len(ps)
    /\ \A pair \in hd : /\ Made(ps, pair[1], pair[2]) /\ pair = <<pair[1], pair[2]>>
                        /\ \A k \in 1 .. Len(rs) : rs[k].cap # pair

\* The inductive invariant.
PromiseInv ==
    /\ Inv(promise, reaction, freed, tasks, current)
    /\ HeldInv(promise, reaction, known, held)
    /\ ops \in 0 .. MaxOps

-----------------------------------------------------------------------------
(* Lemmas on sequences and on the records of promises.                     *)

\* A longer heap only makes the types larger.
LEMMA TypesGrow ==
    ASSUME NEW n \in Nat, NEW n2 \in Nat, n <= n2, NEW m \in Nat, NEW m2 \in Nat, m <= m2
    PROVE  /\ Seq(1 .. n) \subseteq Seq(1 .. n2)
           /\ PromiseType(n) \subseteq PromiseType(n2)
           /\ Seq(PromiseType(n)) \subseteq Seq(PromiseType(n2))
           /\ Tasks(n, m) \subseteq Tasks(n2, m2)
           /\ Seq(Tasks(n, m)) \subseteq Seq(Tasks(n2, m2))
<1>1. 1 .. n \subseteq 1 .. n2 /\ 1 .. m \subseteq 1 .. m2
  OBVIOUS
<1>2. Seq(1 .. n) \subseteq Seq(1 .. n2)
  BY <1>1, SeqMonotonic
<1>3. PromiseType(n) \subseteq PromiseType(n2)
  BY <1>2 DEF PromiseType
<1>4. Tasks(n, m) \subseteq Tasks(n2, m2)
  BY <1>1 DEF Tasks
<1> QED
  BY <1>2, <1>3, <1>4, SeqMonotonic

\* What is known of one task.
LEMMA TaskFacts ==
    ASSUME NEW n \in Nat, NEW m \in Nat, NEW t \in Tasks(n, m)
    PROVE  /\ t.kind \in {"reaction", "thenable"}
           /\ t.kind = "reaction" => t.subject \in 1 .. n /\ t.arg \in Value
           /\ t.kind = "thenable" => t.subject \in 1 .. m /\ t.arg \in Thenable \union 1 .. m
  BY DEF Tasks

\* Appending an element.
LEMMA AppendFacts ==
    ASSUME NEW S, NEW s \in Seq(S), NEW e \in S
    PROVE  /\ Append(s, e) \in Seq(S) /\ Len(Append(s, e)) = Len(s) + 1 /\ Len(s) \in Nat
           /\ Append(s, e)[Len(s) + 1] = e
           /\ \A i \in 1 .. Len(s) : Append(s, e)[i] = s[i]
  OBVIOUS

\* The rest of a queue.
LEMMA TailFacts ==
    ASSUME NEW S, NEW s \in Seq(S), s # <<>>
    PROVE  /\ Head(s) \in S /\ Head(s) = s[1] /\ Len(s) \in Nat /\ Len(s) >= 1
           /\ Tail(s) \in Seq(S) /\ Len(Tail(s)) = Len(s) - 1
           /\ \A i \in 1 .. Len(s) - 1 : Tail(s)[i] = s[i + 1]
  OBVIOUS

LEMMA NewPromiseType ==
    ASSUME NEW n \in Nat
    PROVE  /\ NewPromise \in PromiseType(n)
           /\ NewPromise.state = "pending" /\ NewPromise.result = undefined
           /\ NewPromise.fulfillReactions = <<>> /\ NewPromise.rejectReactions = <<>>
           /\ NewPromise.resolved = <<FALSE>>
           /\ Len(NewPromise.resolved) = 1 /\ ~NewPromise.resolved[1]
<1>1. <<FALSE>> \in Seq(BOOLEAN) /\ Len(<<FALSE>>) = 1 /\ ~<<FALSE>>[1]
  OBVIOUS
<1>2. <<>> \in Seq(1 .. n)
  OBVIOUS
<1>3. NewPromise \in PromiseType(n)
  BY <1>1, <1>2, UndefinedAssumption DEF NewPromise, PromiseType, States
<1>4. NewPromise.resolved = <<FALSE>>
  BY DEF NewPromise
<1> QED
  BY <1>1, <1>3, <1>4 DEF NewPromise

\* The two promise sequences differ at p only.
Alike(ps, ps2, p) ==
    /\ Len(ps2) = Len(ps)
    /\ \A r \in 1 .. Len(ps) : r # p => ps2[r] = ps[r]

\* They differ at p in the pairs of resolving functions only.
SameButPairs(ps, ps2, p) ==
    /\ ps2[p].state = ps[p].state /\ ps2[p].result = ps[p].result
    /\ ps2[p].fulfillReactions = ps[p].fulfillReactions
    /\ ps2[p].rejectReactions = ps[p].rejectReactions

\* What resolve and reject, settling, and a thenable task do to promise p.
FlagSet(ps, ps2, p, i) ==
    /\ Alike(ps, ps2, p) /\ SameButPairs(ps, ps2, p)
    /\ Len(ps2[p].resolved) = Len(ps[p].resolved)
    /\ \A j \in 1 .. Len(ps[p].resolved) : ps2[p].resolved[j] <=> j = i \/ ps[p].resolved[j]
SettledWith(ps, ps2, p, st, x) ==
    /\ Alike(ps, ps2, p)
    /\ ps2[p].state = st /\ ps2[p].result = x /\ ps2[p].resolved = ps[p].resolved
PairAdded(ps, ps2, p) ==
    /\ Alike(ps, ps2, p) /\ SameButPairs(ps, ps2, p)
    /\ Len(ps[p].resolved) \in Nat
    /\ Len(ps2[p].resolved) = Len(ps[p].resolved) + 1
    /\ ~ps2[p].resolved[Len(ps[p].resolved) + 1]
    /\ \A j \in 1 .. Len(ps[p].resolved) : ps2[p].resolved[j] <=> ps[p].resolved[j]

\* The tasks of the reactions of a list follow those in the queue.
TasksAdded(q, q2, list, x) ==
    /\ Len(q) \in Nat /\ Len(list) \in Nat
    /\ Len(q2) = Len(q) + Len(list)
    /\ \A i \in 1 .. Len(q) : q2[i] = q[i]
    /\ \A i \in 1 .. Len(list) : /\ q2[Len(q) + i].kind = "reaction"
                                 /\ q2[Len(q) + i].subject = list[i]
                                 /\ q2[Len(q) + i].arg = x /\ ~q2[Len(q) + i].called

\* Setting the flag of a pair.
LEMMA SetResolvedFacts ==
    ASSUME NEW n \in Nat, NEW ps \in Seq(PromiseType(n)), NEW p, NEW i, Made(ps, p, i)
    PROVE  /\ SetResolved(ps, <<p, i>>) \in Seq(PromiseType(n))
           /\ FlagSet(ps, SetResolved(ps, <<p, i>>), p, i)
<1> DEFINE rec == [ps[p] EXCEPT !.resolved = [@ EXCEPT ![i] = TRUE]]
           flags == [ps[p].resolved EXCEPT ![i] = TRUE]
<1>1. p \in 1 .. Len(ps) /\ i \in 1 .. Len(ps[p].resolved) /\ ps[p] \in PromiseType(n)
  BY DEF Made
<1>2. ps[p].resolved \in Seq(BOOLEAN)
  BY <1>1 DEF PromiseType
<1>3. /\ flags \in Seq(BOOLEAN) /\ Len(flags) = Len(ps[p].resolved)
      /\ \A j \in 1 .. Len(ps[p].resolved) : flags[j] <=> j = i \/ ps[p].resolved[j]
  <2>1. flags \in Seq(BOOLEAN) /\ Len(flags) = Len(ps[p].resolved)
    BY <1>1, <1>2
  <2>2. flags[i]
    BY <1>1, <1>2
  <2>3. \A j \in 1 .. Len(ps[p].resolved) : j # i => flags[j] = ps[p].resolved[j]
    BY <1>1, <1>2
  <2> HIDE DEF flags
  <2> QED
    BY <2>1, <2>2, <2>3, <1>1
<1>4. rec = [ps[p] EXCEPT !.resolved = flags]
  BY <1>1
<1> HIDE DEF flags
<1>5. /\ rec \in PromiseType(n) /\ rec.state = ps[p].state /\ rec.result = ps[p].result
      /\ rec.fulfillReactions = ps[p].fulfillReactions
      /\ rec.rejectReactions = ps[p].rejectReactions /\ rec.resolved = flags
  BY <1>1, <1>3, <1>4 DEF PromiseType
<1>6. SetResolved(ps, <<p, i>>) = [ps EXCEPT ![p] = rec]
  BY <1>1, <1>4 DEF SetResolved, flags
<1> HIDE DEF rec
<1>7. /\ [ps EXCEPT ![p] = rec] \in Seq(PromiseType(n)) /\ Len([ps EXCEPT ![p] = rec]) = Len(ps)
      /\ [ps EXCEPT ![p] = rec][p] = rec
      /\ \A r \in 1 .. Len(ps) : r # p => [ps EXCEPT ![p] = rec][r] = ps[r]
  BY <1>1, <1>5, ExceptSeq
<1> DEFINE set == [ps EXCEPT ![p] = rec]
<1> HIDE DEF set
<1>8. /\ set \in Seq(PromiseType(n)) /\ Alike(ps, set, p) /\ set[p] = rec
  BY <1>7 DEF Alike, set
<1>9. FlagSet(ps, set, p, i)
  BY <1>3, <1>5, <1>8 DEF FlagSet, SameButPairs
<1> QED
  BY <1>6, <1>8, <1>9 DEF set

\* Settling a promise.
SettleIn(ps, p, st, x) ==
    [ps EXCEPT ![p].result = x, ![p].fulfillReactions = <<>>, ![p].state = st]

LEMMA SettleFacts ==
    ASSUME NEW n \in Nat, NEW ps \in Seq(PromiseType(n)), NEW p \in 1 .. Len(ps), NEW x \in Value,
           NEW st \in {"fulfilled", "rejected"}
    PROVE  /\ SettleIn(ps, p, st, x) \in Seq(PromiseType(n))
           /\ SettledWith(ps, SettleIn(ps, p, st, x), p, st, x)
<1> DEFINE rec == [ps[p] EXCEPT !.result = x, !.fulfillReactions = <<>>, !.state = st]
<1>1. ps[p] \in PromiseType(n) /\ <<>> \in Seq(1 .. n) /\ st \in States
  BY DEF States
<1>2. rec \in PromiseType(n) /\ rec.state = st /\ rec.result = x /\ rec.resolved = ps[p].resolved
  BY <1>1 DEF PromiseType
<1>3. SettleIn(ps, p, st, x) = [ps EXCEPT ![p] = rec]
  BY <1>1 DEF PromiseType, SettleIn
<1> HIDE DEF rec
<1> DEFINE mod == [ps EXCEPT ![p] = rec]
<1>4. /\ mod \in Seq(PromiseType(n)) /\ Len(mod) = Len(ps) /\ mod[p] = rec
      /\ \A r \in 1 .. Len(ps) : r # p => mod[r] = ps[r]
  BY <1>2, ExceptSeq
<1> HIDE DEF mod
<1>5. SettledWith(ps, mod, p, st, x)
  BY <1>2, <1>4 DEF SettledWith, Alike
<1> QED
  BY <1>3, <1>4, <1>5 DEF mod

\* A new pair of resolving functions.
PairIn(ps, p) == [ps EXCEPT ![p].resolved = Append(@, FALSE)]

LEMMA NewPairFacts ==
    ASSUME NEW n \in Nat, NEW ps \in Seq(PromiseType(n)), NEW p \in 1 .. Len(ps)
    PROVE  PairIn(ps, p) \in Seq(PromiseType(n)) /\ PairAdded(ps, PairIn(ps, p), p)
<1> DEFINE flags == Append(ps[p].resolved, FALSE)
           rec == [ps[p] EXCEPT !.resolved = flags]
<1>1. ps[p] \in PromiseType(n)
  OBVIOUS
<1>2. ps[p].resolved \in Seq(BOOLEAN)
  BY <1>1 DEF PromiseType
<1>3. /\ flags \in Seq(BOOLEAN) /\ Len(ps[p].resolved) \in Nat
      /\ Len(flags) = Len(ps[p].resolved) + 1
      /\ ~flags[Len(ps[p].resolved) + 1]
      /\ \A j \in 1 .. Len(ps[p].resolved) : flags[j] = ps[p].resolved[j]
  <2>1. flags \in Seq(BOOLEAN) /\ Len(flags) = Len(ps[p].resolved) + 1 /\ Len(ps[p].resolved) \in Nat
    BY <1>2
  <2>2. ~flags[Len(ps[p].resolved) + 1]
    BY <1>2
  <2>3. \A e \in BOOLEAN : \A j \in 1 .. Len(ps[p].resolved) : Append(ps[p].resolved, e)[j] = ps[p].resolved[j]
    BY <1>2, AppendFacts
  <2>4. \A j \in 1 .. Len(ps[p].resolved) : flags[j] = ps[p].resolved[j]
    BY <2>3, Zenon
  <2> HIDE DEF flags
  <2> QED
    BY <2>1, <2>2, <2>4
<1> HIDE DEF flags
<1>4. /\ rec \in PromiseType(n) /\ rec.state = ps[p].state /\ rec.result = ps[p].result
      /\ rec.fulfillReactions = ps[p].fulfillReactions
      /\ rec.rejectReactions = ps[p].rejectReactions /\ rec.resolved = flags
  BY <1>1, <1>3 DEF PromiseType
<1>5. PairIn(ps, p) = [ps EXCEPT ![p] = rec]
  BY <1>1 DEF PromiseType, flags, PairIn
<1> HIDE DEF rec
<1> DEFINE mod == [ps EXCEPT ![p] = rec]
<1>6. /\ mod \in Seq(PromiseType(n)) /\ Len(mod) = Len(ps) /\ mod[p] = rec
      /\ \A r \in 1 .. Len(ps) : r # p => mod[r] = ps[r]
  BY <1>4, ExceptSeq
<1> HIDE DEF mod
<1>7. PairAdded(ps, mod, p)
  BY <1>3, <1>4, <1>6 DEF PairAdded, Alike, SameButPairs
<1> QED
  BY <1>5, <1>6, <1>7 DEF mod

-----------------------------------------------------------------------------
(* The operations that calls are composed of, one lemma each.              *)

\* What the types say of lengths and of the members of lists and queue.
LEMMA TypesFacts ==
    ASSUME NEW ps, NEW rs, NEW fr, NEW q, NEW c, TypesInv(ps, rs, fr, q, c)
    PROVE  /\ Len(ps) \in Nat /\ Len(rs) \in Nat /\ Len(q) \in Nat
           /\ \A p \in 1 .. Len(ps) :
                /\ ps[p] \in PromiseType(Len(rs))
                /\ Len(ps[p].resolved) \in Nat /\ Len(ps[p].resolved) >= 1
                /\ Len(ps[p].fulfillReactions) \in Nat /\ Len(ps[p].rejectReactions) \in Nat
                /\ ps[p].fulfillReactions \in Seq(1 .. Len(rs)) /\ ps[p].rejectReactions \in Seq(1 .. Len(rs))
                /\ \A i \in 1 .. Len(ps[p].fulfillReactions) : ps[p].fulfillReactions[i] \in 1 .. Len(rs)
                /\ \A i \in 1 .. Len(ps[p].rejectReactions) : ps[p].rejectReactions[i] \in 1 .. Len(rs)
           /\ \A i \in 1 .. Len(q) : q[i] \in Tasks(Len(rs), Len(ps))
           /\ \A i \in 1 .. Len(q) : q[i].kind = "reaction" => q[i].subject \in 1 .. Len(rs)
           /\ \A i \in 1 .. Len(q) : q[i].kind = "thenable" => q[i].subject \in 1 .. Len(ps)
           /\ c.kind = "reaction" => c.subject \in 1 .. Len(rs) /\ c \in Tasks(Len(rs), Len(ps))
           /\ c.kind = "thenable" => c.subject \in 1 .. Len(ps) /\ c \in Tasks(Len(rs), Len(ps))
<1>1. Len(ps) \in Nat /\ Len(rs) \in Nat /\ Len(q) \in Nat
  BY DEF TypesInv
<1>2. ASSUME NEW p \in 1 .. Len(ps)
      PROVE  /\ ps[p] \in PromiseType(Len(rs))
             /\ ps[p].resolved \in Seq(BOOLEAN) /\ Len(ps[p].resolved) >= 1
             /\ ps[p].fulfillReactions \in Seq(1 .. Len(rs)) /\ ps[p].rejectReactions \in Seq(1 .. Len(rs))
  <2>1. ps[p] \in PromiseType(Len(rs)) /\ Len(ps[p].resolved) >= 1
    BY DEF TypesInv
  <2> QED
    BY <2>1 DEF PromiseType
<1>3. \A S : \A s \in Seq(S) : Len(s) \in Nat /\ \A i \in 1 .. Len(s) : s[i] \in S
  OBVIOUS
<1>4. \A i \in 1 .. Len(q) : q[i] \in Tasks(Len(rs), Len(ps))
  BY DEF TypesInv
<1>5. c.kind \in {"reaction", "thenable"} => c \in Tasks(Len(rs), Len(ps))
  BY DEF TypesInv, Script, Idle
<1> QED
  BY <1>1, <1>2, <1>3, <1>4, <1>5, TaskFacts

\* Reactions stay valid when promises and pairs are added.
LEMMA ReactionsFrame ==
    ASSUME NEW ps, NEW ps2, NEW rs, ReactionsInv(ps, rs),
           Len(ps) \in Nat, Len(ps2) \in Nat, Len(ps) <= Len(ps2),
           \A p \in 1 .. Len(ps) : /\ Len(ps[p].resolved) \in Nat /\ Len(ps2[p].resolved) \in Nat
                                   /\ Len(ps[p].resolved) <= Len(ps2[p].resolved)
    PROVE  ReactionsInv(ps2, rs)
<1>1. \A p, i : Made(ps, p, i) => Made(ps2, p, i)
  BY DEF Made
<1>2. 1 .. Len(ps) \subseteq 1 .. Len(ps2)
  OBVIOUS
<1> QED
  BY <1>1, <1>2 DEF ReactionsInv

\* A list stays one when none of its reactions is freed or served.
LEMMA ListFrame ==
    ASSUME NEW ps, NEW ps2, NEW rs, NEW fr, NEW fr2, NEW p, NEW list, NEW st,
           ListInv(ps, rs, fr, p, list, st),
           \A i \in 1 .. Len(list) : list[i] \notin fr2 /\ ~ps2[rs[list[i]].cap[1]].resolved[1]
    PROVE  ListInv(ps2, rs, fr2, p, list, st)
  BY DEF ListInv, WaitsFor

\* A new promise has no reactions, and its first pair is nobody's capability.
LEMMA NewPromiseInv ==
    ASSUME NEW ps, NEW rs, NEW fr, NEW q, NEW c, Inv(ps, rs, fr, q, c)
    PROVE  /\ Inv(Append(ps, NewPromise), rs, fr, q, c)
           /\ \A k \in 1 .. Len(rs) : rs[k].cap # <<Len(ps) + 1, 1>>
           /\ Made(Append(ps, NewPromise), Len(ps) + 1, 1)
<1> DEFINE ext == Append(ps, NewPromise)
           m == Len(ps)
           n == Len(rs)
<1>1. TypesInv(ps, rs, fr, q, c) /\ ReactionsInv(ps, rs) /\ OneInv(ps, q, c) /\ ListsInv(ps, rs, fr)
      /\ QueueInv(ps, rs, fr, q, c)
  BY DEF Inv
<1>2. m \in Nat /\ n \in Nat /\ ps \in Seq(PromiseType(n))
  BY <1>1, TypesFacts DEF TypesInv
<1>3. /\ ext \in Seq(PromiseType(n)) /\ Len(ext) = m + 1 /\ ext[m + 1] = NewPromise
      /\ \A i \in 1 .. m : ext[i] = ps[i]
  <2>1. NewPromise \in PromiseType(n)
    BY <1>2, NewPromiseType
  <2> QED
    BY <1>2, <2>1, AppendFacts
<1> HIDE DEF ext
<1>4. /\ Len(ext[m + 1].resolved) = 1 /\ ~ext[m + 1].resolved[1] /\ ext[m + 1].state = "pending"
      /\ ext[m + 1].fulfillReactions = <<>> /\ ext[m + 1].rejectReactions = <<>>
  BY <1>2, <1>3, NewPromiseType
<1>5. TypesInv(ext, rs, fr, q, c)
  <2>1. Tasks(n, m) \subseteq Tasks(n, m + 1) /\ Seq(Tasks(n, m)) \subseteq Seq(Tasks(n, m + 1))
    BY <1>2, TypesGrow
  <2>2. \A p \in 1 .. m + 1 : Len(ext[p].resolved) >= 1
    BY <1>1, <1>2, <1>3, <1>4 DEF TypesInv
  <2> QED
    BY <1>1, <1>3, <2>1, <2>2 DEF TypesInv
<1>6. ReactionsInv(ext, rs)
  <2>1. \A p \in 1 .. m : Len(ps[p].resolved) \in Nat
    BY <1>1, TypesFacts
  <2>2. \A p \in 1 .. m : /\ Len(ps[p].resolved) \in Nat /\ Len(ext[p].resolved) \in Nat
                          /\ Len(ps[p].resolved) <= Len(ext[p].resolved)
    BY <1>3, <2>1
  <2> QED
    BY <1>1, <1>2, <1>3, <2>2, ReactionsFrame
<1>7. OneInv(ext, q, c)
  <2>1. \A p \in 1 .. m : Open(ext, p) = Open(ps, p)
    BY <1>2, <1>3 DEF Open
  <2>2. Open(ext, m + 1) = {1}
    BY <1>4 DEF Open
  <2>3. Awaits(q, m + 1) = {}
    BY <1>1, <1>2, TypesFacts DEF Awaits
  <2>4. c.kind = "thenable" => Len(ext[c.subject].resolved) >= 2
    BY <1>1, <1>2, <1>3, TypesFacts DEF OneInv
  <2>5. ASSUME NEW p \in 1 .. m + 1
        PROVE  /\ \A i, j \in Open(ext, p) : i = j
               /\ \A i, j \in Awaits(q, p) : i = j
               /\ Awaits(q, p) # {} => Open(ext, p) = {}
               /\ ext[p].state # "pending" => Open(ext, p) = {} /\ Awaits(q, p) = {}
    <3>1. CASE p \in 1 .. m
      BY <3>1, <1>1, <1>3, <2>1 DEF OneInv
    <3>2. CASE p = m + 1
      BY <3>2, <2>2, <2>3, <1>4
    <3> QED
      BY <3>1, <3>2, <1>2
  <2> QED
    BY <1>3, <2>4, <2>5 DEF OneInv
<1>8. ListsInv(ext, rs, fr)
  <2>1. ASSUME NEW p \in 1 .. m, ext[p].state = "pending"
        PROVE  /\ ListInv(ext, rs, fr, p, ext[p].fulfillReactions, "fulfilled")
               /\ ListInv(ext, rs, fr, p, ext[p].rejectReactions, "rejected")
    <3>1. ext[p] = ps[p] /\ ps[p].state = "pending"
      BY <2>1, <1>3
    <3>2. \A k \in 1 .. n : rs[k].cap[1] \in 1 .. m
      BY <1>1 DEF ReactionsInv
    <3>3. \A k \in 1 .. n : ext[rs[k].cap[1]] = ps[rs[k].cap[1]]
      BY <1>3, <3>2
    <3>4. /\ ListInv(ps, rs, fr, p, ps[p].fulfillReactions, "fulfilled")
          /\ ListInv(ps, rs, fr, p, ps[p].rejectReactions, "rejected")
      BY <1>1, <3>1 DEF ListsInv
    <3>5. /\ \A i \in 1 .. Len(ps[p].fulfillReactions) : ps[p].fulfillReactions[i] \in 1 .. n
          /\ \A i \in 1 .. Len(ps[p].rejectReactions) : ps[p].rejectReactions[i] \in 1 .. n
      BY <1>1, TypesFacts
    <3>6. /\ \A i \in 1 .. Len(ps[p].fulfillReactions) :
                /\ ps[p].fulfillReactions[i] \notin fr
                /\ ~ext[rs[ps[p].fulfillReactions[i]].cap[1]].resolved[1]
          /\ \A i \in 1 .. Len(ps[p].rejectReactions) :
                /\ ps[p].rejectReactions[i] \notin fr
                /\ ~ext[rs[ps[p].rejectReactions[i]].cap[1]].resolved[1]
      BY <3>3, <3>4, <3>5 DEF ListInv, WaitsFor
    <3> QED
      BY <3>1, <3>4, <3>6, ListFrame
  <2>2. /\ ListInv(ext, rs, fr, m + 1, ext[m + 1].fulfillReactions, "fulfilled")
        /\ ListInv(ext, rs, fr, m + 1, ext[m + 1].rejectReactions, "rejected")
    BY <1>4 DEF ListInv
  <2> QED
    BY <2>1, <2>2, <1>2, <1>3 DEF ListsInv
<1>9. QueueInv(ext, rs, fr, q, c)
  <2>1. \A k \in 1 .. n : ext[rs[k].cap[1]] = ps[rs[k].cap[1]] /\ ext[rs[k].of] = ps[rs[k].of]
    BY <1>1, <1>3 DEF ReactionsInv
  <2>2. \A t : t.subject \in 1 .. n /\ Ready(ps, rs, fr, t) => Ready(ext, rs, fr, t)
    BY <2>1 DEF Ready
  <2> QED
    BY <1>1, <2>2, TypesFacts DEF QueueInv
<1>10. \A k \in 1 .. n : rs[k].cap # <<m + 1, 1>>
  BY <1>1, <1>2 DEF ReactionsInv
<1>11. Made(ext, m + 1, 1)
  BY <1>2, <1>3, <1>4 DEF Made
<1> QED
  BY <1>5, <1>6, <1>7, <1>8, <1>9, <1>10, <1>11 DEF Inv, ext

\* No reaction that waits for a promise, and no task, serves the capability.
NotDue(ps, rs, q, c, cap) ==
    /\ \A j \in 1 .. Len(q) : q[j].kind = "reaction" => rs[q[j].subject].cap # cap
    /\ c.kind = "reaction" => rs[c.subject].cap # cap
    /\ \A r \in 1 .. Len(ps) : ps[r].state = "pending" =>
          /\ \A i \in 1 .. Len(ps[r].fulfillReactions) : rs[ps[r].fulfillReactions[i]].cap # cap
          /\ \A i \in 1 .. Len(ps[r].rejectReactions) : rs[ps[r].rejectReactions[i]].cap # cap

LEMMA NobodysCapability ==
    ASSUME NEW ps, NEW rs, NEW fr, NEW q, NEW c, NEW cap, TypesInv(ps, rs, fr, q, c),
           \A k \in 1 .. Len(rs) : rs[k].cap # cap
    PROVE  NotDue(ps, rs, q, c, cap)
  BY TypesFacts DEF NotDue

\* The first half of resolve and reject: the flag of an unused pair is set.
LEMMA FlagInv ==
    ASSUME NEW ps, NEW rs, NEW fr, NEW q, NEW c, Inv(ps, rs, fr, q, c),
           NEW p, NEW i, Made(ps, p, i), ~ps[p].resolved[i], NotDue(ps, rs, q, c, <<p, i>>),
           NEW set \in Seq(PromiseType(Len(rs))), FlagSet(ps, set, p, i)
    PROVE  /\ Inv(set, rs, fr, q, c) /\ Open(set, p) = {} /\ Awaits(q, p) = {}
           /\ p \in 1 .. Len(set) /\ Len(set) = Len(ps) /\ set[p].state = "pending"
<1> DEFINE m == Len(ps)
           n == Len(rs)
<1>1. TypesInv(ps, rs, fr, q, c) /\ ReactionsInv(ps, rs) /\ OneInv(ps, q, c) /\ ListsInv(ps, rs, fr)
      /\ QueueInv(ps, rs, fr, q, c)
  BY DEF Inv
<1>2. m \in Nat /\ n \in Nat /\ ps \in Seq(PromiseType(n)) /\ p \in 1 .. m /\ i \in Open(ps, p)
  BY <1>1, TypesFacts DEF TypesInv, Made, Open
<1>3. /\ set \in Seq(PromiseType(n)) /\ Len(set) = m
      /\ \A r \in 1 .. m : r # p => set[r] = ps[r]
      /\ set[p].state = ps[p].state /\ set[p].result = ps[p].result
      /\ set[p].fulfillReactions = ps[p].fulfillReactions
      /\ set[p].rejectReactions = ps[p].rejectReactions
      /\ Len(set[p].resolved) = Len(ps[p].resolved)
      /\ \A j \in 1 .. Len(ps[p].resolved) : set[p].resolved[j] <=> j = i \/ ps[p].resolved[j]
  BY DEF FlagSet, Alike, SameButPairs
<1>4. /\ ps[p].state = "pending" /\ Open(ps, p) = {i} /\ Awaits(q, p) = {}
  BY <1>1, <1>2 DEF OneInv
<1>5. Open(set, p) = {}
  BY <1>3, <1>4 DEF Open
<1>6. \A r \in 1 .. m : /\ set[r].state = ps[r].state /\ set[r].result = ps[r].result
                        /\ set[r].fulfillReactions = ps[r].fulfillReactions
                        /\ set[r].rejectReactions = ps[r].rejectReactions
                        /\ Len(set[r].resolved) = Len(ps[r].resolved)
                        /\ r # p => Open(set, r) = Open(ps, r)
  BY <1>3 DEF Open
<1>7. TypesInv(set, rs, fr, q, c)
  BY <1>1, <1>3, <1>6 DEF TypesInv
<1>8. ReactionsInv(set, rs)
  <2>1. \A r \in 1 .. m : /\ Len(ps[r].resolved) \in Nat /\ Len(set[r].resolved) \in Nat
                          /\ Len(ps[r].resolved) <= Len(set[r].resolved)
    BY <1>1, <1>6, TypesFacts
  <2> QED
    BY <1>1, <1>2, <1>3, <2>1, ReactionsFrame
<1>9. OneInv(set, q, c)
  <2>1. ASSUME NEW r \in 1 .. m
        PROVE  /\ \A k, j \in Open(set, r) : k = j
               /\ \A k, j \in Awaits(q, r) : k = j
               /\ Awaits(q, r) # {} => Open(set, r) = {}
               /\ set[r].state # "pending" => Open(set, r) = {} /\ Awaits(q, r) = {}
    BY <1>1, <1>4, <1>5, <1>6 DEF OneInv
  <2>2. c.kind = "thenable" => Len(set[c.subject].resolved) >= 2
    BY <1>1, <1>6, TypesFacts DEF OneInv
  <2> QED
    BY <1>3, <2>1, <2>2 DEF OneInv
<1>10. ASSUME NEW k \in 1 .. n, rs[k].cap # <<p, i>>, ~ps[rs[k].cap[1]].resolved[1]
       PROVE  ~set[rs[k].cap[1]].resolved[1]
  <2>1. rs[k].cap[1] \in 1 .. m /\ rs[k].cap = <<rs[k].cap[1], 1>>
    BY <1>1 DEF ReactionsInv
  <2>2. CASE rs[k].cap[1] # p
    BY <1>3, <1>10, <2>1, <2>2
  <2>3. CASE rs[k].cap[1] = p
    <3>1. i # 1 /\ 1 \in 1 .. Len(ps[p].resolved)
      BY <1>1, <1>2, <1>10, <2>1, <2>3, TypesFacts
    <3> QED
      BY <1>3, <1>10, <2>3, <3>1
  <2> QED
    BY <2>2, <2>3
<1>11. ListsInv(set, rs, fr)
  <2>1. ASSUME NEW r \in 1 .. m, ps[r].state = "pending"
        PROVE  /\ ListInv(set, rs, fr, r, ps[r].fulfillReactions, "fulfilled")
               /\ ListInv(set, rs, fr, r, ps[r].rejectReactions, "rejected")
    <3>1. /\ ListInv(ps, rs, fr, r, ps[r].fulfillReactions, "fulfilled")
          /\ ListInv(ps, rs, fr, r, ps[r].rejectReactions, "rejected")
      BY <1>1, <2>1 DEF ListsInv
    <3>2. \A j \in 1 .. Len(ps[r].fulfillReactions) :
             ps[r].fulfillReactions[j] \in 1 .. n /\ rs[ps[r].fulfillReactions[j]].cap # <<p, i>>
      BY <1>1, <2>1, TypesFacts DEF NotDue
    <3>3. \A j \in 1 .. Len(ps[r].rejectReactions) :
             ps[r].rejectReactions[j] \in 1 .. n /\ rs[ps[r].rejectReactions[j]].cap # <<p, i>>
      BY <1>1, <2>1, TypesFacts DEF NotDue
    <3>4. \A j \in 1 .. Len(ps[r].fulfillReactions) :
             /\ ps[r].fulfillReactions[j] \notin fr
             /\ ~set[rs[ps[r].fulfillReactions[j]].cap[1]].resolved[1]
      BY <3>1, <3>2, <1>10 DEF ListInv, WaitsFor
    <3>5. \A j \in 1 .. Len(ps[r].rejectReactions) :
             /\ ps[r].rejectReactions[j] \notin fr
             /\ ~set[rs[ps[r].rejectReactions[j]].cap[1]].resolved[1]
      BY <3>1, <3>3, <1>10 DEF ListInv, WaitsFor
    <3> QED
      BY <3>1, <3>4, <3>5, ListFrame
  <2> QED
    BY <2>1, <1>3, <1>6 DEF ListsInv
<1>12. QueueInv(set, rs, fr, q, c)
  <2>1. \A k \in 1 .. n : rs[k].of \in 1 .. m
    BY <1>1 DEF ReactionsInv
  <2>2. ASSUME NEW t, t.subject \in 1 .. n, rs[t.subject].cap # <<p, i>>, Ready(ps, rs, fr, t)
        PROVE  Ready(set, rs, fr, t)
    BY <2>1, <2>2, <1>6, <1>10 DEF Ready
  <2>3. \A j \in 1 .. Len(q) : q[j].kind = "reaction" =>
           q[j].subject \in 1 .. n /\ rs[q[j].subject].cap # <<p, i>>
    BY <1>1, TypesFacts DEF NotDue
  <2>4. c.kind = "reaction" => c.subject \in 1 .. n /\ rs[c.subject].cap # <<p, i>>
    BY <1>1, TypesFacts DEF NotDue
  <2> QED
    BY <1>1, <2>2, <2>3, <2>4 DEF QueueInv
<1> QED
  BY <1>2, <1>3, <1>4, <1>5, <1>7, <1>8, <1>9, <1>11, <1>12 DEF Inv

\* A promise without an open pair that is resolved with a thenable waits for it.
LEMMA AwaitInv ==
    ASSUME NEW ps, NEW rs, NEW fr, NEW q, NEW c, Inv(ps, rs, fr, q, c),
           NEW p \in 1 .. Len(ps), ps[p].state = "pending", Open(ps, p) = {}, Awaits(q, p) = {},
           NEW x \in Thenable \union 1 .. Len(ps)
    PROVE  Inv(ps, rs, fr, Append(q, ThenableTask(p, x)), c)
<1> DEFINE t == ThenableTask(p, x)
           q2 == Append(q, t)
<1>1. TypesInv(ps, rs, fr, q, c) /\ ReactionsInv(ps, rs) /\ OneInv(ps, q, c) /\ ListsInv(ps, rs, fr)
      /\ QueueInv(ps, rs, fr, q, c)
  BY DEF Inv
<1>2. t \in Tasks(Len(rs), Len(ps)) /\ t.kind = "thenable" /\ t.subject = p
  BY DEF ThenableTask, Tasks
<1> HIDE DEF t
<1>3. q \in Seq(Tasks(Len(rs), Len(ps)))
  BY <1>1 DEF TypesInv
<1>4. /\ q2 \in Seq(Tasks(Len(rs), Len(ps))) /\ Len(q2) = Len(q) + 1 /\ Len(q) \in Nat
      /\ q2[Len(q) + 1] = t /\ \A i \in 1 .. Len(q) : q2[i] = q[i]
  BY <1>2, <1>3, AppendFacts
<1> HIDE DEF q2
<1>5. TypesInv(ps, rs, fr, q2, c)
  BY <1>1, <1>4 DEF TypesInv
<1>6. OneInv(ps, q2, c)
  <2>1. \A r \in 1 .. Len(ps) : r # p => Awaits(q2, r) = Awaits(q, r)
    BY <1>2, <1>4 DEF Awaits
  <2>2. Awaits(q2, p) = {Len(q) + 1}
    BY <1>2, <1>4 DEF Awaits
  <2> QED
    BY <1>1, <2>1, <2>2 DEF OneInv
<1>7. QueueInv(ps, rs, fr, q2, c)
  <2>1. \A i \in 1 .. Len(q2) : q2[i].kind = "reaction" => i \in 1 .. Len(q) /\ q2[i] = q[i]
    BY <1>2, <1>4
  <2> QED
    BY <1>1, <2>1 DEF QueueInv
<1> QED
  BY <1>1, <1>5, <1>6, <1>7 DEF Inv, q2, t

\* The tasks for a list of reactions.
LEMMA ReactionTasksFacts ==
    ASSUME NEW n \in Nat, NEW m \in Nat, NEW list \in Seq(1 .. n), NEW x \in Value,
           NEW q \in Seq(Tasks(n, m))
    PROVE  /\ q \o ReactionTasks(list, x) \in Seq(Tasks(n, m))
           /\ TasksAdded(q, q \o ReactionTasks(list, x), list, x)
<1> DEFINE rt == ReactionTasks(list, x)
           q2 == q \o rt
<1>1. Len(list) \in Nat /\ \A i \in 1 .. Len(list) : list[i] \in 1 .. n
  OBVIOUS
<1>2. \A k \in 1 .. n : /\ ReactionTask(k, x) \in Tasks(n, m)
                        /\ ReactionTask(k, x).kind = "reaction" /\ ReactionTask(k, x).subject = k
                        /\ ReactionTask(k, x).arg = x /\ ~ReactionTask(k, x).called
  BY DEF ReactionTask, Tasks
<1>3. rt = [i \in 1 .. Len(list) |-> ReactionTask(list[i], x)]
  BY DEF ReactionTasks
<1>4. /\ rt \in Seq(Tasks(n, m)) /\ Len(rt) = Len(list)
      /\ \A i \in 1 .. Len(list) : rt[i] = ReactionTask(list[i], x)
  <2> HIDE DEF rt
  <2>1. \A i \in 1 .. Len(list) : ReactionTask(list[i], x) \in Tasks(n, m)
    BY <1>1, <1>2
  <2>2. rt \in [1 .. Len(list) -> Tasks(n, m)]
    BY <1>3, <2>1
  <2> QED
    BY <1>1, <1>3, <2>2
<1> HIDE DEF rt
<1>5. /\ q2 \in Seq(Tasks(n, m)) /\ Len(q2) = Len(q) + Len(rt) /\ Len(q) \in Nat
      /\ \A i \in 1 .. Len(q) + Len(rt) : q2[i] = IF i <= Len(q) THEN q[i] ELSE rt[i - Len(q)]
  <2>1. /\ q \o rt \in Seq(Tasks(n, m)) /\ Len(q \o rt) = Len(q) + Len(rt)
        /\ \A i \in 1 .. Len(q) + Len(rt) : (q \o rt)[i] = IF i <= Len(q) THEN q[i] ELSE rt[i - Len(q)]
    BY <1>4, ConcatProperties, Zenon
  <2> QED
    BY <2>1
<1> HIDE DEF q2
<1>6. \A i \in 1 .. Len(q) : q2[i] = q[i]
  BY <1>1, <1>4, <1>5
<1>7. ASSUME NEW i \in 1 .. Len(list)
      PROVE  q2[Len(q) + i] = rt[i]
  <2>1. Len(q) + i \in 1 .. Len(q) + Len(rt) /\ ~(Len(q) + i <= Len(q)) /\ (Len(q) + i) - Len(q) = i
    BY <1>1, <1>4, <1>5
  <2> QED
    BY <1>5, <2>1
<1>8. TasksAdded(q, q2, list, x)
  BY <1>1, <1>2, <1>4, <1>5, <1>6, <1>7 DEF TasksAdded
<1> QED
  BY <1>5, <1>8 DEF q2, rt

\* The second half: the promise is settled, and the tasks of its reactions follow
\* those in the queue.
LEMMA SettleInv ==
    ASSUME NEW ps, NEW rs, NEW fr, NEW q, NEW c, Inv(ps, rs, fr, q, c),
           NEW p \in 1 .. Len(ps), ps[p].state = "pending", Open(ps, p) = {}, Awaits(q, p) = {},
           NEW x \in Value, NEW st \in {"fulfilled", "rejected"},
           NEW list, list = IF st = "fulfilled" THEN ps[p].fulfillReactions ELSE ps[p].rejectReactions,
           NEW ps2 \in Seq(PromiseType(Len(rs))), SettledWith(ps, ps2, p, st, x),
           NEW q2 \in Seq(Tasks(Len(rs), Len(ps))), TasksAdded(q, q2, list, x)
    PROVE  Inv(ps2, rs, fr, q2, c)
<1> DEFINE m == Len(ps)
           n == Len(rs)
<1>1. TypesInv(ps, rs, fr, q, c) /\ ReactionsInv(ps, rs) /\ OneInv(ps, q, c) /\ ListsInv(ps, rs, fr)
      /\ QueueInv(ps, rs, fr, q, c)
  BY DEF Inv
<1>2. /\ m \in Nat /\ n \in Nat /\ ps \in Seq(PromiseType(n)) /\ q \in Seq(Tasks(n, m))
      /\ list \in Seq(1 .. n) /\ \A i \in 1 .. Len(list) : list[i] \in 1 .. n
  BY <1>1, TypesFacts DEF TypesInv
<1>3. /\ ps2 \in Seq(PromiseType(n)) /\ Len(ps2) = m
      /\ \A r \in 1 .. m : r # p => ps2[r] = ps[r]
      /\ ps2[p].state = st /\ ps2[p].result = x /\ ps2[p].resolved = ps[p].resolved
  BY DEF SettledWith, Alike
<1>4. /\ ListInv(ps, rs, fr, p, list, st)
  BY <1>1 DEF ListsInv
<1>5. /\ q2 \in Seq(Tasks(n, m)) /\ Len(q) \in Nat /\ Len(list) \in Nat
      /\ Len(q2) = Len(q) + Len(list)
      /\ \A i \in 1 .. Len(q) : q2[i] = q[i]
      /\ \A i \in 1 .. Len(list) : /\ q2[Len(q) + i].kind = "reaction"
                                   /\ q2[Len(q) + i].subject = list[i]
                                   /\ q2[Len(q) + i].arg = x
  BY DEF TasksAdded
<1>6. \A r \in 1 .. m : ps2[r].resolved = ps[r].resolved /\ Open(ps2, r) = Open(ps, r)
  BY <1>3 DEF Open
<1>7. TypesInv(ps2, rs, fr, q2, c)
  BY <1>1, <1>3, <1>5, <1>6 DEF TypesInv
<1>8. ReactionsInv(ps2, rs)
  <2>1. \A r \in 1 .. m : /\ Len(ps[r].resolved) \in Nat /\ Len(ps2[r].resolved) \in Nat
                          /\ Len(ps[r].resolved) <= Len(ps2[r].resolved)
    <3>1. \A r \in 1 .. m : Len(ps[r].resolved) \in Nat
      BY <1>1, TypesFacts
    <3> QED
      BY <3>1, <1>6
  <2>2. Len(ps2) \in Nat /\ Len(ps) <= Len(ps2)
    BY <1>2, <1>3
  <2> QED
    BY <1>1, <1>2, <2>1, <2>2, ReactionsFrame
<1>9. \A i \in 1 .. Len(q2) : \/ i \in 1 .. Len(q) /\ q2[i] = q[i]
                              \/ i - Len(q) \in 1 .. Len(list) /\ i = Len(q) + (i - Len(q))
  BY <1>5
<1>10. OneInv(ps2, q2, c)
  <2>1. ASSUME NEW r \in 1 .. m
        PROVE  Awaits(q2, r) = Awaits(q, r)
    <3>1. \A i \in 1 .. Len(q2) : q2[i].kind = "thenable" => i \in 1 .. Len(q) /\ q2[i] = q[i]
      BY <1>5, <1>9
    <3>2. \A i \in 1 .. Len(q) : i \in 1 .. Len(q2) /\ q2[i] = q[i]
      BY <1>5
    <3> QED
      BY <3>1, <3>2 DEF Awaits
  <2>2. ASSUME NEW r \in 1 .. m
        PROVE  /\ \A k, j \in Open(ps2, r) : k = j
               /\ \A k, j \in Awaits(q2, r) : k = j
               /\ Awaits(q2, r) # {} => Open(ps2, r) = {}
               /\ ps2[r].state # "pending" => Open(ps2, r) = {} /\ Awaits(q2, r) = {}
    BY <1>1, <1>3, <1>6, <2>1 DEF OneInv
  <2>3. c.kind = "thenable" => Len(ps2[c.subject].resolved) >= 2
    BY <1>1, <1>6, TypesFacts DEF OneInv
  <2> QED
    BY <1>3, <2>2, <2>3 DEF OneInv
<1>11. ListsInv(ps2, rs, fr)
  <2>1. ASSUME NEW r \in 1 .. m, ps2[r].state = "pending"
        PROVE  /\ ListInv(ps2, rs, fr, r, ps2[r].fulfillReactions, "fulfilled")
               /\ ListInv(ps2, rs, fr, r, ps2[r].rejectReactions, "rejected")
    <3>1. r # p /\ ps2[r] = ps[r] /\ ps[r].state = "pending"
      BY <1>3, <2>1
    <3>2. /\ ListInv(ps, rs, fr, r, ps[r].fulfillReactions, "fulfilled")
          /\ ListInv(ps, rs, fr, r, ps[r].rejectReactions, "rejected")
      BY <1>1, <3>1 DEF ListsInv
    <3>3. \A k \in 1 .. n : ps2[rs[k].cap[1]].resolved = ps[rs[k].cap[1]].resolved
      BY <1>1, <1>6 DEF ReactionsInv
    <3>4. /\ \A j \in 1 .. Len(ps[r].fulfillReactions) : ps[r].fulfillReactions[j] \in 1 .. n
          /\ \A j \in 1 .. Len(ps[r].rejectReactions) : ps[r].rejectReactions[j] \in 1 .. n
      BY <1>1, TypesFacts
    <3>5. /\ \A j \in 1 .. Len(ps[r].fulfillReactions) :
                /\ ps[r].fulfillReactions[j] \notin fr
                /\ ~ps2[rs[ps[r].fulfillReactions[j]].cap[1]].resolved[1]
          /\ \A j \in 1 .. Len(ps[r].rejectReactions) :
                /\ ps[r].rejectReactions[j] \notin fr
                /\ ~ps2[rs[ps[r].rejectReactions[j]].cap[1]].resolved[1]
      BY <3>2, <3>3, <3>4 DEF ListInv, WaitsFor
    <3> QED
      BY <3>1, <3>2, <3>5, ListFrame
  <2> QED
    BY <1>3, <2>1 DEF ListsInv
<1>12. QueueInv(ps2, rs, fr, q2, c)
  <2>1. \A k \in 1 .. n : /\ rs[k].of \in 1 .. m /\ rs[k].cap[1] \in 1 .. m
                          /\ ps2[rs[k].cap[1]].resolved = ps[rs[k].cap[1]].resolved
    BY <1>1, <1>6 DEF ReactionsInv
  <2>2. ASSUME NEW t, t.subject \in 1 .. n, Ready(ps, rs, fr, t)
        PROVE  Ready(ps2, rs, fr, t) /\ rs[t.subject].of # p
    BY <2>1, <2>2, <1>3 DEF Ready
  <2>3. ASSUME NEW i \in 1 .. Len(list)
        PROVE  /\ Ready(ps2, rs, fr, q2[Len(q) + i])
               /\ list[i] \in 1 .. n /\ rs[list[i]].of = p
    <3>1. WaitsFor(ps, rs, fr, p, list[i], st) /\ list[i] \in 1 .. n
      BY <1>2, <1>4 DEF ListInv
    <3> QED
      <4>1. q2[Len(q) + i].subject = list[i] /\ q2[Len(q) + i].arg = x
        BY <1>5
      <4>2. rs[list[i]].of = p /\ list[i] \notin fr /\ rs[list[i]].handler.kind \in KindsFor(st)
            /\ ~ps2[rs[list[i]].cap[1]].resolved[1]
        BY <3>1, <2>1 DEF WaitsFor
      <4> QED
        BY <3>1, <4>1, <4>2, <1>3 DEF Ready
  <2>4. ASSUME NEW t, t.subject \in 1 .. n, Ready(ps, rs, fr, t), NEW i \in 1 .. Len(list)
        PROVE  Before(rs, t, q2[Len(q) + i])
    <3>1. rs[t.subject].of # rs[list[i]].of /\ list[i] \in 1 .. n
      BY <2>2, <2>3, <2>4
    <3>2. rs[t.subject].cap # rs[list[i]].cap
      BY <3>1, <2>4, <1>1 DEF ReactionsInv
    <3> QED
      BY <3>1, <3>2, <1>5 DEF Before
  <2>5. ASSUME NEW i \in 1 .. Len(list), NEW j \in 1 .. Len(list), i < j
        PROVE  Before(rs, q2[Len(q) + i], q2[Len(q) + j])
    <3>1. q2[Len(q) + i].subject = list[i] /\ q2[Len(q) + j].subject = list[j]
      BY <1>5
    <3>2. list[i] < list[j] /\ rs[list[i]].cap # rs[list[j]].cap
      BY <2>5, <1>4 DEF ListInv
    <3> QED
      BY <3>1, <3>2 DEF Before
  <2>6. \A i \in 1 .. Len(q) : q[i].kind = "reaction" => q[i].subject \in 1 .. n /\ Ready(ps, rs, fr, q[i])
    BY <1>1, TypesFacts DEF QueueInv
  <2>7. c.kind = "reaction" => c.subject \in 1 .. n /\ Ready(ps, rs, fr, c)
    BY <1>1, TypesFacts DEF QueueInv
  <2>8. ASSUME NEW i \in 1 .. Len(q2), q2[i].kind = "reaction"
        PROVE  Ready(ps2, rs, fr, q2[i])
    BY <2>8, <1>9, <2>2, <2>3, <2>6
  <2>9. ASSUME NEW i \in 1 .. Len(q2), NEW j \in 1 .. Len(q2), i < j,
               q2[i].kind = "reaction", q2[j].kind = "reaction"
        PROVE  Before(rs, q2[i], q2[j])
    <3>1. CASE i \in 1 .. Len(q) /\ j \in 1 .. Len(q)
      BY <3>1, <2>9, <1>1, <1>5 DEF QueueInv
    <3>2. CASE i \in 1 .. Len(q) /\ j - Len(q) \in 1 .. Len(list)
      <4>1. Before(rs, q[i], q2[Len(q) + (j - Len(q))])
        BY <3>2, <2>9, <1>5, <2>6, <2>4
      <4>2. Len(q) + (j - Len(q)) = j
        BY <1>5
      <4> QED
        BY <3>2, <4>1, <4>2, <1>5
    <3>3. CASE i - Len(q) \in 1 .. Len(list) /\ j - Len(q) \in 1 .. Len(list)
      <4>1. Before(rs, q2[Len(q) + (i - Len(q))], q2[Len(q) + (j - Len(q))])
        <5>1. i - Len(q) < j - Len(q)
          BY <1>5, <2>9
        <5> QED
          BY <3>3, <2>5, <5>1
      <4>2. Len(q) + (j - Len(q)) = j /\ Len(q) + (i - Len(q)) = i
        BY <1>5
      <4> QED
        BY <4>1, <4>2
    <3> QED
      BY <3>1, <3>2, <3>3, <2>9, <1>5, <1>9
  <2>10. ASSUME c.kind = "reaction"
         PROVE  /\ Ready(ps2, rs, fr, c)
                /\ \A j \in 1 .. Len(q2) : q2[j].kind = "reaction" => Before(rs, c, q2[j])
    <3>1. ASSUME NEW j \in 1 .. Len(q2), q2[j].kind = "reaction"
          PROVE  Before(rs, c, q2[j])
      <4>1. CASE j \in 1 .. Len(q)
        BY <4>1, <3>1, <2>10, <1>1, <1>5 DEF QueueInv
      <4>2. CASE j - Len(q) \in 1 .. Len(list)
        <5>1. Before(rs, c, q2[Len(q) + (j - Len(q))])
          BY <4>2, <2>4, <2>7, <2>10
        <5>2. Len(q) + (j - Len(q)) = j
          BY <1>5
        <5> QED
          BY <5>1, <5>2
      <4> QED
        BY <4>1, <4>2, <1>9
    <3> QED
      BY <2>2, <2>7, <2>10, <3>1
  <2> QED
    BY <2>8, <2>9, <2>10 DEF QueueInv
<1> QED
  BY <1>7, <1>8, <1>10, <1>11, <1>12 DEF Inv

\* A handler is a function of the user, one of the stand-ins, or a function of a
\* pair that a thenable task has made.
HandlerOK(ps, h) ==
    /\ h \in [kind : Kinds, pair : Nat \X Nat]
    /\ h.kind \in {"resolve", "reject"} =>
          /\ Made(ps, h.pair[1], h.pair[2]) /\ h.pair[2] >= 2
          /\ h.pair = <<h.pair[1], h.pair[2]>>
    /\ h.kind \notin {"resolve", "reject"} => h.pair = NoPair

\* A reaction that is in no list yet.
LEMMA AddReactionInv ==
    ASSUME NEW ps, NEW rs, NEW fr, NEW q, NEW c, Inv(ps, rs, fr, q, c),
           NEW rec \in ReactionType, rec.of \in 1 .. Len(ps), HandlerOK(ps, rec.handler),
           NEW a \in 1 .. Len(ps), rec.cap = <<a, 1>>,
           \A k \in 1 .. Len(rs) : rs[k].cap = rec.cap => rs[k].of = rec.of
    PROVE  /\ Inv(ps, Append(rs, rec), fr, q, c)
           /\ Len(Append(rs, rec)) = Len(rs) + 1 /\ Append(rs, rec)[Len(rs) + 1] = rec
           /\ \A k \in 1 .. Len(rs) : Append(rs, rec)[k] = rs[k]
<1> DEFINE rs2 == Append(rs, rec)
           m == Len(ps)
           n == Len(rs)
<1>1. TypesInv(ps, rs, fr, q, c) /\ ReactionsInv(ps, rs) /\ OneInv(ps, q, c) /\ ListsInv(ps, rs, fr)
      /\ QueueInv(ps, rs, fr, q, c)
  BY DEF Inv
<1>2. m \in Nat /\ n \in Nat /\ rs \in Seq(ReactionType) /\ fr \subseteq 1 .. n
  BY <1>1, TypesFacts DEF TypesInv
<1>3. /\ rs2 \in Seq(ReactionType) /\ Len(rs2) = n + 1 /\ rs2[n + 1] = rec
      /\ \A k \in 1 .. n : rs2[k] = rs[k]
  BY <1>2, AppendFacts
<1> HIDE DEF rs2
<1>4. TypesInv(ps, rs2, fr, q, c)
  <2>1. /\ Seq(PromiseType(n)) \subseteq Seq(PromiseType(n + 1))
        /\ Tasks(n, m) \subseteq Tasks(n + 1, m) /\ Seq(Tasks(n, m)) \subseteq Seq(Tasks(n + 1, m))
    <3>1. n + 1 \in Nat /\ n <= n + 1 /\ m <= m
      BY <1>2
    <3> QED
      BY <1>2, <3>1, TypesGrow
  <2>2. 1 .. n \subseteq 1 .. n + 1
    BY <1>2
  <2> QED
    BY <1>1, <1>3, <2>1, <2>2 DEF TypesInv
<1>5. ReactionsInv(ps, rs2)
  <2>1. \A k \in 1 .. n + 1 : (k \in 1 .. n /\ rs2[k] = rs[k]) \/ (k = n + 1 /\ rs2[k] = rec)
    <3> SUFFICES ASSUME NEW k \in 1 .. n + 1
                 PROVE  (k \in 1 .. n /\ rs2[k] = rs[k]) \/ (k = n + 1 /\ rs2[k] = rec)
      OBVIOUS
    <3>1. CASE k \in 1 .. n
      BY <3>1, <1>3
    <3>2. CASE k = n + 1
      BY <3>2, <1>3
    <3> QED
      BY <3>1, <3>2, <1>2
  <2>2. /\ rec.cap[1] \in 1 .. m /\ rec.cap[2] = 1 /\ rec.cap = <<rec.cap[1], 1>>
    OBVIOUS
  <2>3. ASSUME NEW k \in 1 .. n + 1
        PROVE  /\ rs2[k].of \in 1 .. Len(ps)
               /\ rs2[k].cap[1] \in 1 .. Len(ps) /\ rs2[k].cap[2] = 1 /\ rs2[k].cap = <<rs2[k].cap[1], 1>>
               /\ HandlerOK(ps, rs2[k].handler)
    <3>1. CASE k = n + 1
      BY <3>1, <2>2, <1>3
    <3>2. CASE k \in 1 .. n
      <4>0. rs2[k] = rs[k] /\ rs[k] \in ReactionType
        BY <3>2, <1>2, <1>3
      <4>1. rs2[k] = rs[k] /\ rs[k].handler \in [kind : Kinds, pair : Nat \X Nat]
        BY <4>0 DEF ReactionType
      <4> QED
        BY <3>2, <4>1, <1>1 DEF ReactionsInv, HandlerOK
    <3> QED
      BY <2>1, <3>1, <3>2
  <2>4. \A k, l \in 1 .. n + 1 : rs2[k].cap = rs2[l].cap => rs2[k].of = rs2[l].of
    <3>1. \A k, l \in 1 .. n : rs[k].cap = rs[l].cap => rs[k].of = rs[l].of
      BY <1>1 DEF ReactionsInv
    <3> QED
      BY <2>1, <3>1
  <2> QED
    BY <1>3, <2>3, <2>4 DEF ReactionsInv, HandlerOK
<1>6. ListsInv(ps, rs2, fr)
  <2>1. ASSUME NEW p, NEW list, NEW st, \A i \in 1 .. Len(list) : list[i] \in 1 .. n,
               ListInv(ps, rs, fr, p, list, st)
        PROVE  ListInv(ps, rs2, fr, p, list, st)
    BY <2>1, <1>3 DEF ListInv, WaitsFor
  <2> QED
    BY <1>1, <2>1, TypesFacts DEF ListsInv
<1>7. QueueInv(ps, rs2, fr, q, c)
  <2>1. \A t : t.subject \in 1 .. n /\ Ready(ps, rs, fr, t) => Ready(ps, rs2, fr, t)
    BY <1>3 DEF Ready
  <2>2. \A t, u : t.subject \in 1 .. n /\ u.subject \in 1 .. n /\ Before(rs, t, u) => Before(rs2, t, u)
    BY <1>3 DEF Before
  <2>3. /\ \A i \in 1 .. Len(q) : q[i].kind = "reaction" => q[i].subject \in 1 .. n
        /\ c.kind = "reaction" => c.subject \in 1 .. n
    BY <1>1, TypesFacts
  <2> QED
    BY <1>1, <2>1, <2>2, <2>3 DEF QueueInv
<1> QED
  BY <1>1, <1>3, <1>4, <1>5, <1>6, <1>7 DEF Inv, rs2

\* The task of one more reaction.
LEMMA AddTaskInv ==
    ASSUME NEW ps, NEW rs, NEW fr, NEW q, NEW c, Inv(ps, rs, fr, q, c),
           NEW t \in Tasks(Len(rs), Len(ps)), t.kind = "reaction", Ready(ps, rs, fr, t),
           \A i \in 1 .. Len(q) : q[i].kind = "reaction" => Before(rs, q[i], t),
           c.kind = "reaction" => Before(rs, c, t)
    PROVE  Inv(ps, rs, fr, Append(q, t), c)
<1> DEFINE q2 == Append(q, t)
<1>1. TypesInv(ps, rs, fr, q, c) /\ ReactionsInv(ps, rs) /\ OneInv(ps, q, c) /\ ListsInv(ps, rs, fr)
      /\ QueueInv(ps, rs, fr, q, c)
  BY DEF Inv
<1>2. q \in Seq(Tasks(Len(rs), Len(ps)))
  BY <1>1 DEF TypesInv
<1>3. /\ q2 \in Seq(Tasks(Len(rs), Len(ps))) /\ Len(q2) = Len(q) + 1 /\ Len(q) \in Nat
      /\ q2[Len(q) + 1] = t /\ \A i \in 1 .. Len(q) : q2[i] = q[i]
  BY <1>2, AppendFacts
<1> HIDE DEF q2
<1>4. TypesInv(ps, rs, fr, q2, c)
  BY <1>1, <1>3 DEF TypesInv
<1>5. \A i \in 1 .. Len(q2) : (i \in 1 .. Len(q) /\ q2[i] = q[i]) \/ (i = Len(q) + 1 /\ q2[i] = t)
  <2> SUFFICES ASSUME NEW i \in 1 .. Len(q2)
               PROVE  (i \in 1 .. Len(q) /\ q2[i] = q[i]) \/ (i = Len(q) + 1 /\ q2[i] = t)
    OBVIOUS
  <2>1. CASE i \in 1 .. Len(q)
    BY <2>1, <1>3
  <2>2. CASE i = Len(q) + 1
    BY <2>2, <1>3
  <2> QED
    BY <2>1, <2>2, <1>3
<1>6. OneInv(ps, q2, c)
  <2>1. \A r \in 1 .. Len(ps) : Awaits(q2, r) = Awaits(q, r)
    BY <1>3, <1>5 DEF Awaits
  <2> QED
    BY <1>1, <2>1 DEF OneInv
<1>7. QueueInv(ps, rs, fr, q2, c)
  <2>1. ASSUME NEW i \in 1 .. Len(q2), NEW j \in 1 .. Len(q2), i < j,
               q2[i].kind = "reaction", q2[j].kind = "reaction"
        PROVE  Before(rs, q2[i], q2[j])
    <3>1. CASE j \in 1 .. Len(q) /\ q2[j] = q[j]
      <4>1. i \in 1 .. Len(q) /\ q2[i] = q[i]
        BY <3>1, <2>1, <1>3, <1>5
      <4> QED
        BY <3>1, <4>1, <2>1, <1>1 DEF QueueInv
    <3>2. CASE j = Len(q) + 1 /\ q2[j] = t
      <4>1. i \in 1 .. Len(q) /\ q2[i] = q[i]
        BY <3>2, <2>1, <1>3, <1>5
      <4> QED
        BY <3>2, <4>1, <2>1
    <3> QED
      BY <3>1, <3>2, <1>5
  <2>2. \A i \in 1 .. Len(q2) : q2[i].kind = "reaction" => Ready(ps, rs, fr, q2[i])
    BY <1>1, <1>5 DEF QueueInv
  <2>3. c.kind = "reaction" => /\ Ready(ps, rs, fr, c)
                               /\ \A j \in 1 .. Len(q2) : q2[j].kind = "reaction" => Before(rs, c, q2[j])
    BY <1>1, <1>5 DEF QueueInv
  <2> QED
    BY <2>1, <2>2, <2>3 DEF QueueInv
<1> QED
  BY <1>1, <1>4, <1>6, <1>7 DEF Inv, q2

\* Promise p gets a reaction in each of its lists.
ListsLonger(ps, ps2, p, kf, kr) ==
    /\ Alike(ps, ps2, p)
    /\ ps2[p].state = ps[p].state /\ ps2[p].result = ps[p].result /\ ps2[p].resolved = ps[p].resolved
    /\ ps2[p].fulfillReactions = Append(ps[p].fulfillReactions, kf)
    /\ ps2[p].rejectReactions = Append(ps[p].rejectReactions, kr)

\* Reaction k comes after those of a list, for another call of then.
After(rs, list, k) == \A i \in 1 .. Len(list) : list[i] < k /\ rs[list[i]].cap # rs[k].cap

LEMMA LongerList ==
    ASSUME NEW n \in Nat, NEW ps, NEW rs, NEW fr, NEW p, NEW list \in Seq(1 .. n), NEW st,
           ListInv(ps, rs, fr, p, list, st),
           NEW k \in 1 .. n, WaitsFor(ps, rs, fr, p, k, st), After(rs, list, k)
    PROVE  ListInv(ps, rs, fr, p, Append(list, k), st)
<1> DEFINE list2 == Append(list, k)
<1>1. /\ Len(list2) = Len(list) + 1 /\ Len(list) \in Nat /\ list2[Len(list) + 1] = k
      /\ \A i \in 1 .. Len(list) : list2[i] = list[i]
  BY AppendFacts
<1> HIDE DEF list2
<1>2. \A i \in 1 .. Len(list2) : i \in 1 .. Len(list) \/ i = Len(list) + 1
  BY <1>1
<1>3. \A i \in 1 .. Len(list2) : WaitsFor(ps, rs, fr, p, list2[i], st)
  BY <1>1, <1>2 DEF ListInv
<1>4. ASSUME NEW i \in 1 .. Len(list2), NEW j \in 1 .. Len(list2), i < j
      PROVE  list2[i] < list2[j] /\ rs[list2[i]].cap # rs[list2[j]].cap
  <2>1. i \in 1 .. Len(list)
    BY <1>1, <1>4
  <2>2. CASE j \in 1 .. Len(list)
    BY <2>1, <2>2, <1>1, <1>4 DEF ListInv
  <2>3. CASE j = Len(list) + 1
    BY <2>1, <2>3, <1>1 DEF After
  <2> QED
    BY <2>2, <2>3, <1>2
<1> QED
  BY <1>3, <1>4 DEF ListInv, list2

LEMMA AddToListsInv ==
    ASSUME NEW ps, NEW rs, NEW fr, NEW q, NEW c, Inv(ps, rs, fr, q, c),
           NEW p \in 1 .. Len(ps), ps[p].state = "pending",
           NEW kf \in 1 .. Len(rs), WaitsFor(ps, rs, fr, p, kf, "fulfilled"),
           NEW kr \in 1 .. Len(rs), WaitsFor(ps, rs, fr, p, kr, "rejected"),
           After(rs, ps[p].fulfillReactions, kf), After(rs, ps[p].rejectReactions, kr),
           NEW ps2 \in Seq(PromiseType(Len(rs))), ListsLonger(ps, ps2, p, kf, kr)
    PROVE  Inv(ps2, rs, fr, q, c)
<1> DEFINE m == Len(ps)
           n == Len(rs)
<1>1. TypesInv(ps, rs, fr, q, c) /\ ReactionsInv(ps, rs) /\ OneInv(ps, q, c) /\ ListsInv(ps, rs, fr)
      /\ QueueInv(ps, rs, fr, q, c)
  BY DEF Inv
<1>2. m \in Nat /\ n \in Nat
  BY <1>1, TypesFacts
<1>3. /\ Len(ps2) = m /\ \A r \in 1 .. m : r # p => ps2[r] = ps[r]
      /\ ps2[p].fulfillReactions = Append(ps[p].fulfillReactions, kf)
      /\ ps2[p].rejectReactions = Append(ps[p].rejectReactions, kr)
  BY DEF ListsLonger, Alike
<1>4. \A r \in 1 .. m : /\ ps2[r].state = ps[r].state /\ ps2[r].result = ps[r].result
                        /\ ps2[r].resolved = ps[r].resolved /\ Open(ps2, r) = Open(ps, r)
  BY <1>3 DEF ListsLonger, Open
<1>5. TypesInv(ps2, rs, fr, q, c)
  BY <1>1, <1>3, <1>4 DEF TypesInv
<1>6. ReactionsInv(ps2, rs)
  <2>1. \A r \in 1 .. m : Len(ps[r].resolved) \in Nat
    BY <1>1, TypesFacts
  <2>2. \A r \in 1 .. m : /\ Len(ps[r].resolved) \in Nat /\ Len(ps2[r].resolved) \in Nat
                          /\ Len(ps[r].resolved) <= Len(ps2[r].resolved)
    BY <2>1, <1>4
  <2> QED
    BY <1>1, <1>2, <1>3, <2>2, ReactionsFrame
<1>7. OneInv(ps2, q, c)
  <2>1. c.kind = "thenable" => Len(ps2[c.subject].resolved) >= 2
    BY <1>1, <1>4, TypesFacts DEF OneInv
  <2> QED
    BY <1>1, <1>3, <1>4, <2>1 DEF OneInv
<1>8. ASSUME NEW k \in 1 .. n
      PROVE  ps2[rs[k].cap[1]].resolved = ps[rs[k].cap[1]].resolved /\ rs[k].of \in 1 .. m
  BY <1>1, <1>4 DEF ReactionsInv
<1>9. ASSUME NEW r, NEW list \in Seq(1 .. n), NEW st, ListInv(ps, rs, fr, r, list, st)
      PROVE  ListInv(ps2, rs, fr, r, list, st)
  <2>1. \A i \in 1 .. Len(list) : list[i] \in 1 .. n
    OBVIOUS
  <2>2. \A i \in 1 .. Len(list) : list[i] \notin fr /\ ~ps2[rs[list[i]].cap[1]].resolved[1]
    BY <1>8, <1>9, <2>1 DEF ListInv, WaitsFor
  <2> QED
    BY <1>9, <2>2, ListFrame
<1>10. ListsInv(ps2, rs, fr)
  <2>1. ASSUME NEW r \in 1 .. m, ps[r].state = "pending", r # p
        PROVE  /\ ListInv(ps2, rs, fr, r, ps2[r].fulfillReactions, "fulfilled")
               /\ ListInv(ps2, rs, fr, r, ps2[r].rejectReactions, "rejected")
    <3>1. /\ ListInv(ps, rs, fr, r, ps[r].fulfillReactions, "fulfilled")
          /\ ListInv(ps, rs, fr, r, ps[r].rejectReactions, "rejected")
      BY <1>1, <2>1 DEF ListsInv
    <3>2. ps[r].fulfillReactions \in Seq(1 .. n) /\ ps[r].rejectReactions \in Seq(1 .. n)
      BY <1>1, TypesFacts
    <3> QED
      BY <1>3, <1>9, <2>1, <3>1, <3>2
  <2>2. /\ ListInv(ps2, rs, fr, p, ps2[p].fulfillReactions, "fulfilled")
        /\ ListInv(ps2, rs, fr, p, ps2[p].rejectReactions, "rejected")
    <3>1. /\ ListInv(ps, rs, fr, p, ps[p].fulfillReactions, "fulfilled")
          /\ ListInv(ps, rs, fr, p, ps[p].rejectReactions, "rejected")
      BY <1>1 DEF ListsInv
    <3>2. ps[p].fulfillReactions \in Seq(1 .. n) /\ ps[p].rejectReactions \in Seq(1 .. n)
      BY <1>1, TypesFacts
    <3>3. /\ ListInv(ps2, rs, fr, p, ps[p].fulfillReactions, "fulfilled")
          /\ ListInv(ps2, rs, fr, p, ps[p].rejectReactions, "rejected")
      BY <1>9, <3>1, <3>2
    <3>4. /\ WaitsFor(ps2, rs, fr, p, kf, "fulfilled") /\ WaitsFor(ps2, rs, fr, p, kr, "rejected")
      BY <1>8 DEF WaitsFor
    <3>5. /\ ListInv(ps2, rs, fr, p, Append(ps[p].fulfillReactions, kf), "fulfilled")
          /\ ListInv(ps2, rs, fr, p, Append(ps[p].rejectReactions, kr), "rejected")
      BY <1>2, <3>2, <3>3, <3>4, LongerList
    <3> QED
      BY <1>3, <3>5
  <2> QED
    BY <1>3, <1>4, <2>1, <2>2 DEF ListsInv
<1>11. QueueInv(ps2, rs, fr, q, c)
  <2>1. \A t : t.subject \in 1 .. n /\ Ready(ps, rs, fr, t) => Ready(ps2, rs, fr, t)
    BY <1>4, <1>8 DEF Ready
  <2>2. /\ \A i \in 1 .. Len(q) : q[i].kind = "reaction" => q[i].subject \in 1 .. n
        /\ c.kind = "reaction" => c.subject \in 1 .. n
    BY <1>1, TypesFacts
  <2> QED
    BY <1>1, <2>1, <2>2 DEF QueueInv
<1> QED
  BY <1>5, <1>6, <1>7, <1>10, <1>11 DEF Inv

\* The first task of the queue, a thenable's, makes a new pair for its promise and
\* is over or runs the thenable's code.
LEMMA ThenableTaskInv ==
    ASSUME NEW ps, NEW rs, NEW fr, NEW q, Inv(ps, rs, fr, q, Idle), q # <<>>,
           Head(q).kind = "thenable", NEW c \in {Idle, Head(q)},
           NEW ps2 \in Seq(PromiseType(Len(rs))), PairAdded(ps, ps2, Head(q).subject)
    PROVE  /\ Inv(ps2, rs, fr, Tail(q), c)
           /\ Head(q).subject \in 1 .. Len(ps) /\ Open(ps2, Head(q).subject) # {}
           /\ \A r \in 1 .. Len(ps) : r # Head(q).subject =>
                 Open(ps2, r) = Open(ps, r) /\ (Awaits(q, r) # {} => Awaits(Tail(q), r) # {})
<1> DEFINE m == Len(ps)
           n == Len(rs)
           q2 == Tail(q)
           p == Head(q).subject
<1>1. TypesInv(ps, rs, fr, q, Idle) /\ ReactionsInv(ps, rs) /\ OneInv(ps, q, Idle)
      /\ ListsInv(ps, rs, fr) /\ QueueInv(ps, rs, fr, q, Idle)
  BY DEF Inv
<1>2. m \in Nat /\ n \in Nat /\ q \in Seq(Tasks(n, m))
  BY <1>1, TypesFacts DEF TypesInv
<1>3. /\ Head(q) \in Tasks(n, m) /\ Head(q) = q[1] /\ Len(q) \in Nat /\ Len(q) >= 1
      /\ q2 \in Seq(Tasks(n, m)) /\ Len(q2) = Len(q) - 1
      /\ \A i \in 1 .. Len(q) - 1 : q2[i] = q[i + 1]
  BY <1>2, TailFacts
<1>4. p \in 1 .. m
  BY <1>2, <1>3, TaskFacts
<1>5. 1 \in Awaits(q, p)
  BY <1>3 DEF Awaits
<1>6. Open(ps, p) = {} /\ ps[p].state = "pending" /\ \A i \in Awaits(q, p) : i = 1
  BY <1>1, <1>4, <1>5 DEF OneInv
<1>7. c.kind = "thenable" => c.subject = p
  BY DEF Idle
<1>8. c.kind # "reaction" /\ c \in Tasks(n, m) \union {Script, Idle}
  BY <1>3 DEF Idle
<1> HIDE DEF q2, p
<1>9. /\ Len(ps2) = m /\ \A r \in 1 .. m : r # p => ps2[r] = ps[r]
      /\ SameButPairs(ps, ps2, p) /\ Len(ps[p].resolved) \in Nat
      /\ Len(ps2[p].resolved) = Len(ps[p].resolved) + 1
      /\ ~ps2[p].resolved[Len(ps[p].resolved) + 1]
      /\ \A j \in 1 .. Len(ps[p].resolved) : ps2[p].resolved[j] <=> ps[p].resolved[j]
  BY DEF PairAdded, Alike, p
<1>10. \A r \in 1 .. m : Len(ps[r].resolved) \in Nat /\ Len(ps[r].resolved) >= 1
  BY <1>1, TypesFacts
<1>11. \A r \in 1 .. m : Len(ps2[r].resolved) \in Nat /\ Len(ps[r].resolved) <= Len(ps2[r].resolved)
  BY <1>9, <1>10
<1>12. Open(ps2, p) = {Len(ps[p].resolved) + 1}
  <2>1. \A j \in 1 .. Len(ps[p].resolved) : ps2[p].resolved[j]
    BY <1>6, <1>9 DEF Open
  <2>2. \A j : j \in 1 .. Len(ps2[p].resolved) <=>
                  (j \in 1 .. Len(ps[p].resolved) \/ j = Len(ps[p].resolved) + 1)
    BY <1>9
  <2> QED
    BY <2>1, <2>2, <1>9 DEF Open
<1>13. \A r \in 1 .. m : r # p => Open(ps2, r) = Open(ps, r)
  BY <1>9 DEF Open
<1>14. \A r : \A i \in Awaits(q2, r) : i + 1 \in Awaits(q, r) /\ i \in 1 .. Len(q) - 1
  BY <1>3 DEF Awaits
<1>15. Awaits(q2, p) = {}
  BY <1>3, <1>6, <1>14
<1>16. ASSUME NEW r \in 1 .. m, r # p, Awaits(q, r) # {}
       PROVE  Awaits(q2, r) # {}
  <2>1. PICK i \in 1 .. Len(q) : q[i].kind = "thenable" /\ q[i].subject = r
    BY <1>16 DEF Awaits
  <2>2. i # 1
    BY <2>1, <1>3, <1>16 DEF p
  <2>3. i - 1 \in 1 .. Len(q) - 1 /\ (i - 1) + 1 = i
    BY <2>2, <1>3
  <2>4. q2[i - 1] = q[i]
    BY <1>3, <2>3
  <2>5. i - 1 \in Awaits(q2, r)
    BY <2>1, <2>3, <2>4, <1>3 DEF Awaits
  <2> QED
    BY <2>5
<1>17. TypesInv(ps2, rs, fr, q2, c)
  <2>1. \A r \in 1 .. m : Len(ps2[r].resolved) >= 1
    BY <1>10, <1>11
  <2> QED
    BY <1>1, <1>3, <1>8, <1>9, <2>1 DEF TypesInv
<1>18. ReactionsInv(ps2, rs)
  BY <1>1, <1>2, <1>9, <1>10, <1>11, ReactionsFrame
<1>19. OneInv(ps2, q2, c)
  <2>1. ASSUME NEW r \in 1 .. m
        PROVE  /\ \A k, j \in Open(ps2, r) : k = j
               /\ \A k, j \in Awaits(q2, r) : k = j
               /\ Awaits(q2, r) # {} => Open(ps2, r) = {}
               /\ ps2[r].state # "pending" => Open(ps2, r) = {} /\ Awaits(q2, r) = {}
    <3>1. CASE r = p
      BY <3>1, <1>6, <1>9, <1>12, <1>15 DEF SameButPairs
    <3>2. CASE r # p
      <4>1. /\ \A k, j \in Open(ps, r) : k = j
            /\ \A k, j \in Awaits(q, r) : k = j
            /\ Awaits(q, r) # {} => Open(ps, r) = {}
            /\ ps[r].state # "pending" => Open(ps, r) = {} /\ Awaits(q, r) = {}
        BY <1>1 DEF OneInv
      <4>2. Open(ps2, r) = Open(ps, r) /\ ps2[r].state = ps[r].state
        BY <3>2, <1>9, <1>13
      <4>3. \A k, j \in Awaits(q2, r) : k = j
        <5> SUFFICES ASSUME NEW k \in Awaits(q2, r), NEW j \in Awaits(q2, r)
                     PROVE  k = j
          OBVIOUS
        <5>1. k + 1 = j + 1
          BY <1>14, <4>1
        <5>2. k \in 1 .. Len(q) - 1 /\ j \in 1 .. Len(q) - 1
          BY <1>14
        <5> QED
          BY <5>1, <5>2
      <4>4. Awaits(q2, r) # {} => Awaits(q, r) # {}
        BY <1>14
      <4> QED
        BY <4>1, <4>2, <4>3, <4>4
    <3> QED
      BY <3>1, <3>2
  <2>2. c.kind = "thenable" => Len(ps2[c.subject].resolved) >= 2
    BY <1>4, <1>7, <1>9, <1>10
  <2> QED
    BY <1>9, <2>1, <2>2 DEF OneInv
<1>20. ASSUME NEW k \in 1 .. n, ~ps[rs[k].cap[1]].resolved[1]
       PROVE  ~ps2[rs[k].cap[1]].resolved[1]
  <2>1. rs[k].cap[1] \in 1 .. m
    BY <1>1 DEF ReactionsInv
  <2> QED
    <3>1. CASE rs[k].cap[1] = p
      <4>1. 1 \in 1 .. Len(ps[p].resolved)
        BY <1>4, <1>10
      <4> QED
        BY <3>1, <4>1, <1>9, <1>20
    <3>2. CASE rs[k].cap[1] # p
      BY <3>2, <2>1, <1>9, <1>20
    <3> QED
      BY <3>1, <3>2
<1>21. \A r \in 1 .. m : SameButPairs(ps, ps2, r)
  BY <1>9 DEF SameButPairs
<1>22. ListsInv(ps2, rs, fr)
  <2>1. ASSUME NEW r, NEW list \in Seq(1 .. n), NEW st, ListInv(ps, rs, fr, r, list, st)
        PROVE  ListInv(ps2, rs, fr, r, list, st)
    <3>1. \A i \in 1 .. Len(list) : list[i] \in 1 .. n
      OBVIOUS
    <3>2. \A i \in 1 .. Len(list) : list[i] \notin fr /\ ~ps2[rs[list[i]].cap[1]].resolved[1]
      BY <1>20, <2>1, <3>1 DEF ListInv, WaitsFor
    <3> QED
      BY <2>1, <3>2, ListFrame
  <2>2. \A r \in 1 .. m : ps[r].fulfillReactions \in Seq(1 .. n) /\ ps[r].rejectReactions \in Seq(1 .. n)
    BY <1>1, TypesFacts
  <2> QED
    BY <1>1, <1>9, <1>21, <2>1, <2>2 DEF ListsInv, SameButPairs
<1>23. QueueInv(ps2, rs, fr, q2, c)
  <2>1. \A k \in 1 .. n : rs[k].of \in 1 .. m
    BY <1>1 DEF ReactionsInv
  <2>2. \A t : t.subject \in 1 .. n /\ Ready(ps, rs, fr, t) => Ready(ps2, rs, fr, t)
    <3> SUFFICES ASSUME NEW t, t.subject \in 1 .. n, Ready(ps, rs, fr, t)
                 PROVE  Ready(ps2, rs, fr, t)
      OBVIOUS
    <3>1. SameButPairs(ps, ps2, rs[t.subject].of)
      BY <1>21, <2>1
    <3>2. ~ps2[rs[t.subject].cap[1]].resolved[1]
      BY <1>20 DEF Ready
    <3> QED
      BY <3>1, <3>2 DEF Ready, SameButPairs
  <2>3. \A i \in 1 .. Len(q) : q[i].kind = "reaction" => q[i].subject \in 1 .. n
    BY <1>1, TypesFacts
  <2>4. \A i \in 1 .. Len(q2) : i + 1 \in 1 .. Len(q) /\ q2[i] = q[i + 1]
    BY <1>3
  <2>5. \A i, j \in 1 .. Len(q2) : i < j => i + 1 < j + 1
    BY <1>3
  <2>6. \A i \in 1 .. Len(q2) : q2[i].kind = "reaction" => Ready(ps2, rs, fr, q2[i])
    BY <1>1, <2>2, <2>3, <2>4 DEF QueueInv
  <2>7. ASSUME NEW i \in 1 .. Len(q2), NEW j \in 1 .. Len(q2), i < j,
               q2[i].kind = "reaction", q2[j].kind = "reaction"
        PROVE  Before(rs, q2[i], q2[j])
    BY <1>1, <2>4, <2>5, <2>7 DEF QueueInv
  <2> QED
    BY <1>8, <2>6, <2>7 DEF QueueInv
<1> QED
  BY <1>4, <1>12, <1>13, <1>16, <1>17, <1>18, <1>19, <1>22, <1>23 DEF Inv, q2, p

\* The first task of the queue, a reaction's, is started.
LEMMA StartInv ==
    ASSUME NEW ps, NEW rs, NEW fr, NEW q, Inv(ps, rs, fr, q, Idle), q # <<>>,
           Head(q).kind = "reaction"
    PROVE  /\ Inv(ps, rs, fr, Tail(q), Head(q))
           /\ \A r \in 1 .. Len(ps) : Awaits(q, r) # {} => Awaits(Tail(q), r) # {}
<1> DEFINE m == Len(ps)
           n == Len(rs)
           q2 == Tail(q)
           c == Head(q)
<1>1. TypesInv(ps, rs, fr, q, Idle) /\ ReactionsInv(ps, rs) /\ OneInv(ps, q, Idle)
      /\ ListsInv(ps, rs, fr) /\ QueueInv(ps, rs, fr, q, Idle)
  BY DEF Inv
<1>2. m \in Nat /\ n \in Nat /\ q \in Seq(Tasks(n, m))
  BY <1>1, TypesFacts DEF TypesInv
<1>3. /\ c \in Tasks(n, m) /\ c = q[1] /\ Len(q) \in Nat /\ Len(q) >= 1
      /\ q2 \in Seq(Tasks(n, m)) /\ Len(q2) = Len(q) - 1
      /\ \A i \in 1 .. Len(q) - 1 : q2[i] = q[i + 1]
  BY <1>2, TailFacts
<1>4. c.kind = "reaction"
  OBVIOUS
<1> HIDE DEF q2, c
<1>5. TypesInv(ps, rs, fr, q2, c)
  BY <1>1, <1>3 DEF TypesInv
<1>6. \A r : \A i \in Awaits(q2, r) : i + 1 \in Awaits(q, r) /\ i \in 1 .. Len(q) - 1
  BY <1>3 DEF Awaits
<1>7. ASSUME NEW r \in 1 .. m, Awaits(q, r) # {}
      PROVE  Awaits(q2, r) # {}
  <2>1. PICK i \in 1 .. Len(q) : q[i].kind = "thenable" /\ q[i].subject = r
    BY <1>7 DEF Awaits
  <2>2. i # 1
    BY <2>1, <1>3, <1>4
  <2>3. i - 1 \in 1 .. Len(q) - 1 /\ (i - 1) + 1 = i
    BY <2>2, <1>3
  <2>4. q2[i - 1] = q[i]
    BY <1>3, <2>3
  <2>5. i - 1 \in Awaits(q2, r)
    BY <2>1, <2>3, <2>4, <1>3 DEF Awaits
  <2> QED
    BY <2>5
<1>8. OneInv(ps, q2, c)
  <2>1. ASSUME NEW r \in 1 .. m
        PROVE  /\ \A k, j \in Awaits(q2, r) : k = j
               /\ Awaits(q2, r) # {} => Awaits(q, r) # {}
    <3>1. \A k, j \in Awaits(q, r) : k = j
      BY <1>1 DEF OneInv
    <3>2. ASSUME NEW k \in Awaits(q2, r), NEW j \in Awaits(q2, r)
          PROVE  k = j
      <4>1. k + 1 = j + 1
        BY <1>6, <3>1
      <4>2. k \in 1 .. Len(q) - 1 /\ j \in 1 .. Len(q) - 1
        BY <1>6
      <4> QED
        BY <4>1, <4>2
    <3> QED
      BY <1>6, <3>2
  <2> QED
    BY <1>1, <1>4, <2>1 DEF OneInv
<1>9. QueueInv(ps, rs, fr, q2, c)
  <2>1. \A i \in 1 .. Len(q2) : i + 1 \in 1 .. Len(q) /\ 1 < i + 1 /\ q2[i] = q[i + 1]
    BY <1>3
  <2>2. \A i, j \in 1 .. Len(q2) : i < j => i + 1 < j + 1
    BY <1>3
  <2>3. 1 \in 1 .. Len(q)
    BY <1>3
  <2>4. \A i \in 1 .. Len(q2) : q2[i].kind = "reaction" => Ready(ps, rs, fr, q2[i])
    BY <1>1, <2>1 DEF QueueInv
  <2>5. ASSUME NEW i \in 1 .. Len(q2), NEW j \in 1 .. Len(q2), i < j,
               q2[i].kind = "reaction", q2[j].kind = "reaction"
        PROVE  Before(rs, q2[i], q2[j])
    BY <1>1, <2>1, <2>2, <2>5 DEF QueueInv
  <2>6. Ready(ps, rs, fr, c) /\ \A j \in 1 .. Len(q2) : q2[j].kind = "reaction" => Before(rs, c, q2[j])
    BY <1>1, <1>3, <1>4, <2>1, <2>3 DEF QueueInv
  <2> QED
    BY <2>4, <2>5, <2>6 DEF QueueInv
<1> QED
  BY <1>1, <1>5, <1>7, <1>8, <1>9 DEF Inv, q2, c

\* The current task is over, or the script.
LEMMA IdleInv ==
    ASSUME NEW ps, NEW rs, NEW fr, NEW q, NEW c, Inv(ps, rs, fr, q, c)
    PROVE  Inv(ps, rs, fr, q, Idle)
<1>1. Idle.kind = "idle"
  BY DEF Idle
<1> QED
  BY <1>1 DEF Inv, TypesInv, OneInv, QueueInv

\* A reaction's task is over: its capability can be resolved, since no other task
\* and no reaction that waits has it, and the reaction may be freed.
LEMMA FinishInv ==
    ASSUME NEW ps, NEW rs, NEW fr, NEW q, NEW c, Inv(ps, rs, fr, q, c), c.kind = "reaction",
           NEW fr2, fr2 = fr \/ fr2 = fr \union {c.subject}
    PROVE  /\ Inv(ps, rs, fr2, q, Idle)
           /\ NotDue(ps, rs, q, Idle, rs[c.subject].cap)
           /\ Made(ps, rs[c.subject].cap[1], 1)
           /\ rs[c.subject].cap = <<rs[c.subject].cap[1], 1>>
<1> DEFINE k == c.subject
           n == Len(rs)
<1>1. TypesInv(ps, rs, fr, q, c) /\ ReactionsInv(ps, rs) /\ OneInv(ps, q, c) /\ ListsInv(ps, rs, fr)
      /\ QueueInv(ps, rs, fr, q, c)
  BY DEF Inv
<1>2. k \in 1 .. n /\ Ready(ps, rs, fr, c)
  BY <1>1, TypesFacts DEF QueueInv
<1>3. Inv(ps, rs, fr, q, Idle) /\ Idle.kind = "idle"
  BY IdleInv DEF Idle
<1>4. \A j \in 1 .. Len(q) : q[j].kind = "reaction" => rs[q[j].subject].cap # rs[k].cap
  BY <1>1 DEF QueueInv, Before
<1>5. ASSUME NEW r \in 1 .. Len(ps), ps[r].state = "pending", NEW list \in Seq(1 .. n), NEW st,
             ListInv(ps, rs, fr, r, list, st), NEW i \in 1 .. Len(list)
      PROVE  rs[list[i]].cap # rs[k].cap
  <2>1. list[i] \in 1 .. n /\ rs[list[i]].of = r
    BY <1>5 DEF ListInv, WaitsFor
  <2>2. rs[list[i]].of # rs[k].of
    BY <2>1, <1>2, <1>5 DEF Ready
  <2> QED
    BY <2>1, <2>2, <1>1, <1>2 DEF ReactionsInv
<1>6. ASSUME NEW r \in 1 .. Len(ps), ps[r].state = "pending"
      PROVE  /\ ps[r].fulfillReactions \in Seq(1 .. n) /\ ps[r].rejectReactions \in Seq(1 .. n)
             /\ ListInv(ps, rs, fr, r, ps[r].fulfillReactions, "fulfilled")
             /\ ListInv(ps, rs, fr, r, ps[r].rejectReactions, "rejected")
  BY <1>1, <1>6, TypesFacts DEF ListsInv
<1>7. NotDue(ps, rs, q, Idle, rs[k].cap)
  BY <1>3, <1>4, <1>5, <1>6 DEF NotDue
<1>8. Made(ps, rs[k].cap[1], 1) /\ rs[k].cap = <<rs[k].cap[1], 1>>
  <2>1. rs[k].cap[1] \in 1 .. Len(ps) /\ rs[k].cap = <<rs[k].cap[1], 1>>
    BY <1>1, <1>2 DEF ReactionsInv
  <2>2. \A r \in 1 .. Len(ps) : 1 \in 1 .. Len(ps[r].resolved)
    BY <1>1, TypesFacts
  <2> QED
    BY <2>1, <2>2 DEF Made
<1>9. Inv(ps, rs, fr2, q, Idle)
  <2>1. TypesInv(ps, rs, fr2, q, Idle)
    BY <1>1, <1>2 DEF TypesInv
  <2>2. ASSUME NEW r \in 1 .. Len(ps), ps[r].state = "pending", NEW list \in Seq(1 .. n), NEW st,
               ListInv(ps, rs, fr, r, list, st)
        PROVE  ListInv(ps, rs, fr2, r, list, st)
    <3>1. \A i \in 1 .. Len(list) : list[i] # k
      BY <1>5, <2>2
    <3>2. \A i \in 1 .. Len(list) : list[i] \notin fr2 /\ ~ps[rs[list[i]].cap[1]].resolved[1]
      BY <3>1, <2>2 DEF ListInv, WaitsFor
    <3> QED
      BY <2>2, <3>2, ListFrame
  <2>3. ListsInv(ps, rs, fr2)
    BY <1>6, <2>2 DEF ListsInv
  <2>4. QueueInv(ps, rs, fr2, q, Idle)
    <3>1. \A j \in 1 .. Len(q) : q[j].kind = "reaction" => q[j].subject # k
      BY <1>4
    <3>2. \A t : t.subject # k /\ Ready(ps, rs, fr, t) => Ready(ps, rs, fr2, t)
      BY DEF Ready
    <3> QED
      BY <1>1, <1>3, <3>1, <3>2 DEF QueueInv
  <2> QED
    BY <1>1, <1>3, <2>1, <2>3, <2>4 DEF Inv
<1> QED
  BY <1>7, <1>8, <1>9

\* The task of a reaction whose handler has been called.
LEMMA CalledInv ==
    ASSUME NEW ps, NEW rs, NEW fr, NEW q, NEW c, Inv(ps, rs, fr, q, c), c.kind = "reaction"
    PROVE  Inv(ps, rs, fr, q, [c EXCEPT !.called = TRUE])
<1>1. TypesInv(ps, rs, fr, q, c) /\ ReactionsInv(ps, rs) /\ OneInv(ps, q, c) /\ ListsInv(ps, rs, fr)
      /\ QueueInv(ps, rs, fr, q, c)
  BY DEF Inv
<1>2. c \in Tasks(Len(rs), Len(ps))
  BY <1>1, TypesFacts
<1>3. \A e \in BOOLEAN : /\ [c EXCEPT !.called = e] \in Tasks(Len(rs), Len(ps))
                         /\ [c EXCEPT !.called = e].kind = "reaction"
                         /\ [c EXCEPT !.called = e].subject = c.subject
                         /\ [c EXCEPT !.called = e].arg = c.arg
  BY <1>2 DEF Tasks
<1>4. PICK c2 : /\ c2 = [c EXCEPT !.called = TRUE] /\ c2 \in Tasks(Len(rs), Len(ps))
                /\ c2.kind = "reaction" /\ c2.subject = c.subject /\ c2.arg = c.arg
  BY <1>3, Zenon
<1>5. Inv(ps, rs, fr, q, c2)
  <2>1. TypesInv(ps, rs, fr, q, c2)
    BY <1>1, <1>4 DEF TypesInv
  <2>2. OneInv(ps, q, c2)
    BY <1>1, <1>4 DEF OneInv
  <2>3. QueueInv(ps, rs, fr, q, c2)
    BY <1>1, <1>4 DEF QueueInv, Ready, Before
  <2> QED
    BY <1>1, <2>1, <2>2, <2>3 DEF Inv
<1> QED
  BY <1>4, <1>5

-----------------------------------------------------------------------------
(* The calls.                                                              *)

\* Promise r is settled, or can be.
Decidable(ps, q, r) == ps[r].state # "pending" \/ Open(ps, r) # {} \/ Awaits(q, r) # {}

\* What every call leaves true: promises and pairs do not go away, a settled promise
\* keeps its state and result, and one that can be settled is settled or still can be.
Follows(ps, q, ps2, q2) ==
    /\ Len(ps) \in Nat /\ Len(ps2) \in Nat /\ Len(ps) <= Len(ps2)
    /\ \A r \in 1 .. Len(ps) :
          /\ Len(ps[r].resolved) \in Nat /\ Len(ps2[r].resolved) \in Nat
          /\ Len(ps[r].resolved) <= Len(ps2[r].resolved)
          /\ ps[r].state # "pending" => ps2[r].state = ps[r].state /\ ps2[r].result = ps[r].result
          /\ BadThen = {} /\ Decidable(ps, q, r) => Decidable(ps2, q2, r)
    /\ \A r \in 1 .. Len(ps2) : BadThen = {} /\ r \notin 1 .. Len(ps) => Decidable(ps2, q2, r)

LEMMA FollowsTransitive ==
    ASSUME NEW ps, NEW q, NEW ps2, NEW q2, NEW ps3, NEW q3,
           Follows(ps, q, ps2, q2), Follows(ps2, q2, ps3, q3)
    PROVE  Follows(ps, q, ps3, q3)
<1>1. /\ Len(ps) \in Nat /\ Len(ps2) \in Nat /\ Len(ps3) \in Nat
      /\ Len(ps) <= Len(ps2) /\ Len(ps2) <= Len(ps3)
  BY DEF Follows
<1>2. \A r \in 1 .. Len(ps) : r \in 1 .. Len(ps2)
  BY <1>1
<1>3. ASSUME NEW r \in 1 .. Len(ps)
      PROVE  /\ Len(ps[r].resolved) \in Nat /\ Len(ps3[r].resolved) \in Nat
             /\ Len(ps[r].resolved) <= Len(ps3[r].resolved)
  <2>1. /\ Len(ps[r].resolved) \in Nat /\ Len(ps2[r].resolved) \in Nat /\ Len(ps3[r].resolved) \in Nat
        /\ Len(ps[r].resolved) <= Len(ps2[r].resolved) /\ Len(ps2[r].resolved) <= Len(ps3[r].resolved)
    BY <1>2 DEF Follows
  <2> QED
    BY <2>1
<1>4. ASSUME NEW r \in 1 .. Len(ps)
      PROVE  /\ ps[r].state # "pending" => ps3[r].state = ps[r].state /\ ps3[r].result = ps[r].result
             /\ BadThen = {} /\ Decidable(ps, q, r) => Decidable(ps3, q3, r)
  BY <1>2 DEF Follows
<1>5. ASSUME NEW r \in 1 .. Len(ps3), BadThen = {}, r \notin 1 .. Len(ps)
      PROVE  Decidable(ps3, q3, r)
  BY <1>5 DEF Follows
<1> QED
  BY <1>1, <1>3, <1>4, <1>5 DEF Follows

LEMMA FollowsReflexive ==
    ASSUME NEW ps, NEW rs, NEW fr, NEW q, NEW c, Inv(ps, rs, fr, q, c)
    PROVE  Follows(ps, q, ps, q)
<1>1. TypesInv(ps, rs, fr, q, c)
  BY DEF Inv
<1>2. Len(ps) \in Nat /\ \A r \in 1 .. Len(ps) : Len(ps[r].resolved) \in Nat
  BY <1>1, TypesFacts
<1> QED
  BY <1>2 DEF Follows

\* Reaction k is in a list, and its task in a queue.
Listed(list, k) == \E i \in 1 .. Len(list) : list[i] = k
InQueue(q, k) == \E i \in 1 .. Len(q) : q[i].kind = "reaction" /\ q[i].subject = k

\* What every call leaves true of reactions: other pairs than the one it uses stay
\* as they are, a reaction stays in its lists until its promise is settled and then
\* has its task in the queue, and a task in the queue is one that has not begun.
Fresh(q) == \A i \in 1 .. Len(q) : ~q[i].called
Carries(ps, q, ps2, q2, pair) ==
    /\ \A k : InQueue(q, k) => InQueue(q2, k)
    /\ Fresh(q) => Fresh(q2)
    /\ \A r \in 1 .. Len(ps) : \A j \in 1 .. Len(ps[r].resolved) :
          <<r, j>> # pair => (ps2[r].resolved[j] <=> ps[r].resolved[j])
    /\ \A r \in 1 .. Len(ps) : \A k :
          /\ Listed(ps[r].fulfillReactions, k) =>
                /\ ps2[r].state = "pending" => Listed(ps2[r].fulfillReactions, k)
                /\ ps[r].state = "pending" /\ ps2[r].state = "fulfilled" => InQueue(q2, k)
          /\ Listed(ps[r].rejectReactions, k) =>
                /\ ps2[r].state = "pending" => Listed(ps2[r].rejectReactions, k)
                /\ ps[r].state = "pending" /\ ps2[r].state = "rejected" => InQueue(q2, k)

LEMMA CarriesReflexive ==
    ASSUME NEW ps, NEW q, NEW pair
    PROVE  Carries(ps, q, ps, q, pair)
  BY DEF Carries

\* One more task.
LEMMA QueueLonger ==
    ASSUME NEW S, NEW q \in Seq(S), NEW t \in S
    PROVE  /\ \A k : InQueue(q, k) => InQueue(Append(q, t), k)
           /\ ~t.called /\ Fresh(q) => Fresh(Append(q, t))
           /\ t.kind = "reaction" => InQueue(Append(q, t), t.subject)
<1> DEFINE q2 == Append(q, t)
<1>1. /\ Len(q2) = Len(q) + 1 /\ Len(q) \in Nat /\ q2[Len(q) + 1] = t
      /\ \A i \in 1 .. Len(q) : q2[i] = q[i]
  BY AppendFacts
<1> HIDE DEF q2
<1>2. /\ \A i \in 1 .. Len(q) : i \in 1 .. Len(q2)
      /\ Len(q) + 1 \in 1 .. Len(q2)
      /\ \A i \in 1 .. Len(q2) : i \in 1 .. Len(q) \/ i = Len(q) + 1
  BY <1>1
<1>3. \A k : InQueue(q, k) => InQueue(q2, k)
  BY <1>1, <1>2 DEF InQueue
<1>4. ~t.called /\ Fresh(q) => Fresh(q2)
  BY <1>1, <1>2 DEF Fresh
<1>5. t.kind = "reaction" => InQueue(q2, t.subject)
  BY <1>1, <1>2 DEF InQueue
<1> QED
  BY <1>3, <1>4, <1>5 DEF q2

\* A pair is used and its promise not settled.
LEMMA CarriesFlag ==
    ASSUME NEW ps, NEW set, NEW p, NEW i, Made(ps, p, i), FlagSet(ps, set, p, i),
           NEW q, NEW q2, \A k : InQueue(q, k) => InQueue(q2, k), Fresh(q) => Fresh(q2)
    PROVE  Carries(ps, q, set, q2, <<p, i>>)
<1>1. \A r \in 1 .. Len(ps) : /\ set[r].state = ps[r].state
                              /\ set[r].fulfillReactions = ps[r].fulfillReactions
                              /\ set[r].rejectReactions = ps[r].rejectReactions
  BY DEF FlagSet, Alike, SameButPairs
<1>2. ASSUME NEW r \in 1 .. Len(ps), NEW j \in 1 .. Len(ps[r].resolved), <<r, j>> # <<p, i>>
      PROVE  set[r].resolved[j] <=> ps[r].resolved[j]
  <2>1. CASE r # p
    BY <2>1 DEF FlagSet, Alike
  <2>2. CASE r = p
    <3>1. j # i
      BY <1>2, <2>2
    <3> QED
      BY <2>2, <3>1 DEF FlagSet
  <2> QED
    BY <2>1, <2>2
<1> QED
  BY <1>1, <1>2 DEF Carries

\* It is used, and the promise settled.
LEMMA CarriesSettle ==
    ASSUME NEW ps, NEW set, NEW ps2, NEW p, NEW i, Made(ps, p, i), FlagSet(ps, set, p, i),
           NEW st \in {"fulfilled", "rejected"}, NEW x, SettledWith(set, ps2, p, st, x),
           NEW list, list = IF st = "fulfilled" THEN ps[p].fulfillReactions ELSE ps[p].rejectReactions,
           NEW q, NEW q2, TasksAdded(q, q2, list, x)
    PROVE  Carries(ps, q, ps2, q2, <<p, i>>)
<1>1. /\ \A r \in 1 .. Len(ps) : r # p => ps2[r] = ps[r]
      /\ ps2[p].state = st /\ ps2[p].resolved = set[p].resolved
      /\ \A j \in 1 .. Len(ps[p].resolved) : set[p].resolved[j] <=> j = i \/ ps[p].resolved[j]
  BY DEF FlagSet, SettledWith, Alike
<1>2. /\ Len(q) \in Nat /\ Len(list) \in Nat /\ Len(q2) = Len(q) + Len(list)
      /\ \A j \in 1 .. Len(q) : q2[j] = q[j]
      /\ \A j \in 1 .. Len(list) : /\ q2[Len(q) + j].kind = "reaction" /\ q2[Len(q) + j].subject = list[j]
                                   /\ ~q2[Len(q) + j].called
  BY DEF TasksAdded
<1>3. /\ \A j \in 1 .. Len(q) : j \in 1 .. Len(q2)
      /\ \A j \in 1 .. Len(list) : Len(q) + j \in 1 .. Len(q2)
      /\ \A j \in 1 .. Len(q2) : j \in 1 .. Len(q) \/ (j - Len(q) \in 1 .. Len(list) /\ j = Len(q) + (j - Len(q)))
  BY <1>2
<1>4. \A k : InQueue(q, k) => InQueue(q2, k)
  BY <1>2, <1>3 DEF InQueue
<1>5. Fresh(q) => Fresh(q2)
  BY <1>2, <1>3 DEF Fresh
<1>6. \A k : Listed(list, k) => InQueue(q2, k)
  BY <1>2, <1>3 DEF InQueue, Listed
<1>7. ASSUME NEW r \in 1 .. Len(ps), NEW j \in 1 .. Len(ps[r].resolved), <<r, j>> # <<p, i>>
      PROVE  ps2[r].resolved[j] <=> ps[r].resolved[j]
  <2>1. CASE r # p
    BY <1>1, <2>1
  <2>2. CASE r = p
    <3>1. j # i
      BY <1>7, <2>2
    <3> QED
      BY <1>1, <2>2, <3>1
  <2> QED
    BY <2>1, <2>2
<1>8. ASSUME NEW r \in 1 .. Len(ps), NEW k
      PROVE  /\ Listed(ps[r].fulfillReactions, k) =>
                   /\ ps2[r].state = "pending" => Listed(ps2[r].fulfillReactions, k)
                   /\ ps[r].state = "pending" /\ ps2[r].state = "fulfilled" => InQueue(q2, k)
             /\ Listed(ps[r].rejectReactions, k) =>
                   /\ ps2[r].state = "pending" => Listed(ps2[r].rejectReactions, k)
                   /\ ps[r].state = "pending" /\ ps2[r].state = "rejected" => InQueue(q2, k)
  <2>1. CASE r # p
    BY <1>1, <2>1
  <2>2. CASE r = p
    BY <1>1, <1>6, <2>2
  <2> QED
    BY <2>1, <2>2
<1> QED
  BY <1>4, <1>5, <1>7, <1>8 DEF Carries

\* A pair that nobody's task or reaction serves is used, and the promise is settled.
LEMMA SettleCall ==
    ASSUME NEW ps, NEW rs, NEW fr, NEW q, NEW c, Inv(ps, rs, fr, q, c),
           NEW p, NEW i, Made(ps, p, i), ~ps[p].resolved[i], NotDue(ps, rs, q, c, <<p, i>>),
           NEW x \in Value, NEW st \in {"fulfilled", "rejected"},
           NEW list, NEW set \in Seq(PromiseType(Len(rs))), FlagSet(ps, set, p, i),
           list = IF st = "fulfilled" THEN ps[p].fulfillReactions ELSE ps[p].rejectReactions,
           NEW ps2 \in Seq(PromiseType(Len(rs))), SettledWith(set, ps2, p, st, x),
           NEW q2 \in Seq(Tasks(Len(rs), Len(ps))), TasksAdded(q, q2, list, x)
    PROVE  /\ Inv(ps2, rs, fr, q2, c) /\ Follows(ps, q, ps2, q2) /\ Len(ps2) = Len(ps)
           /\ Carries(ps, q, ps2, q2, <<p, i>>)
<1>1. TypesInv(ps, rs, fr, q, c) /\ ps \in Seq(PromiseType(Len(rs))) /\ Len(rs) \in Nat
  BY TypesFacts DEF Inv, TypesInv
<1>2. set[p].fulfillReactions = ps[p].fulfillReactions /\ set[p].rejectReactions = ps[p].rejectReactions
  BY DEF FlagSet, SameButPairs
<1>3. /\ Inv(set, rs, fr, q, c) /\ Open(set, p) = {} /\ Awaits(q, p) = {}
      /\ p \in 1 .. Len(set) /\ Len(set) = Len(ps) /\ set[p].state = "pending"
  BY FlagInv
<1>4. list = IF st = "fulfilled" THEN set[p].fulfillReactions ELSE set[p].rejectReactions
  BY <1>2
<1>7. Inv(ps2, rs, fr, q2, c)
  BY <1>3, <1>4, SettleInv
<1>8. Follows(ps, q, ps2, q2) /\ Len(ps2) = Len(ps)
  <2>1. Len(ps) \in Nat /\ \A r \in 1 .. Len(ps) : Len(ps[r].resolved) \in Nat
    BY <1>1, TypesFacts
  <2>2. Len(ps2) = Len(ps) /\ \A r \in 1 .. Len(ps) : r # p => ps2[r] = ps[r]
    BY DEF FlagSet, SettledWith, Alike
  <2>3. Len(ps2[p].resolved) = Len(ps[p].resolved) /\ ps2[p].state # "pending" /\ ps[p].state = "pending"
    BY <1>3 DEF FlagSet, SettledWith, SameButPairs
  <2>4. \A r : Awaits(q, r) \subseteq Awaits(q2, r)
    <3>1. /\ Len(q) \in Nat /\ Len(q2) \in Nat /\ Len(q) <= Len(q2)
          /\ \A j \in 1 .. Len(q) : q2[j] = q[j]
      BY DEF TasksAdded
    <3> QED
      BY <3>1 DEF Awaits
  <2>5. ASSUME NEW r \in 1 .. Len(ps), r # p
        PROVE  Decidable(ps, q, r) => Decidable(ps2, q2, r)
    BY <2>2, <2>4, <2>5 DEF Decidable, Open
  <2>6. Decidable(ps2, q2, p)
    BY <2>3 DEF Decidable
  <2>7. ASSUME NEW r \in 1 .. Len(ps)
        PROVE  /\ Len(ps2[r].resolved) \in Nat /\ Len(ps[r].resolved) <= Len(ps2[r].resolved)
               /\ ps[r].state # "pending" => ps2[r].state = ps[r].state /\ ps2[r].result = ps[r].result
    BY <2>1, <2>2, <2>3
  <2> QED
    BY <2>1, <2>2, <2>5, <2>6, <2>7 DEF Follows
<1>9. Carries(ps, q, ps2, q2, <<p, i>>)
  BY CarriesSettle
<1> QED
  BY <1>7, <1>8, <1>9

\* It is used, and the promise waits for a thenable.
LEMMA AwaitCall ==
    ASSUME NEW ps, NEW rs, NEW fr, NEW q, NEW c, Inv(ps, rs, fr, q, c),
           NEW p, NEW i, Made(ps, p, i), ~ps[p].resolved[i], NotDue(ps, rs, q, c, <<p, i>>),
           NEW x \in Thenable \union 1 .. Len(ps),
           NEW set \in Seq(PromiseType(Len(rs))), FlagSet(ps, set, p, i)
    PROVE  LET q2 == Append(q, ThenableTask(p, x))
           IN  /\ Inv(set, rs, fr, q2, c) /\ Follows(ps, q, set, q2) /\ Len(set) = Len(ps)
               /\ Carries(ps, q, set, q2, <<p, i>>)
<1> DEFINE q2 == Append(q, ThenableTask(p, x))
<1>1. /\ TypesInv(ps, rs, fr, q, c) /\ ps \in Seq(PromiseType(Len(rs))) /\ Len(rs) \in Nat
      /\ q \in Seq(Tasks(Len(rs), Len(ps)))
  BY TypesFacts DEF Inv, TypesInv
<1>3. /\ Inv(set, rs, fr, q, c) /\ Open(set, p) = {} /\ Awaits(q, p) = {}
      /\ p \in 1 .. Len(set) /\ Len(set) = Len(ps) /\ set[p].state = "pending"
  BY FlagInv
<1>4. Inv(set, rs, fr, q2, c)
  BY <1>3, AwaitInv
<1>5. Follows(ps, q, set, q2)
  <2>1. Len(ps) \in Nat /\ \A r \in 1 .. Len(ps) : Len(ps[r].resolved) \in Nat
    BY <1>1, TypesFacts
  <2>2. \A r \in 1 .. Len(ps) : r # p => set[r] = ps[r]
    BY DEF FlagSet, Alike
  <2>3. Len(set[p].resolved) = Len(ps[p].resolved) /\ ps[p].state = "pending"
    BY <1>3 DEF FlagSet, SameButPairs
  <2>4. ThenableTask(p, x) \in Tasks(Len(rs), Len(ps)) /\ ThenableTask(p, x).kind = "thenable"
        /\ ThenableTask(p, x).subject = p
    BY <1>3 DEF ThenableTask, Tasks
  <2>5. /\ Len(q2) = Len(q) + 1 /\ Len(q) \in Nat /\ q2[Len(q) + 1] = ThenableTask(p, x)
        /\ \A j \in 1 .. Len(q) : q2[j] = q[j]
    BY <1>1, <2>4, AppendFacts
  <2> HIDE DEF q2
  <2>6. (\A r : Awaits(q, r) \subseteq Awaits(q2, r)) /\ Len(q) + 1 \in Awaits(q2, p)
    BY <2>4, <2>5 DEF Awaits
  <2>7. ASSUME NEW r \in 1 .. Len(ps), r # p
        PROVE  Decidable(ps, q, r) => Decidable(set, q2, r)
    BY <2>2, <2>6, <2>7 DEF Decidable, Open
  <2>8. Decidable(set, q2, p)
    BY <2>6 DEF Decidable
  <2>9. ASSUME NEW r \in 1 .. Len(ps)
        PROVE  /\ Len(set[r].resolved) \in Nat /\ Len(ps[r].resolved) <= Len(set[r].resolved)
               /\ ps[r].state # "pending" => set[r].state = ps[r].state /\ set[r].result = ps[r].result
    BY <2>1, <2>2, <2>3
  <2> QED
    BY <1>3, <2>1, <2>7, <2>8, <2>9 DEF Follows
<1>6. Carries(ps, q, set, q2, <<p, i>>)
  <2>1. ThenableTask(p, x) \in Tasks(Len(rs), Len(ps)) /\ ~ThenableTask(p, x).called
    BY <1>3 DEF ThenableTask, Tasks
  <2>2. (\A k : InQueue(q, k) => InQueue(q2, k)) /\ (Fresh(q) => Fresh(q2))
    BY <1>1, <2>1, QueueLonger
  <2> HIDE DEF q2
  <2> QED
    BY <2>2, CarriesFlag
<1> QED
  BY <1>3, <1>4, <1>5, <1>6

\* RejectPromise and FulfillPromise, after the flag has been set.
LEMMA RejectedCall ==
    ASSUME NEW ps, NEW rs, NEW fr, NEW q, NEW c, Inv(ps, rs, fr, q, c),
           NEW p, NEW i, Made(ps, p, i), ~ps[p].resolved[i], NotDue(ps, rs, q, c, <<p, i>>),
           NEW x \in Value
    PROVE  LET set == SetResolved(ps, <<p, i>>)
               ps2 == SettleIn(set, p, "rejected", x)
               q2 == q \o ReactionTasks(set[p].rejectReactions, x)
           IN  /\ Inv(ps2, rs, fr, q2, c) /\ Follows(ps, q, ps2, q2) /\ Len(ps2) = Len(ps)
               /\ Carries(ps, q, ps2, q2, <<p, i>>)
<1> DEFINE set == SetResolved(ps, <<p, i>>)
           ps2 == SettleIn(set, p, "rejected", x)
           q2 == q \o ReactionTasks(set[p].rejectReactions, x)
           list == ps[p].rejectReactions
<1>1. /\ ps \in Seq(PromiseType(Len(rs))) /\ Len(rs) \in Nat /\ Len(ps) \in Nat
      /\ q \in Seq(Tasks(Len(rs), Len(ps))) /\ p \in 1 .. Len(ps) /\ list \in Seq(1 .. Len(rs))
  BY TypesFacts DEF Inv, TypesInv, Made
<1>2. set \in Seq(PromiseType(Len(rs))) /\ FlagSet(ps, set, p, i)
  BY <1>1, SetResolvedFacts
<1> HIDE DEF set
<1>3. Len(set) = Len(ps) /\ set[p].rejectReactions = list
  BY <1>2 DEF FlagSet, Alike, SameButPairs
<1>4. ps2 \in Seq(PromiseType(Len(rs))) /\ SettledWith(set, ps2, p, "rejected", x)
  BY <1>1, <1>2, <1>3, SettleFacts
<1>5. q2 \in Seq(Tasks(Len(rs), Len(ps))) /\ TasksAdded(q, q2, list, x)
  <2> HIDE DEF list
  <2>1. q2 = q \o ReactionTasks(list, x)
    BY <1>3
  <2> QED
    BY <1>1, <2>1, ReactionTasksFacts
<1> HIDE DEF ps2, q2
<1> HIDE DEF list
<1>6. PICK st : /\ st \in {"fulfilled", "rejected"} /\ SettledWith(set, ps2, p, st, x)
                /\ list = IF st = "fulfilled" THEN ps[p].fulfillReactions ELSE ps[p].rejectReactions
  BY <1>4 DEF list
<1>7. /\ Inv(ps2, rs, fr, q2, c) /\ Follows(ps, q, ps2, q2) /\ Len(ps2) = Len(ps)
      /\ Carries(ps, q, ps2, q2, <<p, i>>)
  BY <1>2, <1>4, <1>5, <1>6, SettleCall
<1> QED
  BY <1>7 DEF ps2, q2, set

LEMMA FulfilledCall ==
    ASSUME NEW ps, NEW rs, NEW fr, NEW q, NEW c, Inv(ps, rs, fr, q, c),
           NEW p, NEW i, Made(ps, p, i), ~ps[p].resolved[i], NotDue(ps, rs, q, c, <<p, i>>),
           NEW x \in Value
    PROVE  LET set == SetResolved(ps, <<p, i>>)
               ps2 == SettleIn(set, p, "fulfilled", x)
               q2 == q \o ReactionTasks(set[p].fulfillReactions, x)
           IN  /\ Inv(ps2, rs, fr, q2, c) /\ Follows(ps, q, ps2, q2) /\ Len(ps2) = Len(ps)
               /\ Carries(ps, q, ps2, q2, <<p, i>>)
<1> DEFINE set == SetResolved(ps, <<p, i>>)
           ps2 == SettleIn(set, p, "fulfilled", x)
           q2 == q \o ReactionTasks(set[p].fulfillReactions, x)
           list == ps[p].fulfillReactions
<1>1. /\ ps \in Seq(PromiseType(Len(rs))) /\ Len(rs) \in Nat /\ Len(ps) \in Nat
      /\ q \in Seq(Tasks(Len(rs), Len(ps))) /\ p \in 1 .. Len(ps) /\ list \in Seq(1 .. Len(rs))
  BY TypesFacts DEF Inv, TypesInv, Made
<1>2. set \in Seq(PromiseType(Len(rs))) /\ FlagSet(ps, set, p, i)
  BY <1>1, SetResolvedFacts
<1> HIDE DEF set
<1>3. Len(set) = Len(ps) /\ set[p].fulfillReactions = list
  BY <1>2 DEF FlagSet, Alike, SameButPairs
<1>4. ps2 \in Seq(PromiseType(Len(rs))) /\ SettledWith(set, ps2, p, "fulfilled", x)
  BY <1>1, <1>2, <1>3, SettleFacts
<1>5. q2 \in Seq(Tasks(Len(rs), Len(ps))) /\ TasksAdded(q, q2, list, x)
  <2> HIDE DEF list
  <2>1. q2 = q \o ReactionTasks(list, x)
    BY <1>3
  <2> QED
    BY <1>1, <2>1, ReactionTasksFacts
<1> HIDE DEF ps2, q2
<1>6. "fulfilled" \in {"fulfilled", "rejected"}
      /\ list = IF "fulfilled" = "fulfilled" THEN ps[p].fulfillReactions ELSE ps[p].rejectReactions
  OBVIOUS
<1> HIDE DEF list
<1>7. /\ Inv(ps2, rs, fr, q2, c) /\ Follows(ps, q, ps2, q2) /\ Len(ps2) = Len(ps)
      /\ Carries(ps, q, ps2, q2, <<p, i>>)
  BY <1>2, <1>4, <1>5, <1>6, SettleCall
<1> QED
  BY <1>7 DEF ps2, q2, set

\* The reject function of a pair.
LEMMA RejectCall ==
    ASSUME NEW ps, NEW rs, NEW fr, NEW q, NEW c, Inv(ps, rs, fr, q, c),
           NEW p, NEW i, Made(ps, p, i), NotDue(ps, rs, q, c, <<p, i>>),
           NEW x \in Value, reject(ps, q, <<p, i>>, x)
    PROVE  /\ Inv(promise', rs, fr, tasks', c) /\ Follows(ps, q, promise', tasks') /\ Len(promise') = Len(ps)
           /\ Carries(ps, q, promise', tasks', <<p, i>>)
<1>1. CASE ps[p].resolved[i]
  <2>1. promise' = ps /\ tasks' = q
    BY <1>1 DEF reject, AlreadyResolved
  <2> QED
    BY <2>1, FollowsReflexive, CarriesReflexive
<1>2. CASE ~ps[p].resolved[i]
  <2>1. RejectPromise(SetResolved(ps, <<p, i>>), q, p, x)
    BY <1>2 DEF reject, AlreadyResolved
  <2>2. promise' = SettleIn(SetResolved(ps, <<p, i>>), p, "rejected", x)
        /\ tasks' = q \o ReactionTasks(SetResolved(ps, <<p, i>>)[p].rejectReactions, x)
    BY <2>1 DEF RejectPromise, SettleIn
  <2> QED
    BY <1>2, <2>2, RejectedCall
<1> QED
  BY <1>1, <1>2

\* The resolve function of a pair.
LEMMA ResolveCall ==
    ASSUME NEW ps, NEW rs, NEW fr, NEW q, NEW c, Inv(ps, rs, fr, q, c),
           NEW p, NEW i, Made(ps, p, i), NotDue(ps, rs, q, c, <<p, i>>),
           NEW x, resolve(ps, q, <<p, i>>, x)
    PROVE  /\ Inv(promise', rs, fr, tasks', c) /\ Follows(ps, q, promise', tasks') /\ Len(promise') = Len(ps)
           /\ Carries(ps, q, promise', tasks', <<p, i>>)
<1>1. CASE ps[p].resolved[i]
  <2>1. promise' = ps /\ tasks' = q
    BY <1>1 DEF resolve, AlreadyResolved
  <2> QED
    BY <2>1, FollowsReflexive, CarriesReflexive
<1>2. CASE ~ps[p].resolved[i]
  <2> DEFINE set == SetResolved(ps, <<p, i>>)
  <2>1. \/ RejectPromise(set, q, p, undefined)
        \/ x \in Value /\ FulfillPromise(set, q, p, x)
        \/ x \in BadThen /\ promise' = set /\ tasks' = q
        \/ /\ x \in Thenable \union 1 .. Len(ps)
           /\ promise' = set
           /\ tasks' = Append(q, ThenableTask(p, x))
    BY <1>2 DEF resolve, AlreadyResolved
  <2>2. set = SetResolved(ps, <<p, i>>)
    OBVIOUS
  <2> HIDE DEF set
  <2>3. CASE RejectPromise(set, q, p, undefined)
    <3>1. promise' = SettleIn(set, p, "rejected", undefined)
          /\ tasks' = q \o ReactionTasks(set[p].rejectReactions, undefined)
      BY <2>3 DEF RejectPromise, SettleIn
    <3> QED
      BY <1>2, <2>2, <3>1, UndefinedAssumption, RejectedCall
  <2>4. CASE x \in Value /\ FulfillPromise(set, q, p, x)
    <3>1. promise' = SettleIn(set, p, "fulfilled", x)
          /\ tasks' = q \o ReactionTasks(set[p].fulfillReactions, x)
      BY <2>4 DEF FulfillPromise, SettleIn
    <3> QED
      BY <1>2, <2>2, <2>4, <3>1, FulfilledCall
  <2>5. CASE x \in BadThen /\ promise' = set /\ tasks' = q
    <3>1. TypesInv(ps, rs, fr, q, c) /\ ps \in Seq(PromiseType(Len(rs))) /\ Len(rs) \in Nat
      BY TypesFacts DEF Inv, TypesInv
    <3>2. set \in Seq(PromiseType(Len(rs))) /\ FlagSet(ps, set, p, i)
      BY <3>1, <2>2, SetResolvedFacts
    <3>3. Inv(set, rs, fr, q, c) /\ Len(set) = Len(ps)
      BY <1>2, <3>2, FlagInv
    <3>4. Follows(ps, q, set, q)
      <4>1. Len(ps) \in Nat /\ \A r \in 1 .. Len(ps) : Len(ps[r].resolved) \in Nat
        BY <3>1, TypesFacts
      <4>2. \A r \in 1 .. Len(ps) : /\ Len(set[r].resolved) = Len(ps[r].resolved)
                                    /\ set[r].state = ps[r].state /\ set[r].result = ps[r].result
        BY <3>2 DEF FlagSet, Alike, SameButPairs
      <4>3. BadThen # {}
        BY <2>5
      <4> QED
        BY <3>3, <4>1, <4>2, <4>3 DEF Follows
    <3>5. Carries(ps, q, set, q, <<p, i>>)
      BY <3>2, CarriesFlag
    <3> QED
      BY <2>5, <3>3, <3>4, <3>5
  <2>6. CASE /\ x \in Thenable \union 1 .. Len(ps)
             /\ promise' = set
             /\ tasks' = Append(q, ThenableTask(p, x))
    <3>1. TypesInv(ps, rs, fr, q, c) /\ ps \in Seq(PromiseType(Len(rs))) /\ Len(rs) \in Nat
      BY TypesFacts DEF Inv, TypesInv
    <3>2. set \in Seq(PromiseType(Len(rs))) /\ FlagSet(ps, set, p, i)
      BY <3>1, <2>2, SetResolvedFacts
    <3> QED
      BY <1>2, <2>6, <3>2, AwaitCall
  <2> QED
    BY <2>1, <2>3, <2>4, <2>5, <2>6
<1> QED
  BY <1>1, <1>2

\* A new promise.
LEMMA NewPromiseCall ==
    ASSUME NEW ps, NEW rs, NEW fr, NEW q, NEW c, Inv(ps, rs, fr, q, c)
    PROVE  LET ext == Append(ps, NewPromise) IN
           /\ Inv(ext, rs, fr, q, c) /\ Follows(ps, q, ext, q) /\ Carries(ps, q, ext, q, NoPair)
           /\ Len(ext) = Len(ps) + 1 /\ Len(ps) \in Nat
           /\ \A r \in 1 .. Len(ps) : ext[r] = ps[r]
           /\ Made(ext, Len(ps) + 1, 1) /\ ~ext[Len(ps) + 1].resolved[1]
           /\ \A k \in 1 .. Len(rs) : rs[k].cap # <<Len(ps) + 1, 1>>
<1> DEFINE ext == Append(ps, NewPromise)
           m == Len(ps)
<1>1. TypesInv(ps, rs, fr, q, c) /\ ps \in Seq(PromiseType(Len(rs))) /\ Len(rs) \in Nat
  BY TypesFacts DEF Inv, TypesInv
<1>2. /\ Inv(ext, rs, fr, q, c) /\ Made(ext, m + 1, 1)
      /\ \A k \in 1 .. Len(rs) : rs[k].cap # <<m + 1, 1>>
  BY NewPromiseInv
<1>3. NewPromise \in PromiseType(Len(rs)) /\ ~NewPromise.resolved[1] /\ Len(NewPromise.resolved) = 1
  BY <1>1, NewPromiseType
<1>4. /\ Len(ext) = m + 1 /\ m \in Nat /\ ext[m + 1] = NewPromise
      /\ \A r \in 1 .. m : ext[r] = ps[r]
  BY <1>1, <1>3, AppendFacts
<1> HIDE DEF ext
<1>5. Follows(ps, q, ext, q)
  <2>1. \A r \in 1 .. m : Len(ps[r].resolved) \in Nat
    BY <1>1, TypesFacts
  <2>2. \A r \in 1 .. m : Decidable(ps, q, r) => Decidable(ext, q, r)
    BY <1>4 DEF Decidable, Open
  <2>3. 1 \in Open(ext, m + 1)
    BY <1>3, <1>4 DEF Open
  <2>4. Decidable(ext, q, m + 1)
    BY <2>3 DEF Decidable
  <2>5. \A r \in 1 .. m + 1 : r \notin 1 .. m => r = m + 1
    BY <1>4
  <2>6. m <= m + 1 /\ m + 1 \in Nat
    BY <1>4
  <2>7. ASSUME NEW r \in 1 .. m
        PROVE  /\ Len(ext[r].resolved) \in Nat /\ Len(ps[r].resolved) <= Len(ext[r].resolved)
               /\ ext[r].state = ps[r].state /\ ext[r].result = ps[r].result
    BY <1>4, <2>1
  <2> QED
    BY <1>4, <2>1, <2>2, <2>4, <2>5, <2>6, <2>7 DEF Follows
<1>6. ~ext[m + 1].resolved[1]
  BY <1>3, <1>4
<1>7. Carries(ps, q, ext, q, NoPair)
  BY <1>4 DEF Carries
<1> QED
  BY <1>2, <1>4, <1>5, <1>6, <1>7 DEF ext

LEMMA HandlerFrame ==
    ASSUME NEW ps, NEW q, NEW ps2, NEW q2, Follows(ps, q, ps2, q2), NEW h, HandlerOK(ps, h)
    PROVE  HandlerOK(ps2, h)
<1>1. \A p, i : Made(ps, p, i) => Made(ps2, p, i)
  <2> SUFFICES ASSUME NEW p, NEW i, Made(ps, p, i)
               PROVE  Made(ps2, p, i)
    OBVIOUS
  <2>1. p \in 1 .. Len(ps) /\ i \in 1 .. Len(ps[p].resolved)
    BY DEF Made
  <2>2. Len(ps) \in Nat /\ Len(ps2) \in Nat /\ Len(ps) <= Len(ps2)
    BY DEF Follows
  <2>3. /\ Len(ps[p].resolved) \in Nat /\ Len(ps2[p].resolved) \in Nat
        /\ Len(ps[p].resolved) <= Len(ps2[p].resolved)
    BY <2>1 DEF Follows
  <2> QED
    BY <2>1, <2>2, <2>3 DEF Made
<1> QED
  BY <1>1 DEF HandlerOK

\* Both lists of a promise get a reaction.
AddIn(ps, p, kf, kr) ==
    [ps EXCEPT ![p].fulfillReactions = Append(@, kf), ![p].rejectReactions = Append(@, kr)]

LEMMA AddInFacts ==
    ASSUME NEW n \in Nat, NEW ps \in Seq(PromiseType(n)), NEW p \in 1 .. Len(ps),
           NEW kf \in 1 .. n, NEW kr \in 1 .. n
    PROVE  /\ AddIn(ps, p, kf, kr) \in Seq(PromiseType(n))
           /\ ListsLonger(ps, AddIn(ps, p, kf, kr), p, kf, kr)
<1> DEFINE lf == Append(ps[p].fulfillReactions, kf)
           lr == Append(ps[p].rejectReactions, kr)
           rec == [ps[p] EXCEPT !.fulfillReactions = lf, !.rejectReactions = lr]
<1>1. ps[p] \in PromiseType(n)
  OBVIOUS
<1>2. ps[p].fulfillReactions \in Seq(1 .. n) /\ ps[p].rejectReactions \in Seq(1 .. n)
  BY <1>1 DEF PromiseType
<1>3. lf \in Seq(1 .. n) /\ lr \in Seq(1 .. n)
  BY <1>2
<1>4. AddIn(ps, p, kf, kr) = [ps EXCEPT ![p] = rec]
  BY <1>1 DEF AddIn, PromiseType
<1> HIDE DEF lf, lr
<1>5. /\ rec \in PromiseType(n) /\ rec.state = ps[p].state /\ rec.result = ps[p].result
      /\ rec.resolved = ps[p].resolved /\ rec.fulfillReactions = lf /\ rec.rejectReactions = lr
  BY <1>1, <1>3 DEF PromiseType
<1> HIDE DEF rec
<1> DEFINE mod == [ps EXCEPT ![p] = rec]
<1>6. /\ mod \in Seq(PromiseType(n)) /\ Len(mod) = Len(ps) /\ mod[p] = rec
      /\ \A r \in 1 .. Len(ps) : r # p => mod[r] = ps[r]
  BY <1>5, ExceptSeq
<1> HIDE DEF mod
<1>7. ListsLonger(ps, mod, p, kf, kr)
  BY <1>5, <1>6 DEF ListsLonger, Alike, lf, lr
<1> QED
  BY <1>4, <1>6, <1>7 DEF mod

\* The reactions that a call of then adds have its capability.
NewReactions(rs, rs2, cap) ==
    \A k \in 1 .. Len(rs2) : (k \in 1 .. Len(rs) /\ rs2[k] = rs[k]) \/ rs2[k].cap = cap

\* They are for promise p and have its handlers; a pending promise has both in its
\* lists, a settled one has the task of one in the queue.
ThenAdds(ps2, rs, rs2, q2, p, hf, hr) ==
    /\ Len(rs) \in Nat /\ Len(rs2) \in Nat /\ Len(rs) <= Len(rs2)
    /\ \A k \in 1 .. Len(rs) : rs2[k] = rs[k]
    /\ \A k \in 1 .. Len(rs2) : k \in 1 .. Len(rs) \/ (rs2[k].of = p /\ rs2[k].handler \in {hf, hr})
    /\ ps2[p].state = "pending" => \E kf, kr \in 1 .. Len(rs2) :
          /\ rs2[kf].handler = hf /\ Listed(ps2[p].fulfillReactions, kf)
          /\ rs2[kr].handler = hr /\ Listed(ps2[p].rejectReactions, kr)
    /\ ps2[p].state # "pending" => \E k \in 1 .. Len(rs2) :
          rs2[k].handler \in {hf, hr} /\ InQueue(q2, k)

\* then of a pending promise.
LEMMA PendingThen ==
    ASSUME NEW ps, NEW rs, NEW fr, NEW q, NEW c, Inv(ps, rs, fr, q, c),
           NEW p \in 1 .. Len(ps), ps[p].state = "pending",
           NEW hf, HandlerOK(ps, hf), hf.kind \in KindsFor("fulfilled"),
           NEW hr, HandlerOK(ps, hr), hr.kind \in KindsFor("rejected"),
           NEW recF \in ReactionType, recF.of = p, recF.cap = <<Len(ps) + 1, 1>>, recF.handler = hf,
           NEW recR \in ReactionType, recR.of = p, recR.cap = <<Len(ps) + 1, 1>>, recR.handler = hr
    PROVE  LET rs2 == Append(Append(rs, recF), recR)
               ps2 == AddIn(Append(ps, NewPromise), p, Len(rs) + 1, Len(rs) + 2)
           IN  /\ Inv(ps2, rs2, fr, q, c) /\ Follows(ps, q, ps2, q)
               /\ NewReactions(rs, rs2, <<Len(ps) + 1, 1>>) /\ Len(ps2) = Len(ps) + 1
               /\ Carries(ps, q, ps2, q, NoPair) /\ ThenAdds(ps2, rs, rs2, q, p, hf, hr)
<1> DEFINE m == Len(ps)
           n == Len(rs)
           ext == Append(ps, NewPromise)
           rs1 == Append(rs, recF)
           rs2 == Append(rs1, recR)
           ps2 == AddIn(ext, p, n + 1, n + 2)
<1>1. /\ TypesInv(ps, rs, fr, q, c) /\ rs \in Seq(ReactionType) /\ n \in Nat /\ m \in Nat
      /\ fr \subseteq 1 .. n
  BY TypesFacts DEF Inv, TypesInv
<1>2. /\ recF.of = p /\ recF.cap = <<m + 1, 1>> /\ recF.handler = hf
      /\ recR.of = p /\ recR.cap = <<m + 1, 1>> /\ recR.handler = hr
  OBVIOUS
<1>4. /\ Inv(ext, rs, fr, q, c) /\ Follows(ps, q, ext, q)
      /\ Len(ext) = m + 1
      /\ \A r \in 1 .. m : ext[r] = ps[r]
      /\ Made(ext, m + 1, 1) /\ ~ext[m + 1].resolved[1]
      /\ \A k \in 1 .. n : rs[k].cap # <<m + 1, 1>>
  BY NewPromiseCall
<1> HIDE DEF ext
<1>5. HandlerOK(ext, hf) /\ HandlerOK(ext, hr)
  BY <1>4, HandlerFrame
<1>6. p \in 1 .. Len(ext) /\ m + 1 \in 1 .. Len(ext)
  BY <1>1, <1>4
<1>7. /\ Inv(ext, rs1, fr, q, c) /\ Len(rs1) = n + 1 /\ rs1[n + 1] = recF
      /\ \A k \in 1 .. n : rs1[k] = rs[k]
  <2>1. HandlerOK(ext, recF.handler) /\ recF.of \in 1 .. Len(ext)
        /\ \A k \in 1 .. n : rs[k].cap = recF.cap => rs[k].of = recF.of
    BY <1>2, <1>4, <1>5, <1>6
  <2>2. recF.cap = <<m + 1, 1>>
    BY <1>2
  <2> HIDE DEF m
  <2> QED
    BY <1>4, <1>6, <2>1, <2>2, AddReactionInv
<1> HIDE DEF rs1
<1>8. /\ Inv(ext, rs2, fr, q, c) /\ Len(rs2) = n + 2 /\ rs2[n + 2] = recR
      /\ \A k \in 1 .. n + 1 : rs2[k] = rs1[k]
  <2>1. HandlerOK(ext, recR.handler) /\ recR.of \in 1 .. Len(ext)
    BY <1>2, <1>5, <1>6
  <2>2. recR.cap = <<m + 1, 1>>
    BY <1>2
  <2>3. \A k \in 1 .. n + 1 : k \in 1 .. n \/ k = n + 1
    BY <1>1
  <2>4. \A k \in 1 .. Len(rs1) : rs1[k].cap = recR.cap => rs1[k].of = recR.of
    BY <1>2, <1>4, <1>7, <2>3
  <2>5. /\ Inv(ext, rs2, fr, q, c) /\ Len(rs2) = Len(rs1) + 1 /\ rs2[Len(rs1) + 1] = recR
        /\ \A k \in 1 .. Len(rs1) : rs2[k] = rs1[k]
    <3>1. Inv(ext, rs1, fr, q, c) /\ m + 1 \in 1 .. Len(ext)
      BY <1>6, <1>7
    <3> HIDE DEF m, n
    <3> QED
      BY <2>1, <2>2, <2>4, <3>1, AddReactionInv
  <2>6. (n + 1) + 1 = n + 2
    BY <1>1
  <2> QED
    BY <2>5, <2>6, <1>7
<1> HIDE DEF rs2
<1>9. /\ rs2[n + 1] = recF /\ \A k \in 1 .. n : rs2[k] = rs[k]
  <2>1. n + 1 \in 1 .. n + 1 /\ \A k \in 1 .. n : k \in 1 .. n + 1
    BY <1>1
  <2> QED
    BY <2>1, <1>7, <1>8
<1>10. n + 1 \in 1 .. Len(rs2) /\ n + 2 \in 1 .. Len(rs2) /\ n + 1 \notin fr /\ n + 2 \notin fr
  BY <1>1, <1>8
<1>11. WaitsFor(ext, rs2, fr, p, n + 1, "fulfilled")
  BY <1>2, <1>4, <1>9, <1>10 DEF WaitsFor
<1>12. WaitsFor(ext, rs2, fr, p, n + 2, "rejected")
  BY <1>2, <1>4, <1>8, <1>10 DEF WaitsFor
<1>13. ASSUME NEW list, \A i \in 1 .. Len(list) : list[i] \in 1 .. n
       PROVE  After(rs2, list, n + 1) /\ After(rs2, list, n + 2)
  <2>1. ASSUME NEW i \in 1 .. Len(list)
        PROVE  /\ list[i] < n + 1 /\ list[i] < n + 2
               /\ rs2[list[i]].cap # <<m + 1, 1>>
    <3>1. list[i] \in 1 .. n
      BY <1>13
    <3>2. list[i] < n + 1 /\ list[i] < n + 2
      BY <1>1, <3>1
    <3> QED
      BY <1>4, <1>9, <3>1, <3>2
  <2> QED
    BY <2>1, <1>2, <1>8, <1>9 DEF After
<1>14. /\ ext[p] = ps[p]
       /\ After(rs2, ext[p].fulfillReactions, n + 1) /\ After(rs2, ext[p].rejectReactions, n + 2)
  <2>1. /\ \A i \in 1 .. Len(ps[p].fulfillReactions) : ps[p].fulfillReactions[i] \in 1 .. n
        /\ \A i \in 1 .. Len(ps[p].rejectReactions) : ps[p].rejectReactions[i] \in 1 .. n
    BY <1>1, TypesFacts
  <2> QED
    BY <2>1, <1>4, <1>13
<1>15. /\ ps2 \in Seq(PromiseType(Len(rs2))) /\ ListsLonger(ext, ps2, p, n + 1, n + 2)
  <2>1. ext \in Seq(PromiseType(Len(rs2))) /\ Len(rs2) \in Nat
    BY <1>8, TypesFacts DEF Inv, TypesInv
  <2> QED
    BY <2>1, <1>6, <1>10, AddInFacts
<1> HIDE DEF ps2
<1>16. Inv(ps2, rs2, fr, q, c)
  <2>1. ext[p].state = "pending"
    BY <1>14
  <2> QED
    BY <1>6, <1>8, <1>10, <1>11, <1>12, <1>14, <1>15, <2>1, AddToListsInv
<1>17. Follows(ext, q, ps2, q) /\ Len(ps2) = Len(ps) + 1
  <2>1. Len(ext) \in Nat /\ \A r \in 1 .. Len(ext) : Len(ext[r].resolved) \in Nat
    BY <1>4, TypesFacts DEF Inv
  <2>2. Len(ps2) = Len(ext) /\ \A r \in 1 .. Len(ext) : /\ ps2[r].state = ext[r].state
           /\ ps2[r].result = ext[r].result /\ ps2[r].resolved = ext[r].resolved
    BY <1>15 DEF ListsLonger, Alike
  <2>3. \A r \in 1 .. Len(ext) : Decidable(ext, q, r) => Decidable(ps2, q, r)
    BY <2>2 DEF Decidable, Open
  <2>4. \A r \in 1 .. Len(ext) : /\ Len(ps2[r].resolved) \in Nat
                                 /\ Len(ext[r].resolved) <= Len(ps2[r].resolved)
    BY <2>1, <2>2
  <2> QED
    BY <1>4, <2>1, <2>2, <2>3, <2>4 DEF Follows
<1>18. Follows(ps, q, ps2, q)
  BY <1>4, <1>17, FollowsTransitive
<1>19. NewReactions(rs, rs2, <<m + 1, 1>>)
  <2>1. \A k \in 1 .. n + 2 : k \in 1 .. n \/ k = n + 1 \/ k = n + 2
    BY <1>1
  <2> QED
    BY <2>1, <1>2, <1>8, <1>9 DEF NewReactions
<1>20. /\ \A r \in 1 .. m : /\ ps2[r].state = ps[r].state /\ ps2[r].resolved = ps[r].resolved
                            /\ \A k : Listed(ps[r].fulfillReactions, k) => Listed(ps2[r].fulfillReactions, k)
                            /\ \A k : Listed(ps[r].rejectReactions, k) => Listed(ps2[r].rejectReactions, k)
       /\ ps2[p].state = "pending"
       /\ Listed(ps2[p].fulfillReactions, n + 1) /\ Listed(ps2[p].rejectReactions, n + 2)
  <2>1. /\ \A r \in 1 .. m + 1 : r # p => ps2[r] = ext[r]
        /\ ps2[p].state = ext[p].state /\ ps2[p].resolved = ext[p].resolved
        /\ ps2[p].fulfillReactions = Append(ext[p].fulfillReactions, n + 1)
        /\ ps2[p].rejectReactions = Append(ext[p].rejectReactions, n + 2)
    BY <1>4, <1>15 DEF ListsLonger, Alike
  <2>2. \A r \in 1 .. m : r # p => ps2[r] = ps[r]
    BY <1>1, <1>4, <2>1
  <2>3. /\ ps[p].fulfillReactions \in Seq(1 .. n) /\ ps[p].rejectReactions \in Seq(1 .. n)
    BY <1>1, TypesFacts
  <2>4. ASSUME NEW list \in Seq(1 .. n), NEW k0 \in Nat
        PROVE  Listed(Append(list, k0), k0) /\ \A k : Listed(list, k) => Listed(Append(list, k0), k)
    <3>1. list \in Seq(Nat)
      BY SeqMonotonic, 1 .. n \subseteq Nat
    <3>2. /\ Len(Append(list, k0)) = Len(list) + 1 /\ Len(list) \in Nat /\ Append(list, k0)[Len(list) + 1] = k0
          /\ \A i \in 1 .. Len(list) : Append(list, k0)[i] = list[i]
      BY <3>1, AppendFacts
    <3>3. Len(list) + 1 \in 1 .. Len(Append(list, k0)) /\ \A i \in 1 .. Len(list) : i \in 1 .. Len(Append(list, k0))
      BY <3>2
    <3> QED
      BY <3>2, <3>3 DEF Listed
  <2>5. n + 1 \in Nat /\ n + 2 \in Nat
    BY <1>1
  <2>6. /\ Listed(ps2[p].fulfillReactions, n + 1) /\ Listed(ps2[p].rejectReactions, n + 2)
        /\ \A k : Listed(ps[p].fulfillReactions, k) => Listed(ps2[p].fulfillReactions, k)
        /\ \A k : Listed(ps[p].rejectReactions, k) => Listed(ps2[p].rejectReactions, k)
    BY <1>14, <2>1, <2>3, <2>4, <2>5
  <2> QED
    BY <1>14, <2>1, <2>2, <2>6
<1>21. Carries(ps, q, ps2, q, NoPair)
  BY <1>20 DEF Carries
<1>22. ThenAdds(ps2, rs, rs2, q, p, hf, hr)
  <2>1. \A k \in 1 .. n + 2 : k \in 1 .. n \/ k = n + 1 \/ k = n + 2
    BY <1>1
  <2>2. rs2[n + 1].handler = hf /\ rs2[n + 2].handler = hr /\ rs2[n + 1].of = p /\ rs2[n + 2].of = p
    BY <1>2, <1>8, <1>9
  <2>3. n <= n + 2 /\ n + 2 \in Nat
    BY <1>1
  <2> QED
    BY <1>1, <1>8, <1>9, <1>10, <1>20, <2>1, <2>2, <2>3 DEF ThenAdds
<1> QED
  BY <1>16, <1>17, <1>18, <1>19, <1>21, <1>22 DEF ps2, rs2, rs1, ext

\* then of a settled promise.
LEMMA SettledThen ==
    ASSUME NEW ps, NEW rs, NEW fr, NEW q, NEW c, Inv(ps, rs, fr, q, c),
           NEW p \in 1 .. Len(ps), ps[p].state # "pending",
           NEW hf, NEW hr, NEW h \in {hf, hr}, HandlerOK(ps, h), h.kind \in KindsFor(ps[p].state),
           NEW rec \in ReactionType, rec.of = p, rec.cap = <<Len(ps) + 1, 1>>, rec.handler = h
    PROVE  LET rs2 == Append(rs, rec)
               ps2 == Append(ps, NewPromise)
               q2 == Append(q, ReactionTask(Len(rs) + 1, ps[p].result))
           IN  /\ Inv(ps2, rs2, fr, q2, c) /\ Follows(ps, q, ps2, q2)
               /\ NewReactions(rs, rs2, <<Len(ps) + 1, 1>>) /\ Len(ps2) = Len(ps) + 1
               /\ Carries(ps, q, ps2, q2, NoPair) /\ ThenAdds(ps2, rs, rs2, q2, p, hf, hr)
<1> DEFINE m == Len(ps)
           n == Len(rs)
           ext == Append(ps, NewPromise)
           rs2 == Append(rs, rec)
           t == ReactionTask(n + 1, ps[p].result)
           q2 == Append(q, t)
<1>1. /\ TypesInv(ps, rs, fr, q, c) /\ rs \in Seq(ReactionType) /\ n \in Nat /\ m \in Nat
      /\ fr \subseteq 1 .. n /\ QueueInv(ps, rs, fr, q, c) /\ ps[p] \in PromiseType(n)
  BY TypesFacts DEF Inv, TypesInv
<1>2. rec.of = p /\ rec.cap = <<m + 1, 1>> /\ rec.handler = h
  OBVIOUS
<1>4. /\ Inv(ext, rs, fr, q, c) /\ Follows(ps, q, ext, q)
      /\ Len(ext) = m + 1
      /\ \A r \in 1 .. m : ext[r] = ps[r]
      /\ Made(ext, m + 1, 1) /\ ~ext[m + 1].resolved[1]
      /\ \A k \in 1 .. n : rs[k].cap # <<m + 1, 1>>
  BY NewPromiseCall
<1> HIDE DEF ext
<1>5. HandlerOK(ext, h)
  BY <1>4, HandlerFrame
<1>6. p \in 1 .. Len(ext) /\ m + 1 \in 1 .. Len(ext)
  BY <1>1, <1>4
<1>7. /\ Inv(ext, rs2, fr, q, c) /\ Len(rs2) = n + 1 /\ rs2[n + 1] = rec
      /\ \A k \in 1 .. n : rs2[k] = rs[k]
  <2>1. HandlerOK(ext, rec.handler) /\ rec.of \in 1 .. Len(ext)
        /\ \A k \in 1 .. n : rs[k].cap = rec.cap => rs[k].of = rec.of
    BY <1>2, <1>4, <1>5, <1>6
  <2>2. rec.cap = <<m + 1, 1>>
    BY <1>2
  <2> HIDE DEF m
  <2> QED
    BY <1>4, <1>6, <2>1, <2>2, AddReactionInv
<1> HIDE DEF rs2
<1>8. /\ t \in Tasks(Len(rs2), Len(ext)) /\ t.kind = "reaction" /\ t.subject = n + 1
      /\ t.arg = ps[p].result /\ ~t.called
  <2>1. ps[p].result \in Value
    BY <1>1 DEF PromiseType
  <2>2. n + 1 \in 1 .. Len(rs2)
    BY <1>1, <1>7
  <2> QED
    BY <2>1, <2>2 DEF ReactionTask, Tasks
<1> HIDE DEF t
<1>9. Ready(ext, rs2, fr, t)
  <2>1. n + 1 \notin fr /\ ext[p] = ps[p]
    BY <1>1, <1>4
  <2> QED
    BY <2>1, <1>2, <1>4, <1>7, <1>8 DEF Ready
<1>10. ASSUME NEW u, u.subject \in 1 .. n
       PROVE  Before(rs2, u, t)
  <2>1. u.subject < n + 1
    BY <1>1, <1>10
  <2>2. rs2[u.subject].cap # rs2[t.subject].cap
    BY <1>2, <1>4, <1>7, <1>8, <1>10
  <2> QED
    BY <2>1, <2>2, <1>8 DEF Before
<1>11. Inv(ext, rs2, fr, q2, c)
  <2>1. /\ \A i \in 1 .. Len(q) : q[i].kind = "reaction" => q[i].subject \in 1 .. n
        /\ c.kind = "reaction" => c.subject \in 1 .. n
    BY <1>1, TypesFacts
  <2> QED
    BY <1>7, <1>8, <1>9, <1>10, <2>1, AddTaskInv
<1>12. Follows(ps, q, ext, q2)
  <2>1. q \in Seq(Tasks(Len(rs2), Len(ext)))
    BY <1>7 DEF Inv, TypesInv
  <2>2. Len(q2) = Len(q) + 1 /\ Len(q) \in Nat /\ \A i \in 1 .. Len(q) : q2[i] = q[i]
    BY <1>8, <2>1, AppendFacts
  <2> HIDE DEF q2
  <2>3. \A r : Awaits(q, r) \subseteq Awaits(q2, r)
    BY <2>2 DEF Awaits
  <2>4. \A r : Decidable(ext, q, r) => Decidable(ext, q2, r)
    BY <2>3 DEF Decidable
  <2> QED
    BY <1>4, <2>4 DEF Follows
<1>13. NewReactions(rs, rs2, <<m + 1, 1>>)
  <2>1. \A k \in 1 .. n + 1 : k \in 1 .. n \/ k = n + 1
    BY <1>1
  <2> QED
    BY <2>1, <1>2, <1>7 DEF NewReactions
<1>14. /\ \A k : InQueue(q, k) => InQueue(q2, k)
       /\ Fresh(q) => Fresh(q2)
       /\ InQueue(q2, n + 1)
  <2>1. q \in Seq(Tasks(Len(rs2), Len(ext)))
    BY <1>7 DEF Inv, TypesInv
  <2> QED
    BY <1>8, <2>1, QueueLonger
<1> HIDE DEF q2
<1>15. Carries(ps, q, ext, q2, NoPair)
  BY <1>4, <1>14 DEF Carries
<1>16. ThenAdds(ext, rs, rs2, q2, p, hf, hr)
  <2>1. \A k \in 1 .. n + 1 : k \in 1 .. n \/ k = n + 1
    BY <1>1
  <2>2. n <= n + 1 /\ n + 1 \in Nat /\ n + 1 \in 1 .. Len(rs2) /\ ext[p].state # "pending"
    BY <1>1, <1>4, <1>7
  <2>3. rs2[n + 1].of = p /\ rs2[n + 1].handler \in {hf, hr}
    BY <1>2, <1>7
  <2> QED
    BY <1>1, <1>7, <1>14, <2>1, <2>2, <2>3 DEF ThenAdds
<1> QED
  BY <1>4, <1>11, <1>12, <1>13, <1>15, <1>16 DEF ext, rs2, q2, t

\* then.
LEMMA ThenCall ==
    ASSUME NEW ps, NEW fr, NEW q, NEW c, Inv(ps, reaction, fr, q, c), NEW p \in 1 .. Len(ps),
           NEW hf, HandlerOK(ps, hf), hf.kind \in KindsFor("fulfilled"),
           NEW hr, HandlerOK(ps, hr), hr.kind \in KindsFor("rejected"),
           _ejs_Promise_prototype_then(ps, q, p, hf, hr)
    PROVE  /\ Inv(promise', reaction', fr, tasks', c) /\ Follows(ps, q, promise', tasks')
           /\ NewReactions(reaction, reaction', <<Len(ps) + 1, 1>>) /\ Len(promise') = Len(ps) + 1
           /\ Carries(ps, q, promise', tasks', NoPair)
           /\ ThenAdds(promise', reaction, reaction', tasks', p, hf, hr)
<1> DEFINE cap == <<Len(ps) + 1, 1>>
           Rec(h) == [of |-> p, cap |-> cap, handler |-> h]
<1>1. /\ TypesInv(ps, reaction, fr, q, c) /\ reaction \in Seq(ReactionType) /\ Len(ps) \in Nat
      /\ ps[p] \in PromiseType(Len(reaction))
  BY TypesFacts DEF Inv, TypesInv
<1>2. ASSUME NEW h, HandlerOK(ps, h)
      PROVE  /\ Rec(h) \in ReactionType /\ Rec(h).of = p /\ Rec(h).cap = cap /\ Rec(h).handler = h
  <2>1. cap \in Nat \X Nat /\ p \in Nat /\ h \in [kind : Kinds, pair : Nat \X Nat]
    BY <1>1, <1>2 DEF HandlerOK
  <2> HIDE DEF cap
  <2> QED
    BY <2>1 DEF ReactionType
<1>3. CASE ps[p].state = "pending"
  <2>1. /\ reaction' = reaction \o <<Rec(hf), Rec(hr)>>
        /\ promise' = AddIn(Append(ps, NewPromise), p, Len(reaction) + 1, Len(reaction) + 2)
        /\ tasks' = q
    BY <1>3 DEF _ejs_Promise_prototype_then, AddIn
  <2>2. \A a, b \in ReactionType : reaction \o <<a, b>> = Append(Append(reaction, a), b)
    BY <1>1
  <2>3. /\ Rec(hf) \in ReactionType /\ Rec(hf).of = p /\ Rec(hf).cap = cap /\ Rec(hf).handler = hf
        /\ Rec(hr) \in ReactionType /\ Rec(hr).of = p /\ Rec(hr).cap = cap /\ Rec(hr).handler = hr
    BY <1>2
  <2>4. reaction' = Append(Append(reaction, Rec(hf)), Rec(hr))
    BY <2>1, <2>2, <2>3
  <2> DEFINE rs2 == Append(Append(reaction, Rec(hf)), Rec(hr))
             ps2 == AddIn(Append(ps, NewPromise), p, Len(reaction) + 1, Len(reaction) + 2)
  <2> HIDE DEF Rec
  <2>5. /\ Inv(ps2, rs2, fr, q, c) /\ Follows(ps, q, ps2, q)
        /\ NewReactions(reaction, rs2, <<Len(ps) + 1, 1>>) /\ Len(ps2) = Len(ps) + 1
        /\ Carries(ps, q, ps2, q, NoPair) /\ ThenAdds(ps2, reaction, rs2, q, p, hf, hr)
    BY <1>3, <2>3, PendingThen
  <2>6. reaction' = rs2 /\ promise' = ps2 /\ tasks' = q
    BY <2>1, <2>4
  <2> HIDE DEF rs2, ps2
  <2> QED
    BY <2>5, <2>6
<1>4. CASE ps[p].state # "pending"
  <2> DEFINE h == IF ps[p].state = "fulfilled" THEN hf ELSE hr
  <2>1. /\ reaction' = Append(reaction, Rec(h))
        /\ promise' = Append(ps, NewPromise)
        /\ tasks' = Append(q, ReactionTask(Len(reaction) + 1, ps[p].result))
    BY <1>4 DEF _ejs_Promise_prototype_then
  <2>2. HandlerOK(ps, h) /\ h \in {hf, hr}
    OBVIOUS
  <2>3. h.kind \in KindsFor(ps[p].state)
    BY DEF KindsFor
  <2>4. /\ Rec(h) \in ReactionType /\ Rec(h).of = p /\ Rec(h).cap = cap /\ Rec(h).handler = h
    BY <1>2, <2>2
  <2> HIDE DEF Rec, h
  <2> QED
    BY <1>4, <2>1, <2>2, <2>3, <2>4, SettledThen
<1> QED
  BY <1>3, <1>4

\* What user code knows and holds stays valid.
LEMMA HeldFrame ==
    ASSUME NEW ps, NEW rs, NEW kn, NEW hd, HeldInv(ps, rs, kn, hd),
           NEW q, NEW ps2, NEW q2, Follows(ps, q, ps2, q2),
           NEW rs2, rs2 = rs \/ NewReactions(rs, rs2, <<Len(ps) + 1, 1>>)
    PROVE  HeldInv(ps2, rs2, kn, hd)
<1>1. Len(ps) \in Nat /\ Len(ps2) \in Nat /\ Len(ps) <= Len(ps2)
  BY DEF Follows
<1>2. kn \subseteq 1 .. Len(ps2)
  BY <1>1 DEF HeldInv
<1>3. ASSUME NEW pair \in hd
      PROVE  /\ Made(ps2, pair[1], pair[2]) /\ pair = <<pair[1], pair[2]>>
             /\ \A k \in 1 .. Len(rs2) : rs2[k].cap # pair
  <2>1. /\ pair[1] \in 1 .. Len(ps) /\ pair[2] \in 1 .. Len(ps[pair[1]].resolved)
        /\ pair = <<pair[1], pair[2]>> /\ \A k \in 1 .. Len(rs) : rs[k].cap # pair
    BY DEF HeldInv, Made
  <2>2. /\ Len(ps[pair[1]].resolved) \in Nat /\ Len(ps2[pair[1]].resolved) \in Nat
        /\ Len(ps[pair[1]].resolved) <= Len(ps2[pair[1]].resolved)
    BY <2>1 DEF Follows
  <2>3. Made(ps2, pair[1], pair[2])
    BY <1>1, <2>1, <2>2 DEF Made
  <2>4. pair # <<Len(ps) + 1, 1>>
    BY <1>1, <2>1
  <2>5. \A k \in 1 .. Len(rs2) : rs2[k].cap # pair
    BY <2>1, <2>4 DEF NewReactions
  <2> QED
    BY <2>1, <2>3, <2>5
<1> QED
  BY <1>2, <1>3 DEF HeldInv

\* A pair that user code holds may be used.
LEMMA HeldPair ==
    ASSUME NEW ps, NEW rs, NEW fr, NEW q, NEW c, Inv(ps, rs, fr, q, c),
           NEW kn, NEW hd, HeldInv(ps, rs, kn, hd), NEW pair \in hd
    PROVE  /\ Made(ps, pair[1], pair[2]) /\ pair = <<pair[1], pair[2]>>
           /\ NotDue(ps, rs, q, c, <<pair[1], pair[2]>>)
<1>1. /\ Made(ps, pair[1], pair[2]) /\ pair = <<pair[1], pair[2]>>
      /\ \A k \in 1 .. Len(rs) : rs[k].cap # pair
  BY DEF HeldInv
<1>2. NotDue(ps, rs, q, c, pair)
  BY <1>1, NobodysCapability DEF Inv
<1> QED
  BY <1>1, <1>2

\* So may a later pair of a promise, which no reaction has as its capability.
LEMMA LaterPair ==
    ASSUME NEW ps, NEW rs, NEW fr, NEW q, NEW c, Inv(ps, rs, fr, q, c),
           NEW p, NEW i \in Nat, i >= 2
    PROVE  /\ NotDue(ps, rs, q, c, <<p, i>>)
           /\ \A k \in 1 .. Len(rs) : rs[k].cap # <<p, i>>
<1>1. \A k \in 1 .. Len(rs) : rs[k].cap # <<p, i>>
  BY DEF Inv, ReactionsInv
<1> QED
  BY <1>1, NobodysCapability DEF Inv

-----------------------------------------------------------------------------
(* The actions.                                                            *)

\* What every action is shown to do.
Keeps == PromiseInv' /\ Follows(promise, tasks, promise', tasks')

LEMMA UserOpFacts ==
    ASSUME PromiseInv, UserOp
    PROVE  ops' \in 0 .. MaxOps /\ freed' = freed /\ current' = current
  BY MaxOpsAssumption DEF PromiseInv, UserOp

LEMMA UserHandlers ==
    ASSUME NEW ps, NEW h \in {User, Identity, Thrower}
    PROVE  HandlerOK(ps, h)
<1>1. NoPair \in Nat \X Nat
  BY DEF NoPair
<1>2. h.pair = NoPair /\ h.kind \in {"user", "identity", "thrower"} /\ h = [kind |-> h.kind, pair |-> h.pair]
  BY DEF User, Identity, Thrower, Handler
<1> QED
  BY <1>1, <1>2 DEF HandlerOK, Kinds

LEMMA NewPromiseKeeps ==
    ASSUME PromiseInv, _ejs_Promise_impl
    PROVE  Keeps
<1>1. /\ Inv(promise, reaction, freed, tasks, current) /\ HeldInv(promise, reaction, known, held)
      /\ ops' \in 0 .. MaxOps /\ freed' = freed /\ current' = current
  BY UserOpFacts DEF PromiseInv, _ejs_Promise_impl
<1>2. /\ promise' = Append(promise, NewPromise) /\ reaction' = reaction /\ tasks' = tasks
      /\ known' = known \union {Len(promise) + 1}
      /\ held' = held \union {<<Len(promise) + 1, 1>>}
  BY DEF _ejs_Promise_impl
<1>3. /\ Inv(promise', reaction, freed, tasks, current) /\ Follows(promise, tasks, promise', tasks)
      /\ Len(promise') = Len(promise) + 1 /\ Len(promise) \in Nat
      /\ Made(promise', Len(promise) + 1, 1)
      /\ \A k \in 1 .. Len(reaction) : reaction[k].cap # <<Len(promise) + 1, 1>>
  BY <1>1, <1>2, NewPromiseCall
<1>4. HeldInv(promise', reaction, known, held)
  BY <1>1, <1>3, HeldFrame
<1>5. HeldInv(promise', reaction, known', held')
  <2>1. Len(promise) + 1 \in 1 .. Len(promise')
    BY <1>3
  <2>2. <<Len(promise) + 1, 1>>[1] = Len(promise) + 1 /\ <<Len(promise) + 1, 1>>[2] = 1
    OBVIOUS
  <2> QED
    BY <1>2, <1>3, <1>4, <2>1, <2>2 DEF HeldInv
<1> QED
  BY <1>1, <1>2, <1>3, <1>5 DEF Keeps, PromiseInv

LEMMA ThenKeeps ==
    ASSUME PromiseInv, NEW p \in known, NEW hf \in {User, Identity}, NEW hr \in {User, Thrower},
           CallThen(p, hf, hr)
    PROVE  Keeps
<1>1. /\ Inv(promise, reaction, freed, tasks, current) /\ HeldInv(promise, reaction, known, held)
      /\ ops' \in 0 .. MaxOps /\ freed' = freed /\ current' = current
  BY UserOpFacts DEF PromiseInv, CallThen
<1>2. /\ _ejs_Promise_prototype_then(promise, tasks, p, hf, hr)
      /\ known' = known \union {Len(promise) + 1} /\ held' = held
  BY DEF CallThen
<1>3. HandlerOK(promise, hf) /\ HandlerOK(promise, hr)
  BY UserHandlers
<1>4. hf.kind \in KindsFor("fulfilled") /\ hr.kind \in KindsFor("rejected")
  BY DEF KindsFor, User, Identity, Thrower, Handler
<1>5. p \in 1 .. Len(promise)
  BY <1>1 DEF HeldInv
<1>6. /\ Inv(promise', reaction', freed, tasks', current) /\ Follows(promise, tasks, promise', tasks')
      /\ NewReactions(reaction, reaction', <<Len(promise) + 1, 1>>) /\ Len(promise') = Len(promise) + 1
  BY <1>1, <1>2, <1>3, <1>4, <1>5, ThenCall
<1>7. HeldInv(promise', reaction', known, held)
  BY <1>1, <1>6, HeldFrame
<1>8. HeldInv(promise', reaction', known', held')
  <2>1. Len(promise) + 1 \in 1 .. Len(promise')
    BY <1>6 DEF Follows
  <2> QED
    BY <1>2, <1>7, <2>1 DEF HeldInv
<1> QED
  BY <1>1, <1>6, <1>8 DEF Keeps, PromiseInv

LEMMA ResolveKeeps ==
    ASSUME PromiseInv, NEW pair \in held, NEW x, CallResolve(pair, x)
    PROVE  Keeps
<1>1. /\ Inv(promise, reaction, freed, tasks, current) /\ HeldInv(promise, reaction, known, held)
      /\ ops' \in 0 .. MaxOps /\ freed' = freed /\ current' = current
  BY UserOpFacts DEF PromiseInv, CallResolve
<1>2. /\ Made(promise, pair[1], pair[2]) /\ pair = <<pair[1], pair[2]>>
      /\ NotDue(promise, reaction, tasks, current, <<pair[1], pair[2]>>)
  BY <1>1, HeldPair
<1>3. /\ resolve(promise, tasks, pair, x) /\ reaction' = reaction /\ known' = known /\ held' = held
  BY DEF CallResolve
<1>4. resolve(promise, tasks, <<pair[1], pair[2]>>, x)
  BY <1>2, <1>3
<1>5. Inv(promise', reaction, freed, tasks', current) /\ Follows(promise, tasks, promise', tasks')
  BY <1>1, <1>2, <1>4, ResolveCall
<1>6. HeldInv(promise', reaction, known, held)
  BY <1>1, <1>5, HeldFrame
<1> QED
  BY <1>1, <1>3, <1>5, <1>6 DEF Keeps, PromiseInv

LEMMA RejectKeeps ==
    ASSUME PromiseInv, NEW pair \in held, NEW x \in Value, CallReject(pair, x)
    PROVE  Keeps
<1>1. /\ Inv(promise, reaction, freed, tasks, current) /\ HeldInv(promise, reaction, known, held)
      /\ ops' \in 0 .. MaxOps /\ freed' = freed /\ current' = current
  BY UserOpFacts DEF PromiseInv, CallReject
<1>2. /\ Made(promise, pair[1], pair[2]) /\ pair = <<pair[1], pair[2]>>
      /\ NotDue(promise, reaction, tasks, current, <<pair[1], pair[2]>>)
  BY <1>1, HeldPair
<1>3. /\ reject(promise, tasks, pair, x) /\ reaction' = reaction /\ known' = known /\ held' = held
  BY DEF CallReject
<1>4. reject(promise, tasks, <<pair[1], pair[2]>>, x)
  BY <1>2, <1>3
<1>5. Inv(promise', reaction, freed, tasks', current) /\ Follows(promise, tasks, promise', tasks')
  BY <1>1, <1>2, <1>4, RejectCall
<1>6. HeldInv(promise', reaction, known, held)
  BY <1>1, <1>5, HeldFrame
<1> QED
  BY <1>1, <1>3, <1>5, <1>6 DEF Keeps, PromiseInv

\* Promise.resolve and Promise.reject: a new promise, and its pair used at once.
LEMMA NewPromisePair ==
    ASSUME NEW ps, NEW rs, NEW fr, NEW q, NEW c, Inv(ps, rs, fr, q, c),
           NEW ext, ext = Append(ps, NewPromise)
    PROVE  /\ Inv(ext, rs, fr, q, c) /\ Follows(ps, q, ext, q) /\ Len(ext) = Len(ps) + 1
           /\ Carries(ps, q, ext, q, NoPair)
           /\ Made(ext, Len(ps) + 1, 1) /\ NotDue(ext, rs, q, c, <<Len(ps) + 1, 1>>)
<1>1. /\ Inv(ext, rs, fr, q, c) /\ Follows(ps, q, ext, q) /\ Len(ext) = Len(ps) + 1
      /\ Carries(ps, q, ext, q, NoPair)
      /\ Made(ext, Len(ps) + 1, 1)
      /\ \A k \in 1 .. Len(rs) : rs[k].cap # <<Len(ps) + 1, 1>>
  BY NewPromiseCall
<1>2. NotDue(ext, rs, q, c, <<Len(ps) + 1, 1>>)
  BY <1>1, NobodysCapability DEF Inv
<1> QED
  BY <1>1, <1>2

LEMMA PromiseResolveKeeps ==
    ASSUME PromiseInv, NEW x, _ejs_Promise_resolve(x)
    PROVE  Keeps
<1> DEFINE ext == Append(promise, NewPromise)
<1>1. /\ Inv(promise, reaction, freed, tasks, current) /\ HeldInv(promise, reaction, known, held)
      /\ ops' \in 0 .. MaxOps /\ freed' = freed /\ current' = current
  BY UserOpFacts DEF PromiseInv, _ejs_Promise_resolve
<1>2. /\ resolve(ext, tasks, <<Len(promise) + 1, 1>>, x) /\ reaction' = reaction /\ held' = held
      /\ known' \subseteq known \union {Len(promise) + 1}
  BY DEF _ejs_Promise_resolve
<1>3. /\ Inv(ext, reaction, freed, tasks, current) /\ Follows(promise, tasks, ext, tasks)
      /\ Len(ext) = Len(promise) + 1 /\ Made(ext, Len(promise) + 1, 1)
      /\ NotDue(ext, reaction, tasks, current, <<Len(promise) + 1, 1>>)
  BY <1>1, NewPromisePair
<1> HIDE DEF ext
<1>4. /\ Inv(promise', reaction, freed, tasks', current) /\ Follows(ext, tasks, promise', tasks')
      /\ Len(promise') = Len(ext)
  BY <1>2, <1>3, ResolveCall
<1>5. Follows(promise, tasks, promise', tasks')
  BY <1>3, <1>4, FollowsTransitive
<1>6. HeldInv(promise', reaction, known, held)
  BY <1>1, <1>5, HeldFrame
<1>7. HeldInv(promise', reaction, known', held)
  <2>1. Len(promise) + 1 \in 1 .. Len(promise')
    BY <1>3, <1>4, <1>5 DEF Follows
  <2> QED
    BY <1>2, <1>6, <2>1 DEF HeldInv
<1> QED
  BY <1>1, <1>2, <1>4, <1>5, <1>7 DEF Keeps, PromiseInv

LEMMA PromiseRejectKeeps ==
    ASSUME PromiseInv, NEW x \in Value, _ejs_Promise_reject(x)
    PROVE  Keeps
<1> DEFINE ext == Append(promise, NewPromise)
<1>1. /\ Inv(promise, reaction, freed, tasks, current) /\ HeldInv(promise, reaction, known, held)
      /\ ops' \in 0 .. MaxOps /\ freed' = freed /\ current' = current
  BY UserOpFacts DEF PromiseInv, _ejs_Promise_reject
<1>2. /\ reject(ext, tasks, <<Len(promise) + 1, 1>>, x) /\ reaction' = reaction /\ held' = held
      /\ known' = known \union {Len(promise) + 1}
  BY DEF _ejs_Promise_reject
<1>3. /\ Inv(ext, reaction, freed, tasks, current) /\ Follows(promise, tasks, ext, tasks)
      /\ Len(ext) = Len(promise) + 1 /\ Made(ext, Len(promise) + 1, 1)
      /\ NotDue(ext, reaction, tasks, current, <<Len(promise) + 1, 1>>)
  BY <1>1, NewPromisePair
<1> HIDE DEF ext
<1>4. /\ Inv(promise', reaction, freed, tasks', current) /\ Follows(ext, tasks, promise', tasks')
      /\ Len(promise') = Len(ext)
  BY <1>2, <1>3, RejectCall
<1>5. Follows(promise, tasks, promise', tasks')
  BY <1>3, <1>4, FollowsTransitive
<1>6. HeldInv(promise', reaction, known, held)
  BY <1>1, <1>5, HeldFrame
<1>7. HeldInv(promise', reaction, known', held)
  <2>1. Len(promise) + 1 \in 1 .. Len(promise')
    BY <1>3, <1>4, <1>5 DEF Follows
  <2> QED
    BY <1>2, <1>6, <2>1 DEF HeldInv
<1> QED
  BY <1>1, <1>2, <1>4, <1>5, <1>7 DEF Keeps, PromiseInv

LEMMA StartReactionKeeps ==
    ASSUME PromiseInv, StartReaction
    PROVE  Keeps
<1>1. /\ Inv(promise, reaction, freed, tasks, Idle) /\ HeldInv(promise, reaction, known, held)
      /\ ops \in 0 .. MaxOps
  BY DEF PromiseInv, StartReaction
<1>2. /\ tasks # <<>> /\ Head(tasks).kind = "reaction"
      /\ current' = Head(tasks) /\ tasks' = Tail(tasks)
      /\ promise' = promise /\ reaction' = reaction /\ freed' = freed /\ known' = known /\ held' = held
      /\ ops' = ops
  BY DEF StartReaction
<1>3. /\ Inv(promise, reaction, freed, tasks', current')
      /\ \A r \in 1 .. Len(promise) : Awaits(tasks, r) # {} => Awaits(tasks', r) # {}
  BY <1>1, <1>2, StartInv
<1>4. Follows(promise, tasks, promise, tasks)
  BY <1>1, FollowsReflexive
<1>5. Follows(promise, tasks, promise, tasks')
  <2>1. \A r \in 1 .. Len(promise) : Decidable(promise, tasks, r) => Decidable(promise, tasks', r)
    BY <1>3 DEF Decidable
  <2> QED
    BY <1>4, <2>1 DEF Follows
<1> QED
  BY <1>1, <1>2, <1>3, <1>5 DEF Keeps, PromiseInv

\* A task that only ends.
LEMMA IdleKeeps ==
    ASSUME PromiseInv, current' = Idle, freed' = freed,
           UNCHANGED <<promise, reaction, tasks, known, held, ops>>
    PROVE  Keeps
<1>1. Inv(promise, reaction, freed, tasks, current)
  BY DEF PromiseInv
<1>2. Inv(promise, reaction, freed, tasks, Idle) /\ Follows(promise, tasks, promise, tasks)
  BY <1>1, IdleInv, FollowsReflexive
<1> QED
  BY <1>2 DEF Keeps, PromiseInv

\* FinishTask after the task of a reaction, and after a thenable's.
LEMMA FinishTaskFacts ==
    ASSUME FinishTask
    PROVE  /\ current' = Idle
           /\ freed' = freed \/ freed' = freed \union {current.subject}
           /\ current.kind # "reaction" => freed' = freed
  BY DEF FinishTask

LEMMA CallHandlerKeeps ==
    ASSUME PromiseInv, CallHandler
    PROVE  Keeps
<1> DEFINE k == current.subject
           pair == reaction[k].handler.pair
           c == [current EXCEPT !.called = TRUE]
<1>1. /\ Inv(promise, reaction, freed, tasks, current) /\ HeldInv(promise, reaction, known, held)
      /\ ops \in 0 .. MaxOps /\ current.kind = "reaction"
  BY DEF PromiseInv, CallHandler
<1>2. /\ \/ reaction[k].handler.kind = "resolve" /\ resolve(promise, tasks, pair, current.arg)
         \/ reaction[k].handler.kind = "reject" /\ reject(promise, tasks, pair, current.arg)
      /\ current' = c
      /\ reaction' = reaction /\ freed' = freed /\ known' = known /\ held' = held /\ ops' = ops
  BY DEF CallHandler
<1>3. Inv(promise, reaction, freed, tasks, c)
  BY <1>1, CalledInv
<1> HIDE DEF c
<1>4. k \in 1 .. Len(reaction) /\ current.arg \in Value
  <2>1. TypesInv(promise, reaction, freed, tasks, current)
    BY <1>1 DEF Inv
  <2>2. k \in 1 .. Len(reaction) /\ current \in Tasks(Len(reaction), Len(promise))
        /\ Len(reaction) \in Nat /\ Len(promise) \in Nat
    BY <1>1, <2>1, TypesFacts
  <2> QED
    BY <1>1, <2>2, TaskFacts
<1>5. /\ Made(promise, pair[1], pair[2]) /\ pair[2] >= 2 /\ pair = <<pair[1], pair[2]>>
  BY <1>1, <1>2, <1>4 DEF Inv, ReactionsInv
<1>6. pair[2] \in Nat
  BY <1>5 DEF Made
<1>7. NotDue(promise, reaction, tasks, c, <<pair[1], pair[2]>>)
  BY <1>3, <1>5, <1>6, LaterPair
<1>8. \/ resolve(promise, tasks, <<pair[1], pair[2]>>, current.arg)
      \/ reject(promise, tasks, <<pair[1], pair[2]>>, current.arg)
  BY <1>2, <1>5
<1>9. Inv(promise', reaction, freed, tasks', c) /\ Follows(promise, tasks, promise', tasks')
  <2> HIDE DEF pair
  <2>1. CASE resolve(promise, tasks, <<pair[1], pair[2]>>, current.arg)
    BY <2>1, <1>3, <1>5, <1>7, ResolveCall
  <2>2. CASE reject(promise, tasks, <<pair[1], pair[2]>>, current.arg)
    BY <2>2, <1>3, <1>4, <1>5, <1>7, RejectCall
  <2> QED
    BY <2>1, <2>2, <1>8
<1>10. HeldInv(promise', reaction, known, held)
  BY <1>1, <1>9, HeldFrame
<1> QED
  BY <1>1, <1>2, <1>9, <1>10 DEF Keeps, PromiseInv

\* The task of a reaction whose handler has returned or thrown.
LEMMA HandlerDone ==
    ASSUME PromiseInv, current.kind = "reaction", FinishTask
    PROVE  LET cap == reaction[current.subject].cap IN
           /\ Inv(promise, reaction, freed', tasks, Idle) /\ current' = Idle
           /\ Made(promise, cap[1], 1) /\ cap = <<cap[1], 1>>
           /\ NotDue(promise, reaction, tasks, Idle, <<cap[1], 1>>)
           /\ current.arg \in Value
<1> DEFINE cap == reaction[current.subject].cap
<1>1. Inv(promise, reaction, freed, tasks, current)
  BY DEF PromiseInv
<1>2. current' = Idle /\ (freed' = freed \/ freed' = freed \union {current.subject})
  BY FinishTaskFacts
<1>3. /\ Inv(promise, reaction, freed', tasks, Idle) /\ Made(promise, cap[1], 1) /\ cap = <<cap[1], 1>>
      /\ NotDue(promise, reaction, tasks, Idle, cap)
  BY <1>1, <1>2, FinishInv
<1>4. NotDue(promise, reaction, tasks, Idle, <<cap[1], 1>>)
  BY <1>3
<1>5. current.arg \in Value
  <2>1. TypesInv(promise, reaction, freed, tasks, current)
    BY <1>1 DEF Inv
  <2>2. current \in Tasks(Len(reaction), Len(promise)) /\ Len(reaction) \in Nat /\ Len(promise) \in Nat
    BY <1>1, <2>1, TypesFacts
  <2> QED
    BY <2>2, TaskFacts
<1> QED
  BY <1>2, <1>3, <1>4, <1>5

LEMMA HandlerReturnsKeeps ==
    ASSUME PromiseInv, NEW x, HandlerReturns(x)
    PROVE  Keeps
<1> DEFINE cap == reaction[current.subject].cap
<1>1. /\ current.kind = "reaction" /\ resolve(promise, tasks, cap, x) /\ FinishTask
      /\ reaction' = reaction /\ known' = known /\ held' = held /\ ops' = ops
  BY DEF HandlerReturns
<1>2. HeldInv(promise, reaction, known, held) /\ ops \in 0 .. MaxOps
  BY DEF PromiseInv
<1>3. /\ Inv(promise, reaction, freed', tasks, Idle) /\ current' = Idle
      /\ Made(promise, cap[1], 1) /\ cap = <<cap[1], 1>>
      /\ NotDue(promise, reaction, tasks, Idle, <<cap[1], 1>>)
  BY <1>1, HandlerDone
<1> HIDE DEF cap
<1>4. resolve(promise, tasks, <<cap[1], 1>>, x)
  BY <1>1, <1>3
<1>5. Inv(promise', reaction, freed', tasks', Idle) /\ Follows(promise, tasks, promise', tasks')
  BY <1>3, <1>4, ResolveCall
<1>6. HeldInv(promise', reaction, known, held)
  BY <1>2, <1>5, HeldFrame
<1> QED
  BY <1>1, <1>2, <1>3, <1>5, <1>6 DEF Keeps, PromiseInv

LEMMA HandlerThrowsKeeps ==
    ASSUME PromiseInv, NEW x, HandlerThrows(x)
    PROVE  Keeps
<1> DEFINE cap == reaction[current.subject].cap
<1>1. /\ current.kind = "reaction" /\ reject(promise, tasks, cap, x) /\ FinishTask
      /\ reaction' = reaction /\ known' = known /\ held' = held /\ ops' = ops
      /\ x \in Value \/ x = current.arg
  BY DEF HandlerThrows
<1>2. HeldInv(promise, reaction, known, held) /\ ops \in 0 .. MaxOps
  BY DEF PromiseInv
<1>3. /\ Inv(promise, reaction, freed', tasks, Idle) /\ current' = Idle
      /\ Made(promise, cap[1], 1) /\ cap = <<cap[1], 1>>
      /\ NotDue(promise, reaction, tasks, Idle, <<cap[1], 1>>) /\ current.arg \in Value
  BY <1>1, HandlerDone
<1> HIDE DEF cap
<1>4. reject(promise, tasks, <<cap[1], 1>>, x) /\ x \in Value
  BY <1>1, <1>3
<1>5. Inv(promise', reaction, freed', tasks', Idle) /\ Follows(promise, tasks, promise', tasks')
  BY <1>3, <1>4, RejectCall
<1>6. HeldInv(promise', reaction, known, held)
  BY <1>2, <1>5, HeldFrame
<1> QED
  BY <1>1, <1>2, <1>3, <1>5, <1>6 DEF Keeps, PromiseInv

LEMMA ThenableReturnsKeeps ==
    ASSUME PromiseInv, ThenableReturns
    PROVE  Keeps
<1>1. current' = Idle /\ freed' = freed
  BY FinishTaskFacts DEF ThenableReturns
<1> QED
  BY <1>1, IdleKeeps DEF ThenableReturns

LEMMA ThenableThrowsKeeps ==
    ASSUME PromiseInv, NEW x \in Value, ThenableThrows(x)
    PROVE  Keeps
<1> DEFINE p == current.subject
           i == Len(promise[p].resolved)
<1>1. /\ current.kind = "thenable" /\ reject(promise, tasks, <<p, i>>, x)
      /\ reaction' = reaction /\ known' = known /\ held' = held /\ ops' = ops
      /\ current' = Idle /\ freed' = freed
  BY FinishTaskFacts DEF ThenableThrows
<1>2. /\ Inv(promise, reaction, freed, tasks, current) /\ HeldInv(promise, reaction, known, held)
      /\ ops \in 0 .. MaxOps
  BY DEF PromiseInv
<1>3. p \in 1 .. Len(promise) /\ i \in Nat /\ i >= 2
  <2>1. TypesInv(promise, reaction, freed, tasks, current) /\ OneInv(promise, tasks, current)
    BY <1>2 DEF Inv
  <2>2. p \in 1 .. Len(promise) /\ i >= 2
    BY <1>1, <2>1, TypesFacts DEF OneInv
  <2> QED
    BY <2>1, <2>2, TypesFacts
<1>4. Made(promise, p, i)
  BY <1>3 DEF Made
<1>5. Inv(promise, reaction, freed, tasks, Idle)
  BY <1>2, IdleInv
<1> HIDE DEF i, p
<1>6. NotDue(promise, reaction, tasks, Idle, <<p, i>>)
  BY <1>3, <1>5, LaterPair
<1>7. Inv(promise', reaction, freed, tasks', Idle) /\ Follows(promise, tasks, promise', tasks')
  BY <1>1, <1>4, <1>5, <1>6, RejectCall
<1>8. HeldInv(promise', reaction, known, held)
  BY <1>2, <1>7, HeldFrame
<1> QED
  BY <1>1, <1>2, <1>7, <1>8 DEF Keeps, PromiseInv

\* A thenable task begins: it has left the queue, and its promise has a new pair.
LEMMA ThenableTaskBegins ==
    ASSUME PromiseInv, PromiseResolveThenableTask, NEW p, p = Head(tasks).subject,
           NEW ps, ps = PairIn(promise, p), NEW i, i = Len(promise[p].resolved) + 1
    PROVE  /\ p \in 1 .. Len(promise) /\ i \in Nat /\ i >= 2 /\ Made(ps, p, i)
           /\ Len(ps) = Len(promise) /\ PairAdded(promise, ps, p)
           /\ \A c : c = Idle \/ c = Head(tasks) => Inv(ps, reaction, freed, Tail(tasks), c)
           /\ Follows(promise, tasks, ps, Tail(tasks))
<1>1. Inv(promise, reaction, freed, tasks, Idle)
  BY DEF PromiseInv, PromiseResolveThenableTask
<1>2. tasks # <<>> /\ Head(tasks).kind = "thenable"
  BY DEF PromiseResolveThenableTask
<1>3. /\ promise \in Seq(PromiseType(Len(reaction))) /\ Len(reaction) \in Nat /\ Len(promise) \in Nat
      /\ TypesInv(promise, reaction, freed, tasks, Idle)
      /\ p \in 1 .. Len(promise)
  <2>1. /\ TypesInv(promise, reaction, freed, tasks, Idle) /\ promise \in Seq(PromiseType(Len(reaction)))
        /\ tasks \in Seq(Tasks(Len(reaction), Len(promise)))
    BY <1>1 DEF Inv, TypesInv
  <2>2. Len(reaction) \in Nat /\ Len(promise) \in Nat
    BY <2>1, TypesFacts
  <2>3. Head(tasks) \in Tasks(Len(reaction), Len(promise))
    BY <1>2, <2>1, TailFacts
  <2> QED
    BY <1>2, <2>1, <2>2, <2>3, TaskFacts
<1>4. ps \in Seq(PromiseType(Len(reaction))) /\ PairAdded(promise, ps, p)
  BY <1>3, NewPairFacts
<1>5. \A r \in 1 .. Len(promise) : Len(promise[r].resolved) \in Nat /\ Len(promise[r].resolved) >= 1
  BY <1>3, TypesFacts
<1>6. /\ Len(ps) = Len(promise) /\ Len(ps[p].resolved) = i
      /\ \A r \in 1 .. Len(promise) : r # p => ps[r] = promise[r]
      /\ ps[p].state = promise[p].state /\ ps[p].result = promise[p].result
  BY <1>4 DEF PairAdded, Alike, SameButPairs
<1>7. /\ \A c : c = Idle \/ c = Head(tasks) => Inv(ps, reaction, freed, Tail(tasks), c)
      /\ Open(ps, p) # {}
      /\ \A r \in 1 .. Len(promise) : r # p =>
            Open(ps, r) = Open(promise, r) /\ (Awaits(tasks, r) # {} => Awaits(Tail(tasks), r) # {})
  <2>1. tasks # <<>> /\ Head(tasks).kind = "thenable"
    BY <1>2
  <2>2. ASSUME NEW c \in {Idle, Head(tasks)}
        PROVE  /\ Inv(ps, reaction, freed, Tail(tasks), c)
               /\ Open(ps, p) # {}
               /\ \A r \in 1 .. Len(promise) : r # p =>
                     Open(ps, r) = Open(promise, r) /\ (Awaits(tasks, r) # {} => Awaits(Tail(tasks), r) # {})
    <3>1. Inv(promise, reaction, freed, tasks, Idle) /\ PairAdded(promise, ps, Head(tasks).subject)
          /\ ps \in Seq(PromiseType(Len(reaction)))
      BY <1>1, <1>4
    <3>2. /\ Inv(ps, reaction, freed, Tail(tasks), c)
          /\ Open(ps, Head(tasks).subject) # {}
          /\ \A r \in 1 .. Len(promise) : r # Head(tasks).subject =>
                Open(ps, r) = Open(promise, r) /\ (Awaits(tasks, r) # {} => Awaits(Tail(tasks), r) # {})
      BY <2>1, <3>1, ThenableTaskInv
    <3> QED
      BY <3>2
  <2> QED
    BY <2>2
<1>8. i \in Nat /\ i >= 2 /\ Made(ps, p, i)
  BY <1>3, <1>5, <1>6 DEF Made
<1>9. Follows(promise, tasks, ps, Tail(tasks))
  <2>1. ASSUME NEW r \in 1 .. Len(promise)
        PROVE  /\ Len(ps[r].resolved) \in Nat /\ Len(promise[r].resolved) <= Len(ps[r].resolved)
               /\ ps[r].state = promise[r].state /\ ps[r].result = promise[r].result
    BY <1>3, <1>5, <1>6
  <2>2. ASSUME NEW r \in 1 .. Len(promise), Decidable(promise, tasks, r)
        PROVE  Decidable(ps, Tail(tasks), r)
    BY <1>6, <1>7, <2>2 DEF Decidable
  <2> QED
    BY <1>3, <1>5, <1>6, <2>1, <2>2 DEF Follows
<1> QED
  BY <1>3, <1>4, <1>6, <1>7, <1>8, <1>9

LEMMA ThenableTaskKeeps ==
    ASSUME PromiseInv, PromiseResolveThenableTask
    PROVE  Keeps
<1> DEFINE p == Head(tasks).subject
           x == Head(tasks).arg
           ps == PairIn(promise, p)
           i == Len(promise[p].resolved) + 1
           pair == <<p, i>>
<1>1. /\ Inv(promise, reaction, freed, tasks, Idle) /\ HeldInv(promise, reaction, known, held)
      /\ ops \in 0 .. MaxOps
  BY DEF PromiseInv, PromiseResolveThenableTask
<1>2. /\ current = Idle /\ tasks # <<>> /\ Head(tasks).kind = "thenable"
      /\ \/ /\ x \in 1 .. Len(promise)
            /\ _ejs_Promise_prototype_then(ps, Tail(tasks), x,
                   Handler("resolve", pair), Handler("reject", pair))
            /\ current' = current /\ held' = held
         \/ /\ promise' = ps /\ tasks' = Tail(tasks) /\ current' = Head(tasks)
            /\ held' = held \union {pair}
            /\ reaction' = reaction
      /\ freed' = freed /\ known' = known /\ ops' = ops
  BY DEF PromiseResolveThenableTask, PairIn, Promises
<1>3. /\ p \in 1 .. Len(promise) /\ i \in Nat /\ i >= 2 /\ Made(ps, p, i)
      /\ Len(ps) = Len(promise)
      /\ \A c : c = Idle \/ c = Head(tasks) => Inv(ps, reaction, freed, Tail(tasks), c)
      /\ Follows(promise, tasks, ps, Tail(tasks))
  BY ThenableTaskBegins
<1> HIDE DEF ps
<1>4. HeldInv(ps, reaction, known, held)
  BY <1>1, <1>3, HeldFrame
<1>5. CASE /\ x \in 1 .. Len(promise)
            /\ _ejs_Promise_prototype_then(ps, Tail(tasks), x,
                   Handler("resolve", pair), Handler("reject", pair))
            /\ current' = current /\ held' = held
  <2> DEFINE hf == Handler("resolve", pair)
             hr == Handler("reject", pair)
  <2>1. pair \in Nat \X Nat /\ pair[1] = p /\ pair[2] = i
    BY <1>3
  <2>2. /\ hf \in [kind : Kinds, pair : Nat \X Nat] /\ hf.kind = "resolve" /\ hf.pair = pair
        /\ hr \in [kind : Kinds, pair : Nat \X Nat] /\ hr.kind = "reject" /\ hr.pair = pair
    <3> HIDE DEF pair
    <3> QED
      BY <2>1 DEF Handler, Kinds
  <2> HIDE DEF hf, hr
  <2>3. HandlerOK(ps, hf) /\ HandlerOK(ps, hr)
    BY <1>3, <2>1, <2>2 DEF HandlerOK
  <2>4. hf.kind \in KindsFor("fulfilled") /\ hr.kind \in KindsFor("rejected")
    BY <2>2 DEF KindsFor
  <2>5. x \in 1 .. Len(ps) /\ _ejs_Promise_prototype_then(ps, Tail(tasks), x, hf, hr)
        /\ Inv(ps, reaction, freed, Tail(tasks), Idle)
    BY <1>3, <1>5 DEF hf, hr
  <2>6. /\ Inv(promise', reaction', freed, tasks', Idle) /\ Follows(ps, Tail(tasks), promise', tasks')
        /\ NewReactions(reaction, reaction', <<Len(ps) + 1, 1>>)
    <3> HIDE DEF x
    <3> QED
      BY <2>3, <2>4, <2>5, ThenCall
  <2>7. HeldInv(promise', reaction', known, held)
    BY <1>4, <2>6, HeldFrame
  <2>8. Follows(promise, tasks, promise', tasks')
    BY <1>3, <2>6, FollowsTransitive
  <2> QED
    BY <1>1, <1>2, <1>5, <2>6, <2>7, <2>8 DEF Keeps, PromiseInv
<1>6. CASE /\ promise' = ps /\ tasks' = Tail(tasks) /\ current' = Head(tasks)
            /\ held' = held \union {pair}
            /\ reaction' = reaction
  <2>1. Inv(promise', reaction', freed, tasks', current')
    BY <1>3, <1>6
  <2>2. \A k \in 1 .. Len(reaction) : reaction[k].cap # pair
    BY <1>3, LaterPair
  <2>3. pair[1] = p /\ pair[2] = i /\ pair = <<pair[1], pair[2]>>
    OBVIOUS
  <2> HIDE DEF pair
  <2>4. HeldInv(promise', reaction', known, held')
    BY <1>3, <1>4, <1>6, <2>2, <2>3 DEF HeldInv
  <2> QED
    BY <1>1, <1>2, <1>3, <1>6, <2>1, <2>4 DEF Keeps, PromiseInv
<1> QED
  BY <1>2, <1>5, <1>6

\* Every step of the specification.
LEMMA PromiseStep ==
    ASSUME PromiseInv, [Next]_vars
    PROVE  Keeps
<1>1. CASE _ejs_Promise_impl
  BY <1>1, NewPromiseKeeps
<1>2. CASE \E x \in AnyValue : _ejs_Promise_resolve(x)
  BY <1>2, PromiseResolveKeeps
<1>3. CASE \E x \in Value : _ejs_Promise_reject(x)
  BY <1>3, PromiseRejectKeeps
<1>4. CASE \E p \in known : CallThen(p, User, User) \/ CallThen(p, Identity, User)
                            \/ CallThen(p, User, Thrower)
  <2>1. User \in {User, Identity} /\ Identity \in {User, Identity}
        /\ User \in {User, Thrower} /\ Thrower \in {User, Thrower}
    OBVIOUS
  <2> QED
    BY <1>4, <2>1, ThenKeeps
<1>5. CASE \E pair \in held : \/ \E x \in AnyValue : CallResolve(pair, x)
                              \/ \E x \in Value : CallReject(pair, x)
  BY <1>5, ResolveKeeps, RejectKeeps
<1>6. CASE _ejs_runloop_start
  BY <1>6, IdleKeeps DEF _ejs_runloop_start
<1>7. CASE StartReaction
  BY <1>7, StartReactionKeeps
<1>8. CASE CallHandler
  BY <1>8, CallHandlerKeeps
<1>9. CASE \E x \in AnyValue \union {current.arg} : HandlerReturns(x) \/ HandlerThrows(x)
  BY <1>9, HandlerReturnsKeeps, HandlerThrowsKeeps
<1>10. CASE PromiseResolveThenableTask
  BY <1>10, ThenableTaskKeeps
<1>11. CASE ThenableReturns
  BY <1>11, ThenableReturnsKeeps
<1>12. CASE \E x \in Value : ThenableThrows(x)
  BY <1>12, ThenableThrowsKeeps
<1>13. CASE UNCHANGED vars
  <2>1. /\ promise' = promise /\ reaction' = reaction /\ freed' = freed /\ tasks' = tasks
        /\ current' = current /\ known' = known /\ held' = held /\ ops' = ops
    BY <1>13 DEF vars
  <2>2. Follows(promise, tasks, promise, tasks)
    BY FollowsReflexive DEF PromiseInv
  <2> QED
    BY <2>1, <2>2 DEF Keeps, PromiseInv
<1> QED
  BY <1>1, <1>2, <1>3, <1>4, <1>5, <1>6, <1>7, <1>8, <1>9, <1>10, <1>11, <1>12, <1>13
     DEF Next, UserStep, TaskStep

LEMMA PromiseStart == Init => PromiseInv
<1> SUFFICES ASSUME Init PROVE PromiseInv
  OBVIOUS
<1>1. /\ promise = <<>> /\ reaction = <<>> /\ freed = {} /\ tasks = <<>> /\ current = Script
      /\ known = {} /\ held = {} /\ ops = 0 /\ Script.kind = "script"
  BY DEF Init, Script
<1>2. Len(promise) = 0 /\ Len(reaction) = 0 /\ Len(tasks) = 0
  BY <1>1
<1>3. 1 .. 0 = {}
  OBVIOUS
<1>4. TypesInv(promise, reaction, freed, tasks, current)
  <2>1. \A S : <<>> \in Seq(S)
    OBVIOUS
  <2> QED
    BY <1>1, <1>2, <1>3, <2>1 DEF TypesInv
<1>5. Inv(promise, reaction, freed, tasks, current)
  BY <1>1, <1>2, <1>3, <1>4 DEF Inv, ReactionsInv, OneInv, ListsInv, QueueInv
<1> QED
  BY <1>1, <1>2, <1>5, MaxOpsAssumption DEF PromiseInv, HeldInv

-----------------------------------------------------------------------------
(* The theorems.                                                           *)

\* The inductive invariant holds of every state user code and tasks can reach.
THEOREM PromisesKeepInv == Spec => []PromiseInv
<1>1. PromiseInv /\ [Next]_vars => PromiseInv'
  BY PromiseStep DEF Keeps
<1> QED
  BY PromiseStart, <1>1, PTL DEF Spec

LEMMA TypesFollow == PromiseInv => TypeOK
<1> SUFFICES ASSUME PromiseInv PROVE TypeOK
  OBVIOUS
<1> DEFINE m == Len(promise)
           n == Len(reaction)
<1>1. /\ TypesInv(promise, reaction, freed, tasks, current) /\ ReactionsInv(promise, reaction)
      /\ HeldInv(promise, reaction, known, held) /\ ops \in 0 .. MaxOps
  BY DEF PromiseInv, Inv
<1>2. /\ n \in Nat /\ m \in Nat /\ \A p \in 1 .. m : promise[p] \in PromiseType(n)
      /\ \A p \in 1 .. m : Len(promise[p].resolved) \in Nat
  BY <1>1, TypesFacts
<1>3. Promises = 1 .. m /\ TaskType = Tasks(n, m)
  BY DEF Promises, TaskType, Tasks
<1>4. ASSUME NEW p \in 1 .. m
      PROVE  /\ promise[p].state \in {"pending", "fulfilled", "rejected"}
             /\ promise[p].result \in Value
             /\ promise[p].fulfillReactions \in Seq(1 .. n)
             /\ promise[p].rejectReactions \in Seq(1 .. n)
             /\ promise[p].resolved \in Seq(BOOLEAN)
  <2>1. promise[p] \in PromiseType(n)
    BY <1>2
  <2> QED
    BY <2>1 DEF PromiseType, States
<1>5. ASSUME NEW k \in 1 .. n
      PROVE  reaction[k].of \in Promises /\ reaction[k].cap \in Pair /\ reaction[k].handler \in Handlers
  <2> DEFINE h == reaction[k].handler
  <2>1. reaction[k] \in ReactionType
    BY <1>1 DEF TypesInv
  <2>2. h \in [kind : Kinds, pair : Nat \X Nat] /\ h = [kind |-> h.kind, pair |-> h.pair]
    BY <2>1 DEF ReactionType
  <2>3. /\ reaction[k].of \in 1 .. m /\ reaction[k].cap[1] \in 1 .. m
        /\ reaction[k].cap = <<reaction[k].cap[1], 1>>
        /\ h.kind \in {"resolve", "reject"} => /\ Made(promise, h.pair[1], h.pair[2])
                                               /\ h.pair = <<h.pair[1], h.pair[2]>>
        /\ h.kind \notin {"resolve", "reject"} => h.pair = NoPair
    BY <1>1 DEF ReactionsInv
  <2>4. reaction[k].cap \in Pair
    <3>1. \A a \in Promises : <<a, 1>> \in Promises \X Nat
      OBVIOUS
    <3>2. reaction[k].cap[1] \in Promises
      BY <1>3, <2>3
    <3> QED
      BY <2>3, <3>1, <3>2, Zenon DEF Pair
  <2>5. h \in Handlers
    <3> HIDE DEF h
    <3>1. h.kind \in Kinds
      BY <2>2
    <3>2. CASE h.kind \in {"resolve", "reject"}
      <4>1. h.pair[1] \in 1 .. m /\ h.pair[2] \in Nat
        BY <2>3, <3>2 DEF Made
      <4>2. h.pair \in Pair
        BY <1>3, <2>3, <3>2, <4>1 DEF Pair
      <4> QED
        BY <2>2, <3>2, <4>2 DEF Handlers
    <3>3. CASE h.kind \notin {"resolve", "reject"}
      BY <2>2, <2>3, <3>1, <3>3 DEF Handlers, Kinds
    <3> QED
      BY <3>2, <3>3
  <2> QED
    BY <1>3, <2>3, <2>4, <2>5
<1>6. /\ freed \subseteq 1 .. n /\ \A i \in 1 .. Len(tasks) : tasks[i] \in Tasks(n, m)
      /\ current \in Tasks(n, m) \union {Script, Idle}
  BY <1>1 DEF TypesInv
<1>7. known \subseteq Promises
  BY <1>1, <1>3 DEF HeldInv
<1>8. held \subseteq Pair
  <2> SUFFICES ASSUME NEW pair \in held PROVE pair \in Pair
    OBVIOUS
  <2>1. pair[1] \in 1 .. m /\ pair[2] \in Nat /\ pair = <<pair[1], pair[2]>>
    BY <1>1 DEF HeldInv, Made
  <2> QED
    BY <1>3, <2>1 DEF Pair
<1> QED
  BY <1>1, <1>3, <1>4, <1>5, <1>6, <1>7, <1>8 DEF TypeOK

\* Promises, reactions, tasks and what user code holds keep their types, for any
\* values, foreign thenables and number of calls.
THEOREM PromiseTypes == Spec => []TypeOK
  BY PromisesKeepInv, TypesFollow, PTL

\* However calls and tasks interleave, at most one pair of resolving functions or
\* thenable task can still decide a promise, and none once it is settled: the
\* assertion that RejectPromise and FulfillPromise only make in a comment.
THEOREM OneResolutionAlways == Spec => []OneResolution
<1>1. PromiseInv => OneResolution
  <2> SUFFICES ASSUME PromiseInv PROVE OneResolution
    OBVIOUS
  <2>1. OneInv(promise, tasks, current)
    BY DEF PromiseInv, Inv
  <2>2. \A p : Unresolved(p) = Open(promise, p) /\ Waiting(p) = Awaits(tasks, p)
    BY DEF Unresolved, Open, Waiting, Awaits
  <2> QED
    BY <2>1, <2>2 DEF OneInv, OneResolution, Promises, Settled
<1> QED
  BY PromisesKeepInv, <1>1, PTL

AllDecidable == \A r \in 1 .. Len(promise) : Decidable(promise, tasks, r)

\* Without objects whose "then" is a getter that throws (the one case in which
\* resolve uses up the pair and settles nothing), a pending promise has exactly one
\* way to be settled: never two and never none.
THEOREM OneResolverAlways ==
    ASSUME BadThen = {}
    PROVE  Spec => []OneResolver
<1>1. Init => AllDecidable
  BY DEF Init, AllDecidable
<1>2. PromiseInv /\ AllDecidable /\ [Next]_vars => AllDecidable'
  <2> SUFFICES ASSUME PromiseInv, AllDecidable, [Next]_vars
               PROVE  AllDecidable'
    OBVIOUS
  <2>1. Follows(promise, tasks, promise', tasks')
    BY PromiseStep DEF Keeps
  <2> QED
    BY <2>1 DEF Follows, AllDecidable
<1>3. AllDecidable => PendingHasResolver
  BY DEF AllDecidable, PendingHasResolver, Decidable, Settled, Unresolved, Open, Waiting, Awaits, Promises
<1>4. Spec => []AllDecidable
  BY PromisesKeepInv, <1>1, <1>2, PTL DEF Spec
<1>5. OneResolution /\ PendingHasResolver => OneResolver
  BY DEF OneResolver
<1> QED
  BY OneResolutionAlways, <1>3, <1>4, <1>5, PTL

\* A settled promise keeps its state and its result whatever is called.
THEOREM SettledForGood == Spec => SettledIsFinal
<1>1. PromiseInv /\ [Next]_vars =>
        [\A p \in Promises : Settled(p) =>
            promise'[p].state = promise[p].state /\ promise'[p].result = promise[p].result]_vars
  <2> SUFFICES ASSUME PromiseInv, [Next]_vars, NEW p \in Promises, Settled(p)
               PROVE  promise'[p].state = promise[p].state /\ promise'[p].result = promise[p].result
    OBVIOUS
  <2>1. Follows(promise, tasks, promise', tasks')
    BY PromiseStep DEF Keeps
  <2> QED
    BY <2>1 DEF Follows, Promises, Settled
<1> QED
  BY PromisesKeepInv, <1>1, PTL DEF Spec, SettledIsFinal

\* The task being run, if it is a reaction's, and the ones behind it.
LEMMA RunningFacts ==
    ASSUME PromiseInv
    PROVE  /\ \A i \in ReactionIndices :
                /\ i \in Nat /\ Running[i].subject \in 1 .. Len(reaction)
                /\ Ready(promise, reaction, freed, Running[i])
           /\ \A i, j \in ReactionIndices : i < j => Before(reaction, Running[i], Running[j])
<1>1. /\ TypesInv(promise, reaction, freed, tasks, current)
      /\ QueueInv(promise, reaction, freed, tasks, current)
  BY DEF PromiseInv, Inv
<1>2. /\ Len(tasks) \in Nat /\ Len(promise) \in Nat /\ Len(reaction) \in Nat
      /\ tasks \in Seq(Tasks(Len(reaction), Len(promise)))
      /\ \A i \in 1 .. Len(tasks) : tasks[i].kind = "reaction" => tasks[i].subject \in 1 .. Len(reaction)
  BY <1>1, TypesFacts DEF TypesInv
<1>3. CASE current.kind # "reaction"
  <2>1. Running = tasks
    BY <1>3 DEF Running
  <2> QED
    BY <1>1, <1>2, <2>1 DEF ReactionIndices, QueueInv
<1>4. CASE current.kind = "reaction"
  <2> DEFINE run == <<current>> \o tasks
  <2>1. current \in Tasks(Len(reaction), Len(promise)) /\ current.subject \in 1 .. Len(reaction)
    BY <1>1, <1>4, TypesFacts
  <2>2. /\ Len(run) = Len(tasks) + 1 /\ run[1] = current
        /\ \A i \in 2 .. Len(tasks) + 1 : run[i] = tasks[i - 1]
    BY <1>2, <2>1
  <2>3. Running = run
    BY <1>4 DEF Running
  <2> HIDE DEF run
  <2>4. \A i \in 1 .. Len(run) : i \in Nat /\ (i = 1 \/ (i \in 2 .. Len(tasks) + 1 /\ i - 1 \in 1 .. Len(tasks)))
    BY <1>2, <2>2
  <2>5. ASSUME NEW i \in ReactionIndices
        PROVE  /\ i \in 1 .. Len(run) /\ run[i].kind = "reaction" /\ Running[i] = run[i]
    BY <2>3 DEF ReactionIndices
  <2>6. ASSUME NEW i \in ReactionIndices
        PROVE  /\ i \in Nat /\ Running[i].subject \in 1 .. Len(reaction)
               /\ Ready(promise, reaction, freed, Running[i])
    <3>1. CASE i = 1
      BY <3>1, <1>1, <1>4, <2>1, <2>2, <2>3 DEF QueueInv
    <3>2. CASE i \in 2 .. Len(tasks) + 1 /\ i - 1 \in 1 .. Len(tasks)
      <4>1. Running[i] = tasks[i - 1] /\ tasks[i - 1].kind = "reaction"
        BY <3>2, <2>2, <2>5
      <4> QED
        BY <3>2, <4>1, <1>1, <1>2 DEF QueueInv
    <3> QED
      BY <2>4, <2>5, <3>1, <3>2
  <2>7. ASSUME NEW i \in ReactionIndices, NEW j \in ReactionIndices, i < j
        PROVE  Before(reaction, Running[i], Running[j])
    <3>1. j \in 2 .. Len(tasks) + 1 /\ j - 1 \in 1 .. Len(tasks)
      BY <2>4, <2>5, <2>7
    <3>2. Running[j] = tasks[j - 1] /\ tasks[j - 1].kind = "reaction"
      BY <3>1, <2>2, <2>5
    <3>3. CASE i = 1
      BY <3>1, <3>2, <3>3, <1>1, <1>4, <2>2, <2>3 DEF QueueInv
    <3>4. CASE i \in 2 .. Len(tasks) + 1 /\ i - 1 \in 1 .. Len(tasks)
      <4>1. Running[i] = tasks[i - 1] /\ tasks[i - 1].kind = "reaction"
        BY <3>4, <2>2, <2>5
      <4>2. i - 1 < j - 1
        BY <2>7, <3>1, <3>4
      <4> QED
        BY <3>1, <3>2, <3>4, <4>1, <4>2, <1>1 DEF QueueInv
    <3> QED
      BY <2>4, <2>5, <3>3, <3>4
  <2> QED
    BY <2>6, <2>7
<1> QED
  BY <1>3, <1>4

\* A handler runs at most once, never both handlers of one call of then, never on a
\* freed reaction, and the handlers of one promise run in the order of the calls,
\* for any user code.
THEOREM HandlersInOrder == Spec => []HandlersOnceInOrder
<1>1. PromiseInv => AtMostOnce
  <2> SUFFICES ASSUME PromiseInv, NEW i \in ReactionIndices
               PROVE  /\ Running[i].subject \notin freed
                      /\ ~AlreadyResolved(promise, reaction[Running[i].subject].cap)
                      /\ \A j \in ReactionIndices :
                            reaction[Running[j].subject].cap = reaction[Running[i].subject].cap => i = j
    BY DEF AtMostOnce
  <2> DEFINE k == Running[i].subject
  <2>1. k \in 1 .. Len(reaction) /\ Ready(promise, reaction, freed, Running[i])
    BY RunningFacts
  <2>2. reaction[k].cap[2] = 1
    BY <2>1 DEF PromiseInv, Inv, ReactionsInv
  <2>3. k \notin freed /\ ~promise[reaction[k].cap[1]].resolved[1]
    BY <2>1 DEF Ready
  <2>4. ASSUME NEW j \in ReactionIndices, reaction[Running[j].subject].cap = reaction[k].cap
        PROVE  i = j
    <3>1. i \in Nat /\ j \in Nat
      BY RunningFacts
    <3>2. ~(i < j) /\ ~(j < i)
      BY <2>4, RunningFacts DEF Before
    <3> QED
      BY <3>1, <3>2
  <2> QED
    BY <2>2, <2>3, <2>4 DEF AlreadyResolved
<1>2. PromiseInv => InsertionOrder
  BY RunningFacts DEF InsertionOrder, Before
<1>3. AtMostOnce /\ InsertionOrder => HandlersOnceInOrder
  BY DEF HandlersOnceInOrder
<1> QED
  BY PromisesKeepInv, <1>1, <1>2, <1>3, PTL

\* A handler is called with what its promise was settled with, and is the one for
\* the promise's state.
THEOREM HandlersGetResults == Spec => []HandlerGetsResult
<1>1. PromiseInv => HandlerGetsResult
  <2> SUFFICES ASSUME PromiseInv, NEW i \in ReactionIndices
               PROVE  LET k == Running[i].subject
                          p == reaction[k].of
                      IN  /\ Settled(p) /\ Running[i].arg = promise[p].result
                          /\ reaction[k].handler.kind \in (IF promise[p].state = "fulfilled"
                                                           THEN {"user", "identity", "resolve"}
                                                           ELSE {"user", "thrower", "reject"})
    BY DEF HandlerGetsResult
  <2>1. Ready(promise, reaction, freed, Running[i])
    BY RunningFacts
  <2> QED
    BY <2>1 DEF Ready, KindsFor, Settled
<1> QED
  BY PromisesKeepInv, <1>1, PTL

-----------------------------------------------------------------------------
(* Adoption: a promise that was resolved with another one.                 *)

\* The reactions whose handlers are resolving functions, and the other ones with
\* functions of the same pair.
Adopters(rs) == {k \in 1 .. Len(rs) : rs[k].handler.kind \in {"resolve", "reject"}}
Twins(rs, k) == {l \in Adopters(rs) : rs[l].handler.pair = rs[k].handler.pair}

\* The handler of reaction k is still to be called: the task is in the queue, or is
\* being run and has not come to it.
Outstanding(q, c, k) == InQueue(q, k) \/ (c.kind = "reaction" /\ c.subject = k /\ ~c.called)

\* Promise p has ended as promise o has.
SameEnd(ps, p, o) ==
    ps[o].state # "pending" /\ ps[p].state = ps[o].state /\ ps[p].result = ps[o].result

\* The pair of an adopting reaction: once it is used, the promise has ended as the
\* adopted one; before, a function of it waits in each list of the adopted promise
\* while that is pending, and is to be called when that has been settled.
Adopting(ps, rs, q, c, k) ==
    LET pair == rs[k].handler.pair
        o == rs[k].of
    IN  /\ ps[pair[1]].resolved[pair[2]] => SameEnd(ps, pair[1], o)
        /\ ~ps[pair[1]].resolved[pair[2]] /\ ps[o].state = "pending" =>
              /\ \E l \in Twins(rs, k) : Listed(ps[o].fulfillReactions, l)
              /\ \E l \in Twins(rs, k) : Listed(ps[o].rejectReactions, l)
        /\ ~ps[pair[1]].resolved[pair[2]] /\ ps[o].state # "pending" =>
              \E l \in Twins(rs, k) : Outstanding(q, c, l)

AdoptInv(ps, rs, q, c) ==
    /\ Fresh(q)
    /\ \A k \in Adopters(rs) : Adopting(ps, rs, q, c, k)
    /\ \A k \in Adopters(rs) : \A l \in Twins(rs, k) : rs[k].of = rs[l].of

\* User code holds no pair of an adopting reaction, nor does the then method of a
\* foreign object have one.
Apart(ps, rs, c, hd) ==
    \A k \in Adopters(rs) :
        /\ rs[k].handler.pair \notin hd
        /\ c.kind = "thenable" /\ rs[k].handler.pair[1] = c.subject =>
              rs[k].handler.pair[2] < Len(ps[c.subject].resolved)

LEMMA AdopterFacts ==
    ASSUME NEW ps, NEW rs, NEW fr, NEW q, NEW c, Inv(ps, rs, fr, q, c), NEW k \in Adopters(rs)
    PROVE  /\ k \in 1 .. Len(rs) /\ rs[k].of \in 1 .. Len(ps)
           /\ Made(ps, rs[k].handler.pair[1], rs[k].handler.pair[2])
           /\ rs[k].handler.pair[2] \in Nat /\ rs[k].handler.pair[2] >= 2
           /\ rs[k].handler.pair = <<rs[k].handler.pair[1], rs[k].handler.pair[2]>>
<1>1. k \in 1 .. Len(rs) /\ rs[k].handler.kind \in {"resolve", "reject"}
  BY DEF Adopters
<1>2. /\ rs[k].of \in 1 .. Len(ps) /\ Made(ps, rs[k].handler.pair[1], rs[k].handler.pair[2])
      /\ rs[k].handler.pair[2] >= 2
      /\ rs[k].handler.pair = <<rs[k].handler.pair[1], rs[k].handler.pair[2]>>
  BY <1>1 DEF Inv, ReactionsInv
<1>3. rs[k].handler.pair[2] \in Nat
  BY <1>2 DEF Made
<1> QED
  BY <1>1, <1>2, <1>3

LEMMA StateType ==
    ASSUME NEW ps, NEW rs, NEW fr, NEW q, NEW c, Inv(ps, rs, fr, q, c), NEW r \in 1 .. Len(ps)
    PROVE  ps[r].state \in States
<1>1. ps[r] \in PromiseType(Len(rs))
  BY TypesFacts DEF Inv
<1> QED
  BY <1>1 DEF PromiseType

\* A call that uses a pair of no adopting reaction, or one with which the promise
\* then ends as the adopted one has.
LEMMA AdoptFrame ==
    ASSUME NEW ps, NEW rs, NEW fr, NEW q, NEW c, Inv(ps, rs, fr, q, c), AdoptInv(ps, rs, q, c),
           NEW ps2, NEW q2, NEW c2, \A r \in 1 .. Len(ps2) : ps2[r].state \in States, NEW pair,
           Follows(ps, q, ps2, q2), Carries(ps, q, ps2, q2, pair),
           \A k \in Adopters(rs) : rs[k].handler.pair = pair =>
              ps2[pair[1]].resolved[pair[2]] /\ SameEnd(ps2, pair[1], rs[k].of),
           \A k \in Adopters(rs) : rs[k].handler.pair # pair /\ Outstanding(q, c, k) => Outstanding(q2, c2, k)
    PROVE  AdoptInv(ps2, rs, q2, c2)
<1>1. Fresh(q2)
  BY DEF AdoptInv, Carries
<1>2. ASSUME NEW k \in Adopters(rs)
      PROVE  Adopting(ps2, rs, q2, c2, k)
  <2> DEFINE a == rs[k].handler.pair[1]
             b == rs[k].handler.pair[2]
             o == rs[k].of
  <2>1. /\ o \in 1 .. Len(ps) /\ a \in 1 .. Len(ps) /\ b \in 1 .. Len(ps[a].resolved)
        /\ rs[k].handler.pair = <<a, b>>
    BY AdopterFacts DEF Made
  <2>2. CASE rs[k].handler.pair = pair
    BY <2>2 DEF Adopting
  <2>3. CASE rs[k].handler.pair # pair
    <3>1. ps2[a].resolved[b] <=> ps[a].resolved[b]
      BY <2>1, <2>3 DEF Carries
    <3>2. Adopting(ps, rs, q, c, k)
      BY DEF AdoptInv
    <3>3. \A l \in Twins(rs, k) : l \in Adopters(rs) /\ rs[l].handler.pair # pair
      BY <2>3 DEF Twins
    <3>4. \A r \in 1 .. Len(ps) : ps[r].state # "pending" => ps2[r].state = ps[r].state /\ ps2[r].result = ps[r].result
      BY DEF Follows
    <3>5. ASSUME ps[a].resolved[b]
          PROVE  SameEnd(ps2, a, o)
      <4>1. SameEnd(ps, a, o)
        BY <3>2, <3>5 DEF Adopting
      <4> QED
        BY <2>1, <3>4, <4>1 DEF SameEnd
    <3>6. ASSUME ~ps[a].resolved[b], ps2[o].state = "pending"
          PROVE  /\ \E l \in Twins(rs, k) : Listed(ps2[o].fulfillReactions, l)
                 /\ \E l \in Twins(rs, k) : Listed(ps2[o].rejectReactions, l)
      <4>1. ps[o].state = "pending"
        BY <2>1, <3>4, <3>6
      <4>2. /\ \E l \in Twins(rs, k) : Listed(ps[o].fulfillReactions, l)
            /\ \E l \in Twins(rs, k) : Listed(ps[o].rejectReactions, l)
        BY <3>2, <3>6, <4>1 DEF Adopting
      <4> QED
        BY <2>1, <3>6, <4>2 DEF Carries
    <3>7. ASSUME ~ps[a].resolved[b], ps2[o].state # "pending"
          PROVE  \E l \in Twins(rs, k) : Outstanding(q2, c2, l)
      <4>1. CASE ps[o].state = "pending"
        <5>1. /\ \E l \in Twins(rs, k) : Listed(ps[o].fulfillReactions, l)
              /\ \E l \in Twins(rs, k) : Listed(ps[o].rejectReactions, l)
          BY <3>2, <3>7, <4>1 DEF Adopting
        <5>2. o \in 1 .. Len(ps2)
          BY <2>1 DEF Follows
        <5>3. ps2[o].state = "fulfilled" \/ ps2[o].state = "rejected"
          BY <3>7, <5>2 DEF States
        <5>4. \E l \in Twins(rs, k) : InQueue(q2, l)
          BY <2>1, <4>1, <5>1, <5>3 DEF Carries
        <5> QED
          BY <5>4 DEF Outstanding
      <4>2. CASE ps[o].state # "pending"
        <5>1. PICK l \in Twins(rs, k) : Outstanding(q, c, l)
          BY <3>2, <3>7, <4>2 DEF Adopting
        <5> QED
          BY <3>3, <5>1
      <4> QED
        BY <4>1, <4>2
    <3> QED
      BY <3>1, <3>5, <3>6, <3>7 DEF Adopting
  <2> QED
    BY <2>2, <2>3
<1> QED
  BY <1>1, <1>2 DEF AdoptInv

\* Tasks begin and end, and nothing else changes.
LEMMA AdoptQueue ==
    ASSUME NEW ps, NEW rs, NEW q, NEW c, AdoptInv(ps, rs, q, c), NEW q2, NEW c2, Fresh(q2),
           \A k \in Adopters(rs) : Outstanding(q, c, k) => Outstanding(q2, c2, k)
    PROVE  AdoptInv(ps, rs, q2, c2)
<1>1. ASSUME NEW k \in Adopters(rs)
      PROVE  Adopting(ps, rs, q2, c2, k)
  <2>1. Adopting(ps, rs, q, c, k) /\ \A l \in Twins(rs, k) : l \in Adopters(rs)
    BY DEF AdoptInv, Twins
  <2> QED
    BY <2>1 DEF Adopting
<1> QED
  BY <1>1 DEF AdoptInv

\* A call of then uses no pair and leaves the reactions there were.
LEMMA AdoptOlder ==
    ASSUME NEW ps, NEW rs, NEW fr, NEW q, NEW c, Inv(ps, rs, fr, q, c), AdoptInv(ps, rs, q, c),
           NEW ps2, NEW rs2, NEW fr2, NEW q2, NEW c2, Inv(ps2, rs2, fr2, q2, c2),
           Follows(ps, q, ps2, q2), Carries(ps, q, ps2, q2, NoPair)
    PROVE  AdoptInv(ps2, rs, q2, c)
<1>1. NoPair[2] = 0
  BY DEF NoPair
<1>2. \A k \in Adopters(rs) : rs[k].handler.pair # NoPair
  BY <1>1, AdopterFacts
<1>3. \A k : Outstanding(q, c, k) => Outstanding(q2, c, k)
  BY DEF Carries, Outstanding
<1>4. \A r \in 1 .. Len(ps2) : ps2[r].state \in States
  BY StateType
<1> QED
  BY <1>2, <1>3, <1>4, AdoptFrame

\* The reactions of a call of then.
LEMMA AdoptThen ==
    ASSUME NEW ps2, NEW rs, NEW q2, NEW c, AdoptInv(ps2, rs, q2, c), NEW rs2, NEW p, NEW hf, NEW hr,
           ThenAdds(ps2, rs, rs2, q2, p, hf, hr),
           hf.kind \in {"resolve", "reject"} <=> hr.kind \in {"resolve", "reject"},
           hf.kind \in {"resolve", "reject"} =>
              /\ hr.pair = hf.pair /\ ~ps2[hf.pair[1]].resolved[hf.pair[2]]
              /\ \A k \in Adopters(rs) : rs[k].handler.pair # hf.pair
    PROVE  AdoptInv(ps2, rs2, q2, c)
<1>1. /\ \A k \in 1 .. Len(rs) : k \in 1 .. Len(rs2) /\ rs2[k] = rs[k]
      /\ \A k \in 1 .. Len(rs2) : k \in 1 .. Len(rs) \/ (rs2[k].of = p /\ rs2[k].handler \in {hf, hr})
  BY DEF ThenAdds
<1>2. \A k \in Adopters(rs) : k \in 1 .. Len(rs) /\ k \in Adopters(rs2) /\ Twins(rs, k) \subseteq Twins(rs2, k)
  BY <1>1 DEF Adopters, Twins
<1>3. \A k \in Adopters(rs2) : \/ k \in Adopters(rs)
                              \/ /\ rs2[k].of = p /\ rs2[k].handler \in {hf, hr}
                                 /\ hf.kind \in {"resolve", "reject"} /\ rs2[k].handler.pair = hf.pair
  BY <1>1 DEF Adopters
<1>4. ASSUME NEW k \in Adopters(rs)
      PROVE  Adopting(ps2, rs2, q2, c, k)
  <2>1. rs2[k] = rs[k] /\ Twins(rs, k) \subseteq Twins(rs2, k) /\ Adopting(ps2, rs, q2, c, k)
    BY <1>1, <1>2 DEF AdoptInv
  <2> QED
    BY <2>1 DEF Adopting
<1>5. ASSUME NEW k \in Adopters(rs2), rs2[k].of = p, hf.kind \in {"resolve", "reject"},
             rs2[k].handler.pair = hf.pair
      PROVE  Adopting(ps2, rs2, q2, c, k)
  <2>1. \A l \in 1 .. Len(rs2) : rs2[l].handler \in {hf, hr} => l \in Twins(rs2, k)
    BY <1>5 DEF Twins, Adopters
  <2>2. ASSUME ps2[p].state = "pending"
        PROVE  /\ \E l \in Twins(rs2, k) : Listed(ps2[p].fulfillReactions, l)
               /\ \E l \in Twins(rs2, k) : Listed(ps2[p].rejectReactions, l)
    BY <2>1, <2>2 DEF ThenAdds
  <2>3. ASSUME ps2[p].state # "pending"
        PROVE  \E l \in Twins(rs2, k) : Outstanding(q2, c, l)
    BY <2>1, <2>3 DEF ThenAdds, Outstanding
  <2>4. ~ps2[rs2[k].handler.pair[1]].resolved[rs2[k].handler.pair[2]]
    BY <1>5
  <2> QED
    BY <1>5, <2>2, <2>3, <2>4 DEF Adopting
<1>6. ASSUME NEW k \in Adopters(rs2), NEW l \in Twins(rs2, k)
      PROVE  rs2[k].of = rs2[l].of
  <2>1. l \in Adopters(rs2) /\ rs2[l].handler.pair = rs2[k].handler.pair
    BY DEF Twins
  <2>2. CASE k \in Adopters(rs) /\ l \in Adopters(rs)
    <3>1. rs2[k] = rs[k] /\ rs2[l] = rs[l]
      BY <1>1, <1>2, <2>2
    <3>2. l \in Twins(rs, k)
      BY <2>1, <2>2, <3>1 DEF Twins
    <3> QED
      BY <2>2, <3>1, <3>2 DEF AdoptInv
  <2>3. CASE k \notin Adopters(rs) /\ l \notin Adopters(rs)
    BY <1>3, <2>1, <2>3
  <2>4. CASE ~(k \in Adopters(rs) <=> l \in Adopters(rs))
    <3>1. \A j \in Adopters(rs) : rs2[j] = rs[j]
      BY <1>1, <1>2
    <3> QED
      BY <1>3, <2>1, <2>4, <3>1
  <2> QED
    BY <2>2, <2>3, <2>4
<1> QED
  BY <1>3, <1>4, <1>5, <1>6 DEF AdoptInv

\* A function of a pair that no adopting reaction has.
LEMMA AdoptCall ==
    ASSUME NEW ps, NEW rs, NEW fr, NEW q, NEW c, Inv(ps, rs, fr, q, c), AdoptInv(ps, rs, q, c),
           NEW p, NEW i, Made(ps, p, i), NotDue(ps, rs, q, c, <<p, i>>),
           \A k \in Adopters(rs) : rs[k].handler.pair # <<p, i>>,
           NEW x, resolve(ps, q, <<p, i>>, x) \/ (x \in Value /\ reject(ps, q, <<p, i>>, x))
    PROVE  AdoptInv(promise', rs, tasks', c) /\ Follows(ps, q, promise', tasks')
<1>1. /\ Inv(promise', rs, fr, tasks', c) /\ Follows(ps, q, promise', tasks')
      /\ Carries(ps, q, promise', tasks', <<p, i>>)
  <2>1. CASE resolve(ps, q, <<p, i>>, x)
    BY <2>1, ResolveCall
  <2>2. CASE x \in Value /\ reject(ps, q, <<p, i>>, x)
    BY <2>2, RejectCall
  <2> QED
    BY <2>1, <2>2
<1>2. \A k : Outstanding(q, c, k) => Outstanding(tasks', c, k)
  BY <1>1 DEF Carries, Outstanding
<1>3. PICK pair : pair = <<p, i>>
  OBVIOUS
<1>4. AdoptInv(promise', rs, tasks', c)
  <2>1. \A r \in 1 .. Len(promise') : promise'[r].state \in States
    BY <1>1, StateType
  <2> QED
    BY <1>1, <1>2, <1>3, <2>1, AdoptFrame
<1> QED
  BY <1>1, <1>4

\* Pairs of user code and pairs of adopting reactions stay apart.
LEMMA ApartFrame ==
    ASSUME NEW ps, NEW rs, NEW fr, NEW q, NEW c, Inv(ps, rs, fr, q, c), NEW hd, Apart(ps, rs, c, hd),
           NEW ps2, NEW q2, Follows(ps, q, ps2, q2), NEW c2, c2.kind = "thenable" => c2 = c,
           NEW hd2, \A pair \in hd2 : pair \in hd \/ pair[2] = 1
    PROVE  Apart(ps2, rs, c2, hd2)
<1> SUFFICES ASSUME NEW k \in Adopters(rs)
             PROVE  /\ rs[k].handler.pair \notin hd2
                    /\ c2.kind = "thenable" /\ rs[k].handler.pair[1] = c2.subject =>
                          rs[k].handler.pair[2] < Len(ps2[c2.subject].resolved)
  BY DEF Apart
<1>1. /\ Made(ps, rs[k].handler.pair[1], rs[k].handler.pair[2])
      /\ rs[k].handler.pair[2] \in Nat /\ rs[k].handler.pair[2] >= 2
  BY AdopterFacts
<1>2. rs[k].handler.pair \notin hd2
  BY <1>1 DEF Apart
<1>3. ASSUME c2.kind = "thenable", rs[k].handler.pair[1] = c2.subject
      PROVE  rs[k].handler.pair[2] < Len(ps2[c2.subject].resolved)
  <2>1. rs[k].handler.pair[2] < Len(ps[c2.subject].resolved)
    BY <1>3 DEF Apart
  <2>2. c2.subject \in 1 .. Len(ps)
    BY <1>1, <1>3 DEF Made
  <2>3. /\ Len(ps[c2.subject].resolved) \in Nat /\ Len(ps2[c2.subject].resolved) \in Nat
        /\ Len(ps[c2.subject].resolved) <= Len(ps2[c2.subject].resolved)
    BY <2>2 DEF Follows
  <2> QED
    BY <1>1, <2>1, <2>3
<1> QED
  BY <1>2, <1>3

\* The invariant of adoption, on top of PromiseInv.
Adopted ==
    AdoptInv(promise, reaction, tasks, current) /\ Apart(promise, reaction, current, held)

LEMMA NewPromiseAdopts ==
    ASSUME PromiseInv, Adopted, _ejs_Promise_impl
    PROVE  Adopted'
<1>1. /\ Inv(promise, reaction, freed, tasks, current)
      /\ AdoptInv(promise, reaction, tasks, current) /\ Apart(promise, reaction, current, held)
  BY DEF PromiseInv, Adopted
<1>2. /\ promise' = Append(promise, NewPromise) /\ reaction' = reaction /\ tasks' = tasks
      /\ held' = held \union {<<Len(promise) + 1, 1>>} /\ current' = current
  BY DEF _ejs_Promise_impl, UserOp
<1>3. /\ Inv(promise', reaction, freed, tasks, current) /\ Follows(promise, tasks, promise', tasks)
      /\ Carries(promise, tasks, promise', tasks, NoPair)
  BY <1>1, <1>2, NewPromiseCall
<1>5. AdoptInv(promise', reaction, tasks, current)
  BY <1>1, <1>3, AdoptOlder
<1>6. Apart(promise', reaction, current, held')
  <2>1. \A pair \in held' : pair \in held \/ pair[2] = 1
    BY <1>2
  <2> QED
    BY <1>1, <1>3, <2>1, ApartFrame
<1> QED
  BY <1>2, <1>5, <1>6 DEF Adopted

LEMMA ThenAdopts ==
    ASSUME PromiseInv, Adopted, NEW p \in known, NEW hf \in {User, Identity}, NEW hr \in {User, Thrower},
           CallThen(p, hf, hr)
    PROVE  Adopted'
<1>1. /\ Inv(promise, reaction, freed, tasks, current) /\ p \in 1 .. Len(promise)
      /\ AdoptInv(promise, reaction, tasks, current) /\ Apart(promise, reaction, current, held)
  BY DEF PromiseInv, Adopted, HeldInv
<1>2. /\ _ejs_Promise_prototype_then(promise, tasks, p, hf, hr)
      /\ held' = held /\ current' = current
  BY DEF CallThen, UserOp
<1>3. HandlerOK(promise, hf) /\ HandlerOK(promise, hr)
  BY UserHandlers
<1>4. hf.kind \in KindsFor("fulfilled") /\ hr.kind \in KindsFor("rejected")
      /\ hf.kind \notin {"resolve", "reject"} /\ hr.kind \notin {"resolve", "reject"}
  BY DEF KindsFor, User, Identity, Thrower, Handler
<1>5. /\ Inv(promise', reaction', freed, tasks', current) /\ Follows(promise, tasks, promise', tasks')
      /\ Carries(promise, tasks, promise', tasks', NoPair)
      /\ ThenAdds(promise', reaction, reaction', tasks', p, hf, hr)
  BY <1>1, <1>2, <1>3, <1>4, ThenCall
<1>6. AdoptInv(promise', reaction, tasks', current)
  BY <1>1, <1>5, AdoptOlder
<1>7. AdoptInv(promise', reaction', tasks', current)
  BY <1>4, <1>5, <1>6, AdoptThen
<1>8. Apart(promise', reaction, current, held)
  BY <1>1, <1>5, ApartFrame
<1>9. \A k \in Adopters(reaction') : k \in Adopters(reaction) /\ reaction'[k] = reaction[k]
  BY <1>4, <1>5 DEF ThenAdds, Adopters
<1>10. Apart(promise', reaction', current, held)
  BY <1>8, <1>9 DEF Apart
<1> QED
  BY <1>2, <1>7, <1>10 DEF Adopted

\* resolve or reject of a pair that user code holds.
LEMMA HeldCallAdopts ==
    ASSUME PromiseInv, Adopted, NEW pair \in held, UserOp, NEW x,
           resolve(promise, tasks, pair, x) \/ (x \in Value /\ reject(promise, tasks, pair, x)),
           reaction' = reaction, held' = held
    PROVE  Adopted'
<1>1. /\ Inv(promise, reaction, freed, tasks, current) /\ HeldInv(promise, reaction, known, held)
      /\ AdoptInv(promise, reaction, tasks, current) /\ Apart(promise, reaction, current, held)
      /\ current' = current
  BY DEF PromiseInv, Adopted, UserOp
<1>2. /\ Made(promise, pair[1], pair[2]) /\ pair = <<pair[1], pair[2]>>
      /\ NotDue(promise, reaction, tasks, current, <<pair[1], pair[2]>>)
  BY <1>1, HeldPair
<1>3. \A k \in Adopters(reaction) : reaction[k].handler.pair # <<pair[1], pair[2]>>
  BY <1>1, <1>2 DEF Apart
<1>4. \/ resolve(promise, tasks, <<pair[1], pair[2]>>, x)
      \/ x \in Value /\ reject(promise, tasks, <<pair[1], pair[2]>>, x)
  BY <1>2
<1>5. AdoptInv(promise', reaction, tasks', current) /\ Follows(promise, tasks, promise', tasks')
  BY <1>1, <1>2, <1>3, <1>4, AdoptCall
<1>6. Apart(promise', reaction, current, held)
  BY <1>1, <1>5, ApartFrame
<1> QED
  BY <1>1, <1>5, <1>6 DEF Adopted

\* Promise.resolve and Promise.reject.
LEMMA WrapAdopts ==
    ASSUME PromiseInv, Adopted, UserOp, NEW x,
           \/ resolve(Append(promise, NewPromise), tasks, <<Len(promise) + 1, 1>>, x)
           \/ x \in Value /\ reject(Append(promise, NewPromise), tasks, <<Len(promise) + 1, 1>>, x),
           reaction' = reaction, held' = held
    PROVE  Adopted'
<1> DEFINE ext == Append(promise, NewPromise)
           m == Len(promise) + 1
<1>1. /\ Inv(promise, reaction, freed, tasks, current)
      /\ AdoptInv(promise, reaction, tasks, current) /\ Apart(promise, reaction, current, held)
      /\ current' = current
  BY DEF PromiseInv, Adopted, UserOp
<1>2. /\ Inv(ext, reaction, freed, tasks, current) /\ Follows(promise, tasks, ext, tasks)
      /\ Carries(promise, tasks, ext, tasks, NoPair)
      /\ Made(ext, m, 1) /\ NotDue(ext, reaction, tasks, current, <<m, 1>>)
  BY <1>1, NewPromisePair
<1>3. \/ resolve(ext, tasks, <<m, 1>>, x)
      \/ x \in Value /\ reject(ext, tasks, <<m, 1>>, x)
  OBVIOUS
<1> HIDE DEF ext, m
<1>4. AdoptInv(ext, reaction, tasks, current)
  BY <1>1, <1>2, AdoptOlder
<1>5. \A k \in Adopters(reaction) : reaction[k].handler.pair # <<m, 1>>
  <2>1. <<m, 1>>[2] = 1
    OBVIOUS
  <2> QED
    BY <1>1, <2>1, AdopterFacts
<1>6. AdoptInv(promise', reaction, tasks', current) /\ Follows(ext, tasks, promise', tasks')
  BY <1>2, <1>3, <1>4, <1>5, AdoptCall
<1>7. Follows(promise, tasks, promise', tasks')
  BY <1>2, <1>6, FollowsTransitive
<1>8. Apart(promise', reaction, current, held)
  BY <1>1, <1>7, ApartFrame
<1> QED
  BY <1>1, <1>6, <1>8 DEF Adopted

\* The run loop takes a task, or becomes idle after one that called no resolving
\* function or has called it.
LEMMA StartAdopts ==
    ASSUME PromiseInv, Adopted, StartReaction
    PROVE  Adopted'
<1>1. /\ Inv(promise, reaction, freed, tasks, current)
      /\ AdoptInv(promise, reaction, tasks, current) /\ Apart(promise, reaction, current, held)
  BY DEF PromiseInv, Adopted
<1>2. /\ current = Idle /\ tasks # <<>> /\ Head(tasks).kind = "reaction"
      /\ current' = Head(tasks) /\ tasks' = Tail(tasks)
      /\ promise' = promise /\ reaction' = reaction /\ held' = held
  BY DEF StartReaction
<1>3. /\ Head(tasks) = tasks[1] /\ Len(tasks) \in Nat /\ Len(tasks) >= 1 /\ Len(Tail(tasks)) = Len(tasks) - 1
      /\ \A i \in 1 .. Len(tasks) - 1 : Tail(tasks)[i] = tasks[i + 1]
  <2>1. tasks \in Seq(Tasks(Len(reaction), Len(promise)))
    BY <1>1 DEF Inv, TypesInv
  <2> QED
    BY <1>2, <2>1, TailFacts
<1>4. Fresh(tasks) /\ Fresh(Tail(tasks)) /\ ~Head(tasks).called
  <2>1. Fresh(tasks) /\ 1 \in 1 .. Len(tasks) /\ \A i \in 1 .. Len(tasks) - 1 : i + 1 \in 1 .. Len(tasks)
    BY <1>1, <1>3 DEF AdoptInv
  <2> QED
    BY <1>3, <2>1 DEF Fresh
<1>5. \A k : InQueue(tasks, k) => InQueue(Tail(tasks), k) \/ Head(tasks).subject = k
  <2>1. \A i \in 1 .. Len(tasks) : i = 1 \/ (i - 1 \in 1 .. Len(tasks) - 1 /\ (i - 1) + 1 = i)
    BY <1>3
  <2> QED
    BY <1>3, <2>1 DEF InQueue
<1>6. \A k : Outstanding(tasks, current, k) => Outstanding(tasks', current', k)
  BY <1>2, <1>4, <1>5 DEF Outstanding, Idle
<1>7. AdoptInv(promise, reaction, tasks', current')
  BY <1>1, <1>2, <1>4, <1>6, AdoptQueue
<1>8. Apart(promise, reaction, current', held)
  BY <1>1, <1>2 DEF Apart
<1> QED
  BY <1>2, <1>7, <1>8 DEF Adopted

LEMMA IdleAdopts ==
    ASSUME Adopted, current.kind = "reaction" => current.called \/ current.subject \notin Adopters(reaction)
    PROVE  /\ AdoptInv(promise, reaction, tasks, Idle) /\ Apart(promise, reaction, Idle, held)
           /\ Idle.kind = "idle"
<1>1. AdoptInv(promise, reaction, tasks, current) /\ Apart(promise, reaction, current, held) /\ Fresh(tasks)
  BY DEF Adopted, AdoptInv
<1>2. \A k \in Adopters(reaction) : Outstanding(tasks, current, k) => Outstanding(tasks, Idle, k)
  BY DEF Outstanding
<1>3. Idle.kind = "idle"
  BY DEF Idle
<1> QED
  BY <1>1, <1>2, <1>3, AdoptQueue DEF Apart

\* A handler returns or throws: the capability is no pair of an adopting reaction.
LEMMA HandlerEndAdopts ==
    ASSUME PromiseInv, Adopted, current.kind = "reaction", FinishTask, NEW x,
           \/ resolve(promise, tasks, reaction[current.subject].cap, x)
           \/ x \in Value /\ reject(promise, tasks, reaction[current.subject].cap, x),
           current.called \/ current.subject \notin Adopters(reaction),
           reaction' = reaction, held' = held
    PROVE  Adopted'
<1> DEFINE cap == reaction[current.subject].cap
<1>1. /\ Inv(promise, reaction, freed', tasks, Idle) /\ current' = Idle
      /\ Made(promise, cap[1], 1) /\ cap = <<cap[1], 1>>
      /\ NotDue(promise, reaction, tasks, Idle, <<cap[1], 1>>)
  BY HandlerDone
<1>2. /\ AdoptInv(promise, reaction, tasks, Idle) /\ Apart(promise, reaction, Idle, held)
  BY IdleAdopts
<1> HIDE DEF cap
<1>3. \/ resolve(promise, tasks, <<cap[1], 1>>, x)
      \/ x \in Value /\ reject(promise, tasks, <<cap[1], 1>>, x)
  BY <1>1 DEF cap
<1>4. \A k \in Adopters(reaction) : reaction[k].handler.pair # <<cap[1], 1>>
  <2>1. <<cap[1], 1>>[2] = 1
    OBVIOUS
  <2> QED
    BY <1>1, <2>1, AdopterFacts
<1>5. AdoptInv(promise', reaction, tasks', Idle) /\ Follows(promise, tasks, promise', tasks')
  BY <1>1, <1>2, <1>3, <1>4, AdoptCall
<1>6. Apart(promise', reaction, Idle, held)
  BY <1>1, <1>2, <1>5, ApartFrame
<1> QED
  BY <1>1, <1>5, <1>6 DEF Adopted

LEMMA HandlerReturnsAdopts ==
    ASSUME PromiseInv, Adopted, NEW x, HandlerReturns(x)
    PROVE  Adopted'
<1>1. /\ current.kind = "reaction" /\ resolve(promise, tasks, reaction[current.subject].cap, x) /\ FinishTask
      /\ reaction' = reaction /\ held' = held
      /\ current.called \/ reaction[current.subject].handler.kind \in {"user", "identity"}
  BY DEF HandlerReturns
<1>2. current.called \/ current.subject \notin Adopters(reaction)
  BY <1>1 DEF Adopters
<1> QED
  BY <1>1, <1>2, HandlerEndAdopts

LEMMA HandlerThrowsAdopts ==
    ASSUME PromiseInv, Adopted, NEW x, HandlerThrows(x)
    PROVE  Adopted'
<1>1. /\ current.kind = "reaction" /\ reject(promise, tasks, reaction[current.subject].cap, x) /\ FinishTask
      /\ reaction' = reaction /\ held' = held
      /\ x \in Value \/ x = current.arg
      /\ reaction[current.subject].handler.kind \in {"user", "thrower"}
  BY DEF HandlerThrows
<1>2. current.subject \notin Adopters(reaction)
  BY <1>1 DEF Adopters
<1>3. x \in Value
  BY <1>1, HandlerDone
<1> QED
  BY <1>1, <1>2, <1>3, HandlerEndAdopts

LEMMA ThenableThrowsAdopts ==
    ASSUME PromiseInv, Adopted, NEW x \in Value, ThenableThrows(x)
    PROVE  Adopted'
<1> DEFINE p == current.subject
           i == Len(promise[p].resolved)
<1>1. /\ current.kind = "thenable" /\ reject(promise, tasks, <<p, i>>, x)
      /\ reaction' = reaction /\ held' = held /\ current' = Idle
  BY FinishTaskFacts DEF ThenableThrows
<1>2. /\ Inv(promise, reaction, freed, tasks, current) /\ Apart(promise, reaction, current, held)
      /\ TypesInv(promise, reaction, freed, tasks, current) /\ OneInv(promise, tasks, current)
  BY DEF PromiseInv, Inv, Adopted
<1>3. p \in 1 .. Len(promise) /\ i \in Nat /\ i >= 2
  <2>1. p \in 1 .. Len(promise) /\ i >= 2
    BY <1>1, <1>2, TypesFacts DEF OneInv
  <2> QED
    BY <1>2, <2>1, TypesFacts
<1>4. Made(promise, p, i)
  BY <1>3 DEF Made
<1>5. \A k \in Adopters(reaction) : reaction[k].handler.pair # <<p, i>>
  <2> SUFFICES ASSUME NEW k \in Adopters(reaction), reaction[k].handler.pair = <<p, i>>
               PROVE  FALSE
    OBVIOUS
  <2>1. reaction[k].handler.pair[1] = p /\ reaction[k].handler.pair[2] = i
    <3> HIDE DEF p, i
    <3> QED
      OBVIOUS
  <2>2. i < i
    BY <1>1, <1>2, <2>1 DEF Apart
  <2> QED
    BY <1>3, <2>2
<1>6. /\ Inv(promise, reaction, freed, tasks, Idle)
      /\ AdoptInv(promise, reaction, tasks, Idle) /\ Apart(promise, reaction, Idle, held)
  BY <1>1, <1>2, IdleInv, IdleAdopts
<1> HIDE DEF i, p
<1>7. NotDue(promise, reaction, tasks, Idle, <<p, i>>)
  BY <1>3, <1>6, LaterPair
<1>8. AdoptInv(promise', reaction, tasks', Idle) /\ Follows(promise, tasks, promise', tasks')
  BY <1>1, <1>4, <1>5, <1>6, <1>7, AdoptCall
<1>9. Apart(promise', reaction, Idle, held)
  BY <1>6, <1>8, ApartFrame
<1> QED
  BY <1>1, <1>8, <1>9 DEF Adopted

\* What an unused pair does with a value: settle its promise.
LEMMA Settles ==
    ASSUME NEW ps, NEW rs, NEW fr, NEW q, NEW c, Inv(ps, rs, fr, q, c),
           NEW p, NEW i, Made(ps, p, i), ~ps[p].resolved[i], NEW x \in Value,
           NEW st \in {"fulfilled", "rejected"},
           promise' = SettleIn(SetResolved(ps, <<p, i>>), p, st, x)
    PROVE  promise'[p].resolved[i] /\ promise'[p].state = st /\ promise'[p].result = x
<1> DEFINE set == SetResolved(ps, <<p, i>>)
<1>1. ps \in Seq(PromiseType(Len(rs))) /\ Len(rs) \in Nat
  BY TypesFacts DEF Inv, TypesInv
<1>2. set \in Seq(PromiseType(Len(rs))) /\ FlagSet(ps, set, p, i)
  BY <1>1, SetResolvedFacts
<1>3. promise' = SettleIn(set, p, st, x)
  OBVIOUS
<1> HIDE DEF set
<1>4. p \in 1 .. Len(set) /\ set[p].resolved[i]
  BY <1>2 DEF FlagSet, Alike, Made
<1>5. SettledWith(set, promise', p, st, x)
  BY <1>1, <1>2, <1>3, <1>4, SettleFacts
<1> QED
  BY <1>4, <1>5 DEF SettledWith

LEMMA ResolvesValue ==
    ASSUME NEW ps, NEW rs, NEW fr, NEW q, NEW c, Inv(ps, rs, fr, q, c),
           NEW p, NEW i, Made(ps, p, i), ~ps[p].resolved[i], NEW x \in Value,
           resolve(ps, q, <<p, i>>, x)
    PROVE  promise'[p].resolved[i] /\ promise'[p].state = "fulfilled" /\ promise'[p].result = x
<1> DEFINE set == SetResolved(ps, <<p, i>>)
<1>1. Len(ps) \in Nat /\ p \in Nat
  BY TypesFacts DEF Inv, Made
<1>2. x # p /\ x \notin BadThen /\ x \notin Thenable \union ((1 .. Len(ps)) \ {p})
  BY <1>1, ValueAssumption
<1>3. FulfillPromise(set, q, p, x)
  BY <1>2 DEF resolve, AlreadyResolved
<1>4. promise' = SettleIn(set, p, "fulfilled", x)
  BY <1>3 DEF FulfillPromise, SettleIn
<1> HIDE DEF set
<1>5. PICK st : st = "fulfilled" /\ st \in {"fulfilled", "rejected"} /\ promise' = SettleIn(set, p, st, x)
  BY <1>4
<1>6. promise'[p].resolved[i] /\ promise'[p].state = st /\ promise'[p].result = x
  BY <1>5, Settles DEF set
<1> QED
  BY <1>5, <1>6

LEMMA RejectsValue ==
    ASSUME NEW ps, NEW rs, NEW fr, NEW q, NEW c, Inv(ps, rs, fr, q, c),
           NEW p, NEW i, Made(ps, p, i), ~ps[p].resolved[i], NEW x \in Value,
           reject(ps, q, <<p, i>>, x)
    PROVE  promise'[p].resolved[i] /\ promise'[p].state = "rejected" /\ promise'[p].result = x
<1> DEFINE set == SetResolved(ps, <<p, i>>)
<1>1. RejectPromise(set, q, p, x)
  BY DEF reject, AlreadyResolved
<1>2. promise' = SettleIn(set, p, "rejected", x)
  BY <1>1 DEF RejectPromise, SettleIn
<1> HIDE DEF set
<1>3. PICK st : st = "rejected" /\ st \in {"fulfilled", "rejected"} /\ promise' = SettleIn(set, p, st, x)
  BY <1>2
<1>4. promise'[p].resolved[i] /\ promise'[p].state = st /\ promise'[p].result = x
  BY <1>3, Settles DEF set
<1> QED
  BY <1>3, <1>4

\* The resolving function that an adopting reaction has as its handler.
LEMMA CallHandlerAdopts ==
    ASSUME PromiseInv, Adopted, CallHandler
    PROVE  Adopted'
<1> DEFINE k == current.subject
           pair == reaction[k].handler.pair
           o == reaction[k].of
           c == [current EXCEPT !.called = TRUE]
<1>1. /\ Inv(promise, reaction, freed, tasks, current) /\ current.kind = "reaction"
      /\ AdoptInv(promise, reaction, tasks, current) /\ Apart(promise, reaction, current, held)
      /\ TypesInv(promise, reaction, freed, tasks, current)
      /\ QueueInv(promise, reaction, freed, tasks, current)
  BY DEF PromiseInv, Inv, Adopted, CallHandler
<1>2. /\ \/ reaction[k].handler.kind = "resolve" /\ resolve(promise, tasks, pair, current.arg)
         \/ reaction[k].handler.kind = "reject" /\ reject(promise, tasks, pair, current.arg)
      /\ current' = c /\ reaction' = reaction /\ freed' = freed /\ held' = held
  BY DEF CallHandler
<1>3. Inv(promise, reaction, freed, tasks, c) /\ c.kind = "reaction"
  <2>1. current \in Tasks(Len(reaction), Len(promise))
    BY <1>1, TypesFacts
  <2>2. \A e \in BOOLEAN : [current EXCEPT !.called = e].kind = "reaction"
    BY <1>1, <2>1 DEF Tasks
  <2>3. c.kind = "reaction"
    BY <2>2, Zenon
  <2> QED
    BY <1>1, <2>3, CalledInv
<1> HIDE DEF c
<1>4. k \in Adopters(reaction) /\ current.arg \in Value
  <2>1. k \in 1 .. Len(reaction) /\ current \in Tasks(Len(reaction), Len(promise))
        /\ Len(reaction) \in Nat /\ Len(promise) \in Nat
    BY <1>1, TypesFacts
  <2> QED
    BY <1>1, <1>2, <2>1, TaskFacts DEF Adopters
<1>5. /\ Made(promise, pair[1], pair[2]) /\ pair[2] \in Nat /\ pair[2] >= 2 /\ pair = <<pair[1], pair[2]>>
      /\ o \in 1 .. Len(promise)
  BY <1>1, <1>4, AdopterFacts
<1>6. /\ promise[o].state # "pending" /\ current.arg = promise[o].result
      /\ reaction[k].handler.kind = "resolve" => promise[o].state = "fulfilled"
      /\ reaction[k].handler.kind = "reject" => promise[o].state = "rejected"
  <2>1. Ready(promise, reaction, freed, current)
    BY <1>1 DEF QueueInv
  <2>2. promise[o].state \in States
    BY <1>1, <1>5, StateType
  <2> QED
    BY <2>1, <2>2 DEF Ready, KindsFor, States
<1>7. NotDue(promise, reaction, tasks, c, <<pair[1], pair[2]>>)
  BY <1>3, <1>5, LaterPair
<1>8. /\ Inv(promise', reaction, freed, tasks', c) /\ Follows(promise, tasks, promise', tasks')
      /\ Carries(promise, tasks, promise', tasks', <<pair[1], pair[2]>>)
  <2>1. \/ resolve(promise, tasks, <<pair[1], pair[2]>>, current.arg)
        \/ reject(promise, tasks, <<pair[1], pair[2]>>, current.arg)
    BY <1>2, <1>5
  <2> HIDE DEF pair
  <2>2. CASE resolve(promise, tasks, <<pair[1], pair[2]>>, current.arg)
    BY <2>2, <1>3, <1>5, <1>7, ResolveCall
  <2>3. CASE reject(promise, tasks, <<pair[1], pair[2]>>, current.arg)
    BY <2>3, <1>3, <1>4, <1>5, <1>7, RejectCall
  <2> QED
    BY <2>1, <2>2, <2>3
<1>9. promise'[pair[1]].resolved[pair[2]] /\ SameEnd(promise', pair[1], o)
  <2>1. promise'[o].state = promise[o].state /\ promise'[o].result = promise[o].result
    BY <1>5, <1>6, <1>8 DEF Follows
  <2>2. CASE promise[pair[1]].resolved[pair[2]]
    <3>1. promise' = promise
      BY <1>2, <2>2 DEF resolve, reject, AlreadyResolved
    <3>2. SameEnd(promise, pair[1], o)
      BY <1>1, <1>4, <2>2 DEF AdoptInv, Adopting
    <3> QED
      BY <2>2, <3>1, <3>2
  <2>3. CASE ~promise[pair[1]].resolved[pair[2]]
    <3>1. \/ /\ resolve(promise, tasks, <<pair[1], pair[2]>>, current.arg)
             /\ promise[o].state = "fulfilled"
          \/ /\ reject(promise, tasks, <<pair[1], pair[2]>>, current.arg)
             /\ promise[o].state = "rejected"
      BY <1>2, <1>5, <1>6
    <3> HIDE DEF pair, o
    <3>2. CASE /\ resolve(promise, tasks, <<pair[1], pair[2]>>, current.arg)
               /\ promise[o].state = "fulfilled"
      <4>1. promise'[pair[1]].resolved[pair[2]] /\ promise'[pair[1]].state = "fulfilled"
            /\ promise'[pair[1]].result = current.arg
        BY <3>2, <1>3, <1>4, <1>5, <2>3, ResolvesValue
      <4> QED
        BY <1>6, <2>1, <3>2, <4>1 DEF SameEnd
    <3>3. CASE /\ reject(promise, tasks, <<pair[1], pair[2]>>, current.arg)
               /\ promise[o].state = "rejected"
      <4>1. promise'[pair[1]].resolved[pair[2]] /\ promise'[pair[1]].state = "rejected"
            /\ promise'[pair[1]].result = current.arg
        BY <3>3, <1>3, <1>4, <1>5, <2>3, RejectsValue
      <4> QED
        BY <1>6, <2>1, <3>3, <4>1 DEF SameEnd
    <3> QED
      BY <3>1, <3>2, <3>3
  <2> QED
    BY <2>2, <2>3
<1>10. ASSUME NEW l \in Adopters(reaction), reaction[l].handler.pair = pair
       PROVE  promise'[pair[1]].resolved[pair[2]] /\ SameEnd(promise', pair[1], reaction[l].of)
  <2>1. l \in Twins(reaction, k)
    BY <1>10 DEF Twins
  <2>2. reaction[l].of = o
    BY <1>1, <1>4, <2>1 DEF AdoptInv
  <2> QED
    BY <1>9, <2>2
<1>11. ASSUME NEW l \in Adopters(reaction), reaction[l].handler.pair # pair, Outstanding(tasks, current, l)
       PROVE  Outstanding(tasks', c, l)
  <2>1. InQueue(tasks, l)
    BY <1>11 DEF Outstanding
  <2> QED
    BY <1>8, <2>1 DEF Carries, Outstanding
<1>12. AdoptInv(promise', reaction, tasks', c)
  <2>1. \A r \in 1 .. Len(promise') : promise'[r].state \in States
    BY <1>8, StateType
  <2>2. Carries(promise, tasks, promise', tasks', pair)
    BY <1>5, <1>8
  <2> HIDE DEF pair, k
  <2> QED
    BY <1>1, <1>8, <1>10, <1>11, <2>1, <2>2, AdoptFrame
<1>13. Apart(promise', reaction, c, held)
  BY <1>1, <1>3, <1>8, ApartFrame
<1> QED
  BY <1>2, <1>12, <1>13 DEF Adopted

\* A thenable task: the pair it makes is new to everyone.
LEMMA ThenableTaskAdopts ==
    ASSUME PromiseInv, Adopted, PromiseResolveThenableTask
    PROVE  Adopted'
<1> DEFINE p == Head(tasks).subject
           x == Head(tasks).arg
           ps == PairIn(promise, p)
           i == Len(promise[p].resolved) + 1
           pair == <<p, i>>
           q == Tail(tasks)
<1>1. /\ Inv(promise, reaction, freed, tasks, Idle) /\ HeldInv(promise, reaction, known, held)
      /\ AdoptInv(promise, reaction, tasks, Idle) /\ Apart(promise, reaction, Idle, held)
  BY DEF PromiseInv, Adopted, PromiseResolveThenableTask
<1>2. /\ current = Idle /\ tasks # <<>> /\ Head(tasks).kind = "thenable"
      /\ \/ /\ x \in 1 .. Len(promise)
            /\ _ejs_Promise_prototype_then(ps, q, x, Handler("resolve", pair), Handler("reject", pair))
            /\ current' = current /\ held' = held
         \/ /\ promise' = ps /\ tasks' = q /\ current' = Head(tasks)
            /\ held' = held \union {pair}
            /\ reaction' = reaction
  BY DEF PromiseResolveThenableTask, PairIn, Promises
<1>3. /\ p \in 1 .. Len(promise) /\ i \in Nat /\ i >= 2 /\ Made(ps, p, i)
      /\ Len(ps) = Len(promise) /\ PairAdded(promise, ps, p)
      /\ \A c : c = Idle \/ c = Head(tasks) => Inv(ps, reaction, freed, q, c)
      /\ Follows(promise, tasks, ps, q)
  BY ThenableTaskBegins
<1>4. Carries(promise, tasks, ps, q, NoPair)
  <2>1. tasks \in Seq(Tasks(Len(reaction), Len(promise)))
    BY <1>1 DEF Inv, TypesInv
  <2>2. /\ Head(tasks) = tasks[1] /\ Len(tasks) \in Nat /\ Len(q) = Len(tasks) - 1
        /\ \A j \in 1 .. Len(tasks) - 1 : q[j] = tasks[j + 1]
    BY <1>2, <2>1, TailFacts
  <2> HIDE DEF q, ps, p
  <2>3. /\ \A j \in 1 .. Len(tasks) : j = 1 \/ (j - 1 \in 1 .. Len(q) /\ (j - 1) + 1 = j)
        /\ \A j \in 1 .. Len(q) : j + 1 \in 1 .. Len(tasks)
    BY <2>2
  <2>4. \A k : InQueue(tasks, k) => InQueue(q, k)
    BY <1>2, <2>2, <2>3 DEF InQueue
  <2>5. Fresh(tasks) => Fresh(q)
    BY <2>2, <2>3 DEF Fresh
  <2>6. \A r \in 1 .. Len(promise) : /\ ps[r].state = promise[r].state
                                     /\ ps[r].fulfillReactions = promise[r].fulfillReactions
                                     /\ ps[r].rejectReactions = promise[r].rejectReactions
    BY <1>3 DEF PairAdded, Alike, SameButPairs
  <2>7. \A r \in 1 .. Len(promise) : \A j \in 1 .. Len(promise[r].resolved) :
            ps[r].resolved[j] <=> promise[r].resolved[j]
    BY <1>3 DEF PairAdded, Alike
  <2> QED
    BY <2>4, <2>5, <2>6, <2>7 DEF Carries
<1>5. ~ps[p].resolved[i]
  BY <1>3 DEF PairAdded
<1>6. /\ \A k \in Adopters(reaction) : reaction[k].handler.pair # pair
      /\ \A k \in Adopters(reaction) : reaction[k].handler.pair[1] = p => reaction[k].handler.pair[2] < i
      /\ pair \notin held
  <2>1. ASSUME NEW k \in Adopters(reaction), reaction[k].handler.pair[1] = p
        PROVE  reaction[k].handler.pair[2] < i
    <3>1. reaction[k].handler.pair[2] \in 1 .. Len(promise[p].resolved)
      BY <1>1, <2>1, AdopterFacts DEF Made
    <3>2. Len(promise[p].resolved) \in Nat
      BY <1>3 DEF Follows
    <3> QED
      BY <3>1, <3>2
  <2>2. \A k \in Adopters(reaction) : reaction[k].handler.pair # pair
    <3> SUFFICES ASSUME NEW k \in Adopters(reaction), reaction[k].handler.pair = pair
                 PROVE  FALSE
      OBVIOUS
    <3>1. reaction[k].handler.pair[1] = p /\ reaction[k].handler.pair[2] = i
      <4> HIDE DEF p, i
      <4> QED
        OBVIOUS
    <3>2. i < i
      BY <2>1, <3>1
    <3> QED
      BY <1>3, <3>2
  <2>3. pair \notin held
    <3> SUFFICES ASSUME pair \in held
                 PROVE  FALSE
      OBVIOUS
    <3>1. Made(promise, pair[1], pair[2]) /\ pair[1] = p /\ pair[2] = i
      BY <1>1 DEF HeldInv
    <3>2. i \in 1 .. Len(promise[p].resolved) /\ Len(promise[p].resolved) \in Nat
      BY <1>3, <3>1 DEF Made, Follows
    <3> QED
      BY <3>2
  <2> QED
    BY <2>1, <2>2, <2>3
<1>7. pair \in Nat \X Nat /\ pair[1] = p /\ pair[2] = i
  BY <1>3 DEF Follows
<1> HIDE DEF ps, q
<1>8. AdoptInv(ps, reaction, q, Idle) /\ Inv(ps, reaction, freed, q, Idle)
  BY <1>1, <1>3, <1>4, AdoptOlder
<1>9. CASE /\ x \in 1 .. Len(promise)
           /\ _ejs_Promise_prototype_then(ps, q, x, Handler("resolve", pair), Handler("reject", pair))
           /\ current' = current /\ held' = held
  <2> DEFINE hf == Handler("resolve", pair)
             hr == Handler("reject", pair)
  <2>1. /\ hf \in [kind : Kinds, pair : Nat \X Nat] /\ hf.kind = "resolve" /\ hf.pair = pair
        /\ hr \in [kind : Kinds, pair : Nat \X Nat] /\ hr.kind = "reject" /\ hr.pair = pair
    <3> HIDE DEF pair
    <3> QED
      BY <1>7 DEF Handler, Kinds
  <2> HIDE DEF hf, hr
  <2>2. /\ HandlerOK(ps, hf) /\ HandlerOK(ps, hr)
        /\ hf.kind \in KindsFor("fulfilled") /\ hr.kind \in KindsFor("rejected")
    BY <1>3, <1>7, <2>1 DEF HandlerOK, KindsFor
  <2>3. x \in 1 .. Len(ps) /\ _ejs_Promise_prototype_then(ps, q, x, hf, hr)
    BY <1>3, <1>9 DEF hf, hr
  <2>4. /\ Inv(promise', reaction', freed, tasks', Idle) /\ Follows(ps, q, promise', tasks')
        /\ Carries(ps, q, promise', tasks', NoPair)
        /\ ThenAdds(promise', reaction, reaction', tasks', x, hf, hr)
    <3> HIDE DEF x
    <3> QED
      BY <1>8, <2>2, <2>3, ThenCall
  <2>5. AdoptInv(promise', reaction, tasks', Idle)
    BY <1>8, <2>4, AdoptOlder
  <2>6. ~promise'[p].resolved[i]
    <3>1. pair # NoPair
      BY <1>3, <1>7 DEF NoPair
    <3>2. p \in 1 .. Len(ps) /\ i \in 1 .. Len(ps[p].resolved)
      BY <1>3 DEF Made
    <3> QED
      BY <1>5, <2>4, <3>1, <3>2 DEF Carries
  <2>7. AdoptInv(promise', reaction', tasks', Idle)
    <3>1. /\ hr.pair = hf.pair /\ ~promise'[hf.pair[1]].resolved[hf.pair[2]]
          /\ \A k \in Adopters(reaction) : reaction[k].handler.pair # hf.pair
          /\ hf.kind \in {"resolve", "reject"} /\ hr.kind \in {"resolve", "reject"}
      BY <1>6, <1>7, <2>1, <2>6
    <3> HIDE DEF x
    <3> QED
      BY <2>4, <2>5, <3>1, AdoptThen
  <2>8. Apart(promise', reaction', Idle, held)
    <3>1. ASSUME NEW k \in Adopters(reaction')
          PROVE  reaction'[k].handler.pair \notin held
      <4>1. CASE k \in 1 .. Len(reaction)
        <5>1. k \in Adopters(reaction) /\ reaction'[k] = reaction[k]
          BY <2>4, <4>1 DEF ThenAdds, Adopters
        <5> QED
          BY <1>1, <5>1 DEF Apart
      <4>2. CASE k \notin 1 .. Len(reaction)
        <5>1. reaction'[k].handler \in {hf, hr}
          BY <2>4, <4>2 DEF ThenAdds, Adopters
        <5> QED
          BY <1>6, <2>1, <5>1
      <4> QED
        BY <4>1, <4>2
    <3>2. Idle.kind # "thenable"
      BY DEF Idle
    <3> QED
      BY <3>1, <3>2 DEF Apart
  <2> QED
    BY <1>2, <1>9, <2>7, <2>8 DEF Adopted
<1>10. CASE /\ promise' = ps /\ tasks' = q /\ current' = Head(tasks)
            /\ held' = held \union {pair}
            /\ reaction' = reaction
  <2>1. AdoptInv(ps, reaction, q, Head(tasks))
    <3>1. Fresh(q) /\ \A k : Outstanding(q, Idle, k) => Outstanding(q, Head(tasks), k)
      BY <1>8 DEF AdoptInv, Outstanding, Idle
    <3> QED
      BY <1>8, <3>1, AdoptQueue
  <2>2. Len(ps[p].resolved) = i
    BY <1>3 DEF PairAdded
  <2>3. Apart(ps, reaction, Head(tasks), held \union {pair})
    <3> HIDE DEF pair, i
    <3> QED
      BY <1>1, <1>6, <2>2 DEF Apart
  <2> QED
    BY <1>10, <2>1, <2>3 DEF Adopted
<1> QED
  BY <1>2, <1>9, <1>10

LEMMA AdoptStep ==
    ASSUME PromiseInv, Adopted, [Next]_vars
    PROVE  Adopted'
<1>1. CASE _ejs_Promise_impl
  BY <1>1, NewPromiseAdopts
<1>2. CASE \E x \in AnyValue : _ejs_Promise_resolve(x)
  BY <1>2, WrapAdopts DEF _ejs_Promise_resolve
<1>3. CASE \E x \in Value : _ejs_Promise_reject(x)
  BY <1>3, WrapAdopts DEF _ejs_Promise_reject
<1>4. CASE \E p \in known : CallThen(p, User, User) \/ CallThen(p, Identity, User)
                            \/ CallThen(p, User, Thrower)
  <2>1. User \in {User, Identity} /\ Identity \in {User, Identity}
        /\ User \in {User, Thrower} /\ Thrower \in {User, Thrower}
    OBVIOUS
  <2> QED
    BY <1>4, <2>1, ThenAdopts
<1>5. CASE \E pair \in held : \/ \E x \in AnyValue : CallResolve(pair, x)
                              \/ \E x \in Value : CallReject(pair, x)
  BY <1>5, HeldCallAdopts DEF CallResolve, CallReject
<1>6. CASE _ejs_runloop_start
  <2>1. /\ current.kind # "reaction" /\ current' = Idle
        /\ promise' = promise /\ reaction' = reaction /\ tasks' = tasks /\ held' = held
    BY <1>6 DEF _ejs_runloop_start, Script
  <2> QED
    BY <2>1, IdleAdopts DEF Adopted
<1>7. CASE StartReaction
  BY <1>7, StartAdopts
<1>8. CASE CallHandler
  BY <1>8, CallHandlerAdopts
<1>9. CASE \E x \in AnyValue \union {current.arg} : HandlerReturns(x) \/ HandlerThrows(x)
  BY <1>9, HandlerReturnsAdopts, HandlerThrowsAdopts
<1>10. CASE PromiseResolveThenableTask
  BY <1>10, ThenableTaskAdopts
<1>11. CASE ThenableReturns
  <2>1. /\ current.kind # "reaction" /\ current' = Idle
        /\ promise' = promise /\ reaction' = reaction /\ tasks' = tasks /\ held' = held
    BY <1>11, FinishTaskFacts DEF ThenableReturns
  <2> QED
    BY <2>1, IdleAdopts DEF Adopted
<1>12. CASE \E x \in Value : ThenableThrows(x)
  BY <1>12, ThenableThrowsAdopts
<1>13. CASE UNCHANGED vars
  <2>1. /\ promise' = promise /\ reaction' = reaction /\ tasks' = tasks
        /\ current' = current /\ held' = held
    BY <1>13 DEF vars
  <2> QED
    BY <2>1 DEF Adopted
<1> QED
  BY <1>1, <1>2, <1>3, <1>4, <1>5, <1>6, <1>7, <1>8, <1>9, <1>10, <1>11, <1>12, <1>13
     DEF Next, UserStep, TaskStep

\* A promise resolved with another one ends as that one does, and every handler gets
\* what its promise was settled with: no resolving function of the pair made for the
\* adoption is lost, called by someone else or called with another result.
THEOREM ValuesAlwaysFlow == Spec => []ValuesFlow
<1>1. Init => Adopted
  <2> SUFFICES ASSUME Init PROVE Adopted
    OBVIOUS
  <2>1. Len(reaction) = 0 /\ Len(tasks) = 0
    BY DEF Init
  <2>2. Adopters(reaction) = {} /\ Fresh(tasks)
    BY <2>1 DEF Adopters, Fresh
  <2> QED
    BY <2>2 DEF Adopted, AdoptInv, Apart
<1>2. PromiseInv /\ Adopted /\ [Next]_vars => Adopted'
  BY AdoptStep
<1>3. Spec => []Adopted
  BY PromisesKeepInv, <1>1, <1>2, PTL DEF Spec
<1>4. PromiseInv /\ Adopted => AdoptsState
  <2> SUFFICES ASSUME PromiseInv, Adopted, current = Idle, tasks = <<>>, NEW k \in 1 .. Len(reaction),
                      reaction[k].handler.kind \in {"resolve", "reject"}, Settled(reaction[k].of)
               PROVE  LET q == reaction[k].of
                          p == reaction[k].handler.pair[1]
                      IN  promise[p].state = promise[q].state /\ promise[p].result = promise[q].result
    BY DEF AdoptsState
  <2>1. k \in Adopters(reaction)
    BY DEF Adopters
  <2>2. Adopting(promise, reaction, tasks, current, k)
    BY <2>1 DEF Adopted, AdoptInv
  <2>3. \A l : ~Outstanding(tasks, current, l)
    BY DEF Outstanding, InQueue, Idle
  <2> QED
    BY <2>2, <2>3 DEF Adopting, SameEnd, Settled
<1>5. HandlerGetsResult /\ AdoptsState => ValuesFlow
  BY DEF ValuesFlow
<1> QED
  BY PromisesKeepInv, HandlersGetResults, <1>3, <1>4, <1>5, PTL
==============================================================================
