------------------------------ MODULE EjsRegExp ------------------------------
(***************************************************************************)
(* Regular expressions (ejs-regexp.c).  Compiling and matching is pcre's;  *)
(* what this code adds is the use of lastIndex: exec leaves it behind the  *)
(* match, and match, replace and split drive loops with it.  The subject   *)
(* is its length, a pattern is the end of the match at each position, and  *)
(* a string is the list of the parts it is made of.                        *)
(*                                                                         *)
(* The loops call exec through the property of that name, so that the      *)
(* program's own exec may answer anything and move lastIndex at will, and  *)
(* a replacement function may use the same RegExp while replace runs.      *)
(***************************************************************************)
EXTENDS Integers, Sequences

CONSTANTS Lengths,      \* lengths of the subject
          FlagTexts,    \* flags arguments of RegExp, sequences of letters
          OwnExec,      \* whether the program replaces exec: a set of Booleans
          MaxOwnExecs,  \* bound on the results of the program's exec in a call
          MaxReCalls,   \* bound on the calls of the program
          NoMatch, BadOffset, \* PCRE_ERROR_NOMATCH and PCRE_ERROR_BADOFFSET
          NoResult

ASSUME ReAssumption ==
  /\ Lengths \subseteq Nat /\ OwnExec \subseteq BOOLEAN
  /\ MaxReCalls \in Nat \ {0} /\ MaxOwnExecs \in Nat
  /\ NoMatch \notin Int /\ BadOffset # NoMatch

VARIABLES size,   \* length of the subject
          pat,    \* pat[i]: the end of the match at i, or NoMatch
          caps,   \* number of captures of the pattern
          own,    \* the program has its own exec
          re,     \* the RegExp: lastIndex and flags
          call,   \* the call under way and its locals
          out,    \* the result of the last call
          recalls \* calls made

revars == <<size, pat, caps, own, re, call, out, recalls>>

Positions == 0..size
\* A pattern matches, at each position, nothing or some of what follows.
Patterns(n) ==
  {f \in [0..n -> {NoMatch} \cup 0..n] : \A i \in 0..n : f[i] = NoMatch \/ f[i] >= i}

Idle == [op |-> "none"]
Crashed == [op |-> "crashed"]

\* RegExpInitialize: the flags may come in any order, each once.
KnownFlags == {"g", "i", "m", "y", "u"}
FlagsAccepted(f) ==
  /\ \A k \in DOMAIN f : f[k] \in KnownFlags
  /\ \A j, k \in DOMAIN f : f[j] = f[k] => j = k
RegExpInitialize(f) ==
  [lastIndex |-> 0, global |-> \E k \in DOMAIN f : f[k] = "g", sticky |-> \E k \in DOMAIN f : f[k] = "y"]

\* get RegExp.prototype.flags: the letters in the order g, y.
_ejs_RegExp_prototype_get_flags(r) ==
  (IF r.global THEN <<"g">> ELSE <<>>) \o (IF r.sticky THEN <<"y">> ELSE <<>>)

\* With an exec of its own the program never uses the pattern, and what its
\* exec leaves behind is any lastIndex: one call shows all it can do.
ReInit ==
  /\ size \in Lengths /\ pat \in Patterns(size) /\ caps \in {0, 1} /\ own \in OwnExec
  /\ re \in {RegExpInitialize(f) : f \in {g \in FlagTexts : FlagsAccepted(g)}}
  /\ call = Idle /\ out = Idle
  /\ own => pat = [i \in Positions |-> NoMatch]
  /\ recalls = IF own THEN MaxReCalls - 1 ELSE 0

----------------------------------------------------------------------------
(* Matching.                                                               *)

\* pcre16_exec: the first match that starts at or behind an offset.  An offset
\* behind the end of the subject is an error of its own.
pcre16_exec(i) ==
  LET found == {k \in i..size : pat[k] # NoMatch}
  IN  IF i > size THEN BadOffset
      ELSE IF found = {} THEN NoMatch
      ELSE LET k == CHOOSE k \in found : \A j \in found : k <= j
           IN  [index |-> k, end |-> pat[k]]

\* RegExpBuiltinExec returns the RegExp with its new lastIndex, and the match.
\* Only NOMATCH is taken for a failure: after BADOFFSET the code goes on with
\* positions nobody has written.
RegExpBuiltinExec(r) ==
  LET m == pcre16_exec(IF r.global \/ r.sticky THEN r.lastIndex ELSE 0)
  IN  IF m = NoMatch THEN [r |-> [r EXCEPT !.lastIndex = 0], z |-> NoResult]
      ELSE IF m = BadOffset THEN [r |-> r, z |-> m]
      ELSE [r |-> [r EXCEPT !.lastIndex = IF r.global \/ r.sticky THEN m.end ELSE @], z |-> m]

\* RegExpExec: the built-in exec, or the program's, which returns null or an
\* object with any index and any string, and may leave any lastIndex.
OwnResults == {NoResult} \cup {[index |-> k, end |-> k + l] : k \in -1..(size + 1), l \in 0..1}
RegExpExec(r, execs) ==
  IF ~own THEN {RegExpBuiltinExec(r)}
  ELSE {[r |-> [r EXCEPT !.lastIndex = i], z |-> z] :
           i \in 0..(size + 1), z \in IF execs < MaxOwnExecs THEN OwnResults ELSE {NoResult}}

----------------------------------------------------------------------------
(* Calls of the program.                                                   *)

Begin == call = Idle /\ recalls < MaxReCalls /\ recalls' = recalls + 1
Fixed == UNCHANGED <<size, pat, caps, own>>
Return(o) == call' = Idle /\ out' = o

SetLastIndex(i) ==
  /\ Begin /\ Fixed /\ re' = [re EXCEPT !.lastIndex = i] /\ Return(Idle)

\* RegExp(re) is re; otherwise another RegExp with the same pattern is made,
\* with the flags given or those of re, or the flags are a SyntaxError.
_ejs_RegExp_impl(isNew, flags) ==
  LET f == IF flags = NoResult THEN _ejs_RegExp_prototype_get_flags(re) ELSE flags
  IN  /\ Begin /\ Fixed
      /\ re' = IF (isNew \/ flags # NoResult) /\ FlagsAccepted(f) THEN RegExpInitialize(f) ELSE re
      /\ Return([op |-> "RegExp", ok |-> FlagsAccepted(f)])

_ejs_RegExp_prototype_exec ==
  /\ Begin /\ Fixed
  /\ LET x == RegExpBuiltinExec(re)
     IN  /\ re' = x.r
         /\ IF x.z = BadOffset THEN call' = Crashed /\ UNCHANGED out
                                 ELSE Return([op |-> "exec", z |-> x.z])

\* test always starts at 0 and leaves lastIndex alone.
_ejs_RegExp_prototype_test ==
  /\ Begin /\ Fixed /\ Return([op |-> "test", z |-> pcre16_exec(0) # NoMatch])
  /\ UNCHANGED re

\* Without the flag g, match is one exec.
_ejs_RegExp_prototype_match ==
  /\ Begin /\ Fixed
  /\ IF re.global
     THEN /\ re' = [re EXCEPT !.lastIndex = 0]
          /\ call' = [op |-> "match", previousLastIndex |-> 0, A |-> <<>>] /\ out' = Idle
     ELSE \E x \in RegExpExec(re, 0) :
             /\ re' = x.r
             /\ IF x.z = BadOffset THEN call' = Crashed /\ UNCHANGED out
                                     ELSE Return([op |-> "matchOne", z |-> x.z])

_ejs_RegExp_prototype_replace(functional) ==
  /\ Begin /\ Fixed
  /\ re' = [re EXCEPT !.lastIndex = IF re.global THEN 0 ELSE @]
  /\ call' = [op |-> "replace", global |-> re.global, functional |-> functional,
              results |-> <<>>]
  /\ out' = Idle

\* split constructs a splitter with the flags of the RegExp; y is not added.
_ejs_RegExp_prototype_split(lim) ==
  /\ Begin /\ Fixed
  /\ LET splitter == RegExpInitialize(_ejs_RegExp_prototype_get_flags(re))
     IN  IF lim = 0 THEN Return([op |-> "split", A |-> <<>>])
         ELSE IF size > 0
         THEN call' = [op |-> "split", rx |-> splitter, p |-> 0, q |-> 0, A |-> <<>>, lim |-> lim]
              /\ out' = Idle
         ELSE \E x \in RegExpExec(splitter, 0) :
                 Return([op |-> "split", A |-> IF x.z = NoResult THEN <<<<0, 0>>>> ELSE <<>>])
  /\ UNCHANGED re

----------------------------------------------------------------------------
(* The loops.                                                              *)

Empty(z) == z.index = z.end
Crash == call' = Crashed /\ UNCHANGED out

\* The loop of match: the same lastIndex twice means an empty match.
MatchNext(thisIndex, previous) == IF thisIndex = previous THEN thisIndex + 1 ELSE thisIndex
MatchStep ==
  /\ call.op = "match"
  /\ \E x \in RegExpExec(re, Len(call.A)) :
       IF x.z = BadOffset THEN Crash /\ re' = x.r
       ELSE IF x.z = NoResult
       THEN re' = x.r /\ Return([op |-> "match", A |-> call.A])
       ELSE LET thisIndex == x.r.lastIndex
                next == MatchNext(thisIndex, call.previousLastIndex)
            IN  /\ re' = [x.r EXCEPT !.lastIndex = next]
                /\ call' = [call EXCEPT !.previousLastIndex = next, !.A = Append(@, x.z)]
                /\ UNCHANGED out
  /\ Fixed /\ UNCHANGED recalls

\* The first loop of replace collects the results of exec; an empty match
\* moves lastIndex on.
Bumped(r, z) == IF Empty(z) THEN [r EXCEPT !.lastIndex = @ + 1] ELSE r
Emitting(c, results) ==
  [op |-> "emit", functional |-> c.functional, global |-> c.global, results |-> results, i |-> 1,
   text |-> <<>>, nextSourcePosition |-> 0]
CollectStep ==
  /\ call.op = "replace"
  /\ \E x \in RegExpExec(re, Len(call.results)) :
       IF x.z = BadOffset THEN Crash /\ re' = x.r
       ELSE /\ re' = IF x.z # NoResult /\ call.global THEN Bumped(x.r, x.z) ELSE x.r
            /\ LET all == IF x.z = NoResult THEN call.results ELSE Append(call.results, x.z)
               IN  call' = IF x.z = NoResult \/ ~call.global THEN Emitting(call, all)
                                                         ELSE [call EXCEPT !.results = all]
            /\ UNCHANGED out
  /\ Fixed /\ UNCHANGED recalls

\* The second loop puts the text together, calling the replacement function,
\* which may do anything with the RegExp.  A result in front of the text that
\* is already taken is left out.
Source(i, j) == <<"source", i, j>>
Replacement(k) == <<"replacement", k>>
Emitted(c, position, length) ==
  [c EXCEPT !.text = @ \o <<Source(c.nextSourcePosition, position), Replacement(c.i)>>,
            !.nextSourcePosition = position + length, !.i = @ + 1]
Within(position) == IF position < 0 THEN 0 ELSE IF position > size THEN size ELSE position
\* Fault: a result before the position reached is used as well.
BackAndForth(c) ==
  LET z == c.results[c.i]
  IN  Emitted(c, Within(z.index), z.end - z.index)
EmitOne(c) ==
  LET z == c.results[c.i]
      position == Within(z.index)
  IN  IF position >= c.nextSourcePosition THEN Emitted(c, position, z.end - z.index)
                                          ELSE [c EXCEPT !.i = @ + 1]
EmitStep ==
  /\ call.op = "emit" /\ call.i <= Len(call.results)
  /\ \E i \in IF call.functional THEN 0..(size + 1) ELSE {re.lastIndex} :
        re' = [re EXCEPT !.lastIndex = i]
  /\ call' = EmitOne(call)
  /\ Fixed /\ UNCHANGED <<out, recalls>>

ReplaceReturns ==
  /\ call.op = "emit" /\ call.i > Len(call.results)
  /\ LET n == call.nextSourcePosition
     IN  Return([op |-> "replace", global |-> call.global, results |-> call.results,
                 text |-> IF n >= size THEN call.text ELSE Append(call.text, Source(n, size))])
  /\ Fixed /\ UNCHANGED <<re, recalls>>

\* The loop of split: a piece ends at q, where the splitter was asked to start,
\* and the next one begins at the end of the match.  Captures are not supported.
SplitAt(c, r, e) ==
  LET A == Append(c.A, <<c.p, c.q>>)
  IN  IF Len(A) = c.lim THEN Return([op |-> "split", A |-> A])
      ELSE IF caps > 0 THEN Crash
      ELSE call' = [c EXCEPT !.rx = r, !.A = A, !.p = e, !.q = e] /\ UNCHANGED out
\* Fault: an index that did not match is tried again.
StaysPut(q) == q
AdvanceStringIndex(q) == q + 1
SplitStep ==
  /\ call.op = "split" /\ call.q < size
  /\ \E x \in RegExpExec([call.rx EXCEPT !.lastIndex = call.q], Len(call.A)) :
       IF x.z = NoResult \/ x.r.lastIndex = call.p
       THEN call' = [call EXCEPT !.rx = x.r, !.q = AdvanceStringIndex(@)] /\ UNCHANGED out
       ELSE SplitAt(call, x.r, x.r.lastIndex)
  /\ Fixed /\ UNCHANGED <<re, recalls>>

SplitReturns ==
  /\ call.op = "split" /\ call.q >= size
  /\ Return([op |-> "split", A |-> Append(call.A, <<call.p, size>>)])
  /\ Fixed /\ UNCHANGED <<re, recalls>>

ReLoop == MatchStep \/ CollectStep \/ EmitStep \/ ReplaceReturns \/ SplitStep \/ SplitReturns

ReNext ==
  \/ \E i \in 0..(size + 1) : SetLastIndex(i)
  \/ \E isNew \in BOOLEAN, f \in FlagTexts \cup {NoResult} : _ejs_RegExp_impl(isNew, f)
  \/ _ejs_RegExp_prototype_exec \/ _ejs_RegExp_prototype_test \/ _ejs_RegExp_prototype_match
  \/ \E functional \in BOOLEAN : _ejs_RegExp_prototype_replace(functional)
  \/ \E lim \in {0, 1, size + 2} : _ejs_RegExp_prototype_split(lim)
  \/ ReLoop

\* The loops run in C without giving control to anything but the callbacks,
\* which return.
ReFairness == WF_revars(ReLoop)

----------------------------------------------------------------------------
(* Properties.                                                             *)

Ops == {"none", "crashed", "match", "replace", "emit", "split"}

\* Type invariant of the RegExp and of the call under way.
ReTypeOK ==
  /\ size \in Lengths /\ pat \in Patterns(size)
  /\ re \in [lastIndex : 0..(size + 2), global : BOOLEAN, sticky : BOOLEAN]
  /\ call.op \in Ops
  /\ call.op = "match" => call.previousLastIndex \in 0..(size + 2)
  /\ call.op = "emit" => call.nextSourcePosition \in 0..(size + 1) /\ call.i \in 1..(Len(call.results) + 1)

\* What a global loop has to find: the matches from left to right, the next
\* one looked for behind the last, one further when that was empty.
Found[i \in Nat] ==
  LET m == pcre16_exec(i)
  IN  IF m \in {NoMatch, BadOffset} THEN <<>>
      ELSE <<m>> \o Found[IF Empty(m) THEN m.end + 1 ELSE m.end]

\* A replace of all matches has found each match once and in order, and the
\* replacement function cannot disturb it, whatever it does with lastIndex.
ReplaceExact ==
  out.op = "replace" /\ ~own =>
    IF out.global THEN out.results = Found[0] ELSE Len(out.results) <= 1

Sources(t) == SelectSeq(t, LAMBDA piece : piece[1] = "source")
InOrder(t) ==
  /\ \A k \in DOMAIN t : 0 <= t[k][1] /\ t[k][1] <= t[k][2] /\ t[k][2] <= size
  /\ \A j, k \in DOMAIN t : j < k => t[j][2] <= t[k][1]

\* The text replace returns has the parts of the subject it keeps in order and
\* none of them twice, also when the program's exec answers with positions
\* that go back and forth; with the built-in exec it leaves out the matches
\* and nothing else.
PiecesInOrder ==
  LET t == IF call.op = "emit" THEN call.text ELSE IF out.op = "replace" THEN out.text ELSE <<>>
      kept == Sources(t)
  IN  /\ InOrder([k \in DOMAIN kept |-> <<kept[k][2], kept[k][3]>>])
      /\ out.op = "replace" /\ call.op # "emit" /\ ~own =>
           \A u \in 0..(size - 1) :
              (\E k \in DOMAIN kept : kept[k][2] <= u /\ u < kept[k][3])
                <=> ~\E k \in DOMAIN out.results : out.results[k].index <= u /\ u < out.results[k].end

\* A global match returns the matches a global replace replaces, in order; it
\* may return an empty one a second time, and no other.
MatchesExact ==
  out.op = "match" /\ ~own =>
    /\ {out.A[k] : k \in DOMAIN out.A} = {Found[0][k] : k \in DOMAIN Found[0]}
    /\ \A j, k \in DOMAIN out.A : j < k =>
         out.A[j].end <= out.A[k].index /\ (out.A[j] = out.A[k] => Empty(out.A[j]) /\ k = j + 1)

\* The pieces split returns lie one behind the other in the subject.
SplitInOrder ==
  /\ call.op = "split" /\ ~own => InOrder(call.A) /\ call.p <= call.q /\ call.q <= size
  /\ out.op = "split" /\ ~own => InOrder(out.A)

\* With the built-in exec every loop ends, for every pattern and every flag.
LoopsEnd == (call # Idle /\ ~own) ~> (call = Idle \/ call = Crashed)

\* The loops driven by lastIndex find each match once and in order, and what they
\* return is made of the subject's parts in order, although the program may move
\* lastIndex or answer in place of exec.
RegExpExact == ReTypeOK /\ ReplaceExact /\ PiecesInOrder /\ MatchesExact /\ SplitInOrder
==============================================================================
