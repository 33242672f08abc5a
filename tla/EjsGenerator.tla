---------------------------- MODULE EjsGenerator ----------------------------
(* Generators (ejs-generator.c) on user contexts, the collector's array of    *)
(* running generators (ejs-gc.c) and the iterator wrapper behind array        *)
(* destructuring.  All C code between two pieces of JavaScript is one step: a *)
(* swapcontext and what the other side does when it wakes up included.        *)
EXTENDS Integers, Sequences, FiniteSets

CONSTANTS Gens,           \* generator objects
          Values,         \* values sent and yielded
          Main,           \* the context of the main stack
          Other,          \* an iterator that is not a generator
          undefined, Nil,
          MAX_GENERATORS, \* room in the collector's array
          Misuse,         \* the program resumes running and finished generators, or throws into new ones
          MaxResumes      \* bound on the program's calls

ASSUME GenAssumption ==
  /\ MAX_GENERATORS \in Nat \ {0} /\ MaxResumes \in Nat /\ Misuse \in BOOLEAN
  /\ Main \notin Gens /\ Other \notin Gens /\ Nil \notin Gens \cup {Other} /\ undefined \notin Values

VARIABLES gens,        \* the fields of every EJSGenerator
          frames,      \* what is on a generator's stack: what its context can be resumed into
          cur,         \* the context that runs
          generators,  \* generators[0 .. generator_count)
          heard,       \* what the running context heard last from the other side of a switch
          said,        \* what the last call of next or throw said
          wrapper,     \* one EJSIteratorWrapper, what it was given and what its user got
          fate,        \* "ok", "aborted" or "lost": a context whose frames are gone was resumed
          resumes

gvars == <<gens, frames, cur, generators, heard, said, wrapper, fate, resumes>>

Silent == [kind |-> "nothing", word |-> undefined]
Words == Values \cup {undefined}
_ejs_create_iter_result(v, done) == [kind |-> IF done THEN "done" ELSE "yielded", word |-> v]
TheEnd == _ejs_create_iter_result(undefined, TRUE)

Blank == [context |-> "none", caller_context |-> Main, yielded_value |-> Silent,
          sent_value |-> undefined, throwing |-> FALSE]

\* Before a destructuring, and after one that an exception has left.
NoWrapper == [iterator |-> Nil, done |-> FALSE, resting |-> FALSE, given |-> <<>>, taken |-> <<>>, rest |-> <<>>]

GenInit ==
  /\ gens = [g \in Gens |-> Blank]
  /\ frames = [g \in Gens |-> "none"]
  /\ cur = Main /\ generators = <<>> /\ heard = Silent /\ said = Silent /\ fate = "ok" /\ resumes = 0
  /\ wrapper = NoWrapper

\* getRest runs without a break: no other code of its context until it returns.
ProgramRuns == fate = "ok" /\ ~(cur = Main /\ wrapper.resting)

_ejs_generator_new(g) ==
  /\ ProgramRuns /\ frames[g] = "none"
  /\ gens' = [gens EXCEPT ![g] = [Blank EXCEPT !.context = "start"]]
  /\ frames' = [frames EXCEPT ![g] = "fresh"]
  /\ UNCHANGED <<cur, generators, heard, said, wrapper, fate, resumes>>

----------------------------------------------------------------------------
(* The collector's array of generators: neither operation looks at a bound.  *)

_ejs_gc_push_generator(g) == generators' = Append(generators, g)

_ejs_gc_pop_generator == generators' = SubSeq(generators, 1, Len(generators) - 1)

----------------------------------------------------------------------------
(* Into a generator.  Frames that run already, or are gone, cannot be resumed *)
(* and a push behind the array's end overwrites what follows it: the program  *)
(* is lost then.                                                              *)

CanResume(g) == frames[g] \in {"fresh", "suspended"} /\ Len(generators) < MAX_GENERATORS

\* Fault: the flag outlives the exception it announced.
FlagStays(g, arg, flag) ==
  /\ gens' = [gens EXCEPT ![g].throwing = flag, ![g].sent_value = arg,
                          ![g].yielded_value = Silent, ![g].caller_context = cur]
  /\ heard' = [kind |-> IF flag THEN "throw" ELSE "send", word |-> arg]

\* The second half of _ejs_generator_yield, back from swapcontext.
Awake(g, arg, flag) ==
  /\ gens' = [gens EXCEPT ![g].throwing = FALSE, ![g].sent_value = arg,
                          ![g].yielded_value = Silent, ![g].caller_context = cur]
  /\ heard' = [kind |-> IF flag THEN "throw" ELSE "send", word |-> arg]

\* The first half of _ejs_generator_start: the body takes neither value nor exception.
Begin(g, arg, flag) ==
  /\ gens' = [gens EXCEPT ![g].throwing = flag, ![g].sent_value = arg,
                          ![g].yielded_value = Silent, ![g].caller_context = cur]
  /\ heard' = Silent

SwitchTo(g, arg, flag, kind) ==
  \/ /\ ~CanResume(g)
     /\ fate' = "lost"
     /\ UNCHANGED <<gens, frames, cur, generators, heard, said>>
  \/ /\ CanResume(g)
     /\ \/ gens[g].context = "start" /\ Begin(g, arg, flag)
        \/ gens[g].context = "yield" /\ Awake(g, arg, flag)
     /\ _ejs_gc_push_generator(g)
     /\ frames' = [frames EXCEPT ![g] = "running"]
     /\ cur' = g
     /\ said' = [kind |-> kind, word |-> arg]
     /\ UNCHANGED fate

_ejs_generator_send(g, arg) == SwitchTo(g, arg, gens[g].throwing, "send")
_ejs_generator_throw(g, arg) == SwitchTo(g, arg, TRUE, "throw")

\* The program's own calls.  The wrapped generator is its wrapper's alone.
MayCall(g) == /\ ProgramRuns /\ resumes < MaxResumes
              /\ frames[g] # "none" /\ wrapper.iterator # g
              /\ Misuse \/ CanResume(g)

_ejs_Generator_prototype_next(g, arg) ==
  /\ MayCall(g)
  /\ _ejs_generator_send(g, arg)
  /\ resumes' = resumes + 1
  /\ UNCHANGED wrapper

_ejs_Generator_prototype_throw(g, arg) ==
  /\ MayCall(g) /\ (Misuse \/ frames[g] = "suspended")
  /\ _ejs_generator_throw(g, arg)
  /\ resumes' = resumes + 1
  /\ UNCHANGED wrapper

Abort == /\ fate' = "aborted"
         /\ UNCHANGED <<gens, frames, cur, generators, heard, said, wrapper, resumes>>

\* .return is not implemented: it aborts.
_ejs_Generator_prototype_return(g) == MayCall(g) /\ Abort

----------------------------------------------------------------------------
(* Back to the caller: to the program, or to the wrapper's getNextValue, which *)
(* notes the end and hands the value to its user or to getRest.               *)

Took(r) ==
  wrapper' = [wrapper EXCEPT !.done = (r.kind = "done"),
    !.given = IF r.kind = "done" THEN @ ELSE Append(@, r.word),
    !.taken = IF wrapper.resting \/ r.kind = "done" THEN @ ELSE Append(@, r.word),
    !.rest = IF wrapper.resting /\ r.kind # "done" THEN Append(@, r.word) ELSE @]

SwitchBack(g, r) ==
  /\ cur' = gens[g].caller_context
  /\ heard' = r
  /\ IF wrapper.iterator = g THEN Took(r) ELSE UNCHANGED wrapper
  /\ UNCHANGED <<said, fate, resumes>>

_ejs_generator_yield(arg) ==
  LET g == cur IN
  /\ fate = "ok" /\ g \in Gens /\ resumes <= MaxResumes
  /\ gens' = [gens EXCEPT ![g].yielded_value = _ejs_create_iter_result(arg, FALSE),
                          ![g].sent_value = undefined, ![g].context = "yield"]
  /\ frames' = [frames EXCEPT ![g] = "suspended"]
  /\ _ejs_gc_pop_generator
  /\ SwitchBack(g, _ejs_create_iter_result(arg, FALSE))

\* The second half of _ejs_generator_start; uc_link leads to the last caller.
_ejs_generator_start ==
  LET g == cur IN
  /\ fate = "ok" /\ g \in Gens
  /\ gens' = [gens EXCEPT ![g].yielded_value = TheEnd]
  /\ frames' = [frames EXCEPT ![g] = "over"]
  /\ _ejs_gc_pop_generator
  /\ SwitchBack(g, TheEnd)

\* An exception that leaves the body finds no handler on the generator's stack.
Uncaught == fate = "ok" /\ cur \in Gens /\ Abort

----------------------------------------------------------------------------
(* The iterator wrapper, private to the code the compiler makes for one       *)
(* destructuring, here of the main program.                                   *)

_ejs_iterator_wrapper_new(it) ==
  /\ ProgramRuns /\ cur = Main /\ wrapper.iterator = Nil
  /\ it \in Gens => CanResume(it)
  /\ wrapper' = [wrapper EXCEPT !.iterator = it]
  /\ UNCHANGED <<gens, frames, cur, generators, heard, said, fate, resumes>>

\* Another object's next: the end, a next that throws or gives no object, or a
\* value that cannot be read; a value; a done that cannot be read, which throws
\* out of the wrapper and so out of the destructuring, the only user it has.
OtherNext ==
  /\ UNCHANGED <<gens, frames, cur, generators, heard, said, fate>>
  /\ \/ Took(TheEnd)
     \/ \E v \in Values : resumes < MaxResumes /\ Took(_ejs_create_iter_result(v, FALSE))
     \/ wrapper' = NoWrapper

\* Fault: the end of the iteration is forgotten.
NoLatch == /\ resumes' = resumes + 1
           /\ \/ wrapper.iterator = Other /\ OtherNext
              \/ /\ wrapper.iterator \in Gens
                 /\ _ejs_generator_send(wrapper.iterator, undefined)
                 /\ UNCHANGED wrapper

getNextValue ==
  /\ resumes' = resumes + 1
  /\ \/ wrapper.done /\ UNCHANGED <<gens, frames, cur, generators, heard, said, wrapper, fate>>
     \/ ~wrapper.done /\ wrapper.iterator = Other /\ OtherNext
     \/ /\ ~wrapper.done /\ wrapper.iterator \in Gens
        /\ _ejs_generator_send(wrapper.iterator, undefined)
        /\ UNCHANGED wrapper

_ejs_IteratorWrapper_prototype_getNextValue ==
  /\ ProgramRuns /\ cur = Main /\ wrapper.iterator # Nil /\ resumes < MaxResumes
  /\ getNextValue

\* getRest: the call, one round of its loop, the return.
Resting(b) == /\ wrapper' = [wrapper EXCEPT !.resting = b]
              /\ UNCHANGED <<gens, frames, cur, generators, heard, said, fate, resumes>>

_ejs_IteratorWrapper_prototype_getRest ==
  /\ fate = "ok" /\ cur = Main /\ wrapper.iterator # Nil
  /\ \/ ~wrapper.resting /\ wrapper.rest = <<>> /\ resumes < MaxResumes /\ Resting(TRUE)
     \/ wrapper.resting /\ ~wrapper.done /\ getNextValue
     \/ wrapper.resting /\ wrapper.done /\ Resting(FALSE)

GenNext ==
  \/ \E g \in Gens : \/ _ejs_generator_new(g)
                     \/ _ejs_Generator_prototype_return(g)
                     \/ \E v \in Words : \/ _ejs_Generator_prototype_next(g, v)
                                         \/ _ejs_Generator_prototype_throw(g, v)
  \/ \E v \in Words : _ejs_generator_yield(v)
  \/ _ejs_generator_start
  \/ Uncaught
  \/ \E it \in Gens \cup {Other} : _ejs_iterator_wrapper_new(it)
  \/ _ejs_IteratorWrapper_prototype_getNextValue
  \/ _ejs_IteratorWrapper_prototype_getRest

GenSpec == GenInit /\ [][GenNext]_gvars

----------------------------------------------------------------------------
Message(kinds) == [kind : kinds, word : Words]

\* Type correctness of the generators, of the array the collector keeps of them
\* and of the wrapper: a generator with a context to resume has been made, and
\* its exception flag is raised only between a throw and the yield it wakes.
GenTypeOK ==
  /\ gens \in [Gens -> [context : {"none", "start", "yield"}, caller_context : Gens \cup {Main},
                        yielded_value : Message({"nothing", "yielded", "done"}),
                        sent_value : Words, throwing : BOOLEAN]]
  /\ frames \in [Gens -> {"none", "fresh", "suspended", "running", "over"}]
  /\ cur \in Gens \cup {Main} /\ generators \in Seq(Gens)
  /\ heard \in Message({"nothing", "send", "throw", "yielded", "done"})
  /\ wrapper.iterator \in Gens \cup {Other, Nil}
  /\ fate \in {"ok", "aborted", "lost"} /\ resumes \in Nat
  /\ \A g \in Gens : /\ (frames[g] = "none") = (gens[g].context = "none")
                     /\ gens[g].throwing => Misuse

\* The collector's array is the chain of callers: from the running generator
\* back through the saved caller contexts to the main stack, every generator
\* once, so nesting alone can fill the array and a switch back always arrives
\* where the generator was called.
GeneratorStack ==
  fate # "lost" =>
    LET n == Len(generators)
        At(i) == IF i = 0 THEN Main ELSE generators[i] IN
    /\ cur = At(n)
    /\ \A i \in 1 .. n : gens[generators[i]].caller_context = At(i - 1)
    /\ \A g \in Gens : (frames[g] = "running") = (\E i \in 1 .. n : generators[i] = g)
    /\ \A i, j \in 1 .. n : generators[i] = generators[j] => i = j

\* A program that itself resumes neither a running nor a finished generator is
\* never sent into frames that are gone: the wrapper's done flag keeps getRest
\* and later destructuring elements from asking a generator after its end.
NeverLost == ~Misuse => fate # "lost"

\* The wrapper's user gets what the iterator gave, all of it and in order: first
\* element by element, then the rest without the value that came with the end.
WrapperExact == wrapper.taken \o wrapper.rest = wrapper.given

Abstract == INSTANCE Coroutine WITH
  Routines <- Gens, stack <- <<Main>> \o generators, status <- frames

\* Generators on two user contexts and four fields implement coroutines: every
\* next, throw, yield and end reaches the other side it was meant for, with the
\* value that was sent or yielded, and as an exception only after a throw.
ImplementsCoroutines == Abstract!Spec

\* Generators and their bookkeeping agree at every switch: the collector's array is
\* the chain of callers, no context is resumed whose frames are gone, and
\* destructuring hands on what the iterator gave.
GeneratorsExact == GenTypeOK /\ GeneratorStack /\ NeverLost /\ WrapperExact
=============================================================================
