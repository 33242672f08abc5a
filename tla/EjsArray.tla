------------------------------ MODULE EjsArray ------------------------------
(***************************************************************************)
(* Arrays of runtime/ejs-array.c and the methods of Array.prototype: on    *)
(* dense arrays with their fast paths, and on array-likes (plain objects   *)
(* with a length) through the generic algorithms.                          *)
(*                                                                         *)
(* An array is [kind, len, alloc, el].  el[i] is a value, Hole (an absent  *)
(* property of a plain object too), or Garbage if the slot has not been    *)
(* written since malloc.  The program works on one array; while a method   *)
(* is in a callback of the program, it may change that array.              *)
(***************************************************************************)
EXTENDS Integers, Sequences, SequencesExt, FiniteSets

CONSTANTS
    Val,       \* values, numbers that are compared by <
    undefined, true, false,
    Hole,      \* the magic value EJS_ARRAY_HOLE
    Garbage,   \* what malloc returns
    Nil,
    Slack,     \* array_new allocates numElements + 5
    GrowBy,    \* maybe_realloc_dense allocates high_index + 32
    SPARSE_ARRAY_CUTOFF,
    Args,      \* the argument lists of push, unshift and splice
    Relative,  \* the numbers given as start, end and deleteCount
    MaxLen,    \* bound on lengths and indices
    MaxCalls   \* bound on the calls of the program

ASSUME GrowthAssumption == Slack \in Nat /\ GrowBy \in Nat \ {0} /\ MaxLen \in Nat /\ SPARSE_ARRAY_CUTOFF \in Nat

\* The magic values are none of the program's.
ASSUME ValueAssumption ==
    /\ Garbage \notin Val \union {undefined, true, false, Hole, Nil, 0}
    /\ Hole \notin Val \union {undefined, Nil}
    /\ Val \subseteq Int

Element == Val \union {undefined, Hole, 0}

\* Nil is no method: neither is it what keeps track of a sort without comparefn.
ASSUME NilAssumption ==
    Nil \notin [op : {"sort"}, user : BOOLEAN, todo : Seq(Nat \X Nat), low : Nat, high : Nat, i : Nat,
                storeIndex : Nat, pivot : Element,
                before : UNION {[0 .. n - 1 -> Element] : n \in 0 .. MaxLen}]

\* The programs of the instance write no longer list than the bound on lengths.
ASSUME ArgumentAssumption ==
    Relative \subseteq Int /\ \A items \in Args : items \in Seq(Val) /\ Len(items) <= MaxLen

VARIABLES
    arr,     \* the array
    call,    \* the method that is in a callback, or Nil
    calls,   \* the number of calls so far
    aborted  \* the process has called abort()

vars == <<arr, call, calls, aborted>>

Slots == 0 .. MaxLen + GrowBy + Slack
Up(i, j) == [n \in 1 .. Max({j - i, 0}) |-> i + n - 1]      \* i, i+1, ..., j-1
Down(i, j) == [n \in 1 .. Max({i - j, 0}) |-> i - n + 1]    \* i, i-1, ..., j+1

-----------------------------------------------------------------------------
(* Internal methods.                                                       *)

\* An array of n elements, filled with holes or not at all.
_ejs_array_new(n, fill) ==
    [kind |-> IF n > SPARSE_ARRAY_CUTOFF THEN "sparse" ELSE "dense", len |-> n,
     alloc |-> n + Slack,
     el |-> [i \in Slots |-> IF fill /\ i < n /\ n <= SPARSE_ARRAY_CUTOFF THEN Hole ELSE Garbage]]

maybe_realloc_dense(a, high) ==
    IF high < a.alloc THEN a
    ELSE [a EXCEPT !.alloc = high + GrowBy,
                   !.el = [i \in Slots |-> IF i < a.len THEN a.el[i] ELSE Garbage]]

\* The elements of a sparse array are not stored; reading them gives anything.
_ejs_array_specop_has_property(a, i) ==
    CASE a.kind = "plain" -> a.el[i] # Hole
      [] OTHER -> i < a.len /\ a.el[i] # Hole

_ejs_array_specop_get(a, i) ==
    IF _ejs_array_specop_has_property(a, i) THEN a.el[i] ELSE undefined

\* Fault: the slots between the old end and i are left as they are.
NoHoles(a, i, v) ==
    LET r == maybe_realloc_dense(a, i)
    IN  [r EXCEPT !.el[i] = v, !.len = Max({a.len, i + 1})]

\* Also _ejs_array_specop_define_own_property of an index.
_ejs_array_specop_set(a, i, v) ==
    LET r == maybe_realloc_dense(a, i)
    IN  CASE a.kind = "plain" -> [a EXCEPT !.el[i] = v]
          [] OTHER -> [r EXCEPT !.el = [j \in Slots |-> IF j = i THEN v
                                                      ELSE IF a.len <= j /\ j < i THEN Hole ELSE @[j]],
                                !.len = Max({a.len, i + 1})]

\* Put(O, "length", n); also [[DefineOwnProperty]] of length.
SetLength(a, n) ==
    LET r == IF n > a.alloc THEN maybe_realloc_dense(a, n) ELSE a
    IN  CASE a.kind = "plain" -> [a EXCEPT !.len = n]
          [] OTHER -> [r EXCEPT !.el = [j \in Slots |-> IF a.len <= j /\ j < n THEN Hole ELSE @[j]],
                                !.len = n]

_ejs_array_specop_delete(a, i) ==
    IF a.kind = "plain" \/ i < a.len THEN [a EXCEPT !.el[i] = Hole] ELSE a

Put(a, i, v) == _ejs_array_specop_set(a, i, v)
HasProperty(a, i) == _ejs_array_specop_has_property(a, i)
Get(a, i) == _ejs_array_specop_get(a, i)
DeletePropertyOrThrow(a, i) == _ejs_array_specop_delete(a, i)

Move(a, from, to) == IF HasProperty(a, from) THEN Put(a, to, Get(a, from))
                     ELSE DeletePropertyOrThrow(a, to)

\* Loops: vs[n] is put at ks[n], from[n] moved to to[n], ks[n] deleted, for n = 1, 2, ...
Puts(a, ks, vs) ==
    LET run[n \in 0 .. Len(ks)] == IF n = 0 THEN a ELSE Put(run[n - 1], ks[n], vs[n]) IN run[Len(ks)]
Moves(a, from, to) ==
    LET run[n \in 0 .. Len(from)] == IF n = 0 THEN a ELSE Move(run[n - 1], from[n], to[n]) IN run[Len(from)]
Deletes(a, ks) ==
    LET run[n \in 0 .. Len(ks)] == IF n = 0 THEN a ELSE DeletePropertyOrThrow(run[n - 1], ks[n]) IN run[Len(ks)]

PutAll(a, i, items) == Puts(a, Up(i, i + Len(items)), items)

\* IsConstructor(C) and C # Array is the program's code; it is left out.
ArraySpeciesCreate(length) == _ejs_array_new(length, FALSE)

-----------------------------------------------------------------------------
(* Methods that do not call the program: the array after them, and what    *)
(* they return.                                                            *)

Returns(a, v) == [arr |-> a, value |-> v]

Generic_push(a, items) ==
    Returns(SetLength(PutAll(a, a.len, items), a.len + Len(items)), a.len + Len(items))

_ejs_array_push_dense(a, items) ==
    LET r == maybe_realloc_dense(a, a.len + Len(items))
    IN  Returns([r EXCEPT !.len = a.len + Len(items),
                          !.el = [i \in Slots |-> IF a.len <= i /\ i < a.len + Len(items)
                                                  THEN items[i - a.len + 1] ELSE @[i]]],
                a.len + Len(items))

_ejs_Array_prototype_push(a, items) ==
    IF a.kind = "dense" THEN _ejs_array_push_dense(a, items) ELSE Generic_push(a, items)

Generic_pop(a) ==
    IF a.len = 0 THEN Returns(SetLength(a, 0), undefined)
    ELSE Returns(SetLength(DeletePropertyOrThrow(a, a.len - 1), a.len - 1), Get(a, a.len - 1))

\* The last element is returned as it is, also if it is a hole.
_ejs_array_pop_dense(a) ==
    IF a.len = 0 THEN Returns(a, undefined)
    ELSE Returns([a EXCEPT !.len = @ - 1], a.el[a.len - 1])

_ejs_Array_prototype_pop(a) == IF a.kind = "dense" THEN _ejs_array_pop_dense(a) ELSE Generic_pop(a)

Generic_shift(a) ==
    LET moved == Moves(a, Up(1, a.len), Up(0, a.len - 1))
    IN  IF a.len = 0 THEN Returns(SetLength(a, 0), undefined)
        ELSE Returns(SetLength(DeletePropertyOrThrow(moved, a.len - 1), a.len - 1), Get(a, 0))

\* The fast path is one memmove.
_ejs_Array_prototype_shift(a) ==
    IF a.kind # "dense" THEN Generic_shift(a)
    ELSE IF a.len = 0 THEN Returns(a, undefined)
    ELSE Returns([a EXCEPT !.len = @ - 1,
                           !.el = [i \in Slots |-> IF i < a.len - 1 THEN @[i + 1] ELSE @[i]]],
                 a.el[0])

Generic_unshift(a, items) ==
    LET n == Len(items)
        moved == Moves(a, Down(a.len - 1, -1), Down(a.len + n - 1, n - 1))
    IN  Returns(SetLength(IF n = 0 THEN a ELSE PutAll(moved, 0, items), a.len + n), a.len + n)

_ejs_Array_prototype_unshift(a, items) ==
    LET n == Len(items)
        r == maybe_realloc_dense(a, a.len + n)
    IN  IF a.kind # "dense" THEN Generic_unshift(a, items)
        ELSE Returns([r EXCEPT !.len = a.len + n,
                               !.el = [i \in Slots |-> IF i < n THEN items[i + 1]
                                                       ELSE IF i < a.len + n THEN r.el[i - n] ELSE r.el[i]]],
                     a.len + n)

\* start, end: a number or undefined.
Clamp(len, r) == IF r < 0 THEN Max({len + r, 0}) ELSE Min({r, len})
ClampEnd(len, r) == IF r = undefined THEN len ELSE Clamp(len, r)

_ejs_Array_prototype_fill(a, v, start, end) ==
    LET ks == Up(Clamp(a.len, start), ClampEnd(a.len, end))
    IN  Returns(Puts(a, ks, [n \in DOMAIN ks |-> v]), a)

\* The elements lower and upper change places, also if one of them is not there.
Swap(a, lower, upper) ==
    LET x == Get(a, lower)
        y == Get(a, upper)
    IN  CASE HasProperty(a, lower) /\ HasProperty(a, upper) -> Put(Put(a, lower, y), upper, x)
          [] ~HasProperty(a, lower) /\ HasProperty(a, upper) -> DeletePropertyOrThrow(Put(a, lower, y), upper)
          [] HasProperty(a, lower) /\ ~HasProperty(a, upper) -> Put(DeletePropertyOrThrow(a, lower), upper, x)
          [] OTHER -> a

_ejs_Array_prototype_reverse(a) ==
    LET run[n \in 0 .. a.len \div 2] == IF n = 0 THEN a ELSE Swap(run[n - 1], n - 1, a.len - n)
    IN  Returns(run[a.len \div 2], a)

\* Copies the elements of a that ks names to the front of A.
Gathered(A, a, ks) ==
    FoldLeft(LAMBDA B, n : IF HasProperty(a, ks[n]) THEN Put(B, n - 1, Get(a, ks[n])) ELSE B,
             A, Up(1, Len(ks) + 1))

Generic_slice(a, start, end) ==
    LET k == Clamp(a.len, start)
        final == ClampEnd(a.len, end)
        count == Max({final - k, 0})
    IN  SetLength(Gathered(ArraySpeciesCreate(count), a, Up(k, final)), count)

\* Numbers below 0 are not counted from the end, and end may lie before begin.
\* What is copied from outside the array is not known.
_ejs_array_slice_dense(a, start, end) ==
    LET begin == Min({start, a.len})
        final == IF end = undefined THEN a.len ELSE Min({end, a.len})
    IN  [ArraySpeciesCreate(final - begin) EXCEPT
            !.el = [i \in Slots |-> IF i < final - begin /\ begin + i \in Slots
                                    THEN a.el[begin + i] ELSE Garbage]]

_ejs_Array_prototype_slice(a, start, end) ==
    IF a.kind = "dense" THEN _ejs_array_slice_dense(a, start, end) ELSE Generic_slice(a, start, end)

\* args: start, deleteCount and items, or the first of them.
ActualStart(a, args) == IF args = <<>> THEN 0 ELSE Clamp(a.len, args[1])
ActualDeleteCount(a, args) ==
    CASE Len(args) = 0 -> 0
      [] Len(args) = 1 -> a.len - ActualStart(a, args)
      [] OTHER -> Min({Max({args[2], 0}), a.len - ActualStart(a, args)})

\* Fault: elements are moved up from the front, over those that are still to move.
MoveUpFirst(a, start, del, n) ==
    Moves(a, Up(start + del, a.len), Up(start + n, a.len - del + n))

\* Steps 20 and 21: the elements behind the deleted ones go down or up.
CloseGap(a, start, del, n) ==
    IF n < del
    THEN LET moved == Moves(a, Up(start + del, a.len), Up(start + n, a.len - del + n))
         IN  Deletes(moved, Down(a.len - 1, a.len - del + n - 1))
    ELSE Moves(a, Down(a.len - 1, start + del - 1), Down(a.len - del + n - 1, start + n - 1))

_ejs_Array_prototype_splice(a, args) ==
    LET start == ActualStart(a, args)
        del == ActualDeleteCount(a, args)
        items == SubSeq(args, 3, Len(args))
        A == SetLength(Gathered(ArraySpeciesCreate(del), a, Up(start, start + del)), del)
        O == PutAll(CloseGap(a, start, del, Len(items)), start, items)
    IN  Returns(SetLength(O, a.len - del + Len(items)), A)

\* The indices copyWithin reads and writes.  "to" is added to itself on the way,
\* and a count below 0 is a large uint32_t.
CopyPlan(len, target, start, end) ==
    LET to == Clamp(len, target)
        from == Clamp(len, start)
        count == Min({ClampEnd(len, end) - from, len - to})
        back == from < to /\ to < from + count
        dir == IF back THEN -1 ELSE 1
        at[i \in 0 .. count] == IF i = 0 THEN (IF back THEN to + count - 1 ELSE to)
                         ELSE at[i - 1] + at[i - 1] + dir
    IN  [count |-> count,
         from |-> [i \in 1 .. count |-> (IF back THEN from + count - 1 ELSE from) + dir * (i - 1)],
         to |-> [i \in 1 .. count |-> at[i - 1]]]

_ejs_Array_prototype_copyWithin(a, target, start, end) ==
    LET p == CopyPlan(a.len, target, start, end)
    IN  Moves(a, p.from, p.to)

\* a, array b and value v one after the other; a plain object is not spread but
\* becomes an element itself (Nil here).
_ejs_Array_prototype_concat(a, b, v) ==
    LET Add(r, E) == IF E.kind = "plain" THEN [A |-> Put(r.A, r.n, Nil), n |-> r.n + 1]
                     ELSE [A |-> FoldLeft(LAMBDA B, k : IF HasProperty(E, k) THEN Put(B, r.n + k, Get(E, k)) ELSE B,
                                          r.A, Up(0, E.len)),
                           n |-> r.n + E.len]
        last == FoldLeft(Add, [A |-> ArraySpeciesCreate(0), n |-> 0], <<a, b>>)
    IN  SetLength(Put(last.A, last.n, v), last.n + 1)

_ejs_Array_prototype_indexOf(a, v, fromIndex) ==
    LET n == IF fromIndex = undefined THEN 0 ELSE fromIndex
        k == IF n >= 0 THEN n ELSE Max({a.len + n, 0})
        at == {i \in k .. a.len - 1 : HasProperty(a, i) /\ Get(a, i) = v}
    IN  IF a.len = 0 \/ n >= a.len \/ at = {} THEN -1 ELSE Min(at)

_ejs_Array_prototype_lastIndexOf(a, v, fromIndex) ==
    LET n == IF fromIndex = undefined THEN a.len - 1 ELSE fromIndex
        k == IF n >= 0 THEN Min({n, a.len - 1}) ELSE a.len + n
        at == {i \in 0 .. k : HasProperty(a, i) /\ Get(a, i) = v}
    IN  IF a.len = 0 \/ at = {} THEN -1 ELSE Max(at)

\* The spread operator copies dense arrays slot by slot, holes too.
_ejs_array_from_iterables(a) ==
    _ejs_array_push_dense(_ejs_array_new(0, FALSE), [i \in 1 .. a.len |-> a.el[i - 1]]).arr

\* Array.of, and Array called with anything but one number.
_ejs_Array_of(items) ==
    SetLength(PutAll(_ejs_array_new(Len(items), FALSE), 0, items), Len(items))
_ejs_array_new_copy(items) == _ejs_array_push_dense(_ejs_array_new(0, FALSE), items).arr

\* Array(n), and new Array(n): its memory is zeroed, which is the number 0.
_ejs_Array_impl(n, isNew) ==
    IF ~isNew THEN _ejs_array_new(n, TRUE)
    ELSE [_ejs_array_new(n, FALSE) EXCEPT
            !.alloc = n, !.el = [i \in Slots |-> IF i < n /\ n <= SPARSE_ARRAY_CUTOFF THEN 0 ELSE Garbage]]

-----------------------------------------------------------------------------
(* Methods that call the program for every element.  The code between two  *)
(* callbacks is one step.  c is the frame of the method:                   *)
(*   k  the index the callback is called for   A    the array it builds    *)
(*   len the length read at the start          to   the next free index of A *)
(*   acc the accumulator of reduce; for filter, the value that is tested    *)

Methods == {"every", "some", "filter", "find", "findIndex", "forEach", "map",
            "reduce", "reduceRight", "from"}

\* find, findIndex and Array.from also take elements that are not there.
Present(op, a, i) == op \in {"find", "findIndex", "from"} \/ HasProperty(a, i)

\* forEach of a dense array, and the iterator under Array.from, read the length again.
Limit(c, a) == IF c.op \in {"forEach", "from"} /\ a.kind = "dense" THEN a.len ELSE c.len

\* Fault: every method reads the length again.
NextLive(c, a, k) ==
    LET ahead == IF c.op = "reduceRight" THEN {i \in 0 .. k : HasProperty(a, i)}
                 ELSE {i \in k .. a.len - 1 : Present(c.op, a, i)}
    IN  IF ahead = {} THEN Nil ELSE IF c.op = "reduceRight" THEN Max(ahead) ELSE Min(ahead)

\* The first index from k on that the callback is called for, or Nil.
NextIndex(c, a, k) ==
    LET ahead == IF c.op = "reduceRight" THEN {i \in 0 .. k : HasProperty(a, i)}
                 ELSE {i \in k .. Limit(c, a) - 1 : Present(c.op, a, i)}
    IN  IF ahead = {} THEN Nil ELSE IF c.op = "reduceRight" THEN Max(ahead) ELSE Min(ahead)

Frame(op, a) ==
    [op |-> op, k |-> 0, len |-> a.len, to |-> 0, acc |-> Nil,
     A |-> CASE op = "filter" -> ArraySpeciesCreate(0)
             [] op = "map" -> ArraySpeciesCreate(a.len)
             [] op = "from" -> IF a.kind = "dense" THEN _ejs_array_new(0, FALSE)
                               ELSE _ejs_array_new(a.len, FALSE)
             [] OTHER -> Nil]

\* The callback is called for the next index, or the method returns.
Resume(c, a, k) ==
    LET next == NextIndex(c, a, k)
    IN  call' = IF next = Nil THEN Nil
                ELSE [c EXCEPT !.k = next, !.acc = IF c.op = "filter" THEN Get(a, next) ELSE @]

Runs == ~aborted /\ calls < MaxCalls
Idle == Runs /\ call = Nil
Calls == calls' = calls + 1

_ejs_Array_prototype_every == Idle /\ Calls /\ Resume(Frame("every", arr), arr, 0) /\ UNCHANGED <<arr, aborted>>
_ejs_Array_prototype_some == Idle /\ Calls /\ Resume(Frame("some", arr), arr, 0) /\ UNCHANGED <<arr, aborted>>
_ejs_Array_prototype_filter == Idle /\ Calls /\ Resume(Frame("filter", arr), arr, 0) /\ UNCHANGED <<arr, aborted>>
_ejs_Array_prototype_find == Idle /\ Calls /\ Resume(Frame("find", arr), arr, 0) /\ UNCHANGED <<arr, aborted>>
_ejs_Array_prototype_findIndex == Idle /\ Calls /\ Resume(Frame("findIndex", arr), arr, 0) /\ UNCHANGED <<arr, aborted>>
_ejs_Array_prototype_forEach == Idle /\ Calls /\ Resume(Frame("forEach", arr), arr, 0) /\ UNCHANGED <<arr, aborted>>
_ejs_Array_prototype_map == Idle /\ Calls /\ Resume(Frame("map", arr), arr, 0) /\ UNCHANGED <<arr, aborted>>

\* With an iterator (dense) or a length (plain), and a mapfn.
_ejs_Array_from == Idle /\ Calls /\ Resume(Frame("from", arr), arr, 0) /\ UNCHANGED <<arr, aborted>>

\* initial: the initial value, or Nil: then the first element, or a TypeError.
_ejs_Array_prototype_reduce(initial) ==
    LET c == Frame("reduce", arr)
        first == NextIndex(c, arr, 0)
    IN  /\ Idle /\ Calls
        /\ IF initial # Nil THEN Resume([c EXCEPT !.acc = initial], arr, 0)
           ELSE IF first = Nil THEN call' = Nil
           ELSE Resume([c EXCEPT !.acc = Get(arr, first)], arr, first + 1)
        /\ UNCHANGED <<arr, aborted>>

\* Without an initial value it throws in any case.
_ejs_Array_prototype_reduceRight(initial) ==
    LET c == Frame("reduceRight", arr)
    IN  /\ Idle /\ Calls
        /\ IF initial # Nil THEN Resume([c EXCEPT !.acc = initial], arr, arr.len - 1)
           ELSE call' = Nil
        /\ UNCHANGED <<arr, aborted>>

\* every asks for the boolean false, the others for ToBoolean.
Truthy(r) == r \notin {false, undefined}
Stops(op, r) == \/ op = "every" /\ r = false
                \/ op \in {"some", "find", "findIndex"} /\ Truthy(r)

\* What a method does with the result r of its callback.
AfterCallback(c, r) ==
    CASE c.op = "filter" /\ Truthy(r) -> [c EXCEPT !.A = Put(c.A, c.to, c.acc), !.to = @ + 1]
      [] c.op = "map" -> [c EXCEPT !.A = Put(c.A, c.k, r)]
      [] c.op = "from" -> [c EXCEPT !.A = Put(c.A, c.k, r)]
      [] c.op \in {"reduce", "reduceRight"} -> [c EXCEPT !.acc = r]
      [] OTHER -> c

\* The callback of c returns r.
CallbackReturns(r) ==
    /\ ~aborted /\ call # Nil /\ call.op \in Methods
    /\ IF Stops(call.op, r) THEN call' = Nil
       ELSE Resume(AfterCallback(call, r), arr, IF call.op = "reduceRight" THEN call.k - 1 ELSE call.k + 1)
    /\ UNCHANGED <<arr, calls, aborted>>

\* The program runs: outside of all methods, or in a callback.  sort calls none
\* without a comparefn, or if one of the two values is undefined.
InCallback ==
    /\ call # Nil
    /\ call.op = "sort" => call.user /\ call.pivot # undefined /\ arr.el[call.i] # undefined

\* An exception leaves the method; Array.from closes its iterator.
CallbackThrows ==
    /\ ~aborted /\ InCallback
    /\ call' = Nil
    /\ UNCHANGED <<arr, calls, aborted>>

-----------------------------------------------------------------------------
(* Array.prototype.sort of a dense array: quicksort in place, comparing    *)
(* with a function of the program or as strings.  todo holds the ranges    *)
(* the recursion has still to sort.                                        *)

swap_dense(a, x, y) == [a EXCEPT !.el[x] = a.el[y], !.el[y] = a.el[x]]

\* A hole is the empty string.
AsString(v) == IF v = Hole THEN -1 ELSE v

\* What SortCompare may return: one number, or any if the program is asked.
SortCompare(user, x, y) ==
    CASE x = undefined /\ y = undefined -> {0}
      [] x = undefined /\ y # undefined -> {1}
      [] x # undefined /\ y = undefined -> {-1}
      [] OTHER -> IF user THEN {-1, 0, 1}
                  ELSE IF AsString(x) < AsString(y) THEN {-1}
                  ELSE IF AsString(x) > AsString(y) THEN {1} ELSE {0}

\* partition: the pivot goes to the end of the first range there is to sort.
StartPartition(c, a, todo) ==
    LET low == Head(todo)[1]
        high == Head(todo)[2]
        pivotIndex == low + (high - low) \div 2
    IN  IF todo = <<>> THEN call' = Nil /\ arr' = a
        ELSE /\ call' = [c EXCEPT !.todo = Tail(todo), !.low = low, !.high = high, !.i = low,
                                  !.storeIndex = low, !.pivot = a.el[pivotIndex]]
             /\ arr' = swap_dense(a, pivotIndex, high)

\* The ranges of _ejs_array_quicksort_dense with more than one element.
Halves(low, p, high) == (IF low < p - 1 THEN << <<low, p - 1>> >> ELSE <<>>)
                        \o (IF p + 1 < high THEN << <<p + 1, high>> >> ELSE <<>>)

_ejs_Array_prototype_sort(user) ==
    /\ Idle /\ arr.kind = "dense" /\ Calls
    /\ StartPartition([op |-> "sort", user |-> user, todo |-> <<>>, low |-> 0, high |-> 0, i |-> 0,
                       storeIndex |-> 0, pivot |-> Nil,
                       before |-> IF user THEN Nil ELSE [i \in 0 .. arr.len - 1 |-> arr.el[i]]],
                      arr, IF arr.len > 1 THEN << <<0, arr.len - 1>> >> ELSE <<>>)
    /\ UNCHANGED aborted

\* For other objects it is not implemented.
_ejs_Array_prototype_sort_generic ==
    /\ Idle /\ arr.kind # "dense" /\ Calls
    /\ aborted' = TRUE /\ UNCHANGED <<arr, call>>

\* The comparison of element i with the pivot gives cmp; what is not greater goes
\* to the front.  Indices are those of the start, the elements those of now.
SortStep(cmp) ==
    /\ ~aborted /\ call # Nil /\ call.op = "sort"
    /\ cmp \in SortCompare(call.user, arr.el[call.i], call.pivot)
    /\ LET a == IF cmp < 1 THEN swap_dense(arr, call.i, call.storeIndex) ELSE arr
           p == IF cmp < 1 THEN call.storeIndex + 1 ELSE call.storeIndex
       IN  IF call.i + 1 < call.high
           THEN arr' = a /\ call' = [call EXCEPT !.i = @ + 1, !.storeIndex = p]
           ELSE StartPartition(call, swap_dense(a, p, call.high),
                               Halves(call.low, p, call.high) \o call.todo)
    /\ UNCHANGED <<calls, aborted>>

-----------------------------------------------------------------------------
(* The program changes the array, also from within a callback.             *)

Change(r) ==
    /\ Runs /\ (call = Nil \/ InCallback)
    /\ r.len <= MaxLen
    /\ arr' = r /\ Calls /\ UNCHANGED <<call, aborted>>

Dense == arr.kind # "sparse"

Set(i, v) == Dense /\ Change(Put(arr, i, v))
Delete(i) == Dense /\ Change(DeletePropertyOrThrow(arr, i))
Length(n) == Dense /\ Change(SetLength(arr, n))
Push(items) == Dense /\ arr.len + Len(items) <= MaxLen /\ Change(_ejs_Array_prototype_push(arr, items).arr)
Pop == Dense /\ Change(_ejs_Array_prototype_pop(arr).arr)
Shift == Dense /\ Change(_ejs_Array_prototype_shift(arr).arr)
Unshift(items) == Dense /\ arr.len + Len(items) <= MaxLen /\ Change(_ejs_Array_prototype_unshift(arr, items).arr)
Splice(args) == Dense /\ arr.len + Len(args) <= MaxLen + 2 /\ Change(_ejs_Array_prototype_splice(arr, args).arr)
ReverseArray == Dense /\ Change(_ejs_Array_prototype_reverse(arr).arr)
Fill(v, start, end) == Dense /\ Change(_ejs_Array_prototype_fill(arr, v, start, end).arr)

\* With a count below 0 the loop does not end.
CopyWithin(target, start) ==
    LET p == CopyPlan(arr.len, target, start, undefined)
    IN  /\ Dense /\ p.count >= 0 /\ \A i \in DOMAIN p.to : p.to[i] < MaxLen
        /\ Change(_ejs_Array_prototype_copyWithin(arr, target, start, undefined))

\* A sparse array can be made, but not written.
SparseSet ==
    /\ Idle /\ ~Dense /\ Calls
    /\ aborted' = TRUE /\ UNCHANGED <<arr, call>>

\* The program goes on with another array: from Array(n), new Array(n), a literal or
\* call with elements, Array.of, spreading the array it has, or an object literal.
Fresh(a) == Idle /\ Calls /\ arr' = a /\ UNCHANGED <<call, aborted>>

Plain(items) ==
    [kind |-> "plain", len |-> Len(items), alloc |-> 0,
     el |-> [i \in Slots |-> IF i < Len(items) THEN items[i + 1] ELSE Hole]]

NewArray ==
    \/ \E n \in 0 .. MaxLen, isNew \in BOOLEAN : Fresh(_ejs_Array_impl(n, isNew))
    \/ \E items \in Args : \/ Fresh(_ejs_array_new_copy(items)) \/ Fresh(_ejs_Array_of(items))
                           \/ Fresh(Plain(items))
    \/ arr.kind = "dense" /\ Fresh(_ejs_array_from_iterables(arr))

\* The program starts with the array or object of a literal.
Init ==
    /\ \E items \in Args \union {<<>>} : arr \in {_ejs_array_new_copy(items), Plain(items)}
    /\ call = Nil /\ calls = 0 /\ aborted = FALSE

Mutate ==
    \/ \E i \in 0 .. MaxLen - 1 : \/ \E v \in Val \union {undefined} : Set(i, v)
                                  \/ Delete(i)
    \/ \E n \in 0 .. MaxLen : Length(n)
    \/ \E items \in Args : Push(items) \/ Unshift(items)
    \/ Pop \/ Shift \/ ReverseArray
    \/ \E start \in Relative :
          \/ \E del \in Relative, items \in Args : Splice(<<start, del>> \o items)
          \/ Splice(<<start>>)
          \/ \E v \in Val, end \in Relative \union {undefined} : Fill(v, start, end)
          \/ \E target \in Relative : CopyWithin(target, start)

Iterate ==
    \/ _ejs_Array_prototype_every \/ _ejs_Array_prototype_some \/ _ejs_Array_prototype_filter
    \/ _ejs_Array_prototype_find \/ _ejs_Array_prototype_findIndex
    \/ _ejs_Array_prototype_forEach \/ _ejs_Array_prototype_map \/ _ejs_Array_from
    \/ \E v \in Val \union {Nil} : _ejs_Array_prototype_reduce(v) \/ _ejs_Array_prototype_reduceRight(v)
    \/ \E r \in Val \union {true, false, undefined} : CallbackReturns(r)
    \/ CallbackThrows

Sort ==
    \/ \E user \in BOOLEAN : _ejs_Array_prototype_sort(user)
    \/ _ejs_Array_prototype_sort_generic
    \/ \E cmp \in {-1, 0, 1} : SortStep(cmp)

Next == NewArray \/ Mutate \/ SparseSet \/ Iterate \/ Sort

Spec == Init /\ [][Next]_vars

-----------------------------------------------------------------------------
(* Properties.                                                             *)

Contents(a) == [i \in 1 .. a.len |-> a.el[i - 1]]

\* The type invariant; a dense array never has more elements than slots, however it
\* was made, grown and cut.
TypeOK ==
    /\ arr.kind \in {"dense", "sparse", "plain"}
    /\ arr.len \in 0 .. MaxLen
    /\ arr.el \in [Slots -> Element \union {Garbage}]
    /\ arr.kind = "dense" => arr.len <= arr.alloc /\ arr.alloc - 1 \in Slots \union {-1}
    /\ aborted \in BOOLEAN

\* No element of the program's array, if it is dense, or of the array that filter is
\* building, is memory that nobody wrote: the collector scans them and the program may
\* read them at any time, after every sequence of growing, cutting and writing past
\* the end.  It does not hold of what map, Array.from of an array-like, splice and the
\* generic slice return: array_new gives those their length before their elements.
ArraysInitialised ==
    /\ arr.kind = "dense" => \A i \in 0 .. arr.len - 1 : arr.el[i] # Garbage
    /\ Dense /\ call # Nil /\ call.op = "filter" =>
          /\ call.A.len = call.to
          /\ \A i \in 0 .. call.to - 1 : call.A.el[i] \notin {Hole, Garbage}

\* comparefn may cut, grow or move the array that is being sorted: what the sort has
\* still to compare and swap stays within the allocation and has been written.
SortReadsInitialised ==
    call # Nil /\ call.op = "sort" =>
        /\ call.pivot # Garbage
        /\ \A r \in {<<call.low, call.high>>} \union Range(call.todo) :
              \A j \in r[1] .. r[2] : j < arr.alloc /\ arr.el[j] # Garbage

Count(f, v) == Cardinality({i \in DOMAIN f : f[i] = v})

\* A sort without comparefn keeps the elements it was given and leaves them in order,
\* holes first and undefined last.
SortDone ==
    call # Nil /\ call.op = "sort" /\ ~call.user /\ call' = Nil =>
          LET old == call.before
          IN  /\ \A v \in Element : Count(old, v) = Count([i \in DOMAIN old |-> arr'.el[i]], v)
              /\ \A i, j \in DOMAIN old : i < j =>
                    \/ arr'.el[j] = undefined
                    \/ arr'.el[i] # undefined /\ AsString(arr'.el[i]) <= AsString(arr'.el[j])

\* A callback is called once for an index, in the order of the indices, and, but for
\* forEach and Array.from of a dense array, for none that was not there when the method
\* was called, whatever the callbacks do to the array.
VisitsOnce ==
    call # Nil /\ call' # Nil /\ call.op \in Methods /\ calls' = calls =>
          /\ IF call.op = "reduceRight" THEN call'.k < call.k ELSE call'.k > call.k
          /\ call.op \notin {"forEach", "from"} => call'.k < call.len

\* pop and shift of the fast path may return the hole itself where the generic
\* algorithm reads undefined.
Agree(fast, generic) ==
    /\ Contents(fast.arr) = Contents(generic.arr)
    /\ fast.value = IF fast.value = Hole THEN Hole ELSE generic.value

\* push, unshift, pop and shift leave a dense array, on every array that a sequence of
\* calls leaves behind, as the generic algorithms would, and return the same but for a
\* hole; slice copies the same elements if 0 <= start <= end (the fast path does not
\* count negative numbers from the end).
FastPathsAgree ==
    arr.kind = "dense" =>
        /\ \A items \in Args : arr.len + Len(items) <= MaxLen =>
              /\ Agree(_ejs_Array_prototype_push(arr, items), Generic_push(arr, items))
              /\ Agree(_ejs_Array_prototype_unshift(arr, items), Generic_unshift(arr, items))
        /\ Agree(_ejs_Array_prototype_pop(arr), Generic_pop(arr))
        /\ Agree(_ejs_Array_prototype_shift(arr), Generic_shift(arr))
        /\ \A start, end \in Relative \union {arr.len} : 0 <= start /\ start <= end =>
              LET fast == _ejs_Array_prototype_slice(arr, start, end)
                  generic == Generic_slice(arr, start, end)
              IN  \/ Clamp(arr.len, start) > Clamp(arr.len, end)
                  \/ /\ fast.len = generic.len
                     /\ \A i \in 0 .. fast.len - 1 :
                           generic.el[i] = IF fast.el[i] = Hole THEN Garbage ELSE fast.el[i]

\* splice takes out the elements it was asked to, in order, puts the items in their
\* place and keeps what is in front and behind, holes too.
SpliceExact ==
    Dense => \A start, del \in Relative, items \in Args :
        LET args == <<start, del>> \o items
            s == ActualStart(arr, args)
            d == ActualDeleteCount(arr, args)
            r == _ejs_Array_prototype_splice(arr, args)
            old == Contents(arr)
        IN  arr.len + Len(items) <= MaxLen =>
              /\ Contents(r.arr) = SubSeq(old, 1, s) \o items \o SubSeq(old, s + d + 1, arr.len)
              /\ r.value.len = d
              /\ \A i \in 1 .. d : old[s + i] # Hole => r.value.el[i - 1] = old[s + i]

\* reverse, fill and concat give the sequences they are named for.
EditsExact ==
    Dense =>
        /\ Contents(_ejs_Array_prototype_reverse(arr).arr) = Reverse(Contents(arr))
        /\ \A v \in Val, start \in Relative, end \in Relative \union {undefined} :
              LET k == Clamp(arr.len, start)
                  final == ClampEnd(arr.len, end)
              IN  Contents(_ejs_Array_prototype_fill(arr, v, start, end).arr) =
                      [i \in 1 .. arr.len |-> IF k < i /\ i <= final THEN v ELSE Contents(arr)[i]]
        /\ \A v \in Val : arr.kind = "dense" /\ 2 * arr.len < MaxLen =>
              Contents(_ejs_Array_prototype_concat(arr, arr, v)) =
                  Contents(arr) \o Contents(arr) \o <<v>>

\* lastIndexOf finds in an array what indexOf finds in its mirror image, from any
\* index, counted from either end.
SearchMirrors ==
    Dense =>
        LET mirror == _ejs_Array_prototype_reverse(arr).arr
            From(n) == IF n = undefined THEN undefined
                       ELSE IF n < 0 THEN -n - 1 ELSE Max({arr.len - 1 - n, 0})
        IN  \A v \in Val, n \in Relative \union {undefined} :
               LET i == _ejs_Array_prototype_indexOf(mirror, v, From(n))
               IN  _ejs_Array_prototype_lastIndexOf(arr, v, n) = IF i = -1 THEN -1 ELSE arr.len - 1 - i

\* The program's array, the one that filter builds and the ranges that a sort has still
\* to go over hold no slot that nobody has written or that is not allocated, whatever
\* callbacks and comparefn do to the array between two steps.  The arrays that map,
\* Array.from, splice and the generic slice fill in are not meant: they have such slots.
ElementsInitialised == TypeOK /\ ArraysInitialised /\ SortReadsInitialised

\* On every array that calls leave behind: the fast paths of push, unshift, pop, shift
\* and of slice within the array agree with the generic ones (but for a hole that is
\* returned), splice, reverse, fill and concat give the sequences, and indexOf and
\* lastIndexOf the indices, they are named for.  copyWithin is not among them: it adds
\* its index to itself and does not copy what it is asked to.
MethodsExact == FastPathsAgree /\ SpliceExact /\ EditsExact /\ SearchMirrors

\* A step of a method that runs callbacks or comparisons goes on in order and once
\* over each index, and the last step of a sort leaves a sorted permutation.
CallbacksExact == [][SortDone /\ VisitsOnce]_vars
=============================================================================
