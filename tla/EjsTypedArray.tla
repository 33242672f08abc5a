---------------------------- MODULE EjsTypedArray ----------------------------
(***************************************************************************)
(* Array buffers, typed arrays and data views of runtime/ejs-typedarrays.c *)
(* with the collector's view of them (which buffer keeps which alive).     *)
(*                                                                         *)
(* A buffer is [dependent, size, buf, offset, data]: an independent buffer *)
(* owns the bytes data[1..size], or data = Freed once it is finalized; a   *)
(* dependent one (ArrayBuffer.prototype.slice) is a window on buffer buf.  *)
(* A view is [type, buffer, byteOffset, length]; for a DataView, length is *)
(* byteLength.  Bytes are numbers below Byte (256 in the program), 32 bit  *)
(* unsigned arithmetic is modulo Word (2^32), the machine is little        *)
(* endian.  The element types of 32 and 64 bits are the same macro with    *)
(* another size; the floating point ones are left out.                     *)
(***************************************************************************)
EXTENDS Integers, Sequences, SequencesExt, FiniteSets

CONSTANTS
    Byte, Word,
    undefined, Freed, Garbage, RangeError, Nil,
    Types,       \* the element types of the instance
    Numbers,     \* the numbers the program stores
    Relative,    \* the numbers it gives as indices
    Windows,     \* the <<length, offset>> of its slices of buffers
    Spans,       \* the <<offset, length>> of its views of buffers
    Arrays,      \* the dense arrays it makes typed arrays from
    BufferSize, MaxBuffers, MaxViews, MaxCalls   \* bounds

\* The size of a buffer is an int.
ASSUME SizeAssumption == Byte \in Nat \ {0, 1} /\ Word \in Nat /\ BufferSize \in Nat /\ 2 * BufferSize < Word

ASSUME ValueAssumption ==
    /\ Garbage \notin Int /\ Nil \notin Int /\ undefined \notin Int
    /\ Freed \notin Seq(Nat)

ASSUME ProgramAssumption ==
    /\ Numbers \subseteq Int /\ Relative \subseteq Int /\ "DataView" \notin Types
    /\ Windows \subseteq Int \X Int /\ Spans \subseteq Int \X (Int \union {undefined})
    /\ \A a \in Arrays : a \in Seq(Int) /\ 2 * Len(a) <= BufferSize

VARIABLES
    buffers,  \* all buffers, in the order of their creation
    views,    \* all typed arrays and data views
    held,     \* the views and buffers the program still refers to
    call,     \* the method that is in a callback of the program, or Nil
    calls,    \* the number of calls so far
    aborted   \* the process has called abort()

vars == <<buffers, views, held, call, calls, aborted>>

U32(x) == x % Word
Clamp(x, lo, hi) == Max({lo, Min({x, hi})})

elsize(type) == IF type \in {"Int16", "Uint16"} THEN 2 ELSE 1

-----------------------------------------------------------------------------
(* Buffers and their bytes.                                                *)

_ejs_arraybuffer_new(size) ==
    [dependent |-> FALSE, size |-> size, buf |-> Nil, offset |-> 0, data |-> [i \in 1 .. size |-> 0]]

\* An offset behind the end of the buffer makes the size negative.
_ejs_arraybuffer_new_slice(bs, b, offset, size) ==
    LET at == Min({bs[b].size, offset})
    IN  [dependent |-> TRUE, buf |-> b, offset |-> at, data |-> <<>>,
         size |-> IF size + at > bs[b].size THEN bs[b].size - offset ELSE size]

\* From b to the buffer under it, and so on: where b's first byte is in each.
Walk(bs, b) ==
    LET run[n \in 0 .. b] ==
            IF n = 0 THEN [root |-> b, at |-> 0]
            ELSE IF bs[run[n - 1].root].dependent
                 THEN [root |-> bs[run[n - 1].root].buf, at |-> run[n - 1].at + bs[run[n - 1].root].offset]
                 ELSE run[n - 1]
    IN  run

\* The independent buffer under b and the place of b's first byte in it.
_ejs_arraybuffer_get_data(bs, b) == Walk(bs, b)[b]

_ejs_typedarray_get_data(bs, v) ==
    LET d == _ejs_arraybuffer_get_data(bs, v.buffer) IN [d EXCEPT !.at = @ + v.byteOffset]

\* n bytes at place p behind d.
Bytes(bs, d, p, n) ==
    [i \in 1 .. n |-> IF bs[d.root].data # Freed /\ d.at + p + i \in DOMAIN bs[d.root].data
                      THEN bs[d.root].data[d.at + p + i] ELSE Garbage]

Store(bs, d, p, bytes) ==
    [bs EXCEPT ![d.root].data =
        [j \in DOMAIN @ |-> IF j - d.at - p \in DOMAIN bytes THEN bytes[j - d.at - p] ELSE @[j]]]

-----------------------------------------------------------------------------
(* Conversions between numbers and bytes, as the C casts are compiled.     *)

\* A number has one byte or two.
Power(n) == CASE n = 0 -> 1 [] n = 1 -> Byte [] n = 2 -> Byte * Byte
Unsigned(bytes) == bytes[1] + (IF Len(bytes) = 2 THEN Byte * bytes[2] ELSE 0)

Decode(type, bytes) ==
    LET n == Unsigned(bytes)
        span == Power(Len(bytes))
    IN  CASE \E i \in DOMAIN bytes : bytes[i] = Garbage -> Garbage
          [] type \in {"Int8", "Int16"} /\ 2 * n >= span -> n - span
          [] OTHER -> n

Cast(type, x) == [i \in 1 .. elsize(type) |-> (x \div Power(i - 1)) % Byte]

\* The value an element of the type holds after x is stored in it.
Converted(type, x) == Decode(type, Cast(type, x))

-----------------------------------------------------------------------------
(* Elements.  Index length itself passes the test of specop_get.           *)

specop_get(bs, v, i) ==
    LET n == elsize(v.type)
    IN  IF i < 0 \/ i > v.length THEN undefined
        ELSE Decode(v.type, Bytes(bs, _ejs_typedarray_get_data(bs, v), i * n, n))

\* _ejs_Uint8Clampedarray_specop_set tests the upper limit only.
_ejs_Uint8Clampedarray_specop_set(x) == IF x > Byte - 1 THEN Byte - 1 ELSE x

\* Also Put: the result of the internal method is not looked at.
specop_set(bs, v, i, x) ==
    IF i < 0 \/ i >= v.length THEN bs
    ELSE Store(bs, _ejs_typedarray_get_data(bs, v), i * elsize(v.type),
               Cast(v.type, IF v.type = "Uint8Clamped" THEN _ejs_Uint8Clampedarray_specop_set(x) ELSE x))

Elements(bs, v) == [i \in 1 .. v.length |-> specop_get(bs, v, i - 1)]

\* The elements k[1], k[2], ... are set to x[1], x[2], ..., in this order.
SetAll(bs, v, ks, xs) ==
    LET run[n \in 0 .. Len(ks)] == IF n = 0 THEN bs ELSE specop_set(run[n - 1], v, ks[n], xs[n]) IN run[Len(ks)]

(* Data views: any offset, no bounds test, big endian unless asked.        *)

swapBytes(bytes) == Reverse(bytes)

_ejs_DataView_get(bs, v, type, idx, littleEndian) ==
    LET b == Bytes(bs, _ejs_typedarray_get_data(bs, v), idx, elsize(type))
    IN  Decode(type, IF littleEndian THEN b ELSE swapBytes(b))

_ejs_DataView_set(bs, v, type, idx, x, littleEndian) ==
    Store(bs, _ejs_typedarray_get_data(bs, v), idx,
          IF littleEndian THEN Cast(type, x) ELSE swapBytes(Cast(type, x)))

\* A property of a data view that is a number is a byte.
_ejs_dataview_specop_get(bs, v, idx) ==
    IF idx < 0 \/ idx > v.length THEN undefined
    ELSE Decode("Uint8", Bytes(bs, _ejs_typedarray_get_data(bs, v), idx, 1))

_ejs_dataview_specop_set(bs, v, idx, x) ==
    IF idx < 0 \/ idx >= v.length THEN bs
    ELSE Store(bs, _ejs_typedarray_get_data(bs, v), idx, Cast("Uint8", x))

-----------------------------------------------------------------------------
(* Constructors.  RangeError stands for the exception.                     *)

_ejs_typedarray_new(type, b, length) == [type |-> type, buffer |-> b, byteOffset |-> 0, length |-> length]

\* new TypedArray(buffer [, byteOffset [, length]]); undefined: not given.
ConstructFromBuffer(bs, type, b, off, len) ==
    LET n == elsize(type)
        size == U32(bs[b].size)
        o == Min({U32(off), size})
        want == IF len = undefined THEN size ELSE U32(len * n)
        over == U32(o + want) > size
        got == IF over THEN U32(size - o) ELSE want
    IN  IF (over /\ len # undefined) \/ o % n # 0 \/ got % n # 0 THEN RangeError
        ELSE [type |-> type, buffer |-> b, byteOffset |-> o, length |-> got \div n]

_ejs_DataView_impl(bs, b, off, len) ==
    [type |-> "DataView", buffer |-> b, byteOffset |-> U32(off),
     length |-> IF len = undefined THEN U32(bs[b].size - off) ELSE U32(len)]

-----------------------------------------------------------------------------
(* Methods without callbacks, as functions of the buffers.                 *)

IsDetachedBuffer(bs, b) == bs[b].dependent

RelativeIndex(rel, len) == IF rel < 0 THEN Max({len + rel, 0}) ELSE Min({rel, len})

EndIndex(end, len) == IF end = undefined THEN len ELSE RelativeIndex(end, len)

subarray(bs, v, begin, end) ==
    LET from == RelativeIndex(begin, v.length)
        upto == EndIndex(end, v.length)
    IN  ConstructFromBuffer(bs, v.type, v.buffer, v.byteOffset + from * elsize(v.type), Max({upto - from, 0}))

\* Copies elements from .. from + count - 1 to place to, one by one in the given order.
CopyElements(bs, v, from, to, order) ==
    LET n == elsize(v.type)
        d == _ejs_typedarray_get_data(bs, v)
        run[k \in 0 .. Len(order)] ==
            IF k = 0 THEN bs
            ELSE Store(run[k - 1], d, (to + order[k]) * n, Bytes(run[k - 1], d, (from + order[k]) * n, n))
    IN  run[Len(order)]

\* Fault: always copies upwards.
CopyUpwards(bs, v, target, start, end) ==
    LET to == RelativeIndex(target, v.length)
        from == RelativeIndex(start, v.length)
        count == Max({Min({EndIndex(end, v.length) - from, v.length - to}), 0})
    IN  CopyElements(bs, v, from, to, [j \in 1 .. count |-> j - 1])

copyWithin(bs, v, target, start, end) ==
    LET to == RelativeIndex(target, v.length)
        from == RelativeIndex(start, v.length)
        count == Max({Min({EndIndex(end, v.length) - from, v.length - to}), 0})
        down == from < to /\ to < from + count
    IN  CopyElements(bs, v, from, to, [j \in 1 .. count |-> IF down THEN count - j ELSE j - 1])

_ejs_TypedArray_prototype_fill(bs, v, x, start, end) ==
    LET k == RelativeIndex(start, v.length)
        final == EndIndex(end, v.length)
        ks == [n \in 1 .. Max({final - k, 0}) |-> k + n - 1]
    IN  SetAll(bs, v, ks, [n \in DOMAIN ks |-> x])

\* The elements lower and upper change places.
Exchange(bs, v, lower, upper) ==
    specop_set(specop_set(bs, v, lower, specop_get(bs, v, upper)), v, upper, specop_get(bs, v, lower))

_ejs_TypedArray_prototype_reverse(bs, v) ==
    LET run[n \in 0 .. v.length \div 2] ==
            IF n = 0 THEN bs ELSE Exchange(run[n - 1], v, n - 1, v.length - n)
    IN  run[v.length \div 2]

\* The first and the last index from fromIndex on whose element is x, or -1.
_ejs_TypedArray_prototype_indexOf(bs, v, x, fromIndex) ==
    LET k == IF fromIndex >= 0 THEN fromIndex ELSE Max({v.length + fromIndex, 0})
        hits == {i \in k .. v.length - 1 : specop_get(bs, v, i) = x}
    IN  IF hits = {} THEN -1 ELSE Min(hits)

_ejs_TypedArray_prototype_lastIndexOf(bs, v, x, fromIndex) ==
    LET k == IF fromIndex >= 0 THEN Min({fromIndex, v.length - 1}) ELSE v.length + fromIndex
        hits == {i \in 0 .. k : specop_get(bs, v, i) = x}
    IN  IF hits = {} THEN -1 ELSE Max(hits)

\* The length of the string of a number.
StrLen(x) == (IF x < 0 THEN 1 ELSE 0) + (IF Max({x, -x}) < 10 THEN 1 ELSE 2)

\* The characters join allocates ...
JoinLength(bs, v, sepLen) ==
    FoldLeft(LAMBDA acc, x : acc + StrLen(x), 0, Elements(bs, v)) + sepLen * (v.length - 1) + 1

\* ... and the place behind the last one it writes.
_ejs_TypedArray_prototype_join(bs, v, sepLen) ==
    FoldLeft(LAMBDA p, x : p + sepLen + StrLen(x), StrLen(specop_get(bs, v, 0)), Tail(Elements(bs, v))) + 1

-----------------------------------------------------------------------------
(* The program.                                                            *)

View(i) == <<"view", i>>
Buffer(b) == <<"buffer", b>>

Typed == {i \in 1 .. Len(views) : View(i) \in held /\ views[i].type # "DataView"}
DataViews == {i \in 1 .. Len(views) : View(i) \in held /\ views[i].type = "DataView"}
Bufs == {b \in 1 .. Len(buffers) : Buffer(b) \in held}
\* The place a typed array or data view has in its buffer.
Place(v) == _ejs_typedarray_get_data(buffers, v)
\* No buffer under b has a negative size.
Sound(bs, b) == \A n \in 0 .. b : bs[Walk(bs, b)[n].root].size >= 0
InRange(bs, v) ==
    LET d == _ejs_typedarray_get_data(bs, v)
    IN  Sound(bs, v.buffer) /\ bs[d.root].data # Freed
        /\ d.at + v.length * elsize(v.type) <= bs[d.root].size

Called == ~aborted /\ calls < MaxCalls /\ calls' = calls + 1

NewBuffer(b) == /\ Len(buffers) < MaxBuffers
                /\ buffers' = Append(buffers, b)
                /\ held' = held \cup {Buffer(Len(buffers) + 1)}
                /\ UNCHANGED <<views, call, aborted>>

NewView(v) == /\ Len(views) < MaxViews
              /\ v # RangeError
              /\ views' = Append(views, v)
              /\ held' = held \cup {View(Len(views) + 1)}
              /\ UNCHANGED <<buffers, call, aborted>>

Write(bs) == buffers' = bs /\ UNCHANGED <<views, held, call, aborted>>

\* new ArrayBuffer(n)
_ejs_ArrayBuffer_impl == Called /\ NewBuffer(_ejs_arraybuffer_new(BufferSize))

\* The first argument is the length, the second the offset.
_ejs_ArrayBuffer_prototype_slice ==
    /\ Called
    /\ \E b \in Bufs, w \in Windows : NewBuffer(_ejs_arraybuffer_new_slice(buffers, b, w[2], w[1]))

ConstructView ==
    /\ Called
    /\ \E b \in Bufs, s \in Spans :
        \/ \E type \in Types : NewView(ConstructFromBuffer(buffers, type, b, s[1], s[2]))
        \/ NewView(_ejs_DataView_impl(buffers, b, s[1], s[2]))

\* A new typed array with a buffer of its own, which is the last of bs.
MakeFrom(v, bs) ==
    /\ Called
    /\ Len(buffers) < MaxBuffers /\ Len(views) < MaxViews
    /\ buffers' = bs
    /\ views' = Append(views, v)
    /\ held' = held \cup {View(Len(views) + 1), Buffer(v.buffer)}
    /\ UNCHANGED <<call, aborted>>

OwnBuffer(type, n) == Append(buffers, _ejs_arraybuffer_new(n * elsize(type)))

\* The elements of a, one after the other.
StoreAll(bs, v, a) ==
    LET run[n \in 0 .. Len(a)] ==
            IF n = 0 THEN bs
            ELSE Store(run[n - 1], _ejs_typedarray_get_data(run[n - 1], v), (n - 1) * elsize(v.type),
                       Cast(v.type, a[n]))
    IN  run[Len(a)]

\* new TypedArray(array): the elements are cast, even for Uint8Clamped.
ConstructFromArray ==
    \E type \in Types, a \in Arrays :
        LET v == _ejs_typedarray_new(type, Len(buffers) + 1, Len(a))
        IN  MakeFrom(v, StoreAll(OwnBuffer(type, Len(a)), v, a))

\* TypedArray.of(...): the elements are put.
of_impl ==
    \E type \in Types, a \in Arrays :
        LET v == _ejs_typedarray_new(type, Len(buffers) + 1, Len(a))
        IN  MakeFrom(v, SetAll(OwnBuffer(type, Len(a)), v, [n \in DOMAIN a |-> n - 1], a))

Subarray ==
    /\ Called
    /\ \E i \in Typed, begin \in Relative, end \in {-1, undefined} :
        NewView(subarray(buffers, views[i], begin, end))

\* Assignments and methods that write into the buffer of a view.
WriteElements ==
    /\ Called
    /\ \E i \in Typed :
        LET v == views[i]
        IN  /\ InRange(buffers, v)
            /\ \/ \E k \in {0, v.length - 1}, x \in Numbers : Write(specop_set(buffers, v, k, x))
               \/ \E x \in Numbers : Write(_ejs_TypedArray_prototype_fill(buffers, v, x, -2, undefined))
               \/ /\ ~IsDetachedBuffer(buffers, v.buffer)
                  /\ \/ Write(_ejs_TypedArray_prototype_reverse(buffers, v))
                     \/ Write(copyWithin(buffers, v, 1, 0, undefined))

\* DataView.prototype.setXXX inside the view, and the assignment of a byte.
WriteData ==
    /\ Called
    /\ \E i \in DataViews, x \in Numbers :
        /\ InRange(buffers, views[i])
        /\ \/ \E type \in Types, little \in BOOLEAN :
                elsize(type) <= views[i].length /\ Write(_ejs_DataView_set(buffers, views[i], type, 0, x, little))
           \/ Write(_ejs_dataview_specop_set(buffers, views[i], 1, x))

\* set(typedArray, offset): aborts if both use one buffer, or have different types.
set_typedarray ==
    /\ Called
    /\ \E t, s \in Typed, offset \in Relative :
        LET target == views[t]
            src == views[s]
            Aborts == target.buffer = src.buffer \/ target.type # src.type \/ src.type = "Uint8Clamped"
        IN  /\ offset >= 0
            /\ ~IsDetachedBuffer(buffers, target.buffer) /\ ~IsDetachedBuffer(buffers, src.buffer)
            /\ src.length + offset <= target.length
            /\ IF Aborts
               THEN aborted' = TRUE /\ UNCHANGED <<buffers, views, held, call>>
               ELSE Write(SetAll(buffers, target, [n \in 1 .. src.length |-> offset + n - 1],
                                 Elements(buffers, src)))

(* Methods with callbacks.  k is the element whose callback runs, got what *)
(* those of map have returned; map builds view A, set (of an array-like    *)
(* with getters) writes at off + k.                                        *)

Frame(op, v, k, len, a, off) == [op |-> op, v |-> v, k |-> k, len |-> len, A |-> a, off |-> off, got |-> <<>>]

\* The callback for element k of view i is called, if there is such an element.
Visit(op, i, k) ==
    /\ Called /\ call = Nil
    /\ k \in 0 .. views[i].length - 1 /\ InRange(buffers, views[i])
    /\ call' = Frame(op, i, k, views[i].length, Nil, 0)
    /\ UNCHANGED <<buffers, views, held, aborted>>

_ejs_TypedArray_prototype_every == \E i \in Typed : Visit("every", i, 0)
_ejs_TypedArray_prototype_some == \E i \in Typed : Visit("some", i, 0)
_ejs_TypedArray_prototype_find == \E i \in Typed : Visit("find", i, 0)
_ejs_TypedArray_prototype_findIndex == \E i \in Typed : Visit("findIndex", i, 0)
_ejs_TypedArray_prototype_forEach == \E i \in Typed : Visit("forEach", i, 0)

\* Without an initial value the first (last) element is the accumulator.
_ejs_TypedArray_prototype_reduce == \E i \in Typed, first \in {0, 1} : Visit("reduce", i, first)
_ejs_TypedArray_prototype_reduceRight ==
    \E i \in Typed, first \in {1, 2} : Visit("reduceRight", i, views[i].length - first)

_ejs_TypedArray_prototype_map(i) ==
    LET v == views[i]
    IN  /\ v.length > 0
        /\ buffers' = OwnBuffer(v.type, v.length)
        /\ views' = Append(views, _ejs_typedarray_new(v.type, Len(buffers) + 1, v.length))
        /\ call' = Frame("map", i, 0, v.length, Len(views) + 1, 0)

StartMap ==
    /\ Called /\ call = Nil /\ Len(buffers) < MaxBuffers /\ Len(views) < MaxViews
    /\ \E i \in Typed : ~IsDetachedBuffer(buffers, views[i].buffer) /\ _ejs_TypedArray_prototype_map(i)
    /\ UNCHANGED <<held, aborted>>

\* set(array, offset), a getter of array runs for each element.
set_array ==
    /\ Called /\ call = Nil
    /\ \E i \in Typed, n, offset \in Relative :
        /\ n > 0 /\ offset >= 0
        /\ ~IsDetachedBuffer(buffers, views[i].buffer)
        /\ n + offset <= views[i].length
        /\ call' = Frame("set", i, 0, n, Nil, offset)
    /\ UNCHANGED <<buffers, views, held, aborted>>

NextIndex(c) == IF c.op = "reduceRight" THEN c.k - 1 ELSE c.k + 1

Stops(c, r) == \/ c.op = "every" /\ r = 0
               \/ c.op \in {"some", "find", "findIndex"} /\ r # 0

\* The callback returns r (0 is false).
CallbackReturns ==
    /\ ~aborted /\ call # Nil
    /\ \E r \in Numbers \cup {0} :
        LET v == views[call.v]
            next == [call EXCEPT !.k = NextIndex(call), !.got = IF call.op = "map" THEN Append(@, r) ELSE @]
            done == Stops(call, r) \/ next.k \notin 0 .. call.len - 1
        IN  /\ buffers' = CASE call.op = "map" -> specop_set(buffers, views[call.A], call.k, r)
                            [] call.op = "set" -> Store(buffers, Place(v), (call.off + call.k) * elsize(v.type),
                                                        Cast(v.type, r))
                            [] OTHER -> buffers
            /\ call' = IF done THEN Nil ELSE next
            /\ held' = held \cup (IF done /\ call.op = "map"
                                  THEN {View(call.A), Buffer(views[call.A].buffer)} ELSE {})
    /\ UNCHANGED <<views, calls, aborted>>

-----------------------------------------------------------------------------
(* The collector.                                                          *)

Drop == /\ Called
        /\ \E x \in held : held' = held \ {x}
        /\ UNCHANGED <<buffers, views, call, aborted>>

\* The C stack of a running method refers to its typed arrays.
Roots == held \cup (IF call = Nil THEN {} ELSE {View(call.v)} \cup (IF call.A = Nil THEN {} ELSE {View(call.A)}))

\* Fault: a window does not mark the buffer under it.
ScanNothing(bs, b) == {b}

_ejs_arraybuffer_specop_scan(bs, b) ==
    {Walk(bs, b)[n].root : n \in 0 .. b}

\* The buffers marked: the roots, and through _ejs_typedarray_specop_scan those of the views.
Marked ==
    UNION {_ejs_arraybuffer_specop_scan(buffers, b) : b \in
              {c \in 1 .. Len(buffers) : Buffer(c) \in Roots}
              \cup {views[i].buffer : i \in {j \in 1 .. Len(views) : View(j) \in Roots}}}

\* _ejs_arraybuffer_specop_finalize frees the bytes of an unmarked independent buffer.
Collect ==
    /\ ~aborted
    /\ buffers' = [b \in DOMAIN buffers |-> IF b \in Marked \/ buffers[b].dependent THEN buffers[b]
                                            ELSE [buffers[b] EXCEPT !.data = Freed]]
    /\ buffers' # buffers
    /\ UNCHANGED <<views, held, call, calls, aborted>>

Init == /\ buffers = <<_ejs_arraybuffer_new(BufferSize)>>
        /\ views = <<>> /\ held = {Buffer(1)} /\ call = Nil /\ calls = 0 /\ aborted = FALSE

Next == \/ _ejs_ArrayBuffer_impl \/ _ejs_ArrayBuffer_prototype_slice \/ ConstructView
        \/ ConstructFromArray \/ of_impl \/ Subarray \/ WriteElements \/ WriteData \/ set_typedarray
        \/ _ejs_TypedArray_prototype_every \/ _ejs_TypedArray_prototype_some
        \/ _ejs_TypedArray_prototype_find \/ _ejs_TypedArray_prototype_findIndex
        \/ _ejs_TypedArray_prototype_forEach \/ _ejs_TypedArray_prototype_reduce
        \/ _ejs_TypedArray_prototype_reduceRight \/ StartMap \/ set_array \/ CallbackReturns \/ Drop \/ Collect

Spec == Init /\ [][Next]_vars

-----------------------------------------------------------------------------
\* Every byte is a byte, every buffer under a window is older than the window
\* (_ejs_arraybuffer_get_data ends), and the running method is inside its array.
TypeOK ==
    /\ \A b \in 1 .. Len(buffers) :
        /\ buffers[b].dependent => buffers[b].buf \in 1 .. b - 1
        /\ ~buffers[b].dependent /\ buffers[b].data # Freed =>
             buffers[b].data \in [1 .. buffers[b].size -> 0 .. Byte - 1]
    /\ \A i \in 1 .. Len(views) : views[i].buffer \in 1 .. Len(buffers)
    /\ call # Nil => call.k + call.off \in 0 .. views[call.v].length - 1

\* However windows, views and subarrays are stacked (_ejs_arraybuffer_new_slice, the
\* constructors, subarray), a typed array never reaches past the bytes at the bottom,
\* unless a window was given an offset behind its buffer.
ViewsInBounds ==
    \A i \in 1 .. Len(views) :
        LET d == Place(views[i])
        IN  views[i].type # "DataView" /\ Sound(buffers, views[i].buffer) =>
              0 <= d.at /\ d.at + views[i].length * elsize(views[i].type) <= buffers[d.root].size

\* The bytes under every typed array the program or a running method can reach are
\* still allocated: the scan of views and windows reaches the buffer that owns them.
ReachableNotFreed ==
    \A i \in 1 .. Len(views) :
        View(i) \in Roots => buffers[Place(views[i]).root].data # Freed

\* The bytes of element k of view v in its independent buffer.
Cells(v, k) == {<<Place(v).root, Place(v).at + k * elsize(v.type) + n>> : n \in 1 .. elsize(v.type)}

\* Storing an element is seen through every view that has this element, with the
\* converted value, and changes no element of any view that shares no byte with it.
StoreIsLocal ==
    \A i, j \in Typed : \A k \in 0 .. views[i].length - 1, x \in Numbers :
        LET v == views[i]
            w == views[j]
            after == specop_set(buffers, v, k, x)
            stored == Converted(v.type, IF v.type = "Uint8Clamped" /\ x >= Byte THEN Byte - 1 ELSE x)
        IN  InRange(buffers, v) /\ InRange(buffers, w) =>
            \A m \in 0 .. w.length - 1 :
                /\ Cells(v, k) = Cells(w, m) /\ v.type = w.type => specop_get(after, w, m) = stored
                /\ Cells(v, k) \cap Cells(w, m) = {} => specop_get(after, w, m) = specop_get(buffers, w, m)

\* What a data view stores it reads back in the same byte order, the low byte is the
\* first (last) one, and in little endian order it agrees with the typed array on the same bytes.
ByteOrder ==
    \A i \in DataViews, type \in Types, little \in BOOLEAN, x \in Numbers :
        LET w == views[i]
        IN  InRange(buffers, w) =>
            \A p \in 0 .. w.length - elsize(type) :
                LET after == _ejs_DataView_set(buffers, w, type, p, x, little)
                IN  /\ _ejs_DataView_get(after, w, type, p, little) = Converted(type, x)
                    /\ Cast(type, x)[1] = _ejs_dataview_specop_get(after, w,
                            IF little THEN p ELSE p + elsize(type) - 1)
                    /\ \A j \in Typed : \A k \in 0 .. views[j].length - 1 :
                        LET v == views[j]
                        IN  InRange(buffers, v) /\ v.type = type /\ little
                            /\ Place(v).root = Place(w).root
                            /\ Place(v).at + k * elsize(type) = Place(w).at + p
                            => specop_get(after, v, k) = Converted(type, x)

\* A subarray always exists and its elements are the ones between its two indices.
SubarrayExact ==
    \A i \in Typed : InRange(buffers, views[i]) =>
        \A begin \in Relative, end \in {-1, undefined} :
            LET all == Elements(buffers, views[i])
                sub == subarray(buffers, views[i], begin, end)
                first == IF begin < 0 THEN Len(all) + begin ELSE begin
                last == CASE end = undefined -> Len(all) [] end < 0 -> Len(all) + end [] OTHER -> end
            IN  /\ sub # RangeError
                /\ Elements(buffers, sub) = SubSeq(all, Max({first, 0}) + 1, Min({last, Len(all)}))

\* copyWithin is memmove, reverse and fill are what their names say, although they
\* work in place, and lastIndexOf finds what indexOf finds in the reversed array.
EditsExact ==
    \A i \in Typed : LET v == views[i] IN InRange(buffers, v) =>
        LET old == Elements(buffers, v)
            n == v.length
        IN  /\ Elements(_ejs_TypedArray_prototype_reverse(buffers, v), v) = Reverse(old)
            /\ \A t, s \in Relative, e \in {-1, undefined} :
                LET to == RelativeIndex(t, n)
                    part == SubSeq(old, RelativeIndex(s, n) + 1, EndIndex(e, n))
                IN  Elements(copyWithin(buffers, v, t, s, e), v) =
                      [m \in 1 .. n |-> IF m - to \in DOMAIN part THEN part[m - to] ELSE old[m]]
            /\ \A x \in Numbers, f \in Relative :
                LET mirror == _ejs_TypedArray_prototype_reverse(buffers, v)
                    here == _ejs_TypedArray_prototype_lastIndexOf(buffers, v, x, f)
                    there == _ejs_TypedArray_prototype_indexOf(mirror, v, x,
                                 IF f < 0 THEN -f - 1 ELSE Max({n - 1 - f, 0}))
                IN  here = IF there = -1 THEN -1 ELSE n - 1 - there

\* The two passes of join agree: it fills the string it has allocated.
JoinFits ==
    \A i \in Typed, sepLen \in 0 .. 2 :
        InRange(buffers, views[i]) /\ views[i].length > 0 =>
            _ejs_TypedArray_prototype_join(buffers, views[i], sepLen) = JoinLength(buffers, views[i], sepLen)

\* While map runs, whatever the callbacks write through other views, its result
\* already holds the converted values the callbacks have returned so far.
MapKeepsResults ==
    call # Nil /\ call.op = "map" =>
        \A n \in 1 .. Len(call.got) :
            specop_get(buffers, views[call.A], n - 1) =
                Converted(views[call.A].type,
                          IF views[call.A].type = "Uint8Clamped" /\ call.got[n] >= Byte THEN Byte - 1 ELSE call.got[n])

\* However buffers, windows and views are stacked and collected, the elements of a typed
\* array over windows of no negative size lie in the buffer that owns the bytes, and no
\* bytes are freed under a view the program can reach.  A window whose offset is behind
\* its buffer gets a negative size: views over such a window, which do reach outside,
\* are not meant, and neither are the accesses of data views, which have no bounds.
ViewsSafe == TypeOK /\ ViewsInBounds /\ ReachableNotFreed

\* Reading and writing through views that share bytes: a store is seen where it must
\* be and nowhere else, in both byte orders, and the methods that work in place or
\* in two passes give what they are named for.
AccessExact ==
  /\ StoreIsLocal
  /\ ByteOrder
  /\ SubarrayExact
  /\ EditsExact
  /\ JoinFits
  /\ MapKeepsResults
=============================================================================
