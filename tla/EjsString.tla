------------------------------ MODULE EjsString ------------------------------
(***************************************************************************)
(* Primitive strings (runtime/ejs-string.c).  A primitive string is flat,  *)
(* a rope of two others or a slice (dependent) of another one; flattening  *)
(* rewrites a string in place while ropes, slices and iterators refer to   *)
(* it.  prims is the heap of EJSPrimStrings, the program's literals first; *)
(* meant[i] is the sequence of code units string i stands for according to *)
(* the language, which the methods' reference definitions compute.         *)
(* Offsets count from 0 as in C.  Code units are never 0: the runtime's    *)
(* searches stop at a NUL.                                                 *)
(***************************************************************************)
EXTENDS Integers, Sequences, SequencesExt

CONSTANTS FLAT_ROPE_THRESHOLD,  \* shortest length that becomes a rope
          FLAT_DEP_THRESHOLD,   \* shortest length that becomes a slice
          Literals,             \* the literals of the program
          Offsets,              \* the integers the program passes
          CodePoints,           \* ... and the code points
          Omitted,              \* an argument that is undefined
          MaxStringCalls,       \* bound: calls the program makes
          Defects               \* which calls known to go wrong are made

ASSUME StringAssumption ==
    /\ FLAT_ROPE_THRESHOLD \in Nat \ {0} /\ FLAT_DEP_THRESHOLD \in Nat \ {0}
    /\ Defects \subseteq {"slice", "replace", "template", "surrogate"}

VARIABLES prims,     \* the strings
          meant,     \* ghost: what each one stands for
          answered,  \* ghost: the last call returned what the language says
          iter,      \* a string iterator: its fields and the pieces it gave
          spent      \* calls so far

strvars == <<prims, meant, answered, iter, spent>>

Least(a, b) == IF a <= b THEN a ELSE b
Most(a, b) == IF a >= b THEN a ELSE b

\* The unit at offset k, and the NUL behind the last one.
At(s, k) == IF k < Len(s) THEN s[k + 1] ELSE 0
\* n units of s from offset k on.
Piece(s, k, n) == SubSeq(s, k + 1, k + n)

Flat(c) == [type |-> "flat", length |-> Len(c), flat |-> c]

-----------------------------------------------------------------------------
(* Flattening.                                                             *)

\* Fault: the offset is not reset once the first piece has been copied.
KeepsOffset(ps, n, s) ==
    LET f == ps[n].flat  k == Least(s.len, Len(f) - s.off)
    IN [out |-> s.out \o Piece(f, s.off, k), off |-> s.off, len |-> s.len - k]

CopyFrom(ps, n, s) ==
    LET f == ps[n].flat  k == Least(s.len, Len(f) - s.off)
    IN [out |-> s.out \o Piece(f, s.off, k), off |-> 0, len |-> s.len - k]

\* Appends the units off .. off+len-1 of string n.  A rope's parts share the
\* running offset and length; a slice below adds its own offset and does not
\* limit what is taken from it.
RECURSIVE flatten_dep(_, _, _)
flatten_dep(ps, n, s) ==
    LET p == ps[n] IN
    CASE s.len = 0 -> s
      [] s.len # 0 /\ p.type = "flat" ->
           IF s.off < p.length THEN CopyFrom(ps, n, s)
                               ELSE [s EXCEPT !.off = @ - p.length]
      [] s.len # 0 /\ p.type = "rope" ->
           flatten_dep(ps, p.right, flatten_dep(ps, p.left, s))
      [] s.len # 0 /\ p.type = "dependent" ->
           flatten_dep(ps, p.dep, [s EXCEPT !.off = @ + p.off])

Taken(ps, n, off, len) ==
    flatten_dep(ps, n, [out |-> <<>>, off |-> off, len |-> len]).out

RECURSIVE flatten_rope(_, _)
flatten_rope(ps, n) ==
    LET p == ps[n] IN
    CASE p.type = "flat" -> p.flat
      [] p.type = "rope" -> flatten_rope(ps, p.left) \o flatten_rope(ps, p.right)
      [] p.type = "dependent" -> Taken(ps, p.dep, p.off, p.length)

\* A buffer of n units of which only c was written.
Filled(c, n) == c \o [k \in 1..Most(n - Len(c), 0) |-> -1]

Content(ps, i) ==
    IF ps[i].type = "dependent"
    THEN Filled(Taken(ps, i, 0, ps[i].length), ps[i].length)
    ELSE flatten_rope(ps, i)

\* The string becomes flat in place.
_ejs_primstring_flatten(ps, i) ==
    [ps EXCEPT ![i] = [type |-> "flat", length |-> ps[i].length, flat |-> Content(ps, i)]]

Both(ps, i, j) == _ejs_primstring_flatten(_ejs_primstring_flatten(ps, i), j)

RECURSIVE _ejs_string_ucs2_at(_, _, _)
_ejs_string_ucs2_at(ps, i, k) ==
    LET p == ps[i]  IN
    CASE p.type = "flat" -> At(p.flat, k)
      [] p.type = "dependent" -> _ejs_string_ucs2_at(ps, p.dep, k + p.off)
      [] p.type = "rope" ->
           IF k < ps[p.left].length THEN _ejs_string_ucs2_at(ps, p.left, k)
           ELSE _ejs_string_ucs2_at(ps, p.right, k - ps[p.left].length)

InRange(ps, i, k) == k >= 0 /\ k < ps[i].length

_ejs_String_prototype_charAt(ps, i, k) ==
    IF InRange(ps, i, k) THEN <<_ejs_string_ucs2_at(ps, i, k)>> ELSE <<>>

\* -1 stands for NaN.
_ejs_String_prototype_charCodeAt(ps, i, k) ==
    IF InRange(ps, i, k) THEN _ejs_string_ucs2_at(ps, i, k) ELSE -1

\* s[k]; no units stand for undefined.
_ejs_string_specop_get(ps, i, k) ==
    IF InRange(ps, i, k) THEN <<_ejs_string_ucs2_at(ps, i, k)>> ELSE <<>>

-----------------------------------------------------------------------------
(* New strings.                                                            *)

\* The prims after a slice of string i: a short one is copied.
_ejs_string_new_substring(ps, i, off, len) ==
    Append(ps, IF len < FLAT_DEP_THRESHOLD
               THEN Flat(Filled(Taken(ps, i, off, len), len))
               ELSE [type |-> "dependent", length |-> len, dep |-> i, off |-> off])

_ejs_string_concat(ps, i, j) ==
    LET n == ps[i].length + ps[j].length
    IN Append(ps, IF n < FLAT_ROPE_THRESHOLD
                  THEN Flat(flatten_rope(ps, i) \o flatten_rope(ps, j))
                  ELSE [type |-> "rope", length |-> n, left |-> i, right |-> j])

\* concatv(a, b, c): the result of each concatenation is the left operand
\* of the next one.
_ejs_string_concatv(ps, a, b, c) ==
    LET ab == _ejs_string_concat(ps, a, b) IN _ejs_string_concat(ab, Len(ab), c)

\* Some rope below string i holds a slice.
RECURSIVE HoldsSlice(_, _, _)
HoldsSlice(ps, i, inRope) ==
    CASE ps[i].type = "flat" -> FALSE
      [] ps[i].type = "rope" -> HoldsSlice(ps, ps[i].left, TRUE) \/ HoldsSlice(ps, ps[i].right, TRUE)
      [] ps[i].type = "dependent" -> inRope \/ HoldsSlice(ps, ps[i].dep, FALSE)

Sliceable(ps, i) == "slice" \in Defects \/ ~HoldsSlice(ps, i, FALSE)

-----------------------------------------------------------------------------
(* Searching.                                                              *)

\* The offset of the first occurrence at or behind p, -1 when there is none.
\* After a failed comparison the search resumes at the first unit behind p
\* that starts like the needle, among those already compared.
RECURSIVE ucs2_strstr(_, _, _)
ucs2_strstr(h, n, p) ==
    LET k == CHOOSE k \in 1..(Len(n) + 1) :
                /\ At(n, k) = 0 \/ At(n, k) # At(h, p + k)
                /\ \A m \in 1..(k - 1) : At(n, m) # 0 /\ At(n, m) = At(h, p + m)
        candidates == {q \in (p + 1)..(p + k) : At(h, q) = At(n, 0)}
    IN CASE p >= Len(h) -> -1
         [] p < Len(h) /\ At(h, p) # At(n, 0) -> ucs2_strstr(h, n, p + 1)
         [] p < Len(h) /\ At(h, p) = At(n, 0) ->
              IF At(n, k) = 0 THEN p
              ELSE ucs2_strstr(h, n, IF candidates = {} THEN p + 1 ELSE Min(candidates))

\* The unit at offset k; the word before a string's first unit is 0.
Before(s, k) == IF k < 0 THEN 0 ELSE At(s, k)

\* The same from the end, for a needle that is not empty: k units of the
\* needle's tail match at p.
RECURSIVE StrRScan(_, _, _)
StrRScan(h, n, p) ==
    LET last == Len(n) - 1
        k == CHOOSE k \in 1..Len(n) :
                /\ k = Len(n) \/ At(n, last - k) # Before(h, p - k)
                /\ \A m \in 1..(k - 1) : At(n, last - m) = Before(h, p - m)
        candidates == {q \in (p - k)..(p - 1) : Before(h, q) = At(n, last)}
    IN CASE p < 0 -> -1
         [] p >= 0 /\ At(h, p) # At(n, last) -> StrRScan(h, n, p - 1)
         [] p >= 0 /\ At(h, p) = At(n, last) ->
              IF k = Len(n) THEN p - last
              ELSE StrRScan(h, n, IF candidates = {} THEN p - k - 1 ELSE Max(candidates))

ucs2_strrstr(h, n) == IF Len(n) > Len(h) THEN -1 ELSE StrRScan(h, n, Len(h) - 1)

\* The offsets at which n occurs in h.
Occurrences(h, n) == {k \in 0..(Len(h) - Len(n)) : Piece(h, k, Len(n)) = n}
LeastOr(S, d) == IF S = {} THEN d ELSE Min(S)

-----------------------------------------------------------------------------
(* Calls of the program.  A call appends the strings it makes to ps, ws    *)
(* says what they stand for, and right whether its answer is the           *)
(* language's.                                                             *)

Strings == 1..Len(prims)

Call(ps, ws, right) ==
    /\ spent' = spent + 1
    /\ prims' = ps
    /\ meant' = meant \o ws
    /\ answered' = right
    /\ UNCHANGED iter

StrInit ==
    /\ prims = [i \in 1..Len(Literals) |-> Flat(Literals[i])]
    /\ meant = Literals
    /\ answered = TRUE
    /\ iter = [on |-> 0, next_index |-> 0, gave |-> <<>>, done |-> FALSE]
    /\ spent = 0

\* a + b
Concat(i, j) == Call(_ejs_string_concat(prims, i, j), <<meant[i] \o meant[j]>>, TRUE)


Clamp(n, len) == Least(Most(n, 0), len)
OrElse(n, d) == IF n = Omitted THEN d ELSE n
\* A negative position counts from the end.
FromEnd(n, len) == IF n < 0 THEN Most(len + n, 0) ELSE Least(n, len)

_ejs_String_prototype_substring(i, start, end) ==
    LET len == prims[i].length
        s == Clamp(OrElse(start, 0), len)
        e == Clamp(OrElse(end, len), len)
        from == Least(s, e)
    IN /\ Sliceable(prims, i)
       /\ Call(_ejs_string_new_substring(prims, i, from, Most(s, e) - from),
               <<Piece(meant[i], from, Most(s, e) - from)>>, TRUE)

\* An omitted length stops the program (EJS_NOT_IMPLEMENTED).
_ejs_String_prototype_substr(i, start, length) ==
    LET len == prims[i].length
        from == IF start >= 0 THEN start ELSE Most(len + start, 0)
        n == Least(Most(length, 0), len - from)
    IN /\ Sliceable(prims, i)
       /\ Call(IF n <= 0 THEN Append(prims, Flat(<<>>)) ELSE _ejs_string_new_substring(prims, i, from, n),
               <<SubSeq(meant[i], from + 1, Least(from + length, len))>>, TRUE)

_ejs_String_prototype_slice(i, start, end) ==
    LET len == prims[i].length
        from == FromEnd(OrElse(start, 0), len)
        to == FromEnd(OrElse(end, len), len)
    IN /\ Sliceable(prims, i)
       /\ Call(_ejs_string_new_substring(prims, i, from, Most(to - from, 0)),
               <<IF from < to THEN Piece(meant[i], from, to - from) ELSE <<>>>>, TRUE)

\* The characters trim() removes (those a model uses).
IsWhitespace(u) == u \in (9..13) \cup (8192..8202) \cup
                   {32, 160, 5760, 8232, 8233, 8239, 8287, 12288, 65279}

\* The string itself is returned when there is nothing to trim.
_ejs_String_prototype_trim(i) ==
    LET s == Content(prims, i)
        solid == {k \in 0..(Len(s) - 1) : ~IsWhitespace(At(s, k))}
        leading == Min(solid)
        n == Max(solid) + 1 - leading
        flat == _ejs_primstring_flatten(prims, i)
        T == SelectInSeq(meant[i], LAMBDA u : ~IsWhitespace(u))
        L == SelectLastInSeq(meant[i], LAMBDA u : ~IsWhitespace(u))
    IN IF solid = {} THEN Call(Append(flat, Flat(<<>>)), <<<<>>>>, T = 0)
       ELSE IF n = Len(s) THEN Call(flat, <<>>, L - T + 1 = Len(meant[i]))
       ELSE Call(_ejs_string_new_substring(flat, i, leading, n), <<SubSeq(meant[i], T, L)>>, TRUE)

SplitMatch(s, q, r) == q + Len(r) <= Len(s) /\ Piece(s, q, Len(r)) = r

\* The pieces split() cuts, as pairs of offsets.
RECURSIVE SplitFrom(_, _, _, _)
SplitFrom(s, r, p, q) ==
    CASE q = Len(s) -> <<<<p, Len(s)>>>>
      [] q # Len(s) /\ (~SplitMatch(s, q, r) \/ q + Len(r) = p) -> SplitFrom(s, r, p, q + 1)
      [] q # Len(s) /\ SplitMatch(s, q, r) /\ q + Len(r) # p ->
           <<<<p, q>>>> \o SplitFrom(s, r, q + Len(r), q + Len(r))

\* What the language says: cut at the first occurrence and go on behind it;
\* an empty separator cuts between any two units.
RECURSIVE SplitMeaning(_, _)
SplitMeaning(s, r) ==
    CASE r = <<>> -> [k \in 1..Len(s) |-> <<s[k]>>]
      [] r # <<>> /\ Occurrences(s, r) = {} -> <<s>>
      [] r # <<>> /\ Occurrences(s, r) # {} ->
           LET k == Min(Occurrences(s, r))
           IN <<Piece(s, 0, k)>> \o SplitMeaning(SubSeq(s, k + Len(r) + 1, Len(s)), r)

\* The pieces are slices of the string, which SplitMatch has flattened unless
\* the separator is longer than the string.
_ejs_String_prototype_split(i, j, limit) ==
    LET s == Content(prims, i)
        r == Content(prims, j)
        ps == IF Len(r) <= Len(s) THEN Both(prims, i, j) ELSE prims
        cuts == SplitFrom(s, r, 0, 0)
        lim == Least(OrElse(limit, Len(cuts)), Len(cuts))
        Cut(qs, c) == _ejs_string_new_substring(qs, i, c[1], c[2] - c[1])
        want == SplitMeaning(meant[i], meant[j])
    IN /\ Sliceable(ps, i)
       /\ CASE lim <= 0 -> Call(prims, <<>>, TRUE)
            [] lim > 0 /\ s = <<>> -> Call(ps, <<>>, want = IF r = <<>> THEN <<>> ELSE <<s>>)
            [] lim > 0 /\ s # <<>> ->
                 Call(FoldLeft(Cut, ps, SubSeq(cuts, 1, lim)),
                      [k \in 1..lim |-> IF k <= Len(want) THEN want[k] ELSE <<>>],
                      Len(want) = Len(cuts))

-----------------------------------------------------------------------------
(* replace(search, replacement), a string for each.                        *)

Dollar == 36
Ampersand == 38
Quote == 39

Zero == 48
IsDigit(c) == c \in Zero..(Zero + 9)

\* "$" and one digit: pass one counts two units for "$0", of which pass two writes
\* three; for the others pass two takes the text from a slot of captures that nobody
\* has written, because no search for a string has captures.
Unmeasured(r) ==
    \E k \in 0..(Len(r) - 1) : At(r, k) = Dollar /\ IsDigit(At(r, k + 1)) /\ ~IsDigit(At(r, k + 2))

\* The two passes over the replacement: how much room the result needs, and
\* the result.  pos and tail bound the match in s, slot is what an unwritten slot of
\* captures holds.  Two digits stand for nothing; pass one counts them.
RECURSIVE SubstitutionLength(_, _, _, _)
SubstitutionLength(r, s, pos, tail) ==
    LET c == At(r, 1)
        Rest(n) == SubstitutionLength(SubSeq(r, n + 1, Len(r)), s, pos, tail)
    IN IF r = <<>> THEN 0
       ELSE CASE At(r, 0) = Dollar /\ c = Dollar -> 1 + Rest(2)
              [] At(r, 0) = Dollar /\ c = Ampersand -> tail - pos + Rest(2)
              [] At(r, 0) = Dollar /\ c = Quote -> Len(s) - tail + Rest(2)
              [] At(r, 0) = Dollar /\ IsDigit(c) -> (IF c = Zero /\ ~IsDigit(At(r, 2)) THEN 1 ELSE 0) + Rest(1)
              [] OTHER -> 1 + Rest(1)

RECURSIVE GetReplaceSubstitution(_, _, _, _, _)
GetReplaceSubstitution(r, s, pos, tail, slot) ==
    LET c == At(r, 1)
        Rest(n) == GetReplaceSubstitution(SubSeq(r, n + 1, Len(r)), s, pos, tail, slot)
    IN IF r = <<>> THEN <<>>
       ELSE CASE At(r, 0) = Dollar /\ c = Dollar -> <<Dollar>> \o Rest(2)
              [] At(r, 0) = Dollar /\ c = Ampersand -> Piece(s, pos, tail - pos) \o Rest(2)
              [] At(r, 0) = Dollar /\ c = Quote -> SubSeq(s, tail + 1, Len(s)) \o Rest(2)
              [] At(r, 0) = Dollar /\ IsDigit(c) /\ IsDigit(At(r, 2)) ->
                   Rest(IF 10 * (c - Zero) + At(r, 2) - Zero > 10 THEN 3 ELSE 2)
              [] At(r, 0) = Dollar /\ c = Zero /\ ~IsDigit(At(r, 2)) -> <<Dollar, Zero>> \o Rest(1)
              [] At(r, 0) = Dollar /\ IsDigit(c) /\ c # Zero /\ ~IsDigit(At(r, 2)) -> slot \o Rest(2)
              [] OTHER -> <<At(r, 0)>> \o Rest(1)

\* The tail is left out when it is one unit long (tailPos == length - 1).
_ejs_String_prototype_replace(i, j, k, slot) ==
    LET s == Content(prims, i)
        n == Content(prims, j)
        flat == Both(prims, i, j)
        pos == ucs2_strstr(s, n, 0)
        tail == pos + Len(n)
        done == _ejs_primstring_flatten(flat, k)
        repl == Append(done, Flat(GetReplaceSubstitution(Content(done, k), s, pos, tail, slot)))
        head == IF pos = 0 THEN Append(repl, Flat(<<>>)) ELSE _ejs_string_new_substring(repl, i, 0, pos)
        last == IF tail = Len(s) - 1 THEN Append(head, Flat(<<>>))
                ELSE _ejs_string_new_substring(head, i, tail, Len(s) - tail)
        at == Min(Occurrences(meant[i], meant[j]))
        end == at + Len(meant[j])
        w == <<GetReplaceSubstitution(meant[k], meant[i], at, end, slot), Piece(meant[i], 0, at),
               SubSeq(meant[i], end + 1, Len(meant[i]))>>
        N == Len(done)
    IN /\ n # <<>>
       /\ "replace" \in Defects \/ tail # Len(s) - 1
       /\ "template" \in Defects \/ ~Unmeasured(Content(done, k))
       /\ IF pos = -1 THEN Call(flat, <<>>, Occurrences(meant[i], meant[j]) = {})
          ELSE Call(_ejs_string_concatv(last, N + 2, N + 1, N + 3),
                    w \o <<w[2] \o w[1], w[2] \o w[1] \o w[3]>>, TRUE)

-----------------------------------------------------------------------------
(* UTF-8.                                                                  *)

\* The bytes of the unit at offset k, two units for a surrogate.
utf16_to_utf8_char(s, k) ==
    LET u == At(s, k)
        pair == 65536 + (u - 55296) * 1024 + (At(s, k + 1) - 56320)
    IN CASE u < 128 -> <<u>>
         [] u \in 128..2047 -> <<192 + u \div 64, 128 + (u % 64)>>
         [] u \in 2048..65535 /\ u \notin 55296..57343 ->
              <<224 + u \div 4096, 128 + ((u \div 64) % 64), 128 + (u % 64)>>
         [] u \in 55296..57343 ->
              <<240 + pair \div 262144, 128 + ((pair \div 4096) % 64),
                128 + ((pair \div 64) % 64), 128 + (pair % 64)>>

RECURSIVE ToUtf8(_, _)
ToUtf8(s, k) ==
    IF k >= Len(s) THEN <<>>
    ELSE utf16_to_utf8_char(s, k) \o ToUtf8(s, IF At(s, k) \in 55296..57343 THEN k + 2 ELSE k + 1)

ucs2_to_utf8(s) == ToUtf8(s, 0)

\* One unit and the bytes it took; a byte that starts nothing ends the
\* conversion.  Four byte sequences are taken for three bytes ones.
utf8_to_ucs2(b, k) ==
    CASE At(b, k) < 128 -> <<At(b, k), 1>>
      [] At(b, k) >= 224 /\ At(b, k + 1) # 0 /\ At(b, k + 2) # 0 ->
           <<(At(b, k) % 16) * 4096 + (At(b, k + 1) % 64) * 64 + (At(b, k + 2) % 64), 3>>
      [] At(b, k) \in 192..223 /\ At(b, k + 1) # 0 ->
           <<(At(b, k) % 32) * 64 + (At(b, k + 1) % 64), 2>>
      [] OTHER -> <<-1, 0>>

RECURSIVE FromUtf8(_, _)
FromUtf8(b, k) ==
    LET u == utf8_to_ucs2(b, k) IN
    IF k >= Len(b) \/ u[1] = -1 THEN <<>> ELSE <<u[1]>> \o FromUtf8(b, k + u[2])

_ejs_string_new_utf8(b) == Flat(FromUtf8(b, 0))

ToLower(u) == IF u \in 65..90 THEN u + 32 ELSE u
ToUpper(u) == IF u \in 97..122 THEN u - 32 ELSE u

Encodable(s) == "surrogate" \in Defects \/ \A k \in 1..Len(s) : s[k] \notin 55296..57343

\* Case conversion changes the bytes of the UTF-8 form.
_ejs_String_prototype_toLowerCase(i) ==
    LET bytes == ucs2_to_utf8(Content(prims, i))
    IN /\ Encodable(meant[i])
       /\ Call(Append(_ejs_primstring_flatten(prims, i),
                      _ejs_string_new_utf8([k \in 1..Len(bytes) |-> ToLower(bytes[k])])),
               <<[k \in 1..Len(meant[i]) |-> ToLower(meant[i][k])]>>, TRUE)

_ejs_String_prototype_toUpperCase(i) ==
    LET bytes == ucs2_to_utf8(Content(prims, i))
    IN /\ Encodable(meant[i])
       /\ Call(Append(_ejs_primstring_flatten(prims, i),
                      _ejs_string_new_utf8([k \in 1..Len(bytes) |-> ToUpper(bytes[k])])),
               <<[k \in 1..Len(meant[i]) |-> ToUpper(meant[i][k])]>>, TRUE)

-----------------------------------------------------------------------------
(* Code points, repetition, joining.                                       *)

codepoint_to_codeunits(cp) ==
    IF cp <= 65535 THEN <<cp>>
    ELSE <<(cp - 65536) \div 1024 + 55296, ((cp - 65536) % 1024) + 56320>>

High(u) == u \in 55296..56319
Low(u) == u \in 56320..57343

\* -1 stands for undefined.
_ejs_String_prototype_codePointAt(ps, i, k) ==
    LET first == _ejs_string_ucs2_at(ps, i, k)
        second == _ejs_string_ucs2_at(ps, i, k + 1)
    IN CASE k < 0 \/ k >= ps[i].length -> -1
         [] k \in 0..(ps[i].length - 1) /\ (~High(first) \/ k + 1 = ps[i].length) -> first
         [] k \in 0..(ps[i].length - 2) /\ High(first) ->
              IF Low(second) THEN (first - 55296) * 1024 + (second - 56320) + 65536 ELSE first

\* A value that is no code point is refused with a RangeError.
_ejs_String_fromCodePoint(cp) ==
    LET new == Append(prims, Flat(codepoint_to_codeunits(cp))) IN
    IF cp \notin 0..1114111 THEN Call(prims, <<>>, TRUE)
    ELSE Call(new, <<codepoint_to_codeunits(cp)>>,
              _ejs_String_prototype_codePointAt(new, Len(new), 0) = cp)

\* The units modulo 2^16; the buffer ends at the first NUL, which is left out.
_ejs_String_fromCharCode(n) ==
    /\ n % 65536 # 0
    /\ Call(Append(prims, Flat(<<n % 65536>>)), <<<<n % 65536>>>>, TRUE)

\* T = T + S, n - 1 times; the first T is the string itself.
RECURSIVE RepeatFrom(_, _, _, _)
RepeatFrom(ps, T, i, n) ==
    IF n = 0 THEN ps
    ELSE LET qs == _ejs_string_concat(ps, T, i) IN RepeatFrom(qs, Len(qs), i, n - 1)

Repeated(s, n) == FlattenSeq([k \in 1..n |-> s])

\* A negative count is refused with a RangeError.
_ejs_String_prototype_repeat(i, n) ==
    CASE n < 0 -> Call(prims, <<>>, TRUE)
      [] n = 0 -> Call(Append(prims, Flat(<<>>)), <<<<>>>>, TRUE)
      [] n > 0 -> Call(RepeatFrom(prims, i, i, n - 1),
                       [k \in 1..(n - 1) |-> Repeated(meant[i], k + 1)], TRUE)

\* Array.prototype.join of the strings in es with the separator sep.
RECURSIVE _ejs_Array_prototype_join(_, _, _, _)
_ejs_Array_prototype_join(ps, R, es, sep) ==
    IF es = <<>> THEN ps
    ELSE LET S == _ejs_string_concat(ps, R, sep)
             next == _ejs_string_concat(S, Len(S), Head(es))
         IN _ejs_Array_prototype_join(next, Len(next), Tail(es), sep)

Join(a, b, sep) ==
    Call(_ejs_Array_prototype_join(prims, a, <<b>>, sep),
         <<meant[a] \o meant[sep], meant[a] \o meant[sep] \o meant[b]>>, TRUE)

\* The segments of a template and its substitutions, alternating.
RECURSIVE RawElements(_, _, _, _)
RawElements(segs, subs, k, empty) ==
    IF k = Len(segs) THEN <<segs[k]>>
    ELSE <<segs[k], IF k <= Len(subs) THEN subs[k] ELSE empty>>
         \o RawElements(segs, subs, k + 1, empty)

_ejs_String_raw(segs, subs) ==
    LET ps == Append(prims, Flat(<<>>))
        es == RawElements(segs, subs, 1, Len(ps))
        w == Append(meant, <<>>)
        UpTo(n) == FlattenSeq([k \in 1..n |-> w[es[k]]])
    IN Call(_ejs_Array_prototype_join(ps, es[1], Tail(es), Len(ps)),
            <<<<>>>> \o FlattenSeq([k \in 1..(Len(es) - 1) |-> <<UpTo(k), UpTo(k + 1)>>]), TRUE)

-----------------------------------------------------------------------------
(* Questions: both strings are flattened and the answer is compared with   *)
(* the reference definition.                                               *)

\* An empty needle is never found.
_ejs_String_prototype_indexOf(i, j) ==
    /\ meant[j] # <<>>
    /\ Call(Both(prims, i, j), <<>>,
            ucs2_strstr(Content(prims, i), Content(prims, j), 0)
              = LeastOr(Occurrences(meant[i], meant[j]), -1))

_ejs_String_prototype_lastIndexOf(i, j) ==
    /\ meant[j] # <<>>
    /\ Call(Both(prims, i, j), <<>>,
            ucs2_strrstr(Content(prims, i), Content(prims, j))
              = IF Occurrences(meant[i], meant[j]) = {} THEN -1
                ELSE Max(Occurrences(meant[i], meant[j])))

_ejs_String_prototype_includes(i, j, position) ==
    LET start == Clamp(OrElse(position, 0), prims[i].length) IN
    /\ meant[j] # <<>>
    /\ Call(Both(prims, i, j), <<>>,
            (ucs2_strstr(Content(prims, i), Content(prims, j), start) # -1)
              = (\E k \in Occurrences(meant[i], meant[j]) : k >= start))

\* Two strings too long for each other are not flattened.
_ejs_String_prototype_startsWith(i, j, position) ==
    LET len == prims[i].length
        n == prims[j].length
        start == Clamp(OrElse(position, 0), len)
        fits == n + start <= len
        s == Content(prims, i)
        r == Content(prims, j)
    IN Call(IF fits THEN Both(prims, i, j) ELSE prims, <<>>,
            (fits /\ \A k \in 0..(n - 1) : At(s, k + start) = At(r, k))
              = (start \in Occurrences(meant[i], meant[j])))

_ejs_String_prototype_endsWith(i, j, endPosition) ==
    LET len == prims[i].length
        n == prims[j].length
        end == Clamp(OrElse(endPosition, len), len)
        start == end - n
        s == Content(prims, i)
        r == Content(prims, j)
    IN Call(IF start >= 0 THEN Both(prims, i, j) ELSE prims, <<>>,
            (start >= 0 /\ \A k \in 0..(n - 1) : At(s, k + start) = At(r, k))
              = (start \in Occurrences(meant[i], meant[j])))

\* Negative, zero or positive, like the first difference; the NUL behind a
\* string is less than every unit.
ucs2_strcmp(s, r) ==
    LET differ == {k \in 0..Len(s) : At(s, k) # At(r, k)}
    IN IF differ = {} THEN 0 ELSE At(s, Min(differ)) - At(r, Min(differ))

\* s precedes r in the language's order of strings.
Precedes(s, r) ==
    \/ IsStrictPrefix(s, r)
    \/ \E k \in 1..Least(Len(s), Len(r)) :
          s[k] < r[k] /\ SubSeq(s, 1, k - 1) = SubSeq(r, 1, k - 1)

\* s < r
_ejs_op_lt(i, j) ==
    Call(Both(prims, i, j), <<>>,
         (ucs2_strcmp(Content(prims, i), Content(prims, j)) < 0) = Precedes(meant[i], meant[j]))

\* s === r: strings of different lengths are not flattened.
_ejs_op_strict_eq(i, j) ==
    LET same == prims[i].length = prims[j].length IN
    Call(IF same THEN Both(prims, i, j) ELSE prims, <<>>,
         (same /\ ucs2_strcmp(Content(prims, i), Content(prims, j)) = 0) = (meant[i] = meant[j]))

-----------------------------------------------------------------------------
(* Iterators: for (let c of s).                                            *)

_ejs_string_iterator_new(i) ==
    /\ iter.on = 0
    /\ iter' = [iter EXCEPT !.on = i]
    /\ spent' = spent + 1
    /\ UNCHANGED <<prims, meant, answered>>

_ejs_StringIterator_prototype_next ==
    LET i == iter.on
        k == iter.next_index
        first == _ejs_string_ucs2_at(prims, i, k)
        second == _ejs_string_ucs2_at(prims, i, k + 1)
        pair == k + 1 # prims[i].length /\ High(first) /\ Low(second)
    IN /\ i # 0 /\ ~iter.done
       /\ iter' = IF k >= prims[i].length THEN [iter EXCEPT !.done = TRUE]
                  ELSE [iter EXCEPT !.next_index = k + (IF pair THEN 2 ELSE 1),
                                    !.gave = Append(@, IF pair THEN <<first, second>> ELSE <<first>>)]
       /\ UNCHANGED <<prims, meant, answered, spent>>

-----------------------------------------------------------------------------

Arguments == Offsets \cup {Omitted}
\* Needles, separators and replacements are literals.
Given == 1..Len(Literals)
\* New strings are made from the newest one and a literal.
Newest == {1, Len(prims)}

StrCall ==
    \/ \E i \in Newest :
         \/ \E j \in Newest : Concat(i, j)
         \/ _ejs_String_prototype_toLowerCase(i) \/ _ejs_String_prototype_toUpperCase(i)
         \/ \E a, b \in Arguments : \/ _ejs_String_prototype_substring(i, a, b)
                                    \/ _ejs_String_prototype_slice(i, a, b)
         \/ \E a, n \in Offsets : _ejs_String_prototype_substr(i, a, n)
         \/ \E n \in Offsets : _ejs_String_prototype_repeat(i, n)
         \/ \E j \in Given : Join(i, j, j)
         \/ \E j \in Given : \E a \in Arguments : _ejs_String_prototype_split(i, j, a)
         \/ \E j, k \in Given, slot \in IF "template" \in Defects THEN {<<>>, <<Dollar>>} ELSE {<<>>} :
              _ejs_String_prototype_replace(i, j, k, slot)
    \/ \E j \in Given : _ejs_String_raw(<<j, j>>, <<>>) \/ _ejs_String_raw(<<j, 1>>, <<j>>)
    \/ \E cp \in CodePoints : _ejs_String_fromCodePoint(cp) \/ _ejs_String_fromCharCode(cp)
    \/ \E i \in Strings :
         \/ _ejs_String_prototype_trim(i) \/ _ejs_string_iterator_new(i)
         \/ \E j \in Strings : _ejs_op_lt(i, j) \/ _ejs_op_strict_eq(i, j)
         \/ \E j \in Given :
              \/ _ejs_String_prototype_indexOf(i, j) \/ _ejs_String_prototype_lastIndexOf(i, j)
              \/ \E a \in Arguments : \/ _ejs_String_prototype_includes(i, j, a)
                                      \/ _ejs_String_prototype_startsWith(i, j, a)
                                      \/ _ejs_String_prototype_endsWith(i, j, a)

StrNext ==
    \/ spent < MaxStringCalls /\ StrCall
    \/ _ejs_StringIterator_prototype_next

StrSpec == StrInit /\ [][StrNext]_strvars

-----------------------------------------------------------------------------
(* Properties.                                                             *)

\* Ropes and slices refer to older strings only, and a slice lies within the
\* string it was taken from, however that one has been flattened since.
StrTypeOK ==
    /\ Len(prims) = Len(meant) /\ answered \in BOOLEAN /\ spent \in 0..MaxStringCalls
    /\ iter.on \in 0..Len(prims)
    /\ \A i \in Strings :
         LET p == prims[i] IN
         CASE p.type = "flat" -> Len(p.flat) = p.length
           [] p.type = "rope" -> /\ {p.left, p.right} \subseteq 1..(i - 1)
                                 /\ p.length = prims[p.left].length + prims[p.right].length
           [] p.type = "dependent" -> /\ p.dep \in 1..(i - 1)
                                      /\ p.off >= 0 /\ p.off + p.length <= prims[p.dep].length

\* Flattening a string gives the units the language says it has, for every
\* string made by concatenation, substring, substr, slice, trim, split,
\* replace, repeat, join, raw, fromCodePoint and the case conversions, and
\* whichever of the strings it shares have been flattened before.
FlattenExact == \A i \in Strings : Content(prims, i) = meant[i]

\* charAt, charCodeAt and s[k] read through ropes and slices: they find the
\* unit that flattening would put there, and nothing outside the string.
UnitsExact ==
    \A i \in Strings : \A k \in -1..Len(meant[i]) :
        LET unit == SubSeq(meant[i], k + 1, k + 1)
            there == k \in 0..(Len(meant[i]) - 1)
        IN /\ _ejs_String_prototype_charAt(prims, i, k) = IF there THEN unit ELSE <<>>
           /\ _ejs_string_specop_get(prims, i, k) = IF there THEN unit ELSE <<>>
           /\ _ejs_String_prototype_charCodeAt(prims, i, k) = IF there THEN unit[1] ELSE -1

\* indexOf, lastIndexOf, includes, startsWith, endsWith, <, === and split
\* answer what the reference definitions say.
AnswersExact == answered

\* The pieces an iterator has given are the string up to its position, no
\* pair is cut in two, and it is done when there is nothing left, whatever
\* is done to the string meanwhile.
IteratorExact ==
    iter.on # 0 =>
        LET m == meant[iter.on]  n == iter.next_index IN
        /\ FlattenSeq(iter.gave) = SubSeq(m, 1, n)
        /\ n \in 1..(Len(m) - 1) => ~(High(m[n]) /\ Low(m[n + 1]))
        /\ iter.done => n = Len(m)

\* The buffer of a replacement has room for what is written to it, and none to spare
\* unless two digits follow a "$".  "$" and one digit are left out (see Unmeasured):
\* there the second pass writes over the end of the buffer.
ReplaceFits ==
    \A i \in Newest : \A j, k \in Given : \A pos \in Occurrences(meant[i], meant[j]) :
        LET r == meant[k]
            end == pos + Len(meant[j])
            room == SubstitutionLength(r, meant[i], pos, end)
            written == Len(GetReplaceSubstitution(r, meant[i], pos, end, <<>>))
        IN ~Unmeasured(r) =>
              /\ written <= room
              /\ (\A n \in 0..(Len(r) - 1) : At(r, n) = Dollar => ~IsDigit(At(r, n + 1))) => written = room

\* Whatever a string is made of and whichever parts have been flattened meanwhile,
\* its units, the answers about it and its iteration are those of the sequence it
\* stands for, and a replacement fits its buffer.
StringsExact ==
  /\ StrTypeOK
  /\ FlattenExact
  /\ UnitsExact
  /\ AnswersExact
  /\ IteratorExact
  /\ ReplaceFits
=============================================================================
