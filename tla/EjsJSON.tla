------------------------------- MODULE EjsJSON -------------------------------
(***************************************************************************)
(* JSON.stringify and JSON.parse (runtime/ejs-json.c).  stringify walks a  *)
(* graph of objects; toJSON methods and a replacer function run in the     *)
(* middle of the walk and may change the objects it is walking, while the  *)
(* keys and lengths it has read stay as they were.  One frame stands for   *)
(* one activation of SerializeJSONObject or SerializeJSONArray.            *)
(*                                                                         *)
(* A text is a sequence of tokens: punctuation [p |-> ...], quoted strings *)
(* [q |-> code units] and white space.  Reading text into a tree is the    *)
(* job of the parson library (external).                                   *)
(***************************************************************************)
EXTENDS Integers, Sequences, SequencesExt, TLC

CONSTANTS Values,       \* the values a callback may return or store
          Heaps,        \* the object graphs the program starts with
          Spaces,       \* the arguments for space
          PropertyLists,\* the arrays the program passes as replacer
          GapLimit,     \* 10 in the code
          MaxEdits,     \* bound: changes the callbacks make
          MaxDepth      \* bound: depth at which callbacks still return objects

ASSUME JsonAssumption == GapLimit \in Nat \ {0} /\ MaxEdits \in Nat /\ MaxDepth \in Nat

VARIABLES jheap,   \* object id -> [kind, props | elems, toJSON]
          frames,  \* the activations, outermost first
          stack,   \* state.stack
          pend,    \* where SerializeJSONProperty is
          opts,    \* indent, gap, ReplacerFunction, PropertyList
          text,    \* what stringify returned
          parsed,  \* what parse returned
          calm,    \* ghost: no callback has had a say
          edits

jsonvars == <<jheap, frames, stack, pend, opts, text, parsed, calm, edits>>

None == <<>>
\* What may be missing is a set of at most one element.
TheOne(set) == CHOOSE x \in set : TRUE
Undefined == [t |-> "undefined"]
IsObject(v) == v.t = "obj"
P(s) == [p |-> s]
Space == P(" ")
NewLine == P("nl")

\* Get(holder, key); an array's keys are its indices.
Get(h, v, key) ==
    LET o == h[v.id] IN
    IF o.kind = "array"
    THEN IF key \in 1..Len(o.elems) THEN o.elems[key] ELSE Undefined
    ELSE LET hits == {i \in 1..Len(o.props) : o.props[i][1] = key}
         IN IF hits = {} THEN Undefined ELSE o.props[Min(hits)][2]

EnumerableOwnNames(o) == [i \in 1..Len(o.props) |-> o.props[i][1]]

-----------------------------------------------------------------------------
(* Strings.                                                                *)

\* The digits as the code has them: "012356789abcdef", without the 4.
hexdigits == <<48, 49, 50, 51, 53, 54, 55, 56, 57, 97, 98, 99, 100, 101, 102, 0>>

\* The letter behind the backslash for BS, HT, LF, FF and CR.
abbrev == (8 :> 98) @@ (9 :> 116) @@ (10 :> 110) @@ (12 :> 102) @@ (13 :> 114)

\* What stands for one code unit in a quoted string.
Escaped(u) ==
    CASE u \in {34, 92} -> <<92, u>>
      [] u \in DOMAIN abbrev -> <<92, abbrev[u]>>
      [] u \in (0..31) \ DOMAIN abbrev ->
           <<92, 117, 48, 48, hexdigits[(u \div 16) + 1], hexdigits[(u % 16) + 1]>>
      [] OTHER -> <<u>>

QuoteJSONString(s) == [q |-> FlattenSeq([k \in 1..Len(s) |-> Escaped(s[k])])]

-----------------------------------------------------------------------------
(* stringify.                                                              *)

\* The strings of ss with sep between them.
Separated(ss, sep) == FlattenSeq([k \in 1..Len(ss) |-> IF k = 1 THEN ss[k] ELSE sep \o ss[k]])

JsonInit ==
    /\ jheap \in Heaps
    /\ frames = <<>> /\ stack = <<>>
    /\ pend = [at |-> "idle"]
    /\ opts = [indent |-> <<>>, gap |-> <<>>, tight |-> TRUE, fn |-> FALSE, list |-> {}, root |-> Undefined]
    /\ text = None /\ parsed = Undefined
    /\ calm = TRUE
    /\ edits = 0

\* space: a number of spaces, or a string (here of white space), at most
\* GapLimit units.  Only the empty atom counts as an empty gap.
GapOf(space) ==
    IF space.t = "none" \/ (space.t = "num" /\ space.n < 1) THEN [gap |-> <<>>, tight |-> TRUE]
    ELSE [gap |-> [k \in 1..Min({GapLimit, space.n}) |-> Space], tight |-> FALSE]

_ejs_JSON_stringify(v, replacer, space) ==
    /\ pend.at = "idle"
    /\ opts' = [indent |-> <<>>, gap |-> GapOf(space).gap, tight |-> GapOf(space).tight,
                fn |-> replacer.fn, list |-> replacer.list, root |-> v]
    /\ pend' = [at |-> "get", holder |-> Undefined, key |-> 1]
    /\ UNCHANGED <<jheap, frames, stack, text, parsed, calm, edits>>

\* SerializeJSONProperty: the value, then toJSON, then the replacer.
SerializeJSONProperty ==
    LET value == IF IsObject(pend.holder) THEN Get(jheap, pend.holder, pend.key) ELSE opts.root
    IN /\ pend.at = "get"
       /\ pend' = [at |-> CASE IsObject(value) /\ jheap[value.id].toJSON -> "toJSON"
                            [] ~(IsObject(value) /\ jheap[value.id].toJSON) /\ opts.fn -> "replacer"
                            [] OTHER -> "emit",
                   value |-> value]
       /\ UNCHANGED <<jheap, frames, stack, opts, text, parsed, calm, edits>>

\* A callback returns.  No check stops one that answers with an object for
\* ever, so the model bounds how deep it does.
CallbackReturns(v) ==
    /\ pend.at \in {"toJSON", "replacer"}
    /\ IsObject(v) => Len(frames) < MaxDepth
    /\ pend' = [at |-> IF pend.at = "toJSON" /\ opts.fn THEN "replacer" ELSE "emit", value |-> v]
    /\ calm' = FALSE
    /\ UNCHANGED <<jheap, frames, stack, opts, text, parsed, edits>>

\* What a callback may do to an object: drop its last property or element,
\* or store a value in the first one.
Edited(o, v) ==
    IF o.kind = "array"
    THEN {[o EXCEPT !.elems = SubSeq(@, 1, Len(@) - 1)], [o EXCEPT !.elems[1] = v], [o EXCEPT !.elems = Append(@, v)]}
    ELSE {[o EXCEPT !.props = SubSeq(@, 1, Len(@) - 1)], [o EXCEPT !.props[1][2] = v]}

CallbackEdits(i, v) ==
    /\ pend.at \in {"toJSON", "replacer"}
    /\ edits < MaxEdits /\ ~IsObject(v)
    /\ (IF jheap[i].kind = "array" THEN jheap[i].elems ELSE jheap[i].props) # <<>>
    /\ \E o \in Edited(jheap[i], v) : jheap' = [jheap EXCEPT ![i] = o]
    /\ edits' = edits + 1
    /\ calm' = FALSE
    /\ UNCHANGED <<frames, stack, pend, opts, text, parsed>>

Returning(strP) == [at |-> "ret", strP |-> strP]

\* Wrapper objects are unwrapped (ToBoolean of any Boolean object is true),
\* functions and undefined give nothing, a number that is not finite null.
Primitive(v) ==
    CASE v.t \in {"str", "strobj"} -> <<QuoteJSONString(v.u)>>
      [] v.t \in {"null", "nan"} -> <<P("null")>>
      [] v.t \in {"true", "false"} -> <<P(v.t)>>
      [] v.t = "boolobj" -> <<P("true")>>
      [] v.t \in {"num", "numobj"} -> <<P("num")>>
      [] v.t \in {"undefined", "fn"} -> None

SerializePrimitive ==
    /\ pend.at = "emit" /\ ~IsObject(pend.value)
    /\ pend' = Returning(Primitive(pend.value))
    /\ UNCHANGED <<jheap, frames, stack, opts, text, parsed, calm, edits>>

\* The frame asks for its next property or is closed.
Proceed(f) ==
    IF f.k <= Len(f.K) THEN [at |-> "get", holder |-> f.value, key |-> f.K[f.k]]
                       ELSE [at |-> "close"]

Enter(kind, K) ==
    LET f == [kind |-> kind, value |-> pend.value, K |-> K, k |-> 1, partial |-> <<>>, stepback |-> opts.indent]
    IN /\ stack' = Append(stack, pend.value)
       /\ frames' = Append(frames, f)
       /\ opts' = [opts EXCEPT !.indent = @ \o opts.gap]
       /\ pend' = Proceed(f)
       /\ UNCHANGED <<jheap, text, parsed, calm, edits>>

\* The property list or the object's own names; an array's length is read
\* once.  No entry checks the stack for a cycle.
SerializeJSONObject ==
    /\ pend.at = "emit" /\ IsObject(pend.value) /\ jheap[pend.value.id].kind = "object"
    /\ Enter("object", IF opts.list # {} THEN TheOne(opts.list) ELSE EnumerableOwnNames(jheap[pend.value.id]))

SerializeJSONArray ==
    /\ pend.at = "emit" /\ IsObject(pend.value) /\ jheap[pend.value.id].kind = "array"
    /\ Enter("array", [i \in 1..Len(jheap[pend.value.id].elems) |-> i])

\* A property's text comes back to the innermost frame: an object leaves an
\* undefined one out, an array writes null.
Member(f, strP) ==
    CASE f.kind = "array" -> <<IF strP = None THEN <<P("null")>> ELSE strP>>
      [] f.kind = "object" /\ strP = None -> <<>>
      [] f.kind = "object" /\ strP # None ->
           <<<<QuoteJSONString(f.K[f.k]), P(":")>> \o (IF opts.tight THEN <<>> ELSE <<Space>>) \o strP>>

PropertyDone ==
    LET f == Last(frames)
        g == [f EXCEPT !.k = @ + 1, !.partial = @ \o Member(f, pend.strP)]
    IN /\ pend.at = "ret" /\ frames # <<>>
       /\ frames' = Append(Front(frames), g)
       /\ pend' = Proceed(g)
       /\ UNCHANGED <<jheap, stack, opts, text, parsed, calm, edits>>

\* The text of a whole object or array.
Final(f) ==
    LET open == IF f.kind = "object" THEN P("{") ELSE P("[")
        shut == IF f.kind = "object" THEN P("}") ELSE P("]")
        separator == IF opts.tight THEN <<P(",")>> ELSE <<P(","), NewLine>> \o opts.indent
        properties == Separated(f.partial, separator)
    IN CASE f.partial = <<>> -> <<open, shut>>
         [] f.partial # <<>> /\ opts.tight -> <<open>> \o properties \o <<shut>>
         [] f.partial # <<>> /\ ~opts.tight ->
              <<open, NewLine>> \o opts.indent \o properties \o <<NewLine>> \o f.stepback \o <<shut>>

\* Fault: an empty object returns before the indentation is set back.
EmptyReturnsEarly ==
    /\ pend.at = "close"
    /\ pend' = Returning(Final(Last(frames)))
    /\ stack' = Front(stack)
    /\ frames' = Front(frames)
    /\ opts' = IF Last(frames).partial = <<>> THEN opts ELSE [opts EXCEPT !.indent = Last(frames).stepback]
    /\ UNCHANGED <<jheap, text, parsed, calm, edits>>

Close ==
    /\ pend.at = "close"
    /\ pend' = Returning(Final(Last(frames)))
    /\ stack' = Front(stack)
    /\ frames' = Front(frames)
    /\ opts' = [opts EXCEPT !.indent = Last(frames).stepback]
    /\ UNCHANGED <<jheap, text, parsed, calm, edits>>

StringifyReturns ==
    /\ pend.at = "ret" /\ frames = <<>>
    /\ text' = pend.strP
    /\ pend' = [at |-> "done"]
    /\ UNCHANGED <<jheap, frames, stack, opts, parsed, calm, edits>>

-----------------------------------------------------------------------------
(* Reading: text to tree is parson's work, tree to values the runtime's.   *)

Fail == [tree |-> [t |-> "fail"], rest |-> <<>>]

\* The code units of a quoted string.
RECURSIVE Unquote(_)
Unquote(q) ==
    IF q = <<>> THEN <<>>
    ELSE IF q[1] # 92 THEN <<q[1]>> \o Unquote(Tail(q))
    ELSE IF q[2] # 117
         THEN LET meant == {c \in DOMAIN abbrev : abbrev[c] = q[2]}
              IN <<IF meant = {} THEN q[2] ELSE CHOOSE c \in meant : TRUE>> \o Unquote(SubSeq(q, 3, Len(q)))
         ELSE LET digit(c) == IF c \in 48..57 THEN c - 48 ELSE c - 87
              IN <<digit(q[5]) * 16 + digit(q[6])>> \o Unquote(SubSeq(q, 7, Len(q)))

\* One value at the head of ts (white space removed), and what is left.
RECURSIVE ParseValue(_)
RECURSIVE ParseItems(_, _, _)
ParseItems(ts, shut, sofar) ==
    LET keyed == shut = P("}")
        hasKey == Len(ts) >= 2 /\ "q" \in DOMAIN ts[1] /\ ts[2] = P(":")
        v == ParseValue(IF keyed THEN SubSeq(ts, 3, Len(ts)) ELSE ts)
        items == Append(sofar, IF keyed THEN <<Unquote(ts[1].q), v.tree>> ELSE v.tree)
    IN CASE keyed /\ ~hasKey -> Fail
         [] ~(keyed /\ ~hasKey) /\ v.rest = <<>> -> Fail
         [] ~(keyed /\ ~hasKey) /\ v.rest # <<>> /\ v.rest[1] = shut ->
              [tree |-> [t |-> IF keyed THEN "object" ELSE "array", items |-> items], rest |-> Tail(v.rest)]
         [] ~(keyed /\ ~hasKey) /\ v.rest # <<>> /\ v.rest[1] = P(",") -> ParseItems(Tail(v.rest), shut, items)
         [] OTHER -> Fail
ParseValue(ts) ==
    IF ts = <<>> THEN Fail
    ELSE CASE "q" \in DOMAIN ts[1] -> [tree |-> [t |-> "str", u |-> Unquote(ts[1].q)], rest |-> Tail(ts)]
           [] ts[1] \in {P("null"), P("true"), P("false"), P("num")} -> [tree |-> [t |-> ts[1].p], rest |-> Tail(ts)]
           [] ts[1] = P("{") /\ Len(ts) > 1 ->
                IF ts[2] = P("}") THEN [tree |-> [t |-> "object", items |-> <<>>], rest |-> SubSeq(ts, 3, Len(ts))]
                ELSE ParseItems(Tail(ts), P("}"), <<>>)
           [] ts[1] = P("[") /\ Len(ts) > 1 ->
                IF ts[2] = P("]") THEN [tree |-> [t |-> "array", items |-> <<>>], rest |-> SubSeq(ts, 3, Len(ts))]
                ELSE ParseItems(Tail(ts), P("]"), <<>>)
           [] OTHER -> Fail

json_parse_string(ts) == ParseValue(SelectSeq(ts, LAMBDA x : x \notin {Space, NewLine}))

NewArray(vs) == [kind |-> "array", elems |-> vs, toJSON |-> FALSE]
NewObject(vs) == [kind |-> "object", props |-> vs, toJSON |-> FALSE]

\* The value for a tree: new objects are added to the heap.
RECURSIVE json_value_to_ejsval(_, _)
json_value_to_ejsval(h, tree) ==
    LET keyed == tree.t = "object"
        Item(s, x) == LET r == json_value_to_ejsval(s.h, IF keyed THEN x[2] ELSE x)
                      IN [h |-> r.h, vs |-> Append(s.vs, IF keyed THEN <<x[1], r.v>> ELSE r.v)]
        built == FoldLeft(Item, [h |-> h, vs |-> <<>>], tree.items)
    IN IF tree.t \notin {"object", "array"} THEN [h |-> h, v |-> tree]
       ELSE [h |-> Append(built.h, IF keyed THEN NewObject(built.vs) ELSE NewArray(built.vs)),
             v |-> [t |-> "obj", id |-> Len(built.h) + 1]]

\* Text that is no JSON stops the program.
_ejs_JSON_parse ==
    LET r == json_parse_string(text)
        built == json_value_to_ejsval(jheap, r.tree)
    IN /\ pend.at = "done" /\ text # None
       /\ r.tree.t # "fail" /\ r.rest = <<>>
       /\ jheap' = built.h
       /\ parsed' = built.v
       /\ pend' = [at |-> "parsed"]
       /\ UNCHANGED <<frames, stack, opts, text, calm, edits>>

-----------------------------------------------------------------------------

\* The replacer arguments: none, a function, an array.
Replacers == {[fn |-> FALSE, list |-> {}], [fn |-> TRUE, list |-> {}]}
             \cup {[fn |-> FALSE, list |-> {l}] : l \in PropertyLists}

JsonNext ==
    \/ \E r \in Replacers, s \in Spaces : _ejs_JSON_stringify([t |-> "obj", id |-> 1], r, s)
    \/ SerializeJSONProperty
    \/ \E v \in Values : CallbackReturns(v)
    \/ pend.at = "replacer" /\ CallbackReturns(pend.value)
    \/ \E i \in 1..Len(jheap), v \in Values : CallbackEdits(i, v)
    \/ SerializePrimitive \/ SerializeJSONObject \/ SerializeJSONArray
    \/ PropertyDone \/ Close \/ StringifyReturns
    \/ _ejs_JSON_parse

JsonSpec == JsonInit /\ [][JsonNext]_jsonvars

-----------------------------------------------------------------------------
(* Properties.                                                             *)

\* Type invariant of the walk: an activation of SerializeJSONObject or
\* SerializeJSONArray stays within the keys it has read and writes at most one
\* entry for each it has passed; the gap is cut to its limit.
JsonTypeOK ==
    /\ pend.at \in {"idle", "get", "toJSON", "replacer", "emit", "ret", "close", "done", "parsed"}
    /\ edits \in 0..MaxEdits /\ calm \in BOOLEAN
    /\ \A n \in 1..Len(frames) : /\ frames[n].k \in 1..(Len(frames[n].K) + 1)
                                 /\ Len(frames[n].partial) < frames[n].k
    /\ Len(opts.gap) <= GapLimit

\* The stack holds the values being written, outermost first, and the
\* indentation is one gap for each of them, whatever was written before.
StackAndIndent ==
    /\ stack = [n \in 1..Len(frames) |-> frames[n].value]
    /\ opts.indent = FlattenSeq([n \in 1..Len(frames) |-> opts.gap])

\* The tree of a value: undefined and functions vanish from objects and are
\* null in arrays, a number that is not finite is null.  A property list
\* picks the properties.
RECURSIVE Meaning(_, _, _)
Meaning(h, v, list) ==
    LET o == h[v.id]
        named == IF list = {} THEN o.props
                 ELSE LET l == TheOne(list) IN [i \in 1..Len(l) |-> <<l[i], Get(h, v, l[i])>>]
        shown == SelectSeq(named, LAMBDA x : x[2].t \notin {"undefined", "fn"})
    IN CASE v.t \in {"str", "strobj"} -> [t |-> "str", u |-> v.u]
         [] v.t \in {"null", "nan", "undefined", "fn"} -> [t |-> "null"]
         [] v.t \in {"true", "false"} -> [t |-> v.t]
         [] v.t \in {"num", "numobj"} -> [t |-> "num"]
         [] v.t = "obj" /\ o.kind = "array" ->
              [t |-> "array", items |-> [i \in 1..Len(o.elems) |-> Meaning(h, o.elems[i], list)]]
         [] v.t = "obj" /\ o.kind = "object" ->
              [t |-> "object", items |-> [i \in 1..Len(shown) |-> <<shown[i][1], Meaning(h, shown[i][2], list)>>]]

\* Whatever toJSON methods and replacers return and change on the way (the
\* keys and lengths read before they ran are stale then), the text is one
\* JSON value, or there is none.
TextParses ==
    (pend.at = "done" /\ text # None)
        => json_parse_string(text).tree.t # "fail" /\ json_parse_string(text).rest = <<>>

\* Without callbacks the text says what the value was.
TextExact ==
    (pend.at = "done" /\ calm) => json_parse_string(text).tree = Meaning(jheap, opts.root, opts.list)

\* In the text each line is indented by one gap per open bracket; the line
\* of a closing bracket stands below the line of its opening one.
LayoutExact ==
    LET Count(i, set) == Len(SelectSeq(SubSeq(text, 1, i), LAMBDA x : x \in set))
        Depth(i) == Count(i, {P("{"), P("[")}) - Count(i, {P("}"), P("]")})
        Indent(i) == CHOOSE n \in 0..(Len(text) - i) :
                        text[i + n + 1] # Space /\ \A k \in 1..n : text[i + k] = Space
    IN pend.at = "done" =>
         \A i \in 1..Len(text) : text[i] = NewLine =>
            LET n == Indent(i)
                d == IF text[i + n + 1] \in {P("}"), P("]")} THEN Depth(i) - 1 ELSE Depth(i)
            IN n = Len(opts.gap) * d

\* parse rebuilds the values stringify has written, in new objects.
RoundTrip ==
    pend.at = "parsed" => Meaning(jheap, parsed, {}) = json_parse_string(text).tree

\* stringify writes one JSON value, laid out by the gap, also when callbacks change
\* what it is writing; without callbacks it is the value given, and parse reads it back.
JsonExact ==
  /\ JsonTypeOK
  /\ StackAndIndent
  /\ TextParses
  /\ TextExact
  /\ LayoutExact
  /\ RoundTrip
=============================================================================
