------------------------------ MODULE MCEjsText ------------------------------
(***************************************************************************)
(* Strings, JSON, regular expressions and operators.  They share no state: *)
(* each has its own form of a text, units, tokens or positions, so each    *)
(* behaviour exercises one of them.                                        *)
(***************************************************************************)
EXTENDS EjsString, EjsJSON, EjsRegExp, EjsOps

\* "aba\u00e9", " $&$'$10"
MCLiterals == << <<97, 98, 97, 233>>, <<32, 36, 38, 36, 39, 36, 49, 48>> >>
MCOffsets == {-1, 2}
MCCodePoints == {8364, 128512, 1114112}

Obj(i) == [t |-> "obj", id |-> i]
\* The letter a; a quote, a backslash, a line feed, a control character, b.
KeyA == <<97>>
KeyB == <<34, 92, 10, 1, 98>>

\* An object with two properties, an array, and an object that both may hold.
MCValues == {Undefined, Obj(3)}
Firsts == {Undefined, Obj(2)}
Seconds == {[t |-> "str", u |-> KeyB], Obj(3)}
Lists == {<<>>, <<[t |-> "fn"], Obj(3)>>}
Thirds == {[kind |-> "object", props |-> <<>>, toJSON |-> FALSE],
           [kind |-> "object", props |-> <<<<KeyB, [t |-> "nan"]>>>>, toJSON |-> FALSE],
           [kind |-> "object", props |-> <<<<KeyA, [t |-> "num"]>>>>, toJSON |-> TRUE]}
MCHeaps == {<<[kind |-> "object", props |-> <<<<KeyA, f>>, <<KeyB, s>>>>, toJSON |-> FALSE],
              [kind |-> "array", elems |-> l, toJSON |-> FALSE],
              t>> : f \in Firsts, s \in Seconds, l \in Lists, t \in Thirds}
MCSpaces == {[t |-> "none"], [t |-> "num", n |-> 0], [t |-> "num", n |-> 3],
             [t |-> "str", n |-> 0]}
MCPropertyLists == {<<>>, <<KeyB>>, <<KeyB, KeyA>>}

MCFlagTexts == {<<>>, <<"g">>, <<"y", "g">>, <<"y">>, <<"g", "g">>}

\* Object 1 answers each conversion in every way, object 2 in two.
Missing == [t |-> "absent"]
Object(i) == [t |-> "obj", o |-> i]
Exotics == {Missing, NegZero}
ValueOfs == {Missing, Object(1), Number(1), Thrown}
ToStrings == {Missing, String(<<49>>), [t |-> "null"]}
Others == {[toPrimitive |-> Missing, valueOf |-> Object(2), toString |-> String(<<120>>)],
           [toPrimitive |-> Object(1), valueOf |-> Number(2), toString |-> Thrown]}
MCConversions ==
  {<<[toPrimitive |-> p, valueOf |-> v, toString |-> s], o>> :
     p \in Exotics, v \in ValueOfs, s \in ToStrings, o \in Others}
MCOperands ==
  {[t |-> "undefined"], [t |-> "null"], [t |-> "sym"], Boolean(TRUE), Boolean(FALSE),
   Number(0), Number(1), Number(2), Number(3), NaN, NegZero,
   String(<<>>), String(<<49>>), String(<<49, 120>>), Object(1), Object(2)}
MCInts == {0, 1, 7, 8, 10, 15, 16, 23, 31, -1, -8, -9, -24, -255}

VARIABLE part
vars == <<part, strvars, jsonvars, revars, opsvars>>

Init == /\ part \in {"strings", "json", "regexp", "operators"}
        /\ StrInit /\ JsonInit /\ ReInit /\ OpsInit
        /\ part # "json" => jheap = CHOOSE h \in MCHeaps : TRUE
        /\ part # "regexp" => /\ size = 0 /\ pat[0] = NoMatch /\ caps = 0
                              /\ ~own /\ ~re.global /\ ~re.sticky
        /\ part # "operators" => conv = CHOOSE c \in MCConversions : TRUE

Next == \/ part = "strings" /\ StrNext /\ UNCHANGED <<part, jsonvars, revars, opsvars>>
        \/ part = "json" /\ JsonNext /\ UNCHANGED <<part, strvars, revars, opsvars>>
        \/ part = "regexp" /\ ReNext /\ UNCHANGED <<part, strvars, jsonvars, opsvars>>
        \/ part = "operators" /\ OpsNext /\ UNCHANGED <<part, strvars, jsonvars, revars>>

Spec == Init /\ [][Next]_vars /\ ReFairness
=============================================================================
