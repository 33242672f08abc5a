------------------------------- MODULE EjsOps -------------------------------
(***************************************************************************)
(* Conversions and operators (ejs-ops.c).  Converting an object runs the   *)
(* program's own methods, so an operator yields its result together with   *)
(* the methods it has called, in order.  Doubles are integers, NaN and the *)
(* negative zero, ints have Bits bits, strings are sequences of code units.*)
(***************************************************************************)
EXTENDS Integers, Sequences, Bitwise

CONSTANTS Bits,         \* width of an int (32)
          Operands,     \* values the program uses
          Conversions,  \* the ways its objects answer toPrimitive, valueOf and toString
          Ints          \* numbers converted to ints and to text

ASSUME OpsAssumption == Bits \in Nat \ {0} /\ Ints \subseteq Int

VARIABLES conv,  \* conv[o][m]: what method m of object o returns
          last   \* the last operation, its operands and what came of it
opsvars == <<conv, last>>

Number(n) == [t |-> "num", k |-> "int", n |-> n]
NaN == [t |-> "num", k |-> "nan", n |-> 0]
NegZero == [t |-> "num", k |-> "negzero", n |-> 0]
String(s) == [t |-> "str", s |-> s]
Boolean(b) == [t |-> "bool", b |-> b]
Thrown == [t |-> "throw"]
Abort == [t |-> "abort"]
Stops(v) == v.t \in {"throw", "abort"}

NoOperation == [op |-> "none"]
OpsInit == conv \in Conversions /\ last = NoOperation

----------------------------------------------------------------------------
(* Calls of methods.  A method is absent, throws, or returns an object or a *)
(* primitive value.                                                         *)

Plain(v) == [v |-> v, calls |-> <<>>]
\* Go on with the value of r, unless there is none.
Then(r, F(_)) ==
  IF Stops(r.v) THEN r ELSE LET s == F(r.v) IN [v |-> s.v, calls |-> r.calls \o s.calls]

\* OrdinaryToPrimitive: the first method that returns a primitive.
RECURSIVE FirstPrimitive(_, _)
FirstPrimitive(o, names) ==
  IF names = <<>> THEN Plain(Thrown)
  ELSE LET a == conv[o][Head(names)]
           rest == FirstPrimitive(o, Tail(names))
           call == <<<<o, Head(names)>>>>
       IN  IF a.t = "absent" THEN rest
           ELSE IF a.t = "obj" THEN [v |-> rest.v, calls |-> call \o rest.calls]
           ELSE [v |-> a, calls |-> call]

OrdinaryToPrimitive(o, hint) ==
  FirstPrimitive(o, IF hint = "string" THEN <<"toString", "valueOf">> ELSE <<"valueOf", "toString">>)

ToPrimitive(x, hint) ==
  IF x.t # "obj" THEN Plain(x)
  ELSE LET a == conv[x.o]["toPrimitive"]
       IN  IF a.t = "absent" THEN OrdinaryToPrimitive(x.o, IF hint = "default" THEN "number" ELSE hint)
           ELSE [v |-> IF a.t = "obj" THEN Thrown ELSE a, calls |-> <<<<x.o, "toPrimitive">>>>]

----------------------------------------------------------------------------
(* Conversions.                                                            *)

\* strtod, for texts of at most one unit: white space and the empty text are 0.
strtod(s) ==
  IF s = <<>> THEN Number(0)
  ELSE IF Len(s) = 1 /\ s[1] \in 48..57 THEN Number(s[1] - 48) ELSE NaN

\* ToNumber of what is no object; there is no case for null.
PrimitiveToNumber(v) ==
  CASE v.t = "num" -> v
    [] v.t = "bool" -> Number(IF v.b THEN 1 ELSE 0)
    [] v.t = "str" -> strtod(v.s)
    [] v.t = "sym" -> Thrown
    [] v.t = "undefined" -> NaN
    [] v.t = "null" -> Abort

\* What a conversion to int32_t leaves of an integer.
Wrap(n) == LET r == n % 2^Bits IN IF r >= 2^(Bits - 1) THEN r - 2^Bits ELSE r
\* The remainder of C has the sign of the dividend.
Remainder(i, n) == IF i >= 0 THEN i % n ELSE -((-i) % n)
ToInt32(n) ==
  LET int32bit == Remainder(n, 2^Bits)
  IN  Wrap(IF int32bit >= 2^(Bits - 1) THEN int32bit - 2^Bits ELSE int32bit)
ToInteger(n) == n

\* Bits of an int as a natural number.
Unsigned(i) == i % 2^Bits
_ejs_op_bitwise_xor(x, y) == Wrap(Unsigned(ToInt32(x)) ^^ Unsigned(ToInt32(y)))
_ejs_op_bitwise_and(x, y) == Wrap(Unsigned(Wrap(ToInteger(x))) & Unsigned(Wrap(ToInteger(y))))
_ejs_op_bitwise_or(x, y) == Wrap(Unsigned(Wrap(ToInteger(x))) | Unsigned(Wrap(ToInteger(y))))
_ejs_op_bitwise_not(x) == -Wrap(ToInteger(x)) - 1

\* Digits of a number in a base, from behind.
Digit(d) == IF d < 10 THEN 48 + d ELSE 87 + d
RECURSIVE Backfill(_, _)
Backfill(u, base) ==
  LET rest == u \div base
  IN  Append(IF rest = 0 THEN <<>> ELSE Backfill(rest, base), Digit(u % base))
IntToUCS2(i, base) ==
  IF i < 0 THEN <<45>> \o Backfill(-i, base) ELSE Backfill(i, base)

\* parseInt: sign, prefix, and the digits up to the first that is none.
DigitValue(c) ==
  IF c \in 48..57 THEN c - 48 ELSE IF c \in 97..102 THEN c - 87 ELSE IF c \in 65..70 THEN c - 55 ELSE 99
RECURSIVE Digits(_, _, _)
Digits(s, base, mathInt) ==
  IF s = <<>> \/ DigitValue(s[1]) >= base THEN mathInt
  ELSE Digits(Tail(s), base, mathInt * base + DigitValue(s[1]))
Signed(s) == s # <<>> /\ s[1] \in {43, 45}
Prefixed(s) == Len(s) > 2 /\ s[1] = 48 /\ s[2] \in {88, 120}
_ejs_parseInt_impl(s, radix) ==
  LET u == IF Signed(s) THEN Tail(s) ELSE s
      strip == radix \in {0, 16} /\ Prefixed(u)
      base == IF strip THEN 16 ELSE IF radix = 0 THEN 10 ELSE radix
      z == IF strip THEN SubSeq(u, 3, Len(u)) ELSE u
  IN  IF base \notin 2..36 THEN NaN
      ELSE IF base \notin {8, 10, 16} THEN Abort
      ELSE IF z = <<>> \/ DigitValue(z[1]) >= base THEN NaN
      ELSE Number(Digits(z, base, 0) * IF s[1] = 45 THEN -1 ELSE 1)

----------------------------------------------------------------------------
(* Comparisons.                                                            *)

\* The comparisons of doubles in C.
Ordered(x, y) == x.k # "nan" /\ y.k # "nan"
DoubleEq(x, y) == Ordered(x, y) /\ x.n = y.n
DoubleLt(x, y) == Ordered(x, y) /\ x.n < y.n

\* EJSVAL_TO_TAG: the type; of a double, its sign, exponent and first bits of
\* the fraction, which numbers close to each other share.
HighBits(n) == IF n = 0 THEN 0 ELSE IF n > 0 THEN 1 + n \div 2 ELSE -1 - (-n) \div 2
Tag(x) == IF x.t = "num" THEN <<"num", x.k, HighBits(x.n)>> ELSE <<x.t>>

\* ucs2_strcmp(s, t) < 0
StrLess(s, t) ==
  \E n \in 0..Len(s) :
     /\ n < Len(t) /\ SubSeq(s, 1, n) = SubSeq(t, 1, n)
     /\ n = Len(s) \/ s[n + 1] < t[n + 1]

StrictEq(x, y) ==
  Tag(x) = Tag(y) /\ IF x.t = "num" THEN DoubleEq(x, y) ELSE x = y

\* The abstract equality; the steps are tried in order.
RECURSIVE _ejs_op_eq(_, _)
_ejs_op_eq(x, y) ==
  IF Tag(x) = Tag(y) THEN Plain(Boolean(StrictEq(x, y)))
  ELSE IF {x.t, y.t} = {"null", "undefined"} THEN Plain(Boolean(TRUE))
  ELSE IF x.t = "num" /\ y.t = "str" THEN _ejs_op_eq(x, PrimitiveToNumber(y))
  ELSE IF x.t = "str" /\ y.t = "num" THEN _ejs_op_eq(PrimitiveToNumber(x), y)
  ELSE IF x.t = "bool" THEN _ejs_op_eq(PrimitiveToNumber(x), y)
  ELSE IF y.t = "bool" THEN _ejs_op_eq(x, PrimitiveToNumber(y))
  ELSE IF x.t \in {"str", "num", "sym"} /\ y.t = "obj"
       THEN Then(ToPrimitive(y, "default"), LAMBDA p : _ejs_op_eq(x, p))
  ELSE IF x.t = "obj" /\ y.t \in {"str", "num", "sym"}
       THEN Then(ToPrimitive(x, "default"), LAMBDA p : _ejs_op_eq(p, y))
  ELSE Plain(Boolean(FALSE))

\* Two strings or two numbers.
Smaller(a, b) == IF a.t = "str" THEN StrLess(a.s, b.s) ELSE DoubleLt(a, b)
NotLarger(a, b) == IF a.t = "str" THEN ~StrLess(b.s, a.s) ELSE DoubleLt(a, b) \/ DoubleEq(a, b)
Holds(op, a, b) == CASE op = "<" -> Smaller(a, b) [] op = "<=" -> NotLarger(a, b)
                     [] op = ">" -> Smaller(b, a) [] op = ">=" -> NotLarger(b, a)

\* The relational operators convert the left operand, then the right one, and
\* compare two strings, or else two numbers.
Compared(op, l, r) ==
  IF l.t = "str" /\ r.t = "str" THEN Plain(Boolean(Holds(op, l, r)))
  ELSE Then(Plain(PrimitiveToNumber(l)), LAMBDA m :
         Then(Plain(PrimitiveToNumber(r)), LAMBDA n : Plain(Boolean(Holds(op, m, n)))))
Relational(op, x, y) ==
  Then(ToPrimitive(x, "number"), LAMBDA l :
    Then(ToPrimitive(y, "number"), LAMBDA r : Compared(op, l, r)))

LessThan(x, y) == Relational("<", x, y)
_ejs_op_le(x, y) == Relational("<=", x, y)
_ejs_op_gt(x, y) == Relational(">", x, y)

\* Fault: x >= y is taken to be not x < y, which NaN refutes.
NotLess(x, y) == Then(LessThan(x, y), LAMBDA less : Plain(Boolean(~less.b)))

_ejs_op_ge(x, y) == Relational(">=", x, y)

----------------------------------------------------------------------------
(* The program applies one operator.                                       *)

Results(op, x, y) ==
  CASE op = "==" -> _ejs_op_eq(x, y)
    [] op = "<" -> LessThan(x, y)
    [] op = "<=" -> _ejs_op_le(x, y)
    [] op = ">" -> _ejs_op_gt(x, y)
    [] op = ">=" -> _ejs_op_ge(x, y)

Apply(op, x, y) ==
  /\ last = NoOperation
  /\ last' = [op |-> op, x |-> x, y |-> y, v |-> Results(op, x, y).v, calls |-> Results(op, x, y).calls]
  /\ UNCHANGED conv

BitOperation(x, y) ==
  /\ last = NoOperation
  /\ last' = [op |-> "bits", x |-> x, y |-> y, xor |-> _ejs_op_bitwise_xor(x, y),
              and |-> _ejs_op_bitwise_and(x, y), or |-> _ejs_op_bitwise_or(x, y),
              not |-> _ejs_op_bitwise_not(x)]
  /\ UNCHANGED conv

\* Print a number in a base, and read it with a radix, a prefix or a suffix.
PrintAndParse(n, base, radix, prefix, suffix) ==
  LET text == IntToUCS2(n, base)
      s == IF n < 0 THEN <<45>> \o prefix \o Tail(text) ELSE prefix \o text
  IN  /\ last = NoOperation
      /\ last' = [op |-> "parseInt", n |-> n, v |-> _ejs_parseInt_impl(s \o suffix, radix)]
      /\ UNCHANGED conv

OpsNext ==
  \/ \E op \in {"==", "<", "<=", ">", ">="}, x, y \in Operands : Apply(op, x, y)
  \/ \E x, y \in Ints : BitOperation(x, y)
  \/ \E n \in Ints, suffix \in {<<>>, <<122, 49>>} :
        \/ \E base \in {8, 10, 16} : PrintAndParse(n, base, base, <<>>, suffix)
        \/ PrintAndParse(n, 10, 0, <<>>, suffix)
        \/ \E radix \in {0, 16} : PrintAndParse(n, 16, radix, <<48, 120>>, suffix)

----------------------------------------------------------------------------
(* Properties.                                                             *)

\* x == y and y == x have the same result and run the same methods, although
\* _ejs_op_eq treats the two sides by different steps.
EqSymmetric ==
  last.op = "==" =>
    LET r == _ejs_op_eq(last.y, last.x) IN last.v = r.v /\ last.calls = r.calls

Mirror == [op \in {"<", "<=", ">", ">="} |->
             CASE op = "<" -> ">" [] op = "<=" -> ">=" [] op = ">" -> "<" [] op = ">=" -> "<="]

\* Exchanging the operands and turning the operator round gives the same
\* answer, NaN, strings and converted objects included; x <= y only if x < y
\* or x >= y, and never x < y and x >= y: the four functions agree.
OrderMirrors ==
  last.op \in DOMAIN Mirror /\ ~Stops(last.v) =>
    /\ Results(Mirror[last.op], last.y, last.x).v = last.v
    /\ last.op = "<=" /\ last.v.b => LessThan(last.x, last.y).v.b \/ _ejs_op_ge(last.x, last.y).v.b
    /\ last.op = "<" /\ last.v.b => ~_ejs_op_ge(last.x, last.y).v.b

CallsOn(o) == SelectSeq(last.calls, LAMBDA c : c[1] = o)

\* A conversion asks toPrimitive alone if the object has it, else valueOf and
\* then toString, nothing behind the first that returns a primitive or throws,
\* and the right operand only after the left one has been converted.
ConversionOrder ==
  last.op \in DOMAIN Mirror \cup {"=="} /\ last.x # last.y =>
    /\ \A o \in DOMAIN conv :
         LET c == CallsOn(o)
             ends == \A k \in 1..(Len(c) - 1) : conv[o][c[k][2]].t = "obj"
             methods == [k \in DOMAIN c |-> c[k][2]]
         IN  /\ conv[o]["toPrimitive"].t # "absent" => methods \in {<<>>, <<"toPrimitive">>}
             /\ conv[o]["toPrimitive"].t = "absent" =>
                  methods \in {<<>>, <<"valueOf">>, <<"toString">>, <<"valueOf", "toString">>}
             /\ methods = <<"toString">> => conv[o]["valueOf"].t = "absent"
             /\ ends
    /\ last.x.t = "obj" /\ last.y.t = "obj" =>
         \A j, k \in DOMAIN last.calls :
            last.calls[j][1] = last.y.o /\ last.calls[k][1] = last.x.o => k < j

\* The bitwise operators agree on numbers outside the range of an int as well,
\* though xor converts with ToInt32 and the others with ToInteger.
BitwiseAgree ==
  last.op = "bits" =>
    /\ (last.xor - (last.or - last.and)) % 2^Bits = 0
    /\ last.not = -1 - ToInt32(last.x)
    /\ {last.xor, last.and, last.or, last.not} \subseteq (-(2^(Bits - 1)))..(2^(Bits - 1) - 1)

\* parseInt reads back what NumberToString prints, in every radix it supports,
\* with a prefix 0x, and with something behind the digits.
ParseInverts == last.op = "parseInt" => last.v = Number(last.n)

\* The operators agree with each other and with the conversions below them: equality
\* and order under exchange of the operands, the order of conversions, int ranges,
\* and numbers as text.
OperatorsAgree ==
  /\ EqSymmetric
  /\ OrderMirrors
  /\ ConversionOrder
  /\ BitwiseAgree
  /\ ParseInverts
=============================================================================
