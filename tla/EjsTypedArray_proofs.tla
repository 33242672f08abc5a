------------------------ MODULE EjsTypedArray_proofs ------------------------
(***************************************************************************)
(* However buffers, windows and views are stacked and collected, a view    *)
(* the program can reach addresses bytes that exist: for any numbers,      *)
(* indices, windows, spans and sizes of buffers.                           *)
(***************************************************************************)
EXTENDS EjsTypedArray, WellFoundedInduction, SequenceTheorems, TLAPS

Octet == 0 .. Byte - 1
Blocks == UNION {[1 .. n -> Octet] : n \in Nat}

BufferRec ==
    [dependent : BOOLEAN, size : Int, buf : Nat \union {Nil}, offset : Int, data : Blocks \union {Freed}]

\* A window lies in the buffer under it, which is older, unless one of them has a
\* negative size; the bytes of another buffer are there or freed.
OkBuffer(bs, b) ==
    /\ bs[b].size <= BufferSize
    /\ bs[b].dependent =>
        /\ bs[b].buf \in 1 .. b - 1
        /\ bs[b].size >= 0 /\ bs[bs[b].buf].size >= 0 =>
            0 <= bs[b].offset /\ bs[b].offset + bs[b].size <= bs[bs[b].buf].size
    /\ ~bs[b].dependent =>
        /\ bs[b].size \in Nat
        /\ bs[b].data # Freed => bs[b].data \in [1 .. bs[b].size -> Octet]

IsBuffers(bs) == bs \in Seq(BufferRec) /\ \A b \in 1 .. Len(bs) : OkBuffer(bs, b)

ViewRec == [type : Types \union {"DataView"}, buffer : Nat, byteOffset : Nat, length : Nat]

\* A typed array lies in its buffer, unless the size of this one is negative.
OkView(bs, v) ==
    /\ v \in ViewRec
    /\ v.buffer \in 1 .. Len(bs)
    /\ v.type # "DataView" /\ bs[v.buffer].size >= 0 =>
        v.byteOffset + v.length * elsize(v.type) <= bs[v.buffer].size

IsViews(bs, vs) == vs \in Seq(ViewRec) /\ \A i \in 1 .. Len(vs) : OkView(bs, vs[i])

\* With a buffer K has the one under it, and no bytes of K are freed.
Kept(bs, K) ==
    \A b \in K : /\ b \in 1 .. Len(bs)
                 /\ bs[b].dependent => bs[b].buf \in K
                 /\ ~bs[b].dependent => bs[b].data # Freed

\* K has the buffers the program, or a running method, can reach.
Holds(vs, n, roots, K) ==
    /\ \A b \in 1 .. n : Buffer(b) \in roots => b \in K
    /\ \A i \in 1 .. Len(vs) : View(i) \in roots => vs[i].buffer \in K

\* The running method works inside its array.
IsCall(vs, c) ==
    /\ c = [op |-> c.op, v |-> c.v, k |-> c.k, len |-> c.len, A |-> c.A, off |-> c.off, got |-> c.got]
    /\ c.v \in 1 .. Len(vs)
    /\ c.k \in Nat /\ c.len \in Nat /\ c.off \in Nat /\ c.k < c.len
    /\ c.len + c.off <= vs[c.v].length
    /\ c.A # Nil \/ c.op = "map" => c.A \in 1 .. Len(vs)

\* The inductive invariant.
BytesInv ==
    /\ IsBuffers(buffers)
    /\ IsViews(buffers, views)
    /\ call # Nil => IsCall(views, call)
    /\ \E K : Kept(buffers, K) /\ Holds(views, Len(buffers), Roots, K)

\* What the program asks for fits in the integers of the machine: an offset in a
\* buffer is not negative, and the end of a view does not wrap.
Fits ==
    /\ \A w \in Windows : w[2] >= 0
    /\ \A s \in Spans : s[2] # undefined => U32(s[2]) + BufferSize < Word /\ U32(s[2] * 2) + BufferSize < Word

-----------------------------------------------------------------------------
(* Induction and recursion along an interval.  Sets and functions take the   *)
(* place of operator parameters.                                             *)

\* A set that contains 0 and with a number the next one contains all.
LEMMA Induction ==
    ASSUME NEW P, 0 \in P, \A n \in Nat : n \in P => n + 1 \in P
    PROVE  \A n \in Nat : n \in P
<1> DEFINE T == {n \in Nat : n \notin P}
<1> SUFFICES ASSUME T # {} PROVE FALSE
  OBVIOUS
<1>1. T \subseteq Nat
  OBVIOUS
<1>2. PICK x \in T : \A y \in T : ~(<<y, x>> \in OpToRel(<, Nat))
  BY <1>1, NatLessThanWellFounded, WFMin
<1>3. x \in Nat /\ x # 0 /\ x - 1 \in Nat /\ x - 1 + 1 = x
  OBVIOUS
<1>4. x - 1 \in T
  BY <1>3
<1>5. <<x - 1, x>> \in OpToRel(<, Nat)
  BY <1>3 DEF OpToRel
<1> QED
  BY <1>2, <1>4, <1>5

\* The same up to a bound.
LEMMA BoundedInduction ==
    ASSUME NEW N \in Nat, NEW P, 0 \in P, \A n \in 0 .. N - 1 : n \in P => n + 1 \in P
    PROVE  \A n \in 0 .. N : n \in P
<1> DEFINE Q == {n \in Nat : n \in 0 .. N => n \in P}
<1>1. 0 \in Q
  OBVIOUS
<1>2. ASSUME NEW n \in Nat, n \in Q PROVE n + 1 \in Q
  <2>1. CASE n + 1 \in 0 .. N
    <3>1. n \in 0 .. N - 1 /\ n \in 0 .. N
      BY <2>1
    <3> QED
      BY <1>2, <3>1
  <2>2. CASE n + 1 \notin 0 .. N
    BY <2>2
  <2> QED
    BY <2>1, <2>2
<1> HIDE DEF Q
<1>3. \A n \in Nat : n \in Q
  BY <1>1, <1>2, Induction
<1> QED
  BY <1>3 DEF Q

Iterates(N, x0, step, f) == f[0] = x0 /\ \A i \in 1 .. N : f[i] = step[<<i, f[i - 1]>>]

\* A function defined by recursion exists.
LEMMA Recursion ==
    ASSUME NEW N \in Nat, NEW S, NEW x0 \in S, NEW step \in [(1 .. N) \X S -> S]
    PROVE  \E f \in [0 .. N -> S] : Iterates(N, x0, step, f)
<1> DEFINE Good(n, f) == f[0] = x0 /\ \A i \in 1 .. n : f[i] = step[<<i, f[i - 1]>>]
           P == {n \in 0 .. N : \E f \in [0 .. n -> S] : Good(n, f)}
<1>1. 0 \in P
  <2> DEFINE f == [i \in 0 .. 0 |-> x0]
  <2>1. f \in [0 .. 0 -> S] /\ f[0] = x0 /\ 1 .. 0 = {}
    OBVIOUS
  <2> HIDE DEF f
  <2>2. \E ff \in [0 .. 0 -> S] : Good(0, ff)
    BY <2>1
  <2>3. 0 \in 0 .. N
    OBVIOUS
  <2> QED
    BY <2>2, <2>3
<1>2. ASSUME NEW n \in 0 .. N - 1, n \in P PROVE n + 1 \in P
  <2>1. PICK f \in [0 .. n -> S] : Good(n, f)
    BY <1>2
  <2> DEFINE g == [i \in 0 .. n + 1 |-> IF i = n + 1 THEN step[<<n + 1, f[n]>>] ELSE f[i]]
  <2>2. n \in 0 .. n /\ <<n + 1, f[n]>> \in (1 .. N) \X S
    OBVIOUS
  <2>3. g \in [0 .. n + 1 -> S]
    BY <2>2
  <2>4. g[0] = x0 /\ g[n + 1] = step[<<n + 1, f[n]>>] /\ g[n] = f[n]
    BY <2>1
  <2>5. ASSUME NEW i \in 1 .. n PROVE g[i] = step[<<i, g[i - 1]>>]
    <3>1. g[i] = f[i] /\ g[i - 1] = f[i - 1]
      OBVIOUS
    <3> QED
      BY <2>1, <3>1
  <2>6. n + 1 - 1 = n /\ \A i \in 1 .. n + 1 : i \in 1 .. n \/ i = n + 1
    OBVIOUS
  <2> HIDE DEF g
  <2>7. ASSUME NEW i \in 1 .. n + 1 PROVE g[i] = step[<<i, g[i - 1]>>]
    <3>1. CASE i = n + 1
      BY <2>4, <2>6, <3>1
    <3> QED
      BY <2>5, <2>6, <3>1
  <2>8. n + 1 \in 0 .. N
    OBVIOUS
  <2> QED
    BY <2>3, <2>4, <2>7, <2>8
<1> HIDE DEF P
<1>3. \A n \in 0 .. N : n \in P
  BY <1>1, <1>2, BoundedInduction
<1> QED
  BY <1>3 DEF P, Iterates

\* The function a loop or a recursion defines.
Recursive(N, x0, step, f) == f = [n \in 0 .. N |-> IF n = 0 THEN x0 ELSE step[<<n, f[n - 1]>>]]

LEMMA RecursiveFunction ==
    ASSUME NEW N \in Nat, NEW S, NEW x0 \in S, NEW step \in [(1 .. N) \X S -> S]
    PROVE  \E f \in [0 .. N -> S] : Recursive(N, x0, step, f)
<1>1. PICK f \in [0 .. N -> S] : f[0] = x0 /\ \A n \in 1 .. N : f[n] = step[<<n, f[n - 1]>>]
  <2>1. \E f \in [0 .. N -> S] : Iterates(N, x0, step, f)
    BY Recursion
  <2> QED
    BY <2>1 DEF Iterates
<1>2. ASSUME NEW n \in 0 .. N PROVE f[n] = IF n = 0 THEN x0 ELSE step[<<n, f[n - 1]>>]
  <2>1. n = 0 \/ n \in 1 .. N
    OBVIOUS
  <2>2. CASE n = 0
    BY <1>1, <2>2
  <2>3. CASE n # 0
    BY <1>1, <2>1, <2>3
  <2> QED
    BY <2>2, <2>3
<1>3. f = [n \in 0 .. N |-> f[n]]
  OBVIOUS
<1>4. f = [n \in 0 .. N |-> IF n = 0 THEN x0 ELSE step[<<n, f[n - 1]>>]]
  <2> DEFINE G(n) == IF n = 0 THEN x0 ELSE step[<<n, f[n - 1]>>]
  <2>1. \A n \in 0 .. N : f[n] = G(n)
    BY <1>2
  <2> HIDE DEF G
  <2>2. f = [n \in 0 .. N |-> G(n)]
    BY <1>3, <2>1
  <2> QED
    BY <2>2 DEF G
<1> QED
  BY <1>4 DEF Recursive

\* What holds at first and after each step holds all along.
LEMMA AllAlong ==
    ASSUME NEW N \in Nat, NEW S, NEW f, f[0] \in S, \A n \in 1 .. N : f[n - 1] \in S => f[n] \in S
    PROVE  \A n \in 0 .. N : f[n] \in S
<1> DEFINE P == {n \in 0 .. N : f[n] \in S}
<1>1. 0 \in P
  OBVIOUS
<1>2. ASSUME NEW n \in 0 .. N - 1, n \in P PROVE n + 1 \in P
  <2>1. n + 1 \in 1 .. N /\ n + 1 - 1 = n /\ n + 1 \in 0 .. N /\ f[n] \in S
    BY <1>2
  <2> QED
    BY <2>1
<1> HIDE DEF P
<1>3. \A n \in 0 .. N : n \in P
  BY <1>1, <1>2, BoundedInduction
<1> QED
  BY <1>3 DEF P

-----------------------------------------------------------------------------
(* Numbers.                                                                 *)

LEMMA MaxOf ==
    ASSUME NEW a \in Int, NEW b \in Int
    PROVE  Max({a, b}) = IF a >= b THEN a ELSE b
<1>1. ASSUME NEW x \in {a, b}, \A y \in {a, b} : x >= y PROVE x = IF a >= b THEN a ELSE b
  BY <1>1
<1>2. \E x \in {a, b} : \A y \in {a, b} : x >= y
  <2>1. CASE a >= b
    BY <2>1
  <2>2. CASE b >= a
    BY <2>2
  <2> QED
    BY <2>1, <2>2
<1>3. Max({a, b}) \in {a, b} /\ \A y \in {a, b} : Max({a, b}) >= y
  BY <1>2 DEF Max
<1> QED
  BY <1>1, <1>3

LEMMA MinOf ==
    ASSUME NEW a \in Int, NEW b \in Int
    PROVE  Min({a, b}) = IF a <= b THEN a ELSE b
<1>1. ASSUME NEW x \in {a, b}, \A y \in {a, b} : x <= y PROVE x = IF a <= b THEN a ELSE b
  BY <1>1
<1>2. \E x \in {a, b} : \A y \in {a, b} : x <= y
  <2>1. CASE a <= b
    BY <2>1
  <2>2. CASE b <= a
    BY <2>2
  <2> QED
    BY <2>1, <2>2
<1>3. Min({a, b}) \in {a, b} /\ \A y \in {a, b} : Min({a, b}) <= y
  BY <1>2 DEF Min
<1> QED
  BY <1>1, <1>3

LEMMA U32Is ==
    ASSUME NEW x \in Int
    PROVE  /\ U32(x) \in Nat /\ U32(x) < Word
           /\ x >= 0 /\ x < Word => U32(x) = x
<1>1. Word \in Nat /\ Word > 0
  BY SizeAssumption
<1>2. x % Word \in 0 .. Word - 1
  BY <1>1
<1>3. x >= 0 /\ x < Word => x % Word = x
  BY <1>1
<1> QED
  BY <1>1, <1>2, <1>3 DEF U32

LEMMA SizeIs ==
    ASSUME NEW type
    PROVE  /\ elsize(type) \in {1, 2}
           /\ \A n \in Int : n * elsize(type) \in Int /\ (n >= 0 => n * elsize(type) >= n)
           /\ \A n \in Nat : n * elsize(type) \in Nat
<1>1. elsize(type) \in {1, 2}
  BY DEF elsize
<1>2. CASE elsize(type) = 1
  BY <1>2
<1>3. CASE elsize(type) = 2
  BY <1>3
<1> QED
  BY <1>1, <1>2, <1>3

LEMMA SizeNat == ASSUME NEW type PROVE elsize(type) \in Nat
BY DEF elsize

LEMMA TimesIs ==
    ASSUME NEW type, NEW m, m \in Int
    PROVE  m * elsize(type) \in Int
BY SizeIs

LEMMA RelativeIs ==
    ASSUME NEW n \in Nat, NEW r \in Int
    PROVE  RelativeIndex(r, n) \in 0 .. n
<1>1. CASE r < 0
  <2>1. Max({n + r, 0}) \in 0 .. n
    BY <1>1, MaxOf
  <2> QED
    BY <1>1, <2>1 DEF RelativeIndex
<1>2. CASE ~(r < 0)
  <2>1. Min({r, n}) \in 0 .. n
    BY <1>2, MinOf
  <2> QED
    BY <1>2, <2>1 DEF RelativeIndex
<1> QED
  BY <1>1, <1>2

LEMMA EndIs ==
    ASSUME NEW n \in Nat, NEW e \in Int \union {undefined}
    PROVE  EndIndex(e, n) \in 0 .. n
BY RelativeIs, ValueAssumption DEF EndIndex

-----------------------------------------------------------------------------
(* The way down from a buffer to the one that has the bytes.                *)

Below(bs, p) ==
    IF bs[p.root].dependent THEN [root |-> bs[p.root].buf, at |-> p.at + bs[p.root].offset] ELSE p

LEMMA BufferIs ==
    ASSUME NEW bs, IsBuffers(bs), NEW b \in 1 .. Len(bs)
    PROVE  bs[b] \in BufferRec /\ OkBuffer(bs, b) /\ b \in Nat /\ b >= 1
<1>1. bs \in Seq(BufferRec) /\ OkBuffer(bs, b)
  BY DEF IsBuffers
<1> QED
  BY <1>1

LEMMA BelowIs ==
    ASSUME NEW bs, IsBuffers(bs), NEW p \in [root : 1 .. Len(bs), at : Int]
    PROVE  Below(bs, p) \in [root : 1 .. Len(bs), at : Int]
<1>1. p.root \in 1 .. Len(bs) /\ p.at \in Int
  OBVIOUS
<1>2. bs[p.root] \in BufferRec /\ OkBuffer(bs, p.root)
  BY <1>1, BufferIs
<1>3. CASE bs[p.root].dependent
  <2>1. bs[p.root].buf \in 1 .. p.root - 1
    BY <1>2, <1>3 DEF OkBuffer
  <2>2. Len(bs) \in Nat
    BY DEF IsBuffers
  <2>3. bs[p.root].buf \in 1 .. Len(bs)
    BY <1>1, <2>1, <2>2
  <2>4. p.at + bs[p.root].offset \in Int
    BY <1>1, <1>2 DEF BufferRec
  <2> QED
    BY <1>3, <2>3, <2>4 DEF Below
<1> QED
  BY <1>3 DEF Below

LEMMA WalkIs ==
    ASSUME NEW bs, IsBuffers(bs), NEW b \in 1 .. Len(bs)
    PROVE  /\ b \in Nat
           /\ Walk(bs, b)[0] = [root |-> b, at |-> 0]
           /\ \A n \in 1 .. b : Walk(bs, b)[n] = Below(bs, Walk(bs, b)[n - 1])
           /\ \A n \in 0 .. b : Walk(bs, b)[n] \in [root : 1 .. Len(bs), at : Int]
<1> DEFINE S == [root : 1 .. Len(bs), at : Int]
           x0 == [root |-> b, at |-> 0]
           Eq(f) == f = [n \in 0 .. b |-> IF n = 0 THEN x0 ELSE Below(bs, f[n - 1])]
           f == CHOOSE f : Eq(f)
           step == [p \in (1 .. b) \X S |-> Below(bs, p[2])]
<1>1. Walk(bs, b) = f
  BY DEF Walk, Below
<1>2. b \in Nat
  BY BufferIs
<1>3. x0 \in S
  OBVIOUS
<1>4. \A p \in S : Below(bs, p) \in S
  BY BelowIs
<1> HIDE DEF S, x0
<1>5. step \in [(1 .. b) \X S -> S] /\ \A n \in 1 .. b, p \in S : step[<<n, p>>] = Below(bs, p)
  BY <1>4
<1> HIDE DEF step
<1>6. PICK g \in [0 .. b -> S] : Recursive(b, x0, step, g)
  BY <1>2, <1>3, <1>5, RecursiveFunction
<1>7. ASSUME NEW n \in 0 .. b, n # 0 PROVE step[<<n, g[n - 1]>>] = Below(bs, g[n - 1])
  <2>1. n \in 1 .. b /\ n - 1 \in 0 .. b
    BY <1>2, <1>7
  <2> QED
    BY <1>5, <2>1
<1>8. Eq(g)
  BY <1>6, <1>7 DEF Recursive
<1>9. Eq(f)
  <2> HIDE DEF Eq
  <2> QED
    BY <1>8
<1> HIDE DEF f
<1>10. f[0] = x0 /\ \A n \in 1 .. b : f[n] = Below(bs, f[n - 1])
  <2>1. 0 \in 0 .. b /\ \A n \in 1 .. b : n \in 0 .. b /\ n # 0
    BY <1>2
  <2> QED
    BY <1>9, <2>1
<1> HIDE DEF Eq
<1>11. \A n \in 0 .. b : f[n] \in S
  BY <1>2, <1>3, <1>4, <1>10, AllAlong
<1> QED
  BY <1>1, <1>2, <1>10, <1>11 DEF S, x0

\* The way stays in a set that has with a buffer the one under it.
LEMMA WalkStays ==
    ASSUME NEW bs, IsBuffers(bs), NEW K, \A c \in K : bs[c].dependent => bs[c].buf \in K,
           NEW b \in 1 .. Len(bs), b \in K
    PROVE  \A n \in 0 .. b : Walk(bs, b)[n].root \in K
<1> DEFINE W == Walk(bs, b)
           f == [n \in 0 .. b |-> W[n].root]
<1>1. b \in Nat /\ W[0] = [root |-> b, at |-> 0] /\ \A n \in 1 .. b : W[n] = Below(bs, W[n - 1])
  BY WalkIs
<1> HIDE DEF W
<1>2. f[0] \in K
  BY <1>1
<1>3. ASSUME NEW n \in 1 .. b, f[n - 1] \in K PROVE f[n] \in K
  <2>1. n \in 0 .. b /\ n - 1 \in 0 .. b
    BY <1>1
  <2> DEFINE p == W[n - 1]
  <2>2. p.root \in K /\ f[n] = Below(bs, p).root
    BY <1>1, <1>3, <2>1
  <2> HIDE DEF p, f
  <2>3. CASE bs[p.root].dependent
    <3>1. Below(bs, p).root = bs[p.root].buf
      BY <2>3 DEF Below
    <3> QED
      BY <2>2, <2>3, <3>1
  <2>4. CASE ~bs[p.root].dependent
    BY <2>2, <2>4 DEF Below
  <2> QED
    BY <2>3, <2>4
<1>4. \A n \in 0 .. b : f[n] \in K
  <2> HIDE DEF f
  <2> QED
    BY <1>1, <1>2, <1>3, AllAlong
<1> QED
  BY <1>4 DEF W

\* It ends at a buffer that has bytes.
LEMMA WalkEnds ==
    ASSUME NEW bs, IsBuffers(bs), NEW b \in 1 .. Len(bs)
    PROVE  /\ \A n \in 0 .. b : bs[Walk(bs, b)[n].root].dependent => Walk(bs, b)[n].root <= b - n
           /\ ~bs[Walk(bs, b)[b].root].dependent
<1> DEFINE W == Walk(bs, b)
           P == {n \in 0 .. b : bs[W[n].root].dependent => W[n].root <= b - n}
<1>1. b \in Nat /\ W[0] = [root |-> b, at |-> 0] /\ (\A n \in 1 .. b : W[n] = Below(bs, W[n - 1]))
      /\ \A n \in 0 .. b : W[n] \in [root : 1 .. Len(bs), at : Int]
  BY WalkIs
<1> HIDE DEF W
<1>2. 0 \in P
  BY <1>1
<1>3. ASSUME NEW n \in 0 .. b - 1, n \in P PROVE n + 1 \in P
  <2>1. n + 1 \in 1 .. b /\ n + 1 - 1 = n /\ n + 1 \in 0 .. b /\ n \in 0 .. b
    BY <1>1
  <2>2. W[n + 1] = Below(bs, W[n]) /\ W[n].root \in 1 .. Len(bs)
    BY <1>1, <2>1
  <2>3. CASE bs[W[n].root].dependent
    <3>1. bs[W[n].root].buf \in 1 .. W[n].root - 1
      BY <2>2, <2>3, BufferIs DEF OkBuffer
    <3>2. W[n + 1].root = bs[W[n].root].buf /\ W[n].root <= b - n
      BY <1>3, <2>2, <2>3 DEF Below
    <3>3. W[n].root \in Nat /\ W[n + 1].root \in Nat /\ n \in Nat
      BY <2>1, <2>2, <3>1, <3>2, BufferIs
    <3>4. W[n + 1].root <= b - (n + 1)
      <4> DEFINE x == W[n].root
                 y == W[n + 1].root
      <4>1. x \in Nat /\ y \in Nat /\ y <= x - 1 /\ x <= b - n
        BY <3>1, <3>2, <3>3
      <4> HIDE DEF x, y
      <4>2. y <= b - (n + 1)
        BY <1>1, <3>3, <4>1
      <4> QED
        BY <4>2 DEF y
    <3> QED
      BY <2>1, <3>4
  <2>4. CASE ~bs[W[n].root].dependent
    BY <2>1, <2>2, <2>4 DEF Below
  <2> QED
    BY <2>3, <2>4
<1> HIDE DEF P
<1>4. \A n \in 0 .. b : n \in P
  BY <1>1, <1>2, <1>3, BoundedInduction
<1>5. \A n \in 0 .. b : bs[W[n].root].dependent => W[n].root <= b - n
  BY <1>4 DEF P
<1>6. ~bs[W[b].root].dependent
  <2>1. b \in 0 .. b /\ b - b = 0
    BY <1>1
  <2>2. W[b].root >= 1
    BY <1>1, <2>1
  <2>3. bs[W[b].root].dependent => W[b].root <= b - b
    BY <1>5, <2>1
  <2>4. W[b].root \in Nat
    BY <1>1, <2>1, BufferIs
  <2> QED
    BY <2>1, <2>2, <2>3, <2>4
<1> QED
  BY <1>5, <1>6 DEF W

\* A buffer with bytes is its own end.
LEMMA WalkAlone ==
    ASSUME NEW bs, IsBuffers(bs), NEW b \in 1 .. Len(bs), ~bs[b].dependent
    PROVE  Walk(bs, b)[b] = [root |-> b, at |-> 0]
<1> DEFINE W == Walk(bs, b)
           S == {[root |-> b, at |-> 0]}
<1>1. b \in Nat /\ W[0] = [root |-> b, at |-> 0] /\ \A n \in 1 .. b : W[n] = Below(bs, W[n - 1])
  BY WalkIs
<1> HIDE DEF W
<1>2. W[0] \in S
  BY <1>1
<1>3. ASSUME NEW n \in 1 .. b, W[n - 1] \in S PROVE W[n] \in S
  <2>1. W[n - 1] = W[0] /\ W[n - 1].root = b
    BY <1>1, <1>3
  <2>2. Below(bs, W[n - 1]) = W[n - 1]
    BY <2>1 DEF Below
  <2> QED
    BY <1>1, <1>3, <2>2
<1> HIDE DEF S
<1>4. \A n \in 0 .. b : W[n] \in S
  BY <1>1, <1>2, <1>3, AllAlong
<1>5. b \in 0 .. b
  BY <1>1
<1> QED
  BY <1>4, <1>5 DEF S, W

\* On a way without negative sizes the buffer lies in all buffers under it.
LEMMA WalkInside ==
    ASSUME NEW bs, IsBuffers(bs), NEW b \in 1 .. Len(bs), Sound(bs, b)
    PROVE  LET d == Walk(bs, b)[b] IN 0 <= d.at /\ d.at + bs[b].size <= bs[d.root].size
<1> DEFINE W == Walk(bs, b)
           S == {p \in [root : 1 .. Len(bs), at : Int] : 0 <= p.at /\ p.at + bs[b].size <= bs[p.root].size}
<1>1. b \in Nat /\ W[0] = [root |-> b, at |-> 0] /\ (\A n \in 1 .. b : W[n] = Below(bs, W[n - 1]))
      /\ \A n \in 0 .. b : W[n] \in [root : 1 .. Len(bs), at : Int]
  BY WalkIs
<1>2. \A n \in 0 .. b : bs[W[n].root].size >= 0
  BY DEF Sound
<1> HIDE DEF W
<1>3. bs[b].size \in Int
  BY BufferIs DEF BufferRec
<1>4. W[0] \in S
  BY <1>1, <1>3
<1>5. ASSUME NEW n \in 1 .. b, W[n - 1] \in S PROVE W[n] \in S
  <2>1. n \in 0 .. b /\ n - 1 \in 0 .. b
    BY <1>1
  <2> DEFINE r == W[n - 1].root
             a == W[n - 1].at
  <2>2. W[n] = Below(bs, W[n - 1])
    BY <1>1
  <2>3. r \in 1 .. Len(bs) /\ a \in Int /\ 0 <= a /\ a + bs[b].size <= bs[r].size
    BY <1>5
  <2>4. CASE bs[r].dependent
    <3>1. W[n] = [root |-> bs[r].buf, at |-> a + bs[r].offset]
      BY <2>2, <2>4 DEF Below
    <3>2. W[n].root = bs[r].buf /\ W[n].at = a + bs[r].offset
      BY <3>1
    <3>3. bs[r].size >= 0 /\ bs[bs[r].buf].size >= 0
      BY <1>2, <2>1, <3>2
    <3>4. W[n] \in [root : 1 .. Len(bs), at : Int]
      BY <1>1, <2>1
    <3>5. bs[bs[r].buf].size \in Int
      BY <3>2, <3>4, BufferIs DEF BufferRec
    <3> HIDE DEF r, a
    <3>6. bs[r] \in BufferRec /\ OkBuffer(bs, r)
      BY <2>3, BufferIs
    <3>7. 0 <= bs[r].offset /\ bs[r].offset + bs[r].size <= bs[bs[r].buf].size
      BY <2>4, <3>3, <3>6 DEF OkBuffer
    <3>8. bs[r].size \in Int /\ bs[r].offset \in Int
      BY <3>6 DEF BufferRec
    <3>9. 0 <= a + bs[r].offset /\ a + bs[r].offset + bs[b].size <= bs[bs[r].buf].size
      <4> DEFINE o == bs[r].offset
                 s == bs[r].size
                 t == bs[bs[r].buf].size
                 u == bs[b].size
      <4>1. o \in Int /\ s \in Int /\ t \in Int /\ u \in Int /\ a \in Int
        BY <1>3, <2>3, <3>5, <3>8
      <4>2. 0 <= a /\ a + u <= s /\ 0 <= o /\ o + s <= t
        BY <2>3, <3>7
      <4> HIDE DEF o, s, t, u
      <4>3. 0 <= a + o /\ a + o + u <= t
        BY <4>1, <4>2
      <4> QED
        BY <4>3 DEF o, t, u
    <3> QED
      BY <3>2, <3>4, <3>9
  <2>5. CASE ~bs[r].dependent
    BY <1>5, <2>2, <2>5 DEF Below
  <2> QED
    BY <2>4, <2>5
<1> HIDE DEF S
<1>6. \A n \in 0 .. b : W[n] \in S
  BY <1>1, <1>4, <1>5, AllAlong
<1>7. b \in 0 .. b
  BY <1>1
<1> QED
  BY <1>6, <1>7 DEF S, W

\* The place of a view: in a buffer with bytes, which K has if it has the view's buffer.
LEMMA PlaceIs ==
    ASSUME NEW bs, IsBuffers(bs), NEW v \in ViewRec, v.buffer \in 1 .. Len(bs)
    PROVE  LET d == _ejs_typedarray_get_data(bs, v)
           IN  /\ d \in [root : 1 .. Len(bs), at : Int]
               /\ d = [root |-> Walk(bs, v.buffer)[v.buffer].root,
                       at |-> Walk(bs, v.buffer)[v.buffer].at + v.byteOffset]
               /\ ~bs[d.root].dependent
               /\ \A K : Kept(bs, K) /\ v.buffer \in K => bs[d.root].data # Freed
<1> DEFINE b == v.buffer
           w == Walk(bs, b)[b]
           d == _ejs_typedarray_get_data(bs, v)
<1>1. b \in Nat /\ b \in 0 .. b
  BY BufferIs
<1>2. w \in [root : 1 .. Len(bs), at : Int]
  BY <1>1, WalkIs
<1>3. ~bs[w.root].dependent
  BY WalkEnds
<1>4. d = [w EXCEPT !.at = @ + v.byteOffset]
  BY DEF _ejs_typedarray_get_data, _ejs_arraybuffer_get_data
<1>5. ASSUME NEW K, Kept(bs, K), b \in K PROVE bs[w.root].data # Freed
  <2>1. w.root \in K
    <3>1. \A c \in K : bs[c].dependent => bs[c].buf \in K
      BY <1>5 DEF Kept
    <3>2. \A n \in 0 .. b : Walk(bs, b)[n].root \in K
      BY <1>5, <3>1, WalkStays
    <3> QED
      BY <1>1, <3>2
  <2> QED
    BY <1>3, <1>5, <2>1 DEF Kept
<1>6. v.byteOffset \in Nat
  BY DEF ViewRec
<1> HIDE DEF w, d, b
<1>7. d = [root |-> w.root, at |-> w.at + v.byteOffset]
  BY <1>2, <1>4
<1>8. d \in [root : 1 .. Len(bs), at : Int] /\ d.root = w.root
  <2>1. w.root \in 1 .. Len(bs) /\ w.at \in Int
    BY <1>2
  <2>2. w.at + v.byteOffset \in Int
    BY <1>6, <2>1
  <2> QED
    BY <1>7, <2>1, <2>2
<1>9. ~bs[d.root].dependent /\ \A K : Kept(bs, K) /\ b \in K => bs[d.root].data # Freed
  BY <1>3, <1>5, <1>8
<1> QED
  BY <1>7, <1>8, <1>9 DEF w, d, b

-----------------------------------------------------------------------------
(* Numbers and their bytes.                                                 *)

LEMMA OctetIs == 0 \in Octet /\ Octet \subseteq Nat /\ Byte \in Nat /\ Byte > 1
BY SizeAssumption DEF Octet

LEMMA CastIs ==
    ASSUME NEW type, NEW x \in Int
    PROVE  Cast(type, x) \in [1 .. elsize(type) -> Octet]
<1>1. ASSUME NEW i \in 1 .. elsize(type) PROVE (x \div Power(i - 1)) % Byte \in Octet
  <2>1. Byte \in Nat /\ Byte > 0
    BY OctetIs
  <2>2. i - 1 = 0 \/ i - 1 = 1
    BY SizeIs
  <2>3. Power(i - 1) \in {1, Byte}
    BY <2>2 DEF Power
  <2>4. CASE Power(i - 1) = 1
    <3>1. (x \div 1) \in Int
      OBVIOUS
    <3> HIDE DEF Octet
    <3>2. (x \div 1) % Byte \in 0 .. Byte - 1
      BY <2>1, <3>1
    <3> QED
      BY <2>4, <3>2 DEF Octet
  <2>5. CASE Power(i - 1) = Byte
    <3>1. (x \div Byte) \in Int
      BY <2>1
    <3> DEFINE q == x \div Byte
    <3> HIDE DEF q
    <3>2. q % Byte \in 0 .. Byte - 1
      BY <2>1, <3>1 DEF q
    <3> QED
      BY <2>5, <3>2 DEF Octet, q
  <2> QED
    BY <2>3, <2>4, <2>5
<1> QED
  BY <1>1 DEF Cast

LEMMA SwapIs ==
    ASSUME NEW n \in Nat, NEW bytes \in [1 .. n -> Octet]
    PROVE  swapBytes(bytes) \in [1 .. n -> Octet]
<1>1. bytes \in Seq(Octet) /\ Len(bytes) = n
  OBVIOUS
<1>2. \A i \in 1 .. n : n - i + 1 \in 1 .. n
  OBVIOUS
<1>3. Reverse(bytes) = [i \in 1 .. n |-> bytes[n - i + 1]]
  BY <1>1 DEF Reverse
<1>4. [i \in 1 .. n |-> bytes[n - i + 1]] \in [1 .. n -> Octet]
  BY <1>2
<1> QED
  BY <1>3, <1>4 DEF swapBytes

LEMMA DecodeIs ==
    ASSUME NEW type, NEW n \in {1, 2}, NEW bytes \in [1 .. n -> Octet]
    PROVE  Decode(type, bytes) \in Int
<1>1. DOMAIN bytes = 1 .. n /\ Len(bytes) = n /\ \A i \in 1 .. n : bytes[i] \in Nat
  <2>1. n \in Nat
    OBVIOUS
  <2>2. bytes \in [1 .. n -> Nat]
    <3>1. \A i \in 1 .. n : bytes[i] \in Octet
      OBVIOUS
    <3> QED
      BY <3>1, OctetIs
  <2>3. bytes \in Seq(Nat)
    BY <2>1, <2>2
  <2> QED
    BY <2>1, <2>2, <2>3
<1>2. ~\E i \in DOMAIN bytes : bytes[i] = Garbage
  BY <1>1, ValueAssumption
<1>3. Byte \in Int /\ Byte * Byte \in Int
  BY OctetIs
<1>4. Unsigned(bytes) \in Int
  <2>1. bytes[1] \in Int
    BY <1>1
  <2>2. CASE n = 2
    <3>1. bytes[2] \in Int
      BY <1>1, <2>2
    <3>2. Byte * bytes[2] \in Int
      BY <1>3, <3>1
    <3>3. bytes[1] + Byte * bytes[2] \in Int
      BY <2>1, <3>2
    <3> QED
      BY <1>1, <2>2, <3>3 DEF Unsigned
  <2>3. CASE n = 1
    BY <1>1, <2>1, <2>3 DEF Unsigned
  <2> QED
    BY <2>2, <2>3
<1>5. Power(Len(bytes)) \in Int
  BY <1>1, <1>3 DEF Power
<1> DEFINE u == Unsigned(bytes)
           s == Power(Len(bytes))
<1> HIDE DEF u, s
<1>6. u - s \in Int
  BY <1>4, <1>5 DEF u, s
<1> QED
  BY <1>2, <1>4, <1>6 DEF Decode, u, s

-----------------------------------------------------------------------------
(* Stores.                                                                  *)

\* Only bytes have changed from bs to cs, and none are freed.
SameShape(bs, cs) ==
    /\ Len(cs) = Len(bs)
    /\ \A b \in 1 .. Len(bs) :
        /\ cs[b].dependent = bs[b].dependent /\ cs[b].size = bs[b].size
        /\ cs[b].buf = bs[b].buf /\ cs[b].offset = bs[b].offset
        /\ bs[b].data # Freed => cs[b].data # Freed

Stored(bs) == {cs \in Seq(BufferRec) : IsBuffers(cs) /\ SameShape(bs, cs)}

LEMMA StoredItself == ASSUME NEW bs, IsBuffers(bs) PROVE bs \in Stored(bs)
BY DEF Stored, SameShape, IsBuffers

LEMMA StoredMore ==
    ASSUME NEW bs, NEW cs \in Stored(bs), NEW ds \in Stored(cs)
    PROVE  ds \in Stored(bs)
<1>1. SameShape(bs, cs) /\ SameShape(cs, ds) /\ IsBuffers(ds) /\ ds \in Seq(BufferRec)
  BY DEF Stored
<1>2. Len(ds) = Len(bs) /\ Len(cs) = Len(bs)
  BY <1>1 DEF SameShape
<1>3. SameShape(bs, ds)
  BY <1>1, <1>2 DEF SameShape
<1> QED
  BY <1>1, <1>3 DEF Stored

LEMMA StoredIs ==
    ASSUME NEW bs, NEW cs \in Stored(bs)
    PROVE  /\ IsBuffers(cs) /\ Len(cs) = Len(bs)
           /\ \A K : Kept(bs, K) => Kept(cs, K)
           /\ \A v : OkView(bs, v) => OkView(cs, v)
           /\ \A vs : IsViews(bs, vs) => IsViews(cs, vs)
<1>1. SameShape(bs, cs) /\ IsBuffers(cs) /\ Len(cs) = Len(bs)
  BY DEF Stored, SameShape
<1>2. ASSUME NEW K, Kept(bs, K) PROVE Kept(cs, K)
  BY <1>1, <1>2 DEF Kept, SameShape
<1>3. ASSUME NEW v, OkView(bs, v) PROVE OkView(cs, v)
  <2>1. v \in ViewRec /\ v.buffer \in 1 .. Len(bs)
    BY <1>3 DEF OkView
  <2>2. cs[v.buffer].size = bs[v.buffer].size
    BY <1>1, <2>1 DEF SameShape
  <2> QED
    BY <1>1, <1>3, <2>1, <2>2 DEF OkView
<1> QED
  BY <1>1, <1>2, <1>3 DEF IsViews

LEMMA BlockIs ==
    ASSUME NEW n \in Nat, NEW f \in [1 .. n -> Octet]
    PROVE  f \in Blocks /\ f # Freed
<1>1. f \in [1 .. n -> Nat]
  BY OctetIs
<1>2. f \in Seq(Nat)
  BY <1>1
<1> QED
  BY <1>2, ValueAssumption DEF Blocks

LEMMA StoreKeeps ==
    ASSUME NEW bs, IsBuffers(bs), NEW d \in [root : 1 .. Len(bs), at : Int],
           ~bs[d.root].dependent, bs[d.root].data # Freed,
           NEW p \in Int, NEW n \in Nat, NEW bytes \in [1 .. n -> Octet]
    PROVE  Store(bs, d, p, bytes) \in Stored(bs)
<1> DEFINE r == d.root
           old == bs[r].data
           new == [j \in DOMAIN old |-> IF j - d.at - p \in DOMAIN bytes THEN bytes[j - d.at - p] ELSE old[j]]
           cs == Store(bs, d, p, bytes)
<1>1. r \in 1 .. Len(bs)
  OBVIOUS
<1>2. bs[r] \in BufferRec /\ OkBuffer(bs, r)
  BY <1>1, BufferIs
<1>3. bs[r].size \in Nat /\ old \in [1 .. bs[r].size -> Octet]
  BY <1>2 DEF OkBuffer
<1>4. cs = [bs EXCEPT ![r] = [bs[r] EXCEPT !.data = new]]
  BY DEF Store
<1>5. new \in [1 .. bs[r].size -> Octet]
  <2>1. DOMAIN old = 1 .. bs[r].size /\ DOMAIN bytes = 1 .. n
    BY <1>3
  <2>2. ASSUME NEW j \in DOMAIN old
        PROVE (IF j - d.at - p \in DOMAIN bytes THEN bytes[j - d.at - p] ELSE old[j]) \in Octet
    BY <1>3, <2>1, <2>2
  <2> QED
    BY <2>1, <2>2
<1>6. new \in Blocks /\ new # Freed
  BY <1>3, <1>5, BlockIs
<1> HIDE DEF new, cs, old
<1> DEFINE x == [bs[r] EXCEPT !.data = new]
<1>7. /\ x \in BufferRec /\ x.data = new /\ x.dependent = bs[r].dependent /\ x.size = bs[r].size
      /\ x.buf = bs[r].buf /\ x.offset = bs[r].offset
  BY <1>2, <1>6 DEF BufferRec
<1>8. bs \in Seq(BufferRec) /\ cs = [bs EXCEPT ![r] = x]
  BY <1>4 DEF IsBuffers
<1> HIDE DEF x, r
<1>9. cs \in Seq(BufferRec) /\ Len(cs) = Len(bs) /\ cs[r] = x
      /\ \A b \in 1 .. Len(bs) : b # r => cs[b] = bs[b]
  BY <1>1, <1>7, <1>8
<1>10. \A b \in 1 .. Len(bs) :
        /\ cs[b].dependent = bs[b].dependent /\ cs[b].size = bs[b].size
        /\ cs[b].buf = bs[b].buf /\ cs[b].offset = bs[b].offset
        /\ bs[b].data # Freed => cs[b].data # Freed
        /\ ~bs[b].dependent /\ bs[b].data = Freed => b # r /\ cs[b].data = Freed
  <2> SUFFICES ASSUME NEW b \in 1 .. Len(bs)
               PROVE  /\ cs[b].dependent = bs[b].dependent /\ cs[b].size = bs[b].size
                      /\ cs[b].buf = bs[b].buf /\ cs[b].offset = bs[b].offset
                      /\ bs[b].data # Freed => cs[b].data # Freed
                      /\ ~bs[b].dependent /\ bs[b].data = Freed => b # r /\ cs[b].data = Freed
    OBVIOUS
  <2>1. CASE b = r
    BY <1>6, <1>7, <1>9, <2>1 DEF r
  <2>2. CASE b # r
    BY <1>9, <2>2
  <2> QED
    BY <2>1, <2>2
<1>11. SameShape(bs, cs)
  BY <1>9, <1>10 DEF SameShape
<1>12. ASSUME NEW b \in 1 .. Len(cs) PROVE OkBuffer(cs, b)
  <2>1. b \in 1 .. Len(bs) /\ OkBuffer(bs, b)
    BY <1>9, <1>12, BufferIs
  <2>2. CASE bs[b].dependent
    <3>1. bs[b].buf \in 1 .. b - 1
      BY <2>1, <2>2 DEF OkBuffer
    <3>2. Len(bs) \in Nat
      BY <1>8
    <3>3. bs[b].buf \in 1 .. Len(bs)
      BY <2>1, <3>1, <3>2
    <3>4. cs[bs[b].buf].size = bs[bs[b].buf].size
      BY <1>10, <3>3
    <3>5. /\ cs[b].dependent = bs[b].dependent /\ cs[b].size = bs[b].size
          /\ cs[b].buf = bs[b].buf /\ cs[b].offset = bs[b].offset
      BY <1>10, <2>1
    <3> QED
      BY <2>1, <2>2, <3>4, <3>5 DEF OkBuffer
  <2>3. CASE ~bs[b].dependent
    <3>1. cs[b].size = bs[b].size /\ ~cs[b].dependent
      BY <1>10, <2>1, <2>3
    <3>2. CASE b = r
      <4>1. cs[b].data = new
        BY <1>7, <1>9, <3>2
      <4> QED
        BY <1>3, <1>5, <2>1, <3>1, <3>2, <4>1 DEF OkBuffer
    <3>3. CASE b # r
      BY <1>9, <2>1, <2>3, <3>3 DEF OkBuffer
    <3> QED
      BY <3>2, <3>3
  <2> QED
    BY <2>2, <2>3
<1> QED
  BY <1>9, <1>11, <1>12 DEF Stored, IsBuffers, cs

-----------------------------------------------------------------------------
(* Elements.                                                                *)

\* The bytes of v are not freed.
Open(bs, v) ==
    /\ v \in ViewRec
    /\ v.buffer \in 1 .. Len(bs)
    /\ \E K : Kept(bs, K) /\ v.buffer \in K

\* v is a typed array on a buffer that is no window.
Whole(bs, v) == OkView(bs, v) /\ v.type # "DataView" /\ ~bs[v.buffer].dependent

LEMMA StoredOpen ==
    ASSUME NEW bs, NEW cs \in Stored(bs), NEW v
    PROVE  (Open(bs, v) => Open(cs, v)) /\ (Whole(bs, v) => Whole(cs, v))
<1>1. IsBuffers(cs) /\ Len(cs) = Len(bs) /\ \A K : Kept(bs, K) => Kept(cs, K)
  BY StoredIs
<1>2. OkView(bs, v) => OkView(cs, v)
  BY StoredIs
<1>3. v.buffer \in 1 .. Len(bs) => cs[v.buffer].dependent = bs[v.buffer].dependent
  BY DEF Stored, SameShape
<1> QED
  BY <1>1, <1>2, <1>3 DEF Open, Whole, OkView

\* A store into the bytes of an open view.
LEMMA StoreOpen ==
    ASSUME NEW bs, IsBuffers(bs), NEW v, Open(bs, v),
           NEW p \in Int, NEW n \in Nat, NEW bytes \in [1 .. n -> Octet]
    PROVE  Store(bs, _ejs_typedarray_get_data(bs, v), p, bytes) \in Stored(bs)
<1> DEFINE d == _ejs_typedarray_get_data(bs, v)
<1>1. v \in ViewRec /\ v.buffer \in 1 .. Len(bs)
  BY DEF Open
<1>2. d \in [root : 1 .. Len(bs), at : Int] /\ ~bs[d.root].dependent
  BY <1>1, PlaceIs
<1>3. \A K : Kept(bs, K) /\ v.buffer \in K => bs[d.root].data # Freed
  BY <1>1, PlaceIs
<1> HIDE DEF d
<1>4. bs[d.root].data # Freed
  BY <1>3 DEF Open
<1>5. Store(bs, d, p, bytes) \in Stored(bs)
  BY <1>2, <1>4, StoreKeeps
<1> QED
  BY <1>5 DEF d

LEMMA SetKeeps ==
    ASSUME NEW bs, IsBuffers(bs), NEW v, Open(bs, v), NEW i \in Int, NEW x \in Int
    PROVE  specop_set(bs, v, i, x) \in Stored(bs)
<1> DEFINE y == IF v.type = "Uint8Clamped" THEN _ejs_Uint8Clampedarray_specop_set(x) ELSE x
           d == _ejs_typedarray_get_data(bs, v)
           p == i * elsize(v.type)
<1>1. y \in Int
  BY OctetIs DEF _ejs_Uint8Clampedarray_specop_set
<1>2. p \in Int /\ elsize(v.type) \in Nat
  BY SizeIs
<1>3. Cast(v.type, y) \in [1 .. elsize(v.type) -> Octet]
  <2> HIDE DEF y
  <2> QED
    BY <1>1, CastIs
<1>4. Store(bs, d, p, Cast(v.type, y)) \in Stored(bs)
  <2> HIDE DEF p, y
  <2> QED
    BY <1>2, <1>3, StoreOpen
<1>5. bs \in Stored(bs)
  BY StoredItself
<1> QED
  BY <1>4, <1>5 DEF specop_set

LEMMA DataViewKeeps ==
    ASSUME NEW bs, IsBuffers(bs), NEW v, Open(bs, v), NEW type, NEW p \in Int, NEW x \in Int,
           NEW little \in BOOLEAN
    PROVE  /\ _ejs_DataView_set(bs, v, type, p, x, little) \in Stored(bs)
           /\ _ejs_dataview_specop_set(bs, v, p, x) \in Stored(bs)
<1>1. elsize(type) \in Nat
  BY SizeIs
<1>2. Cast(type, x) \in [1 .. elsize(type) -> Octet]
  BY CastIs
<1>3. swapBytes(Cast(type, x)) \in [1 .. elsize(type) -> Octet]
  BY <1>1, <1>2, SwapIs
<1> DEFINE bytes == IF little THEN Cast(type, x) ELSE swapBytes(Cast(type, x))
<1>4. bytes \in [1 .. elsize(type) -> Octet]
  BY <1>2, <1>3
<1>5. _ejs_DataView_set(bs, v, type, p, x, little) \in Stored(bs)
  <2>1. _ejs_DataView_set(bs, v, type, p, x, little) = Store(bs, _ejs_typedarray_get_data(bs, v), p, bytes)
    BY DEF _ejs_DataView_set
  <2> HIDE DEF bytes
  <2> QED
    BY <1>1, <1>4, <2>1, StoreOpen
<1>6. elsize("Uint8") \in Nat /\ Cast("Uint8", x) \in [1 .. elsize("Uint8") -> Octet]
  BY SizeIs, CastIs
<1>7. Store(bs, _ejs_typedarray_get_data(bs, v), p, Cast("Uint8", x)) \in Stored(bs)
  BY <1>6, StoreOpen
<1>8. bs \in Stored(bs)
  BY StoredItself
<1> QED
  BY <1>5, <1>7, <1>8 DEF _ejs_dataview_specop_set

\* n bytes inside a buffer with bytes.
LEMMA BytesAre ==
    ASSUME NEW bs, IsBuffers(bs), NEW d \in [root : 1 .. Len(bs), at : Int],
           ~bs[d.root].dependent, bs[d.root].data # Freed,
           NEW p \in Int, NEW n \in Nat, 0 <= d.at + p, d.at + p + n <= bs[d.root].size
    PROVE  Bytes(bs, d, p, n) \in [1 .. n -> Octet]
<1>1. OkBuffer(bs, d.root)
  BY BufferIs
<1> DEFINE a == d.at
           s == bs[d.root].size
           data == bs[d.root].data
<1>2. s \in Nat /\ data \in [1 .. s -> Octet] /\ DOMAIN data = 1 .. s
  BY <1>1 DEF OkBuffer
<1>3. a \in Int /\ 0 <= a + p /\ a + p + n <= s
  OBVIOUS
<1>4. Bytes(bs, d, p, n) =
        [i \in 1 .. n |-> IF data # Freed /\ a + p + i \in DOMAIN data THEN data[a + p + i] ELSE Garbage]
  BY DEF Bytes
<1>5. data # Freed
  OBVIOUS
<1> HIDE DEF a, s, data
<1>6. ASSUME NEW i \in 1 .. n PROVE a + p + i \in 1 .. s
  <2>1. i \in Int /\ i >= 1 /\ i <= n
    OBVIOUS
  <2> QED
    BY <1>2, <1>3, <2>1
<1>7. ASSUME NEW i \in 1 .. n
      PROVE  (IF data # Freed /\ a + p + i \in DOMAIN data THEN data[a + p + i] ELSE Garbage) \in Octet
  BY <1>2, <1>5, <1>6
<1> QED
  BY <1>4, <1>7

\* The elements from i on of a typed array on a whole buffer: where their bytes are.
LEMMA InsideIs ==
    ASSUME NEW bs, IsBuffers(bs), NEW v, Open(bs, v), Whole(bs, v), NEW i \in 0 .. v.length - 1
    PROVE  LET d == _ejs_typedarray_get_data(bs, v)
           IN  /\ d = [root |-> v.buffer, at |-> v.byteOffset]
               /\ d \in [root : 1 .. Len(bs), at : Int]
               /\ ~bs[d.root].dependent /\ bs[d.root].data # Freed
               /\ 0 <= d.at + i * elsize(v.type)
               /\ d.at + i * elsize(v.type) + elsize(v.type) <= bs[d.root].size
<1> DEFINE d == _ejs_typedarray_get_data(bs, v)
           s == bs[v.buffer].size
           o == v.byteOffset
           l == v.length
           e == elsize(v.type)
<1>1. v \in ViewRec /\ v.buffer \in 1 .. Len(bs)
  BY DEF Open
<1>2. Walk(bs, v.buffer)[v.buffer] = [root |-> v.buffer, at |-> 0]
  BY <1>1, WalkAlone DEF Whole
<1>3. o \in Nat /\ l \in Nat
  BY <1>1 DEF ViewRec
<1>4. d = [root |-> v.buffer, at |-> 0 + o]
  BY <1>1, <1>2, PlaceIs
<1>5. d \in [root : 1 .. Len(bs), at : Int] /\ ~bs[d.root].dependent
  BY <1>1, PlaceIs
<1>6. bs[d.root].data # Freed
  BY <1>1, PlaceIs DEF Open
<1>7. s \in Nat
  BY <1>1, BufferIs DEF Whole, OkBuffer
<1>8. o + l * e <= s
  BY <1>7 DEF Whole, OkView
<1>9. i \in Int /\ 0 <= i /\ i + 1 <= l
  BY <1>3
<1>10. e \in {1, 2}
  BY SizeIs
<1> HIDE DEF d, s, o, l, e
<1>11. 0 <= o + i * e /\ o + i * e + e <= s
  <2>1. CASE e = 1
    BY <1>3, <1>7, <1>8, <1>9, <2>1
  <2>2. CASE e = 2
    BY <1>3, <1>7, <1>8, <1>9, <2>2
  <2> QED
    BY <1>10, <2>1, <2>2
<1>12. 0 + o = o
  BY <1>3
<1>13. d.root = v.buffer /\ d.at = o
  BY <1>4, <1>12
<1> QED
  BY <1>4, <1>5, <1>6, <1>11, <1>12, <1>13 DEF d, s, o, e

LEMMA GetIs ==
    ASSUME NEW bs, IsBuffers(bs), NEW v, Open(bs, v), Whole(bs, v), NEW i \in 0 .. v.length - 1
    PROVE  specop_get(bs, v, i) \in Int
<1> DEFINE d == _ejs_typedarray_get_data(bs, v)
           n == elsize(v.type)
           p == i * n
<1>1. d \in [root : 1 .. Len(bs), at : Int] /\ ~bs[d.root].dependent /\ bs[d.root].data # Freed
      /\ 0 <= d.at + p /\ d.at + p + n <= bs[d.root].size
  BY InsideIs
<1>2. n \in {1, 2} /\ n \in Nat /\ p \in Int
  BY SizeIs
<1>3. v.length \in Nat
  BY DEF Open, ViewRec
<1>4. specop_get(bs, v, i) = Decode(v.type, Bytes(bs, d, p, n))
  BY <1>3 DEF specop_get
<1> HIDE DEF d, n, p
<1>5. Bytes(bs, d, p, n) \in [1 .. n -> Octet]
  BY <1>1, <1>2, BytesAre
<1>6. Decode(v.type, Bytes(bs, d, p, n)) \in Int
  BY <1>2, <1>5, DecodeIs
<1> QED
  BY <1>4, <1>6

-----------------------------------------------------------------------------
(* Loops.                                                                   *)

\* Sets, one after the other.
LEMMA SetAllKeeps ==
    ASSUME NEW bs, IsBuffers(bs), NEW v, Open(bs, v), NEW ks, NEW xs,
           Len(ks) \in Nat, \A n \in 1 .. Len(ks) : ks[n] \in Int /\ xs[n] \in Int
    PROVE  SetAll(bs, v, ks, xs) \in Stored(bs)
<1> DEFINE N == Len(ks)
           S == Stored(bs)
           Round(cs, n) == specop_set(cs, v, ks[n], xs[n])
           Eq(f) == f = [n \in 0 .. N |-> IF n = 0 THEN bs ELSE Round(f[n - 1], n)]
           f == CHOOSE f : Eq(f)
           step == [p \in (1 .. N) \X S |-> Round(p[2], p[1])]
<1>1. SetAll(bs, v, ks, xs) = f[N]
  BY DEF SetAll
<1>2. N \in Nat
  OBVIOUS
<1>3. bs \in S
  BY StoredItself
<1>4. ASSUME NEW n \in 1 .. N, NEW cs \in S PROVE Round(cs, n) \in S
  <2>1. IsBuffers(cs) /\ Open(cs, v)
    BY StoredIs, StoredOpen
  <2>2. ks[n] \in Int /\ xs[n] \in Int
    OBVIOUS
  <2> DEFINE ds == specop_set(cs, v, ks[n], xs[n])
  <2>3. ds \in Stored(cs)
    BY <2>1, <2>2, SetKeeps
  <2> HIDE DEF ds
  <2>4. ds \in Stored(bs)
    BY <2>3, StoredMore
  <2> QED
    BY <2>4 DEF ds
<1> HIDE DEF Round, N, S
<1>5. step \in [(1 .. N) \X S -> S] /\ \A n \in 1 .. N, cs \in S : step[<<n, cs>>] = Round(cs, n)
  BY <1>4
<1> HIDE DEF step
<1>6. PICK g \in [0 .. N -> S] : Recursive(N, bs, step, g)
  BY <1>2, <1>3, <1>5, RecursiveFunction
<1>7. ASSUME NEW n \in 0 .. N, n # 0 PROVE step[<<n, g[n - 1]>>] = Round(g[n - 1], n)
  <2>1. n \in 1 .. N /\ n - 1 \in 0 .. N
    BY <1>2, <1>7
  <2> QED
    BY <1>5, <2>1
<1>8. Eq(g)
  BY <1>6, <1>7 DEF Recursive
<1>9. Eq(f)
  <2> HIDE DEF Eq
  <2> QED
    BY <1>8
<1> HIDE DEF f
<1>10. f[0] = bs /\ \A n \in 1 .. N : f[n] = Round(f[n - 1], n)
  <2>1. 0 \in 0 .. N /\ \A n \in 1 .. N : n \in 0 .. N /\ n # 0
    BY <1>2
  <2> QED
    BY <1>9, <2>1
<1> HIDE DEF Eq
<1>11. \A n \in 0 .. N : f[n] \in S
  <2>1. \A n \in 1 .. N : f[n - 1] \in S => f[n] \in S
    BY <1>4, <1>10
  <2>2. f[0] \in S
    BY <1>3, <1>10
  <2> QED
    BY <1>2, <2>1, <2>2, AllAlong
<1>12. N \in 0 .. N
  BY <1>2
<1> QED
  BY <1>1, <1>11, <1>12 DEF S

\* Stores, one after the other.
LEMMA StoreAllKeeps ==
    ASSUME NEW bs, IsBuffers(bs), NEW v, Open(bs, v), NEW a,
           Len(a) \in Nat, \A n \in 1 .. Len(a) : a[n] \in Int
    PROVE  StoreAll(bs, v, a) \in Stored(bs)
<1> DEFINE N == Len(a)
           S == Stored(bs)
           Round(cs, n) == 
               Store(cs, _ejs_typedarray_get_data(cs, v), (n - 1) * elsize(v.type), Cast(v.type, a[n]))
           Eq(f) == f = [n \in 0 .. N |-> IF n = 0 THEN bs ELSE Round(f[n - 1], n)]
           f == CHOOSE f : Eq(f)
           step == [p \in (1 .. N) \X S |-> Round(p[2], p[1])]
<1>1. StoreAll(bs, v, a) = f[N]
  BY DEF StoreAll
<1>2. N \in Nat
  OBVIOUS
<1>3. bs \in S
  BY StoredItself
<1>4. ASSUME NEW n \in 1 .. N, NEW cs \in S PROVE Round(cs, n) \in S
  <2>1. IsBuffers(cs) /\ Open(cs, v)
    BY StoredIs, StoredOpen
  <2>2. (n - 1) * elsize(v.type) \in Int /\ elsize(v.type) \in Nat
    <3> DEFINE m == n - 1
    <3>1. m \in Int
      OBVIOUS
    <3> HIDE DEF m
    <3>2. m * elsize(v.type) \in Int
      BY <3>1, TimesIs
    <3>3. elsize(v.type) \in Nat
      BY SizeNat
    <3> QED
      BY <3>2, <3>3 DEF m
  <2>3. Cast(v.type, a[n]) \in [1 .. elsize(v.type) -> Octet]
    BY CastIs
  <2> DEFINE ds == Round(cs, n)
             p == (n - 1) * elsize(v.type)
             bytes == Cast(v.type, a[n])
  <2>4. ds = Store(cs, _ejs_typedarray_get_data(cs, v), p, bytes)
    OBVIOUS
  <2> HIDE DEF ds, p, bytes
  <2>5. ds \in Stored(cs)
    BY <2>1, <2>2, <2>3, <2>4, StoreOpen DEF p, bytes
  <2>6. ds \in Stored(bs)
    BY <2>5, StoredMore
  <2> QED
    BY <2>6 DEF ds
<1> HIDE DEF Round, N, S
<1>5. step \in [(1 .. N) \X S -> S] /\ \A n \in 1 .. N, cs \in S : step[<<n, cs>>] = Round(cs, n)
  BY <1>4
<1> HIDE DEF step
<1>6. PICK g \in [0 .. N -> S] : Recursive(N, bs, step, g)
  BY <1>2, <1>3, <1>5, RecursiveFunction
<1>7. ASSUME NEW n \in 0 .. N, n # 0 PROVE step[<<n, g[n - 1]>>] = Round(g[n - 1], n)
  <2>1. n \in 1 .. N /\ n - 1 \in 0 .. N
    BY <1>2, <1>7
  <2> QED
    BY <1>5, <2>1
<1>8. Eq(g)
  BY <1>6, <1>7 DEF Recursive
<1>9. Eq(f)
  <2> HIDE DEF Eq
  <2> QED
    BY <1>8
<1> HIDE DEF f
<1>10. f[0] = bs /\ \A n \in 1 .. N : f[n] = Round(f[n - 1], n)
  <2>1. 0 \in 0 .. N /\ \A n \in 1 .. N : n \in 0 .. N /\ n # 0
    BY <1>2
  <2> QED
    BY <1>9, <2>1
<1> HIDE DEF Eq
<1>11. \A n \in 0 .. N : f[n] \in S
  <2>1. \A n \in 1 .. N : f[n - 1] \in S => f[n] \in S
    BY <1>4, <1>10
  <2>2. f[0] \in S
    BY <1>3, <1>10
  <2> QED
    BY <1>2, <2>1, <2>2, AllAlong
<1>12. N \in 0 .. N
  BY <1>2
<1> QED
  BY <1>1, <1>11, <1>12 DEF S

\* The exchanges of reverse.
LEMMA ReverseKeeps ==
    ASSUME NEW bs, IsBuffers(bs), NEW v, Open(bs, v), Whole(bs, v)
    PROVE  _ejs_TypedArray_prototype_reverse(bs, v) \in Stored(bs)
<1> DEFINE N == v.length \div 2
           S == Stored(bs)
           Round(cs, n) == Exchange(cs, v, n - 1, v.length - n)
           Eq(f) == f = [n \in 0 .. N |-> IF n = 0 THEN bs ELSE Round(f[n - 1], n)]
           f == CHOOSE f : Eq(f)
           step == [p \in (1 .. N) \X S |-> Round(p[2], p[1])]
<1>1. _ejs_TypedArray_prototype_reverse(bs, v) = f[N]
  BY DEF _ejs_TypedArray_prototype_reverse
<1>2. N \in Nat
  <2>1. v.length \in Nat
    BY DEF Open, ViewRec
  <2> QED
    BY <2>1
<1>3. bs \in S
  BY StoredItself
<1>4. ASSUME NEW n \in 1 .. N, NEW cs \in S PROVE Round(cs, n) \in S
  <2>1. IsBuffers(cs) /\ Open(cs, v) /\ Whole(cs, v)
    BY StoredIs, StoredOpen
  <2> DEFINE lower == n - 1
             upper == v.length - n
  <2>2. lower \in 0 .. v.length - 1 /\ upper \in 0 .. v.length - 1
    <3>1. v.length \in Nat
      BY DEF Open, ViewRec
    <3> DEFINE l == v.length
    <3>2. n \in Int /\ n >= 1 /\ n <= l \div 2
      OBVIOUS
    <3> HIDE DEF l
    <3>3. l \div 2 <= l
      BY <3>1 DEF l
    <3>4. n <= l
      BY <3>1, <3>2, <3>3 DEF l
    <3> QED
      BY <3>1, <3>2, <3>4 DEF l
  <2> HIDE DEF lower, upper
  <2> DEFINE x == specop_get(cs, v, upper)
             y == specop_get(cs, v, lower)
             ds == specop_set(cs, v, lower, x)
             es == specop_set(ds, v, upper, y)
  <2>3. x \in Int /\ y \in Int /\ lower \in Int /\ upper \in Int
    BY <2>1, <2>2, GetIs
  <2> HIDE DEF x, y
  <2>4. ds \in Stored(cs)
    BY <2>1, <2>3, SetKeeps
  <2>5. IsBuffers(ds) /\ Open(ds, v)
    BY <2>1, <2>4, StoredIs, StoredOpen
  <2> HIDE DEF ds
  <2>6. es \in Stored(ds)
    BY <2>3, <2>5, SetKeeps
  <2> HIDE DEF es
  <2>7. es \in Stored(bs)
    BY <2>4, <2>6, StoredMore
  <2>8. Round(cs, n) = es
    BY DEF es, ds, x, y, lower, upper, Exchange
  <2> QED
    BY <2>7, <2>8
<1> HIDE DEF Round, N, S
<1>5. step \in [(1 .. N) \X S -> S] /\ \A n \in 1 .. N, cs \in S : step[<<n, cs>>] = Round(cs, n)
  BY <1>4
<1> HIDE DEF step
<1>6. PICK g \in [0 .. N -> S] : Recursive(N, bs, step, g)
  BY <1>2, <1>3, <1>5, RecursiveFunction
<1>7. ASSUME NEW n \in 0 .. N, n # 0 PROVE step[<<n, g[n - 1]>>] = Round(g[n - 1], n)
  <2>1. n \in 1 .. N /\ n - 1 \in 0 .. N
    BY <1>2, <1>7
  <2> QED
    BY <1>5, <2>1
<1>8. Eq(g)
  BY <1>6, <1>7 DEF Recursive
<1>9. Eq(f)
  <2> HIDE DEF Eq
  <2> QED
    BY <1>8
<1> HIDE DEF f
<1>10. f[0] = bs /\ \A n \in 1 .. N : f[n] = Round(f[n - 1], n)
  <2>1. 0 \in 0 .. N /\ \A n \in 1 .. N : n \in 0 .. N /\ n # 0
    BY <1>2
  <2> QED
    BY <1>9, <2>1
<1> HIDE DEF Eq
<1>11. \A n \in 0 .. N : f[n] \in S
  <2>1. \A n \in 1 .. N : f[n - 1] \in S => f[n] \in S
    BY <1>4, <1>10
  <2>2. f[0] \in S
    BY <1>3, <1>10
  <2> QED
    BY <1>2, <2>1, <2>2, AllAlong
<1>12. N \in 0 .. N
  BY <1>2
<1> QED
  BY <1>1, <1>11, <1>12 DEF S

\* Copies of elements, in any order.
LEMMA CopyKeeps ==
    ASSUME NEW bs, IsBuffers(bs), NEW v, Open(bs, v), Whole(bs, v),
           NEW from \in Int, NEW to \in Int, NEW order, Len(order) \in Nat,
           \A n \in 1 .. Len(order) : order[n] \in Int /\ from + order[n] \in 0 .. v.length - 1
    PROVE  CopyElements(bs, v, from, to, order) \in Stored(bs)
<1> DEFINE N == Len(order)
           S == Stored(bs)
           Round(cs, n) == 
               Store(cs, _ejs_typedarray_get_data(bs, v), (to + order[n]) * elsize(v.type),
                     Bytes(cs, _ejs_typedarray_get_data(bs, v), (from + order[n]) * elsize(v.type), elsize(v.type)))
           Eq(f) == f = [n \in 0 .. N |-> IF n = 0 THEN bs ELSE Round(f[n - 1], n)]
           f == CHOOSE f : Eq(f)
           step == [p \in (1 .. N) \X S |-> Round(p[2], p[1])]
<1>1. CopyElements(bs, v, from, to, order) = f[N]
  BY DEF CopyElements
<1>2. N \in Nat
  OBVIOUS
<1>3. bs \in S
  BY StoredItself
<1>4. ASSUME NEW n \in 1 .. N, NEW cs \in S PROVE Round(cs, n) \in S
  <2>1. IsBuffers(cs) /\ Open(cs, v) /\ Whole(cs, v)
    BY StoredIs, StoredOpen
  <2> DEFINE d == _ejs_typedarray_get_data(bs, v)
             c == _ejs_typedarray_get_data(cs, v)
             i == from + order[n]
             e == elsize(v.type)
             p == (to + order[n]) * e
             q == i * e
             bytes == Bytes(cs, d, q, e)
  <2>2. i \in 0 .. v.length - 1 /\ order[n] \in Int
    OBVIOUS
  <2>3. e \in Nat /\ p \in Int /\ q \in Int
    <3> DEFINE m == to + order[n]
    <3>1. m \in Int /\ i \in Int
      BY <2>2
    <3> HIDE DEF i, m
    <3>2. m * e \in Int
      BY <3>1, TimesIs
    <3>3. i * e \in Int
      BY <3>1, TimesIs
    <3>4. e \in Nat
      BY SizeNat
    <3> QED
      BY <3>2, <3>3, <3>4 DEF m
  <2> HIDE DEF i
  <2>4. d = [root |-> v.buffer, at |-> v.byteOffset]
    BY <2>2, InsideIs
  <2>5. c = [root |-> v.buffer, at |-> v.byteOffset]
    BY <2>1, <2>2, InsideIs
  <2>6. d = c
    BY <2>4, <2>5
  <2>7. /\ c \in [root : 1 .. Len(cs), at : Int] /\ ~cs[c.root].dependent /\ cs[c.root].data # Freed
        /\ 0 <= c.at + q /\ c.at + q + e <= cs[c.root].size
    BY <2>1, <2>2, InsideIs
  <2>8. Round(cs, n) = Store(cs, d, p, bytes)
    BY DEF i
  <2> HIDE DEF d, c, e, p, q
  <2>9. bytes \in [1 .. e -> Octet]
    BY <2>1, <2>3, <2>6, <2>7, BytesAre
  <2> HIDE DEF bytes
  <2>10. Store(cs, d, p, bytes) \in Stored(cs)
    BY <2>1, <2>3, <2>6, <2>7, <2>9, StoreKeeps
  <2> DEFINE ds == Round(cs, n)
  <2>11. ds \in Stored(cs)
    BY <2>8, <2>10
  <2> HIDE DEF ds
  <2>12. ds \in Stored(bs)
    BY <2>11, StoredMore
  <2> QED
    BY <2>12 DEF ds
<1> HIDE DEF Round, N, S
<1>5. step \in [(1 .. N) \X S -> S] /\ \A n \in 1 .. N, cs \in S : step[<<n, cs>>] = Round(cs, n)
  BY <1>4
<1> HIDE DEF step
<1>6. PICK g \in [0 .. N -> S] : Recursive(N, bs, step, g)
  BY <1>2, <1>3, <1>5, RecursiveFunction
<1>7. ASSUME NEW n \in 0 .. N, n # 0 PROVE step[<<n, g[n - 1]>>] = Round(g[n - 1], n)
  <2>1. n \in 1 .. N /\ n - 1 \in 0 .. N
    BY <1>2, <1>7
  <2> QED
    BY <1>5, <2>1
<1>8. Eq(g)
  BY <1>6, <1>7 DEF Recursive
<1>9. Eq(f)
  <2> HIDE DEF Eq
  <2> QED
    BY <1>8
<1> HIDE DEF f
<1>10. f[0] = bs /\ \A n \in 1 .. N : f[n] = Round(f[n - 1], n)
  <2>1. 0 \in 0 .. N /\ \A n \in 1 .. N : n \in 0 .. N /\ n # 0
    BY <1>2
  <2> QED
    BY <1>9, <2>1
<1> HIDE DEF Eq
<1>11. \A n \in 0 .. N : f[n] \in S
  <2>1. \A n \in 1 .. N : f[n - 1] \in S => f[n] \in S
    BY <1>4, <1>10
  <2>2. f[0] \in S
    BY <1>3, <1>10
  <2> QED
    BY <1>2, <2>1, <2>2, AllAlong
<1>12. N \in 0 .. N
  BY <1>2
<1> QED
  BY <1>1, <1>11, <1>12 DEF S

LEMMA FillKeeps ==
    ASSUME NEW bs, IsBuffers(bs), NEW v, Open(bs, v),
           NEW x \in Int, NEW start \in Int, NEW end \in Int \union {undefined}
    PROVE  _ejs_TypedArray_prototype_fill(bs, v, x, start, end) \in Stored(bs)
<1> DEFINE k == RelativeIndex(start, v.length)
           final == EndIndex(end, v.length)
           m == Max({final - k, 0})
           ks == [n \in 1 .. m |-> k + n - 1]
           xs == [n \in DOMAIN ks |-> x]
<1>1. v.length \in Nat
  BY DEF Open, ViewRec
<1>2. k \in Int /\ final \in Int
  <2>1. k \in 0 .. v.length /\ final \in 0 .. v.length
    BY <1>1, RelativeIs, EndIs
  <2> HIDE DEF k, final
  <2> QED
    BY <1>1, <2>1
<1>3. _ejs_TypedArray_prototype_fill(bs, v, x, start, end) = SetAll(bs, v, ks, xs)
  BY DEF _ejs_TypedArray_prototype_fill
<1> HIDE DEF k, final
<1>4. m \in Nat
  <2> DEFINE h == final - k
  <2>1. h \in Int
    BY <1>2
  <2> HIDE DEF h
  <2>2. Max({h, 0}) \in Nat
    BY <2>1, MaxOf
  <2> QED
    BY <2>2 DEF h
<1> HIDE DEF m
<1>5. ks \in [1 .. m -> Int] /\ ks \in Seq(Int) /\ Len(ks) = m /\ DOMAIN ks = 1 .. m
  BY <1>2, <1>4
<1>6. Len(ks) \in Nat /\ \A n \in 1 .. Len(ks) : ks[n] \in Int /\ xs[n] \in Int
  BY <1>4, <1>5
<1> HIDE DEF ks, xs
<1>7. SetAll(bs, v, ks, xs) \in Stored(bs)
  BY <1>6, SetAllKeeps
<1> QED
  BY <1>3, <1>7

LEMMA CopyWithinKeeps ==
    ASSUME NEW bs, IsBuffers(bs), NEW v, Open(bs, v), Whole(bs, v),
           NEW target \in Int, NEW start \in Int, NEW end \in Int \union {undefined}
    PROVE  copyWithin(bs, v, target, start, end) \in Stored(bs)
<1> DEFINE to == RelativeIndex(target, v.length)
           from == RelativeIndex(start, v.length)
           upto == EndIndex(end, v.length)
           least == Min({upto - from, v.length - to})
           count == Max({least, 0})
           down == from < to /\ to < from + count
           order == [j \in 1 .. count |-> IF down THEN count - j ELSE j - 1]
<1>1. v.length \in Nat
  BY DEF Open, ViewRec
<1>2. to \in 0 .. v.length /\ from \in 0 .. v.length /\ upto \in 0 .. v.length
  BY <1>1, RelativeIs, EndIs
<1>3. copyWithin(bs, v, target, start, end) = CopyElements(bs, v, from, to, order)
  BY DEF copyWithin
<1> HIDE DEF to, from, upto
<1>4. to \in Int /\ from \in Int /\ upto \in Int
  BY <1>1, <1>2
<1>5. least \in Int /\ least <= upto - from
  <2> DEFINE h == upto - from
             g == v.length - to
  <2>1. h \in Int /\ g \in Int
    BY <1>1, <1>4
  <2> HIDE DEF h, g
  <2>2. Min({h, g}) \in Int /\ Min({h, g}) <= h
    BY <2>1, MinOf
  <2> QED
    BY <2>2 DEF h, g
<1> HIDE DEF least
<1>6. count \in Nat /\ (count = 0 \/ count <= upto - from)
  BY <1>5, MaxOf
<1> HIDE DEF count, down
<1>7. order \in [1 .. count -> Int]
  BY <1>6
<1>8. order \in Seq(Int) /\ Len(order) = count
  BY <1>6, <1>7
<1>9. ASSUME NEW n \in 1 .. Len(order) PROVE order[n] \in Int /\ from + order[n] \in 0 .. v.length - 1
  <2>1. n \in 1 .. count /\ n \in Int
    BY <1>6, <1>8
  <2>2. order[n] \in 0 .. count - 1
    BY <1>6, <2>1
  <2> HIDE DEF order
  <2> DEFINE o == order[n]
  <2>3. o \in Int /\ 0 <= o /\ o <= count - 1
    BY <1>6, <2>2
  <2> HIDE DEF o
  <2>4. count <= upto - from
    BY <1>6, <2>1
  <2>5. from + o >= 0 /\ from + o <= v.length - 1
    BY <1>1, <1>2, <1>4, <1>6, <2>3, <2>4
  <2> QED
    BY <1>1, <1>4, <2>3, <2>5 DEF o
<1> HIDE DEF order
<1>10. Len(order) \in Nat
  BY <1>6, <1>8
<1>11. CopyElements(bs, v, from, to, order) \in Stored(bs)
  BY <1>4, <1>9, <1>10, CopyKeeps
<1> QED
  BY <1>3, <1>11

-----------------------------------------------------------------------------
(* New buffers and views.                                                   *)

LEMMA LimitIs == BufferSize \in Nat /\ Word \in Nat /\ 2 * BufferSize < Word
BY SizeAssumption

\* A view made from a buffer lies in it, unless the end of the view wraps.
LEMMA ConstructIs ==
    ASSUME NEW bs, IsBuffers(bs), NEW type \in Types, NEW b \in 1 .. Len(bs), NEW off \in Int,
           NEW len \in Int \union {undefined},
           bs[b].size >= 0 /\ len # undefined => U32(len * elsize(type)) + BufferSize < Word,
           ConstructFromBuffer(bs, type, b, off, len) # RangeError
    PROVE  LET v == ConstructFromBuffer(bs, type, b, off, len) IN OkView(bs, v) /\ v.buffer = b
<1> DEFINE n == elsize(type)
           t == bs[b].size
           size == U32(t)
           u == U32(off)
           o == Min({u, size})
           l == U32(len * n)
           want == IF len = undefined THEN size ELSE l
           over == U32(o + want) > size
           r == U32(size - o)
           got == IF over THEN r ELSE want
           v == ConstructFromBuffer(bs, type, b, off, len)
<1>1. /\ ~(over /\ len # undefined) /\ o % n = 0 /\ got % n = 0
      /\ v = [type |-> type, buffer |-> b, byteOffset |-> o, length |-> got \div n]
  BY DEF ConstructFromBuffer
<1>2. t \in Int /\ t <= BufferSize
  BY BufferIs DEF BufferRec, OkBuffer
<1>3. n \in {1, 2} /\ (len # undefined => len * n \in Int)
  BY SizeIs, TimesIs
<1> HIDE DEF t, n
<1>4. size \in Nat /\ size < Word /\ (t >= 0 => size = t) /\ u \in Nat
  <2>1. size \in Nat /\ size < Word /\ u \in Nat
    BY <1>2, U32Is
  <2>2. ASSUME t >= 0 PROVE size = t
    <3>1. t < Word
      BY <1>2, <2>2, LimitIs
    <3> QED
      BY <1>2, <2>2, <3>1, U32Is
  <2> QED
    BY <2>1, <2>2
<1>5. len # undefined => l \in Nat /\ (t >= 0 => l + BufferSize < Word)
  BY <1>3, U32Is DEF n, t
<1> HIDE DEF size, u, l
<1>6. o \in Nat /\ o <= size
  BY <1>4, MinOf
<1> HIDE DEF o
<1>7. r \in Nat /\ r = size - o
  <2>1. size - o \in Int /\ size - o >= 0 /\ size - o < Word
    BY <1>4, <1>6, LimitIs
  <2> QED
    BY <1>6, <2>1, <1>4, U32Is
<1> HIDE DEF r
<1>8. want \in Nat
  BY <1>4, <1>5
<1>9. got \in Nat
  BY <1>7, <1>8
<1>10. t >= 0 => o + got <= t
  <2>1. SUFFICES ASSUME t >= 0 PROVE o + got <= size
    BY <1>4
  <2>2. o + want \in Int /\ o + want >= 0 /\ o + want < Word
    <3>1. o <= BufferSize /\ size <= BufferSize
      BY <1>2, <1>4, <1>6, <2>1, LimitIs
    <3>2. CASE len = undefined
      BY <1>4, <1>6, <3>1, <3>2, LimitIs
    <3>3. CASE len # undefined
      <4>1. want = l /\ l \in Nat /\ l + BufferSize < Word
        BY <1>5, <2>1, <3>3
      <4> HIDE DEF want
      <4> QED
        BY <1>6, <3>1, <4>1, LimitIs
    <3> QED
      BY <3>2, <3>3
  <2>3. U32(o + want) = o + want
    <3> DEFINE s == o + want
    <3>1. s \in Int /\ s >= 0 /\ s < Word
      BY <2>2
    <3> HIDE DEF s
    <3>2. U32(s) = s
      BY <3>1, U32Is
    <3> QED
      BY <3>2 DEF s
  <2>4. CASE over
    BY <1>4, <1>6, <1>7, <2>4
  <2>5. CASE ~over
    <3>1. got = want /\ ~(o + want > size)
      BY <2>3, <2>5
    <3> HIDE DEF got, want, over
    <3> QED
      BY <1>4, <1>6, <1>8, <3>1
  <2> QED
    BY <2>4, <2>5
<1>11. got % n = 0
  BY <1>1
<1> HIDE DEF got, want, over
<1>12. got \div n \in Nat /\ (got \div n) * n = got
  <2>1. CASE n = 1
    BY <1>9, <2>1
  <2>2. CASE n = 2
    BY <1>9, <1>11, <2>2
  <2> QED
    BY <1>3, <2>1, <2>2
<1> DEFINE w == [type |-> type, buffer |-> b, byteOffset |-> o, length |-> got \div n]
<1>13. v = w
  BY <1>1
<1>14. w \in ViewRec /\ w.buffer = b /\ w.byteOffset = o /\ w.length = got \div n /\ w.type = type
  <2>1. b \in Nat
    BY BufferIs
  <2> QED
    BY <1>6, <1>12, <2>1 DEF ViewRec
<1> HIDE DEF w, v
<1>15. OkView(bs, w)
  <2>1. w.length * elsize(w.type) = got
    BY <1>12, <1>14 DEF n
  <2> QED
    BY <1>10, <1>14, <2>1 DEF OkView, t
<1> QED
  BY <1>13, <1>14, <1>15 DEF v

LEMMA SubarrayIs ==
    ASSUME NEW bs, IsBuffers(bs), NEW v, OkView(bs, v), v.type # "DataView",
           NEW begin \in Int, NEW end \in Int \union {undefined},
           subarray(bs, v, begin, end) # RangeError
    PROVE  LET w == subarray(bs, v, begin, end) IN OkView(bs, w) /\ w.buffer = v.buffer
<1> DEFINE from == RelativeIndex(begin, v.length)
           upto == EndIndex(end, v.length)
           len == Max({upto - from, 0})
           e == elsize(v.type)
           off == v.byteOffset + from * e
           s == bs[v.buffer].size
<1>1. v \in ViewRec /\ v.buffer \in 1 .. Len(bs)
  BY DEF OkView
<1>2. v.length \in Nat /\ v.byteOffset \in Nat /\ v.type \in Types
  BY <1>1 DEF ViewRec
<1>3. from \in 0 .. v.length /\ upto \in 0 .. v.length
  BY <1>2, RelativeIs, EndIs
<1>4. subarray(bs, v, begin, end) = ConstructFromBuffer(bs, v.type, v.buffer, off, len)
  BY DEF subarray
<1> HIDE DEF from, upto
<1>5. from \in Int /\ upto \in Int
  BY <1>2, <1>3
<1>6. len \in Nat /\ len <= v.length
  <2> DEFINE h == upto - from
  <2>1. h \in Int /\ h <= v.length
    BY <1>2, <1>3, <1>5
  <2> HIDE DEF h
  <2>2. Max({h, 0}) \in Nat /\ Max({h, 0}) <= v.length
    BY <1>2, <2>1, MaxOf
  <2> QED
    BY <2>2 DEF h
<1> HIDE DEF len
<1>7. off \in Int
  <2>1. from * e \in Int
    BY <1>5, TimesIs
  <2> HIDE DEF e
  <2> QED
    BY <1>2, <2>1
<1>8. ASSUME s >= 0 PROVE U32(len * e) + BufferSize < Word
  <2>1. s \in Int /\ s <= BufferSize
    BY <1>1, BufferIs DEF BufferRec, OkBuffer
  <2>2. v.byteOffset + v.length * e <= s
    BY <1>8 DEF OkView
  <2>3. e \in {1, 2}
    BY SizeIs
  <2> DEFINE l == v.length
             o == v.byteOffset
  <2> HIDE DEF e, s, l, o
  <2>4. len * e \in Int /\ 0 <= len * e /\ len * e <= BufferSize
    <3>1. l \in Nat /\ o \in Nat /\ len <= l /\ o + l * e <= s
      BY <1>2, <1>6, <2>2 DEF l, o
    <3>2. CASE e = 1
      BY <1>6, <2>1, <3>1, <3>2, LimitIs
    <3>3. CASE e = 2
      BY <1>6, <2>1, <3>1, <3>3, LimitIs
    <3> QED
      BY <2>3, <3>2, <3>3
  <2> DEFINE m == len * e
  <2>5. m \in Int /\ 0 <= m /\ m <= BufferSize
    BY <2>4
  <2> HIDE DEF m
  <2>6. m < Word
    BY <2>5, LimitIs
  <2>7. U32(m) = m
    BY <2>5, <2>6, U32Is
  <2>8. U32(m) + BufferSize < Word
    BY <2>5, <2>7, LimitIs
  <2> QED
    BY <2>8 DEF m
<1> HIDE DEF off
<1>9. len \in Int
  BY <1>6
<1> QED
  BY <1>1, <1>2, <1>4, <1>7, <1>8, <1>9, ConstructIs

LEMMA DataViewIs ==
    ASSUME NEW bs, IsBuffers(bs), NEW b \in 1 .. Len(bs), NEW off \in Int, NEW len \in Int \union {undefined}
    PROVE  LET v == _ejs_DataView_impl(bs, b, off, len) IN OkView(bs, v) /\ v.buffer = b
<1>1. b \in Nat /\ bs[b].size \in Int
  BY BufferIs DEF BufferRec
<1> DEFINE s == bs[b].size - off
<1>2. s \in Int
  BY <1>1
<1> HIDE DEF s
<1>3. U32(off) \in Nat /\ U32(s) \in Nat /\ (len # undefined => U32(len) \in Nat)
  BY <1>2, U32Is
<1> DEFINE l == IF len = undefined THEN U32(s) ELSE U32(len)
           o == U32(off)
           w == [type |-> "DataView", buffer |-> b, byteOffset |-> o, length |-> l]
<1>4. l \in Nat /\ o \in Nat
  BY <1>3
<1>5. _ejs_DataView_impl(bs, b, off, len) = w
  BY DEF _ejs_DataView_impl, s
<1> HIDE DEF l, o
<1>6. w \in ViewRec /\ w.type = "DataView" /\ w.buffer = b
  BY <1>1, <1>4 DEF ViewRec
<1> HIDE DEF w
<1> QED
  BY <1>5, <1>6 DEF OkView

\* A buffer that may be added to bs.
NewOne(bs, x) ==
    /\ x \in BufferRec
    /\ x.size <= BufferSize
    /\ x.dependent =>
        /\ x.buf \in 1 .. Len(bs)
        /\ x.size >= 0 /\ bs[x.buf].size >= 0 =>
            0 <= x.offset /\ x.offset + x.size <= bs[x.buf].size
    /\ ~x.dependent => x.size \in Nat /\ x.data \in [1 .. x.size -> Octet]

LEMMA AppendIs ==
    ASSUME NEW bs, IsBuffers(bs), NEW x, NewOne(bs, x)
    PROVE  LET cs == Append(bs, x)
           IN  /\ IsBuffers(cs) /\ Len(cs) = Len(bs) + 1 /\ cs[Len(bs) + 1] = x
               /\ \A b \in 1 .. Len(bs) : cs[b] = bs[b]
               /\ \A K : Kept(bs, K) /\ (x.dependent => x.buf \in K) => Kept(cs, K \union {Len(bs) + 1})
               /\ \A v : OkView(bs, v) => OkView(cs, v)
<1> DEFINE cs == Append(bs, x)
           N == Len(bs)
<1>1. bs \in Seq(BufferRec) /\ N \in Nat /\ x \in BufferRec
  BY DEF IsBuffers, NewOne
<1>2. cs \in Seq(BufferRec) /\ Len(cs) = N + 1 /\ cs[N + 1] = x /\ \A b \in 1 .. N : cs[b] = bs[b]
  BY <1>1
<1> HIDE DEF cs
<1>3. \A b \in 1 .. N + 1 : b \in 1 .. N \/ b = N + 1
  BY <1>1
<1>4. ASSUME NEW b \in 1 .. N PROVE OkBuffer(cs, b)
  <2>1. OkBuffer(bs, b) /\ cs[b] = bs[b] /\ b \in Nat
    BY <1>2, BufferIs
  <2>2. bs[b].dependent => bs[b].buf \in 1 .. N
    <3>1. bs[b].dependent => bs[b].buf \in 1 .. b - 1
      BY <2>1 DEF OkBuffer
    <3> QED
      BY <1>1, <3>1
  <2>3. bs[b].dependent => cs[bs[b].buf] = bs[bs[b].buf]
    BY <1>2, <2>2
  <2> QED
    BY <2>1, <2>3 DEF OkBuffer
<1>5. OkBuffer(cs, N + 1)
  <2>1. x.dependent => x.buf \in 1 .. N /\ cs[x.buf] = bs[x.buf]
    BY <1>2 DEF NewOne
  <2>2. N + 1 - 1 = N
    BY <1>1
  <2> QED
    BY <1>2, <2>1, <2>2 DEF OkBuffer, NewOne
<1>6. IsBuffers(cs)
  BY <1>2, <1>3, <1>4, <1>5 DEF IsBuffers
<1>7. ASSUME NEW K, Kept(bs, K), x.dependent => x.buf \in K PROVE Kept(cs, K \union {N + 1})
  <2> SUFFICES ASSUME NEW b \in K \union {N + 1}
               PROVE  /\ b \in 1 .. N + 1
                      /\ cs[b].dependent => cs[b].buf \in K \union {N + 1}
                      /\ ~cs[b].dependent => cs[b].data # Freed
    BY <1>2 DEF Kept
  <2>1. CASE b \in K
    <3>1. b \in 1 .. N /\ (bs[b].dependent => bs[b].buf \in K) /\ (~bs[b].dependent => bs[b].data # Freed)
      BY <1>7, <2>1 DEF Kept
    <3> QED
      BY <1>1, <1>2, <3>1
  <2>2. CASE b = N + 1
    <3>1. ~x.dependent => x.data # Freed
      BY BlockIs DEF NewOne
    <3>2. N + 1 \in 1 .. N + 1
      BY <1>1
    <3> QED
      BY <1>2, <1>7, <2>2, <3>1, <3>2
  <2> QED
    BY <2>1, <2>2
<1>8. ASSUME NEW v, OkView(bs, v) PROVE OkView(cs, v)
  <2>1. v.buffer \in 1 .. N /\ cs[v.buffer] = bs[v.buffer]
    BY <1>2, <1>8 DEF OkView
  <2>2. v.buffer \in 1 .. N + 1
    BY <1>1, <2>1
  <2> QED
    BY <1>2, <1>8, <2>1, <2>2 DEF OkView
<1> QED
  BY <1>2, <1>6, <1>7, <1>8 DEF cs

LEMMA FreshIs ==
    ASSUME NEW bs, NEW size \in Nat, size <= BufferSize
    PROVE  LET x == _ejs_arraybuffer_new(size) IN NewOne(bs, x) /\ x.size = size /\ ~x.dependent
<1> DEFINE x == _ejs_arraybuffer_new(size)
           data == [i \in 1 .. size |-> 0]
<1>1. data \in [1 .. size -> Octet]
  BY OctetIs
<1>2. data \in Blocks
  BY <1>1, BlockIs
<1> HIDE DEF data
<1>3. x = [dependent |-> FALSE, size |-> size, buf |-> Nil, offset |-> 0, data |-> data]
  BY DEF _ejs_arraybuffer_new, data
<1> HIDE DEF x
<1>4. x \in BufferRec /\ x.size = size /\ x.data = data /\ ~x.dependent
  BY <1>2, <1>3 DEF BufferRec
<1> QED
  BY <1>1, <1>4 DEF NewOne, x

LEMMA SliceIs ==
    ASSUME NEW bs, IsBuffers(bs), NEW b \in 1 .. Len(bs), NEW offset \in Int, offset >= 0, NEW size \in Int
    PROVE  LET x == _ejs_arraybuffer_new_slice(bs, b, offset, size)
           IN  NewOne(bs, x) /\ x.dependent /\ x.buf = b
<1> DEFINE t == bs[b].size
           at == Min({t, offset})
           l == IF size + at > t THEN t - offset ELSE size
           x == _ejs_arraybuffer_new_slice(bs, b, offset, size)
<1>1. t \in Int /\ t <= BufferSize /\ b \in Nat
  BY BufferIs DEF BufferRec, OkBuffer
<1> HIDE DEF t
<1>2. at \in Int /\ ((at = t /\ t <= offset) \/ (at = offset /\ offset <= t))
  BY <1>1, MinOf
<1> HIDE DEF at
<1>3. l \in Int /\ l <= BufferSize
  BY <1>1, <1>2, LimitIs
<1>4. l >= 0 /\ t >= 0 => 0 <= at /\ at + l <= t
  BY <1>1, <1>2
<1>5. <<>> \in Blocks
  <2>1. <<>> \in [1 .. 0 -> Octet]
    OBVIOUS
  <2> QED
    BY <2>1 DEF Blocks
<1>6. x = [dependent |-> TRUE, buf |-> b, offset |-> at, data |-> <<>>, size |-> l]
  BY DEF _ejs_arraybuffer_new_slice, at, t
<1> HIDE DEF l, x
<1>7. x \in BufferRec
  BY <1>1, <1>2, <1>3, <1>5, <1>6 DEF BufferRec
<1>8. x.dependent /\ x.buf = b /\ x.offset = at /\ x.size = l
  BY <1>6
<1> QED
  BY <1>3, <1>4, <1>7, <1>8 DEF NewOne, x, t

-----------------------------------------------------------------------------
(* Steps.                                                                   *)

LEMMA Names ==
    \A i, j : /\ (View(i) = View(j) => i = j) /\ (Buffer(i) = Buffer(j) => i = j)
              /\ View(i) # Buffer(j)
BY DEF View, Buffer

\* What the program or the running method refers to is open.
LEMMA RootIs ==
    ASSUME BytesInv, NEW i \in 1 .. Len(views), View(i) \in Roots
    PROVE  Open(buffers, views[i]) /\ OkView(buffers, views[i])
<1>1. OkView(buffers, views[i])
  BY DEF BytesInv, IsViews
<1>2. PICK K : Kept(buffers, K) /\ Holds(views, Len(buffers), Roots, K)
  BY DEF BytesInv
<1>3. views[i].buffer \in K
  BY <1>2 DEF Holds
<1> QED
  BY <1>1, <1>2, <1>3 DEF Open, OkView

\* A step that only stores bytes.
LEMMA StoresInv ==
    ASSUME BytesInv, buffers' \in Stored(buffers), UNCHANGED <<views, held, call>>
    PROVE  BytesInv'
<1>1. IsBuffers(buffers') /\ Len(buffers') = Len(buffers) /\ IsViews(buffers', views)
      /\ \A K : Kept(buffers, K) => Kept(buffers', K)
  BY StoredIs DEF BytesInv
<1>2. PICK K : Kept(buffers, K) /\ Holds(views, Len(buffers), Roots, K)
  BY DEF BytesInv
<1>3. Roots' = Roots
  BY DEF Roots
<1>4. Kept(buffers', K) /\ Holds(views', Len(buffers'), Roots', K)
  BY <1>1, <1>2, <1>3
<1>5. call' # Nil => IsCall(views', call')
  BY DEF BytesInv
<1> QED
  BY <1>1, <1>4, <1>5 DEF BytesInv

LEMMA AppendedView ==
    ASSUME NEW bs, NEW vs, IsViews(bs, vs), NEW v, OkView(bs, v)
    PROVE  LET ws == Append(vs, v)
           IN  /\ IsViews(bs, ws) /\ Len(ws) = Len(vs) + 1 /\ Len(vs) \in Nat /\ ws[Len(vs) + 1] = v
               /\ \A i \in 1 .. Len(vs) : i \in 1 .. Len(ws) /\ ws[i] = vs[i]
               /\ \A i \in 1 .. Len(ws) : i \in 1 .. Len(vs) \/ i = Len(vs) + 1
               /\ \A c : IsCall(vs, c) => IsCall(ws, c)
<1> DEFINE ws == Append(vs, v)
           N == Len(vs)
<1>1. vs \in Seq(ViewRec) /\ v \in ViewRec /\ N \in Nat
  BY DEF IsViews, OkView
<1>2. ws \in Seq(ViewRec) /\ Len(ws) = N + 1 /\ ws[N + 1] = v /\ \A i \in 1 .. N : i \in 1 .. N + 1 /\ ws[i] = vs[i]
  BY <1>1
<1>3. \A i \in 1 .. N + 1 : i \in 1 .. N \/ i = N + 1
  BY <1>1
<1> HIDE DEF ws
<1>4. IsViews(bs, ws)
  <2> SUFFICES ASSUME NEW i \in 1 .. N + 1 PROVE OkView(bs, ws[i])
    BY <1>2 DEF IsViews
  <2>1. CASE i \in 1 .. N
    BY <1>2, <2>1 DEF IsViews
  <2>2. CASE i = N + 1
    BY <1>2, <2>2
  <2> QED
    BY <1>3, <2>1, <2>2
<1>5. ASSUME NEW c, IsCall(vs, c) PROVE IsCall(ws, c)
  <2>1. c.v \in 1 .. N /\ (c.A # Nil \/ c.op = "map" => c.A \in 1 .. N)
    BY <1>5 DEF IsCall
  <2>2. c.v \in 1 .. N + 1 /\ ws[c.v] = vs[c.v] /\ (c.A # Nil \/ c.op = "map" => c.A \in 1 .. N + 1)
    BY <1>2, <2>1
  <2> QED
    BY <1>2, <1>5, <2>2 DEF IsCall
<1> QED
  BY <1>1, <1>2, <1>3, <1>4, <1>5 DEF ws

LEMMA NewViewInv ==
    ASSUME BytesInv, NEW v, OkView(buffers, v), NewView(v),
           \A K : Kept(buffers, K) /\ Holds(views, Len(buffers), Roots, K) => v.buffer \in K
    PROVE  BytesInv'
<1>1. /\ views' = Append(views, v) /\ held' = held \union {View(Len(views) + 1)}
      /\ buffers' = buffers /\ call' = call
  BY DEF NewView
<1>2. IsBuffers(buffers) /\ IsViews(buffers, views) /\ (call # Nil => IsCall(views, call))
  BY DEF BytesInv
<1>3. /\ IsViews(buffers, views') /\ views'[Len(views) + 1] = v
      /\ \A i \in 1 .. Len(views) : views'[i] = views[i]
      /\ \A i \in 1 .. Len(views') : i \in 1 .. Len(views) \/ i = Len(views) + 1
      /\ \A c : IsCall(views, c) => IsCall(views', c)
  BY <1>1, <1>2, AppendedView
<1>4. PICK K : Kept(buffers, K) /\ Holds(views, Len(buffers), Roots, K)
  BY DEF BytesInv
<1>5. Roots' = Roots \union {View(Len(views) + 1)}
  BY <1>1 DEF Roots
<1>6. v.buffer \in K
  BY <1>4
<1>7. Holds(views', Len(buffers'), Roots', K)
  <2>1. ASSUME NEW b \in 1 .. Len(buffers), Buffer(b) \in Roots' PROVE b \in K
    <3>1. Buffer(b) \in Roots
      BY <1>5, <2>1, Names
    <3> QED
      BY <1>4, <3>1 DEF Holds
  <2>2. ASSUME NEW i \in 1 .. Len(views'), View(i) \in Roots' PROVE views'[i].buffer \in K
    <3>1. CASE i \in 1 .. Len(views) /\ i # Len(views) + 1
      <4>1. View(i) \in Roots
        BY <1>5, <2>2, <3>1, Names
      <4> QED
        BY <1>3, <1>4, <3>1, <4>1 DEF Holds
    <3>2. CASE i = Len(views) + 1
      BY <1>3, <1>6, <3>2
    <3> QED
      BY <1>3, <3>1, <3>2
  <2> QED
    BY <1>1, <2>1, <2>2 DEF Holds
<1> QED
  BY <1>1, <1>2, <1>3, <1>4, <1>7 DEF BytesInv

LEMMA NewBufferInv ==
    ASSUME BytesInv, NEW x, NewOne(buffers, x), NewBuffer(x),
           \A K : Holds(views, Len(buffers), Roots, K) => (x.dependent => x.buf \in K)
    PROVE  BytesInv'
<1> DEFINE N == Len(buffers)
<1>1. /\ buffers' = Append(buffers, x) /\ held' = held \union {Buffer(N + 1)}
      /\ views' = views /\ call' = call
  BY DEF NewBuffer
<1>2. IsBuffers(buffers) /\ IsViews(buffers, views) /\ (call # Nil => IsCall(views, call))
  BY DEF BytesInv
<1>3. /\ IsBuffers(buffers') /\ Len(buffers') = N + 1
      /\ \A K : Kept(buffers, K) /\ (x.dependent => x.buf \in K) => Kept(buffers', K \union {N + 1})
      /\ \A v : OkView(buffers, v) => OkView(buffers', v)
  BY <1>1, <1>2, AppendIs
<1>4. PICK K : Kept(buffers, K) /\ Holds(views, N, Roots, K)
  BY DEF BytesInv
<1>5. IsViews(buffers', views)
  BY <1>2, <1>3 DEF IsViews
<1>6. Kept(buffers', K \union {N + 1})
  BY <1>3, <1>4
<1>7. Roots' = Roots \union {Buffer(N + 1)}
  BY <1>1 DEF Roots
<1>8. Holds(views', Len(buffers'), Roots', K \union {N + 1})
  <2>1. N \in Nat
    BY <1>2 DEF IsBuffers
  <2>2. ASSUME NEW b \in 1 .. N + 1, Buffer(b) \in Roots' PROVE b \in K \union {N + 1}
    <3>1. CASE b \in 1 .. N /\ b # N + 1
      <4>1. Buffer(b) \in Roots
        BY <1>7, <2>2, <3>1, Names
      <4> QED
        BY <1>4, <3>1, <4>1 DEF Holds
    <3>2. b \in 1 .. N \/ b = N + 1
      BY <2>1
    <3> QED
      BY <3>1, <3>2
  <2>3. ASSUME NEW i \in 1 .. Len(views), View(i) \in Roots' PROVE views[i].buffer \in K
    <3>1. View(i) \in Roots
      BY <1>7, <2>3, Names
    <3> QED
      BY <1>4, <3>1 DEF Holds
  <2> QED
    BY <1>1, <1>3, <2>2, <2>3 DEF Holds
<1> QED
  BY <1>1, <1>2, <1>3, <1>5, <1>6, <1>8 DEF BytesInv

\* A buffer for n elements, and the typed array on it.
LEMMA OwnIs ==
    ASSUME BytesInv, NEW type \in Types, NEW n \in Nat, n * elsize(type) <= BufferSize
    PROVE  LET bs == OwnBuffer(type, n)
               v == _ejs_typedarray_new(type, Len(buffers) + 1, n)
           IN  /\ IsBuffers(bs) /\ Len(bs) = Len(buffers) + 1 /\ Len(buffers) \in Nat
               /\ Open(bs, v) /\ OkView(bs, v) /\ v.buffer = Len(buffers) + 1
               /\ \A K : Kept(buffers, K) => Kept(bs, K \union {Len(buffers) + 1})
               /\ IsViews(bs, views)
<1> DEFINE N == Len(buffers)
           size == n * elsize(type)
           x == _ejs_arraybuffer_new(size)
           bs == OwnBuffer(type, n)
           v == _ejs_typedarray_new(type, N + 1, n)
<1>1. IsBuffers(buffers) /\ IsViews(buffers, views) /\ N \in Nat
  BY DEF BytesInv, IsBuffers
<1>2. size \in Nat /\ size <= BufferSize
  BY SizeIs
<1>3. bs = Append(buffers, x)
  BY DEF OwnBuffer
<1>4. v = [type |-> type, buffer |-> N + 1, byteOffset |-> 0, length |-> n]
  BY DEF _ejs_typedarray_new
<1> HIDE DEF bs, v
<1>5. NewOne(buffers, x) /\ x.size = size /\ ~x.dependent
  <2> HIDE DEF size
  <2> QED
    BY <1>2, FreshIs
<1>6. x.size = n * elsize(type)
  BY <1>5
<1> HIDE DEF x, size
<1>7. /\ IsBuffers(bs) /\ Len(bs) = N + 1 /\ bs[N + 1] = x
      /\ \A K : Kept(buffers, K) => Kept(bs, K \union {N + 1})
      /\ \A w : OkView(buffers, w) => OkView(bs, w)
  BY <1>1, <1>3, <1>5, AppendIs
<1>8. v \in ViewRec /\ v.buffer = N + 1 /\ v.byteOffset = 0 /\ v.length = n /\ v.type = type
  BY <1>1, <1>4 DEF ViewRec
<1>9. v.buffer \in 1 .. Len(bs)
  BY <1>1, <1>7, <1>8
<1>10. OkView(bs, v)
  <2> DEFINE m == n * elsize(type)
  <2>1. m \in Nat /\ x.size = m
    BY <1>2, <1>6 DEF size
  <2>2. v.length * elsize(v.type) = m /\ bs[v.buffer].size = m
    BY <1>7, <1>8, <2>1
  <2> HIDE DEF m
  <2>3. 0 + m <= m
    BY <2>1
  <2> QED
    BY <1>8, <1>9, <2>2, <2>3 DEF OkView
<1>11. Open(bs, v)
  <2>1. Kept(buffers, {})
    BY DEF Kept
  <2>2. Kept(bs, {} \union {N + 1}) /\ v.buffer \in {} \union {N + 1}
    BY <1>7, <1>8, <2>1
  <2> QED
    BY <1>8, <1>9, <2>2 DEF Open
<1>12. IsViews(bs, views)
  BY <1>1, <1>7 DEF IsViews
<1> QED
  BY <1>1, <1>7, <1>8, <1>10, <1>11, <1>12 DEF bs, v

\* A step that makes a typed array with a buffer of its own.
LEMMA MadeInv ==
    ASSUME BytesInv, NEW type \in Types, NEW n \in Nat, n * elsize(type) <= BufferSize,
           buffers' \in Stored(OwnBuffer(type, n)),
           views' = Append(views, _ejs_typedarray_new(type, Len(buffers) + 1, n)),
           Roots' \subseteq Roots \union {View(Len(views) + 1), Buffer(Len(buffers) + 1)},
           call' # Nil => IsCall(views, call') \/ IsCall(views', call')
    PROVE  BytesInv'
<1> DEFINE N == Len(buffers)
           bs == OwnBuffer(type, n)
           v == _ejs_typedarray_new(type, N + 1, n)
<1>1. /\ IsBuffers(bs) /\ Len(bs) = N + 1 /\ N \in Nat
      /\ OkView(bs, v) /\ v.buffer = N + 1
      /\ \A K : Kept(buffers, K) => Kept(bs, K \union {N + 1})
      /\ IsViews(bs, views)
  BY OwnIs
<1>2. buffers' \in Stored(bs) /\ views' = Append(views, v)
  OBVIOUS
<1> HIDE DEF bs, v
<1>3. /\ IsBuffers(buffers') /\ Len(buffers') = N + 1 /\ IsViews(buffers', views) /\ OkView(buffers', v)
      /\ \A K : Kept(bs, K) => Kept(buffers', K)
  BY <1>1, <1>2, StoredIs
<1>4. /\ IsViews(buffers', views') /\ views'[Len(views) + 1] = v
      /\ \A i \in 1 .. Len(views) : views'[i] = views[i]
      /\ \A i \in 1 .. Len(views') : i \in 1 .. Len(views) \/ i = Len(views) + 1
      /\ \A c : IsCall(views, c) => IsCall(views', c)
  BY <1>2, <1>3, AppendedView
<1>5. PICK K : Kept(buffers, K) /\ Holds(views, N, Roots, K)
  BY DEF BytesInv
<1>6. Kept(buffers', K \union {N + 1})
  BY <1>1, <1>3, <1>5
<1>7. Holds(views', Len(buffers'), Roots', K \union {N + 1})
  <2>1. ASSUME NEW b \in 1 .. N + 1, Buffer(b) \in Roots' PROVE b \in K \union {N + 1}
    <3>1. CASE b \in 1 .. N /\ b # N + 1
      <4>1. Buffer(b) \in Roots
        BY <2>1, <3>1, Names
      <4> QED
        BY <1>5, <3>1, <4>1 DEF Holds
    <3>2. b \in 1 .. N \/ b = N + 1
      BY <1>1
    <3> QED
      BY <3>1, <3>2
  <2>2. ASSUME NEW i \in 1 .. Len(views'), View(i) \in Roots' PROVE views'[i].buffer \in K \union {N + 1}
    <3>1. CASE i \in 1 .. Len(views) /\ i # Len(views) + 1
      <4>1. View(i) \in Roots
        BY <2>2, <3>1, Names
      <4> QED
        BY <1>4, <1>5, <3>1, <4>1 DEF Holds
    <3>2. CASE i = Len(views) + 1
      BY <1>1, <1>4, <3>2
    <3> QED
      BY <1>4, <3>1, <3>2
  <2> QED
    BY <1>3, <2>1, <2>2 DEF Holds
<1>8. call' # Nil => IsCall(views', call')
  BY <1>4
<1> QED
  BY <1>3, <1>4, <1>6, <1>7, <1>8 DEF BytesInv

LEMMA SliceInv == ASSUME BytesInv, Fits, _ejs_ArrayBuffer_prototype_slice PROVE BytesInv'
<1>1. PICK b \in Bufs, w \in Windows : NewBuffer(_ejs_arraybuffer_new_slice(buffers, b, w[2], w[1]))
  BY DEF _ejs_ArrayBuffer_prototype_slice
<1> DEFINE x == _ejs_arraybuffer_new_slice(buffers, b, w[2], w[1])
<1>2. b \in 1 .. Len(buffers) /\ Buffer(b) \in Roots
  BY DEF Bufs, Roots
<1>3. w[1] \in Int /\ w[2] \in Int /\ w[2] >= 0
  BY ProgramAssumption DEF Fits
<1>4. IsBuffers(buffers)
  BY DEF BytesInv
<1>5. NewOne(buffers, x) /\ x.buf = b
  BY <1>2, <1>3, <1>4, SliceIs
<1>6. \A K : Holds(views, Len(buffers), Roots, K) => b \in K
  BY <1>2 DEF Holds
<1>7. NewBuffer(x)
  BY <1>1
<1> HIDE DEF x
<1> QED
  BY <1>5, <1>6, <1>7, NewBufferInv

LEMMA BufferInv == ASSUME BytesInv, _ejs_ArrayBuffer_impl PROVE BytesInv'
<1> DEFINE x == _ejs_arraybuffer_new(BufferSize)
<1>1. NewBuffer(x)
  BY DEF _ejs_ArrayBuffer_impl
<1>2. NewOne(buffers, x) /\ ~x.dependent
  BY LimitIs, FreshIs
<1> HIDE DEF x
<1> QED
  BY <1>1, <1>2, NewBufferInv

LEMMA ConstructInv == ASSUME BytesInv, Fits, ConstructView PROVE BytesInv'
<1>1. PICK b \in Bufs, s \in Spans :
        \/ \E type \in Types : NewView(ConstructFromBuffer(buffers, type, b, s[1], s[2]))
        \/ NewView(_ejs_DataView_impl(buffers, b, s[1], s[2]))
  BY DEF ConstructView
<1>2. b \in 1 .. Len(buffers) /\ Buffer(b) \in Roots
  BY DEF Bufs, Roots
<1>3. s[1] \in Int /\ s[2] \in Int \union {undefined}
  BY ProgramAssumption
<1>4. IsBuffers(buffers)
  BY DEF BytesInv
<1>5. \A K : Holds(views, Len(buffers), Roots, K) => b \in K
  BY <1>2 DEF Holds
<1>6. CASE NewView(_ejs_DataView_impl(buffers, b, s[1], s[2]))
  <2> DEFINE v == _ejs_DataView_impl(buffers, b, s[1], s[2])
  <2>1. OkView(buffers, v) /\ v.buffer = b /\ NewView(v)
    BY <1>2, <1>3, <1>4, <1>6, DataViewIs
  <2> HIDE DEF v
  <2> QED
    BY <1>5, <2>1, NewViewInv
<1>7. ASSUME NEW type \in Types, NewView(ConstructFromBuffer(buffers, type, b, s[1], s[2])) PROVE BytesInv'
  <2> DEFINE v == ConstructFromBuffer(buffers, type, b, s[1], s[2])
             len == s[2]
             off == s[1]
  <2>1. NewView(v) /\ v # RangeError
    BY <1>7 DEF NewView
  <2>2. len # undefined => U32(len * elsize(type)) + BufferSize < Word
    <3>1. ASSUME len # undefined PROVE U32(len * elsize(type)) + BufferSize < Word
      <4>1. U32(len) + BufferSize < Word /\ U32(len * 2) + BufferSize < Word /\ len \in Int
        BY <1>3, <3>1 DEF Fits
      <4>2. len * 1 = len
        BY <4>1
      <4> HIDE DEF len
      <4>3. CASE elsize(type) = 1
        BY <4>1, <4>2, <4>3
      <4>4. CASE elsize(type) = 2
        BY <4>1, <4>4
      <4> QED
        BY <4>3, <4>4, SizeIs
    <3> QED
      BY <3>1
  <2>3. off \in Int /\ len \in Int \union {undefined}
    BY <1>3
  <2>4. v = ConstructFromBuffer(buffers, type, b, off, len)
    OBVIOUS
  <2> HIDE DEF v, len, off
  <2>5. OkView(buffers, v) /\ v.buffer = b
    BY <1>2, <1>4, <2>1, <2>2, <2>3, <2>4, ConstructIs
  <2> QED
    BY <1>5, <2>1, <2>5, NewViewInv
<1> QED
  BY <1>1, <1>6, <1>7

LEMMA TypedIs ==
    ASSUME BytesInv, NEW i \in Typed
    PROVE  /\ i \in 1 .. Len(views) /\ View(i) \in Roots /\ views[i].type # "DataView"
           /\ Open(buffers, views[i]) /\ OkView(buffers, views[i])
           /\ IsBuffers(buffers) /\ views[i].length \in Nat /\ views[i].type \in Types
           /\ ~IsDetachedBuffer(buffers, views[i].buffer) => Whole(buffers, views[i])
<1>1. i \in 1 .. Len(views) /\ View(i) \in Roots /\ views[i].type # "DataView"
  BY DEF Typed, Roots
<1>2. Open(buffers, views[i]) /\ OkView(buffers, views[i])
  BY <1>1, RootIs
<1>3. views[i].length \in Nat /\ views[i].type \in Types
  BY <1>1, <1>2 DEF OkView, ViewRec
<1>4. ~IsDetachedBuffer(buffers, views[i].buffer) => Whole(buffers, views[i])
  BY <1>1, <1>2 DEF IsDetachedBuffer, Whole
<1>5. IsBuffers(buffers)
  BY DEF BytesInv
<1> QED
  BY <1>1, <1>2, <1>3, <1>4, <1>5

LEMMA SubarrayInv == ASSUME BytesInv, Subarray PROVE BytesInv'
<1>1. PICK i \in Typed, begin \in Relative, end \in {-1, undefined} :
        NewView(subarray(buffers, views[i], begin, end))
  BY DEF Subarray
<1> DEFINE u == views[i]
           v == subarray(buffers, u, begin, end)
<1>2. i \in 1 .. Len(views) /\ View(i) \in Roots /\ u.type # "DataView" /\ OkView(buffers, u) /\ IsBuffers(buffers)
  BY TypedIs
<1>3. NewView(v) /\ v # RangeError
  BY <1>1 DEF NewView
<1>4. begin \in Int /\ end \in Int \union {undefined}
  BY ProgramAssumption
<1>5. \A K : Holds(views, Len(buffers), Roots, K) => u.buffer \in K
  BY <1>2 DEF Holds
<1>6. OkView(buffers, v) /\ v.buffer = u.buffer
  <2> HIDE DEF u
  <2> QED
    BY <1>2, <1>3, <1>4, SubarrayIs
<1> HIDE DEF v, u
<1> QED
  BY <1>3, <1>5, <1>6, NewViewInv

LEMMA ElementsInv == ASSUME BytesInv, WriteElements PROVE BytesInv'
<1>1. PICK i \in Typed :
        \/ \E k \in {0, views[i].length - 1}, x \in Numbers : Write(specop_set(buffers, views[i], k, x))
        \/ \E x \in Numbers : Write(_ejs_TypedArray_prototype_fill(buffers, views[i], x, -2, undefined))
        \/ /\ ~IsDetachedBuffer(buffers, views[i].buffer)
           /\ \/ Write(_ejs_TypedArray_prototype_reverse(buffers, views[i]))
              \/ Write(copyWithin(buffers, views[i], 1, 0, undefined))
  BY DEF WriteElements
<1> DEFINE v == views[i]
<1>2. Open(buffers, v) /\ IsBuffers(buffers) /\ v.length \in Nat
      /\ (~IsDetachedBuffer(buffers, v.buffer) => Whole(buffers, v))
  BY TypedIs
<1>3. undefined \in Int \union {undefined} /\ -2 \in Int
  OBVIOUS
<1> HIDE DEF v
<1>4. \E cs \in Stored(buffers) : Write(cs)
  <2>1. ASSUME NEW k \in {0, v.length - 1}, NEW x \in Numbers, Write(specop_set(buffers, v, k, x))
        PROVE  \E cs \in Stored(buffers) : Write(cs)
    <3>1. k \in Int /\ x \in Int
      BY <1>2, ProgramAssumption
    <3> QED
      BY <1>2, <2>1, <3>1, SetKeeps
  <2>2. ASSUME NEW x \in Numbers, Write(_ejs_TypedArray_prototype_fill(buffers, v, x, -2, undefined))
        PROVE  \E cs \in Stored(buffers) : Write(cs)
    <3>1. x \in Int
      BY ProgramAssumption
    <3> QED
      BY <1>2, <1>3, <2>2, <3>1, FillKeeps
  <2>3. ASSUME Whole(buffers, v), Write(_ejs_TypedArray_prototype_reverse(buffers, v))
        PROVE  \E cs \in Stored(buffers) : Write(cs)
    BY <1>2, <2>3, ReverseKeeps
  <2>4. ASSUME Whole(buffers, v), Write(copyWithin(buffers, v, 1, 0, undefined))
        PROVE  \E cs \in Stored(buffers) : Write(cs)
    <3>1. 1 \in Int /\ 0 \in Int
      OBVIOUS
    <3> DEFINE cs == copyWithin(buffers, v, 1, 0, undefined)
    <3>2. cs \in Stored(buffers)
      BY <1>2, <1>3, <2>4, <3>1, CopyWithinKeeps
    <3>3. Write(cs)
      BY <2>4
    <3> HIDE DEF cs
    <3> QED
      BY <3>2, <3>3
  <2> QED
    BY <1>1, <1>2, <2>1, <2>2, <2>3, <2>4 DEF v
<1> QED
  BY <1>4, StoresInv DEF Write

LEMMA DataInv == ASSUME BytesInv, WriteData PROVE BytesInv'
<1>1. PICK i \in DataViews, x \in Numbers :
        \/ \E type \in Types, little \in BOOLEAN : Write(_ejs_DataView_set(buffers, views[i], type, 0, x, little))
        \/ Write(_ejs_dataview_specop_set(buffers, views[i], 1, x))
  BY DEF WriteData
<1> DEFINE v == views[i]
<1>2. Open(buffers, v) /\ IsBuffers(buffers)
  <2>1. i \in 1 .. Len(views) /\ View(i) \in Roots
    BY DEF DataViews, Roots
  <2> QED
    BY <2>1, RootIs DEF BytesInv
<1>3. x \in Int
  BY ProgramAssumption
<1> HIDE DEF v
<1>4. ASSUME NEW type, NEW little \in BOOLEAN PROVE _ejs_DataView_set(buffers, v, type, 0, x, little) \in Stored(buffers)
  BY <1>2, <1>3, DataViewKeeps
<1>5. _ejs_dataview_specop_set(buffers, v, 1, x) \in Stored(buffers)
  <2>1. TRUE \in BOOLEAN /\ 1 \in Int
    OBVIOUS
  <2> QED
    BY <1>2, <1>3, <2>1, DataViewKeeps
<1>6. \E cs \in Stored(buffers) : Write(cs)
  BY <1>1, <1>4, <1>5 DEF v
<1> QED
  BY <1>6, StoresInv DEF Write

LEMMA SetTypedInv == ASSUME BytesInv, set_typedarray PROVE BytesInv'
<1>1. PICK t \in Typed, s \in Typed, offset \in Relative :
        /\ ~IsDetachedBuffer(buffers, views[s].buffer)
        /\ \/ UNCHANGED <<buffers, views, held, call>>
           \/ Write(SetAll(buffers, views[t], [n \in 1 .. views[s].length |-> offset + n - 1],
                           Elements(buffers, views[s])))
  BY DEF set_typedarray
<1> DEFINE target == views[t]
           src == views[s]
           m == src.length
           ks == [n \in 1 .. m |-> offset + n - 1]
           xs == Elements(buffers, src)
<1>2. Open(buffers, target) /\ Open(buffers, src) /\ Whole(buffers, src) /\ IsBuffers(buffers) /\ m \in Nat
  BY <1>1, TypedIs
<1>3. offset \in Int
  BY ProgramAssumption
<1>4. xs = [n \in 1 .. m |-> specop_get(buffers, src, n - 1)]
  BY DEF Elements
<1>5. \A n \in 1 .. m : n - 1 \in 0 .. src.length - 1
  BY <1>2
<1>6. \A n \in 0 .. src.length - 1 : specop_get(buffers, src, n) \in Int
  BY <1>2, GetIs
<1>7. \A n \in 1 .. m : xs[n] \in Int
  <2> HIDE DEF src, m
  <2> QED
    BY <1>4, <1>5, <1>6
<1> HIDE DEF target, xs, m, src
<1>8. ks \in [1 .. m -> Int]
  BY <1>3
<1>9. ks \in Seq(Int) /\ Len(ks) = m
  BY <1>2, <1>8
<1> HIDE DEF ks
<1>10. Len(ks) \in Nat /\ \A n \in 1 .. Len(ks) : ks[n] \in Int /\ xs[n] \in Int
  BY <1>2, <1>7, <1>8, <1>9
<1>11. SetAll(buffers, target, ks, xs) \in Stored(buffers)
  BY <1>2, <1>10, SetAllKeeps
<1>12. CASE UNCHANGED <<buffers, views, held, call>>
  BY <1>2, <1>12, StoredItself, StoresInv
<1>13. CASE Write(SetAll(buffers, target, ks, xs))
  BY <1>11, <1>13, StoresInv DEF Write
<1> QED
  BY <1>1, <1>12, <1>13 DEF target, ks, xs, m, src

LEMMA ArrayIs ==
    ASSUME NEW type, NEW a \in Arrays
    PROVE  /\ Len(a) \in Nat /\ Len(a) * elsize(type) <= BufferSize
           /\ DOMAIN a = 1 .. Len(a) /\ \A n \in 1 .. Len(a) : a[n] \in Int
<1> DEFINE l == Len(a)
<1>1. a \in Seq(Int) /\ 2 * l <= BufferSize
  BY ProgramAssumption
<1>2. l \in Nat /\ DOMAIN a = 1 .. l /\ \A n \in 1 .. l : a[n] \in Int
  BY <1>1
<1> HIDE DEF l
<1>3. l * elsize(type) <= BufferSize
  <2>1. CASE elsize(type) = 1
    BY <1>1, <1>2, <2>1, LimitIs
  <2>2. CASE elsize(type) = 2
    BY <1>1, <1>2, <2>2, LimitIs
  <2> QED
    BY <2>1, <2>2, SizeIs
<1> QED
  BY <1>2, <1>3 DEF l

LEMMA ArrayInv == ASSUME BytesInv, ConstructFromArray \/ of_impl PROVE BytesInv'
<1>1. PICK type \in Types, a \in Arrays :
        LET v == _ejs_typedarray_new(type, Len(buffers) + 1, Len(a))
            bs == OwnBuffer(type, Len(a))
        IN  \/ MakeFrom(v, StoreAll(bs, v, a))
            \/ MakeFrom(v, SetAll(bs, v, [n \in DOMAIN a |-> n - 1], a))
  BY DEF ConstructFromArray, of_impl
<1> DEFINE v == _ejs_typedarray_new(type, Len(buffers) + 1, Len(a))
           bs == OwnBuffer(type, Len(a))
           ks == [n \in DOMAIN a |-> n - 1]
<1>2. /\ Len(a) \in Nat /\ Len(a) * elsize(type) <= BufferSize
      /\ DOMAIN a = 1 .. Len(a) /\ \A n \in 1 .. Len(a) : a[n] \in Int
  BY ArrayIs
<1>3. IsBuffers(bs) /\ Open(bs, v) /\ v.buffer = Len(buffers) + 1
  BY <1>2, OwnIs
<1>4. ks \in [1 .. Len(a) -> Int]
  BY <1>2
<1>5. ks \in Seq(Int) /\ Len(ks) = Len(a)
  BY <1>2, <1>4
<1> HIDE DEF v, bs, ks
<1>6. \A n \in 1 .. Len(ks) : ks[n] \in Int /\ a[n] \in Int
  BY <1>2, <1>4, <1>5
<1>7. Len(ks) \in Nat
  BY <1>2, <1>5
<1>8. StoreAll(bs, v, a) \in Stored(bs)
  BY <1>2, <1>3, StoreAllKeeps
<1>9. SetAll(bs, v, ks, a) \in Stored(bs)
  BY <1>3, <1>6, <1>7, SetAllKeeps
<1>10. PICK cs \in Stored(bs) : MakeFrom(v, cs)
  BY <1>1, <1>8, <1>9 DEF v, bs, ks
<1>11. /\ buffers' = cs /\ views' = Append(views, v) /\ call' = call
       /\ held' = held \union {View(Len(views) + 1), Buffer(v.buffer)}
  BY <1>10 DEF MakeFrom
<1>12. Roots' \subseteq Roots \union {View(Len(views) + 1), Buffer(Len(buffers) + 1)}
  BY <1>3, <1>11 DEF Roots
<1>13. call' # Nil => IsCall(views, call')
  BY <1>11 DEF BytesInv
<1> QED
  BY <1>2, <1>10, <1>11, <1>12, <1>13, MadeInv DEF v, bs

\* The first callback of a method that only reads.
LEMMA VisitInv ==
    ASSUME BytesInv, NEW op, op # "map", NEW i \in Typed, NEW k, Visit(op, i, k)
    PROVE  BytesInv'
<1> DEFINE c == Frame(op, i, k, views[i].length, Nil, 0)
<1>1. call' = c /\ k \in 0 .. views[i].length - 1 /\ UNCHANGED <<buffers, views, held>> /\ call = Nil
  BY DEF Visit
<1>2. i \in 1 .. Len(views) /\ View(i) \in Roots /\ views[i].length \in Nat /\ View(i) \in held
  BY TypedIs DEF Typed
<1>3. c = [op |-> op, v |-> i, k |-> k, len |-> views[i].length, A |-> Nil, off |-> 0, got |-> <<>>]
  BY DEF Frame
<1> HIDE DEF c
<1>4. /\ c.op = op /\ c.v = i /\ c.k = k /\ c.len = views[i].length /\ c.A = Nil /\ c.off = 0 /\ c.got = <<>>
      /\ c = [op |-> c.op, v |-> c.v, k |-> c.k, len |-> c.len, A |-> c.A, off |-> c.off, got |-> c.got]
  BY <1>3
<1>5. k \in Nat /\ k < views[i].length /\ views[i].length + 0 <= views[i].length /\ 0 \in Nat
  BY <1>1, <1>2
<1>6. IsCall(views, c)
  BY <1>2, <1>4, <1>5 DEF IsCall
<1>7. Roots' \subseteq Roots
  BY <1>1, <1>2, <1>4 DEF Roots
<1>8. PICK K : Kept(buffers, K) /\ Holds(views, Len(buffers), Roots, K)
  BY DEF BytesInv
<1>9. Holds(views', Len(buffers'), Roots', K) /\ Kept(buffers', K)
  BY <1>1, <1>7, <1>8 DEF Holds
<1>10. IsBuffers(buffers') /\ IsViews(buffers', views')
  BY <1>1 DEF BytesInv
<1> QED
  BY <1>1, <1>6, <1>9, <1>10 DEF BytesInv

LEMMA SetArrayInv == ASSUME BytesInv, set_array PROVE BytesInv'
<1>1. PICK i \in Typed, n \in Relative, offset \in Relative :
        /\ n > 0 /\ offset >= 0 /\ n + offset <= views[i].length
        /\ call' = Frame("set", i, 0, n, Nil, offset)
  BY DEF set_array
<1> DEFINE c == Frame("set", i, 0, n, Nil, offset)
<1>2. call' = c /\ UNCHANGED <<buffers, views, held>> /\ call = Nil
  BY <1>1 DEF set_array
<1>3. i \in 1 .. Len(views) /\ View(i) \in held
  BY TypedIs DEF Typed
<1>4. n \in Nat /\ offset \in Nat /\ 0 < n /\ n + offset <= views[i].length
  BY <1>1, ProgramAssumption
<1>5. c = [op |-> "set", v |-> i, k |-> 0, len |-> n, A |-> Nil, off |-> offset, got |-> <<>>]
  BY DEF Frame
<1> HIDE DEF c
<1>6. /\ c.op = "set" /\ c.v = i /\ c.k = 0 /\ c.len = n /\ c.A = Nil /\ c.off = offset /\ c.got = <<>>
      /\ c = [op |-> c.op, v |-> c.v, k |-> c.k, len |-> c.len, A |-> c.A, off |-> c.off, got |-> c.got]
  BY <1>5
<1>7. IsCall(views, c)
  BY <1>3, <1>4, <1>6 DEF IsCall
<1>8. Roots' \subseteq Roots
  BY <1>2, <1>3, <1>6 DEF Roots
<1>9. PICK K : Kept(buffers, K) /\ Holds(views, Len(buffers), Roots, K)
  BY DEF BytesInv
<1>10. Holds(views', Len(buffers'), Roots', K) /\ Kept(buffers', K)
  BY <1>2, <1>8, <1>9 DEF Holds
<1>11. IsBuffers(buffers') /\ IsViews(buffers', views')
  BY <1>2 DEF BytesInv
<1> QED
  BY <1>2, <1>7, <1>10, <1>11 DEF BytesInv

LEMMA MapInv == ASSUME BytesInv, StartMap PROVE BytesInv'
<1>1. PICK i \in Typed : ~IsDetachedBuffer(buffers, views[i].buffer) /\ _ejs_TypedArray_prototype_map(i)
  BY DEF StartMap
<1> DEFINE v == views[i]
           N == Len(views)
           w == _ejs_typedarray_new(v.type, Len(buffers) + 1, v.length)
           c == Frame("map", i, 0, v.length, N + 1, 0)
<1>2. v.length > 0 /\ buffers' = OwnBuffer(v.type, v.length) /\ views' = Append(views, w) /\ call' = c
  BY <1>1 DEF _ejs_TypedArray_prototype_map
<1>3. held' = held /\ call = Nil
  BY DEF StartMap
<1>4. /\ i \in 1 .. N /\ View(i) \in held /\ v.length \in Nat /\ v.type \in Types
      /\ OkView(buffers, v) /\ IsBuffers(buffers) /\ Whole(buffers, v)
  BY <1>1, TypedIs DEF Typed
<1>5. v.length * elsize(v.type) <= BufferSize
  <2> DEFINE s == buffers[v.buffer].size
             o == v.byteOffset
             m == v.length * elsize(v.type)
  <2>1. v.buffer \in 1 .. Len(buffers) /\ o \in Nat
    BY <1>4 DEF OkView, ViewRec
  <2>2. s \in Nat /\ s <= BufferSize
    BY <1>4, <2>1, BufferIs DEF Whole, OkBuffer
  <2>3. m \in Nat
    BY <1>4, SizeIs
  <2>4. o + m <= s
    BY <1>4, <2>2 DEF Whole, OkView
  <2> HIDE DEF s, o, m
  <2>5. m <= BufferSize
    BY <2>1, <2>2, <2>3, <2>4, LimitIs
  <2> QED
    BY <2>5 DEF m
<1>6. buffers' \in Stored(OwnBuffer(v.type, v.length)) /\ IsViews(OwnBuffer(v.type, v.length), views)
      /\ OkView(OwnBuffer(v.type, v.length), w)
  BY <1>2, <1>4, <1>5, OwnIs, StoredItself
<1>7. c = [op |-> "map", v |-> i, k |-> 0, len |-> v.length, A |-> N + 1, off |-> 0, got |-> <<>>]
  BY DEF Frame
<1>8. /\ Len(views') = N + 1 /\ N \in Nat /\ views'[i] = v /\ i \in 1 .. Len(views')
  BY <1>2, <1>4, <1>6, AppendedView
<1> HIDE DEF c
<1>9. /\ c.op = "map" /\ c.v = i /\ c.k = 0 /\ c.len = v.length /\ c.A = N + 1 /\ c.off = 0 /\ c.got = <<>>
      /\ c = [op |-> c.op, v |-> c.v, k |-> c.k, len |-> c.len, A |-> c.A, off |-> c.off, got |-> c.got]
  BY <1>7
<1>10. IsCall(views', c)
  <2>1. N + 1 \in 1 .. Len(views') /\ 0 < v.length /\ v.length + 0 <= v.length /\ 0 \in Nat
    BY <1>2, <1>4, <1>8
  <2> HIDE DEF v
  <2> QED
    BY <1>4, <1>8, <1>9, <2>1 DEF IsCall, v
<1>11. Roots' \subseteq Roots \union {View(N + 1), Buffer(Len(buffers) + 1)}
  BY <1>2, <1>3, <1>4, <1>9 DEF Roots
<1>12. call' # Nil => IsCall(views', call')
  BY <1>2, <1>10
<1> HIDE DEF v, N
<1> QED
  BY <1>2, <1>4, <1>5, <1>6, <1>11, <1>12, MadeInv DEF N

\* A callback returns: its result is stored, and the next element is its turn.
LEMMA ReturnInv == ASSUME BytesInv, CallbackReturns PROVE BytesInv'
<1> DEFINE c == call
           Next1(r) == [c EXCEPT !.k = NextIndex(c), !.got = IF c.op = "map" THEN Append(@, r) ELSE @]
           Done(r) == Stops(c, r) \/ Next1(r).k \notin 0 .. c.len - 1
           Written(r) == CASE c.op = "map" -> specop_set(buffers, views[c.A], c.k, r)
                           [] c.op = "set" -> Store(buffers, Place(views[c.v]),
                                                    (c.off + c.k) * elsize(views[c.v].type), Cast(views[c.v].type, r))
                           [] OTHER -> buffers
<1>1. PICK r \in Numbers \union {0} :
        /\ buffers' = Written(r)
        /\ call' = IF Done(r) THEN Nil ELSE Next1(r)
        /\ held' = held \union (IF Done(r) /\ c.op = "map" THEN {View(c.A), Buffer(views[c.A].buffer)} ELSE {})
  BY DEF CallbackReturns
<1>2. c # Nil /\ views' = views
  BY DEF CallbackReturns
<1>3. IsCall(views, c) /\ IsBuffers(buffers) /\ IsViews(buffers, views)
  BY <1>2 DEF BytesInv
<1>4. r \in Int
  BY ProgramAssumption
<1>5. c.v \in 1 .. Len(views) /\ View(c.v) \in Roots
  BY <1>2, <1>3 DEF IsCall, Roots
<1>6. c.op = "map" => c.A \in 1 .. Len(views) /\ View(c.A) \in Roots
  <2>1. ASSUME c.op = "map" PROVE c.A \in 1 .. Len(views) /\ View(c.A) \in Roots
    <3>1. c.A \in 1 .. Len(views)
      BY <1>3, <2>1 DEF IsCall
    <3>2. c.A \in Int
      BY <3>1
    <3>3. c.A # Nil
      BY <3>2, ValueAssumption
    <3> QED
      BY <1>2, <3>1, <3>3 DEF Roots
  <2> QED
    BY <2>1
<1>7. c.k \in Nat /\ c.len \in Nat /\ c.off \in Nat
  BY <1>3 DEF IsCall
<1> DEFINE next == Next1(r)
<1>8. /\ next.op = c.op /\ next.v = c.v /\ next.len = c.len /\ next.A = c.A /\ next.off = c.off
      /\ next.k = NextIndex(c)
      /\ next = [op |-> next.op, v |-> next.v, k |-> next.k, len |-> next.len, A |-> next.A,
                 off |-> next.off, got |-> next.got]
  <2> DEFINE x == IF c.op = "map" THEN Append(c.got, r) ELSE c.got
             kk == NextIndex(c)
  <2>1. next = [c EXCEPT !.k = kk, !.got = x]
    OBVIOUS
  <2>2. c = [op |-> c.op, v |-> c.v, k |-> c.k, len |-> c.len, A |-> c.A, off |-> c.off, got |-> c.got]
    BY <1>3 DEF IsCall
  <2> HIDE DEF x, next, c
  <2>3. next = [op |-> c.op, v |-> c.v, k |-> kk, len |-> c.len, A |-> c.A, off |-> c.off, got |-> x]
    <3> HIDE DEF kk
    <3> QED
      BY <2>1, <2>2
  <2> QED
    BY <2>3
<1>9. Written(r) \in Stored(buffers)
  <2>1. CASE c.op = "map"
    <3> DEFINE v == views[c.A]
    <3>1. Open(buffers, v)
      BY <1>6, <2>1, RootIs
    <3>2. c.k \in Int
      BY <1>7
    <3> HIDE DEF v, c
    <3>3. specop_set(buffers, v, c.k, r) \in Stored(buffers)
      BY <1>3, <1>4, <3>1, <3>2, SetKeeps
    <3> QED
      BY <2>1, <3>3 DEF v
  <2>2. CASE c.op = "set"
    <3> DEFINE v == views[c.v]
               d == _ejs_typedarray_get_data(buffers, v)
               m == c.off + c.k
               p == m * elsize(v.type)
               bytes == Cast(v.type, r)
    <3>1. Open(buffers, v)
      BY <1>5, RootIs
    <3>2. m \in Int
      BY <1>7
    <3>3. p \in Int
      <4> HIDE DEF m
      <4> QED
        BY <3>2, TimesIs
    <3>4. bytes \in [1 .. elsize(v.type) -> Octet] /\ elsize(v.type) \in Nat
      BY <1>4, CastIs, SizeNat
    <3>5. Written(r) = Store(buffers, d, p, bytes)
      BY <2>2 DEF Place
    <3> HIDE DEF p, bytes, v, c, Written
    <3>6. Store(buffers, d, p, bytes) \in Stored(buffers)
      BY <1>3, <3>1, <3>3, <3>4, StoreOpen
    <3> QED
      BY <3>5, <3>6
  <2>3. CASE c.op # "map" /\ c.op # "set"
    <3>1. Written(r) = buffers
      BY <2>3
    <3> QED
      BY <1>3, <3>1, StoredItself
  <2> QED
    BY <2>1, <2>2, <2>3
<1> HIDE DEF Written
<1>10. IsBuffers(buffers') /\ Len(buffers') = Len(buffers) /\ IsViews(buffers', views)
       /\ \A K : Kept(buffers, K) => Kept(buffers', K)
  BY <1>1, <1>3, <1>9, StoredIs
<1>11. ASSUME call' # Nil PROVE IsCall(views', call')
  <2>1. call' = next /\ next.k \in 0 .. c.len - 1
    BY <1>1, <1>11
  <2> HIDE DEF next, c
  <2>2. next.k \in Nat /\ next.k < c.len
    BY <1>7, <2>1
  <2>3. IsCall(views, next)
    BY <1>3, <1>8, <2>2 DEF IsCall
  <2> QED
    BY <1>2, <2>1, <2>3
<1>12. PICK K : Kept(buffers, K) /\ Holds(views, Len(buffers), Roots, K)
  BY DEF BytesInv
<1>13. Kept(buffers', K)
  BY <1>10, <1>12
<1>14. Holds(views', Len(buffers'), Roots', K)
  <2>1. CASE Done(r) /\ c.op = "map"
    <3>1. call' = Nil /\ held' = held \union {View(c.A), Buffer(views[c.A].buffer)}
      BY <1>1, <2>1
    <3>2. Roots' \subseteq Roots \union {Buffer(views[c.A].buffer)}
      BY <1>6, <2>1, <3>1 DEF Roots
    <3>3. views[c.A].buffer \in K
      BY <1>6, <1>12, <2>1 DEF Holds
    <3> HIDE DEF c
    <3>4. ASSUME NEW b \in 1 .. Len(buffers), Buffer(b) \in Roots' PROVE b \in K
      <4>1. Buffer(b) \in Roots \/ b = views[c.A].buffer
        BY <3>2, <3>4, Names
      <4> QED
        BY <1>12, <3>3, <4>1 DEF Holds
    <3>5. ASSUME NEW i \in 1 .. Len(views), View(i) \in Roots' PROVE views[i].buffer \in K
      <4>1. View(i) \in Roots
        BY <3>2, <3>5, Names
      <4> QED
        BY <1>12, <4>1 DEF Holds
    <3> QED
      BY <1>2, <1>10, <3>4, <3>5 DEF Holds
  <2>2. CASE ~(Done(r) /\ c.op = "map")
    <3>1. held' = held
      BY <1>1, <2>2
    <3>2. call' = Nil \/ (call'.v = c.v /\ call'.A = c.A)
      <4> HIDE DEF next
      <4>1. call' = Nil \/ call' = next
        BY <1>1 DEF next
      <4> QED
        BY <1>8, <4>1
    <3>3. Roots' \subseteq Roots
      BY <1>2, <3>1, <3>2 DEF Roots
    <3> QED
      BY <1>2, <1>10, <1>12, <3>3 DEF Holds
  <2> QED
    BY <2>1, <2>2
<1> QED
  BY <1>2, <1>10, <1>11, <1>13, <1>14 DEF BytesInv

LEMMA DropInv == ASSUME BytesInv, Drop PROVE BytesInv'
<1>1. UNCHANGED <<buffers, views, call>> /\ held' \subseteq held
  BY DEF Drop
<1>2. Roots' \subseteq Roots
  BY <1>1 DEF Roots
<1>3. PICK K : Kept(buffers, K) /\ Holds(views, Len(buffers), Roots, K)
  BY DEF BytesInv
<1>4. Kept(buffers', K) /\ Holds(views', Len(buffers'), Roots', K)
  BY <1>1, <1>2, <1>3 DEF Holds
<1> QED
  BY <1>1, <1>4 DEF BytesInv

\* The buffers marked have, with a buffer, the one under it, and are those in use.
LEMMA MarkedIs ==
    ASSUME BytesInv
    PROVE  /\ Marked \subseteq 1 .. Len(buffers)
           /\ \A b \in Marked : buffers[b].dependent => buffers[b].buf \in Marked
           /\ Holds(views, Len(buffers), Roots, Marked)
           /\ \A K : Kept(buffers, K) /\ Holds(views, Len(buffers), Roots, K) => Marked \subseteq K
<1> DEFINE N == Len(buffers)
           First == {c \in 1 .. N : Buffer(c) \in Roots}
                    \union {views[i].buffer : i \in {j \in 1 .. Len(views) : View(j) \in Roots}}
           Scan(b) == {Walk(buffers, b)[n].root : n \in 0 .. b}
<1>1. IsBuffers(buffers) /\ IsViews(buffers, views)
  BY DEF BytesInv
<1>2. Marked = UNION {Scan(b) : b \in First}
  BY DEF Marked, _ejs_arraybuffer_specop_scan
<1>3. First \subseteq 1 .. N
  BY <1>1 DEF IsViews, OkView
<1>4. ASSUME NEW b \in 1 .. N
      PROVE  /\ b \in Scan(b) /\ Scan(b) \subseteq 1 .. N
             /\ \A c \in Scan(b) : buffers[c].dependent => buffers[c].buf \in Scan(b)
  <2> DEFINE W == Walk(buffers, b)
  <2>1. b \in Nat /\ b >= 1 /\ W[0] = [root |-> b, at |-> 0]
        /\ (\A n \in 1 .. b : W[n] = Below(buffers, W[n - 1]))
        /\ \A n \in 0 .. b : W[n] \in [root : 1 .. N, at : Int]
    BY <1>1, BufferIs, WalkIs
  <2>2. ~buffers[W[b].root].dependent
    BY <1>1, WalkEnds
  <2>3. Scan(b) = {W[n].root : n \in 0 .. b}
    OBVIOUS
  <2> HIDE DEF W, Scan
  <2>4. b \in Scan(b)
    <3>1. 0 \in 0 .. b /\ W[0].root = b
      BY <2>1
    <3> QED
      BY <2>3, <3>1
  <2>5. Scan(b) \subseteq 1 .. N
    BY <2>1, <2>3
  <2>6. ASSUME NEW c \in Scan(b), buffers[c].dependent PROVE buffers[c].buf \in Scan(b)
    <3>1. PICK n \in 0 .. b : c = W[n].root
      BY <2>3
    <3>2. n # b
      BY <2>2, <2>6, <3>1
    <3>3. n + 1 \in 1 .. b /\ n + 1 - 1 = n /\ n + 1 \in 0 .. b
      BY <2>1, <3>2
    <3>4. W[n + 1] = Below(buffers, W[n])
      BY <2>1, <3>3
    <3>5. W[n + 1].root = buffers[c].buf
      BY <2>6, <3>1, <3>4 DEF Below
    <3> QED
      BY <2>3, <3>3, <3>5
  <2> QED
    BY <2>4, <2>5, <2>6
<1>5. ASSUME NEW K, Kept(buffers, K), NEW b \in K PROVE Scan(b) \subseteq K
  <2>1. b \in 1 .. N /\ \A c \in K : buffers[c].dependent => buffers[c].buf \in K
    BY <1>5 DEF Kept
  <2>2. \A n \in 0 .. b : Walk(buffers, b)[n].root \in K
    BY <1>1, <2>1, WalkStays
  <2> QED
    BY <2>2
<1> HIDE DEF Scan
<1>6. Marked \subseteq 1 .. N
  BY <1>2, <1>3, <1>4
<1>7. ASSUME NEW b \in Marked, buffers[b].dependent PROVE buffers[b].buf \in Marked
  <2>1. PICK a \in First : b \in Scan(a)
    BY <1>2
  <2>2. buffers[b].buf \in Scan(a)
    BY <1>3, <1>4, <1>7, <2>1
  <2> QED
    BY <1>2, <2>2
<1>8. First \subseteq Marked
  BY <1>2, <1>3, <1>4
<1>9. Holds(views, N, Roots, Marked)
  BY <1>8 DEF Holds
<1>10. ASSUME NEW K, Kept(buffers, K), Holds(views, N, Roots, K) PROVE Marked \subseteq K
  <2>1. First \subseteq K
    BY <1>10 DEF Holds
  <2> HIDE DEF First
  <2>2. \A b \in First : Scan(b) \subseteq K
    BY <1>5, <1>10, <2>1
  <2> QED
    BY <1>2, <2>2
<1> QED
  BY <1>6, <1>7, <1>9, <1>10

LEMMA CollectInv == ASSUME BytesInv, Collect PROVE BytesInv'
<1> DEFINE N == Len(buffers)
           Left(b) == IF b \in Marked \/ buffers[b].dependent THEN buffers[b] ELSE [buffers[b] EXCEPT !.data = Freed]
<1>1. buffers' = [b \in DOMAIN buffers |-> Left(b)] /\ UNCHANGED <<views, held, call>>
  BY DEF Collect
<1>2. IsBuffers(buffers) /\ IsViews(buffers, views) /\ (call # Nil => IsCall(views, call))
  BY DEF BytesInv
<1>3. buffers \in Seq(BufferRec) /\ N \in Nat /\ DOMAIN buffers = 1 .. N
  BY <1>2 DEF IsBuffers
<1>4. ASSUME NEW b \in 1 .. N
      PROVE  /\ Left(b) \in BufferRec /\ Left(b).dependent = buffers[b].dependent
             /\ Left(b).size = buffers[b].size /\ Left(b).buf = buffers[b].buf
             /\ Left(b).offset = buffers[b].offset
             /\ Left(b).data = buffers[b].data \/ Left(b).data = Freed
             /\ b \in Marked => Left(b).data = buffers[b].data
  <2>1. buffers[b] \in BufferRec
    BY <1>2, BufferIs
  <2>2. CASE b \in Marked \/ buffers[b].dependent
    BY <2>1, <2>2
  <2>3. CASE ~(b \in Marked \/ buffers[b].dependent)
    <3> DEFINE x == [buffers[b] EXCEPT !.data = Freed]
    <3>1. x \in BufferRec /\ x.dependent = buffers[b].dependent /\ x.size = buffers[b].size
          /\ x.buf = buffers[b].buf /\ x.offset = buffers[b].offset /\ x.data = Freed
      BY <2>1 DEF BufferRec
    <3>2. Left(b) = x
      BY <2>3
    <3> HIDE DEF x
    <3> QED
      BY <2>3, <3>1, <3>2
  <2> QED
    BY <2>2, <2>3
<1> HIDE DEF Left
<1>5. buffers' \in [1 .. N -> BufferRec]
  BY <1>1, <1>3, <1>4
<1>6. buffers' \in Seq(BufferRec) /\ Len(buffers') = N /\ \A b \in 1 .. N : buffers'[b] = Left(b)
  BY <1>1, <1>3, <1>5
<1>7. ASSUME NEW b \in 1 .. N PROVE OkBuffer(buffers', b)
  <2>1. OkBuffer(buffers, b) /\ b \in Nat
    BY <1>2, BufferIs
  <2>2. CASE buffers[b].dependent
    <3>1. buffers[b].buf \in 1 .. b - 1
      BY <2>1, <2>2 DEF OkBuffer
    <3>2. buffers[b].buf \in 1 .. N
      BY <1>3, <2>1, <3>1
    <3>3. buffers'[buffers[b].buf].size = buffers[buffers[b].buf].size
      BY <1>4, <1>6, <3>2
    <3>4. /\ buffers'[b].dependent = buffers[b].dependent /\ buffers'[b].size = buffers[b].size
          /\ buffers'[b].buf = buffers[b].buf /\ buffers'[b].offset = buffers[b].offset
      BY <1>4, <1>6
    <3> QED
      BY <2>1, <2>2, <3>3, <3>4 DEF OkBuffer
  <2>3. CASE ~buffers[b].dependent
    <3>1. /\ buffers'[b].dependent = buffers[b].dependent /\ buffers'[b].size = buffers[b].size
          /\ buffers'[b].data = buffers[b].data \/ buffers'[b].data = Freed
      BY <1>4, <1>6
    <3> QED
      BY <2>1, <2>3, <3>1 DEF OkBuffer
  <2> QED
    BY <2>2, <2>3
<1>8. IsBuffers(buffers')
  BY <1>6, <1>7 DEF IsBuffers
<1>9. IsViews(buffers', views)
  <2> SUFFICES ASSUME NEW i \in 1 .. Len(views) PROVE OkView(buffers', views[i])
    BY <1>2 DEF IsViews
  <2>1. OkView(buffers, views[i])
    BY <1>2 DEF IsViews
  <2>2. views[i].buffer \in 1 .. N
    BY <2>1 DEF OkView
  <2>3. buffers'[views[i].buffer].size = buffers[views[i].buffer].size
    BY <1>4, <1>6, <2>2
  <2> QED
    BY <1>6, <2>1, <2>3 DEF OkView
<1>10. PICK K : Kept(buffers, K) /\ Holds(views, N, Roots, K)
  BY DEF BytesInv
<1>11. Marked \subseteq 1 .. N /\ Marked \subseteq K /\ Holds(views, N, Roots, Marked)
       /\ \A b \in Marked : buffers[b].dependent => buffers[b].buf \in Marked
  BY <1>10, MarkedIs
<1>12. Kept(buffers', Marked)
  <2> SUFFICES ASSUME NEW b \in Marked
               PROVE  /\ b \in 1 .. N
                      /\ buffers'[b].dependent => buffers'[b].buf \in Marked
                      /\ ~buffers'[b].dependent => buffers'[b].data # Freed
    BY <1>6 DEF Kept
  <2>1. b \in 1 .. N /\ b \in K
    BY <1>11
  <2>2. /\ buffers'[b].dependent = buffers[b].dependent /\ buffers'[b].buf = buffers[b].buf
        /\ buffers'[b].data = buffers[b].data
    BY <1>4, <1>6, <2>1
  <2> QED
    BY <1>10, <1>11, <2>1, <2>2 DEF Kept
<1>13. Roots' = Roots
  BY <1>1 DEF Roots
<1>14. Holds(views', Len(buffers'), Roots', Marked)
  BY <1>1, <1>6, <1>11, <1>13
<1>15. \E M : Kept(buffers', M) /\ Holds(views', Len(buffers'), Roots', M)
  BY <1>12, <1>14
<1> QED
  BY <1>1, <1>2, <1>8, <1>9, <1>15 DEF BytesInv

LEMMA InitInv == Init => BytesInv
<1> SUFFICES ASSUME Init PROVE BytesInv
  OBVIOUS
<1> DEFINE x == _ejs_arraybuffer_new(BufferSize)
<1>1. buffers = <<x>> /\ views = <<>> /\ held = {Buffer(1)} /\ call = Nil
  BY DEF Init
<1>2. IsBuffers(<<>>)
  BY DEF IsBuffers
<1>3. NewOne(<<>>, x) /\ ~x.dependent
  BY LimitIs, FreshIs
<1> HIDE DEF x
<1>4. Kept(<<>>, {})
  BY DEF Kept
<1>5. Append(<<>>, x) = <<x>> /\ Len(<<>>) = 0
  OBVIOUS
<1>6. IsBuffers(Append(<<>>, x)) /\ Kept(Append(<<>>, x), {} \union {Len(<<>>) + 1})
  BY <1>2, <1>3, <1>4, AppendIs
<1>7. IsBuffers(buffers) /\ Kept(buffers, {} \union {1}) /\ Len(buffers) = 1
  BY <1>1, <1>5, <1>6
<1>8. Holds(views, Len(buffers), Roots, {} \union {1})
  BY <1>1, <1>7 DEF Holds
<1>9. IsViews(buffers, views)
  BY <1>1 DEF IsViews
<1> QED
  BY <1>1, <1>7, <1>8, <1>9 DEF BytesInv

LEMMA NextInv == ASSUME BytesInv, Fits, [Next]_vars PROVE BytesInv'
<1>1. CASE _ejs_ArrayBuffer_impl
  BY <1>1, BufferInv
<1>2. CASE _ejs_ArrayBuffer_prototype_slice
  BY <1>2, SliceInv
<1>3. CASE ConstructView
  BY <1>3, ConstructInv
<1>4. CASE ConstructFromArray \/ of_impl
  BY <1>4, ArrayInv
<1>5. CASE Subarray
  BY <1>5, SubarrayInv
<1>6. CASE WriteElements
  BY <1>6, ElementsInv
<1>7. CASE WriteData
  BY <1>7, DataInv
<1>8. CASE set_typedarray
  BY <1>8, SetTypedInv
<1>9. CASE _ejs_TypedArray_prototype_every
  BY <1>9, VisitInv DEF _ejs_TypedArray_prototype_every
<1>10. CASE _ejs_TypedArray_prototype_some
  BY <1>10, VisitInv DEF _ejs_TypedArray_prototype_some
<1>11. CASE _ejs_TypedArray_prototype_find
  BY <1>11, VisitInv DEF _ejs_TypedArray_prototype_find
<1>12. CASE _ejs_TypedArray_prototype_findIndex
  BY <1>12, VisitInv DEF _ejs_TypedArray_prototype_findIndex
<1>13. CASE _ejs_TypedArray_prototype_forEach
  BY <1>13, VisitInv DEF _ejs_TypedArray_prototype_forEach
<1>14. CASE _ejs_TypedArray_prototype_reduce
  BY <1>14, VisitInv DEF _ejs_TypedArray_prototype_reduce
<1>15. CASE _ejs_TypedArray_prototype_reduceRight
  BY <1>15, VisitInv DEF _ejs_TypedArray_prototype_reduceRight
<1>16. CASE StartMap
  BY <1>16, MapInv
<1>17. CASE set_array
  BY <1>17, SetArrayInv
<1>18. CASE CallbackReturns
  BY <1>18, ReturnInv
<1>19. CASE Drop
  BY <1>19, DropInv
<1>20. CASE Collect
  BY <1>20, CollectInv
<1>21. CASE UNCHANGED vars
  <2>1. UNCHANGED <<buffers, views, held, call>>
    BY <1>21 DEF vars
  <2>2. Roots' = Roots
    BY <2>1 DEF Roots
  <2> QED
    BY <2>1, <2>2 DEF BytesInv
<1> QED
  BY <1>1, <1>2, <1>3, <1>4, <1>5, <1>6, <1>7, <1>8, <1>9, <1>10, <1>11, <1>12, <1>13, <1>14, <1>15,
     <1>16, <1>17, <1>18, <1>19, <1>20, <1>21 DEF Next

-----------------------------------------------------------------------------
\* The inductive invariant implies that views address bytes that exist.
LEMMA BytesSafe == BytesInv => ViewsSafe
<1> SUFFICES ASSUME BytesInv PROVE ViewsSafe
  OBVIOUS
<1>1. IsBuffers(buffers) /\ IsViews(buffers, views) /\ (call # Nil => IsCall(views, call))
  BY DEF BytesInv
<1>2. TypeOK
  <2>1. ASSUME NEW b \in 1 .. Len(buffers)
        PROVE  /\ buffers[b].dependent => buffers[b].buf \in 1 .. b - 1
               /\ ~buffers[b].dependent /\ buffers[b].data # Freed =>
                    buffers[b].data \in [1 .. buffers[b].size -> 0 .. Byte - 1]
    BY <1>1, BufferIs DEF OkBuffer, Octet
  <2>2. \A i \in 1 .. Len(views) : views[i].buffer \in 1 .. Len(buffers)
    BY <1>1 DEF IsViews, OkView
  <2>3. ASSUME call # Nil PROVE call.k + call.off \in 0 .. views[call.v].length - 1
    <3> DEFINE l == views[call.v].length
    <3>1. /\ call.k \in Nat /\ call.off \in Nat /\ call.len \in Nat /\ call.k < call.len
          /\ call.len + call.off <= l
      BY <1>1, <2>3 DEF IsCall
    <3>2. l \in Nat
      BY <1>1, <2>3 DEF IsCall, IsViews, OkView, ViewRec
    <3> HIDE DEF l
    <3>3. call.k + call.off \in 0 .. l - 1
      BY <3>1, <3>2
    <3> QED
      BY <3>3 DEF l
  <2> QED
    BY <2>1, <2>2, <2>3 DEF TypeOK
<1>3. ViewsInBounds
  <2> SUFFICES ASSUME NEW i \in 1 .. Len(views), views[i].type # "DataView", Sound(buffers, views[i].buffer)
               PROVE  LET d == Place(views[i])
                      IN  0 <= d.at /\ d.at + views[i].length * elsize(views[i].type) <= buffers[d.root].size
    BY DEF ViewsInBounds
  <2> DEFINE v == views[i]
             b == v.buffer
             w == Walk(buffers, b)[b]
             d == Place(v)
             m == v.length * elsize(v.type)
             o == v.byteOffset
             s == buffers[b].size
             t == buffers[w.root].size
  <2>1. OkView(buffers, v) /\ v \in ViewRec /\ b \in 1 .. Len(buffers)
    BY <1>1 DEF IsViews, OkView
  <2>2. o \in Nat /\ v.length \in Nat /\ m \in Nat
    <3>1. o \in Nat /\ v.length \in Nat
      BY <2>1 DEF ViewRec
    <3> QED
      BY <3>1, SizeIs
  <2>3. d = [root |-> w.root, at |-> w.at + o]
    BY <1>1, <2>1, PlaceIs DEF Place
  <2>4. 0 <= w.at /\ w.at + s <= t
    BY <1>1, <2>1, WalkInside
  <2>5. b \in Nat /\ Walk(buffers, b)[0] = [root |-> b, at |-> 0] /\ w \in [root : 1 .. Len(buffers), at : Int]
    <3>1. b \in Nat /\ b \in 0 .. b
      BY <1>1, <2>1, BufferIs
    <3> QED
      BY <1>1, <2>1, <3>1, WalkIs
  <2>6. s >= 0
    <3>1. 0 \in 0 .. b /\ Walk(buffers, b)[0].root = b
      BY <2>5
    <3> QED
      BY <3>1 DEF Sound
  <2>7. o + m <= s
    BY <2>1, <2>6 DEF OkView
  <2>8. s \in Int /\ t \in Int /\ w.at \in Int
    <3>1. w.root \in 1 .. Len(buffers)
      BY <2>5
    <3> HIDE DEF w
    <3> QED
      BY <1>1, <2>1, <2>5, <3>1, BufferIs DEF BufferRec
  <2>9. d.root = w.root /\ d.at = w.at + o
    BY <2>3
  <2> HIDE DEF s, t, m, o, w, d
  <2>10. 0 <= w.at + o /\ w.at + o + m <= t
    BY <2>2, <2>4, <2>7, <2>8
  <2> QED
    BY <2>9, <2>10 DEF d, m, t
<1>4. ReachableNotFreed
  <2> SUFFICES ASSUME NEW i \in 1 .. Len(views), View(i) \in Roots
               PROVE  buffers[Place(views[i]).root].data # Freed
    BY DEF ReachableNotFreed
  <2>1. Open(buffers, views[i])
    BY RootIs
  <2>2. PICK K : Kept(buffers, K) /\ views[i].buffer \in K
    BY <2>1 DEF Open
  <2> QED
    BY <1>1, <2>1, <2>2, PlaceIs DEF Open, Place
<1> QED
  BY <1>2, <1>3, <1>4 DEF ViewsSafe

\* However buffers, windows, views and subarrays are stacked, dropped and collected: a
\* typed array whose windows have no negative size, all the way down, addresses bytes
\* inside the buffer at the bottom, and no bytes are freed under a view that the program
\* or a running method can reach.  Fits limits the program to offsets and spans that do
\* not wrap; nothing is said of typed arrays over windows whose offset lies behind the
\* buffer, nor of what data views access.
THEOREM ViewsAlwaysSafe == Fits => (Spec => []ViewsSafe)
<1>1. Init => BytesInv
  BY InitInv
<1>2. Fits /\ BytesInv /\ [Next]_vars => BytesInv'
  BY NextInv
<1>3. BytesInv => ViewsSafe
  BY BytesSafe
<1>4. SUFFICES ASSUME Fits PROVE Spec => []ViewsSafe
  OBVIOUS
<1>5. BytesInv /\ [Next]_vars => BytesInv'
  BY <1>2, <1>4
<1> QED
  BY <1>1, <1>3, <1>5, PTL DEF Spec

=============================================================================
