--------------------------- MODULE EjsArray_proofs ---------------------------
(***************************************************************************)
(* Arrays, for any values, lengths, argument lists and any changes that    *)
(* callbacks make: no slot is read that nobody has written; methods visit  *)
(* the indices in order; and a sort without comparefn leaves a sorted      *)
(* permutation of what it was given.                                       *)
(***************************************************************************)
EXTENDS EjsArray, WellFoundedInduction, FunctionTheorems, FiniteSetTheorems, TLAPS

Top == MaxLen + GrowBy + Slack
Arrays == [kind : {"dense", "plain"}, len : Nat, alloc : Nat, el : [Slots -> Element \union {Garbage}]]

\* The slots of an array that may be read: those below its length, and all of a plain object.
Written(a) ==
    /\ a \in Arrays
    /\ a.kind = "dense" => /\ a.len <= a.alloc /\ a.alloc <= Top + 1
                           /\ \A i \in 0 .. a.len - 1 : a.el[i] # Garbage
    /\ a.kind = "plain" => \A i \in Slots : a.el[i] # Garbage

\* What was allocated and written in a still is in b.
Keeps(a, b) ==
    /\ b.kind = a.kind
    /\ a.kind = "dense" => \A j \in Slots : j < a.alloc /\ a.el[j] # Garbage => j < b.alloc /\ b.el[j] # Garbage

\* An array the program may have.
OkArray(a) ==
    /\ a \in [kind : {"dense", "sparse", "plain"}, len : 0 .. MaxLen, alloc : Nat,
              el : [Slots -> Element \union {Garbage}]]
    /\ a.kind # "sparse" => Written(a)

IsFrame(c) ==
    /\ c.op \in Methods
    /\ c = [op |-> c.op, k |-> c.k, len |-> c.len, to |-> c.to, acc |-> c.acc, A |-> c.A]

\* What filter has kept so far, and the value it is asking for.
FilterInv(c) ==
    /\ c.k \in Nat /\ c.len \in 0 .. MaxLen /\ c.to \in 0 .. c.k /\ c.k < c.len
    /\ c.acc \in Element \ {Hole}
    /\ Written(c.A) /\ c.A.kind = "dense" /\ c.A.len = c.to
    /\ \A i \in 0 .. c.to - 1 : c.A.el[i] # Hole

\* A range of slots of a that may be read and written.
Readable(a, r) == \A j \in r[1] .. r[2] : j < a.alloc /\ a.el[j] # Garbage
Ranges(a) == {r \in Nat \X Nat : r[1] < r[2] /\ Readable(a, r)}

IsSort(c) ==
    c = [op |-> "sort", user |-> c.user, todo |-> c.todo, low |-> c.low, high |-> c.high, i |-> c.i,
         storeIndex |-> c.storeIndex, pivot |-> c.pivot, before |-> c.before]

SortInv(a, c) ==
    /\ a.kind = "dense"
    /\ c.low \in Nat /\ c.high \in Nat /\ c.i \in Nat /\ c.storeIndex \in Nat
    /\ c.low <= c.storeIndex /\ c.storeIndex <= c.i /\ c.i < c.high
    /\ c.pivot # Garbage
    /\ Readable(a, <<c.low, c.high>>)
    /\ c.todo \in Seq(Ranges(a))

CallInv ==
    call # Nil => \/ IsFrame(call) /\ (call.op = "filter" /\ Dense => FilterInv(call))
                  \/ IsSort(call) /\ SortInv(arr, call)

\* The inductive invariant.
ElementsInv == OkArray(arr) /\ aborted \in BOOLEAN /\ CallInv

-----------------------------------------------------------------------------
(* Induction and recursion along an interval.  Sets and functions take the   *)
(* place of operator parameters.                                             *)

\* A set that contains 0 and with a number the next one contains all.
LEMMA Induction ==
    ASSUME NEW P, 0 \in P, \A n \in Nat : n \in P => n + 1 \in P
    PROVE  \A n \in Nat : n \in P
<1> DEFINE T == {n \in Nat : n \notin P}
<1> SUFFICES ASSUME T # {} PROVE FALSE
  OBVIOUS
<1>1. T \subseteq Nat
  OBVIOUS
<1>2. PICK x \in T : \A y \in T : ~(<<y, x>> \in OpToRel(<, Nat))
  BY <1>1, NatLessThanWellFounded, WFMin
<1>3. x \in Nat /\ x # 0 /\ x - 1 \in Nat /\ x - 1 + 1 = x
  OBVIOUS
<1>4. x - 1 \in T
  BY <1>3
<1>5. <<x - 1, x>> \in OpToRel(<, Nat)
  BY <1>3 DEF OpToRel
<1> QED
  BY <1>2, <1>4, <1>5

\* The same up to a bound.
LEMMA BoundedInduction ==
    ASSUME NEW N \in Nat, NEW P, 0 \in P, \A n \in 0 .. N - 1 : n \in P => n + 1 \in P
    PROVE  \A n \in 0 .. N : n \in P
<1> DEFINE Q == {n \in Nat : n \in 0 .. N => n \in P}
<1>1. 0 \in Q
  OBVIOUS
<1>2. ASSUME NEW n \in Nat, n \in Q PROVE n + 1 \in Q
  <2>1. CASE n + 1 \in 0 .. N
    <3>1. n \in 0 .. N - 1 /\ n \in 0 .. N
      BY <2>1
    <3> QED
      BY <1>2, <3>1
  <2>2. CASE n + 1 \notin 0 .. N
    BY <2>2
  <2> QED
    BY <2>1, <2>2
<1> HIDE DEF Q
<1>3. \A n \in Nat : n \in Q
  BY <1>1, <1>2, Induction
<1> QED
  BY <1>3 DEF Q

Iterates(N, x0, step, f) == f[0] = x0 /\ \A i \in 1 .. N : f[i] = step[<<i, f[i - 1]>>]

\* A function defined by recursion exists.
LEMMA Recursion ==
    ASSUME NEW N \in Nat, NEW S, NEW x0 \in S, NEW step \in [(1 .. N) \X S -> S]
    PROVE  \E f \in [0 .. N -> S] : Iterates(N, x0, step, f)
<1> DEFINE Good(n, f) == f[0] = x0 /\ \A i \in 1 .. n : f[i] = step[<<i, f[i - 1]>>]
           P == {n \in 0 .. N : \E f \in [0 .. n -> S] : Good(n, f)}
<1>1. 0 \in P
  <2> DEFINE f == [i \in 0 .. 0 |-> x0]
  <2>1. f \in [0 .. 0 -> S] /\ f[0] = x0 /\ 1 .. 0 = {}
    OBVIOUS
  <2> HIDE DEF f
  <2>2. \E ff \in [0 .. 0 -> S] : Good(0, ff)
    BY <2>1
  <2>3. 0 \in 0 .. N
    OBVIOUS
  <2> QED
    BY <2>2, <2>3
<1>2. ASSUME NEW n \in 0 .. N - 1, n \in P PROVE n + 1 \in P
  <2>1. PICK f \in [0 .. n -> S] : Good(n, f)
    BY <1>2
  <2> DEFINE g == [i \in 0 .. n + 1 |-> IF i = n + 1 THEN step[<<n + 1, f[n]>>] ELSE f[i]]
  <2>2. n \in 0 .. n /\ <<n + 1, f[n]>> \in (1 .. N) \X S
    OBVIOUS
  <2>3. g \in [0 .. n + 1 -> S]
    BY <2>2
  <2>4. g[0] = x0 /\ g[n + 1] = step[<<n + 1, f[n]>>] /\ g[n] = f[n]
    BY <2>1
  <2>5. ASSUME NEW i \in 1 .. n PROVE g[i] = step[<<i, g[i - 1]>>]
    <3>1. g[i] = f[i] /\ g[i - 1] = f[i - 1]
      OBVIOUS
    <3> QED
      BY <2>1, <3>1
  <2>6. n + 1 - 1 = n /\ \A i \in 1 .. n + 1 : i \in 1 .. n \/ i = n + 1
    OBVIOUS
  <2> HIDE DEF g
  <2>7. ASSUME NEW i \in 1 .. n + 1 PROVE g[i] = step[<<i, g[i - 1]>>]
    <3>1. CASE i = n + 1
      BY <2>4, <2>6, <3>1
    <3> QED
      BY <2>5, <2>6, <3>1
  <2>8. n + 1 \in 0 .. N
    OBVIOUS
  <2> QED
    BY <2>3, <2>4, <2>7, <2>8
<1> HIDE DEF P
<1>3. \A n \in 0 .. N : n \in P
  BY <1>1, <1>2, BoundedInduction
<1> QED
  BY <1>3 DEF P, Iterates

-----------------------------------------------------------------------------
(* Numbers.                                                                 *)

LEMMA MaxOf ==
    ASSUME NEW a \in Int, NEW b \in Int
    PROVE  Max({a, b}) = IF a >= b THEN a ELSE b
<1>1. ASSUME NEW x \in {a, b}, \A y \in {a, b} : x >= y PROVE x = IF a >= b THEN a ELSE b
  BY <1>1
<1>2. \E x \in {a, b} : \A y \in {a, b} : x >= y
  <2>1. CASE a >= b
    BY <2>1
  <2>2. CASE b >= a
    BY <2>2
  <2> QED
    BY <2>1, <2>2
<1>3. Max({a, b}) \in {a, b} /\ \A y \in {a, b} : Max({a, b}) >= y
  BY <1>2 DEF Max
<1> QED
  BY <1>1, <1>3

LEMMA MinOf ==
    ASSUME NEW a \in Int, NEW b \in Int
    PROVE  Min({a, b}) = IF a <= b THEN a ELSE b
<1>1. ASSUME NEW x \in {a, b}, \A y \in {a, b} : x <= y PROVE x = IF a <= b THEN a ELSE b
  BY <1>1
<1>2. \E x \in {a, b} : \A y \in {a, b} : x <= y
  <2>1. CASE a <= b
    BY <2>1
  <2>2. CASE b <= a
    BY <2>2
  <2> QED
    BY <2>1, <2>2
<1>3. Min({a, b}) \in {a, b} /\ \A y \in {a, b} : Min({a, b}) <= y
  BY <1>2 DEF Min
<1> QED
  BY <1>1, <1>3

\* The least number of a set is in it.
LEMMA MinIn ==
    ASSUME NEW S \in SUBSET Nat, S # {}
    PROVE  Min(S) \in S
<1>1. PICK x \in S : \A y \in S : ~(<<y, x>> \in OpToRel(<, Nat))
  BY NatLessThanWellFounded, WFMin
<1>2. ASSUME NEW y \in S PROVE x <= y
  <2>1. x \in Nat /\ y \in Nat
    OBVIOUS
  <2>2. <<y, x>> \notin OpToRel(<, Nat)
    BY <1>1
  <2>3. ~(y < x)
    BY <2>1, <2>2 DEF OpToRel
  <2> QED
    BY <2>1, <2>3
<1> QED
  BY <1>2 DEF Min

\* The indices a loop goes over.
LEMMA UpIs ==
    ASSUME NEW i \in Int, NEW j \in Int
    PROVE  /\ Up(i, j) \in Seq(Int)
           /\ Len(Up(i, j)) = IF j >= i THEN j - i ELSE 0
           /\ \A n \in 1 .. Len(Up(i, j)) : Up(i, j)[n] = i + n - 1
<1>1. Max({j - i, 0}) = IF j >= i THEN j - i ELSE 0
  BY MaxOf
<1> DEFINE m == Max({j - i, 0})
<1>2. m \in Nat
  BY <1>1
<1> HIDE DEF m
<1>3. [n \in 1 .. m |-> i + n - 1] \in Seq(Int) /\ Len([n \in 1 .. m |-> i + n - 1]) = m
  BY <1>2
<1>4. Up(i, j) = [n \in 1 .. m |-> i + n - 1]
  BY DEF Up, m
<1> QED
  BY <1>1, <1>3, <1>4 DEF m

LEMMA DownIs ==
    ASSUME NEW i \in Int, NEW j \in Int
    PROVE  /\ Down(i, j) \in Seq(Int)
           /\ Len(Down(i, j)) = IF i >= j THEN i - j ELSE 0
           /\ \A n \in 1 .. Len(Down(i, j)) : Down(i, j)[n] = i - n + 1
<1>1. Max({i - j, 0}) = IF i >= j THEN i - j ELSE 0
  BY MaxOf
<1> DEFINE m == Max({i - j, 0})
<1>2. m \in Nat
  BY <1>1
<1> HIDE DEF m
<1>3. [n \in 1 .. m |-> i - n + 1] \in Seq(Int) /\ Len([n \in 1 .. m |-> i - n + 1]) = m
  BY <1>2
<1>4. Down(i, j) = [n \in 1 .. m |-> i - n + 1]
  BY DEF Down, m
<1> QED
  BY <1>1, <1>3, <1>4 DEF m

\* The same, if the bounds are sums.
LEMMA UpBy ==
    ASSUME NEW i \in Int, NEW j, NEW m \in Nat, j = i + m
    PROVE  Len(Up(i, j)) = m /\ \A n \in 1 .. m : Up(i, j)[n] = i + n - 1
<1>1. j \in Int /\ j >= i /\ j - i = m
  OBVIOUS
<1> QED
  BY <1>1, UpIs

LEMMA DownBy ==
    ASSUME NEW i, NEW j \in Int, NEW m \in Nat, i = j + m
    PROVE  Len(Down(i, j)) = m /\ \A n \in 1 .. m : Down(i, j)[n] = i - n + 1
<1>1. i \in Int /\ i >= j /\ i - j = m
  OBVIOUS
<1> QED
  BY <1>1, DownIs

\* The same, for indices at which there is room.
Index == 0 .. MaxLen

LEMMA UpIndex ==
    ASSUME NEW i \in Nat, NEW j, NEW m \in Nat, j = i + m, j <= MaxLen + 1
    PROVE  Len(Up(i, j)) = m /\ \A n \in 1 .. m : Up(i, j)[n] \in Index
<1>3. i \in Int
  OBVIOUS
<1>1. Len(Up(i, j)) = m /\ \A n \in 1 .. m : Up(i, j)[n] = i + n - 1
  BY <1>3, UpBy
<1>2. ASSUME NEW n \in 1 .. m PROVE i + n - 1 \in 0 .. MaxLen
  <2>1. MaxLen \in Int /\ i + n - 1 \in Int /\ i + n - 1 <= j - 1 /\ i + n - 1 >= 0
    BY GrowthAssumption
  <2> QED
    BY <2>1
<1> QED
  BY <1>1, <1>2 DEF Index

LEMMA DownIndex ==
    ASSUME NEW i, NEW j \in Int, NEW m \in Nat, i = j + m, j >= -1, i <= MaxLen
    PROVE  Len(Down(i, j)) = m /\ \A n \in 1 .. m : Down(i, j)[n] \in Index
<1>1. Len(Down(i, j)) = m /\ \A n \in 1 .. m : Down(i, j)[n] = i - n + 1
  BY DownBy
<1>2. \A n \in 1 .. m : i - n + 1 \in 0 .. MaxLen
  BY GrowthAssumption
<1> QED
  BY <1>1, <1>2 DEF Index

LEMMA ClampIs ==
    ASSUME NEW len \in Nat, NEW r \in Int
    PROVE  /\ Clamp(len, r) \in 0 .. len
           /\ ClampEnd(len, r) \in 0 .. len /\ ClampEnd(len, undefined) \in 0 .. len
<1>1. Clamp(len, r) \in 0 .. len
  <2>1. Max({len + r, 0}) = (IF len + r >= 0 THEN len + r ELSE 0) /\ Min({r, len}) = IF r <= len THEN r ELSE len
    BY MaxOf, MinOf
  <2> QED
    BY <2>1 DEF Clamp
<1> QED
  BY <1>1 DEF ClampEnd

-----------------------------------------------------------------------------
(* The internal methods keep what is written.                               *)

LEMMA ElementFacts ==
    /\ Top \in Nat /\ Top >= MaxLen /\ Slots = 0 .. Top
    /\ Garbage \notin Element /\ Hole \in Element /\ undefined \in Element /\ 0 \in Element
    /\ Val \subseteq Element /\ undefined # Hole
<1>1. Top \in Nat /\ Top >= MaxLen /\ Slots = 0 .. Top
  BY GrowthAssumption DEF Top, Slots
<1>2. Garbage \notin Element
  BY ValueAssumption DEF Element
<1>3. undefined # Hole
  BY ValueAssumption
<1> QED
  BY <1>1, <1>2, <1>3 DEF Element

LEMMA KeepsTransitive ==
    ASSUME NEW a, NEW b, NEW c, Keeps(a, b), Keeps(b, c)
    PROVE  Keeps(a, c)
  BY DEF Keeps

LEMMA KeepsReflexive ==
    ASSUME NEW a
    PROVE  Keeps(a, a)
  BY DEF Keeps

\* Room for index high, if it is not far behind the end.
LEMMA ReallocKeeps ==
    ASSUME NEW a, Written(a), a.kind = "dense", NEW high \in Nat, high + GrowBy <= Top + 1
    PROVE  LET r == maybe_realloc_dense(a, high)
           IN  /\ r \in Arrays /\ r.kind = "dense" /\ r.len = a.len
               /\ high < r.alloc /\ a.alloc <= r.alloc /\ r.alloc <= Top + 1
               /\ r.alloc # a.alloc => a.alloc <= high
               /\ \A j \in Slots : j < a.len \/ r.alloc = a.alloc => r.el[j] = a.el[j]
<1> DEFINE r == maybe_realloc_dense(a, high)
<1>1. a \in Arrays /\ a.len \in Nat /\ a.alloc \in Nat /\ a.alloc <= Top + 1
  BY DEF Written, Arrays
<1>2. CASE high < a.alloc
  <2>1. r = a
    BY <1>2 DEF maybe_realloc_dense
  <2> QED
    BY <1>1, <1>2, <2>1
<1>3. CASE ~(high < a.alloc)
  <2> DEFINE el == [i \in Slots |-> IF i < a.len THEN a.el[i] ELSE Garbage]
  <2>1. r = [a EXCEPT !.alloc = high + GrowBy, !.el = el]
    BY <1>3 DEF maybe_realloc_dense
  <2>2. el \in [Slots -> Element \union {Garbage}]
    BY <1>1 DEF Arrays
  <2>3. \A j \in Slots : j < a.len => el[j] = a.el[j]
    OBVIOUS
  <2> HIDE DEF el
  <2>4. r.kind = a.kind /\ r.len = a.len /\ r.alloc = high + GrowBy /\ r.el = el
    BY <1>1, <2>1 DEF Arrays
  <2>5. high + GrowBy \in Nat /\ high + GrowBy > high
    BY GrowthAssumption
  <2>6. r \in Arrays
    BY <1>1, <2>1, <2>2, <2>5 DEF Arrays
  <2> HIDE DEF r
  <2>7. r.alloc > a.alloc /\ a.alloc <= high
    BY <1>1, <1>3, <2>4, <2>5
  <2>8. \A j \in Slots : j < a.len \/ r.alloc = a.alloc => r.el[j] = a.el[j]
    BY <1>1, <2>3, <2>4, <2>5, <2>7
  <2>9. high < r.alloc /\ a.alloc <= r.alloc /\ r.alloc <= Top + 1
    BY <1>1, <2>4, <2>5, <2>7
  <2> QED
    BY <1>3, <2>4, <2>6, <2>7, <2>8, <2>9 DEF r
<1> QED
  BY <1>2, <1>3

LEMMA PutKeeps ==
    ASSUME NEW a, Written(a), NEW i \in Nat, i + GrowBy <= Top + 1, NEW v \in Element
    PROVE  Written(Put(a, i, v)) /\ Keeps(a, Put(a, i, v))
<1> DEFINE b == Put(a, i, v)
<1>1. a \in Arrays /\ a.len \in Nat /\ a.alloc \in Nat /\ a.el \in [Slots -> Element \union {Garbage}]
  BY DEF Written, Arrays
<1>2. CASE a.kind = "plain"
  <2>1. b = [a EXCEPT !.el[i] = v]
    BY <1>2 DEF Put, _ejs_array_specop_set
  <2>2. b \in Arrays /\ b.kind = "plain"
    BY <1>1, <1>2, <2>1 DEF Arrays
  <2>3. \A j \in Slots : b.el[j] = IF j = i THEN v ELSE a.el[j]
    BY <1>1, <2>1 DEF Arrays
  <2> HIDE DEF b
  <2>4. \A j \in Slots : b.el[j] # Garbage
    BY <1>2, <2>3, ElementFacts DEF Written
  <2> QED
    BY <1>2, <2>2, <2>4 DEF Written, Keeps, b
<1>3. CASE a.kind = "dense"
  <2> DEFINE r == maybe_realloc_dense(a, i)
             el == [j \in Slots |-> IF j = i THEN v ELSE IF a.len <= j /\ j < i THEN Hole ELSE r.el[j]]
             n == Max({a.len, i + 1})
  <2>1. /\ r \in Arrays /\ r.kind = "dense" /\ i < r.alloc /\ r.alloc <= Top + 1 /\ a.len <= r.alloc
        /\ r.alloc # a.alloc => a.alloc <= i
        /\ a.alloc <= r.alloc
        /\ \A j \in Slots : j < a.len \/ r.alloc = a.alloc => r.el[j] = a.el[j]
    BY <1>1, <1>3, ReallocKeeps DEF Written, Arrays
  <2>2. n = IF a.len >= i + 1 THEN a.len ELSE i + 1
    BY <1>1, MaxOf
  <2>3. b = [r EXCEPT !.el = el, !.len = n]
    BY <1>3 DEF Put, _ejs_array_specop_set
  <2>4. el \in [Slots -> Element \union {Garbage}]
    BY <2>1, ElementFacts DEF Arrays
  <2>5. \A j \in Slots : el[j] = IF j = i THEN v ELSE IF a.len <= j /\ j < i THEN Hole ELSE r.el[j]
    OBVIOUS
  <2> HIDE DEF el, n, r
  <2>12. n \in Nat
    BY <1>1, <2>2
  <2>6. b.kind = "dense" /\ b.len = n /\ b.alloc = r.alloc /\ b.el = el /\ b \in Arrays
    BY <2>1, <2>3, <2>4, <2>12 DEF Arrays
  <2> HIDE DEF b
  <2>7. r.alloc \in Nat /\ n \in Nat
    BY <1>1, <2>1, <2>2 DEF Arrays
  <2>8. n <= r.alloc
    BY <1>1, <2>1, <2>2, <2>7
  <2>9. ASSUME NEW j \in 0 .. n - 1 PROVE el[j] # Garbage
    <3>1. j \in Slots
      BY <2>1, <2>7, <2>8, <2>9, ElementFacts
    <3>2. CASE j < a.len /\ j # i
      <4>1. j \in 0 .. a.len - 1
        BY <1>1, <3>1, <3>2, <2>7
      <4>2. el[j] = a.el[j] /\ a.el[j] # Garbage
        BY <1>1, <1>3, <2>1, <2>5, <3>1, <3>2, <4>1 DEF Written
      <4> QED
        BY <4>2
    <3>3. CASE j = i
      BY <2>5, <3>1, <3>3, ElementFacts
    <3>4. CASE a.len <= j /\ j < i
      BY <2>5, <3>1, <3>4, ElementFacts
    <3> QED
      BY <1>1, <2>2, <2>9, <3>2, <3>3, <3>4
  <2>10. ASSUME NEW j \in Slots, j < a.alloc, a.el[j] # Garbage
         PROVE  j < r.alloc /\ el[j] # Garbage
    <3>0. j \in Nat
      BY ElementFacts
    <3>1. j < r.alloc
      BY <1>1, <2>1, <2>7, <2>10, <3>0
    <3>2. CASE j = i \/ (a.len <= j /\ j < i)
      BY <2>5, <3>1, <3>2, ElementFacts
    <3>3. CASE j # i /\ ~(a.len <= j /\ j < i)
      <4>1. j < a.len \/ r.alloc = a.alloc
        BY <1>1, <2>1, <2>7, <2>10, <3>0, <3>3
      <4> QED
        BY <2>1, <2>5, <2>10, <3>1, <3>3, <4>1
    <3> QED
      BY <3>1, <3>2, <3>3
  <2> QED
    BY <1>3, <2>1, <2>6, <2>8, <2>9, <2>10 DEF Written, Keeps, b
<1> QED
  BY <1>1, <1>2, <1>3 DEF Arrays

LEMMA DeleteKeeps ==
    ASSUME NEW a, Written(a), NEW i
    PROVE  LET b == DeletePropertyOrThrow(a, i)
           IN  Written(b) /\ Keeps(a, b) /\ b.len = a.len
<1> DEFINE b == DeletePropertyOrThrow(a, i)
<1>1. a \in Arrays /\ a.len \in Nat /\ a.alloc \in Nat /\ a.el \in [Slots -> Element \union {Garbage}]
  BY DEF Written, Arrays
<1>2. CASE b = [a EXCEPT !.el[i] = Hole]
  <2>1. b.kind = a.kind /\ b.len = a.len /\ b.alloc = a.alloc /\ b \in Arrays
    BY <1>1, <1>2, ElementFacts DEF Arrays
  <2>2. \A j \in Slots : b.el[j] = IF j = i THEN Hole ELSE a.el[j]
    BY <1>1, <1>2 DEF Arrays
  <2> HIDE DEF b
  <2>3. Hole # Garbage
    BY ElementFacts
  <2>4. Keeps(a, b)
    BY <2>1, <2>2, <2>3 DEF Keeps
  <2>5. a.kind = "dense" => \A j \in 0 .. a.len - 1 : j \in Slots
    BY <1>1, ElementFacts DEF Written
  <2>6. a.kind = "dense" => \A j \in 0 .. b.len - 1 : b.el[j] # Garbage
    BY <2>1, <2>2, <2>3, <2>5 DEF Written
  <2>7. a.kind = "plain" => \A j \in Slots : b.el[j] # Garbage
    BY <2>2, <2>3 DEF Written
  <2>8. Written(b)
    BY <2>1, <2>6, <2>7 DEF Written
  <2> QED
    BY <2>1, <2>4, <2>8 DEF b
<1>3. CASE b = a
  BY <1>3, KeepsReflexive
<1> QED
  BY <1>2, <1>3 DEF DeletePropertyOrThrow, _ejs_array_specop_delete

LEMMA SetLengthKeeps ==
    ASSUME NEW a, Written(a), NEW n \in Nat, n + GrowBy <= Top + 1
    PROVE  LET b == SetLength(a, n)
           IN  Written(b) /\ Keeps(a, b) /\ b.len = n
<1> DEFINE b == SetLength(a, n)
<1>1. a \in Arrays /\ a.len \in Nat /\ a.alloc \in Nat /\ a.el \in [Slots -> Element \union {Garbage}]
  BY DEF Written, Arrays
<1>2. CASE a.kind = "plain"
  <2>1. b = [a EXCEPT !.len = n]
    BY <1>2 DEF SetLength
  <2>2. b \in Arrays /\ b.kind = "plain" /\ b.len = n /\ b.el = a.el
    BY <1>1, <1>2, <2>1 DEF Arrays
  <2> HIDE DEF b
  <2> QED
    BY <1>2, <2>2 DEF Written, Keeps, b
<1>3. CASE a.kind = "dense"
  <2> DEFINE r == IF n > a.alloc THEN maybe_realloc_dense(a, n) ELSE a
             el == [j \in Slots |-> IF a.len <= j /\ j < n THEN Hole ELSE r.el[j]]
  <2>1. /\ r \in Arrays /\ r.kind = "dense" /\ n <= r.alloc /\ r.alloc <= Top + 1
        /\ r.alloc # a.alloc => a.alloc <= n
        /\ a.alloc <= r.alloc
        /\ \A j \in Slots : j < a.len \/ r.alloc = a.alloc => r.el[j] = a.el[j]
    <3>1. CASE n > a.alloc
      BY <1>1, <1>3, <3>1, ReallocKeeps DEF Written, Arrays
    <3>2. CASE ~(n > a.alloc)
      BY <1>1, <1>3, <3>2 DEF Written
    <3> QED
      BY <3>1, <3>2
  <2>2. b = [r EXCEPT !.el = el, !.len = n]
    BY <1>3 DEF SetLength
  <2>3. el \in [Slots -> Element \union {Garbage}]
    BY <2>1, ElementFacts DEF Arrays
  <2>4. \A j \in Slots : el[j] = IF a.len <= j /\ j < n THEN Hole ELSE r.el[j]
    OBVIOUS
  <2> HIDE DEF el, r
  <2>5. b.kind = "dense" /\ b.len = n /\ b.alloc = r.alloc /\ b.el = el /\ b \in Arrays
    BY <1>1, <2>1, <2>2, <2>3 DEF Arrays
  <2> HIDE DEF b
  <2>6. r.alloc \in Nat
    BY <2>1 DEF Arrays
  <2>7. ASSUME NEW j \in 0 .. n - 1 PROVE el[j] # Garbage
    <3>1. j \in Slots
      BY <2>1, <2>6, <2>7, ElementFacts
    <3>2. CASE j < a.len
      BY <1>1, <1>3, <2>1, <2>4, <3>1, <3>2 DEF Written
    <3>3. CASE a.len <= j
      BY <2>4, <3>1, <3>3, ElementFacts
    <3> QED
      BY <1>1, <3>2, <3>3
  <2>8. ASSUME NEW j \in Slots, j < a.alloc, a.el[j] # Garbage
        PROVE  j < r.alloc /\ el[j] # Garbage
    <3>0. j \in Nat
      BY ElementFacts
    <3>1. j < r.alloc
      BY <1>1, <2>1, <2>6, <2>8, <3>0
    <3>2. CASE a.len <= j /\ j < n
      BY <2>4, <3>1, <3>2, ElementFacts
    <3>3. CASE ~(a.len <= j /\ j < n)
      <4>1. j < a.len \/ r.alloc = a.alloc
        BY <1>1, <2>1, <2>6, <2>8, <3>0, <3>3
      <4> QED
        BY <2>1, <2>4, <2>8, <3>1, <3>3, <4>1
    <3> QED
      BY <3>1, <3>2, <3>3
  <2> QED
    BY <1>3, <2>1, <2>5, <2>7, <2>8 DEF Written, Keeps, b
<1> QED
  BY <1>1, <1>2, <1>3 DEF Arrays

\* What is read from an array has been written.
LEMMA GetIs ==
    ASSUME NEW a, Written(a), NEW i \in Nat, a.kind = "plain" => i \in Slots
    PROVE  /\ Get(a, i) \in Element
           /\ HasProperty(a, i) => Get(a, i) = a.el[i] /\ Get(a, i) # Hole
<1>1. a \in Arrays /\ a.len \in Nat /\ a.alloc \in Nat /\ a.el \in [Slots -> Element \union {Garbage}]
  BY DEF Written, Arrays
<1>2. HasProperty(a, i) => i \in Slots /\ a.el[i] # Garbage /\ a.el[i] # Hole
  <2>1. CASE a.kind = "plain"
    BY <2>1 DEF HasProperty, _ejs_array_specop_has_property, Written
  <2>2. CASE a.kind = "dense"
    <3>1. HasProperty(a, i) => i < a.len /\ a.el[i] # Hole
      BY <2>2 DEF HasProperty, _ejs_array_specop_has_property
    <3>2. a.len <= Top + 1 /\ \A j \in 0 .. a.len - 1 : a.el[j] # Garbage
      BY <1>1, <2>2, ElementFacts DEF Written
    <3> QED
      BY <1>1, <3>1, <3>2, ElementFacts
  <2> QED
    BY <1>1, <2>1, <2>2 DEF Arrays
<1>3. HasProperty(a, i) => Get(a, i) = a.el[i]
  BY DEF Get, _ejs_array_specop_get, HasProperty
<1>4. ~HasProperty(a, i) => Get(a, i) = undefined
  BY DEF Get, _ejs_array_specop_get, HasProperty
<1> QED
  BY <1>1, <1>2, <1>3, <1>4, ElementFacts

LEMMA MoveKeeps ==
    ASSUME NEW a, Written(a), NEW from \in Slots, NEW to \in Nat, to + GrowBy <= Top + 1
    PROVE  Written(Move(a, from, to)) /\ Keeps(a, Move(a, from, to))
<1>1. from \in Nat
  BY ElementFacts
<1>2. Get(a, from) \in Element
  BY <1>1, GetIs
<1>3. CASE HasProperty(a, from)
  BY <1>2, <1>3, PutKeeps DEF Move
<1>4. CASE ~HasProperty(a, from)
  BY <1>4, DeleteKeeps DEF Move
<1> QED
  BY <1>3, <1>4

-----------------------------------------------------------------------------
(* Loops.  A set that contains the array and is closed under the rounds of the  *)
(* loop contains all arrays on the way.                                         *)

\* Put one after the other.
LEMMA PutsRun ==
    ASSUME NEW S, NEW a \in S, NEW ks, NEW vs, Len(ks) \in Nat,
           \A n \in 1 .. Len(ks) : \A b \in S : Put(b, ks[n], vs[n]) \in S
    PROVE  \E f : /\ f[0] = a
                  /\ \A n \in 1 .. Len(ks) : f[n] = Put(f[n - 1], ks[n], vs[n])
                  /\ \A n \in 0 .. Len(ks) : f[n] \in S
                  /\ Puts(a, ks, vs) = f[Len(ks)]
<1> DEFINE N == Len(ks)
           Step(b, n) == Put(b, ks[n], vs[n])
           Eq(f) == f = [n \in 0 .. N |-> IF n = 0 THEN a ELSE Step(f[n - 1], n)]
           f == CHOOSE f : Eq(f)
           step == [p \in (1 .. N) \X S |-> Step(p[2], p[1])]
<1>1. Puts(a, ks, vs) = f[N]
  BY DEF Puts
<1>2. N \in Nat
  OBVIOUS
<1>3. \A n \in 1 .. N : \A b \in S : Step(b, n) \in S
  OBVIOUS
<1> HIDE DEF Step, N
<1>4. step \in [(1 .. N) \X S -> S] /\ \A n \in 1 .. N, b \in S : step[<<n, b>>] = Step(b, n)
  BY <1>3
<1> HIDE DEF step
<1>5. PICK g \in [0 .. N -> S] : g[0] = a /\ \A n \in 1 .. N : g[n] = step[<<n, g[n - 1]>>]
  <2>1. \E g \in [0 .. N -> S] : Iterates(N, a, step, g)
    BY <1>2, <1>4, Recursion
  <2> QED
    BY <2>1 DEF Iterates
<1>6. ASSUME NEW n \in 0 .. N PROVE g[n] = IF n = 0 THEN a ELSE Step(g[n - 1], n)
  <2>1. CASE n = 0
    BY <1>5, <2>1
  <2>2. CASE n # 0
    <3>1. n \in 1 .. N /\ n - 1 \in 0 .. N
      BY <1>2, <2>2
    <3> QED
      BY <1>4, <1>5, <2>2, <3>1
  <2> QED
    BY <2>1, <2>2
<1>7. Eq(g)
  <2>1. g = [n \in 0 .. N |-> g[n]]
    BY <1>5
  <2> QED
    BY <1>6, <2>1
<1>8. Eq(f)
  <2> HIDE DEF Eq
  <2> QED
    BY <1>7
<1> HIDE DEF f
<1>9. f[0] = a /\ \A n \in 1 .. N : f[n] = Step(f[n - 1], n)
  <2>1. 0 \in 0 .. N /\ \A n \in 1 .. N : n \in 0 .. N /\ n # 0
    BY <1>2
  <2> QED
    BY <1>8, <2>1
<1> HIDE DEF Eq
<1> DEFINE P == {n \in 0 .. N : f[n] \in S}
<1>10. 0 \in P
  BY <1>2, <1>9
<1>11. ASSUME NEW n \in 0 .. N - 1, n \in P PROVE n + 1 \in P
  <2>1. n + 1 \in 1 .. N /\ n + 1 - 1 = n /\ n + 1 \in 0 .. N /\ f[n] \in S
    BY <1>2, <1>11
  <2> QED
    BY <1>3, <1>9, <2>1
<1> HIDE DEF P
<1>12. \A n \in 0 .. N : n \in P
  BY <1>2, <1>10, <1>11, BoundedInduction
<1>13. \A n \in 0 .. N : f[n] \in S
  BY <1>12 DEF P
<1> QED
  BY <1>1, <1>9, <1>13 DEF Step, N

\* Moved one after the other.
LEMMA MovesRun ==
    ASSUME NEW S, NEW a \in S, NEW from, NEW to, Len(from) \in Nat,
           \A n \in 1 .. Len(from) : \A b \in S : Move(b, from[n], to[n]) \in S
    PROVE  \E f : /\ f[0] = a
                  /\ \A n \in 1 .. Len(from) : f[n] = Move(f[n - 1], from[n], to[n])
                  /\ \A n \in 0 .. Len(from) : f[n] \in S
                  /\ Moves(a, from, to) = f[Len(from)]
<1> DEFINE N == Len(from)
           Step(b, n) == Move(b, from[n], to[n])
           Eq(f) == f = [n \in 0 .. N |-> IF n = 0 THEN a ELSE Step(f[n - 1], n)]
           f == CHOOSE f : Eq(f)
           step == [p \in (1 .. N) \X S |-> Step(p[2], p[1])]
<1>1. Moves(a, from, to) = f[N]
  BY DEF Moves
<1>2. N \in Nat
  OBVIOUS
<1>3. \A n \in 1 .. N : \A b \in S : Step(b, n) \in S
  OBVIOUS
<1> HIDE DEF Step, N
<1>4. step \in [(1 .. N) \X S -> S] /\ \A n \in 1 .. N, b \in S : step[<<n, b>>] = Step(b, n)
  BY <1>3
<1> HIDE DEF step
<1>5. PICK g \in [0 .. N -> S] : g[0] = a /\ \A n \in 1 .. N : g[n] = step[<<n, g[n - 1]>>]
  <2>1. \E g \in [0 .. N -> S] : Iterates(N, a, step, g)
    BY <1>2, <1>4, Recursion
  <2> QED
    BY <2>1 DEF Iterates
<1>6. ASSUME NEW n \in 0 .. N PROVE g[n] = IF n = 0 THEN a ELSE Step(g[n - 1], n)
  <2>1. CASE n = 0
    BY <1>5, <2>1
  <2>2. CASE n # 0
    <3>1. n \in 1 .. N /\ n - 1 \in 0 .. N
      BY <1>2, <2>2
    <3> QED
      BY <1>4, <1>5, <2>2, <3>1
  <2> QED
    BY <2>1, <2>2
<1>7. Eq(g)
  <2>1. g = [n \in 0 .. N |-> g[n]]
    BY <1>5
  <2> QED
    BY <1>6, <2>1
<1>8. Eq(f)
  <2> HIDE DEF Eq
  <2> QED
    BY <1>7
<1> HIDE DEF f
<1>9. f[0] = a /\ \A n \in 1 .. N : f[n] = Step(f[n - 1], n)
  <2>1. 0 \in 0 .. N /\ \A n \in 1 .. N : n \in 0 .. N /\ n # 0
    BY <1>2
  <2> QED
    BY <1>8, <2>1
<1> HIDE DEF Eq
<1> DEFINE P == {n \in 0 .. N : f[n] \in S}
<1>10. 0 \in P
  BY <1>2, <1>9
<1>11. ASSUME NEW n \in 0 .. N - 1, n \in P PROVE n + 1 \in P
  <2>1. n + 1 \in 1 .. N /\ n + 1 - 1 = n /\ n + 1 \in 0 .. N /\ f[n] \in S
    BY <1>2, <1>11
  <2> QED
    BY <1>3, <1>9, <2>1
<1> HIDE DEF P
<1>12. \A n \in 0 .. N : n \in P
  BY <1>2, <1>10, <1>11, BoundedInduction
<1>13. \A n \in 0 .. N : f[n] \in S
  BY <1>12 DEF P
<1> QED
  BY <1>1, <1>9, <1>13 DEF Step, N

\* Deleted one after the other.
LEMMA DeletesRun ==
    ASSUME NEW S, NEW a \in S, NEW ks, Len(ks) \in Nat,
           \A n \in 1 .. Len(ks) : \A b \in S : DeletePropertyOrThrow(b, ks[n]) \in S
    PROVE  \E f : /\ f[0] = a
                  /\ \A n \in 1 .. Len(ks) : f[n] = DeletePropertyOrThrow(f[n - 1], ks[n])
                  /\ \A n \in 0 .. Len(ks) : f[n] \in S
                  /\ Deletes(a, ks) = f[Len(ks)]
<1> DEFINE N == Len(ks)
           Step(b, n) == DeletePropertyOrThrow(b, ks[n])
           Eq(f) == f = [n \in 0 .. N |-> IF n = 0 THEN a ELSE Step(f[n - 1], n)]
           f == CHOOSE f : Eq(f)
           step == [p \in (1 .. N) \X S |-> Step(p[2], p[1])]
<1>1. Deletes(a, ks) = f[N]
  BY DEF Deletes
<1>2. N \in Nat
  OBVIOUS
<1>3. \A n \in 1 .. N : \A b \in S : Step(b, n) \in S
  OBVIOUS
<1> HIDE DEF Step, N
<1>4. step \in [(1 .. N) \X S -> S] /\ \A n \in 1 .. N, b \in S : step[<<n, b>>] = Step(b, n)
  BY <1>3
<1> HIDE DEF step
<1>5. PICK g \in [0 .. N -> S] : g[0] = a /\ \A n \in 1 .. N : g[n] = step[<<n, g[n - 1]>>]
  <2>1. \E g \in [0 .. N -> S] : Iterates(N, a, step, g)
    BY <1>2, <1>4, Recursion
  <2> QED
    BY <2>1 DEF Iterates
<1>6. ASSUME NEW n \in 0 .. N PROVE g[n] = IF n = 0 THEN a ELSE Step(g[n - 1], n)
  <2>1. CASE n = 0
    BY <1>5, <2>1
  <2>2. CASE n # 0
    <3>1. n \in 1 .. N /\ n - 1 \in 0 .. N
      BY <1>2, <2>2
    <3> QED
      BY <1>4, <1>5, <2>2, <3>1
  <2> QED
    BY <2>1, <2>2
<1>7. Eq(g)
  <2>1. g = [n \in 0 .. N |-> g[n]]
    BY <1>5
  <2> QED
    BY <1>6, <2>1
<1>8. Eq(f)
  <2> HIDE DEF Eq
  <2> QED
    BY <1>7
<1> HIDE DEF f
<1>9. f[0] = a /\ \A n \in 1 .. N : f[n] = Step(f[n - 1], n)
  <2>1. 0 \in 0 .. N /\ \A n \in 1 .. N : n \in 0 .. N /\ n # 0
    BY <1>2
  <2> QED
    BY <1>8, <2>1
<1> HIDE DEF Eq
<1> DEFINE P == {n \in 0 .. N : f[n] \in S}
<1>10. 0 \in P
  BY <1>2, <1>9
<1>11. ASSUME NEW n \in 0 .. N - 1, n \in P PROVE n + 1 \in P
  <2>1. n + 1 \in 1 .. N /\ n + 1 - 1 = n /\ n + 1 \in 0 .. N /\ f[n] \in S
    BY <1>2, <1>11
  <2> QED
    BY <1>3, <1>9, <2>1
<1> HIDE DEF P
<1>12. \A n \in 0 .. N : n \in P
  BY <1>2, <1>10, <1>11, BoundedInduction
<1>13. \A n \in 0 .. N : f[n] \in S
  BY <1>12 DEF P
<1> QED
  BY <1>1, <1>9, <1>13 DEF Step, N

\* Swapped one after the other.
LEMMA ReverseRun ==
    ASSUME NEW S, NEW a \in S, a.len \in Nat, a.len \div 2 \in Nat,
           \A n \in 1 .. (a.len \div 2) : \A b \in S : Swap(b, n - 1, a.len - n) \in S
    PROVE  \E f : /\ f[0] = a
                  /\ \A n \in 1 .. (a.len \div 2) : f[n] = Swap(f[n - 1], n - 1, a.len - n)
                  /\ \A n \in 0 .. (a.len \div 2) : f[n] \in S
                  /\ _ejs_Array_prototype_reverse(a).arr = f[(a.len \div 2)]
<1> DEFINE N == (a.len \div 2)
           Step(b, n) == Swap(b, n - 1, a.len - n)
           Eq(f) == f = [n \in 0 .. N |-> IF n = 0 THEN a ELSE Step(f[n - 1], n)]
           f == CHOOSE f : Eq(f)
           step == [p \in (1 .. N) \X S |-> Step(p[2], p[1])]
<1>1. _ejs_Array_prototype_reverse(a).arr = f[N]
  BY DEF _ejs_Array_prototype_reverse, Returns
<1>2. N \in Nat
  OBVIOUS
<1>3. \A n \in 1 .. N : \A b \in S : Step(b, n) \in S
  OBVIOUS
<1> HIDE DEF Step, N
<1>4. step \in [(1 .. N) \X S -> S] /\ \A n \in 1 .. N, b \in S : step[<<n, b>>] = Step(b, n)
  BY <1>3
<1> HIDE DEF step
<1>5. PICK g \in [0 .. N -> S] : g[0] = a /\ \A n \in 1 .. N : g[n] = step[<<n, g[n - 1]>>]
  <2>1. \E g \in [0 .. N -> S] : Iterates(N, a, step, g)
    BY <1>2, <1>4, Recursion
  <2> QED
    BY <2>1 DEF Iterates
<1>6. ASSUME NEW n \in 0 .. N PROVE g[n] = IF n = 0 THEN a ELSE Step(g[n - 1], n)
  <2>1. CASE n = 0
    BY <1>5, <2>1
  <2>2. CASE n # 0
    <3>1. n \in 1 .. N /\ n - 1 \in 0 .. N
      BY <1>2, <2>2
    <3> QED
      BY <1>4, <1>5, <2>2, <3>1
  <2> QED
    BY <2>1, <2>2
<1>7. Eq(g)
  <2>1. g = [n \in 0 .. N |-> g[n]]
    BY <1>5
  <2> QED
    BY <1>6, <2>1
<1>8. Eq(f)
  <2> HIDE DEF Eq
  <2> QED
    BY <1>7
<1> HIDE DEF f
<1>9. f[0] = a /\ \A n \in 1 .. N : f[n] = Step(f[n - 1], n)
  <2>1. 0 \in 0 .. N /\ \A n \in 1 .. N : n \in 0 .. N /\ n # 0
    BY <1>2
  <2> QED
    BY <1>8, <2>1
<1> HIDE DEF Eq
<1> DEFINE P == {n \in 0 .. N : f[n] \in S}
<1>10. 0 \in P
  BY <1>2, <1>9
<1>11. ASSUME NEW n \in 0 .. N - 1, n \in P PROVE n + 1 \in P
  <2>1. n + 1 \in 1 .. N /\ n + 1 - 1 = n /\ n + 1 \in 0 .. N /\ f[n] \in S
    BY <1>2, <1>11
  <2> QED
    BY <1>3, <1>9, <2>1
<1> HIDE DEF P
<1>12. \A n \in 0 .. N : n \in P
  BY <1>2, <1>10, <1>11, BoundedInduction
<1>13. \A n \in 0 .. N : f[n] \in S
  BY <1>12 DEF P
<1> QED
  BY <1>1, <1>9, <1>13 DEF Step, N

\* A number that is added to itself over and over.
Doubles(a, dir, Rounds) ==
    CHOOSE g : g = [n \in 0 .. Rounds |-> IF n = 0 THEN a ELSE g[n - 1] + g[n - 1] + dir]

LEMMA DoublesRun ==
    ASSUME NEW S, NEW a \in S, NEW dir, NEW Rounds \in Nat,
           \A b \in S : b + b + dir \in S
    PROVE  \A n \in 0 .. Rounds : Doubles(a, dir, Rounds)[n] \in S
<1> DEFINE N == Rounds
           Step(b, n) == b + b + dir
           Eq(f) == f = [n \in 0 .. N |-> IF n = 0 THEN a ELSE Step(f[n - 1], n)]
           f == CHOOSE f : Eq(f)
           step == [p \in (1 .. N) \X S |-> Step(p[2], p[1])]
<1>2. N \in Nat
  OBVIOUS
<1>3. \A n \in 1 .. N : \A b \in S : Step(b, n) \in S
  OBVIOUS
<1> HIDE DEF Step, N
<1>4. step \in [(1 .. N) \X S -> S] /\ \A n \in 1 .. N, b \in S : step[<<n, b>>] = Step(b, n)
  BY <1>3
<1> HIDE DEF step
<1>5. PICK g \in [0 .. N -> S] : g[0] = a /\ \A n \in 1 .. N : g[n] = step[<<n, g[n - 1]>>]
  <2>1. \E g \in [0 .. N -> S] : Iterates(N, a, step, g)
    BY <1>2, <1>4, Recursion
  <2> QED
    BY <2>1 DEF Iterates
<1>6. ASSUME NEW n \in 0 .. N PROVE g[n] = IF n = 0 THEN a ELSE Step(g[n - 1], n)
  <2>1. CASE n = 0
    BY <1>5, <2>1
  <2>2. CASE n # 0
    <3>1. n \in 1 .. N /\ n - 1 \in 0 .. N
      BY <1>2, <2>2
    <3> QED
      BY <1>4, <1>5, <2>2, <3>1
  <2> QED
    BY <2>1, <2>2
<1>7. Eq(g)
  <2>1. g = [n \in 0 .. N |-> g[n]]
    BY <1>5
  <2> QED
    BY <1>6, <2>1
<1>8. Eq(f)
  <2> HIDE DEF Eq
  <2> QED
    BY <1>7
<1> HIDE DEF f
<1>9. f[0] = a /\ \A n \in 1 .. N : f[n] = Step(f[n - 1], n)
  <2>1. 0 \in 0 .. N /\ \A n \in 1 .. N : n \in 0 .. N /\ n # 0
    BY <1>2
  <2> QED
    BY <1>8, <2>1
<1> HIDE DEF Eq
<1> DEFINE P == {n \in 0 .. N : f[n] \in S}
<1>10. 0 \in P
  BY <1>2, <1>9
<1>11. ASSUME NEW n \in 0 .. N - 1, n \in P PROVE n + 1 \in P
  <2>1. n + 1 \in 1 .. N /\ n + 1 - 1 = n /\ n + 1 \in 0 .. N /\ f[n] \in S
    BY <1>2, <1>11
  <2> QED
    BY <1>3, <1>9, <2>1
<1> HIDE DEF P
<1>12. \A n \in 0 .. N : n \in P
  BY <1>2, <1>10, <1>11, BoundedInduction
<1>13. \A n \in 0 .. N : f[n] \in S
  BY <1>12 DEF P
<1> QED
  BY <1>13 DEF f, Eq, Step, N, Doubles

\* What a method that starts with a may leave behind.
After(a) == {b \in Arrays : Written(b) /\ Keeps(a, b)}

LEMMA AfterItself ==
    ASSUME NEW a, Written(a)
    PROVE  a \in After(a)
  BY KeepsReflexive DEF After, Written

LEMMA AfterMore ==
    ASSUME NEW a, NEW b \in After(a), NEW c, Written(c), Keeps(b, c)
    PROVE  c \in After(a)
<1>1. Keeps(a, c)
  BY KeepsTransitive DEF After
<1> QED
  BY <1>1 DEF After, Written

LEMMA AfterFacts ==
    ASSUME NEW a, NEW b \in After(a)
    PROVE  b \in Arrays /\ Written(b) /\ Keeps(a, b)
  BY DEF After

LEMMA IndexFacts ==
    ASSUME NEW i \in Index
    PROVE  i \in Nat /\ i \in Slots /\ i + GrowBy <= Top + 1
<1>1. Top = MaxLen + GrowBy + Slack /\ Top \in Nat /\ MaxLen \in Nat /\ GrowBy \in Nat /\ Slack \in Nat
  BY GrowthAssumption DEF Top
<1>2. i \in Nat /\ i <= MaxLen
  BY <1>1 DEF Index
<1> QED
  BY <1>1, <1>2, ElementFacts

LEMMA PutsKeep ==
    ASSUME NEW a, NEW b \in After(a), NEW ks, NEW vs, Len(ks) \in Nat,
           \A n \in 1 .. Len(ks) : ks[n] \in Index /\ vs[n] \in Element
    PROVE  Puts(b, ks, vs) \in After(a)
<1>1. ASSUME NEW n \in 1 .. Len(ks), NEW c \in After(a)
      PROVE  Put(c, ks[n], vs[n]) \in After(a)
  <2>1. ks[n] \in Nat /\ ks[n] + GrowBy <= Top + 1 /\ vs[n] \in Element
    BY IndexFacts
  <2>2. Written(c)
    BY AfterFacts
  <2>3. Written(Put(c, ks[n], vs[n])) /\ Keeps(c, Put(c, ks[n], vs[n]))
    BY <2>1, <2>2, PutKeeps
  <2> QED
    BY <2>3, AfterMore
<1>2. PICK f : Puts(b, ks, vs) = f[Len(ks)] /\ \A n \in 0 .. Len(ks) : f[n] \in After(a)
  BY <1>1, PutsRun
<1> QED
  BY <1>2

LEMMA MovesKeep ==
    ASSUME NEW a, NEW b \in After(a), NEW from, NEW to, Len(from) \in Nat,
           \A n \in 1 .. Len(from) : from[n] \in Index /\ to[n] \in Index
    PROVE  Moves(b, from, to) \in After(a)
<1>1. ASSUME NEW n \in 1 .. Len(from), NEW c \in After(a)
      PROVE  Move(c, from[n], to[n]) \in After(a)
  <2>1. from[n] \in Slots /\ to[n] \in Nat /\ to[n] + GrowBy <= Top + 1
    BY IndexFacts
  <2>2. Written(c)
    BY AfterFacts
  <2>3. Written(Move(c, from[n], to[n])) /\ Keeps(c, Move(c, from[n], to[n]))
    BY <2>1, <2>2, MoveKeeps
  <2> QED
    BY <2>3, AfterMore
<1>2. PICK f : Moves(b, from, to) = f[Len(from)] /\ \A n \in 0 .. Len(from) : f[n] \in After(a)
  BY <1>1, MovesRun
<1> QED
  BY <1>2

LEMMA DeletesKeep ==
    ASSUME NEW a, NEW b \in After(a), NEW ks, Len(ks) \in Nat
    PROVE  Deletes(b, ks) \in After(a)
<1>1. ASSUME NEW n \in 1 .. Len(ks), NEW c \in After(a)
      PROVE  DeletePropertyOrThrow(c, ks[n]) \in After(a)
  <2>1. Written(c)
    BY AfterFacts
  <2>2. Written(DeletePropertyOrThrow(c, ks[n])) /\ Keeps(c, DeletePropertyOrThrow(c, ks[n]))
    BY <2>1, DeleteKeeps
  <2> QED
    BY <2>2, AfterMore
<1>2. PICK f : Deletes(b, ks) = f[Len(ks)] /\ \A n \in 0 .. Len(ks) : f[n] \in After(a)
  BY <1>1, DeletesRun
<1> QED
  BY <1>2

LEMMA SwapKeeps ==
    ASSUME NEW a, NEW b \in After(a), NEW lower \in Index, NEW upper \in Index
    PROVE  Swap(b, lower, upper) \in After(a)
<1> DEFINE x == Get(b, lower)
           y == Get(b, upper)
<1>1. Written(b)
  BY AfterFacts
<1>2. /\ lower \in Nat /\ lower \in Slots /\ lower + GrowBy <= Top + 1
      /\ upper \in Nat /\ upper \in Slots /\ upper + GrowBy <= Top + 1
  BY IndexFacts
<1>3. x \in Element /\ y \in Element
  BY <1>1, <1>2, GetIs
<1> HIDE DEF x, y
<1>4. Put(b, lower, y) \in After(a)
  BY <1>1, <1>2, <1>3, PutKeeps, AfterMore
<1>5. Put(Put(b, lower, y), upper, x) \in After(a)
  <2>1. Written(Put(b, lower, y))
    BY <1>4, AfterFacts
  <2> QED
    BY <1>2, <1>3, <1>4, <2>1, PutKeeps, AfterMore
<1>6. DeletePropertyOrThrow(Put(b, lower, y), upper) \in After(a)
  <2>1. Written(Put(b, lower, y))
    BY <1>4, AfterFacts
  <2> QED
    BY <1>4, <2>1, DeleteKeeps, AfterMore
<1>7. DeletePropertyOrThrow(b, lower) \in After(a)
  BY <1>1, DeleteKeeps, AfterMore
<1>8. Put(DeletePropertyOrThrow(b, lower), upper, x) \in After(a)
  <2>1. Written(DeletePropertyOrThrow(b, lower))
    BY <1>7, AfterFacts
  <2> QED
    BY <1>2, <1>3, <1>7, <2>1, PutKeeps, AfterMore
<1> QED
  BY <1>5, <1>6, <1>8 DEF Swap, x, y

-----------------------------------------------------------------------------
(* The methods of the array keep what is written.                           *)

LEMMA PutAllKeeps ==
    ASSUME NEW a, NEW b \in After(a), NEW i \in Nat, NEW items \in Seq(Element),
           i + Len(items) <= MaxLen + 1
    PROVE  PutAll(b, i, items) \in After(a)
<1> DEFINE ks == Up(i, i + Len(items))
<1>1. Len(items) \in Nat /\ MaxLen \in Nat
  BY GrowthAssumption
<1>2. Len(ks) = Len(items) /\ \A n \in 1 .. Len(items) : ks[n] = i + n - 1
  <2> DEFINE j == i + Len(items)
             m == Len(items)
  <2>1. j = i + m /\ m \in Nat /\ i \in Int
    BY <1>1
  <2> HIDE DEF j, m
  <2>2. Len(Up(i, j)) = m /\ \A n \in 1 .. m : Up(i, j)[n] = i + n - 1
    BY <2>1, UpBy
  <2> QED
    BY <2>2 DEF j, m
<1> HIDE DEF ks
<1>3. \A n \in 1 .. Len(ks) : ks[n] \in Index /\ items[n] \in Element
  BY <1>1, <1>2 DEF Index
<1>4. Puts(b, ks, items) \in After(a)
  BY <1>1, <1>2, <1>3, PutsKeep
<1> QED
  BY <1>4 DEF PutAll, ks

LEMMA SetLengthAfter ==
    ASSUME NEW a, NEW b \in After(a), NEW n \in Index
    PROVE  SetLength(b, n) \in After(a) /\ SetLength(b, n).len = n
<1>1. n \in Nat /\ n + GrowBy <= Top + 1 /\ Written(b)
  BY IndexFacts, AfterFacts
<1> QED
  BY <1>1, SetLengthKeeps, AfterMore

\* All elements of items are written at the end of a.
LEMMA PushDenseKeeps ==
    ASSUME NEW a, Written(a), a.kind = "dense", NEW items \in Seq(Element),
           a.len + Len(items) <= MaxLen
    PROVE  LET b == _ejs_array_push_dense(a, items).arr
           IN  b \in After(a) /\ b.len = a.len + Len(items) /\ b.kind = "dense"
<1> DEFINE n == Len(items)
           r == maybe_realloc_dense(a, a.len + n)
           el == [i \in Slots |-> IF a.len <= i /\ i < a.len + n THEN items[i - a.len + 1] ELSE r.el[i]]
           b == _ejs_array_push_dense(a, items).arr
<1>1. a \in Arrays /\ a.len \in Nat /\ a.alloc \in Nat /\ n \in Nat /\ \A j \in 1 .. n : items[j] \in Element
  BY DEF Written, Arrays
<1>2. b = [r EXCEPT !.len = a.len + n, !.el = el]
  BY DEF _ejs_array_push_dense, Returns
<1> HIDE DEF b, n
<1>3. a.len + n \in Nat /\ a.len + n + GrowBy <= Top + 1
  <2>1. a.len + n \in Index
    BY <1>1, GrowthAssumption DEF Index, n
  <2> QED
    BY <2>1, IndexFacts
<1>4. /\ r \in Arrays /\ r.kind = "dense" /\ a.len + n < r.alloc /\ r.alloc <= Top + 1 /\ a.alloc <= r.alloc
      /\ r.alloc # a.alloc => a.alloc <= a.len + n
      /\ \A j \in Slots : j < a.len \/ r.alloc = a.alloc => r.el[j] = a.el[j]
  BY <1>3, ReallocKeeps
<1>5. el \in [Slots -> Element \union {Garbage}]
  <2>1. ASSUME NEW i \in Slots, a.len <= i, i < a.len + n PROVE items[i - a.len + 1] \in Element
    <3>1. i \in Nat /\ i - a.len + 1 \in 1 .. n
      BY <1>1, <2>1, ElementFacts
    <3> QED
      BY <1>1, <3>1
  <2>2. \A i \in Slots : r.el[i] \in Element \union {Garbage}
    BY <1>4 DEF Arrays
  <2> QED
    BY <2>1, <2>2
<1>6. ASSUME NEW i \in Slots, a.len <= i, i < a.len + n PROVE el[i] \in Element
  <2>1. i \in Nat /\ i - a.len + 1 \in 1 .. n
    BY <1>1, <1>6, ElementFacts
  <2> QED
    BY <1>1, <1>6, <2>1
<1>7. \A i \in Slots : ~(a.len <= i /\ i < a.len + n) => el[i] = r.el[i]
  OBVIOUS
<1> HIDE DEF el, r
<1>8. b \in Arrays /\ b.kind = "dense" /\ b.len = a.len + n /\ b.alloc = r.alloc /\ b.el = el
  BY <1>2, <1>3, <1>4, <1>5 DEF Arrays
<1>9. r.alloc \in Nat
  BY <1>4 DEF Arrays
<1>10. ASSUME NEW j \in 0 .. b.len - 1 PROVE b.el[j] # Garbage
  <2>1. j \in Slots /\ j \in Nat /\ j < a.len + n
    BY <1>3, <1>4, <1>8, <1>9, ElementFacts
  <2>2. CASE j < a.len
    <3>1. j \in 0 .. a.len - 1
      BY <1>1, <2>1, <2>2
    <3> QED
      BY <1>1, <1>4, <1>7, <1>8, <2>1, <2>2, <3>1 DEF Written
  <2>3. CASE a.len <= j
    BY <1>6, <1>8, <2>1, <2>3, ElementFacts
  <2> QED
    BY <1>1, <2>1, <2>2, <2>3
<1>11. ASSUME NEW j \in Slots, j < a.alloc, a.el[j] # Garbage
       PROVE  j < b.alloc /\ b.el[j] # Garbage
  <2>1. j \in Nat
    BY ElementFacts
  <2>2. j < b.alloc
    BY <1>1, <1>4, <1>8, <1>9, <1>11, <2>1
  <2>3. CASE a.len <= j /\ j < a.len + n
    BY <1>6, <1>8, <2>2, <2>3, ElementFacts
  <2>4. CASE ~(a.len <= j /\ j < a.len + n)
    <3>1. j < a.len \/ r.alloc = a.alloc
      BY <1>1, <1>3, <1>4, <1>9, <1>11, <2>1, <2>4
    <3> QED
      BY <1>4, <1>7, <1>8, <1>11, <2>2, <2>4, <3>1
  <2> QED
    BY <2>3, <2>4
<1>12. Written(b) /\ Keeps(a, b)
  BY <1>3, <1>4, <1>8, <1>9, <1>10, <1>11 DEF Written, Keeps
<1> QED
  BY <1>8, <1>12 DEF After, b, n

LEMMA PushKeeps ==
    ASSUME NEW a, Written(a), NEW items \in Seq(Element), a.len + Len(items) <= MaxLen
    PROVE  _ejs_Array_prototype_push(a, items).arr \in After(a)
<1>1. a.len \in Nat /\ Len(items) \in Nat /\ MaxLen \in Nat
  BY GrowthAssumption DEF Written, Arrays
<1>2. CASE a.kind = "dense"
  BY <1>2, PushDenseKeeps DEF _ejs_Array_prototype_push
<1>3. CASE a.kind # "dense"
  <2>1. PutAll(a, a.len, items) \in After(a)
    BY <1>1, AfterItself, PutAllKeeps
  <2>2. a.len + Len(items) \in Index
    BY <1>1 DEF Index
  <2> QED
    BY <1>3, <2>1, <2>2, SetLengthAfter DEF _ejs_Array_prototype_push, Generic_push, Returns
<1> QED
  BY <1>2, <1>3

\* A dense array that is cut keeps what it has.
LEMMA CutKeeps ==
    ASSUME NEW a, Written(a), a.kind = "dense", NEW n \in 0 .. a.len
    PROVE  [a EXCEPT !.len = n] \in After(a)
<1> DEFINE b == [a EXCEPT !.len = n]
<1>1. a \in Arrays /\ a.len \in Nat /\ a.alloc \in Nat
  BY DEF Written, Arrays
<1>2. b \in Arrays /\ b.kind = "dense" /\ b.len = n /\ b.alloc = a.alloc /\ b.el = a.el
  BY <1>1 DEF Arrays
<1> HIDE DEF b
<1>3. Keeps(a, b)
  BY <1>2 DEF Keeps
<1>4. Written(b)
  BY <1>1, <1>2 DEF Written
<1> QED
  BY <1>2, <1>3, <1>4 DEF After, b

LEMMA PopKeeps ==
    ASSUME NEW a, Written(a), a.len <= MaxLen
    PROVE  _ejs_Array_prototype_pop(a).arr \in After(a)
<1>1. a.len \in Nat /\ MaxLen \in Nat /\ 0 \in Index /\ a \in After(a)
  BY GrowthAssumption, AfterItself DEF Written, Arrays, Index
<1>2. CASE a.kind = "dense"
  <2>1. CASE a.len = 0
    BY <1>1, <1>2, <2>1 DEF _ejs_Array_prototype_pop, _ejs_array_pop_dense, Returns
  <2>2. CASE a.len # 0
    <3>1. a.len - 1 \in 0 .. a.len
      BY <1>1, <2>2
    <3> QED
      BY <1>2, <2>2, <3>1, CutKeeps DEF _ejs_Array_prototype_pop, _ejs_array_pop_dense, Returns
  <2> QED
    BY <2>1, <2>2
<1>3. CASE a.kind # "dense"
  <2>1. CASE a.len = 0
    BY <1>1, <1>3, <2>1, SetLengthAfter DEF _ejs_Array_prototype_pop, Generic_pop, Returns
  <2>2. CASE a.len # 0
    <3>1. a.len - 1 \in Index
      BY <1>1, <2>2 DEF Index
    <3>2. DeletePropertyOrThrow(a, a.len - 1) \in After(a)
      BY <1>1, DeleteKeeps, AfterMore
    <3> QED
      BY <1>3, <2>2, <3>1, <3>2, SetLengthAfter DEF _ejs_Array_prototype_pop, Generic_pop, Returns
  <2> QED
    BY <2>1, <2>2
<1> QED
  BY <1>2, <1>3

LEMMA ShiftKeeps ==
    ASSUME NEW a, Written(a), a.len <= MaxLen
    PROVE  _ejs_Array_prototype_shift(a).arr \in After(a)
<1>1. /\ a.len \in Nat /\ a.alloc \in Nat /\ MaxLen \in Nat /\ 0 \in Index /\ a \in After(a) /\ a \in Arrays
      /\ a.el \in [Slots -> Element \union {Garbage}]
  BY GrowthAssumption, AfterItself DEF Written, Arrays, Index
<1>2. CASE a.kind # "dense" /\ a.len = 0
  BY <1>1, <1>2, SetLengthAfter DEF _ejs_Array_prototype_shift, Generic_shift, Returns
<1>3. CASE a.kind # "dense" /\ a.len # 0
  <2> DEFINE from == Up(1, a.len)
             to == Up(0, a.len - 1)
  <2>1. /\ Len(from) = a.len - 1 /\ \A n \in 1 .. a.len - 1 : from[n] = 1 + n - 1
        /\ Len(to) = a.len - 1 /\ \A n \in 1 .. a.len - 1 : to[n] = 0 + n - 1
    <3> DEFINE i == 1
               o == 0
               m == a.len - 1
    <3>1. m \in Nat /\ a.len = i + m /\ m = o + m /\ i \in Int /\ o \in Int
      BY <1>1, <1>3
    <3> HIDE DEF i, o, m
    <3>2. Len(Up(i, a.len)) = m /\ \A n \in 1 .. m : Up(i, a.len)[n] = i + n - 1
      BY <3>1, UpBy
    <3>3. Len(Up(o, m)) = m /\ \A n \in 1 .. m : Up(o, m)[n] = o + n - 1
      BY <3>1, UpBy
    <3> QED
      BY <3>2, <3>3 DEF i, o, m
  <2> HIDE DEF from, to
  <2>2. Moves(a, from, to) \in After(a)
    <3>1. Len(from) \in Nat /\ \A n \in 1 .. Len(from) : from[n] \in Index /\ to[n] \in Index
      BY <1>1, <1>3, <2>1 DEF Index
    <3> QED
      BY <1>1, <3>1, MovesKeep
  <2>3. Written(Moves(a, from, to))
    BY <2>2, AfterFacts
  <2>4. DeletePropertyOrThrow(Moves(a, from, to), a.len - 1) \in After(a)
    BY <2>2, <2>3, DeleteKeeps, AfterMore
  <2>5. a.len - 1 \in Index
    BY <1>1, <1>3 DEF Index
  <2> QED
    BY <1>3, <2>4, <2>5, SetLengthAfter DEF _ejs_Array_prototype_shift, Generic_shift, Returns, from, to
<1>4. CASE a.kind = "dense" /\ a.len = 0
  BY <1>1, <1>4 DEF _ejs_Array_prototype_shift, Returns
<1>5. CASE a.kind = "dense" /\ a.len # 0
  <2> DEFINE el == [i \in Slots |-> IF i < a.len - 1 THEN a.el[i + 1] ELSE a.el[i]]
             b == [a EXCEPT !.len = a.len - 1, !.el = el]
  <2>1. _ejs_Array_prototype_shift(a).arr = b
    BY <1>1, <1>5 DEF _ejs_Array_prototype_shift, Returns, Arrays
  <2>2. a.len <= a.alloc /\ a.alloc <= Top + 1 /\ \A i \in 0 .. a.len - 1 : a.el[i] # Garbage
    BY <1>5 DEF Written
  <2>3. \A i \in Slots : i \in Nat /\ (i < a.len - 1 => i + 1 \in Slots /\ i + 1 \in 0 .. a.len - 1)
    BY <1>1, <2>2, ElementFacts
  <2>4. el \in [Slots -> Element \union {Garbage}]
    BY <1>1, <2>3
  <2>5. \A i \in Slots : el[i] = IF i < a.len - 1 THEN a.el[i + 1] ELSE a.el[i]
    OBVIOUS
  <2> HIDE DEF el
  <2>6. a.len - 1 \in Nat
    BY <1>1, <1>5
  <2>7. b \in Arrays /\ b.kind = "dense" /\ b.len = a.len - 1 /\ b.alloc = a.alloc /\ b.el = el
    BY <1>1, <1>5, <2>4, <2>6 DEF Arrays
  <2> HIDE DEF b
  <2>8. ASSUME NEW j \in Slots, a.el[j] # Garbage PROVE el[j] # Garbage
    BY <2>2, <2>3, <2>5, <2>8
  <2>9. \A j \in 0 .. a.len - 2 : el[j] # Garbage
    <3>1. \A j \in 0 .. a.len - 2 : j \in Slots /\ j \in 0 .. a.len - 1
      BY <1>1, <2>2, ElementFacts
    <3> QED
      BY <2>2, <2>8, <3>1
  <2>10. Keeps(a, b)
    BY <2>7, <2>8, <1>5 DEF Keeps
  <2>11. b.len - 1 = a.len - 2 /\ b.len <= b.alloc
    BY <1>1, <2>2, <2>7
  <2>12. Written(b)
    BY <2>2, <2>7, <2>9, <2>11 DEF Written
  <2> QED
    BY <2>1, <2>7, <2>10, <2>12 DEF After
<1> QED
  BY <1>2, <1>3, <1>4, <1>5

LEMMA UnshiftKeeps ==
    ASSUME NEW a, Written(a), NEW items \in Seq(Element), a.len + Len(items) <= MaxLen
    PROVE  _ejs_Array_prototype_unshift(a, items).arr \in After(a)
<1> DEFINE n == Len(items)
<1>1. /\ a.len \in Nat /\ a.alloc \in Nat /\ MaxLen \in Nat /\ a \in After(a) /\ a \in Arrays
      /\ n \in Nat /\ a.len + n \in Index /\ 0 \in Nat /\ n <= MaxLen
      /\ \A j \in 1 .. n : items[j] \in Element
  BY GrowthAssumption, AfterItself DEF Written, Arrays, Index
<1>2. CASE a.kind # "dense" /\ n = 0
  BY <1>1, <1>2, SetLengthAfter DEF _ejs_Array_prototype_unshift, Generic_unshift, Returns
<1>3. CASE a.kind # "dense" /\ n # 0
  <2> DEFINE from == Down(a.len - 1, -1)
             to == Down(a.len + n - 1, n - 1)
  <2>1. /\ Len(from) = a.len /\ \A k \in 1 .. a.len : from[k] = a.len - 1 - k + 1
        /\ Len(to) = a.len /\ \A k \in 1 .. a.len : to[k] = a.len + n - 1 - k + 1
    <3> DEFINE i1 == a.len - 1
               j1 == -1
               i2 == a.len + n - 1
               j2 == n - 1
               m == a.len
    <3>1. m \in Nat /\ j1 \in Int /\ j2 \in Int /\ i1 = j1 + m /\ i2 = j2 + m
      <4> HIDE DEF n
      <4> QED
        BY <1>1
    <3> HIDE DEF i1, j1, i2, j2, m
    <3>2. Len(Down(i1, j1)) = m /\ \A k \in 1 .. m : Down(i1, j1)[k] = i1 - k + 1
      BY <3>1, DownBy
    <3>3. Len(Down(i2, j2)) = m /\ \A k \in 1 .. m : Down(i2, j2)[k] = i2 - k + 1
      BY <3>1, DownBy
    <3> QED
      BY <3>2, <3>3 DEF i1, j1, i2, j2, m
  <2> HIDE DEF from, to
  <2>2. Moves(a, from, to) \in After(a)
    <3>1. Len(from) \in Nat /\ \A k \in 1 .. Len(from) : from[k] \in Index /\ to[k] \in Index
      <4>1. n >= 1
        <5> HIDE DEF n
        <5> QED
          BY <1>1, <1>3
      <4> HIDE DEF n
      <4>3. a.len \in Nat /\ n \in Nat /\ MaxLen \in Nat /\ a.len + n <= MaxLen
        BY <1>1 DEF Index
      <4>2. \A k \in 1 .. a.len : a.len - 1 - k + 1 \in Index /\ a.len + n - 1 - k + 1 \in Index
        <5> SUFFICES ASSUME NEW k \in 1 .. a.len
                     PROVE  a.len - 1 - k + 1 \in Index /\ a.len + n - 1 - k + 1 \in Index
          OBVIOUS
        <5>1. k \in Nat /\ k >= 1 /\ k <= a.len
          BY <4>3
        <5>2. a.len - 1 - k + 1 \in 0 .. MaxLen
          BY <4>3, <5>1
        <5>3. a.len + n - 1 - k + 1 \in 0 .. MaxLen
          BY <4>1, <4>3, <5>1
        <5> QED
          BY <5>2, <5>3 DEF Index
      <4> QED
        BY <1>1, <2>1, <4>2
    <3> QED
      BY <1>1, <3>1, MovesKeep
  <2>3. PutAll(Moves(a, from, to), 0, items) \in After(a)
    <3>1. 0 + Len(items) <= MaxLen + 1
      BY <1>1
    <3> QED
      BY <1>1, <2>2, <3>1, PutAllKeeps
  <2>4. _ejs_Array_prototype_unshift(a, items).arr = SetLength(PutAll(Moves(a, from, to), 0, items), a.len + n)
    BY <1>3 DEF _ejs_Array_prototype_unshift, Generic_unshift, Returns, from, to
  <2> QED
    BY <1>1, <2>3, <2>4, SetLengthAfter
<1>4. CASE a.kind = "dense"
  <2> DEFINE r == maybe_realloc_dense(a, a.len + n)
             el == [i \in Slots |-> IF i < n THEN items[i + 1] ELSE IF i < a.len + n THEN r.el[i - n] ELSE r.el[i]]
             b == _ejs_Array_prototype_unshift(a, items).arr
  <2>1. b = [r EXCEPT !.len = a.len + n, !.el = el]
    BY <1>4 DEF _ejs_Array_prototype_unshift, Returns
  <2> HIDE DEF b, n
  <2>2. a.len + n \in Nat /\ a.len + n + GrowBy <= Top + 1
    BY <1>1, IndexFacts
  <2>3. /\ r \in Arrays /\ r.kind = "dense" /\ a.len + n < r.alloc /\ r.alloc <= Top + 1 /\ a.alloc <= r.alloc
        /\ r.alloc # a.alloc => a.alloc <= a.len + n
        /\ \A j \in Slots : j < a.len \/ r.alloc = a.alloc => r.el[j] = a.el[j]
    BY <1>4, <2>2, ReallocKeeps
  <2>4. r.alloc \in Nat /\ r.el \in [Slots -> Element \union {Garbage}]
    BY <2>3 DEF Arrays
  <2> HIDE DEF r
  <2>5. ASSUME NEW i \in Slots, i < a.len + n PROVE el[i] \in Element
    <3>1. i \in Nat
      BY ElementFacts
    <3>2. CASE i < n
      <4>1. i + 1 \in 1 .. n
        BY <1>1, <3>1, <3>2
      <4> QED
        BY <1>1, <3>2, <4>1
    <3>3. CASE ~(i < n)
      <4>1. i - n \in 0 .. a.len - 1 /\ i - n \in Slots /\ i - n < a.len
        BY <1>1, <2>3, <2>4, <2>5, <3>1, <3>3, ElementFacts
      <4>2. a.el[i - n] # Garbage
        BY <1>4, <4>1 DEF Written
      <4>3. a.el[i - n] \in Element
        BY <1>1, <4>1, <4>2 DEF Arrays
      <4> QED
        BY <2>3, <2>5, <3>3, <4>1, <4>3
    <3> QED
      BY <3>2, <3>3
  <2>6. ASSUME NEW i \in Slots, ~(i < a.len + n) PROVE el[i] = r.el[i]
    <3>1. ~(i < n)
      BY <1>1, <2>6, ElementFacts
    <3> QED
      BY <2>6, <3>1
  <2>7. el \in [Slots -> Element \union {Garbage}]
    <3>1. \A i \in Slots : el[i] \in Element \union {Garbage}
      BY <2>4, <2>5, <2>6
    <3> QED
      BY <3>1
  <2> HIDE DEF el
  <2>8. b \in Arrays /\ b.kind = "dense" /\ b.len = a.len + n /\ b.alloc = r.alloc /\ b.el = el
    BY <2>1, <2>2, <2>3, <2>7 DEF Arrays
  <2>9. ASSUME NEW j \in 0 .. b.len - 1 PROVE b.el[j] # Garbage
    <3>1. j \in Slots /\ j < a.len + n
      BY <2>2, <2>3, <2>4, <2>8, ElementFacts
    <3> QED
      BY <2>5, <2>8, <3>1, ElementFacts
  <2>10. ASSUME NEW j \in Slots, j < a.alloc, a.el[j] # Garbage
         PROVE  j < b.alloc /\ b.el[j] # Garbage
    <3>1. j \in Nat
      BY ElementFacts
    <3>2. j < b.alloc
      BY <1>1, <2>3, <2>4, <2>8, <2>10, <3>1
    <3>3. CASE j < a.len + n
      BY <2>5, <2>8, <3>2, <3>3, ElementFacts
    <3>4. CASE ~(j < a.len + n)
      <4>1. r.alloc = a.alloc
        BY <1>1, <2>2, <2>3, <2>4, <2>10, <3>1, <3>4
      <4> QED
        BY <2>3, <2>6, <2>8, <2>10, <3>2, <3>4, <4>1
    <3> QED
      BY <3>3, <3>4
  <2>11. Written(b) /\ Keeps(a, b)
    BY <1>4, <2>2, <2>3, <2>4, <2>8, <2>9, <2>10 DEF Written, Keeps
  <2> QED
    BY <2>8, <2>11 DEF After, b
<1> QED
  BY <1>2, <1>3, <1>4

LEMMA FillKeeps ==
    ASSUME NEW a, Written(a), a.len <= MaxLen, NEW v \in Element, NEW start \in Int, NEW end \in Int \union {undefined}
    PROVE  _ejs_Array_prototype_fill(a, v, start, end).arr \in After(a)
<1>1. a.len \in Nat /\ MaxLen \in Nat /\ a \in After(a)
  BY GrowthAssumption, AfterItself DEF Written, Arrays
<1> DEFINE k == Clamp(a.len, start)
           final == ClampEnd(a.len, end)
           ks == Up(k, final)
           vs == [n \in DOMAIN ks |-> v]
<1>2. k \in 0 .. a.len /\ final \in 0 .. a.len
  BY <1>1, ClampIs
<1>3. _ejs_Array_prototype_fill(a, v, start, end).arr = Puts(a, ks, vs)
  BY DEF _ejs_Array_prototype_fill, Returns
<1> HIDE DEF k, final
<1>4. k \in Int /\ final \in Int
  BY <1>1, <1>2
<1>5. /\ ks \in Seq(Int) /\ Len(ks) = IF final >= k THEN final - k ELSE 0
      /\ \A n \in 1 .. Len(ks) : ks[n] = k + n - 1
  BY <1>4, UpIs
<1> HIDE DEF ks
<1>6. Len(ks) \in Nat /\ DOMAIN ks = 1 .. Len(ks)
  BY <1>5
<1>7. \A n \in 1 .. Len(ks) : ks[n] \in Index /\ vs[n] \in Element
  <2>1. ASSUME NEW n \in 1 .. Len(ks) PROVE ks[n] \in Index
    <3>1. final >= k /\ n <= final - k /\ n \in Nat /\ n >= 1
      BY <1>4, <1>5, <1>6
    <3> QED
      BY <1>1, <1>2, <1>5, <3>1 DEF Index
  <2>2. \A n \in 1 .. Len(ks) : vs[n] = v
    BY <1>6
  <2> QED
    BY <2>1, <2>2
<1> HIDE DEF vs
<1>8. Puts(a, ks, vs) \in After(a)
  BY <1>1, <1>6, <1>7, PutsKeep
<1> QED
  BY <1>3, <1>8

LEMMA ReverseKeeps ==
    ASSUME NEW a, Written(a), a.len <= MaxLen
    PROVE  _ejs_Array_prototype_reverse(a).arr \in After(a)
<1> DEFINE h == a.len \div 2
<1>1. a.len \in Nat /\ MaxLen \in Nat /\ a \in After(a)
  BY GrowthAssumption, AfterItself DEF Written, Arrays
<1>2. h \in Nat /\ 2 * h <= a.len
  BY <1>1
<1>3. ASSUME NEW n \in 1 .. h, NEW b \in After(a)
      PROVE  Swap(b, n - 1, a.len - n) \in After(a)
  <2> HIDE DEF h
  <2>1. n - 1 \in Index /\ a.len - n \in Index
    BY <1>1, <1>2 DEF Index
  <2> QED
    BY <2>1, SwapKeeps
<1>4. PICK f : /\ _ejs_Array_prototype_reverse(a).arr = f[h]
               /\ \A n \in 0 .. h : f[n] \in After(a)
  BY <1>1, <1>2, <1>3, ReverseRun
<1> HIDE DEF h
<1> QED
  BY <1>2, <1>4

LEMMA CloseGapKeeps ==
    ASSUME NEW a, Written(a), NEW s \in Nat, NEW d \in Nat, NEW n \in Nat,
           s + d <= a.len, a.len + n <= MaxLen
    PROVE  CloseGap(a, s, d, n) \in After(a)
<1> DEFINE L == a.len
           m == L - s - d
<1>1. L \in Nat /\ MaxLen \in Nat /\ a \in After(a)
  BY GrowthAssumption, AfterItself DEF Written, Arrays
<1>2. m \in Nat
  BY <1>1
<1>3. CASE n < d
  <2> DEFINE i1 == s + d
             i2 == s + n
             j2 == L - d + n
             i3 == L - 1
             j3 == L - d + n - 1
             h == d - n
  <2>1. /\ i1 \in Nat /\ L = i1 + m /\ L <= MaxLen + 1
        /\ i2 \in Nat /\ j2 = i2 + m /\ j2 <= MaxLen + 1
        /\ h \in Nat /\ j3 \in Int /\ i3 = j3 + h
    <3> HIDE DEF L
    <3> QED
      BY <1>1, <1>2, <1>3 DEF L
  <2>2. CloseGap(a, s, d, n) = Deletes(Moves(a, Up(i1, L), Up(i2, j2)), Down(i3, j3))
    BY <1>3 DEF CloseGap
  <2> HIDE DEF L, m, i1, i2, j2, i3, j3, h
  <2>3. Len(Up(i1, L)) = m /\ \A k \in 1 .. m : Up(i1, L)[k] \in Index
    BY <1>2, <2>1, UpIndex
  <2>4. Len(Up(i2, j2)) = m /\ \A k \in 1 .. m : Up(i2, j2)[k] \in Index
    BY <1>2, <2>1, UpIndex
  <2>5. Moves(a, Up(i1, L), Up(i2, j2)) \in After(a)
    BY <1>1, <1>2, <2>3, <2>4, MovesKeep
  <2>6. Len(Down(i3, j3)) \in Nat
    BY <2>1, DownBy
  <2> QED
    BY <2>2, <2>5, <2>6, DeletesKeep
<1>4. CASE ~(n < d)
  <2> DEFINE i1 == L - 1
             j1 == s + d - 1
             i2 == L - d + n - 1
             j2 == s + n - 1
  <2>1. /\ j1 \in Int /\ j1 >= -1 /\ i1 = j1 + m /\ i1 <= MaxLen
        /\ j2 \in Int /\ j2 >= -1 /\ i2 = j2 + m /\ i2 <= MaxLen
    <3> HIDE DEF L
    <3> QED
      BY <1>1, <1>2, <1>4 DEF L
  <2>2. CloseGap(a, s, d, n) = Moves(a, Down(i1, j1), Down(i2, j2))
    BY <1>4 DEF CloseGap
  <2> HIDE DEF L, m, i1, i2, j1, j2
  <2>3. Len(Down(i1, j1)) = m /\ \A k \in 1 .. m : Down(i1, j1)[k] \in Index
    BY <1>2, <2>1, DownIndex
  <2>4. Len(Down(i2, j2)) = m /\ \A k \in 1 .. m : Down(i2, j2)[k] \in Index
    BY <1>2, <2>1, DownIndex
  <2> QED
    BY <1>1, <1>2, <2>2, <2>3, <2>4, MovesKeep
<1> QED
  BY <1>3, <1>4

\* args is what the program may give: a start, or a start, a count and items.
LEMMA SpliceKeeps ==
    ASSUME NEW a, Written(a), NEW start \in Int, NEW del \in Int, NEW items \in Seq(Element),
           NEW args, (args = <<start>> /\ items = <<>>) \/ args = <<start, del>> \o items,
           a.len + Len(items) <= MaxLen
    PROVE  _ejs_Array_prototype_splice(a, args).arr \in After(a)
<1> DEFINE s == ActualStart(a, args)
           d == ActualDeleteCount(a, args)
           rest == SubSeq(args, 3, Len(args))
           n == Len(items)
<1>1. a.len \in Nat /\ MaxLen \in Nat /\ a \in After(a) /\ n \in Nat
  BY GrowthAssumption, AfterItself DEF Written, Arrays
<1>2. rest = items
  <2>1. CASE args = <<start>> /\ items = <<>>
    BY <2>1
  <2>2. CASE args = <<start, del>> \o items
    <3>1. Len(args) = 2 + n /\ \A i \in 1 .. n : args[i + 2] = items[i]
      BY <1>1, <2>2
    <3>2. rest = [i \in 1 .. n |-> args[i + 2]]
      <4>1. SubSeq(args, 3, Len(args)) = [i \in 1 .. (1 + Len(args) - 3) |-> args[i + 3 - 1]]
        BY <1>1, <2>2, <3>1
      <4>2. 1 + Len(args) - 3 = n /\ \A i \in 1 .. n : i + 3 - 1 = i + 2
        BY <1>1, <3>1
      <4> QED
        BY <4>1, <4>2
    <3> QED
      BY <1>1, <3>1, <3>2
  <2> QED
    BY <2>1, <2>2
<1>3. s \in 0 .. a.len
  <2>1. args # <<>> /\ args[1] = start
    BY <1>1
  <2> QED
    BY <1>1, <2>1, ClampIs DEF ActualStart
<1>4. d \in 0 .. a.len - s
  <2> HIDE DEF s
  <2>1. CASE args = <<start>>
    <3>1. Len(args) = 1
      BY <2>1
    <3>2. d = a.len - s
      BY <3>1 DEF ActualDeleteCount, s
    <3> QED
      BY <1>1, <1>3, <3>2
  <2>2. CASE args = <<start, del>> \o items
    <3>1. Len(args) >= 2 /\ Len(args) \in Nat /\ args[2] = del
      BY <1>1, <2>2
    <3>2. d = Min({Max({del, 0}), a.len - s})
      BY <3>1 DEF ActualDeleteCount, s
    <3>3. Max({del, 0}) = IF del >= 0 THEN del ELSE 0
      BY MaxOf
    <3>4. Max({del, 0}) \in Nat /\ a.len - s \in Nat
      BY <1>1, <1>3, <3>3
    <3> DEFINE x == Max({del, 0})
               y == a.len - s
    <3> HIDE DEF x, y
    <3>7. x \in Int /\ y \in Int
      BY <3>4 DEF x, y
    <3>5. Min({x, y}) = IF x <= y THEN x ELSE y
      BY <3>7, MinOf
    <3>6. d \in 0 .. y
      BY <3>2, <3>4, <3>5 DEF x, y
    <3> QED
      BY <3>6 DEF y
  <2> QED
    BY <2>1, <2>2
<1>5. _ejs_Array_prototype_splice(a, args).arr = SetLength(PutAll(CloseGap(a, s, d, n), s, items), a.len - d + n)
  BY <1>2 DEF _ejs_Array_prototype_splice, Returns
<1> HIDE DEF s, d
<1>6. s \in Nat /\ d \in Nat /\ s + d <= a.len /\ a.len - d + n \in Index /\ s + n <= MaxLen + 1
  <2>1. a.len + n <= MaxLen
    OBVIOUS
  <2> HIDE DEF n
  <2>2. s \in Nat /\ d \in Nat /\ s + d <= a.len
    BY <1>1, <1>3, <1>4
  <2> DEFINE L == a.len
  <2>3. L \in Nat /\ MaxLen \in Nat /\ n \in Nat /\ L + n <= MaxLen /\ s + d <= L
    BY <1>1, <2>1, <2>2
  <2> HIDE DEF L
  <2>4. L - d + n \in 0 .. MaxLen /\ s + n <= MaxLen + 1
    BY <2>2, <2>3
  <2> QED
    BY <2>2, <2>4 DEF Index, L
<1>7. CloseGap(a, s, d, n) \in After(a)
  BY <1>1, <1>6, CloseGapKeeps
<1>8. PutAll(CloseGap(a, s, d, n), s, items) \in After(a)
  BY <1>6, <1>7, PutAllKeeps
<1> QED
  BY <1>5, <1>6, <1>8, SetLengthAfter

\* The indices copyWithin reads, and those it writes, which are not all below the length.
LEMMA CopyPlanIs ==
    ASSUME NEW len \in Index, NEW target \in Int, NEW start \in Int,
           CopyPlan(len, target, start, undefined).count >= 0
    PROVE  LET p == CopyPlan(len, target, start, undefined)
           IN  /\ p.count \in Nat /\ Len(p.from) = p.count /\ DOMAIN p.to = 1 .. p.count
               /\ \A i \in 1 .. p.count : p.from[i] \in Index /\ p.to[i] \in Nat
<1> DEFINE p == CopyPlan(len, target, start, undefined)
           to == Clamp(len, target)
           from == Clamp(len, start)
           final == ClampEnd(len, undefined)
           count == Min({final - from, len - to})
           back == from < to /\ to < from + count
           dir == IF back THEN -1 ELSE 1
           first == IF back THEN to + count - 1 ELSE to
           at == CHOOSE g : g = [i \in 0 .. count |-> IF i = 0 THEN first ELSE g[i - 1] + g[i - 1] + dir]
           S == {x \in Int : IF back THEN x >= 1 ELSE x >= 0}
           low == IF back THEN from + count - 1 ELSE from
<1>1. len \in Nat /\ MaxLen \in Nat /\ len <= MaxLen
  BY GrowthAssumption DEF Index
<1>2. to \in 0 .. len /\ from \in 0 .. len /\ final = len
  BY <1>1, ClampIs DEF ClampEnd
<1>3. p = [count |-> count, from |-> [i \in 1 .. count |-> low + dir * (i - 1)],
           to |-> [i \in 1 .. count |-> at[i - 1]]]
  BY DEF CopyPlan
<1> HIDE DEF p, to, from, final
<1>4. to \in Nat /\ from \in Nat /\ to <= len /\ from <= len /\ final - from \in Int /\ len - to \in Int
  BY <1>1, <1>2
<1>5. count = IF final - from <= len - to THEN final - from ELSE len - to
  <2> DEFINE x == final - from
             y == len - to
  <2>1. x \in Int /\ y \in Int
    BY <1>4
  <2> HIDE DEF x, y
  <2>2. Min({x, y}) = IF x <= y THEN x ELSE y
    BY <2>1, MinOf
  <2> QED
    BY <2>2 DEF x, y
<1> HIDE DEF count
<1>6. count \in Nat /\ from + count <= len /\ to + count <= len
  <2>1. count >= 0
    BY <1>3 DEF p
  <2> QED
    BY <1>1, <1>2, <1>4, <1>5, <2>1
<1>7. first \in S /\ \A b \in S : b + b + dir \in S
  BY <1>4, <1>6
<1> DEFINE f == at
<1>8. \A n \in 0 .. count : at[n] \in S
  <2> HIDE DEF S, first, dir, at
  <2> QED
    <3>1. at = Doubles(first, dir, count)
      BY DEF at, Doubles
    <3> QED
      BY <1>6, <1>7, <3>1, DoublesRun
<1> HIDE DEF at
<1>9. ASSUME NEW i \in 1 .. count
      PROVE  low + dir * (i - 1) \in Index /\ at[i - 1] \in Nat
  <2>1. at[i - 1] \in Nat
    BY <1>6, <1>8
  <2>2. CASE back
    <3>1. low + dir * (i - 1) = from + count - i
      BY <1>4, <1>6, <2>2
    <3>2. from + count - i \in 0 .. MaxLen
      BY <1>1, <1>4, <1>6
    <3> QED
      BY <2>1, <3>1, <3>2 DEF Index
  <2>3. CASE ~back
    <3>1. low + dir * (i - 1) = from + i - 1
      BY <1>4, <1>6, <2>3
    <3>2. from + i - 1 \in 0 .. MaxLen
      BY <1>1, <1>4, <1>6
    <3> QED
      BY <2>1, <3>1, <3>2 DEF Index
  <2> QED
    BY <2>2, <2>3
<1> HIDE DEF low, dir, S, first, back
<1>10. p.count = count /\ DOMAIN p.to = 1 .. count /\ \A i \in 1 .. count : p.to[i] = at[i - 1]
  BY <1>3
<1>11. Len(p.from) = count /\ \A i \in 1 .. count : p.from[i] = low + dir * (i - 1)
  <2> DEFINE fr == [i \in 1 .. count |-> low + dir * (i - 1)]
  <2>1. p.from = fr
    BY <1>3
  <2>2. fr \in Seq(Index) /\ Len(fr) = count
    BY <1>6, <1>9
  <2> QED
    BY <2>1, <2>2
<1> QED
  BY <1>6, <1>9, <1>10, <1>11 DEF p

LEMMA CopyWithinKeeps ==
    ASSUME NEW a, Written(a), a.len <= MaxLen, NEW target \in Int, NEW start \in Int,
           LET p == CopyPlan(a.len, target, start, undefined)
           IN  p.count >= 0 /\ \A i \in DOMAIN p.to : p.to[i] < MaxLen
    PROVE  _ejs_Array_prototype_copyWithin(a, target, start, undefined) \in After(a)
<1> DEFINE p == CopyPlan(a.len, target, start, undefined)
<1>1. a.len \in Index /\ MaxLen \in Nat /\ a \in After(a)
  BY GrowthAssumption, AfterItself DEF Written, Arrays, Index
<1>2. /\ p.count \in Nat /\ Len(p.from) = p.count /\ DOMAIN p.to = 1 .. p.count
      /\ \A i \in 1 .. p.count : p.from[i] \in Index /\ p.to[i] \in Nat
  BY <1>1, CopyPlanIs
<1>3. \A i \in 1 .. p.count : p.to[i] < MaxLen
  BY <1>2
<1>4. _ejs_Array_prototype_copyWithin(a, target, start, undefined) = Moves(a, p.from, p.to)
  BY DEF _ejs_Array_prototype_copyWithin
<1> HIDE DEF p
<1>5. \A i \in 1 .. Len(p.from) : p.from[i] \in Index /\ p.to[i] \in Index
  BY <1>1, <1>2, <1>3 DEF Index
<1> QED
  BY <1>1, <1>2, <1>4, <1>5, MovesKeep

-----------------------------------------------------------------------------
(* The arrays a program makes.                                              *)

Slotted == [kind : {"dense", "sparse", "plain"}, len : Nat, alloc : Nat, el : [Slots -> Element \union {Garbage}]]

LEMMA OkWritten ==
    ASSUME NEW a, Written(a), a.len <= MaxLen
    PROVE  OkArray(a)
<1>1. a \in Arrays /\ a.len \in 0 .. MaxLen
  BY GrowthAssumption DEF Written, Arrays
<1> QED
  BY <1>1 DEF OkArray, Arrays

LEMMA NewIs ==
    ASSUME NEW n \in Index, NEW fill \in BOOLEAN
    PROVE  LET a == _ejs_array_new(n, fill)
           IN  /\ a \in Slotted /\ a.len = n /\ a.alloc = n + Slack /\ n + Slack <= Top + 1
               /\ a.kind = IF n > SPARSE_ARRAY_CUTOFF THEN "sparse" ELSE "dense"
               /\ fill /\ n <= SPARSE_ARRAY_CUTOFF => \A i \in 0 .. n - 1 : a.el[i] = Hole
<1> DEFINE a == _ejs_array_new(n, fill)
           el == [i \in Slots |-> IF fill /\ i < n /\ n <= SPARSE_ARRAY_CUTOFF THEN Hole ELSE Garbage]
<1>1. n \in Nat /\ n <= MaxLen /\ Slack \in Nat /\ Top = MaxLen + GrowBy + Slack /\ GrowBy \in Nat /\ MaxLen \in Nat
  BY GrowthAssumption DEF Index, Top
<1>2. el \in [Slots -> Element \union {Garbage}]
  BY ElementFacts
<1>3. fill /\ n <= SPARSE_ARRAY_CUTOFF => \A i \in 0 .. n - 1 : el[i] = Hole
  <2>1. \A i \in 0 .. n - 1 : i \in Slots /\ i < n
    BY <1>1, ElementFacts
  <2> QED
    BY <2>1
<1>4. a = [kind |-> IF n > SPARSE_ARRAY_CUTOFF THEN "sparse" ELSE "dense", len |-> n, alloc |-> n + Slack, el |-> el]
  BY DEF _ejs_array_new
<1> HIDE DEF a, el
<1>5. n + Slack \in Nat /\ n + Slack <= Top + 1
  BY <1>1
<1>6. a \in Slotted
  BY <1>1, <1>2, <1>4, <1>5 DEF Slotted
<1> QED
  BY <1>3, <1>4, <1>5, <1>6 DEF a

\* The empty array, and what is pushed to it.
LEMMA EmptyIs ==
    LET a == _ejs_array_new(0, FALSE)
    IN  Written(a) /\ a.kind = "dense" /\ a.len = 0
<1> DEFINE a == _ejs_array_new(0, FALSE)
<1>1. 0 \in Index /\ FALSE \in BOOLEAN /\ ~(0 > SPARSE_ARRAY_CUTOFF) /\ Slack \in Nat
  BY GrowthAssumption DEF Index
<1>2. a \in Slotted /\ a.len = 0 /\ a.alloc = 0 + Slack /\ 0 + Slack <= Top + 1 /\ a.kind = "dense"
  BY <1>1, NewIs
<1> HIDE DEF a
<1>3. a \in Arrays
  BY <1>2 DEF Slotted, Arrays
<1>4. 0 .. 0 - 1 = {} /\ 0 <= a.alloc /\ a.alloc <= Top + 1
  BY <1>1, <1>2
<1>5. Written(a)
  BY <1>2, <1>3, <1>4 DEF Written
<1> QED
  BY <1>2, <1>5 DEF a

LEMMA PushedIs ==
    ASSUME NEW items \in Seq(Element), Len(items) <= MaxLen
    PROVE  OkArray(_ejs_array_push_dense(_ejs_array_new(0, FALSE), items).arr)
<1> DEFINE a == _ejs_array_new(0, FALSE)
           b == _ejs_array_push_dense(a, items).arr
<1>5. Written(a) /\ a.kind = "dense" /\ a.len = 0
  BY EmptyIs
<1> HIDE DEF a
<1>6. Len(items) \in Nat
  OBVIOUS
<1>1. Written(a) /\ a.kind = "dense" /\ a.len = 0 /\ Len(items) \in Nat /\ a.len + Len(items) <= MaxLen
  BY <1>5, <1>6
<1>2. b \in After(a) /\ b.len = a.len + Len(items)
  BY <1>1, PushDenseKeeps
<1> HIDE DEF b
<1>3. Written(b) /\ b.len <= MaxLen
  BY <1>1, <1>2, AfterFacts
<1>4. OkArray(b)
  BY <1>3, OkWritten
<1> QED
  BY <1>4 DEF b, a

LEMMA PlainIs ==
    ASSUME NEW items \in Seq(Element), Len(items) <= MaxLen
    PROVE  OkArray(Plain(items))
<1> DEFINE el == [i \in Slots |-> IF i < Len(items) THEN items[i + 1] ELSE Hole]
           a == Plain(items)
<1>1. ASSUME NEW i \in Slots PROVE el[i] \in Element
  <2>1. i \in Nat /\ Len(items) \in Nat /\ (i < Len(items) => i + 1 \in 1 .. Len(items))
    BY ElementFacts
  <2> QED
    BY <2>1, ElementFacts
<1>2. el \in [Slots -> Element]
  BY <1>1
<1>3. a = [kind |-> "plain", len |-> Len(items), alloc |-> 0, el |-> el]
  BY DEF Plain
<1> HIDE DEF a, el
<1>4. a \in Arrays /\ a.kind = "plain" /\ a.el = el /\ a.len <= MaxLen
  BY <1>2, <1>3 DEF Arrays
<1>5. Written(a)
  BY <1>2, <1>4, ElementFacts DEF Written
<1> QED
  BY <1>4, <1>5, OkWritten DEF a

LEMMA ImplIs ==
    ASSUME NEW n \in Index, NEW isNew \in BOOLEAN
    PROVE  OkArray(_ejs_Array_impl(n, isNew))
<1>1. n \in Nat /\ n <= MaxLen /\ SPARSE_ARRAY_CUTOFF \in Nat /\ n \in 0 .. MaxLen
  BY GrowthAssumption DEF Index
<1>2. CASE ~isNew
  <2> DEFINE a == _ejs_array_new(n, TRUE)
  <2>1. /\ a \in Slotted /\ a.len = n /\ a.alloc = n + Slack /\ n + Slack <= Top + 1
        /\ a.kind = IF n > SPARSE_ARRAY_CUTOFF THEN "sparse" ELSE "dense"
        /\ n <= SPARSE_ARRAY_CUTOFF => \A i \in 0 .. n - 1 : a.el[i] = Hole
    BY NewIs
  <2>2. _ejs_Array_impl(n, isNew) = a
    BY <1>2 DEF _ejs_Array_impl
  <2> HIDE DEF a
  <2>3. CASE a.kind = "sparse"
    BY <1>1, <2>1, <2>2, <2>3 DEF OkArray, Slotted
  <2>4. CASE a.kind # "sparse"
    <3>1. n <= SPARSE_ARRAY_CUTOFF /\ a.kind = "dense"
      BY <1>1, <2>1, <2>4
    <3>2. a \in Arrays /\ a.len <= a.alloc
      BY <1>1, <2>1, <3>1, GrowthAssumption DEF Slotted, Arrays
    <3>3. Written(a)
      BY <2>1, <3>1, <3>2, ElementFacts DEF Written
    <3> QED
      BY <1>1, <2>1, <2>2, <3>3, OkWritten
  <2> QED
    BY <2>3, <2>4
<1>3. CASE isNew
  <2> DEFINE a == _ejs_array_new(n, FALSE)
             el == [i \in Slots |-> IF i < n /\ n <= SPARSE_ARRAY_CUTOFF THEN 0 ELSE Garbage]
             b == _ejs_Array_impl(n, isNew)
  <2>1. /\ a \in Slotted /\ a.len = n
        /\ a.kind = IF n > SPARSE_ARRAY_CUTOFF THEN "sparse" ELSE "dense"
    BY NewIs
  <2>2. b = [a EXCEPT !.alloc = n, !.el = el]
    BY <1>3 DEF _ejs_Array_impl
  <2>3. el \in [Slots -> Element \union {Garbage}]
    BY ElementFacts
  <2>4. n <= SPARSE_ARRAY_CUTOFF => \A i \in Slots : i < n => el[i] = 0
    OBVIOUS
  <2> HIDE DEF a, b, el
  <2>5. b \in Slotted /\ b.len = n /\ b.alloc = n /\ b.kind = a.kind /\ b.el = el
    BY <1>1, <2>1, <2>2, <2>3 DEF Slotted
  <2>6. CASE b.kind = "sparse"
    BY <1>1, <2>5, <2>6 DEF OkArray, Slotted, b
  <2>7. CASE b.kind # "sparse"
    <3>1. n <= SPARSE_ARRAY_CUTOFF /\ b.kind = "dense"
      BY <1>1, <2>1, <2>5, <2>7
    <3>2. b \in Arrays
      BY <2>5, <3>1 DEF Slotted, Arrays
    <3>6. MaxLen \in Nat /\ Top \in Nat /\ MaxLen <= Top /\ Slots = 0 .. Top
      BY ElementFacts, GrowthAssumption
    <3>3. \A i \in 0 .. n - 1 : i \in Slots /\ i < n
      BY <1>1, <3>6
    <3>4. n <= Top + 1 /\ n <= n
      BY <1>1, <3>6
    <3>5. Written(b)
      BY <2>4, <2>5, <3>1, <3>2, <3>3, <3>4, ElementFacts DEF Written
    <3> QED
      BY <1>1, <2>5, <3>5, OkWritten DEF b
  <2> QED
    BY <2>6, <2>7
<1> QED
  BY <1>2, <1>3

\* Array.of writes every element of an array whose memory nobody has written.
LEMMA OfIs ==
    ASSUME NEW items \in Seq(Element), Len(items) <= MaxLen
    PROVE  OkArray(_ejs_Array_of(items))
<1> DEFINE N == Len(items)
           a == _ejs_array_new(N, FALSE)
           ks == Up(0, 0 + N)
           Filled(b, n) == /\ b \in Slotted /\ b.kind = a.kind /\ b.len = N /\ b.alloc = N + Slack
                           /\ \A j \in 0 .. n - 1 : b.el[j] \in Element
           S == {b \in Slotted : Filled(b, 0)}
<1>1. N \in Index /\ N \in Nat /\ MaxLen \in Nat /\ Slack \in Nat /\ N <= MaxLen /\ \A n \in 1 .. N : items[n] \in Element
  BY GrowthAssumption DEF Index
<1>2. Len(ks) = N /\ \A n \in 1 .. N : ks[n] = 0 + n - 1
  <2> DEFINE o == 0
             j == 0 + N
             m == N
  <2>1. o \in Int /\ m \in Nat /\ j = o + m
    BY <1>1
  <2> HIDE DEF o, j, m
  <2>2. Len(Up(o, j)) = m /\ \A n \in 1 .. m : Up(o, j)[n] = o + n - 1
    BY <2>1, UpBy
  <2> QED
    BY <2>2 DEF o, j, m
<1>3. /\ a \in Slotted /\ a.len = N /\ a.alloc = N + Slack /\ N + Slack <= Top + 1
      /\ a.kind = IF N > SPARSE_ARRAY_CUTOFF THEN "sparse" ELSE "dense"
  BY <1>1, NewIs
<1> HIDE DEF a, ks, N
<1>4. a \in S
  BY <1>1, <1>3
<1>5. ASSUME NEW n \in 1 .. N, NEW b \in Slotted, Filled(b, 0)
      PROVE  LET c == Put(b, ks[n], items[n])
             IN  /\ Filled(c, 0)
                 /\ Filled(b, n - 1) => Filled(c, n)
  <2> DEFINE i == ks[n]
             c == Put(b, i, items[n])
             el == [j \in Slots |-> IF j = i THEN items[n] ELSE IF b.len <= j /\ j < i THEN Hole ELSE b.el[j]]
             top == Max({b.len, i + 1})
  <2>1. i = n - 1 /\ i \in Nat /\ i < N /\ i < b.alloc /\ i \in Slots
    BY <1>1, <1>2, <1>5, ElementFacts
  <2>2. b.kind # "plain"
    BY <1>3, <1>5
  <2>3. maybe_realloc_dense(b, i) = b
    BY <2>1 DEF maybe_realloc_dense
  <2>4. top = N
    <3>1. b.len \in Int /\ i + 1 \in Int
      BY <1>1, <1>5, <2>1
    <3> HIDE DEF i
    <3>2. top = IF b.len >= i + 1 THEN b.len ELSE i + 1
      BY <3>1, MaxOf
    <3> QED
      BY <1>1, <1>5, <2>1, <3>2
  <2>5. c = [b EXCEPT !.el = el, !.len = top]
    BY <2>2, <2>3 DEF Put, _ejs_array_specop_set
  <2>6. items[n] \in Element
    BY <1>1
  <2>7. el \in [Slots -> Element \union {Garbage}]
    BY <1>5, <2>6, ElementFacts DEF Slotted
  <2>8. \A j \in Slots : j < N => el[j] = IF j = i THEN items[n] ELSE b.el[j]
    <3> HIDE DEF i
    <3> QED
      BY <1>1, <1>5, ElementFacts
  <2> HIDE DEF c, el, top, i
  <2>9. /\ c \in Slotted /\ c.kind = a.kind /\ c.len = N /\ c.alloc = N + Slack /\ c.el = el
    BY <1>1, <1>5, <2>4, <2>5, <2>7 DEF Slotted
  <2>10. 0 .. 0 - 1 = {}
    OBVIOUS
  <2>11. ASSUME Filled(b, n - 1), NEW j \in 0 .. n - 1 PROVE c.el[j] \in Element
    <3>1. j \in Slots /\ j < N /\ (j = i \/ j \in 0 .. n - 1 - 1)
      BY <1>1, <2>1, <2>11, ElementFacts
    <3> QED
      BY <2>6, <2>8, <2>9, <2>11, <3>1
  <2> QED
    BY <2>9, <2>10, <2>11 DEF c, i
<1>6. PICK f : /\ f[0] = a
               /\ \A n \in 1 .. Len(ks) : f[n] = Put(f[n - 1], ks[n], items[n])
               /\ \A n \in 0 .. Len(ks) : f[n] \in S
               /\ Puts(a, ks, items) = f[Len(ks)]
  <2>1. ASSUME NEW n \in 1 .. N, NEW b \in S PROVE Put(b, ks[n], items[n]) \in S
    <3>1. Filled(Put(b, ks[n], items[n]), 0)
      BY <1>5
    <3> QED
      BY <3>1
  <2>2. Len(ks) = N /\ Len(ks) \in Nat
    BY <1>1, <1>2
  <2> HIDE DEF S, Filled
  <2>3. \A n \in 1 .. Len(ks) : \A b \in S : Put(b, ks[n], items[n]) \in S
    BY <2>1, <2>2
  <2> QED
    BY ONLY <1>4, <2>2, <2>3, PutsRun
<1> DEFINE P == {n \in 0 .. N : Filled(f[n], n)}
<1>7. 0 \in P
  BY <1>1, <1>4, <1>6
<1>8. ASSUME NEW n \in 0 .. N - 1, n \in P PROVE n + 1 \in P
  <2>1. n + 1 \in 1 .. N /\ n + 1 - 1 = n /\ n + 1 \in 0 .. N /\ n \in 0 .. N
    BY <1>1
  <2> HIDE DEF Filled
  <2>2. f[n] \in Slotted /\ Filled(f[n], 0) /\ Filled(f[n], n) /\ f[n + 1] = Put(f[n], ks[n + 1], items[n + 1])
    <3>1. f[n] \in S /\ f[n + 1] = Put(f[n], ks[n + 1], items[n + 1])
      <4> HIDE DEF S
      <4> QED
        BY <1>2, <1>6, <2>1
    <3> QED
      BY <1>8, <3>1
  <2>3. Filled(Put(f[n], ks[n + 1], items[n + 1]), n + 1)
    BY <1>5, <2>1, <2>2
  <2> QED
    BY <2>1, <2>2, <2>3
<1>9. N \in P
  <2> HIDE DEF P
  <2>1. \A n \in 0 .. N : n \in P
    BY <1>1, <1>7, <1>8, BoundedInduction
  <2> QED
    BY <1>1, <2>1
<1> DEFINE b == PutAll(a, 0, items)
<1>10. Filled(b, N)
  BY <1>2, <1>6, <1>9 DEF PutAll, ks, N
<1> HIDE DEF b
<1>11. SetLength(b, N) = b
  <2> DEFINE el == [j \in Slots |-> IF b.len <= j /\ j < N THEN Hole ELSE b.el[j]]
  <2>1. ~(N > b.alloc) /\ b.kind # "plain"
    BY <1>1, <1>3, <1>10
  <2>2. SetLength(b, N) = [b EXCEPT !.el = el, !.len = N]
    BY <2>1 DEF SetLength
  <2>3. el = b.el
    <3>1. \A j \in Slots : el[j] = b.el[j]
      BY <1>1, <1>10, ElementFacts
    <3>2. b.el = [j \in Slots |-> b.el[j]]
      BY <1>10 DEF Slotted
    <3> QED
      BY <3>1, <3>2
  <2> HIDE DEF el
  <2> QED
    BY <1>10, <2>2, <2>3 DEF Slotted
<1>12. _ejs_Array_of(items) = b
  BY <1>11 DEF _ejs_Array_of, a, b, N
<1>13. CASE b.kind = "sparse"
  BY <1>1, <1>10, <1>12, <1>13 DEF OkArray, Slotted
<1>14. CASE b.kind # "sparse"
  <2>1. b.kind = "dense" /\ b \in Arrays
    BY <1>3, <1>10, <1>14 DEF Slotted, Arrays
  <2>2. b.len <= b.alloc /\ b.alloc <= Top + 1 /\ b.len <= MaxLen
    BY <1>1, <1>3, <1>10
  <2>3. \A j \in 0 .. b.len - 1 : b.el[j] # Garbage
    BY <1>10, ElementFacts
  <2>4. Written(b)
    BY <2>1, <2>2, <2>3 DEF Written
  <2> QED
    BY <1>12, <2>2, <2>4, OkWritten
<1> QED
  BY <1>13, <1>14

\* Spreading an array copies its elements, holes too.
LEMMA SpreadIs ==
    ASSUME NEW a, OkArray(a), a.kind = "dense"
    PROVE  OkArray(_ejs_array_from_iterables(a))
<1> DEFINE N == a.len
           items == [i \in 1 .. N |-> a.el[i - 1]]
<1>1. Written(a) /\ N \in 0 .. MaxLen /\ a.el \in [Slots -> Element \union {Garbage}]
  BY DEF OkArray
<1>2. N \in Nat /\ N <= MaxLen /\ MaxLen \in Nat
  BY <1>1, GrowthAssumption
<1>3. ASSUME NEW i \in 1 .. N PROVE a.el[i - 1] \in Element
  <2>1. i - 1 \in 0 .. N - 1 /\ i - 1 \in Slots
    BY <1>2, ElementFacts
  <2> QED
    BY <1>1, <2>1 DEF Written
<1>4. items \in Seq(Element) /\ Len(items) = N
  <2> HIDE DEF N
  <2>1. \A i \in 1 .. N : a.el[i - 1] \in Element
    BY <1>3
  <2> QED
    BY <1>2, <2>1
<1>5. _ejs_array_from_iterables(a) = _ejs_array_push_dense(_ejs_array_new(0, FALSE), items).arr
  BY DEF _ejs_array_from_iterables
<1> HIDE DEF items, N
<1>6. Len(items) <= MaxLen
  BY <1>2, <1>4
<1> QED
  BY <1>4, <1>5, <1>6, PushedIs

-----------------------------------------------------------------------------
(* The steps.                                                              *)

\* What a sort may read of a, it may read after a change.
LEMMA RangesAfter ==
    ASSUME NEW a, Written(a), a.kind = "dense", NEW b \in After(a)
    PROVE  /\ \A r \in Nat \X Nat : Readable(a, r) => Readable(b, r)
           /\ Ranges(a) \subseteq Ranges(b)
<1>1. a.alloc \in Nat /\ a.alloc <= Top + 1 /\ Slots = 0 .. Top /\ Top \in Nat /\ Keeps(a, b)
  BY ElementFacts, AfterFacts DEF Written, Arrays
<1>2. ASSUME NEW r \in Nat \X Nat, Readable(a, r), NEW j \in r[1] .. r[2]
      PROVE  j < b.alloc /\ b.el[j] # Garbage
  <2>1. r[1] \in Nat /\ r[2] \in Nat
    OBVIOUS
  <2>2. j < a.alloc /\ a.el[j] # Garbage
    BY <1>2 DEF Readable
  <2>3. j \in Slots
    BY <1>1, <2>1, <2>2
  <2> QED
    BY <1>1, <2>2, <2>3 DEF Keeps
<1>3. \A r \in Nat \X Nat : Readable(a, r) => Readable(b, r)
  BY <1>2 DEF Readable
<1> QED
  BY <1>3 DEF Ranges

LEMMA SortAfter ==
    ASSUME NEW a, Written(a), NEW c, SortInv(a, c), NEW b \in After(a)
    PROVE  SortInv(b, c)
<1>1. a.kind = "dense" /\ b.kind = "dense"
  BY AfterFacts DEF SortInv, Keeps
<1>2. Ranges(a) \subseteq Ranges(b) /\ <<c.low, c.high>> \in Nat \X Nat
  BY <1>1, RangesAfter DEF SortInv
<1>3. Readable(b, <<c.low, c.high>>)
  BY <1>1, <1>2, RangesAfter DEF SortInv
<1>4. c.todo \in Seq(Ranges(b))
  BY <1>2 DEF SortInv
<1> QED
  BY <1>1, <1>3, <1>4 DEF SortInv

\* A change of the array by the program, also while a method is in a callback.
LEMMA ChangeKeeps ==
    ASSUME ElementsInv, Dense, NEW r \in After(arr), r.len <= MaxLen, arr' = r, UNCHANGED <<call, aborted>>
    PROVE  ElementsInv'
<1>1. Written(arr) /\ Written(r) /\ OkArray(r) /\ r.kind = arr.kind /\ r.kind # "sparse"
  BY AfterFacts, OkWritten DEF ElementsInv, OkArray, Dense, Keeps
<1>2. CallInv'
  <2>1. CASE call = Nil
    BY <2>1 DEF CallInv
  <2>2. CASE IsFrame(call) /\ (call.op = "filter" /\ Dense => FilterInv(call))
    BY <1>1, <2>2 DEF CallInv, Dense
  <2>3. CASE IsSort(call) /\ SortInv(arr, call)
    <3>1. SortInv(r, call)
      BY <1>1, <2>3, SortAfter
    <3> QED
      BY <2>3, <3>1 DEF CallInv
  <2> QED
    BY <2>1, <2>2, <2>3 DEF ElementsInv, CallInv
<1> QED
  BY <1>1, <1>2 DEF ElementsInv

LEMMA ArgFacts ==
    ASSUME NEW items \in Args
    PROVE  items \in Seq(Element) /\ Len(items) <= MaxLen /\ Len(items) \in Nat
<1>1. items \in Seq(Val) /\ Len(items) <= MaxLen /\ Val \subseteq Element
  BY ArgumentAssumption, ElementFacts
<1> QED
  BY <1>1

LEMMA MutateKeeps ==
    ASSUME ElementsInv, Mutate
    PROVE  ElementsInv'
<1> SUFFICES ASSUME Dense PROVE ElementsInv'
  BY DEF Mutate, Set, Delete, Length, Push, Unshift, Pop, Shift, ReverseArray, Splice, Fill, CopyWithin
<1>1. Written(arr) /\ arr.len \in Nat /\ arr.len <= MaxLen /\ MaxLen \in Nat
  BY GrowthAssumption DEF ElementsInv, OkArray, Dense
<1>2. arr \in After(arr)
  BY <1>1, AfterItself
<1>3. ASSUME NEW r \in After(arr), Change(r) PROVE ElementsInv'
  BY <1>3, ChangeKeeps DEF Change
<1>4. ASSUME NEW i \in 0 .. MaxLen - 1, NEW v \in Val \union {undefined}, Set(i, v) PROVE ElementsInv'
  <2>1. i \in Index /\ v \in Element
    BY <1>1, ElementFacts DEF Index
  <2>2. Written(Put(arr, i, v)) /\ Keeps(arr, Put(arr, i, v))
    BY <1>1, <2>1, IndexFacts, PutKeeps
  <2>3. Put(arr, i, v) \in After(arr)
    BY <1>2, <2>2, AfterMore
  <2> QED
    BY <1>3, <1>4, <2>3 DEF Set
<1>5. ASSUME NEW i \in 0 .. MaxLen - 1, Delete(i) PROVE ElementsInv'
  <2>1. DeletePropertyOrThrow(arr, i) \in After(arr)
    BY <1>1, <1>2, DeleteKeeps, AfterMore
  <2> QED
    BY <1>3, <1>5, <2>1 DEF Delete
<1>6. ASSUME NEW n \in 0 .. MaxLen, Length(n) PROVE ElementsInv'
  <2>1. SetLength(arr, n) \in After(arr)
    BY <1>2, SetLengthAfter DEF Index
  <2> QED
    BY <1>3, <1>6, <2>1 DEF Length
<1>7. ASSUME NEW items \in Args, Push(items) PROVE ElementsInv'
  BY <1>1, <1>3, <1>7, ArgFacts, PushKeeps DEF Push
<1>8. ASSUME NEW items \in Args, Unshift(items) PROVE ElementsInv'
  BY <1>1, <1>3, <1>8, ArgFacts, UnshiftKeeps DEF Unshift
<1>9. CASE Pop
  BY <1>1, <1>3, <1>9, PopKeeps DEF Pop
<1>10. CASE Shift
  BY <1>1, <1>3, <1>10, ShiftKeeps DEF Shift
<1>11. CASE ReverseArray
  BY <1>1, <1>3, <1>11, ReverseKeeps DEF ReverseArray
<1>12. ASSUME NEW start \in Relative, NEW del \in Relative, NEW items \in Args, Splice(<<start, del>> \o items)
       PROVE  ElementsInv'
  <2> DEFINE args == <<start, del>> \o items
  <2>1. start \in Int /\ del \in Int /\ items \in Seq(Element) /\ Len(items) \in Nat
    BY ArgumentAssumption, ArgFacts
  <2>2. Len(args) = 2 + Len(items)
    BY <2>1
  <2>3. arr.len + Len(args) <= MaxLen + 2 /\ Change(_ejs_Array_prototype_splice(arr, args).arr)
    BY <1>12 DEF Splice
  <2> HIDE DEF args
  <2>4. arr.len + Len(items) <= MaxLen
    BY <1>1, <2>1, <2>2, <2>3
  <2>5. _ejs_Array_prototype_splice(arr, args).arr \in After(arr)
    BY <1>1, <2>1, <2>4, SpliceKeeps DEF args
  <2> QED
    BY <1>3, <2>3, <2>5
<1>13. ASSUME NEW start \in Relative, Splice(<<start>>) PROVE ElementsInv'
  <2> DEFINE none == <<>>
             args == <<start>>
  <2>1. start \in Int /\ none \in Seq(Element) /\ arr.len + Len(none) <= MaxLen /\ 0 \in Int
    BY <1>1, ArgumentAssumption
  <2>2. none = <<>> /\ args = <<start>>
    OBVIOUS
  <2>3. Change(_ejs_Array_prototype_splice(arr, args).arr)
    BY <1>13 DEF Splice
  <2> HIDE DEF args, none
  <2>4. _ejs_Array_prototype_splice(arr, args).arr \in After(arr)
    BY <1>1, <2>1, <2>2, SpliceKeeps
  <2> QED
    BY <1>3, <2>3, <2>4
<1>14. ASSUME NEW start \in Relative, NEW v \in Val, NEW end \in Relative \union {undefined}, Fill(v, start, end)
       PROVE  ElementsInv'
  <2>1. start \in Int /\ end \in Int \union {undefined} /\ v \in Element
    BY ArgumentAssumption, ElementFacts
  <2>2. _ejs_Array_prototype_fill(arr, v, start, end).arr \in After(arr)
    BY <1>1, <2>1, FillKeeps
  <2> QED
    BY <1>3, <1>14, <2>2 DEF Fill
<1>15. ASSUME NEW target \in Relative, NEW start \in Relative, CopyWithin(target, start) PROVE ElementsInv'
  <2>1. start \in Int /\ target \in Int
    BY ArgumentAssumption
  <2>2. LET p == CopyPlan(arr.len, target, start, undefined)
        IN  p.count >= 0 /\ \A i \in DOMAIN p.to : p.to[i] < MaxLen
    BY <1>15 DEF CopyWithin
  <2>3. _ejs_Array_prototype_copyWithin(arr, target, start, undefined) \in After(arr)
    BY <1>1, <2>1, <2>2, CopyWithinKeeps
  <2>4. Change(_ejs_Array_prototype_copyWithin(arr, target, start, undefined))
    BY <1>15 DEF CopyWithin
  <2> QED
    BY <1>3, <2>3, <2>4
<1> QED
  BY <1>4, <1>5, <1>6, <1>7, <1>8, <1>9, <1>10, <1>11, <1>12, <1>13, <1>14, <1>15 DEF Mutate

LEMMA NewArrayKeeps ==
    ASSUME ElementsInv, NewArray
    PROVE  ElementsInv'
<1>1. ASSUME NEW a, OkArray(a), Fresh(a) PROVE ElementsInv'
  BY <1>1 DEF Fresh, Idle, ElementsInv, CallInv
<1>2. ASSUME NEW n \in 0 .. MaxLen, NEW isNew \in BOOLEAN, Fresh(_ejs_Array_impl(n, isNew)) PROVE ElementsInv'
  BY <1>1, <1>2, ImplIs DEF Index
<1>3. ASSUME NEW items \in Args, Fresh(_ejs_array_new_copy(items)) PROVE ElementsInv'
  BY <1>1, <1>3, ArgFacts, PushedIs DEF _ejs_array_new_copy
<1>4. ASSUME NEW items \in Args, Fresh(_ejs_Array_of(items)) PROVE ElementsInv'
  BY <1>1, <1>4, ArgFacts, OfIs
<1>5. ASSUME NEW items \in Args, Fresh(Plain(items)) PROVE ElementsInv'
  BY <1>1, <1>5, ArgFacts, PlainIs
<1>6. CASE arr.kind = "dense" /\ Fresh(_ejs_array_from_iterables(arr))
  BY <1>1, <1>6, SpreadIs DEF ElementsInv
<1> QED
  BY <1>2, <1>3, <1>4, <1>5, <1>6 DEF NewArray

\* What filter has kept before index k of an array of length len.
Kept(c, k) ==
    /\ c.len \in 0 .. MaxLen /\ c.to \in 0 .. k
    /\ Written(c.A) /\ c.A.kind = "dense" /\ c.A.len = c.to
    /\ \A i \in 0 .. c.to - 1 : c.A.el[i] # Hole

\* The callback is called for the next index that is there.
LEMMA ResumeKeeps ==
    ASSUME OkArray(arr), aborted \in BOOLEAN, UNCHANGED <<arr, aborted>>,
           NEW c, IsFrame(c), NEW k, Resume(c, arr, k),
           c.op = "filter" /\ Dense => k \in Nat /\ Kept(c, k)
    PROVE  ElementsInv'
<1> DEFINE next == NextIndex(c, arr, k)
<1>1. call' = IF next = Nil THEN Nil
              ELSE [c EXCEPT !.k = next, !.acc = IF c.op = "filter" THEN Get(arr, next) ELSE @]
  BY DEF Resume
<1>2. CASE next = Nil
  BY <1>1, <1>2 DEF ElementsInv, CallInv
<1>3. CASE next # Nil
  <2>1. ASSUME c.op = "filter", Dense PROVE FilterInv(call')
    <3> DEFINE ahead == {i \in k .. c.len - 1 : HasProperty(arr, i)}
    <3>1. k \in Nat /\ c.len \in Nat /\ c.len <= MaxLen /\ c.to \in 0 .. k /\ MaxLen \in Nat
      BY <2>1, GrowthAssumption DEF Kept
    <3>2. next = IF ahead = {} THEN Nil ELSE Min(ahead)
      BY <2>1 DEF NextIndex, Limit, Present
    <3>3. ahead \in SUBSET Nat
      BY <3>1
    <3> HIDE DEF next
    <3>4. next \in ahead
      <4> HIDE DEF ahead
      <4> QED
        BY <1>3, <3>2, <3>3, MinIn
    <3>5. next \in Nat /\ k <= next /\ next < c.len /\ HasProperty(arr, next)
      BY <3>1, <3>4
    <3>6. next \in Slots /\ Written(arr)
      BY <2>1, <3>1, <3>5, IndexFacts DEF Index, OkArray, Dense
    <3>7. Get(arr, next) \in Element \ {Hole}
      BY <3>5, <3>6, GetIs
    <3>8. call' = [c EXCEPT !.k = next, !.acc = Get(arr, next)]
      BY <1>1, <1>3, <2>1
    <3>9. c = [op |-> c.op, k |-> c.k, len |-> c.len, to |-> c.to, acc |-> c.acc, A |-> c.A]
      BY DEF IsFrame
    <3>10. /\ call'.k = next /\ call'.acc = Get(arr, next)
           /\ call'.len = c.len /\ call'.to = c.to /\ call'.A = c.A
      BY <3>8, <3>9
    <3>11. c.to \in 0 .. next
      BY <3>1, <3>5
    <3> QED
      BY <2>1, <3>5, <3>7, <3>10, <3>11 DEF FilterInv, Kept
  <2>2. call'.op = c.op /\ IsFrame(call')
    <3>1. /\ c = [op |-> c.op, k |-> c.k, len |-> c.len, to |-> c.to, acc |-> c.acc, A |-> c.A]
          /\ c.op \in Methods
      BY DEF IsFrame
    <3> DEFINE acc == IF c.op = "filter" THEN Get(arr, next) ELSE c.acc
    <3>2. call' = [c EXCEPT !.k = next, !.acc = acc]
      BY <1>1, <1>3, <3>1
    <3> HIDE DEF acc, next
    <3>3. call' = [op |-> c.op, k |-> next, len |-> c.len, to |-> c.to, acc |-> acc, A |-> c.A]
      BY <3>1, <3>2
    <3> QED
      BY <3>1, <3>3 DEF IsFrame
  <2>3. Dense' <=> Dense
    BY DEF Dense
  <2> QED
    BY <2>1, <2>2, <2>3 DEF ElementsInv, CallInv
<1> QED
  BY <1>2, <1>3

LEMMA FrameIs ==
    ASSUME OkArray(arr), NEW op \in Methods
    PROVE  IsFrame(Frame(op, arr)) /\ Frame(op, arr).op = op /\ (op = "filter" => Kept(Frame(op, arr), 0))
<1>1. IsFrame(Frame(op, arr)) /\ Frame(op, arr).op = op
  BY DEF IsFrame, Frame
<1>2. ASSUME op = "filter" PROVE Kept(Frame(op, arr), 0)
  <2> DEFINE a == _ejs_array_new(0, FALSE)
  <2>1. Written(a) /\ a.kind = "dense" /\ a.len = 0
    BY EmptyIs
  <2>2. Frame(op, arr).A = a /\ Frame(op, arr).to = 0 /\ Frame(op, arr).len = arr.len
    BY <1>2 DEF Frame, ArraySpeciesCreate
  <2>3. arr.len \in 0 .. MaxLen /\ 0 \in 0 .. 0 /\ 0 .. 0 - 1 = {}
    BY DEF OkArray
  <2> HIDE DEF a
  <2> QED
    BY <2>1, <2>2, <2>3 DEF Kept
<1> QED
  BY <1>1, <1>2

\* filter appends the value it was asking for.
LEMMA KeepNext ==
    ASSUME NEW c, IsFrame(c), c.op = "filter", FilterInv(c), NEW r
    PROVE  Kept(AfterCallback(c, r), c.k + 1)
<1>1. /\ c = [op |-> c.op, k |-> c.k, len |-> c.len, to |-> c.to, acc |-> c.acc, A |-> c.A]
      /\ c.k \in Nat /\ c.len \in 0 .. MaxLen /\ c.to \in 0 .. c.k /\ c.k < c.len
      /\ c.acc \in Element /\ c.acc # Hole
      /\ Written(c.A) /\ c.A.kind = "dense" /\ c.A.len = c.to
      /\ \A i \in 0 .. c.to - 1 : c.A.el[i] # Hole
  BY DEF IsFrame, FilterInv
<1>2. c.to \in Nat /\ c.to \in Index /\ MaxLen \in Nat
  BY <1>1, GrowthAssumption DEF Index
<1>3. CASE Truthy(r)
  <2> DEFINE b == Put(c.A, c.to, c.acc)
             d == AfterCallback(c, r)
  <2>1. Written(b) /\ Keeps(c.A, b)
    BY <1>1, <1>2, IndexFacts, PutKeeps
  <2>2. d = [c EXCEPT !.A = b, !.to = c.to + 1]
    BY <1>1, <1>3 DEF AfterCallback
  <2>3. b.len = c.to + 1 /\ b.el[c.to] = c.acc /\ \A i \in 0 .. c.to - 1 : b.el[i] = c.A.el[i]
    <3> DEFINE i == c.to
               r0 == maybe_realloc_dense(c.A, i)
               top == Max({c.A.len, i + 1})
               el == [j \in Slots |-> IF j = i THEN c.acc ELSE IF c.A.len <= j /\ j < i THEN Hole ELSE r0.el[j]]
    <3>1. top = i + 1
      BY <1>1, <1>2, MaxOf
    <3>2. b = [r0 EXCEPT !.el = el, !.len = top]
      BY <1>1 DEF Put, _ejs_array_specop_set
    <3>3. c.A \in Arrays /\ i \in Slots
      BY <1>1, <1>2, IndexFacts DEF Written
    <3>4. r0 \in [kind : {"dense", "plain"}, len : Nat, alloc : Int, el : [Slots -> Element \union {Garbage}]]
      <4> DEFINE A == c.A
                 grown == [j \in Slots |-> IF j < A.len THEN A.el[j] ELSE Garbage]
      <4>1. i + GrowBy \in Int
        BY <1>2, GrowthAssumption
      <4>2. grown \in [Slots -> Element \union {Garbage}]
        BY <3>3 DEF Arrays
      <4>3. r0 = A \/ r0 = [A EXCEPT !.alloc = i + GrowBy, !.el = grown]
        BY DEF maybe_realloc_dense
      <4>4. A \in Arrays
        BY <3>3
      <4> HIDE DEF A, grown, r0, i
      <4>5. CASE r0 = A
        BY <4>4, <4>5 DEF Arrays
      <4>6. CASE r0 = [A EXCEPT !.alloc = i + GrowBy, !.el = grown]
        BY <4>1, <4>2, <4>4, <4>6 DEF Arrays
      <4> QED
        BY <4>3, <4>5, <4>6
    <3>5. \A j \in 0 .. i - 1 : j \in Slots /\ r0.el[j] = c.A.el[j]
      <4>1. \A j \in 0 .. i - 1 : j \in Slots /\ j < c.A.len
        BY <1>1, <1>2, <3>3, ElementFacts
      <4> QED
        BY <3>3, <4>1 DEF maybe_realloc_dense, Arrays
    <3>6. el[i] = c.acc /\ \A j \in 0 .. i - 1 : el[j] = r0.el[j]
      BY <1>1, <1>2, <3>3, <3>5
    <3> HIDE DEF b, r0, el, top
    <3>7. b.len = top /\ b.el = el
      BY <3>2, <3>4
    <3> QED
      BY <3>1, <3>5, <3>6, <3>7
  <2> HIDE DEF b, d
  <2>4. d.A = b /\ d.to = c.to + 1 /\ d.len = c.len
    BY <1>1, <2>2
  <2>5. b.kind = "dense"
    BY <1>1, <2>1 DEF Keeps
  <2>6. c.to + 1 \in 0 .. c.k + 1
    BY <1>1
  <2>7. ASSUME NEW i \in 0 .. c.to + 1 - 1 PROVE b.el[i] # Hole
    <3>1. i = c.to \/ i \in 0 .. c.to - 1
      BY <1>2
    <3> QED
      BY <1>1, <2>3, <3>1
  <2> QED
    BY <1>1, <2>1, <2>3, <2>4, <2>5, <2>6, <2>7 DEF Kept, d
<1>4. CASE ~Truthy(r)
  <2>1. AfterCallback(c, r) = c
    BY <1>4 DEF AfterCallback
  <2>2. c.to \in 0 .. c.k + 1
    BY <1>1
  <2> QED
    BY <1>1, <2>1, <2>2 DEF Kept
<1> QED
  BY <1>3, <1>4

LEMMA IterateKeeps ==
    ASSUME ElementsInv, Iterate
    PROVE  ElementsInv'
<1>1. OkArray(arr) /\ aborted \in BOOLEAN /\ CallInv
  BY DEF ElementsInv
<1>2. ASSUME NEW op \in Methods, UNCHANGED <<arr, aborted>>, Resume(Frame(op, arr), arr, 0) PROVE ElementsInv'
  <2> DEFINE c == Frame(op, arr)
  <2>1. IsFrame(c) /\ c.op = op /\ (op = "filter" => Kept(c, 0))
    BY <1>1, FrameIs
  <2> HIDE DEF c
  <2> QED
    BY <1>1, <1>2, <2>1, ResumeKeeps DEF c
<1>3. \/ _ejs_Array_prototype_every \/ _ejs_Array_prototype_some \/ _ejs_Array_prototype_filter
      \/ _ejs_Array_prototype_find \/ _ejs_Array_prototype_findIndex
      \/ _ejs_Array_prototype_forEach \/ _ejs_Array_prototype_map \/ _ejs_Array_from
      => ElementsInv'
  <2>1. \A op \in {"every", "some", "filter", "find", "findIndex", "forEach", "map", "from"} : op \in Methods
    BY DEF Methods
  <2> QED
    BY <1>2, <2>1 DEF _ejs_Array_prototype_every, _ejs_Array_prototype_some, _ejs_Array_prototype_filter,
       _ejs_Array_prototype_find, _ejs_Array_prototype_findIndex, _ejs_Array_prototype_forEach,
       _ejs_Array_prototype_map, _ejs_Array_from
\* A frame with another accumulator is one.
<1>4. ASSUME NEW op \in {"reduce", "reduceRight"}, NEW v, NEW k, UNCHANGED <<arr, aborted>>,
             Resume([Frame(op, arr) EXCEPT !.acc = v], arr, k)
      PROVE  ElementsInv'
  <2> DEFINE c == [Frame(op, arr) EXCEPT !.acc = v]
  <2> DEFINE F == Frame(op, arr)
  <2>3. IsFrame(F) /\ F.op = op
    BY <1>1, FrameIs DEF Methods
  <2> HIDE DEF F
  <2>1. IsFrame(c) /\ c.op # "filter"
    <3>1. F = [op |-> F.op, k |-> F.k, len |-> F.len, to |-> F.to, acc |-> F.acc, A |-> F.A] /\ F.op \in Methods
      BY <2>3 DEF IsFrame
    <3>2. c = [F EXCEPT !.acc = v]
      BY DEF F
    <3> HIDE DEF c
    <3>3. c = [op |-> F.op, k |-> F.k, len |-> F.len, to |-> F.to, acc |-> v, A |-> F.A]
      BY <3>1, <3>2
    <3> QED
      BY <2>3, <3>1, <3>3 DEF IsFrame
  <2>2. Resume(c, arr, k)
    BY <1>4
  <2> HIDE DEF c
  <2> QED
    BY <1>1, <1>4, <2>1, <2>2, ResumeKeeps
<1>5. ASSUME UNCHANGED <<arr, aborted>>, call' = Nil PROVE ElementsInv'
  BY <1>1, <1>5 DEF ElementsInv, CallInv
<1>6. ASSUME NEW v \in Val \union {Nil}, _ejs_Array_prototype_reduce(v) PROVE ElementsInv'
  BY <1>4, <1>5, <1>6 DEF _ejs_Array_prototype_reduce
<1>7. ASSUME NEW v \in Val \union {Nil}, _ejs_Array_prototype_reduceRight(v) PROVE ElementsInv'
  BY <1>4, <1>5, <1>7 DEF _ejs_Array_prototype_reduceRight
<1>8. ASSUME NEW r, CallbackReturns(r) PROVE ElementsInv'
  <2> DEFINE c == AfterCallback(call, r)
             k == IF call.op = "reduceRight" THEN call.k - 1 ELSE call.k + 1
  <2>1. call # Nil /\ call.op \in Methods /\ UNCHANGED <<arr, aborted>>
    BY <1>8 DEF CallbackReturns
  <2>2. IsFrame(call) /\ (call.op = "filter" /\ Dense => FilterInv(call))
    <3>1. ~IsSort(call)
      BY <2>1 DEF IsSort, Methods
    <3> QED
      BY <1>1, <2>1, <3>1 DEF CallInv
  <2>3. CASE Stops(call.op, r)
    BY <1>5, <1>8, <2>3 DEF CallbackReturns
  <2>4. CASE ~Stops(call.op, r)
    <3>1. Resume(c, arr, k)
      BY <1>8, <2>4 DEF CallbackReturns
    <3>2. IsFrame(c) /\ c.op = call.op
      BY <2>2 DEF AfterCallback, IsFrame
    <3> HIDE DEF c, k
    <3>3. CASE c.op = "filter" /\ Dense
      <4>3. FilterInv(call)
        BY <2>2, <3>2, <3>3
      <4>4. call.op # "reduceRight"
        BY <3>2, <3>3
      <4>5. k = call.k + 1
        BY <4>4 DEF k
      <4>6. call.k \in Nat
        BY <4>3 DEF FilterInv
      <4>1. FilterInv(call) /\ k = call.k + 1 /\ call.k \in Nat
        BY <4>3, <4>5, <4>6
      <4>7. call.op = "filter" /\ IsFrame(call)
        BY <2>2, <3>2, <3>3
      <4>8. Kept(AfterCallback(call, r), call.k + 1)
        BY <4>3, <4>7, KeepNext
      <4>2. Kept(c, k) /\ k \in Nat
        BY <4>5, <4>6, <4>8 DEF c
      <4> QED
        BY <1>1, <2>1, <3>1, <3>2, <4>2, ResumeKeeps
    <3>4. CASE ~(c.op = "filter" /\ Dense)
      BY <1>1, <2>1, <3>1, <3>2, <3>4, ResumeKeeps
    <3> QED
      BY <3>3, <3>4
  <2> QED
    BY <2>3, <2>4
<1>9. CASE CallbackThrows
  BY <1>5, <1>9 DEF CallbackThrows
<1> QED
  BY <1>3, <1>6, <1>7, <1>8, <1>9 DEF Iterate

\* Exchanging two slots that may be read.
LEMMA SwapDenseKeeps ==
    ASSUME NEW a, Written(a), a.kind = "dense", NEW x \in Slots, NEW y \in Slots,
           a.el[x] # Garbage, a.el[y] # Garbage
    PROVE  swap_dense(a, x, y) \in After(a) /\ swap_dense(a, x, y).len = a.len
<1> DEFINE el == [a.el EXCEPT ![x] = a.el[y], ![y] = a.el[x]]
           b == swap_dense(a, x, y)
<1>1. /\ a \in Arrays /\ a.len \in Nat /\ a.alloc \in Nat /\ a.el \in [Slots -> Element \union {Garbage}]
      /\ a.len <= a.alloc /\ a.alloc <= Top + 1
      /\ \A i \in 0 .. a.len - 1 : a.el[i] # Garbage
  BY DEF Written, Arrays
<1>2. b = [a EXCEPT !.el = el]
  BY <1>1 DEF swap_dense, Arrays
<1>3. el \in [Slots -> Element \union {Garbage}]
  BY <1>1
<1>4. \A j \in Slots : a.el[j] # Garbage => el[j] # Garbage
  BY <1>1
<1> HIDE DEF b, el
<1>5. b \in Arrays /\ b.kind = "dense" /\ b.len = a.len /\ b.alloc = a.alloc /\ b.el = el
  BY <1>1, <1>2, <1>3 DEF Arrays
<1>6. \A i \in 0 .. b.len - 1 : b.el[i] # Garbage
  <2>1. \A i \in 0 .. a.len - 1 : i \in Slots
    BY <1>1, ElementFacts
  <2> QED
    BY <1>1, <1>4, <1>5, <2>1
<1>7. Written(b)
  BY <1>1, <1>5, <1>6 DEF Written
<1>8. Keeps(a, b)
  BY <1>4, <1>5 DEF Keeps
<1> QED
  BY <1>5, <1>7, <1>8 DEF After, b

\* A slot of a range that may be read.
LEMMA InRange ==
    ASSUME NEW a, Written(a), a.kind = "dense", NEW low \in Nat, NEW high \in Nat, Readable(a, <<low, high>>),
           NEW j \in low .. high
    PROVE  j \in Slots /\ a.el[j] # Garbage
<1>1. j < a.alloc /\ a.el[j] # Garbage
  BY DEF Readable
<1>2. a.alloc \in Nat /\ a.alloc <= Top + 1
  BY DEF Written, Arrays
<1> QED
  BY <1>1, <1>2, ElementFacts

\* The frame of a sort with a new range, and with the next comparison.
NewRange(c, rest, low, high, i, p, pivot) ==
    [c EXCEPT !.todo = rest, !.low = low, !.high = high, !.i = i, !.storeIndex = p, !.pivot = pivot]

LEMMA NewRangeIs ==
    ASSUME NEW c, IsSort(c), NEW rest, NEW low, NEW high, NEW i, NEW p, NEW pivot
    PROVE  NewRange(c, rest, low, high, i, p, pivot) =
              [op |-> "sort", user |-> c.user, todo |-> rest, low |-> low, high |-> high, i |-> i,
               storeIndex |-> p, pivot |-> pivot, before |-> c.before]
<1> DEFINE u == c.user
           t == c.todo
           l == c.low
           h == c.high
           k == c.i
           s == c.storeIndex
           v == c.pivot
           b == c.before
           c1 == [c EXCEPT !.todo = rest]
           c2 == [c1 EXCEPT !.low = low]
           c3 == [c2 EXCEPT !.high = high]
           c4 == [c3 EXCEPT !.i = i]
           c5 == [c4 EXCEPT !.storeIndex = p]
           c6 == [c5 EXCEPT !.pivot = pivot]
<1>1. c = [op |-> "sort", user |-> u, todo |-> t, low |-> l, high |-> h, i |-> k, storeIndex |-> s, pivot |-> v, before |-> b]
  BY DEF IsSort
<1> HIDE DEF u, t, l, h, k, s, v, b
\* One field after the other.
<1>2. NewRange(c, rest, low, high, i, p, pivot) = c6
  BY DEF NewRange
<1>3. c1 = [op |-> "sort", user |-> u, todo |-> rest, low |-> l, high |-> h, i |-> k, storeIndex |-> s, pivot |-> v, before |-> b]
  BY <1>1
<1> HIDE DEF c1
<1>4. c2 = [op |-> "sort", user |-> u, todo |-> rest, low |-> low, high |-> h, i |-> k, storeIndex |-> s, pivot |-> v, before |-> b]
  BY <1>3
<1> HIDE DEF c2
<1>5. c3 = [op |-> "sort", user |-> u, todo |-> rest, low |-> low, high |-> high, i |-> k, storeIndex |-> s, pivot |-> v, before |-> b]
  BY <1>4
<1> HIDE DEF c3
<1>6. c4 = [op |-> "sort", user |-> u, todo |-> rest, low |-> low, high |-> high, i |-> i, storeIndex |-> s, pivot |-> v, before |-> b]
  BY <1>5
<1> HIDE DEF c4
<1>7. c5 = [op |-> "sort", user |-> u, todo |-> rest, low |-> low, high |-> high, i |-> i, storeIndex |-> p, pivot |-> v, before |-> b]
  BY <1>6
<1> HIDE DEF c5
<1>8. c6 = [op |-> "sort", user |-> u, todo |-> rest, low |-> low, high |-> high, i |-> i, storeIndex |-> p, pivot |-> pivot, before |-> b]
  BY <1>7
<1> HIDE DEF c6
<1> QED
  BY <1>2, <1>8 DEF u, b

LEMMA NextComparisonIs ==
    ASSUME NEW c, IsSort(c), NEW i, NEW p
    PROVE  [c EXCEPT !.i = i, !.storeIndex = p] =
              [op |-> "sort", user |-> c.user, todo |-> c.todo, low |-> c.low, high |-> c.high, i |-> i,
               storeIndex |-> p, pivot |-> c.pivot, before |-> c.before]
<1> DEFINE u == c.user
           t == c.todo
           l == c.low
           h == c.high
           k == c.i
           s == c.storeIndex
           v == c.pivot
           b == c.before
           c1 == [c EXCEPT !.i = i]
           c2 == [c1 EXCEPT !.storeIndex = p]
<1>1. c = [op |-> "sort", user |-> u, todo |-> t, low |-> l, high |-> h, i |-> k, storeIndex |-> s, pivot |-> v, before |-> b]
  BY DEF IsSort
<1> HIDE DEF u, t, l, h, k, s, v, b
<1>2. [c EXCEPT !.i = i, !.storeIndex = p] = c2
  OBVIOUS
<1>3. c1 = [op |-> "sort", user |-> u, todo |-> t, low |-> l, high |-> h, i |-> i, storeIndex |-> s, pivot |-> v, before |-> b]
  BY <1>1
<1> HIDE DEF c1
<1>4. c2 = [op |-> "sort", user |-> u, todo |-> t, low |-> l, high |-> h, i |-> i, storeIndex |-> p, pivot |-> v, before |-> b]
  BY <1>3
<1> HIDE DEF c2
<1> QED
  BY <1>2, <1>4 DEF u, t, l, h, v, b

\* The next partition, or the end of the sort.
LEMMA StartKeeps ==
    ASSUME OkArray(arr), arr.kind = "dense", aborted \in BOOLEAN, aborted' = aborted,
           NEW b \in After(arr), b.len = arr.len, NEW c, IsSort(c), NEW todo \in Seq(Ranges(b)),
           StartPartition(c, b, todo)
    PROVE  ElementsInv'
<1>1. Written(b) /\ b.kind = "dense" /\ b.len <= MaxLen
  <2>1. arr.len \in 0 .. MaxLen /\ MaxLen \in Nat
    BY GrowthAssumption DEF OkArray
  <2> QED
    BY <2>1, AfterFacts DEF Keeps
<1>2. CASE todo = <<>>
  <2>1. call' = Nil /\ arr' = b
    BY <1>2 DEF StartPartition
  <2> QED
    BY <1>1, <2>1, OkWritten DEF ElementsInv, CallInv
<1>3. CASE todo # <<>>
  <2> DEFINE low == Head(todo)[1]
             high == Head(todo)[2]
             m == low + (high - low) \div 2
             rest == Tail(todo)
             d == swap_dense(b, m, high)
  <2>1. Head(todo) \in Ranges(b) /\ rest \in Seq(Ranges(b))
    <3> DEFINE R == Ranges(b)
    <3>1. todo \in Seq(R) /\ todo # <<>>
      BY <1>3
    <3> HIDE DEF R
    <3>2. Head(todo) \in R /\ Tail(todo) \in Seq(R)
      BY <3>1
    <3> QED
      BY <3>2 DEF R
  <2>2. low \in Nat /\ high \in Nat /\ low < high /\ Readable(b, <<low, high>>)
    <3> DEFINE r == Head(todo)
    <3>1. r \in Nat \X Nat /\ r[1] < r[2] /\ Readable(b, r)
      BY <2>1 DEF Ranges
    <3> HIDE DEF r
    <3>2. r = <<r[1], r[2]>> /\ r[1] \in Nat /\ r[2] \in Nat
      BY <3>1
    <3>3. Readable(b, <<r[1], r[2]>>)
      BY <3>1, <3>2
    <3> QED
      BY <3>1, <3>2, <3>3 DEF r
  <2>3. /\ call' = [c EXCEPT !.todo = rest, !.low = low, !.high = high, !.i = low,
                             !.storeIndex = low, !.pivot = b.el[m]]
        /\ arr' = d
    BY <1>3 DEF StartPartition
  <2> HIDE DEF low, high, rest
  <2>4. m \in low .. high /\ high \in low .. high
    BY <2>2
  <2> HIDE DEF m
  <2>5. m \in Slots /\ b.el[m] # Garbage /\ high \in Slots /\ b.el[high] # Garbage
    BY <1>1, <2>2, <2>4, InRange
  <2>6. d \in After(b) /\ d.len = b.len
    BY <1>1, <2>5, SwapDenseKeeps
  <2> HIDE DEF d
  <2>7. OkArray(d) /\ d.kind = "dense" /\ Written(d)
    BY <1>1, <2>6, AfterFacts, OkWritten DEF Keeps
  <2>8. Readable(d, <<low, high>>) /\ rest \in Seq(Ranges(d))
    <3>1. <<low, high>> \in Nat \X Nat
      BY <2>2
    <3> QED
      BY <1>1, <2>1, <2>2, <2>6, <3>1, RangesAfter
  <2>9. call' = [op |-> "sort", user |-> c.user, todo |-> rest, low |-> low, high |-> high, i |-> low,
                 storeIndex |-> low, pivot |-> b.el[m], before |-> c.before]
    <3>1. call' = NewRange(c, rest, low, high, low, low, b.el[m])
      BY <2>3 DEF NewRange
    <3>2. NewRange(c, rest, low, high, low, low, b.el[m]) =
          [op |-> "sort", user |-> c.user, todo |-> rest, low |-> low, high |-> high, i |-> low,
           storeIndex |-> low, pivot |-> b.el[m], before |-> c.before]
      BY NewRangeIs
    <3> QED
      BY ONLY <3>1, <3>2
  <2>10. IsSort(call')
    BY <2>9 DEF IsSort
  <2>11. SortInv(d, call')
    BY <2>2, <2>5, <2>7, <2>8, <2>9 DEF SortInv
  <2> QED
    BY <2>3, <2>7, <2>10, <2>11 DEF ElementsInv, CallInv
<1> QED
  BY <1>2, <1>3

\* The halves of a range.
LEMMA HalvesIn ==
    ASSUME NEW a, NEW low \in Nat, NEW high \in Nat, Readable(a, <<low, high>>), NEW p \in low .. high
    PROVE  Halves(low, p, high) \in Seq(Ranges(a))
<1> DEFINE l == <<low, p - 1>>
           h == <<p + 1, high>>
           left == IF low < p - 1 THEN <<l>> ELSE <<>>
           right == IF p + 1 < high THEN <<h>> ELSE <<>>
<1>1. ASSUME low < p - 1 PROVE l \in Ranges(a)
  <2>1. l \in Nat \X Nat /\ l[1] = low /\ l[2] = p - 1
    BY <1>1
  <2>2. \A j \in low .. p - 1 : j \in low .. high
    OBVIOUS
  <2>3. Readable(a, l)
    BY <2>1, <2>2 DEF Readable
  <2> QED
    BY <1>1, <2>1, <2>3 DEF Ranges
<1>2. ASSUME p + 1 < high PROVE h \in Ranges(a)
  <2>1. h \in Nat \X Nat /\ h[1] = p + 1 /\ h[2] = high
    BY <1>2
  <2>2. \A j \in p + 1 .. high : j \in low .. high
    OBVIOUS
  <2>3. Readable(a, h)
    BY <2>1, <2>2 DEF Readable
  <2> QED
    BY <1>2, <2>1, <2>3 DEF Ranges
<1> HIDE DEF l, h
<1>3. left \in Seq(Ranges(a)) /\ right \in Seq(Ranges(a))
  BY <1>1, <1>2
<1>4. Halves(low, p, high) = left \o right
  BY DEF Halves, l, h
<1> HIDE DEF left, right
<1> QED
  BY <1>3, <1>4

LEMMA SortKeeps ==
    ASSUME ElementsInv, Sort
    PROVE  ElementsInv'
<1>1. OkArray(arr) /\ aborted \in BOOLEAN /\ CallInv
  BY DEF ElementsInv
<1>2. ASSUME NEW user \in BOOLEAN, _ejs_Array_prototype_sort(user) PROVE ElementsInv'
  <2> DEFINE todo == IF arr.len > 1 THEN << <<0, arr.len - 1>> >> ELSE <<>>
             c == [op |-> "sort", user |-> user, todo |-> <<>>, low |-> 0, high |-> 0, i |-> 0,
                   storeIndex |-> 0, pivot |-> Nil,
                   before |-> IF user THEN Nil ELSE [i \in 0 .. arr.len - 1 |-> arr.el[i]]]
  <2>1. arr.kind = "dense" /\ StartPartition(c, arr, todo) /\ aborted' = aborted
    BY <1>2 DEF _ejs_Array_prototype_sort
  <2>2. Written(arr) /\ arr \in After(arr)
    BY <1>1, <2>1, AfterItself DEF OkArray
  <2>3. IsSort(c)
    BY DEF IsSort
  <2>4. todo \in Seq(Ranges(arr))
    <3> DEFINE r == <<0, arr.len - 1>>
    <3>1. ASSUME arr.len > 1 PROVE r \in Ranges(arr)
      <4>1. arr.len \in Nat /\ arr.alloc \in Nat /\ arr.len <= arr.alloc /\ \A j \in 0 .. arr.len - 1 : arr.el[j] # Garbage
        BY <2>1, <2>2 DEF Written, Arrays
      <4>2. r \in Nat \X Nat /\ r[1] = 0 /\ r[2] = arr.len - 1
        BY <3>1, <4>1
      <4>3. Readable(arr, r)
        BY <4>1, <4>2 DEF Readable
      <4> QED
        BY <3>1, <4>1, <4>2, <4>3 DEF Ranges
    <3> HIDE DEF r
    <3>2. todo = IF arr.len > 1 THEN <<r>> ELSE <<>>
      BY DEF r
    <3> QED
      BY <3>1, <3>2
  <2> HIDE DEF c, todo
  <2> QED
    BY <1>1, <2>1, <2>2, <2>3, <2>4, StartKeeps
<1>3. CASE _ejs_Array_prototype_sort_generic
  BY <1>1, <1>3 DEF _ejs_Array_prototype_sort_generic, ElementsInv, CallInv, Dense
<1>4. ASSUME NEW cmp \in {-1, 0, 1}, SortStep(cmp) PROVE ElementsInv'
  <2> DEFINE low == call.low
             high == call.high
             a == IF cmp < 1 THEN swap_dense(arr, call.i, call.storeIndex) ELSE arr
             p == IF cmp < 1 THEN call.storeIndex + 1 ELSE call.storeIndex
  <2>1. call # Nil /\ call.op = "sort" /\ aborted' = aborted
    BY <1>4 DEF SortStep
  <2>2. IsSort(call) /\ SortInv(arr, call)
    BY <1>1, <2>1 DEF CallInv, IsFrame, Methods
  <2>3. /\ arr.kind = "dense" /\ low \in Nat /\ high \in Nat /\ call.i \in Nat /\ call.storeIndex \in Nat
        /\ low <= call.storeIndex /\ call.storeIndex <= call.i /\ call.i < high
        /\ Readable(arr, <<low, high>>) /\ call.todo \in Seq(Ranges(arr)) /\ call.pivot # Garbage
    BY <2>2 DEF SortInv
  <2>4. Written(arr) /\ arr.len \in 0 .. MaxLen
    BY <1>1, <2>3 DEF OkArray
  <2>5. a \in After(arr) /\ a.len = arr.len
    <3>1. call.i \in low .. high /\ call.storeIndex \in low .. high
      BY <2>3
    <3>2. /\ call.i \in Slots /\ arr.el[call.i] # Garbage
          /\ call.storeIndex \in Slots /\ arr.el[call.storeIndex] # Garbage
      BY <2>3, <2>4, <3>1, InRange
    <3>3. /\ swap_dense(arr, call.i, call.storeIndex) \in After(arr)
          /\ swap_dense(arr, call.i, call.storeIndex).len = arr.len
      BY <2>3, <2>4, <3>2, SwapDenseKeeps
    <3> QED
      BY <2>4, <3>3, AfterItself
  <2>6. p \in Nat /\ low <= p /\ p <= call.i + 1
    BY <2>3
  <2>7. IF call.i + 1 < high
        THEN arr' = a /\ call' = [call EXCEPT !.i = @ + 1, !.storeIndex = p]
        ELSE StartPartition(call, swap_dense(a, p, high), Halves(low, p, high) \o call.todo)
    BY <1>4 DEF SortStep
  <2> HIDE DEF a, p, low, high
  <2>8. Written(a) /\ a.kind = "dense" /\ a.len <= MaxLen
    BY <2>3, <2>4, <2>5, AfterFacts, GrowthAssumption DEF Keeps
  <2>9. Readable(a, <<low, high>>) /\ call.todo \in Seq(Ranges(a))
    <3>1. <<low, high>> \in Nat \X Nat
      BY <2>3
    <3> QED
      BY <2>3, <2>4, <2>5, <3>1, RangesAfter
  <2>10. CASE call.i + 1 < high
    <3>1. arr' = a /\ call' = [call EXCEPT !.i = call.i + 1, !.storeIndex = p]
      BY <2>7, <2>10
    <3>2. call' = [op |-> "sort", user |-> call.user, todo |-> call.todo, low |-> low, high |-> high, i |-> call.i + 1,
                   storeIndex |-> p, pivot |-> call.pivot, before |-> call.before]
      BY <2>2, <3>1, NextComparisonIs DEF low, high
    <3>3. IsSort(call')
      BY <3>2 DEF IsSort
    <3>4. call.i + 1 \in Nat
      BY <2>3
    <3>5. SortInv(a, call')
      BY <2>3, <2>6, <2>8, <2>9, <2>10, <3>2, <3>4 DEF SortInv
    <3> QED
      BY <1>1, <2>1, <2>8, <3>1, <3>3, <3>5, OkWritten DEF ElementsInv, CallInv
  <2>11. CASE ~(call.i + 1 < high)
    <3> DEFINE b == swap_dense(a, p, high)
               todo == Halves(low, p, high) \o call.todo
    <3>1. p \in low .. high /\ high \in low .. high
      BY <2>3, <2>6
    <3>2. p \in Slots /\ a.el[p] # Garbage /\ high \in Slots /\ a.el[high] # Garbage
      BY <2>3, <2>8, <2>9, <3>1, InRange
    <3>3. b \in After(a) /\ b.len = a.len
      BY <2>8, <3>2, SwapDenseKeeps
    <3>4. StartPartition(call, b, todo)
      BY <2>7, <2>11
    <3>5. Halves(low, p, high) \in Seq(Ranges(a))
      BY <2>3, <2>9, <3>1, HalvesIn
    <3>6. todo \in Seq(Ranges(a))
      BY <2>9, <3>5
    <3> HIDE DEF b, todo
    <3>7. todo \in Seq(Ranges(b))
      BY <2>8, <3>3, <3>6, RangesAfter
    <3>8. b \in After(arr) /\ b.len = arr.len
      BY <2>5, <3>3, AfterMore, AfterFacts
    <3> QED
      BY <1>1, <2>1, <2>2, <2>3, <3>4, <3>7, <3>8, StartKeeps
  <2> QED
    BY <2>10, <2>11
<1> QED
  BY <1>2, <1>3, <1>4 DEF Sort

-----------------------------------------------------------------------------
(* The theorem.                                                            *)

LEMMA InitElements ==
    ASSUME Init
    PROVE  ElementsInv
<1>1. ASSUME NEW items \in Args \union {<<>>}
      PROVE  OkArray(_ejs_array_new_copy(items)) /\ OkArray(Plain(items))
  <2>1. items \in Seq(Element) /\ Len(items) <= MaxLen
    <3>1. CASE items \in Args
      BY <3>1, ArgFacts
    <3>2. CASE items = <<>>
      BY <3>2, GrowthAssumption
    <3> QED
      BY <3>1, <3>2
  <2> QED
    BY <2>1, PushedIs, PlainIs DEF _ejs_array_new_copy
<1> QED
  BY <1>1 DEF Init, ElementsInv, CallInv

LEMMA NextElements ==
    ASSUME ElementsInv, [Next]_vars
    PROVE  ElementsInv'
<1>1. CASE SparseSet
  BY <1>1 DEF SparseSet, ElementsInv, CallInv, Dense
<1>2. CASE UNCHANGED vars
  BY <1>2 DEF vars, ElementsInv, CallInv, Dense
<1> QED
  BY <1>1, <1>2, NewArrayKeeps, MutateKeeps, IterateKeeps, SortKeeps DEF Next

LEMMA ElementsImply ==
    ASSUME ElementsInv
    PROVE  ElementsInitialised
<1>1. OkArray(arr) /\ aborted \in BOOLEAN /\ CallInv
  BY DEF ElementsInv
<1>2. TypeOK
  <2>1. arr.kind = "dense" => arr.len <= arr.alloc /\ arr.alloc - 1 \in Slots \union {-1}
    <3>1. arr.kind = "dense" => arr.alloc \in Nat /\ arr.len <= arr.alloc /\ arr.alloc <= Top + 1
      BY <1>1 DEF OkArray, Written
    <3> QED
      BY <3>1, ElementFacts
  <2> QED
    BY <1>1, <2>1 DEF TypeOK, OkArray
<1>3. ArraysInitialised
  <2>1. arr.kind = "dense" => \A i \in 0 .. arr.len - 1 : arr.el[i] # Garbage
    BY <1>1 DEF OkArray, Written
  <2>2. ASSUME Dense, call # Nil, call.op = "filter"
        PROVE  /\ call.A.len = call.to
               /\ \A i \in 0 .. call.to - 1 : call.A.el[i] \notin {Hole, Garbage}
    <3>1. FilterInv(call)
      BY <1>1, <2>2 DEF CallInv, IsSort
    <3> QED
      BY <3>1 DEF FilterInv, Written
  <2> QED
    BY <2>1, <2>2 DEF ArraysInitialised
<1>4. SortReadsInitialised
  <2> SUFFICES ASSUME call # Nil, call.op = "sort",
                      NEW r \in {<<call.low, call.high>>} \union Range(call.todo)
               PROVE  call.pivot # Garbage /\ Readable(arr, r)
    BY DEF SortReadsInitialised, Readable
  <2>1. SortInv(arr, call)
    BY <1>1 DEF CallInv, IsFrame, Methods
  <2>2. call.pivot # Garbage /\ Readable(arr, <<call.low, call.high>>) /\ call.todo \in Seq(Ranges(arr))
    BY <2>1 DEF SortInv
  <2>3. \A n \in DOMAIN call.todo : call.todo[n] \in Ranges(arr)
    BY <2>2
  <2>4. r = <<call.low, call.high>> \/ r \in Ranges(arr)
    BY <2>3 DEF Range
  <2> QED
    BY <2>2, <2>4 DEF Ranges
<1> QED
  BY <1>2, <1>3, <1>4 DEF ElementsInitialised

\* The program's array, the array that filter builds and the ranges a sort has still to
\* go over have no slot that nobody has written: every step of ejs-array.c that makes,
\* grows, cuts or moves the program's array, and every comparison and swap of a sort or
\* element kept by filter, keeps them written, whatever the callbacks do to the array.
\* The results of map, Array.from, splice and the generic slice are not meant.
THEOREM ArraysAlwaysInitialised == Spec => []ElementsInitialised
<1>1. Init => ElementsInv
  BY InitElements
<1>2. ElementsInv /\ [Next]_vars => ElementsInv'
  BY NextElements
<1>3. ElementsInv => ElementsInitialised
  BY ElementsImply
<1> QED
  BY <1>1, <1>2, <1>3, PTL DEF Spec

-----------------------------------------------------------------------------
(* The order in which methods visit, and sort.                             *)

\* The order a sort without comparefn gives.
Leq(u, v) == v = undefined \/ (u # undefined /\ AsString(u) <= AsString(v))

\* Ranges of slots, as pairs.
Both(r, x, y) == r[1] <= x /\ x <= r[2] /\ r[1] <= y /\ y <= r[2]
Apart(r, s) == r[2] < s[1] \/ s[2] < r[1]

\* The ranges t that are still to sort lie in an array of n elements and do not meet.
Pending(n, t) ==
    /\ t \in Seq(Nat \X Nat)
    /\ \A k \in 1 .. Len(t) : t[k][1] < t[k][2] /\ t[k][2] < n
    /\ \A k, l \in 1 .. Len(t) : k < l => Apart(t[k], t[l])

Shared(t, x, y) == \E k \in 1 .. Len(t) : Both(t[k], x, y)

\* All elements are in order but those of one range that is still to sort.
Ordered(el, n, t) ==
    \A x, y \in 0 .. n - 1 : x < y => Leq(el[x], el[y]) \/ Shared(t, x, y)

\* The same, while the elements from low to high are partitioned.
OrderedAround(el, n, r, t) ==
    \A x, y \in 0 .. n - 1 : x < y => Leq(el[x], el[y]) \/ Both(r, x, y) \/ Shared(t, x, y)

\* The elements of old have only changed their places.
Rearranged(old, el, n) ==
    /\ old \in [0 .. n - 1 -> Element]
    /\ \A v \in Element : Count(old, v) = Count([i \in 0 .. n - 1 |-> el[i]], v)

Partitioned(el, c) ==
    /\ el[c.high] = c.pivot
    /\ \A x \in c.low .. c.storeIndex - 1 : Leq(el[x], c.pivot)
    /\ \A x \in c.storeIndex .. c.i - 1 : Leq(c.pivot, el[x])

\* A sort without comparefn, between two comparisons.
OrderInv(a, c) ==
    /\ c.user = FALSE
    /\ c.high < a.len /\ Pending(a.len, c.todo)
    /\ \A k \in 1 .. Len(c.todo) : Apart(<<c.low, c.high>>, c.todo[k])
    /\ OrderedAround(a.el, a.len, <<c.low, c.high>>, c.todo)
    /\ Rearranged(c.before, a.el, a.len)
    /\ Partitioned(a.el, c)

\* A method between two callbacks.
VisitInv(c) ==
    /\ IsFrame(c) /\ c.k \in Nat /\ c.len \in Nat
    /\ c.op \notin {"forEach", "from"} => c.k < c.len

Going == call # Nil => \/ VisitInv(call)
                       \/ IsSort(call) /\ call.user \in BOOLEAN /\ (call.user \/ OrderInv(arr, call))

\* The inductive invariant.
CallbacksInv == ElementsInv /\ calls \in Nat /\ Going

-----------------------------------------------------------------------------
(* Numbers and the order of elements.                                      *)

LEMMA MaxIn ==
    ASSUME NEW m \in Int, NEW S \in SUBSET (0 .. m), S # {}
    PROVE  Max(S) \in S
<1> DEFINE T == {m - x : x \in S}
<1>1. T \in SUBSET Nat /\ T # {}
  <2>1. \A x \in S : m - x \in Nat /\ x \in Int
    OBVIOUS
  <2> QED
    BY <2>1
<1>2. Min(T) \in T /\ \A y \in T : Min(T) <= y
  <2>1. Min(T) \in T
    <3> HIDE DEF T
    <3> QED
      BY <1>1, MinIn
  <2>2. \E x \in T : \A y \in T : x <= y
    <3> HIDE DEF T
    <3>1. PICK x \in T : \A y \in T : ~(<<y, x>> \in OpToRel(<, Nat))
      BY <1>1, NatLessThanWellFounded, WFMin
    <3>2. ASSUME NEW y \in T PROVE x <= y
      <4>1. x \in Nat /\ y \in Nat
        BY <1>1
      <4>2. ~(y < x)
        BY <3>1, <4>1 DEF OpToRel
      <4> QED
        BY <4>1, <4>2
    <3> QED
      BY <3>2
  <2>3. \A y \in T : Min(T) <= y
    <3> HIDE DEF T
    <3> QED
      BY <2>2 DEF Min
  <2> QED
    BY <2>1, <2>3
<1>3. PICK x \in S : Min(T) = m - x
  BY <1>2
<1>4. ASSUME NEW y \in S PROVE x >= y
  <2>1. m - y \in T
    OBVIOUS
  <2>3. x \in 0 .. m /\ y \in 0 .. m
    OBVIOUS
  <2> HIDE DEF T
  <2>4. m - x <= m - y
    BY <1>2, <1>3, <2>1
  <2>2. m - x <= m - y /\ x \in Int /\ y \in Int
    BY <2>3, <2>4
  <2> QED
    BY <2>2
<1> QED
  BY <1>4 DEF Max

LEMMA AsStringIs ==
    ASSUME NEW x \in Element, x # undefined
    PROVE  AsString(x) \in Int
<1>1. CASE x \in Val
  <2>1. Val \subseteq Int /\ x # Hole
    BY <1>1, ValueAssumption
  <2> QED
    BY <1>1, <2>1 DEF AsString
<1>2. CASE x = Hole \/ x = 0
  BY <1>2 DEF AsString
<1> QED
  BY <1>1, <1>2 DEF Element

LEMMA LeqOrder ==
    ASSUME NEW u \in Element, NEW v \in Element, NEW w \in Element
    PROVE  Leq(u, u) /\ (Leq(u, v) /\ Leq(v, w) => Leq(u, w))
<1>1. \A x \in Element : x # undefined => AsString(x) \in Int
  BY AsStringIs
<1>2. Leq(u, u)
  BY <1>1 DEF Leq
<1>3. ASSUME Leq(u, v), Leq(v, w) PROVE Leq(u, w)
  BY <1>1, <1>3 DEF Leq
<1> QED
  BY <1>2, <1>3

\* Comparing without comparefn finds out which of two elements goes first.
LEMMA CompareIs ==
    ASSUME NEW u \in Element, NEW v \in Element, NEW cmp \in SortCompare(FALSE, u, v)
    PROVE  IF cmp < 1 THEN Leq(u, v) ELSE Leq(v, u)
<1>1. \A x \in Element : x # undefined => AsString(x) \in Int
  BY AsStringIs
<1>2. CASE u = undefined \/ v = undefined
  BY <1>2 DEF SortCompare, Leq
<1>3. CASE u # undefined /\ v # undefined
  <2> DEFINE m == AsString(u)
             n == AsString(v)
  <2>1. m \in Int /\ n \in Int
    BY <1>1, <1>3
  <2>2. cmp \in IF m < n THEN {-1} ELSE IF m > n THEN {1} ELSE {0}
    BY <1>3 DEF SortCompare
  <2>3. (Leq(u, v) <=> m <= n) /\ (Leq(v, u) <=> n <= m)
    BY <1>3 DEF Leq
  <2> HIDE DEF m, n
  <2> QED
    BY <2>1, <2>2, <2>3
<1> QED
  BY <1>2, <1>3

-----------------------------------------------------------------------------
(* Exchanging two elements.                                                *)

\* el2 is el with the elements x and y exchanged.
Exchanged(el, el2, n, x, y) ==
    /\ el2[x] = el[y] /\ el2[y] = el[x]
    /\ \A i \in 0 .. n - 1 : i # x /\ i # y => el2[i] = el[i]

LEMMA CountExchanged ==
    ASSUME NEW n \in Nat, NEW el, NEW el2, NEW x \in 0 .. n - 1, NEW y \in 0 .. n - 1,
           Exchanged(el, el2, n, x, y), NEW v
    PROVE  Count([i \in 0 .. n - 1 |-> el2[i]], v) = Count([i \in 0 .. n - 1 |-> el[i]], v)
<1> DEFINE S == {i \in 0 .. n - 1 : el[i] = v}
           T == {i \in 0 .. n - 1 : el2[i] = v}
           F == [i \in S |-> IF i = x THEN y ELSE IF i = y THEN x ELSE i]
<1>1. Count([i \in 0 .. n - 1 |-> el[i]], v) = Cardinality(S) /\ Count([i \in 0 .. n - 1 |-> el2[i]], v) = Cardinality(T)
  <2> DEFINE f == [i \in 0 .. n - 1 |-> el[i]]
             g == [i \in 0 .. n - 1 |-> el2[i]]
  <2>1. {i \in DOMAIN f : f[i] = v} = S /\ {i \in DOMAIN g : g[i] = v} = T
    OBVIOUS
  <2> HIDE DEF f, g, S, T
  <2>2. Count(f, v) = Cardinality(S) /\ Count(g, v) = Cardinality(T)
    BY <2>1 DEF Count
  <2> QED
    BY <2>2 DEF f, g
<1>2. F \in [S -> T]
  BY DEF Exchanged
<1>3. ASSUME NEW i \in S, NEW j \in S, F[i] = F[j] PROVE i = j
  BY <1>3
<1>4. ASSUME NEW j \in T PROVE \E i \in S : F[i] = j
  <2> DEFINE i == IF j = x THEN y ELSE IF j = y THEN x ELSE j
  <2>1. i \in S
    BY DEF Exchanged
  <2>2. F[i] = j
    BY <2>1
  <2> QED
    BY <2>1, <2>2
<1>5. IsFiniteSet(S)
  <2>1. IsFiniteSet(0 .. n - 1)
    BY FS_Interval
  <2>2. S \in SUBSET (0 .. n - 1)
    OBVIOUS
  <2> HIDE DEF S
  <2> QED
    BY <2>1, <2>2, FS_Subset
<1> HIDE DEF S, T, F
<1>6. F \in Bijection(S, T)
  BY <1>2, <1>3, <1>4, Fun_IsBij
<1>7. Cardinality(T) = Cardinality(S)
  BY <1>5, <1>6, FS_Bijection DEF ExistsBijection
<1> QED
  BY <1>1, <1>7

LEMMA RearrangedExchanged ==
    ASSUME NEW n \in Nat, NEW el, NEW el2, NEW x \in 0 .. n - 1, NEW y \in 0 .. n - 1,
           Exchanged(el, el2, n, x, y), NEW old, Rearranged(old, el, n)
    PROVE  Rearranged(old, el2, n)
<1>1. \A v \in Element : Count([i \in 0 .. n - 1 |-> el2[i]], v) = Count([i \in 0 .. n - 1 |-> el[i]], v)
  BY CountExchanged
<1> QED
  BY <1>1 DEF Rearranged

\* Elements that change places within a range stay in order with those outside.
LEMMA AroundExchanged ==
    ASSUME NEW n \in Nat, NEW el, NEW el2, NEW r \in Nat \X Nat, r[2] < n,
           NEW x \in r[1] .. r[2], NEW y \in r[1] .. r[2], Exchanged(el, el2, n, x, y),
           NEW t, Pending(n, t), \A k \in 1 .. Len(t) : Apart(r, t[k]), OrderedAround(el, n, r, t)
    PROVE  OrderedAround(el2, n, r, t)
<1>1. r[1] \in Nat /\ r[2] \in Nat /\ x \in 0 .. n - 1 /\ y \in 0 .. n - 1
  OBVIOUS
<1> DEFINE Was(i) == IF i = x THEN y ELSE IF i = y THEN x ELSE i
<1>2. \A i \in 0 .. n - 1 : Was(i) \in 0 .. n - 1 /\ el2[i] = el[Was(i)]
  BY <1>1 DEF Exchanged
<1>3. \A i \in 0 .. n - 1 : IF i \in r[1] .. r[2] THEN Was(i) \in r[1] .. r[2] ELSE Was(i) = i
  OBVIOUS
<1>4. ASSUME NEW i \in r[1] .. r[2], NEW j PROVE ~Shared(t, i, j) /\ ~Shared(t, j, i)
  <2>1. ASSUME NEW k \in 1 .. Len(t), t[k][1] <= i, i <= t[k][2] PROVE FALSE
    <3>1. t[k] \in Nat \X Nat /\ Apart(r, t[k])
      <4>1. t \in Seq(Nat \X Nat)
        BY DEF Pending
      <4> QED
        BY <4>1
    <3>2. t[k][1] \in Nat /\ t[k][2] \in Nat
      BY <3>1
    <3> QED
      BY <1>1, <2>1, <3>1, <3>2 DEF Apart
  <2> QED
    BY <2>1 DEF Shared, Both
<1> HIDE DEF Was
<1>5. ASSUME NEW i \in 0 .. n - 1, NEW j \in 0 .. n - 1, i < j, ~Both(r, i, j), ~Shared(t, i, j)
      PROVE  Leq(el2[i], el2[j])
  <2>1. Was(i) \in 0 .. n - 1 /\ Was(j) \in 0 .. n - 1 /\ el2[i] = el[Was(i)] /\ el2[j] = el[Was(j)]
    BY <1>2
  <2>2. Was(i) < Was(j) /\ ~Both(r, Was(i), Was(j)) /\ ~Shared(t, Was(i), Was(j))
    <3>1. CASE i \in r[1] .. r[2]
      <4>1. j > r[2] /\ Was(j) = j /\ Was(i) \in r[1] .. r[2]
        BY <1>1, <1>3, <1>5, <3>1 DEF Both
      <4> QED
        BY <1>1, <1>4, <4>1 DEF Both
    <3>2. CASE j \in r[1] .. r[2]
      <4>1. i < r[1] /\ Was(i) = i /\ Was(j) \in r[1] .. r[2]
        BY <1>1, <1>3, <1>5, <3>2 DEF Both
      <4> QED
        BY <1>1, <1>4, <4>1 DEF Both
    <3>3. CASE i \notin r[1] .. r[2] /\ j \notin r[1] .. r[2]
      BY <1>3, <1>5, <3>3
    <3> QED
      BY <3>1, <3>2, <3>3
  <2> QED
    BY <2>1, <2>2 DEF OrderedAround
<1> QED
  BY <1>5 DEF OrderedAround

-----------------------------------------------------------------------------
(* The ranges that are still to sort.                                      *)

LEMMA ConsIs ==
    ASSUME NEW n \in Nat, NEW r \in Nat \X Nat, r[1] < r[2], r[2] < n,
           NEW t, Pending(n, t), \A k \in 1 .. Len(t) : Apart(r, t[k])
    PROVE  LET u == <<r>> \o t
           IN  /\ Pending(n, u)
               /\ \A x, y : Shared(u, x, y) <=> Both(r, x, y) \/ Shared(t, x, y)
               /\ \A s : Apart(s, r) /\ (\A k \in 1 .. Len(t) : Apart(s, t[k])) => \A k \in 1 .. Len(u) : Apart(s, u[k])
<1> DEFINE R == Nat \X Nat
           u == <<r>> \o t
<1>1. t \in Seq(R) /\ r \in R /\ Len(t) \in Nat
  BY DEF Pending
<1>2. u \in Seq(R) /\ Len(u) = Len(t) + 1 /\ u[1] = r /\ \A k \in 1 .. Len(t) : u[k + 1] = t[k]
  <2> HIDE DEF R
  <2> QED
    BY <1>1
<1> HIDE DEF R, u
<1>3. ASSUME NEW k \in 1 .. Len(u), k # 1 PROVE k - 1 \in 1 .. Len(t) /\ u[k] = t[k - 1]
  <2>1. k - 1 \in 1 .. Len(t) /\ k - 1 + 1 = k
    BY <1>1, <1>2, <1>3
  <2> QED
    BY <1>2, <2>1
<1>4. 1 \in 1 .. Len(u) /\ \A k \in 1 .. Len(t) : k + 1 \in 1 .. Len(u)
  BY <1>1, <1>2
<1>5. ASSUME NEW k \in 1 .. Len(u) PROVE u[k][1] < u[k][2] /\ u[k][2] < n
  BY <1>2, <1>3 DEF Pending
<1>6. ASSUME NEW k \in 1 .. Len(u), NEW l \in 1 .. Len(u), k < l PROVE Apart(u[k], u[l])
  <2>1. l # 1 /\ l - 1 \in 1 .. Len(t) /\ u[l] = t[l - 1]
    BY <1>3, <1>6
  <2>2. CASE k = 1
    BY <1>2, <2>1, <2>2
  <2>3. CASE k # 1
    <3>1. k - 1 \in 1 .. Len(t) /\ u[k] = t[k - 1] /\ k - 1 < l - 1
      BY <1>3, <1>6, <2>3
    <3> QED
      BY <2>1, <3>1 DEF Pending
  <2> QED
    BY <2>2, <2>3
<1>7. Pending(n, u)
  BY <1>2, <1>5, <1>6 DEF Pending, R
<1>8. ASSUME NEW x, NEW y PROVE Shared(u, x, y) <=> Both(r, x, y) \/ Shared(t, x, y)
  <2>1. ASSUME NEW k \in 1 .. Len(u), Both(u[k], x, y) PROVE Both(r, x, y) \/ Shared(t, x, y)
    BY <1>2, <1>3, <2>1 DEF Shared
  <2>2. ASSUME NEW k \in 1 .. Len(t), Both(t[k], x, y) PROVE Shared(u, x, y)
    BY <1>2, <1>4, <2>2 DEF Shared
  <2>3. ASSUME Both(r, x, y) PROVE Shared(u, x, y)
    BY <1>2, <1>4, <2>3 DEF Shared
  <2> QED
    BY <2>1, <2>2, <2>3 DEF Shared
<1>9. ASSUME NEW s, Apart(s, r), \A k \in 1 .. Len(t) : Apart(s, t[k]), NEW k \in 1 .. Len(u) PROVE Apart(s, u[k])
  BY <1>2, <1>3, <1>9
<1> QED
  BY <1>7, <1>8, <1>9 DEF u

LEMMA HeadIs ==
    ASSUME NEW n \in Nat, NEW el, NEW t, Pending(n, t), Ordered(el, n, t), t # <<>>
    PROVE  LET r == Head(t)
               rest == Tail(t)
           IN  /\ r \in Nat \X Nat /\ r = <<r[1], r[2]>> /\ r[1] < r[2] /\ r[2] < n
               /\ Pending(n, rest) /\ \A k \in 1 .. Len(rest) : Apart(r, rest[k])
               /\ OrderedAround(el, n, r, rest)
<1> DEFINE R == Nat \X Nat
           r == Head(t)
           rest == Tail(t)
<1>1. t \in Seq(R) /\ Len(t) \in Nat
  BY DEF Pending
<1>2. /\ Len(t) >= 1 /\ r = t[1] /\ rest \in Seq(R) /\ Len(rest) = Len(t) - 1
      /\ \A k \in 1 .. Len(rest) : rest[k] = t[k + 1]
  <2> HIDE DEF R
  <2> QED
    BY <1>1
<1> HIDE DEF R, r, rest
<1>3. 1 \in 1 .. Len(t) /\ \A k \in 1 .. Len(rest) : k + 1 \in 1 .. Len(t) /\ 1 < k + 1
  BY <1>1, <1>2
<1>4. r \in Nat \X Nat /\ r[1] < r[2] /\ r[2] < n
  <2>1. t[1] \in R
    BY <1>1, <1>3
  <2> QED
    BY <1>2, <1>3, <2>1 DEF Pending, R
<1>5. ASSUME NEW k \in 1 .. Len(rest) PROVE Apart(r, rest[k]) /\ rest[k][1] < rest[k][2] /\ rest[k][2] < n
  BY <1>2, <1>3 DEF Pending
<1>6. ASSUME NEW k \in 1 .. Len(rest), NEW l \in 1 .. Len(rest), k < l PROVE Apart(rest[k], rest[l])
  <2>1. k + 1 \in 1 .. Len(t) /\ l + 1 \in 1 .. Len(t) /\ k + 1 < l + 1
    BY <1>3, <1>6
  <2>2. Apart(t[k + 1], t[l + 1])
    BY <2>1 DEF Pending
  <2> QED
    BY <1>2, <2>2
<1>7. ASSUME NEW x, NEW y, Shared(t, x, y) PROVE Both(r, x, y) \/ Shared(rest, x, y)
  <2>1. PICK k \in 1 .. Len(t) : Both(t[k], x, y)
    BY <1>7 DEF Shared
  <2>2. CASE k = 1
    BY <1>2, <2>1, <2>2
  <2>3. CASE k # 1
    <3>1. k - 1 \in 1 .. Len(rest) /\ k - 1 + 1 = k
      BY <1>1, <1>2, <2>3
    <3>2. rest[k - 1] = t[k]
      BY <1>2, <3>1
    <3> QED
      BY <2>1, <3>1, <3>2 DEF Shared
  <2> QED
    BY <2>2, <2>3
<1>8. OrderedAround(el, n, r, rest)
  BY <1>7 DEF Ordered, OrderedAround
<1>9. r = <<r[1], r[2]>>
  BY <1>4
<1>10. Pending(n, rest)
  BY <1>2, <1>5, <1>6 DEF Pending, R
<1> QED
  BY <1>4, <1>5, <1>8, <1>9, <1>10 DEF r, rest

\* A partitioned range leaves its halves to sort.
LEMMA HalvesOrdered ==
    ASSUME NEW n \in Nat, NEW el, \A i \in 0 .. n - 1 : el[i] \in Element,
           NEW low \in Nat, NEW high \in Nat, high < n, NEW p \in low .. high,
           NEW t, Pending(n, t), \A k \in 1 .. Len(t) : Apart(<<low, high>>, t[k]),
           OrderedAround(el, n, <<low, high>>, t),
           \A x \in low .. p - 1 : Leq(el[x], el[p]), \A x \in p + 1 .. high : Leq(el[p], el[x])
    PROVE  LET u == Halves(low, p, high) \o t
           IN  Pending(n, u) /\ Ordered(el, n, u)
<1> DEFINE l == <<low, p - 1>>
           h == <<p + 1, high>>
           ht == IF p + 1 < high THEN <<h>> \o t ELSE t
           u == IF low < p - 1 THEN <<l>> \o ht ELSE ht
<1>1. Halves(low, p, high) \o t = u
  <2>1. t \in Seq(Nat \X Nat)
    BY DEF Pending
  <2>2. (<<l>> \o <<h>>) \o t = <<l>> \o (<<h>> \o t)
    <3> HIDE DEF l, h
    <3> QED
      BY <2>1
  <2>3. <<>> \o t = t
    BY <2>1
  <2>4. <<l>> \o <<>> = <<l>> /\ <<>> \o <<h>> = <<h>> /\ <<>> \o <<>> = <<>>
    OBVIOUS
  <2> HIDE DEF l, h
  <2>5. Halves(low, p, high) = (IF low < p - 1 THEN <<l>> ELSE <<>>) \o (IF p + 1 < high THEN <<h>> ELSE <<>>)
    BY DEF Halves, l, h
  <2>6. CASE low < p - 1 /\ p + 1 < high
    BY <2>2, <2>5, <2>6
  <2>7. CASE low < p - 1 /\ ~(p + 1 < high)
    BY <2>4, <2>5, <2>7
  <2>8. CASE ~(low < p - 1) /\ p + 1 < high
    BY <2>4, <2>5, <2>8
  <2>9. CASE ~(low < p - 1) /\ ~(p + 1 < high)
    BY <2>3, <2>4, <2>5, <2>9
  <2> QED
    BY <2>6, <2>7, <2>8, <2>9
<1>2. \A k \in 1 .. Len(t) : t[k] \in Nat \X Nat /\ t[k][1] \in Nat /\ t[k][2] \in Nat
  BY DEF Pending
\* What is in different halves is in order.
<1>3. ASSUME NEW x \in 0 .. n - 1, NEW y \in 0 .. n - 1, x < y
      PROVE  \/ Leq(el[x], el[y]) \/ Shared(t, x, y)
             \/ low < p - 1 /\ Both(l, x, y)
             \/ p + 1 < high /\ Both(h, x, y)
  <2>1. el[x] \in Element /\ el[y] \in Element /\ el[p] \in Element
    BY <1>3
  <2>2. CASE Both(<<low, high>>, x, y)
    <3>1. low <= x /\ x <= high /\ low <= y /\ y <= high
      BY <2>2 DEF Both
    <3>2. CASE y < p
      <4>1. low < p - 1 /\ Both(l, x, y)
        BY <1>3, <3>1, <3>2 DEF Both
      <4> QED
        BY <4>1
    <3>3. CASE p < x
      <4>1. p + 1 < high /\ Both(h, x, y)
        BY <1>3, <3>1, <3>3 DEF Both
      <4> QED
        BY <4>1
    <3>4. CASE x <= p /\ p <= y
      <4>1. x = p \/ x \in low .. p - 1
        BY <1>3, <3>1, <3>4
      <4>2. y = p \/ y \in p + 1 .. high
        BY <1>3, <3>1, <3>4
      <4>3. Leq(el[x], el[p]) /\ Leq(el[p], el[y])
        BY <2>1, <4>1, <4>2, LeqOrder
      <4> QED
        BY <2>1, <4>3, LeqOrder
    <3> QED
      BY <1>3, <3>2, <3>3, <3>4
  <2>3. CASE ~Both(<<low, high>>, x, y)
    BY <1>3, <2>3 DEF OrderedAround
  <2> QED
    BY <2>2, <2>3
<1>4. /\ Pending(n, ht)
      /\ \A x, y : Shared(ht, x, y) <=> (p + 1 < high /\ Both(h, x, y)) \/ Shared(t, x, y)
      /\ low < p - 1 => \A k \in 1 .. Len(ht) : Apart(l, ht[k])
  <2>1. \A k \in 1 .. Len(t) : Apart(l, t[k]) /\ Apart(h, t[k])
    BY <1>2 DEF Apart
  <2>2. CASE p + 1 < high
    <3>1. h \in Nat \X Nat /\ h[1] < h[2] /\ h[2] < n /\ Apart(l, h)
      BY <2>2 DEF Apart
    <3> HIDE DEF h, l
    <3>2. /\ Pending(n, <<h>> \o t)
          /\ \A x, y : Shared(<<h>> \o t, x, y) <=> Both(h, x, y) \/ Shared(t, x, y)
          /\ \A s : Apart(s, h) /\ (\A k \in 1 .. Len(t) : Apart(s, t[k])) => \A k \in 1 .. Len(<<h>> \o t) : Apart(s, (<<h>> \o t)[k])
      BY <2>1, <3>1, ConsIs
    <3> QED
      BY <2>1, <2>2, <3>1, <3>2
  <2>3. CASE ~(p + 1 < high)
    <3> HIDE DEF h, l
    <3> QED
      BY <2>1, <2>3
  <2> QED
    BY <2>2, <2>3
<1>5. /\ Pending(n, u)
      /\ \A x, y : Shared(u, x, y) <=> (low < p - 1 /\ Both(l, x, y)) \/ Shared(ht, x, y)
  <2>1. CASE low < p - 1
    <3>1. l \in Nat \X Nat /\ l[1] < l[2] /\ l[2] < n
      BY <2>1
    <3> HIDE DEF l, ht
    <3>2. Pending(n, <<l>> \o ht) /\ \A x, y : Shared(<<l>> \o ht, x, y) <=> Both(l, x, y) \/ Shared(ht, x, y)
      BY <1>4, <2>1, <3>1, ConsIs
    <3> QED
      BY <2>1, <3>2
  <2>2. CASE ~(low < p - 1)
    <3> HIDE DEF ht, l
    <3> QED
      BY <1>4, <2>2
  <2> QED
    BY <2>1, <2>2
<1> HIDE DEF u, ht, l, h
<1>6. Ordered(el, n, u)
  BY <1>3, <1>4, <1>5 DEF Ordered
<1> QED
  BY <1>1, <1>5, <1>6

-----------------------------------------------------------------------------
(* The steps of a sort.                                                    *)

LEMMA ElementsOf ==
    ASSUME NEW a, Written(a), a.kind = "dense", a.len <= MaxLen
    PROVE  a.len \in Nat /\ \A i \in 0 .. a.len - 1 : i \in Slots /\ a.el[i] \in Element /\ a.el[i] # Garbage
<1>1. a.len \in Nat /\ a.el \in [Slots -> Element \union {Garbage}] /\ \A i \in 0 .. a.len - 1 : a.el[i] # Garbage
  BY DEF Written, Arrays
<1>2. MaxLen \in Nat /\ Slots = 0 .. Top /\ MaxLen <= Top /\ Top \in Nat
  BY ElementFacts, GrowthAssumption
<1>3. \A i \in 0 .. a.len - 1 : i \in Slots
  BY <1>1, <1>2
<1> QED
  BY <1>1, <1>3

LEMMA SwapExchanges ==
    ASSUME NEW a, Written(a), a.kind = "dense", a.len <= MaxLen,
           NEW x \in 0 .. a.len - 1, NEW y \in 0 .. a.len - 1
    PROVE  LET b == swap_dense(a, x, y)
           IN  /\ Written(b) /\ b.kind = "dense" /\ b.len = a.len
               /\ Exchanged(a.el, b.el, a.len, x, y)
<1> DEFINE b == swap_dense(a, x, y)
           el == [a.el EXCEPT ![x] = a.el[y], ![y] = a.el[x]]
<1>1. a.len \in Nat /\ \A i \in 0 .. a.len - 1 : i \in Slots /\ a.el[i] # Garbage
  BY ElementsOf
<1>2. Written(b) /\ b.kind = "dense" /\ b.len = a.len
  BY <1>1, SwapDenseKeeps, AfterFacts DEF Keeps
<1>3. a \in Arrays
  BY DEF Written
<1>4. b.el = el
  BY <1>3 DEF swap_dense, Arrays
<1>5. a.el \in [Slots -> Element \union {Garbage}]
  BY <1>3 DEF Arrays
<1>6. Exchanged(a.el, el, a.len, x, y)
  BY <1>1, <1>5 DEF Exchanged
<1> QED
  BY <1>2, <1>4, <1>6

LEMMA SortIsNotNil ==
    ASSUME NEW c, IsSort(c), c.user \in BOOLEAN, c.low \in Nat, c.high \in Nat, c.i \in Nat, c.storeIndex \in Nat,
           c.todo \in Seq(Nat \X Nat), c.pivot \in Element,
           NEW n \in 0 .. MaxLen, c.before \in [0 .. n - 1 -> Element]
    PROVE  c # Nil
<1> DEFINE B == UNION {[0 .. m - 1 -> Element] : m \in 0 .. MaxLen}
           P == Seq(Nat \X Nat)
<1>1. c.before \in B
  OBVIOUS
<1>2. Nil \notin [op : {"sort"}, user : BOOLEAN, todo : P, low : Nat, high : Nat, i : Nat,
                  storeIndex : Nat, pivot : Element, before : B]
  BY NilAssumption
<1>3. c.todo \in P
  OBVIOUS
<1> HIDE DEF B, P
<1>4. c \in [op : {"sort"}, user : BOOLEAN, todo : P, low : Nat, high : Nat, i : Nat,
             storeIndex : Nat, pivot : Element, before : B]
  BY <1>1, <1>3 DEF IsSort
<1> QED
  BY <1>2, <1>4

\* The next range, or the end.
LEMMA StartIs ==
    ASSUME NEW b, NEW c, IsSort(c), NEW todo, StartPartition(c, b, todo)
    PROVE  \/ todo = <<>> /\ call' = Nil /\ arr' = b
           \/ LET low == Head(todo)[1]
                  high == Head(todo)[2]
                  m == low + (high - low) \div 2
              IN  /\ todo # <<>> /\ IsSort(call') /\ arr' = swap_dense(b, m, high)
                  /\ call'.user = c.user /\ call'.before = c.before /\ call'.todo = Tail(todo)
                  /\ call'.low = low /\ call'.high = high /\ call'.i = low /\ call'.storeIndex = low
                  /\ call'.pivot = b.el[m]
<1>1. CASE todo = <<>>
  BY <1>1 DEF StartPartition
<1>2. CASE todo # <<>>
  <2> DEFINE low == Head(todo)[1]
             high == Head(todo)[2]
             m == low + (high - low) \div 2
             rest == Tail(todo)
             pivot == b.el[m]
  <2>1. call' = NewRange(c, rest, low, high, low, low, pivot) /\ arr' = swap_dense(b, m, high)
    BY <1>2 DEF StartPartition, NewRange
  <2> HIDE DEF low, high, m, rest, pivot
  <2>2. NewRange(c, rest, low, high, low, low, pivot) =
        [op |-> "sort", user |-> c.user, todo |-> rest, low |-> low, high |-> high, i |-> low,
         storeIndex |-> low, pivot |-> pivot, before |-> c.before]
    BY NewRangeIs
  <2>3. call' = [op |-> "sort", user |-> c.user, todo |-> rest, low |-> low, high |-> high, i |-> low,
                 storeIndex |-> low, pivot |-> pivot, before |-> c.before]
    BY ONLY <2>1, <2>2
  <2>4. IsSort(call')
    BY <2>3 DEF IsSort
  <2>5. /\ call'.user = c.user /\ call'.before = c.before /\ call'.todo = rest
        /\ call'.low = low /\ call'.high = high /\ call'.i = low /\ call'.storeIndex = low
        /\ call'.pivot = pivot
    BY <2>3
  <2> QED
    BY <1>2, <2>1, <2>4, <2>5 DEF low, high, m, rest, pivot
<1> QED
  BY <1>1, <1>2

LEMMA StartOrders ==
    ASSUME NEW b, Written(b), b.kind = "dense", b.len <= MaxLen, NEW c, IsSort(c), c.user = FALSE, NEW todo,
           Pending(b.len, todo), Ordered(b.el, b.len, todo), Rearranged(c.before, b.el, b.len),
           StartPartition(c, b, todo)
    PROVE  \/ todo = <<>> /\ call' = Nil /\ arr' = b
           \/ call' # Nil /\ IsSort(call') /\ OrderInv(arr', call')
<1> SUFFICES ASSUME todo # <<>> PROVE call' # Nil /\ IsSort(call') /\ OrderInv(arr', call')
  BY StartIs
<1> DEFINE n == b.len
           r == Head(todo)
           low == r[1]
           high == r[2]
           rest == Tail(todo)
           m == low + (high - low) \div 2
           d == swap_dense(b, m, high)
<1>1. /\ IsSort(call') /\ arr' = d
      /\ call'.user = FALSE /\ call'.before = c.before /\ call'.todo = rest
      /\ call'.low = low /\ call'.high = high /\ call'.i = low /\ call'.storeIndex = low
      /\ call'.pivot = b.el[m]
  BY StartIs
<1>2. n \in Nat /\ \A i \in 0 .. n - 1 : b.el[i] \in Element
  BY ElementsOf
<1>3. /\ r \in Nat \X Nat /\ r = <<low, high>> /\ low < high /\ high < n
      /\ Pending(n, rest) /\ \A k \in 1 .. Len(rest) : Apart(r, rest[k])
      /\ OrderedAround(b.el, n, r, rest)
  <2> HIDE DEF n
  <2>1. Pending(n, todo) /\ Ordered(b.el, n, todo)
    BY DEF n
  <2> QED
    BY <1>2, <2>1, HeadIs
<1> HIDE DEF rest, r
<1>4. low \in Nat /\ high \in Nat
  BY <1>3
<1>5. m \in low .. high /\ high \in low .. high /\ m \in 0 .. n - 1 /\ high \in 0 .. n - 1
  <2> HIDE DEF low, high, n
  <2>1. m \in low .. high
    BY <1>3, <1>4
  <2> HIDE DEF m
  <2> QED
    BY <1>2, <1>3, <1>4, <2>1
<1> HIDE DEF m
<1>6. /\ Written(d) /\ d.kind = "dense" /\ d.len = n
      /\ Exchanged(b.el, d.el, n, m, high)
  BY <1>5, SwapExchanges
<1> HIDE DEF d, n
<1>7. OrderedAround(d.el, n, r, rest)
  BY <1>2, <1>3, <1>5, <1>6, AroundExchanged
<1>8. Rearranged(c.before, d.el, n)
  <2>1. Rearranged(c.before, b.el, n)
    BY DEF n
  <2> QED
    BY <1>2, <1>5, <1>6, <2>1, RearrangedExchanged
<1>9. d.el[high] = b.el[m] /\ b.el[m] \in Element
  BY <1>2, <1>5, <1>6 DEF Exchanged
<1>10. Partitioned(d.el, call')
  <2>1. low .. low - 1 = {}
    BY <1>4
  <2> HIDE DEF low, high
  <2> QED
    BY <1>1, <1>9, <2>1 DEF Partitioned
<1>11. call' # Nil
  <2>1. n \in 0 .. MaxLen /\ rest \in Seq(Nat \X Nat) /\ c.before \in [0 .. n - 1 -> Element]
    BY <1>2, <1>3, <1>8, GrowthAssumption DEF n, Pending, Rearranged
  <2> HIDE DEF low, high
  <2> QED
    BY <1>1, <1>4, <1>9, <2>1, SortIsNotNil
<1>12. OrderInv(arr', call')
  <2> HIDE DEF low, high
  <2> QED
    BY <1>1, <1>3, <1>6, <1>7, <1>8, <1>10 DEF OrderInv
<1> QED
  BY <1>1, <1>11, <1>12

LEMMA StepOrders ==
    ASSUME ElementsInv, call # Nil, IsSort(call), OrderInv(arr, call), NEW cmp \in {-1, 0, 1}, SortStep(cmp)
    PROVE  \/ /\ call' = Nil /\ Rearranged(call.before, arr'.el, arr.len)
              /\ Ordered(arr'.el, arr.len, <<>>)
           \/ call' # Nil /\ IsSort(call') /\ OrderInv(arr', call')
<1> DEFINE n == arr.len
           low == call.low
           high == call.high
           r == <<low, high>>
           i == call.i
           s == call.storeIndex
           t == call.todo
           pivot == call.pivot
           a == IF cmp < 1 THEN swap_dense(arr, i, s) ELSE arr
           p == IF cmp < 1 THEN s + 1 ELSE s
<1>1. IsSort(call) /\ SortInv(arr, call)
  BY DEF ElementsInv, CallInv, IsFrame, Methods, IsSort
<1>2. /\ arr.kind = "dense" /\ low \in Nat /\ high \in Nat /\ i \in Nat /\ s \in Nat
      /\ low <= s /\ s <= i /\ i < high
  BY <1>1 DEF SortInv
<1>3. Written(arr) /\ n \in 0 .. MaxLen /\ n <= MaxLen
  BY <1>2, GrowthAssumption DEF ElementsInv, OkArray
<1>4. n \in Nat /\ \A j \in 0 .. n - 1 : arr.el[j] \in Element
  BY <1>2, <1>3, ElementsOf
<1>5. /\ call.user = FALSE /\ high < n /\ Pending(n, t)
      /\ \A k \in 1 .. Len(t) : Apart(r, t[k])
      /\ OrderedAround(arr.el, n, r, t) /\ Rearranged(call.before, arr.el, n)
  BY DEF OrderInv
<1>6. /\ arr.el[high] = pivot
      /\ \A x \in low .. s - 1 : Leq(arr.el[x], pivot)
      /\ \A x \in s .. i - 1 : Leq(pivot, arr.el[x])
  BY DEF OrderInv, Partitioned
<1>7. /\ cmp \in SortCompare(FALSE, arr.el[i], pivot)
      /\ IF i + 1 < high
         THEN arr' = a /\ call' = [call EXCEPT !.i = i + 1, !.storeIndex = p]
         ELSE StartPartition(call, swap_dense(a, p, high), Halves(low, p, high) \o t)
  BY <1>5 DEF SortStep
<1>8. r \in Nat \X Nat /\ r[1] = low /\ r[2] = high
  BY <1>2
<1> HIDE DEF n, low, high, i, s, t, pivot, r, a, p
<1>9. i \in low .. high /\ s \in low .. high /\ high \in low .. high /\ low .. high \subseteq 0 .. n - 1
  BY <1>2, <1>4, <1>5
<1>10. pivot \in Element /\ arr.el[i] \in Element
  BY <1>4, <1>6, <1>9
<1>11. IF cmp < 1 THEN Leq(arr.el[i], pivot) ELSE Leq(pivot, arr.el[i])
  BY <1>7, <1>10, CompareIs
\* After the comparison, i is among the elements that have been looked at.
<1>12. /\ Written(a) /\ a.kind = "dense" /\ a.len = n
       /\ OrderedAround(a.el, n, r, t) /\ Rearranged(call.before, a.el, n)
       /\ a.el[high] = pivot
       /\ \A x \in low .. p - 1 : Leq(a.el[x], pivot)
       /\ \A x \in p .. i : Leq(pivot, a.el[x])
  <2>1. CASE cmp < 1
    <3>1. a = swap_dense(arr, i, s) /\ p = s + 1
      BY <2>1 DEF a, p
    <3>2. /\ Written(a) /\ a.kind = "dense" /\ a.len = n
          /\ Exchanged(arr.el, a.el, n, i, s)
      BY <1>2, <1>3, <1>9, <3>1, SwapExchanges DEF n
    <3>3. OrderedAround(a.el, n, r, t) /\ Rearranged(call.before, a.el, n)
      BY <1>4, <1>5, <1>8, <1>9, <3>2, AroundExchanged, RearrangedExchanged
    <3>4. a.el[s] = arr.el[i] /\ a.el[i] = arr.el[s] /\ \A x \in 0 .. n - 1 : x # i /\ x # s => a.el[x] = arr.el[x]
      BY <3>2 DEF Exchanged
    <3>5. a.el[high] = pivot
      BY <1>2, <1>6, <1>9, <3>4
    <3>6. ASSUME NEW x \in low .. p - 1 PROVE Leq(a.el[x], pivot)
      <4>1. x = s \/ (x \in low .. s - 1 /\ x # i /\ x # s /\ x \in 0 .. n - 1)
        BY <1>2, <1>4, <1>5, <3>1
      <4> QED
        BY <1>6, <1>11, <2>1, <3>4, <4>1
    <3>7. ASSUME NEW x \in p .. i PROVE Leq(pivot, a.el[x])
      <4>1. CASE x = i
        <5>1. s \in s .. i - 1
          BY <1>2, <3>1, <4>1
        <5> QED
          BY <1>6, <3>4, <4>1, <5>1
      <4>2. CASE x # i
        <5>1. x \in s .. i - 1 /\ x # s /\ x \in 0 .. n - 1
          BY <1>2, <1>4, <1>5, <3>1, <4>2
        <5> QED
          BY <1>6, <3>4, <4>2, <5>1
      <4> QED
        BY <4>1, <4>2
    <3> QED
      BY <3>2, <3>3, <3>5, <3>6, <3>7
  <2>2. CASE ~(cmp < 1)
    <3>1. a = arr /\ p = s
      BY <2>2 DEF a, p
    <3>2. ASSUME NEW x \in p .. i PROVE Leq(pivot, a.el[x])
      <4>1. x = i \/ x \in s .. i - 1
        BY <1>2, <3>1
      <4> QED
        BY <1>6, <1>11, <2>2, <3>1, <4>1
    <3> QED
      BY <1>2, <1>3, <1>5, <1>6, <3>1, <3>2 DEF n
  <2> QED
    BY <2>1, <2>2
<1>13. p \in Nat /\ low <= p /\ p <= i + 1 /\ p \in low .. high
  <2>1. p = s + 1 \/ p = s
    BY DEF p
  <2> QED
    BY <1>2, <2>1
<1>14. CASE i + 1 < high
  <2>1. arr' = a /\ call' = [op |-> "sort", user |-> call.user, todo |-> t, low |-> low, high |-> high, i |-> i + 1,
                             storeIndex |-> p, pivot |-> pivot, before |-> call.before]
    BY <1>7, <1>14, NextComparisonIs DEF t, low, high, pivot
  <2>2. IsSort(call')
    BY <2>1 DEF IsSort
  <2>3. /\ call'.user = FALSE /\ call'.todo = t /\ call'.low = low /\ call'.high = high /\ call'.i = i + 1
        /\ call'.storeIndex = p /\ call'.pivot = pivot /\ call'.before = call.before
    BY <1>5, <2>1
  <2>4. Partitioned(a.el, call')
    <3> DEFINE c == call'
    <3>2. c.high = high /\ c.low = low /\ c.storeIndex = p /\ c.i = i + 1 /\ c.pivot = pivot
      BY <2>3
    <3> HIDE DEF c
    <3>4. c.i - 1 = i
      BY <1>2, <3>2
    <3>3. Partitioned(a.el, c)
      BY <1>12, <3>2, <3>4 DEF Partitioned
    <3> QED
      BY <3>3 DEF c
  <2>5. OrderInv(arr', call')
    BY <1>5, <1>12, <2>1, <2>3, <2>4 DEF OrderInv, r
  <2>6. call' # Nil
    <3>1. i + 1 \in Nat /\ t \in Seq(Nat \X Nat) /\ call.before \in [0 .. n - 1 -> Element] /\ n \in 0 .. MaxLen
      BY <1>2, <1>3, <1>5 DEF n, Pending, Rearranged
    <3> QED
      BY <1>2, <1>10, <1>13, <2>2, <2>3, <3>1, SortIsNotNil
  <2> QED
    BY <2>2, <2>5, <2>6
<1>15. CASE ~(i + 1 < high)
  <2> DEFINE b == swap_dense(a, p, high)
             u == Halves(low, p, high) \o t
  <2>1. i + 1 = high /\ p \in 0 .. n - 1 /\ high \in 0 .. n - 1
    BY <1>2, <1>9, <1>13, <1>15
  <2>2. /\ Written(b) /\ b.kind = "dense" /\ b.len = n
        /\ Exchanged(a.el, b.el, n, p, high)
    <3>1. a.len <= MaxLen
      BY <1>3, <1>12 DEF n
    <3> QED
      BY <1>12, <2>1, <3>1, SwapExchanges
  <2>3. StartPartition(call, b, u)
    BY <1>7, <1>15
  <2> HIDE DEF b
  <2>4. OrderedAround(b.el, n, r, t) /\ Rearranged(call.before, b.el, n)
    BY <1>4, <1>5, <1>8, <1>9, <1>12, <1>13, <2>1, <2>2, AroundExchanged, RearrangedExchanged
  <2>5. b.el[p] = pivot /\ b.el[high] = a.el[p] /\ \A x \in 0 .. n - 1 : x # p /\ x # high => b.el[x] = a.el[x]
    BY <1>12, <2>2 DEF Exchanged
  <2>6. ASSUME NEW x \in low .. p - 1 PROVE Leq(b.el[x], b.el[p])
    <3>1. x # p /\ x # high /\ x \in 0 .. n - 1
      BY <1>2, <1>4, <1>5, <1>13
    <3> QED
      BY <1>12, <2>5, <3>1
  <2>7. ASSUME NEW x \in p + 1 .. high PROVE Leq(b.el[p], b.el[x])
    <3>1. CASE x = high
      <4>1. p \in p .. i
        BY <1>2, <1>13, <2>1, <3>1
      <4> QED
        BY <1>12, <2>5, <3>1, <4>1
    <3>2. CASE x # high
      <4>1. x \in p .. i /\ x # p /\ x \in 0 .. n - 1
        BY <1>2, <1>4, <1>5, <1>13, <2>1, <3>2
      <4> QED
        BY <1>12, <2>5, <3>2, <4>1
    <3> QED
      BY <3>1, <3>2
  <2>8. b.len <= MaxLen /\ \A j \in 0 .. n - 1 : b.el[j] \in Element
    <3>1. b.len <= MaxLen
      BY <1>3, <2>2 DEF n
    <3> QED
      BY <2>2, <3>1, ElementsOf
  <2>9. Pending(n, u) /\ Ordered(b.el, n, u)
    BY <1>2, <1>4, <1>5, <1>13, <2>4, <2>6, <2>7, <2>8, HalvesOrdered DEF r
  <2> HIDE DEF u
  <2>10. \/ u = <<>> /\ call' = Nil /\ arr' = b
         \/ call' # Nil /\ IsSort(call') /\ OrderInv(arr', call')
    BY <1>1, <1>5, <2>2, <2>3, <2>4, <2>8, <2>9, StartOrders
  <2> QED
    BY <2>4, <2>9, <2>10 DEF n
<1> QED
  BY <1>14, <1>15

-----------------------------------------------------------------------------
(* The methods that run callbacks.                                         *)

\* The index the callback is called for next.
LEMMA NextIndexIs ==
    ASSUME NEW a, a.len \in Nat, NEW c, c.len \in Nat, NEW k \in Int, c.op = "reduceRight" \/ k \in Nat,
           NextIndex(c, a, k) # Nil
    PROVE  /\ NextIndex(c, a, k) \in Nat
           /\ IF c.op = "reduceRight" THEN NextIndex(c, a, k) <= k ELSE NextIndex(c, a, k) >= k
           /\ c.op \notin {"forEach", "from", "reduceRight"} => NextIndex(c, a, k) < c.len
<1> DEFINE next == NextIndex(c, a, k)
<1>1. CASE c.op = "reduceRight"
  <2> DEFINE ahead == {i \in 0 .. k : HasProperty(a, i)}
  <2>1. next = IF ahead = {} THEN Nil ELSE Max(ahead)
    BY <1>1 DEF NextIndex
  <2>2. ahead \in SUBSET (0 .. k)
    OBVIOUS
  <2> HIDE DEF next, ahead
  <2>3. next \in ahead
    BY <2>1, <2>2, MaxIn DEF next
  <2>4. next \in 0 .. k
    BY <2>2, <2>3
  <2> QED
    BY <1>1, <2>4 DEF next
<1>2. CASE c.op # "reduceRight"
  <2> DEFINE limit == Limit(c, a)
             ahead == {i \in k .. limit - 1 : Present(c.op, a, i)}
  <2>1. next = IF ahead = {} THEN Nil ELSE Min(ahead)
    BY <1>2 DEF NextIndex
  <2>2. limit \in Nat /\ (c.op \notin {"forEach", "from"} => limit = c.len)
    BY DEF Limit
  <2> HIDE DEF limit
  <2>3. ahead \in SUBSET Nat /\ ahead \in SUBSET (k .. limit - 1)
    BY <1>2, <2>2
  <2> HIDE DEF next, ahead
  <2>4. next \in ahead
    BY <2>1, <2>3, MinIn DEF next
  <2>5. next \in k .. limit - 1 /\ k \in Nat
    BY <1>2, <2>3, <2>4
  <2> QED
    BY <1>2, <2>2, <2>5 DEF next
<1> QED
  BY <1>1, <1>2

\* The callback is called for an index from k on, if at all.
LEMMA ResumeVisits ==
    ASSUME arr.len \in Nat, NEW c, IsFrame(c), c.len \in Nat, NEW k \in Int,
           IF c.op = "reduceRight" THEN k < c.len ELSE k \in Nat,
           Resume(c, arr, k), call' # Nil
    PROVE  /\ VisitInv(call')
           /\ call'.op = c.op /\ call'.len = c.len
           /\ IF c.op = "reduceRight" THEN call'.k <= k ELSE call'.k >= k
<1> DEFINE next == NextIndex(c, arr, k)
           acc == IF c.op = "filter" THEN Get(arr, next) ELSE c.acc
<1>1. /\ c = [op |-> c.op, k |-> c.k, len |-> c.len, to |-> c.to, acc |-> c.acc, A |-> c.A]
      /\ c.op \in Methods
  BY DEF IsFrame
<1>2. next # Nil /\ call' = [c EXCEPT !.k = next, !.acc = acc]
  BY <1>1 DEF Resume
<1>3. /\ next \in Nat
      /\ IF c.op = "reduceRight" THEN next <= k ELSE next >= k
      /\ c.op \notin {"forEach", "from"} => next < c.len
  <2>1. /\ next \in Nat
        /\ IF c.op = "reduceRight" THEN next <= k ELSE next >= k
        /\ c.op \notin {"forEach", "from", "reduceRight"} => next < c.len
    BY <1>2, NextIndexIs
  <2> HIDE DEF next
  <2> QED
    BY <2>1
<1> HIDE DEF next, acc
<1>4. call' = [op |-> c.op, k |-> next, len |-> c.len, to |-> c.to, acc |-> acc, A |-> c.A]
  BY <1>1, <1>2
<1>5. VisitInv(call') /\ call'.k = next /\ call'.op = c.op /\ call'.len = c.len
  BY <1>1, <1>3, <1>4 DEF VisitInv, IsFrame
<1> QED
  BY <1>3, <1>5

-----------------------------------------------------------------------------
(* Every step goes on in order.                                            *)

\* A method starts.
LEMMA StartVisits ==
    ASSUME OkArray(arr), NEW op \in Methods, NEW v, NEW k \in Int,
           IF op = "reduceRight" THEN k < arr.len ELSE k \in Nat,
           Resume([Frame(op, arr) EXCEPT !.acc = v], arr, k)
    PROVE  Going'
<1> SUFFICES ASSUME call' # Nil PROVE VisitInv(call')
  BY DEF Going
<1> DEFINE c == [Frame(op, arr) EXCEPT !.acc = v]
<1>1. arr.len \in Nat
  BY GrowthAssumption DEF OkArray
<1>2. IsFrame(c) /\ c.op = op /\ c.len = arr.len
  <2> DEFINE F == Frame(op, arr)
  <2>1. IsFrame(F) /\ F.op = op /\ F.len = arr.len
    BY FrameIs DEF Frame
  <2> HIDE DEF F
  <2>2. F = [op |-> F.op, k |-> F.k, len |-> F.len, to |-> F.to, acc |-> F.acc, A |-> F.A] /\ F.op \in Methods
    BY <2>1 DEF IsFrame
  <2>3. c = [F EXCEPT !.acc = v]
    BY DEF F
  <2> HIDE DEF c
  <2>4. c = [op |-> F.op, k |-> F.k, len |-> F.len, to |-> F.to, acc |-> v, A |-> F.A]
    BY <2>2, <2>3
  <2> QED
    BY <2>1, <2>2, <2>4 DEF IsFrame
<1> HIDE DEF c
<1>3. Resume(c, arr, k)
  BY DEF c
<1> QED
  BY <1>1, <1>2, <1>3, ResumeVisits

LEMMA ReturnVisits ==
    ASSUME ElementsInv, Going, NEW r, CallbackReturns(r)
    PROVE  Going' /\ SortDone /\ VisitsOnce
<1> DEFINE c == AfterCallback(call, r)
           k == IF call.op = "reduceRight" THEN call.k - 1 ELSE call.k + 1
<1>1. call # Nil /\ call.op \in Methods /\ call.op # "sort"
  BY DEF CallbackReturns, Methods
<1>2. VisitInv(call)
  BY <1>1 DEF Going, IsSort
<1>3. SortDone
  BY <1>1 DEF SortDone
<1>4. CASE call' = Nil
  BY <1>3, <1>4 DEF Going, VisitsOnce
<1>5. CASE call' # Nil
  <2>1. Resume(c, arr, k)
    BY <1>5 DEF CallbackReturns
  <2>2. IsFrame(c) /\ c.op = call.op /\ c.len = call.len
    BY <1>2 DEF AfterCallback, VisitInv, IsFrame
  <2>3. /\ call.k \in Nat /\ call.len \in Nat
        /\ call.op \notin {"forEach", "from"} => call.k < call.len
    BY <1>2 DEF VisitInv
  <2>4. k \in Int /\ IF call.op = "reduceRight" THEN k < call.len ELSE k \in Nat
    BY <2>3
  <2>5. arr.len \in Nat
    BY GrowthAssumption DEF ElementsInv, OkArray
  <2> HIDE DEF c
  <2>6. /\ VisitInv(call') /\ call'.op = call.op /\ call'.len = call.len
        /\ IF call.op = "reduceRight" THEN call'.k <= k ELSE call'.k >= k
    <3> HIDE DEF k
    <3> QED
      BY <1>5, <2>1, <2>2, <2>3, <2>4, <2>5, ResumeVisits
  <2>7. call'.k \in Nat /\ (call.op \notin {"forEach", "from"} => call'.k < call.len)
    BY <2>6 DEF VisitInv
  <2>8. IF call.op = "reduceRight" THEN call'.k < call.k ELSE call'.k > call.k
    BY <2>3, <2>6, <2>7
  <2> QED
    BY <1>3, <2>6, <2>7, <2>8 DEF Going, VisitsOnce
<1> QED
  BY <1>4, <1>5

LEMMA IterateVisits ==
    ASSUME ElementsInv, calls \in Nat, Going, Iterate
    PROVE  Going' /\ SortDone /\ VisitsOnce
<1>1. OkArray(arr) /\ arr.len \in Nat
  BY GrowthAssumption DEF ElementsInv, OkArray
<1>2. ASSUME call = Nil PROVE SortDone /\ VisitsOnce
  BY <1>2 DEF SortDone, VisitsOnce
<1>3. ASSUME call' = Nil PROVE Going' /\ VisitsOnce
  BY <1>3 DEF Going, VisitsOnce
<1>4. ASSUME NEW op \in {"every", "some", "filter", "find", "findIndex", "forEach", "map", "from"},
             Idle, Resume(Frame(op, arr), arr, 0)
      PROVE  Going' /\ SortDone /\ VisitsOnce
  <2>1. op \in Methods /\ op # "reduceRight" /\ 0 \in Int /\ 0 \in Nat
    BY DEF Methods
  <2>2. Frame(op, arr) = [Frame(op, arr) EXCEPT !.acc = Frame(op, arr).acc]
    <3> DEFINE F == Frame(op, arr)
    <3>1. F = [op |-> F.op, k |-> F.k, len |-> F.len, to |-> F.to, acc |-> F.acc, A |-> F.A]
      BY <1>1, <2>1, FrameIs DEF IsFrame
    <3> HIDE DEF F
    <3>2. F = [F EXCEPT !.acc = F.acc]
      BY <3>1
    <3> QED
      BY <3>2 DEF F
  <2>3. Going'
    BY <1>1, <1>4, <2>1, <2>2, StartVisits
  <2> QED
    BY <1>2, <1>4, <2>3 DEF Idle
<1>5. \/ _ejs_Array_prototype_every \/ _ejs_Array_prototype_some \/ _ejs_Array_prototype_filter
      \/ _ejs_Array_prototype_find \/ _ejs_Array_prototype_findIndex
      \/ _ejs_Array_prototype_forEach \/ _ejs_Array_prototype_map \/ _ejs_Array_from
      => Going' /\ SortDone /\ VisitsOnce
  BY <1>4 DEF _ejs_Array_prototype_every, _ejs_Array_prototype_some, _ejs_Array_prototype_filter,
     _ejs_Array_prototype_find, _ejs_Array_prototype_findIndex, _ejs_Array_prototype_forEach,
     _ejs_Array_prototype_map, _ejs_Array_from
<1>6. ASSUME NEW v \in Val \union {Nil}, _ejs_Array_prototype_reduce(v) PROVE Going' /\ SortDone /\ VisitsOnce
  <2> DEFINE c == Frame("reduce", arr)
             first == NextIndex(c, arr, 0)
             e == Get(arr, first)
  <2>1. /\ Idle
        /\ IF v # Nil THEN Resume([c EXCEPT !.acc = v], arr, 0)
           ELSE IF first = Nil THEN call' = Nil ELSE Resume([c EXCEPT !.acc = e], arr, first + 1)
    BY <1>6 DEF _ejs_Array_prototype_reduce
  <2>2. "reduce" \in Methods /\ 0 \in Int /\ 0 \in Nat
    BY DEF Methods
  <2>3. c.op = "reduce" /\ c.len = arr.len
    BY DEF Frame
  <2>4. first # Nil => first + 1 \in Nat
    <3> HIDE DEF c
    <3>1. first # Nil => first \in Nat
      BY <1>1, <2>2, <2>3, NextIndexIs
    <3> HIDE DEF first
    <3> QED
      BY <3>1
  <2> HIDE DEF first, e
  <2>5. CASE v # Nil
    BY <1>1, <1>2, <2>1, <2>2, <2>5, StartVisits DEF Idle
  <2>6. CASE v = Nil /\ first = Nil
    BY <1>2, <1>3, <2>1, <2>6 DEF Idle
  <2>7. CASE v = Nil /\ first # Nil
    <3>1. Resume([Frame("reduce", arr) EXCEPT !.acc = e], arr, first + 1) /\ first + 1 \in Int /\ first + 1 \in Nat
      BY <2>1, <2>4, <2>7
    <3>2. Going'
      BY <1>1, <2>2, <3>1, StartVisits
    <3> QED
      BY <1>2, <2>1, <3>2 DEF Idle
  <2> QED
    BY <2>5, <2>6, <2>7
<1>7. ASSUME NEW v \in Val \union {Nil}, _ejs_Array_prototype_reduceRight(v) PROVE Going' /\ SortDone /\ VisitsOnce
  <2>1. Idle /\ IF v # Nil THEN Resume([Frame("reduceRight", arr) EXCEPT !.acc = v], arr, arr.len - 1) ELSE call' = Nil
    BY <1>7 DEF _ejs_Array_prototype_reduceRight
  <2>2. "reduceRight" \in Methods /\ arr.len - 1 \in Int /\ arr.len - 1 < arr.len
    BY <1>1 DEF Methods
  <2>3. Going'
    BY <1>1, <1>3, <2>1, <2>2, StartVisits
  <2> QED
    BY <1>2, <2>1, <2>3 DEF Idle
<1>8. CASE CallbackThrows
  BY <1>3, <1>8 DEF CallbackThrows, InCallback, SortDone
<1> QED
  BY <1>5, <1>6, <1>7, <1>8, ReturnVisits DEF Iterate

\* While the program changes the array, no sort without comparefn is going on.
LEMMA MutateVisits ==
    ASSUME calls \in Nat, Going, Mutate
    PROVE  Going' /\ SortDone /\ VisitsOnce
<1>1. (call = Nil \/ InCallback) /\ call' = call /\ calls' = calls + 1
  BY DEF Mutate, Set, Delete, Length, Push, Unshift, Pop, Shift, ReverseArray, Splice, Fill, CopyWithin, Change, Calls
<1>2. Going'
  <2>1. CASE call = Nil
    BY <1>1, <2>1 DEF Going
  <2>2. CASE VisitInv(call)
    BY <1>1, <2>2 DEF Going
  <2>3. CASE call # Nil /\ IsSort(call) /\ call.user \in BOOLEAN
    <3>1. call.op = "sort"
      BY <2>3 DEF IsSort
    <3>2. call.user
      BY <1>1, <2>3, <3>1 DEF InCallback
    <3> QED
      BY <1>1, <2>3, <3>2 DEF Going
  <2> QED
    BY <2>1, <2>2, <2>3 DEF Going
<1> QED
  BY <1>1, <1>2 DEF SortDone, VisitsOnce

\* A sort without comparefn starts with all its elements in one range.
LEMMA SortStarts ==
    ASSUME ElementsInv, calls \in Nat, NEW user \in BOOLEAN, _ejs_Array_prototype_sort(user)
    PROVE  Going' /\ SortDone /\ VisitsOnce
<1> DEFINE n == arr.len
           r == <<0, n - 1>>
           todo == IF n > 1 THEN <<r>> ELSE <<>>
           c == [op |-> "sort", user |-> user, todo |-> <<>>, low |-> 0, high |-> 0, i |-> 0,
                 storeIndex |-> 0, pivot |-> Nil,
                 before |-> IF user THEN Nil ELSE [i \in 0 .. n - 1 |-> arr.el[i]]]
<1>1. call = Nil /\ arr.kind = "dense" /\ StartPartition(c, arr, todo)
  BY DEF _ejs_Array_prototype_sort, Idle
<1>2. IsSort(c) /\ c.user = user /\ (user = FALSE => c.before = [i \in 0 .. n - 1 |-> arr.el[i]])
  BY DEF IsSort
<1>3. Written(arr) /\ n <= MaxLen /\ n \in Nat /\ \A i \in 0 .. n - 1 : arr.el[i] \in Element
  <2>1. Written(arr) /\ arr.len <= MaxLen
    BY <1>1, GrowthAssumption DEF ElementsInv, OkArray
  <2> QED
    BY <1>1, <2>1, ElementsOf
<1>4. SortDone /\ VisitsOnce
  BY <1>1 DEF SortDone, VisitsOnce
<1> HIDE DEF c
<1>5. CASE user
  <2> HIDE DEF todo
  <2>1. call' # Nil => IsSort(call') /\ call'.user = user
    BY <1>1, <1>2, StartIs
  <2> QED
    BY <1>4, <1>5, <2>1 DEF Going
<1>6. CASE user = FALSE
  <2>1. Rearranged(c.before, arr.el, n)
    BY <1>2, <1>3, <1>6 DEF Rearranged
  <2>2. Pending(n, todo) /\ Ordered(arr.el, n, todo)
    <3>1. CASE n > 1
      <4>1. r \in Nat \X Nat /\ r[1] = 0 /\ r[2] = n - 1
        BY <1>3, <3>1
      <4> HIDE DEF r
      <4>2. todo \in Seq(Nat \X Nat) /\ Len(todo) = 1 /\ todo[1] = r
        BY <3>1, <4>1
      <4> HIDE DEF todo
      <4>3. \A k \in 1 .. Len(todo) : k = 1
        BY <4>2
      <4>4. Pending(n, todo)
        BY <1>3, <3>1, <4>1, <4>2, <4>3 DEF Pending
      <4>5. ASSUME NEW x \in 0 .. n - 1, NEW y \in 0 .. n - 1 PROVE Shared(todo, x, y)
        <5>1. Both(r, x, y)
          BY <1>3, <4>1, <4>5 DEF Both
        <5> QED
          BY <4>2, <5>1 DEF Shared
      <4> QED
        BY <4>4, <4>5 DEF Ordered
    <3>2. CASE ~(n > 1)
      <4>1. todo = <<>>
        BY <3>2
      <4>2. \A x, y \in 0 .. n - 1 : ~(x < y)
        BY <1>3, <3>2
      <4> HIDE DEF todo
      <4>3. todo \in Seq(Nat \X Nat) /\ 1 .. Len(todo) = {}
        BY <4>1
      <4> QED
        BY <4>2, <4>3 DEF Pending, Ordered
    <3> QED
      BY <3>1, <3>2
  <2> HIDE DEF todo
  <2>3. \/ call' = Nil
        \/ IsSort(call') /\ OrderInv(arr', call')
    BY <1>1, <1>2, <1>3, <1>6, <2>1, <2>2, StartOrders
  <2> QED
    BY <1>4, <2>3 DEF Going, OrderInv
<1> QED
  BY <1>4, <1>5, <1>6

LEMMA SortStepOrders ==
    ASSUME ElementsInv, Going, NEW cmp \in {-1, 0, 1}, SortStep(cmp)
    PROVE  Going' /\ SortDone /\ VisitsOnce
<1>1. call # Nil /\ call.op = "sort"
  BY DEF SortStep
<1>2. IsSort(call) /\ call.user \in BOOLEAN /\ (call.user \/ OrderInv(arr, call))
  BY <1>1 DEF Going, VisitInv, IsFrame, Methods
<1>3. VisitsOnce
  BY <1>1 DEF VisitsOnce, Methods
<1>4. CASE call.user
  <2> DEFINE i == call.i + 1
             p == IF cmp < 1 THEN call.storeIndex + 1 ELSE call.storeIndex
             a == IF cmp < 1 THEN swap_dense(arr, call.i, call.storeIndex) ELSE arr
             b == swap_dense(a, p, call.high)
             todo == Halves(call.low, p, call.high) \o call.todo
  <2>1. IF i < call.high THEN call' = [call EXCEPT !.i = i, !.storeIndex = p] ELSE StartPartition(call, b, todo)
    BY DEF SortStep
  <2> HIDE DEF i, p, b, todo
  <2>2. call' # Nil => IsSort(call') /\ call'.user = call.user
    <3>1. CASE i < call.high
      <4>1. call' = [op |-> "sort", user |-> call.user, todo |-> call.todo, low |-> call.low, high |-> call.high,
                     i |-> i, storeIndex |-> p, pivot |-> call.pivot, before |-> call.before]
        BY <1>2, <2>1, <3>1, NextComparisonIs
      <4> QED
        BY <4>1 DEF IsSort
    <3>2. CASE ~(i < call.high)
      BY <1>2, <2>1, <3>2, StartIs
    <3> QED
      BY <3>1, <3>2
  <2> QED
    BY <1>2, <1>3, <1>4, <2>2 DEF Going, SortDone
<1>5. CASE call.user = FALSE
  <2>1. \/ /\ call' = Nil /\ Rearranged(call.before, arr'.el, arr.len)
           /\ Ordered(arr'.el, arr.len, <<>>)
        \/ call' # Nil /\ IsSort(call') /\ OrderInv(arr', call')
    BY <1>1, <1>2, <1>5, StepOrders
  <2>2. CASE call' # Nil
    BY <1>3, <2>1, <2>2 DEF Going, SortDone, OrderInv
  <2>3. CASE call' = Nil
    <3> DEFINE n == arr.len
               old == call.before
               el == arr'.el
    <3>1. DOMAIN old = 0 .. n - 1 /\ \A v \in Element : Count(old, v) = Count([i \in 0 .. n - 1 |-> el[i]], v)
      BY <2>1, <2>3 DEF Rearranged
    <3>2. \A x, y \in 0 .. n - 1 : x < y => Leq(el[x], el[y])
      <4>1. 1 .. Len(<<>>) = {}
        OBVIOUS
      <4> QED
        BY <2>1, <2>3, <4>1 DEF Ordered, Shared
    <3> HIDE DEF n, old, el
    <3>3. /\ \A v \in Element : Count(old, v) = Count([i \in DOMAIN old |-> el[i]], v)
          /\ \A i, j \in DOMAIN old : i < j =>
                \/ el[j] = undefined
                \/ el[i] # undefined /\ AsString(el[i]) <= AsString(el[j])
      BY <3>1, <3>2 DEF Leq
    <3>4. SortDone
      BY <3>3 DEF SortDone, old, el
    <3> QED
      BY <1>3, <2>3, <3>4 DEF Going
  <2> QED
    BY <2>2, <2>3
<1> QED
  BY <1>2, <1>4, <1>5

-----------------------------------------------------------------------------
(* The theorem.                                                            *)

LEMMA NextVisits ==
    ASSUME CallbacksInv, Next
    PROVE  CallbacksInv' /\ SortDone /\ VisitsOnce
<1>1. ElementsInv /\ calls \in Nat /\ Going
  BY DEF CallbacksInv
<1>2. ElementsInv'
  BY <1>1, NextElements
<1>3. calls' \in Nat
  <2>1. ASSUME calls' = calls \/ Calls PROVE calls' \in Nat
    BY <1>1, <2>1 DEF Calls
  <2>2. NewArray \/ SparseSet => Calls
    BY DEF NewArray, Fresh, SparseSet
  <2>3. Mutate => Calls
    BY DEF Mutate, Set, Delete, Length, Push, Unshift, Pop, Shift, ReverseArray, Splice, Fill, CopyWithin, Change
  <2>4. Sort => calls' = calls \/ Calls
    BY DEF Sort, _ejs_Array_prototype_sort, _ejs_Array_prototype_sort_generic, SortStep
  <2>5. Iterate => calls' = calls \/ Calls
    BY DEF Iterate, _ejs_Array_prototype_every, _ejs_Array_prototype_some, _ejs_Array_prototype_filter,
       _ejs_Array_prototype_find, _ejs_Array_prototype_findIndex, _ejs_Array_prototype_forEach,
       _ejs_Array_prototype_map, _ejs_Array_from, _ejs_Array_prototype_reduce, _ejs_Array_prototype_reduceRight,
       CallbackReturns, CallbackThrows
  <2> QED
    BY <2>1, <2>2, <2>3, <2>4, <2>5 DEF Next
<1>4. ASSUME call = Nil, call' = Nil PROVE Going' /\ SortDone /\ VisitsOnce
  BY <1>4 DEF Going, SortDone, VisitsOnce
<1>5. NewArray => Going' /\ SortDone /\ VisitsOnce
  BY <1>4 DEF NewArray, Fresh, Idle
<1>6. SparseSet \/ _ejs_Array_prototype_sort_generic => Going' /\ SortDone /\ VisitsOnce
  BY <1>4 DEF SparseSet, _ejs_Array_prototype_sort_generic, Idle
<1>7. Sort => Going' /\ SortDone /\ VisitsOnce
  BY <1>1, <1>6, SortStarts, SortStepOrders DEF Sort
<1>8. Mutate \/ Iterate => Going' /\ SortDone /\ VisitsOnce
  BY <1>1, MutateVisits, IterateVisits
<1> QED
  BY <1>2, <1>3, <1>5, <1>6, <1>7, <1>8 DEF CallbacksInv, Next

\* The methods of ejs-array.c that run callbacks visit indices in order and each once,
\* none behind the length they read (but forEach and Array.from), whatever the callbacks
\* do to the array; and quicksort in place, with the comparisons of SortCompare, ends
\* with the elements it was given in order.
THEOREM CallbacksAlwaysExact == Spec => CallbacksExact
<1>1. Init => CallbacksInv
  <2> SUFFICES ASSUME Init PROVE CallbacksInv
    OBVIOUS
  <2>1. ElementsInv
    BY InitElements
  <2>2. call = Nil /\ calls = 0
    BY DEF Init
  <2> QED
    BY <2>1, <2>2 DEF CallbacksInv, Going
<1>2. CallbacksInv /\ [Next]_vars => CallbacksInv'
  <2>1. ASSUME CallbacksInv, UNCHANGED vars PROVE CallbacksInv'
    <3>1. ElementsInv'
      BY <2>1, NextElements DEF CallbacksInv
    <3> QED
      BY <2>1, <3>1 DEF CallbacksInv, Going, vars
  <2> QED
    BY <2>1, NextVisits
<1>3. CallbacksInv /\ [Next]_vars => [SortDone /\ VisitsOnce]_vars
  BY NextVisits
<1> QED
  BY <1>1, <1>2, <1>3, PTL DEF Spec, CallbacksExact
==============================================================================
