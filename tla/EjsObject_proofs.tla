-------------------------- MODULE EjsObject_proofs --------------------------
(***************************************************************************)
(* Property maps stay well formed hash tables, prototypes end, properties  *)
(* keep what they promise, enumeration is exact and proxies are honest,    *)
(* for any names, hash function, bucket sizes, objects and values.         *)
(***************************************************************************)
EXTENDS EjsProxy, FiniteSetTheorems, WellFoundedInduction, TLAPS

-----------------------------------------------------------------------------
(* Induction and recursion along an interval.  Sets and functions take the   *)
(* place of operator parameters.                                             *)

\* A set that contains 0 and with a number the next one contains all.
LEMMA Induction ==
    ASSUME NEW P, 0 \in P, \A n \in Nat : n \in P => n + 1 \in P
    PROVE  \A n \in Nat : n \in P
<1> DEFINE T == {n \in Nat : n \notin P}
<1> SUFFICES ASSUME T # {} PROVE FALSE
  OBVIOUS
<1>1. T \subseteq Nat
  OBVIOUS
<1>2. PICK x \in T : \A y \in T : ~(<<y, x>> \in OpToRel(<, Nat))
  BY <1>1, NatLessThanWellFounded, WFMin
<1>3. x \in Nat /\ x # 0 /\ x - 1 \in Nat /\ x - 1 + 1 = x
  OBVIOUS
<1>4. x - 1 \in T
  BY <1>3
<1>5. <<x - 1, x>> \in OpToRel(<, Nat)
  BY <1>3 DEF OpToRel
<1> QED
  BY <1>2, <1>4, <1>5

\* The same up to a bound.
LEMMA BoundedInduction ==
    ASSUME NEW N \in Nat, NEW P, 0 \in P, \A n \in 0 .. N - 1 : n \in P => n + 1 \in P
    PROVE  \A n \in 0 .. N : n \in P
<1> DEFINE Q == {n \in Nat : n \in 0 .. N => n \in P}
<1>1. 0 \in Q
  OBVIOUS
<1>2. ASSUME NEW n \in Nat, n \in Q PROVE n + 1 \in Q
  <2>1. CASE n + 1 \in 0 .. N
    <3>1. n \in 0 .. N - 1 /\ n \in 0 .. N
      BY <2>1
    <3> QED
      BY <1>2, <3>1
  <2>2. CASE n + 1 \notin 0 .. N
    BY <2>2
  <2> QED
    BY <2>1, <2>2
<1> HIDE DEF Q
<1>3. \A n \in Nat : n \in Q
  BY <1>1, <1>2, Induction
<1> QED
  BY <1>3 DEF Q

Iterates(N, x0, step, f) == f[0] = x0 /\ \A i \in 1 .. N : f[i] = step[<<i, f[i - 1]>>]

\* A function defined by recursion exists.
LEMMA Recursion ==
    ASSUME NEW N \in Nat, NEW S, NEW x0 \in S, NEW step \in [(1 .. N) \X S -> S]
    PROVE  \E f \in [0 .. N -> S] : Iterates(N, x0, step, f)
<1> DEFINE Good(n, f) == f[0] = x0 /\ \A i \in 1 .. n : f[i] = step[<<i, f[i - 1]>>]
           P == {n \in 0 .. N : \E f \in [0 .. n -> S] : Good(n, f)}
<1>1. 0 \in P
  <2> DEFINE f == [i \in 0 .. 0 |-> x0]
  <2>1. f \in [0 .. 0 -> S] /\ f[0] = x0 /\ 1 .. 0 = {}
    OBVIOUS
  <2> HIDE DEF f
  <2>2. \E ff \in [0 .. 0 -> S] : Good(0, ff)
    BY <2>1
  <2>3. 0 \in 0 .. N
    OBVIOUS
  <2> QED
    BY <2>2, <2>3
<1>2. ASSUME NEW n \in 0 .. N - 1, n \in P PROVE n + 1 \in P
  <2>1. PICK f \in [0 .. n -> S] : Good(n, f)
    BY <1>2
  <2> DEFINE g == [i \in 0 .. n + 1 |-> IF i = n + 1 THEN step[<<n + 1, f[n]>>] ELSE f[i]]
  <2>2. n \in 0 .. n /\ <<n + 1, f[n]>> \in (1 .. N) \X S
    OBVIOUS
  <2>3. g \in [0 .. n + 1 -> S]
    BY <2>2
  <2>4. g[0] = x0 /\ g[n + 1] = step[<<n + 1, f[n]>>] /\ g[n] = f[n]
    BY <2>1
  <2>5. ASSUME NEW i \in 1 .. n PROVE g[i] = step[<<i, g[i - 1]>>]
    <3>1. g[i] = f[i] /\ g[i - 1] = f[i - 1]
      OBVIOUS
    <3> QED
      BY <2>1, <3>1
  <2>6. n + 1 - 1 = n /\ \A i \in 1 .. n + 1 : i \in 1 .. n \/ i = n + 1
    OBVIOUS
  <2> HIDE DEF g
  <2>7. ASSUME NEW i \in 1 .. n + 1 PROVE g[i] = step[<<i, g[i - 1]>>]
    BY <2>4, <2>5, <2>6
  <2>8. n + 1 \in 0 .. N
    OBVIOUS
  <2> QED
    BY <2>3, <2>4, <2>7, <2>8
<1> HIDE DEF P
<1>3. \A n \in 0 .. N : n \in P
  BY <1>1, <1>2, BoundedInduction
<1> QED
  BY <1>3 DEF P, Iterates

-----------------------------------------------------------------------------
(* Lists.                                                                   *)

Distinct(s) == \A i, j \in 1 .. Len(s) : s[i] = s[j] => i = j

\* s is the list without repetition that starts at start and is linked by next.
Lists(D, nil, next, start, s) ==
    /\ s \in Seq(D)
    /\ Distinct(s)
    /\ start = IF Len(s) = 0 THEN nil ELSE s[1]
    /\ \A i \in 1 .. Len(s) : next[s[i]] = IF i < Len(s) THEN s[i + 1] ELSE nil

\* A sequence without repetition is not longer than the set it is from.
LEMMA ShortList ==
    ASSUME NEW D, IsFiniteSet(D), NEW s \in Seq(D), Distinct(s)
    PROVE  /\ Cardinality(D) \in Nat
           /\ Len(s) <= Cardinality(D)
           /\ IsFiniteSet(Elements(s)) /\ Cardinality(Elements(s)) = Len(s)
<1>1. Cardinality(D) \in Nat
  BY FS_CardinalityType
<1>2. Elements(s) \subseteq D
  BY DEF Elements
<1>3. IsFiniteSet(Elements(s)) /\ Cardinality(Elements(s)) <= Cardinality(D)
  BY <1>2, FS_Subset
<1>4. s \in [1 .. Len(s) -> Elements(s)]
  BY DEF Elements
<1>5. s \in Bijection(1 .. Len(s), Elements(s))
  BY <1>4 DEF Bijection, Injection, Surjection, IsInjective, Elements, Distinct
<1>6. IsFiniteSet(1 .. Len(s)) /\ Cardinality(1 .. Len(s)) = Len(s)
  <2>1. 1 \in Int /\ Len(s) \in Int /\ Len(s) \in Nat
    OBVIOUS
  <2>2. /\ IsFiniteSet(1 .. Len(s))
        /\ Cardinality(1 .. Len(s)) = IF 1 > Len(s) THEN 0 ELSE Len(s) - 1 + 1
    BY <2>1, FS_Interval
  <2> QED
    BY <2>1, <2>2
<1>7. Cardinality(Elements(s)) = Len(s)
  BY <1>3, <1>5, <1>6, FS_Bijection DEF ExistsBijection
<1> QED
  BY <1>1, <1>3, <1>7

Walks(D, nil, s, at) ==
    /\ at[0] = (IF Len(s) = 0 THEN nil ELSE s[1])
    /\ \A i \in 1 .. Cardinality(D) : at[i - 1] = nil => at[i] = nil
    /\ \A i \in 1 .. Cardinality(D), k \in 1 .. Len(s) :
          at[i - 1] = s[k] => at[i] = IF k < Len(s) THEN s[k + 1] ELSE nil

\* A walk along a list comes to its elements and then stays at the end.
LEMMA WalkAlong ==
    ASSUME NEW D, IsFiniteSet(D), NEW nil, nil \notin D, NEW s \in Seq(D),
           Distinct(s), NEW at, Walks(D, nil, s, at)
    PROVE  /\ \A i \in 0 .. Cardinality(D) : at[i] = IF i < Len(s) THEN s[i + 1] ELSE nil
           /\ Cardinality({j \in 0 .. Cardinality(D) : at[j] # nil}) = Len(s)
<1> DEFINE N == Cardinality(D)
           P == {i \in 0 .. N : at[i] = IF i < Len(s) THEN s[i + 1] ELSE nil}
<1>1. N \in Nat /\ Len(s) <= N /\ Len(s) \in Nat
  BY ShortList
<1> HIDE DEF N
<1>2. 0 \in P
  BY <1>1 DEF Walks
<1>3. ASSUME NEW n \in 0 .. N - 1, n \in P PROVE n + 1 \in P
  <2>1. n + 1 \in 1 .. N /\ n + 1 - 1 = n /\ n \in Nat
    BY <1>1
  <2>2. CASE n < Len(s)
    <3>1. n + 1 \in 1 .. Len(s) /\ at[n + 1 - 1] = s[n + 1]
      BY <1>1, <1>3, <2>1, <2>2
    <3>2. at[n + 1] = IF n + 1 < Len(s) THEN s[n + 1 + 1] ELSE nil
      BY <2>1, <3>1 DEF N, Walks
    <3> QED
      BY <1>1, <2>1, <3>2
  <2>3. CASE ~(n < Len(s))
    <3>1. at[n + 1] = nil
      BY <1>3, <2>1, <2>3 DEF N, Walks
    <3>2. ~(n + 1 < Len(s))
      BY <1>1, <2>1, <2>3
    <3> QED
      BY <1>1, <2>1, <3>1, <3>2
  <2> QED
    BY <2>2, <2>3
<1> HIDE DEF P
<1>4. \A i \in 0 .. N : i \in P
  BY <1>1, <1>2, <1>3, BoundedInduction
<1>5. \A i \in 0 .. N : at[i] = IF i < Len(s) THEN s[i + 1] ELSE nil
  BY <1>4 DEF P
<1>6. ASSUME NEW i \in 0 .. N PROVE at[i] # nil <=> i \in 0 .. Len(s) - 1
  <2>1. CASE i < Len(s)
    <3>1. s[i + 1] \in D
      BY <1>1, <2>1
    <3> QED
      BY <1>1, <1>5, <2>1, <3>1
  <2>2. CASE ~(i < Len(s))
    BY <1>1, <1>5, <2>2
  <2> QED
    BY <2>1, <2>2
<1>7. {j \in 0 .. N : at[j] # nil} = 0 .. Len(s) - 1
  BY <1>1, <1>6
<1>8. Cardinality(0 .. Len(s) - 1) = Len(s)
  <2> DEFINE m == Len(s) - 1
  <2>1. m \in Int /\ 0 \in Int
    BY <1>1
  <2> HIDE DEF m
  <2>2. Cardinality(0 .. m) = IF 0 > m THEN 0 ELSE m - 0 + 1
    BY <2>1, FS_Interval
  <2> QED
    BY <1>1, <2>2 DEF m
<1> QED
  BY <1>5, <1>7, <1>8 DEF N

\* What Follow returns for a list.
LEMMA FollowIs ==
    ASSUME NEW next \in [Name -> Name \union {Nil}], NEW start, NEW s,
           Lists(Name, Nil, next, start, s)
    PROVE  Follow(next, start) = s
<1> DEFINE N == Cardinality(Name)
           Eq(at) == at = [i \in 0 .. N |-> IF i = 0 THEN start
                                            ELSE IF at[i - 1] = Nil THEN Nil ELSE next[at[i - 1]]]
           at == CHOOSE at : Eq(at)
           g == [i \in 0 .. N |-> IF i < Len(s) THEN s[i + 1] ELSE Nil]
<1>1. /\ s \in Seq(Name) /\ Len(s) \in Nat
      /\ Distinct(s)
      /\ start = IF Len(s) = 0 THEN Nil ELSE s[1]
      /\ \A i \in 1 .. Len(s) : next[s[i]] = IF i < Len(s) THEN s[i + 1] ELSE Nil
  BY DEF Lists
<1>2. N \in Nat /\ Len(s) <= N /\ Nil \notin Name /\ IsFiniteSet(Name)
  BY <1>1, NameAssumption, ShortList
<1> HIDE DEF N
<1>3. ASSUME NEW i \in 0 .. N
      PROVE  g[i] = IF i = 0 THEN start ELSE IF g[i - 1] = Nil THEN Nil ELSE next[g[i - 1]]
  <2>1. CASE i = 0
    BY <1>1, <1>2, <2>1
  <2>2. CASE i # 0 /\ i - 1 < Len(s)
    <3>1. i \in 1 .. Len(s) /\ g[i - 1] = s[i] /\ s[i] \in Name
      BY <1>1, <1>2, <2>2
    <3>2. next[s[i]] = IF i < Len(s) THEN s[i + 1] ELSE Nil
      BY <1>1, <3>1
    <3> QED
      BY <1>2, <2>2, <3>1, <3>2
  <2>3. CASE i # 0 /\ ~(i - 1 < Len(s))
    <3>1. g[i - 1] = Nil /\ ~(i < Len(s))
      BY <1>1, <1>2, <2>3
    <3> QED
      BY <2>3, <3>1
  <2> QED
    BY <2>1, <2>2, <2>3
<1>4. Eq(g)
  <2>1. g = [i \in 0 .. N |-> g[i]]
    OBVIOUS
  <2> HIDE DEF g
  <2> QED
    BY <1>3, <2>1
<1>5. Eq(at)
  <2> HIDE DEF Eq, g
  <2> QED
    BY <1>4
<1>6. at[0] = start /\ \A i \in 1 .. N : at[i] = IF at[i - 1] = Nil THEN Nil ELSE next[at[i - 1]]
  <2>1. 0 \in 0 .. N /\ \A i \in 1 .. N : i \in 0 .. N /\ i # 0
    BY <1>2
  <2> HIDE DEF at
  <2> QED
    BY <1>5, <2>1
<1>7. DOMAIN at = 0 .. N
  <2> HIDE DEF at
  <2> QED
    BY <1>5
<1>8. Follow(next, start) = [i \in 1 .. Cardinality({j \in DOMAIN at : at[j] # Nil}) |-> at[i - 1]]
  BY DEF Follow, N
<1> HIDE DEF at, g, Eq
<1>9. /\ \A i \in 0 .. N : at[i] = IF i < Len(s) THEN s[i + 1] ELSE Nil
      /\ Cardinality({j \in 0 .. N : at[j] # Nil}) = Len(s)
  <2>1. at[0] = (IF Len(s) = 0 THEN Nil ELSE s[1])
    BY <1>1, <1>6
  <2>2. \A i \in 1 .. N : at[i - 1] = Nil => at[i] = Nil
    BY <1>6
  <2>3. ASSUME NEW i \in 1 .. N, NEW k \in 1 .. Len(s), at[i - 1] = s[k]
        PROVE  at[i] = IF k < Len(s) THEN s[k + 1] ELSE Nil
    <3>1. s[k] \in Name
      BY <1>1
    <3> QED
      BY <1>1, <1>2, <1>6, <2>3, <3>1
  <2>4. \A i \in 1 .. N, k \in 1 .. Len(s) :
            at[i - 1] = s[k] => at[i] = IF k < Len(s) THEN s[k + 1] ELSE Nil
    BY <2>3
  <2>5. Walks(Name, Nil, s, at)
    BY <2>1, <2>2, <2>4 DEF N, Walks
  <2> QED
    BY <1>1, <1>2, <2>5, WalkAlong DEF N
<1>10. Follow(next, start) = [i \in 1 .. Len(s) |-> at[i - 1]]
  BY <1>7, <1>8, <1>9
<1>11. ASSUME NEW i \in 1 .. Len(s) PROVE at[i - 1] = s[i]
  <2>1. i - 1 \in 0 .. N /\ i - 1 < Len(s) /\ i - 1 + 1 = i
    BY <1>1, <1>2
  <2> QED
    BY <1>9, <2>1
<1> QED
  BY <1>1, <1>10, <1>11

\* A list depends only on the links of its elements.
LEMMA ListFrame ==
    ASSUME NEW D, NEW nil, NEW next, NEW start, NEW s, Lists(D, nil, next, start, s),
           NEW next2, \A x \in Elements(s) : next2[x] = next[x]
    PROVE  Lists(D, nil, next2, start, s)
BY DEF Lists, Elements

Cons(n, s) == [i \in 1 .. Len(s) + 1 |-> IF i = 1 THEN n ELSE s[i - 1]]

\* An element is put in front.
LEMMA ListCons ==
    ASSUME NEW D, NEW nil, nil \notin D, NEW next, NEW start, NEW s, Lists(D, nil, next, start, s),
           NEW n \in D, n \notin Elements(s),
           NEW next2, next2[n] = start, \A x \in Elements(s) : next2[x] = next[x]
    PROVE  /\ Lists(D, nil, next2, n, Cons(n, s))
           /\ Elements(Cons(n, s)) = Elements(s) \union {n}
<1> DEFINE t == Cons(n, s)
<1>1. /\ s \in Seq(D) /\ Len(s) \in Nat /\ Distinct(s)
      /\ start = IF Len(s) = 0 THEN nil ELSE s[1]
      /\ \A i \in 1 .. Len(s) : next2[s[i]] = IF i < Len(s) THEN s[i + 1] ELSE nil
  BY DEF Lists, Elements
<1>2. t \in [1 .. Len(s) + 1 -> D]
  BY <1>1 DEF Cons
<1>3. t \in Seq(D) /\ Len(t) = Len(s) + 1
  BY <1>1, <1>2
<1>4. t[1] = n /\ \A i \in 1 .. Len(s) : t[i + 1] = s[i]
  BY <1>1 DEF Cons
<1>5. \A i \in 1 .. Len(t) : i = 1 \/ (i - 1 \in 1 .. Len(s) /\ t[i] = s[i - 1])
  BY <1>1, <1>3, <1>4 DEF Cons
<1> HIDE DEF t
<1>6. Distinct(t)
  <2> SUFFICES ASSUME NEW i \in 1 .. Len(t), NEW j \in 1 .. Len(t), t[i] = t[j] PROVE i = j
    BY DEF Distinct
  <2>1. CASE i = 1 /\ j = 1
    BY <2>1
  <2>2. CASE i = 1 /\ j # 1
    BY <1>4, <1>5, <2>2 DEF Elements
  <2>3. CASE i # 1 /\ j = 1
    BY <1>4, <1>5, <2>3 DEF Elements
  <2>4. CASE i # 1 /\ j # 1
    <3>1. i - 1 \in 1 .. Len(s) /\ j - 1 \in 1 .. Len(s) /\ s[i - 1] = s[j - 1]
      BY <1>5, <2>4
    <3>2. i - 1 = j - 1
      BY <1>1, <3>1 DEF Distinct
    <3> QED
      BY <3>2
  <2> QED
    BY <2>1, <2>2, <2>3, <2>4
<1>7. ASSUME NEW i \in 1 .. Len(t)
      PROVE  next2[t[i]] = IF i < Len(t) THEN t[i + 1] ELSE nil
  <2>1. CASE i = 1
    BY <1>1, <1>3, <1>4, <2>1
  <2>2. CASE i # 1
    <3>1. i - 1 \in 1 .. Len(s) /\ t[i] = s[i - 1] /\ i - 1 + 1 = i
      BY <1>5, <2>2
    <3>2. next2[s[i - 1]] = IF i - 1 < Len(s) THEN s[i] ELSE nil
      BY <1>1, <3>1
    <3>3. i < Len(t) => t[i + 1] = s[i]
      BY <1>1, <1>3, <1>4
    <3> QED
      BY <1>1, <1>3, <3>1, <3>2, <3>3
  <2> QED
    BY <2>1, <2>2
<1>8. Elements(t) = Elements(s) \union {n}
  <2>1. ASSUME NEW x \in Elements(t) PROVE x \in Elements(s) \union {n}
    <3>1. PICK i \in 1 .. Len(t) : x = t[i]
      BY DEF Elements
    <3>2. i = 1 \/ (i - 1 \in 1 .. Len(s) /\ t[i] = s[i - 1])
      BY <1>5
    <3> QED
      BY <1>4, <3>1, <3>2 DEF Elements
  <2>2. ASSUME NEW x \in Elements(s) \union {n} PROVE x \in Elements(t)
    <3>1. CASE x = n
      BY <1>1, <1>3, <1>4, <3>1 DEF Elements
    <3>2. CASE x \in Elements(s)
      <4>1. PICK i \in 1 .. Len(s) : x = s[i]
        BY <3>2 DEF Elements
      <4>2. i + 1 \in 1 .. Len(t) /\ x = t[i + 1]
        BY <1>1, <1>3, <1>4, <4>1
      <4> QED
        BY <4>2 DEF Elements
    <3> QED
      BY <3>1, <3>2
  <2> QED
    BY <2>1, <2>2
<1>9. Lists(D, nil, next2, n, t)
  <2>1. n = IF Len(t) = 0 THEN nil ELSE t[1]
    BY <1>1, <1>3, <1>4
  <2> QED
    BY <1>3, <1>6, <1>7, <2>1 DEF Lists
<1> QED
  BY <1>8, <1>9 DEF t

\* An element is put at the end.
LEMMA ListAppend ==
    ASSUME NEW D, NEW nil, nil \notin D, NEW next, NEW start, NEW s, Lists(D, nil, next, start, s),
           NEW n \in D, n \notin Elements(s),
           NEW next2, next2[n] = nil,
           \A i \in 1 .. Len(s) : next2[s[i]] = IF i = Len(s) THEN n ELSE next[s[i]]
    PROVE  /\ Lists(D, nil, next2, IF Len(s) = 0 THEN n ELSE start, Append(s, n))
           /\ Elements(Append(s, n)) = Elements(s) \union {n}
<1> DEFINE t == Append(s, n)
<1>1. /\ s \in Seq(D) /\ Len(s) \in Nat /\ Distinct(s)
      /\ start = IF Len(s) = 0 THEN nil ELSE s[1]
      /\ \A i \in 1 .. Len(s) : next[s[i]] = IF i < Len(s) THEN s[i + 1] ELSE nil
  BY DEF Lists
<1>2. t \in Seq(D) /\ Len(t) = Len(s) + 1
  BY <1>1
<1>3. t[Len(t)] = n /\ \A i \in 1 .. Len(s) : t[i] = s[i]
  BY <1>1
<1>4. \A i \in 1 .. Len(t) : i = Len(t) \/ i \in 1 .. Len(s)
  BY <1>1, <1>2
<1>5. \A i \in 1 .. Len(s) : s[i] # n
  BY DEF Elements
<1> HIDE DEF t
<1>6. Distinct(t)
  BY <1>1, <1>2, <1>3, <1>4, <1>5 DEF Distinct
<1>7. ASSUME NEW i \in 1 .. Len(t)
      PROVE  next2[t[i]] = IF i < Len(t) THEN t[i + 1] ELSE nil
  <2>1. CASE i = Len(t)
    BY <1>1, <1>2, <1>3, <2>1
  <2>2. CASE i \in 1 .. Len(s) /\ i # Len(s)
    <3>1. next2[s[i]] = s[i + 1] /\ i + 1 \in 1 .. Len(s)
      BY <1>1, <2>2
    <3> QED
      BY <1>1, <1>2, <1>3, <2>2, <3>1
  <2>3. CASE i \in 1 .. Len(s) /\ i = Len(s)
    <3>1. next2[s[i]] = n
      BY <2>3
    <3> QED
      BY <1>1, <1>2, <1>3, <2>3, <3>1
  <2> QED
    BY <1>4, <2>1, <2>2, <2>3
<1>8. Elements(t) = Elements(s) \union {n}
  <2>1. ASSUME NEW x \in Elements(t) PROVE x \in Elements(s) \union {n}
    BY <1>3, <1>4 DEF Elements
  <2>2. ASSUME NEW x \in Elements(s) \union {n} PROVE x \in Elements(t)
    BY <1>1, <1>2, <1>3 DEF Elements
  <2> QED
    BY <2>1, <2>2
<1>9. Lists(D, nil, next2, IF Len(s) = 0 THEN n ELSE start, t)
  <2>1. (IF Len(s) = 0 THEN n ELSE start) = IF Len(t) = 0 THEN nil ELSE t[1]
    BY <1>1, <1>2, <1>3
  <2> QED
    BY <1>2, <1>6, <1>7, <2>1 DEF Lists
<1> QED
  BY <1>8, <1>9 DEF t

Without(s, k) == [i \in 1 .. Len(s) - 1 |-> IF i < k THEN s[i] ELSE s[i + 1]]

\* The element at k is taken out: the links to it go to the one behind it.
LEMMA ListRemove ==
    ASSUME NEW D, NEW nil, nil \notin D, NEW next, NEW start, NEW s, Lists(D, nil, next, start, s),
           NEW k \in 1 .. Len(s), NEW next2,
           \A x \in Elements(s) \ {s[k]} :
               next2[x] = IF next[x] = s[k] THEN next[s[k]] ELSE next[x]
    PROVE  /\ Lists(D, nil, next2, IF start = s[k] THEN next[s[k]] ELSE start, Without(s, k))
           /\ Elements(Without(s, k)) = Elements(s) \ {s[k]}
<1> DEFINE t == Without(s, k)
           to == IF start = s[k] THEN next[s[k]] ELSE start
<1>1. /\ s \in Seq(D) /\ Len(s) \in Nat /\ Distinct(s) /\ 1 \in 1 .. Len(s) /\ Len(s) >= 1
      /\ start = s[1]
      /\ \A i \in 1 .. Len(s) : next[s[i]] = IF i < Len(s) THEN s[i + 1] ELSE nil
      /\ \A i \in 1 .. Len(s) : s[i] \in D
  BY DEF Lists
<1>2. t \in [1 .. Len(s) - 1 -> D]
  BY <1>1 DEF Without
<1>3. t \in Seq(D) /\ Len(t) = Len(s) - 1
  BY <1>1, <1>2
<1>4. \A i \in 1 .. Len(t) : t[i] = IF i < k THEN s[i] ELSE s[i + 1]
  BY <1>3 DEF Without
<1> HIDE DEF t
<1>5. Distinct(t)
  <2> SUFFICES ASSUME NEW i \in 1 .. Len(t), NEW j \in 1 .. Len(t), t[i] = t[j] PROVE i = j
    BY DEF Distinct
  <2> DEFINE a == IF i < k THEN i ELSE i + 1
             b == IF j < k THEN j ELSE j + 1
  <2>1. a \in 1 .. Len(s) /\ b \in 1 .. Len(s) /\ s[a] = s[b]
    BY <1>1, <1>3, <1>4
  <2>2. a = b
    BY <1>1, <2>1 DEF Distinct
  <2> QED
    BY <2>2
<1>6. ASSUME NEW i \in 1 .. Len(s), i # k
      PROVE  next2[s[i]] = IF next[s[i]] = s[k] THEN next[s[k]] ELSE next[s[i]]
  <2>1. s[i] \in Elements(s) \ {s[k]}
    BY <1>1, <1>6 DEF Elements, Distinct
  <2> QED
    BY <2>1
<1>7. ASSUME NEW i \in 1 .. Len(s) PROVE next[s[i]] = s[k] <=> i + 1 = k
  <2>1. CASE i < Len(s)
    <3>1. next[s[i]] = s[i + 1] /\ i + 1 \in 1 .. Len(s)
      BY <1>1, <2>1
    <3> QED
      BY <1>1, <3>1 DEF Distinct
  <2>2. CASE ~(i < Len(s))
    <3>1. next[s[i]] = nil /\ s[k] \in D
      BY <1>1, <2>2
    <3> QED
      BY <1>1, <2>2, <3>1
  <2> QED
    BY <2>1, <2>2
<1>8. ASSUME NEW i \in 1 .. Len(t)
      PROVE  next2[t[i]] = IF i < Len(t) THEN t[i + 1] ELSE nil
  <2>1. CASE i + 1 < k
    <3>1. t[i] = s[i] /\ i \in 1 .. Len(s) /\ i < Len(t) /\ t[i + 1] = s[i + 1]
      BY <1>1, <1>3, <1>4, <2>1
    <3>2. next2[s[i]] = next[s[i]]
      BY <1>6, <1>7, <2>1, <3>1
    <3> QED
      BY <1>1, <2>1, <3>1, <3>2
  <2>2. CASE i + 1 = k
    <3>1. t[i] = s[i] /\ i \in 1 .. Len(s) /\ i # k
      BY <1>1, <1>3, <1>4, <2>2
    <3>2. next2[s[i]] = next[s[k]]
      BY <1>6, <1>7, <2>2, <3>1
    <3>3. next[s[k]] = IF k < Len(s) THEN s[k + 1] ELSE nil
      BY <1>1
    <3>4. i < Len(t) => t[i + 1] = s[k + 1]
      BY <1>1, <1>3, <1>4, <2>2
    <3> QED
      BY <1>1, <1>3, <2>2, <3>1, <3>2, <3>3, <3>4
  <2>3. CASE i + 1 > k
    <3>1. t[i] = s[i + 1] /\ i + 1 \in 1 .. Len(s) /\ i + 1 # k /\ ~(i < k)
      BY <1>1, <1>3, <1>4, <2>3
    <3>2. next2[s[i + 1]] = next[s[i + 1]]
      <4>1. i + 1 + 1 # k
        BY <2>3
      <4> QED
        BY <1>6, <1>7, <3>1, <4>1
    <3>3. next[s[i + 1]] = IF i + 1 < Len(s) THEN s[i + 1 + 1] ELSE nil
      BY <1>1, <3>1
    <3>4. i < Len(t) => t[i + 1] = s[i + 1 + 1]
      BY <1>1, <1>3, <1>4, <2>3
    <3> QED
      BY <1>1, <1>3, <3>1, <3>2, <3>3, <3>4
  <2> QED
    BY <2>1, <2>2, <2>3
<1>9. Elements(t) = Elements(s) \ {s[k]}
  <2>1. ASSUME NEW x \in Elements(t) PROVE x \in Elements(s) \ {s[k]}
    <3>1. PICK i \in 1 .. Len(t) : x = t[i]
      BY DEF Elements
    <3> DEFINE a == IF i < k THEN i ELSE i + 1
    <3>2. a \in 1 .. Len(s) /\ a # k /\ x = s[a]
      BY <1>1, <1>3, <1>4, <3>1
    <3> HIDE DEF a
    <3> QED
      BY <1>1, <3>2 DEF Elements, Distinct
  <2>2. ASSUME NEW x \in Elements(s) \ {s[k]} PROVE x \in Elements(t)
    <3>1. PICK i \in 1 .. Len(s) : x = s[i]
      BY DEF Elements
    <3> DEFINE a == IF i < k THEN i ELSE i - 1
    <3>2. a \in 1 .. Len(t) /\ x = t[a]
      <4>1. CASE i < k
        BY <1>1, <1>3, <1>4, <3>1, <4>1
      <4>2. CASE i > k
        <5>1. i - 1 \in 1 .. Len(t) /\ ~(i - 1 < k) /\ i - 1 + 1 = i
          BY <1>1, <1>3, <4>2
        <5> QED
          BY <1>4, <3>1, <4>2, <5>1
      <4>3. i # k
        BY <3>1
      <4> QED
        BY <4>1, <4>2, <4>3
    <3> HIDE DEF a
    <3> QED
      BY <3>2 DEF Elements
  <2> QED
    BY <2>1, <2>2
<1>10. to = IF Len(t) = 0 THEN nil ELSE t[1]
  <2>1. start = s[k] <=> k = 1
    BY <1>1 DEF Distinct
  <2>2. next[s[k]] = IF k < Len(s) THEN s[k + 1] ELSE nil
    BY <1>1
  <2>3. CASE k = 1
    BY <1>1, <1>3, <1>4, <2>1, <2>2, <2>3
  <2>4. CASE k # 1
    BY <1>1, <1>3, <1>4, <2>1, <2>4
  <2> QED
    BY <2>3, <2>4
<1> HIDE DEF to
<1>11. Lists(D, nil, next2, to, t)
  BY <1>3, <1>5, <1>8, <1>10 DEF Lists
<1> QED
  BY <1>9, <1>11 DEF t, to

-----------------------------------------------------------------------------
(* Property maps.                                                           *)

Named == {0} \union {primes[i] : i \in 1 .. Len(primes)}
Link0 == Name \union {Nil}
LiveNames(map) == {n \in Name : map.desc[n] # Nil}

\* The bucket array is there or nothing has been inserted yet.
Sized(map) ==
    /\ map.buckets \in [0 .. map.nbuckets - 1 -> Link0]
    /\ map.nbuckets \in Named
    /\ map.nbuckets = 0 <=> map.buckets = <<>>
    /\ map.nbuckets = 0 => LiveNames(map) = {}

\* s are the entries in the order of insertion.
InOrder(map, s) ==
    /\ Lists(Name, Nil, map.next_insert, map.head_insert, s)
    /\ Elements(s) = LiveNames(map)
    /\ map.tail_insert = IF Len(s) = 0 THEN Nil ELSE s[Len(s)]
    /\ map.inuse = Len(s)

\* c is the chain of bucket b, if the names in S have been linked.
InBucket(map, S, b, c) ==
    /\ Lists(Name, Nil, map.next_bucket, map.buckets[b], c)
    /\ Elements(c) = {n \in S : Bucket(map, n) = b}

Hashed(map, S) == \A b \in 0 .. map.nbuckets - 1 : \E c : InBucket(map, S, b, c)

\* The invariant of property maps.
MapInv(map) ==
    /\ map \in Maps(Desc)
    /\ Sized(map)
    /\ \E s : InOrder(map, s)
    /\ Hashed(map, LiveNames(map))

LEMMA PrimesFacts ==
    /\ Named \subseteq Nat
    /\ Len(primes) \in Nat /\ 1 \in 1 .. Len(primes)
    /\ \A i \in 1 .. Len(primes) : primes[i] \in Nat \ {0} /\ primes[i] \in Named
BY primesAssumption DEF Named

LEMMA MapsFacts ==
    ASSUME NEW map \in Maps(Desc)
    PROVE  /\ map = [head_insert |-> map.head_insert, tail_insert |-> map.tail_insert,
                     buckets |-> map.buckets, nbuckets |-> map.nbuckets, inuse |-> map.inuse,
                     next_insert |-> map.next_insert, next_bucket |-> map.next_bucket,
                     desc |-> map.desc]
           /\ map.head_insert \in Link0 /\ map.tail_insert \in Link0
           /\ map.nbuckets \in Nat /\ map.inuse \in Nat
           /\ map.next_insert \in [Name -> Link0] /\ map.next_bucket \in [Name -> Link0]
           /\ map.desc \in [Name -> Desc \union {Nil}]
BY DEF Maps, Link0

\* A record with fields of these types and a bucket array is a map.
LEMMA IsMap ==
    ASSUME NEW hi \in Link0, NEW ti \in Link0, NEW nb \in Named, NEW bs \in [0 .. nb - 1 -> Link0],
           NEW iu \in Nat, NEW ni \in [Name -> Link0], NEW nx \in [Name -> Link0],
           NEW ds \in [Name -> Desc \union {Nil}]
    PROVE  [head_insert |-> hi, tail_insert |-> ti, buckets |-> bs, nbuckets |-> nb,
            inuse |-> iu, next_insert |-> ni, next_bucket |-> nx, desc |-> ds] \in Maps(Desc)
<1>1. nb \in Nat
  BY PrimesFacts
<1>2. bs \in UNION {[0 .. size - 1 -> Link0] : size \in Named}
  OBVIOUS
<1> QED
  BY <1>1, <1>2 DEF Maps, Named, Link0

LEMMA BucketIn ==
    ASSUME NEW map, map.nbuckets \in Nat \ {0}, NEW n \in Name
    PROVE  Bucket(map, n) \in 0 .. map.nbuckets - 1
<1>1. \A a \in Nat, b \in Nat \ {0} : a % b \in 0 .. b - 1
  BY Z3
<1>2. Hash[n] \in Nat
  BY HashAssumption
<1> QED
  BY <1>1, <1>2 DEF Bucket

\* The empty map.
LEMMA InitMap == MapInv(_ejs_propertymap_init) /\ LiveNames(_ejs_propertymap_init) = {}
<1> DEFINE m == _ejs_propertymap_init
<1>1. /\ m.head_insert = Nil /\ m.tail_insert = Nil /\ m.buckets = <<>> /\ m.nbuckets = 0
      /\ m.inuse = 0 /\ m.desc = [n \in Name |-> Nil]
      /\ m.next_insert = [n \in Name |-> Nil] /\ m.next_bucket = [n \in Name |-> Nil]
  BY DEF _ejs_propertymap_init
<1>2. <<>> \in [0 .. 0 - 1 -> Link0] /\ Nil \in Link0 /\ 0 \in Named
  BY DEF Link0, Named
<1>3. m \in Maps(Desc)
  <2>1. [n \in Name |-> Nil] \in [Name -> Link0] /\ [n \in Name |-> Nil] \in [Name -> Desc \union {Nil}]
    BY <1>2
  <2> QED
    BY <1>2, <2>1, IsMap DEF _ejs_propertymap_init
<1>4. LiveNames(m) = {}
  BY <1>1 DEF LiveNames
<1>5. Sized(m)
  BY <1>1, <1>2, <1>4 DEF Sized
<1>6. InOrder(m, <<>>)
  <2>1. Lists(Name, Nil, m.next_insert, m.head_insert, <<>>)
    BY <1>1 DEF Lists, Distinct
  <2>2. Elements(<<>>) = {}
    BY DEF Elements
  <2> HIDE DEF m
  <2> QED
    BY <1>1, <1>4, <2>1, <2>2 DEF InOrder
<1>7. Hashed(m, LiveNames(m))
  BY <1>1 DEF Hashed
<1> HIDE DEF m
<1>8. MapInv(m)
  BY <1>3, <1>5, <1>6, <1>7 DEF MapInv
<1> QED
  BY <1>4, <1>8 DEF m

\* What the search in a chain finds.
LEMMA FoundIs ==
    ASSUME NEW map \in Maps(Desc), map.nbuckets # 0, NEW S \in SUBSET Name, Hashed(map, S),
           NEW n \in Name
    PROVE  Found(map, n) <=> n \in S
<1> DEFINE b == Bucket(map, n)
<1>1. b \in 0 .. map.nbuckets - 1
  BY BucketIn, MapsFacts
<1>2. PICK c : InBucket(map, S, b, c)
  BY <1>1 DEF Hashed
<1>3. Chain(map, b) = c
  BY <1>2, MapsFacts, FollowIs DEF Chain, InBucket, Link0
<1> QED
  BY <1>2, <1>3 DEF Found, InBucket

\* A well formed map is read as a function from names to descriptors.
LEMMA MapReads ==
    ASSUME NEW map, MapInv(map)
    PROVE  /\ \A n \in Name : _ejs_propertymap_lookup(map, n) = map.desc[n]
           /\ Elements(Entries(map)) = LiveNames(map)
           /\ \A s : InOrder(map, s) => Entries(map) = s
           /\ WellFormed(map)
<1>1. /\ map \in Maps(Desc) /\ Sized(map) /\ Hashed(map, LiveNames(map))
      /\ map.nbuckets \in Nat /\ map.inuse \in Nat /\ LiveNames(map) \subseteq Name
  BY MapsFacts DEF MapInv, LiveNames
<1>2. PICK s : InOrder(map, s)
  BY DEF MapInv
<1>3. ASSUME NEW t, InOrder(map, t) PROVE Entries(map) = t
  BY <1>1, <1>3, MapsFacts, FollowIs DEF Entries, InOrder, Link0
<1>4. Entries(map) = s /\ Elements(s) = LiveNames(map) /\ map.inuse = Len(s)
  BY <1>2, <1>3 DEF InOrder
<1>5. ASSUME NEW n \in Name PROVE _ejs_propertymap_lookup(map, n) = map.desc[n]
  <2>1. CASE map.inuse = 0
    <3>1. Elements(s) = {}
      BY <1>4, <2>1 DEF Elements
    <3>2. map.desc[n] = Nil
      BY <1>4, <3>1 DEF LiveNames
    <3> QED
      BY <2>1, <3>2 DEF _ejs_propertymap_lookup
  <2>2. CASE map.inuse # 0
    <3>1. Elements(s) # {}
      BY <1>1, <1>4, <2>2 DEF Elements
    <3>2. map.nbuckets # 0
      BY <1>1, <1>4, <3>1 DEF Sized
    <3>3. Found(map, n) <=> n \in LiveNames(map)
      BY <1>1, <3>2, FoundIs
    <3> QED
      BY <2>2, <3>3 DEF _ejs_propertymap_lookup, LiveNames
  <2> QED
    BY <2>1, <2>2
<1>6. IsFiniteSet(Name)
  BY NameAssumption
<1>7. Len(s) = Cardinality(LiveNames(map))
  BY <1>2, <1>4, <1>6, ShortList DEF InOrder, Lists
<1>8. ASSUME NEW b \in DOMAIN map.buckets
      PROVE  /\ Elements(Chain(map, b)) = {n \in LiveNames(map) : Bucket(map, n) = b}
             /\ Len(Chain(map, b)) = Cardinality(Elements(Chain(map, b)))
  <2>1. b \in 0 .. map.nbuckets - 1
    BY <1>1 DEF Sized
  <2>2. PICK c : InBucket(map, LiveNames(map), b, c)
    BY <1>1, <2>1 DEF Hashed
  <2>3. Chain(map, b) = c
    BY <1>1, <2>2, MapsFacts, FollowIs DEF Chain, InBucket, Link0
  <2>4. Len(c) = Cardinality(Elements(c))
    BY <1>6, <2>2, ShortList DEF InBucket, Lists
  <2> QED
    BY <2>2, <2>3, <2>4 DEF InBucket
<1>9. map.tail_insert = IF s = <<>> THEN Nil ELSE s[Len(s)]
  <2>1. s = <<>> <=> Len(s) = 0
    BY <1>2 DEF InOrder, Lists
  <2> QED
    BY <1>2, <2>1 DEF InOrder
<1>10. WellFormed(map)
  BY <1>4, <1>7, <1>8, <1>9 DEF WellFormed, LiveNames
<1> QED
  BY <1>3, <1>4, <1>5, <1>10

\* The bucket array is allocated before the first insertion.
LEMMA AllocatedMap ==
    ASSUME NEW map, MapInv(map)
    PROVE  /\ MapInv(Allocated(map))
           /\ Allocated(map).desc = map.desc
           /\ Allocated(map).nbuckets # 0
           /\ \A s : InOrder(map, s) => InOrder(Allocated(map), s)
<1>1. /\ map \in Maps(Desc) /\ Sized(map) /\ Hashed(map, LiveNames(map))
      /\ map.nbuckets \in Nat
  BY MapsFacts DEF MapInv
<1>2. CASE map.buckets # <<>>
  BY <1>1, <1>2 DEF Allocated, Sized
<1>3. CASE map.buckets = <<>>
  <2> DEFINE p == primes[1]
             bs == [b \in 0 .. p - 1 |-> Nil]
             m == Allocated(map)
  <2>1. p \in Nat \ {0} /\ p \in Named
    BY PrimesFacts
  <2>2. bs \in [0 .. p - 1 -> Link0] /\ bs # <<>>
    <3>1. 0 \in DOMAIN bs /\ 0 \notin DOMAIN <<>>
      BY <2>1
    <3> QED
      BY <3>1 DEF Link0
  <2> HIDE DEF p, bs
  <2>3. m = [map EXCEPT !.nbuckets = p, !.buckets = bs]
    BY <1>3 DEF Allocated, p, bs
  <2>4. /\ m.nbuckets = p /\ m.buckets = bs /\ m.desc = map.desc /\ m.next_insert = map.next_insert
        /\ m.head_insert = map.head_insert /\ m.tail_insert = map.tail_insert
        /\ m.inuse = map.inuse /\ m.next_bucket = map.next_bucket
    BY <1>1, <2>3, MapsFacts
  <2>5. m = [head_insert |-> map.head_insert, tail_insert |-> map.tail_insert,
             buckets |-> bs, nbuckets |-> p, inuse |-> map.inuse,
             next_insert |-> map.next_insert, next_bucket |-> map.next_bucket,
             desc |-> map.desc]
    BY <1>1, <2>3, MapsFacts
  <2> HIDE DEF m
  <2>6. m \in Maps(Desc)
    <3>1. /\ map.head_insert \in Link0 /\ map.tail_insert \in Link0 /\ map.inuse \in Nat
          /\ map.next_insert \in [Name -> Link0] /\ map.next_bucket \in [Name -> Link0]
          /\ map.desc \in [Name -> Desc \union {Nil}]
      BY <1>1, MapsFacts
    <3> QED
      BY <2>1, <2>2, <2>5, <3>1, IsMap
  <2>7. LiveNames(m) = LiveNames(map) /\ LiveNames(map) = {}
    BY <1>1, <1>3, <2>4 DEF LiveNames, Sized
  <2>8. Sized(m)
    BY <2>1, <2>2, <2>4 DEF Sized
  <2>9. /\ \A s : InOrder(map, s) => InOrder(m, s)
        /\ \E s : InOrder(m, s)
    BY <2>4, <2>7 DEF MapInv, InOrder
  <2>10. Hashed(m, LiveNames(m))
    <3> SUFFICES ASSUME NEW b \in 0 .. p - 1 PROVE InBucket(m, {}, b, <<>>)
      BY <2>4, <2>7 DEF Hashed
    <3>1. m.buckets[b] = Nil
      BY <2>4 DEF bs
    <3>2. Lists(Name, Nil, m.next_bucket, Nil, <<>>)
      BY DEF Lists, Distinct
    <3>3. Elements(<<>>) = {}
      BY DEF Elements
    <3> QED
      BY <3>1, <3>2, <3>3 DEF InBucket
  <2> QED
    BY <2>1, <2>4, <2>6, <2>8, <2>9, <2>10 DEF MapInv, m
<1> QED
  BY <1>2, <1>3

\* Link adds one name to the chain of its bucket.
LEMMA LinkEntry ==
    ASSUME NEW map \in Maps(Desc), map.nbuckets \in Named \ {0},
           map.buckets \in [0 .. map.nbuckets - 1 -> Link0],
           NEW S \in SUBSET Name, Hashed(map, S), NEW n \in Name \ S
    PROVE  LET m == Link(map, n)
           IN  /\ m \in Maps(Desc) /\ Hashed(m, S \union {n})
               /\ m.buckets \in [0 .. m.nbuckets - 1 -> Link0]
               /\ m.nbuckets = map.nbuckets /\ m.desc = map.desc
               /\ m.next_insert = map.next_insert /\ m.head_insert = map.head_insert
               /\ m.tail_insert = map.tail_insert /\ m.inuse = map.inuse
<1> DEFINE m == Link(map, n)
           b0 == Bucket(map, n)
           nx == [map.next_bucket EXCEPT ![n] = map.buckets[b0]]
           bs == [map.buckets EXCEPT ![b0] = n]
<1>1. b0 \in 0 .. map.nbuckets - 1 /\ map.nbuckets \in Nat \ {0}
  BY BucketIn, MapsFacts
<1>2. /\ map.head_insert \in Link0 /\ map.tail_insert \in Link0 /\ map.inuse \in Nat
      /\ map.next_insert \in [Name -> Link0] /\ map.next_bucket \in [Name -> Link0]
      /\ map.desc \in [Name -> Desc \union {Nil}]
  BY MapsFacts
<1>3. nx \in [Name -> Link0] /\ bs \in [0 .. map.nbuckets - 1 -> Link0]
  BY <1>1, <1>2 DEF Link0
<1>4. m = [head_insert |-> map.head_insert, tail_insert |-> map.tail_insert,
           buckets |-> bs, nbuckets |-> map.nbuckets, inuse |-> map.inuse,
           next_insert |-> map.next_insert, next_bucket |-> nx, desc |-> map.desc]
  <2>1. map = [head_insert |-> map.head_insert, tail_insert |-> map.tail_insert,
               buckets |-> map.buckets, nbuckets |-> map.nbuckets, inuse |-> map.inuse,
               next_insert |-> map.next_insert, next_bucket |-> map.next_bucket,
               desc |-> map.desc]
    BY MapsFacts
  <2>2. m = [map EXCEPT !.next_bucket = nx, !.buckets = bs]
    BY DEF Link
  <2> HIDE DEF m, nx, bs
  <2> QED
    BY <2>1, <2>2
<1>5. /\ m.head_insert = map.head_insert /\ m.tail_insert = map.tail_insert
      /\ m.buckets = bs /\ m.nbuckets = map.nbuckets /\ m.inuse = map.inuse
      /\ m.next_insert = map.next_insert /\ m.next_bucket = nx /\ m.desc = map.desc
  BY <1>4
<1>6. /\ nx[n] = map.buckets[b0] /\ \A x \in Name \ {n} : nx[x] = map.next_bucket[x]
      /\ bs[b0] = n /\ \A b \in 0 .. map.nbuckets - 1 : b # b0 => bs[b] = map.buckets[b]
  BY <1>1, <1>2
<1> HIDE DEF m, nx, bs, b0
<1>7. m \in Maps(Desc)
  BY <1>2, <1>3, <1>4, IsMap
<1>8. \A x \in Name : Bucket(m, x) = Bucket(map, x)
  BY <1>5 DEF Bucket
<1>9. ASSUME NEW b \in 0 .. m.nbuckets - 1 PROVE \E c : InBucket(m, S \union {n}, b, c)
  <2>1. b \in 0 .. map.nbuckets - 1
    BY <1>5
  <2>2. PICK c : InBucket(map, S, b, c)
    BY <2>1 DEF Hashed
  <2>3. Lists(Name, Nil, map.next_bucket, map.buckets[b], c) /\ Elements(c) = {x \in S : Bucket(map, x) = b}
    BY <2>2 DEF InBucket
  <2>4. n \notin Elements(c) /\ \A x \in Elements(c) : nx[x] = map.next_bucket[x]
    BY <1>6, <2>3
  <2>5. CASE b = b0
    <3>1. Nil \notin Name /\ n \in Name
      BY NameAssumption
    <3>2. nx[n] = map.buckets[b] /\ m.buckets[b] = n
      BY <1>5, <1>6, <2>5
    <3>3. Lists(Name, Nil, nx, n, Cons(n, c)) /\ Elements(Cons(n, c)) = Elements(c) \union {n}
      BY <2>3, <2>4, <3>1, <3>2, ListCons
    <3>4. {x \in S \union {n} : Bucket(m, x) = b} = Elements(c) \union {n}
      BY <1>8, <2>3, <2>5 DEF b0
    <3> QED
      BY <1>5, <3>2, <3>3, <3>4 DEF InBucket
  <2>6. CASE b # b0
    <3>1. Lists(Name, Nil, nx, m.buckets[b], c)
      BY <1>5, <1>6, <2>1, <2>3, <2>4, <2>6, ListFrame
    <3>2. {x \in S \union {n} : Bucket(m, x) = b} = Elements(c)
      BY <1>8, <2>3, <2>6 DEF b0
    <3> QED
      BY <1>5, <3>1, <3>2 DEF InBucket
  <2> QED
    BY <2>5, <2>6
<1>10. Hashed(m, S \union {n})
  BY <1>9 DEF Hashed
<1> QED
  BY <1>3, <1>5, <1>7, <1>10 DEF m

\* Rehashing links all entries again; the order of insertion and what the entries
\* hold stay.
LEMMA RehashMap ==
    ASSUME NEW map \in Maps(Desc), NEW s, InOrder(map, s), NextPrimes(map) # {}
    PROVE  /\ MapInv(_ejs_propertymap_rehash(map))
           /\ _ejs_propertymap_rehash(map).desc = map.desc
           /\ InOrder(_ejs_propertymap_rehash(map), s)
<1> DEFINE size == CHOOSE p \in NextPrimes(map) : TRUE
           bs == [b \in 0 .. size - 1 |-> Nil]
           empty == [map EXCEPT !.nbuckets = size, !.buckets = bs]
           N == Len(s)
           Eq(f) == f = [i \in 0 .. N |-> IF i = 0 THEN empty ELSE Link(f[i - 1], s[i])]
           f == CHOOSE f : Eq(f)
           Same(m) == /\ m.nbuckets = size /\ m.buckets \in [0 .. size - 1 -> Link0]
                      /\ m.desc = map.desc /\ m.next_insert = map.next_insert
                      /\ m.head_insert = map.head_insert /\ m.tail_insert = map.tail_insert
                      /\ m.inuse = map.inuse
           At(i) == {m \in Maps(Desc) : Same(m) /\ Hashed(m, {s[j] : j \in 1 .. i})}
           P == {i \in 0 .. N : f[i] \in At(i)}
<1>1. size \in Nat \ {0} /\ size \in Named
  <2>1. size \in NextPrimes(map)
    OBVIOUS
  <2>2. \A i \in 1 .. Len(primes) - 1 : i + 1 \in 1 .. Len(primes)
    BY PrimesFacts
  <2> HIDE DEF size
  <2> QED
    BY <2>1, <2>2, PrimesFacts DEF NextPrimes
<1> HIDE DEF size
<1>2. /\ map.head_insert \in Link0 /\ map.tail_insert \in Link0 /\ map.inuse \in Nat
      /\ map.next_insert \in [Name -> Link0] /\ map.next_bucket \in [Name -> Link0]
      /\ map.desc \in [Name -> Desc \union {Nil}]
  BY MapsFacts
<1>3. /\ Lists(Name, Nil, map.next_insert, map.head_insert, s) /\ s \in Seq(Name) /\ N \in Nat
      /\ Distinct(s) /\ Elements(s) = LiveNames(map)
  BY DEF InOrder, Lists
<1>4. Entries(map) = s
  BY <1>2, <1>3, FollowIs DEF Entries, Link0
<1>5. _ejs_propertymap_rehash(map) = f[N]
  BY <1>4 DEF _ejs_propertymap_rehash, size
<1>6. bs \in [0 .. size - 1 -> Link0] /\ \A b \in 0 .. size - 1 : bs[b] = Nil
  BY DEF Link0
<1> HIDE DEF bs
<1>7. empty = [head_insert |-> map.head_insert, tail_insert |-> map.tail_insert,
               buckets |-> bs, nbuckets |-> size, inuse |-> map.inuse,
               next_insert |-> map.next_insert, next_bucket |-> map.next_bucket, desc |-> map.desc]
  <2>1. map = [head_insert |-> map.head_insert, tail_insert |-> map.tail_insert,
               buckets |-> map.buckets, nbuckets |-> map.nbuckets, inuse |-> map.inuse,
               next_insert |-> map.next_insert, next_bucket |-> map.next_bucket,
               desc |-> map.desc]
    BY MapsFacts
  <2>2. empty = [map EXCEPT !.nbuckets = size, !.buckets = bs]
    OBVIOUS
  <2> HIDE DEF empty
  <2> QED
    BY <2>1, <2>2
<1>8. Same(empty) /\ empty.buckets = bs /\ empty.nbuckets = size
  BY <1>6, <1>7
<1> HIDE DEF empty
<1>9. empty \in Maps(Desc)
  BY <1>1, <1>2, <1>6, <1>7, IsMap
<1>10. Hashed(empty, {})
  <2> SUFFICES ASSUME NEW b \in 0 .. size - 1 PROVE InBucket(empty, {}, b, <<>>)
    BY <1>8 DEF Hashed
  <2>1. Lists(Name, Nil, empty.next_bucket, Nil, <<>>)
    BY DEF Lists, Distinct
  <2>2. Elements(<<>>) = {}
    BY DEF Elements
  <2> QED
    BY <1>6, <1>8, <2>1, <2>2 DEF InBucket
<1>11. empty \in At(0)
  <2>1. {s[j] : j \in 1 .. 0} = {}
    OBVIOUS
  <2> QED
    BY <1>8, <1>9, <1>10, <2>1
<1>12. ASSUME NEW i \in 0 .. N - 1, NEW m \in At(i) PROVE Link(m, s[i + 1]) \in At(i + 1)
  <2> DEFINE S == {s[j] : j \in 1 .. i}
             n == s[i + 1]
  <2>1. i + 1 \in 1 .. N /\ n \in Name /\ S \subseteq Name
    BY <1>3
  <2>2. n \notin S
    BY <1>3, <2>1 DEF Distinct
  <2>3. {s[j] : j \in 1 .. i + 1} = S \union {n}
    BY <2>1
  <2>4. m \in Maps(Desc) /\ Same(m) /\ Hashed(m, S)
    OBVIOUS
  <2> DEFINE k == Link(m, n)
  <2> HIDE DEF S, n
  <2>5. m.nbuckets \in Named \ {0} /\ m.buckets \in [0 .. m.nbuckets - 1 -> Link0]
    BY <1>1, <2>4
  <2>6. /\ k \in Maps(Desc) /\ Hashed(k, S \union {n})
        /\ k.buckets \in [0 .. k.nbuckets - 1 -> Link0]
        /\ k.nbuckets = m.nbuckets /\ k.desc = m.desc
        /\ k.next_insert = m.next_insert /\ k.head_insert = m.head_insert
        /\ k.tail_insert = m.tail_insert /\ k.inuse = m.inuse
    BY <2>1, <2>2, <2>4, <2>5, LinkEntry
  <2> HIDE DEF k
  <2>7. Same(k)
    BY <2>4, <2>6
  <2>8. k \in {x \in Maps(Desc) : Same(x) /\ Hashed(x, S \union {n})}
    BY <2>6, <2>7
  <2> QED
    BY <2>3, <2>8 DEF k, n
<1> HIDE DEF At
<1>13. ASSUME NEW g, g[0] = empty,
              \A i \in 1 .. N : g[i - 1] \in At(i - 1) => g[i] = Link(g[i - 1], s[i])
       PROVE  \A i \in 0 .. N : g[i] \in At(i)
  <2> DEFINE Q == {i \in 0 .. N : g[i] \in At(i)}
  <2>1. 0 \in Q
    BY <1>3, <1>11, <1>13
  <2>2. ASSUME NEW i \in 0 .. N - 1, i \in Q PROVE i + 1 \in Q
    <3>1. i + 1 \in 1 .. N /\ i + 1 - 1 = i /\ i + 1 \in 0 .. N
      BY <1>3
    <3>2. g[i + 1] = Link(g[i], s[i + 1])
      BY <1>13, <2>2, <3>1
    <3> QED
      BY <1>12, <2>2, <3>1, <3>2
  <2> HIDE DEF Q
  <2>3. \A i \in 0 .. N : i \in Q
    BY <1>3, <2>1, <2>2, BoundedInduction
  <2> QED
    BY <2>3 DEF Q
<1>14. \E g : Eq(g)
  <2> DEFINE S == Maps(Desc)
             L(i, m) == Link(m, s[i])
             step == [p \in (1 .. N) \X S |-> IF L(p[1], p[2]) \in S THEN L(p[1], p[2]) ELSE empty]
  <2>1. step \in [(1 .. N) \X S -> S]
    <3> HIDE DEF S, L
    <3> QED
      BY <1>9 DEF S
  <2>2. \A i \in 1 .. N, m \in S : L(i, m) \in S => step[<<i, m>>] = L(i, m)
    <3> HIDE DEF S, L
    <3> QED
      OBVIOUS
  <2> HIDE DEF step
  <2>3. \E g \in [0 .. N -> S] : Iterates(N, empty, step, g)
    <3>1. N \in Nat /\ empty \in S
      BY <1>3, <1>9
    <3> HIDE DEF N, S
    <3> QED
      BY <2>1, <3>1, Recursion
  <2>9. PICK g \in [0 .. N -> S] : g[0] = empty /\ \A i \in 1 .. N : g[i] = step[<<i, g[i - 1]>>]
    BY <2>3 DEF Iterates
  <2>4. ASSUME NEW i \in 1 .. N, g[i - 1] \in At(i - 1) PROVE g[i] = Link(g[i - 1], s[i])
    <3>1. i - 1 \in 0 .. N - 1 /\ i - 1 + 1 = i
      BY <1>3
    <3>2. Link(g[i - 1], s[i]) \in At(i)
      BY <1>12, <2>4, <3>1
    <3>3. Link(g[i - 1], s[i]) \in S /\ g[i - 1] \in S
      BY <2>4, <3>2 DEF At
    <3> QED
      BY <2>2, <2>9, <3>3
  <2>5. \A i \in 0 .. N : g[i] \in At(i)
    BY <1>13, <2>9, <2>4
  <2>6. ASSUME NEW i \in 0 .. N PROVE g[i] = IF i = 0 THEN empty ELSE Link(g[i - 1], s[i])
    <3>1. CASE i = 0
      BY <2>9, <3>1
    <3>2. CASE i # 0
      <4>1. i \in 1 .. N /\ i - 1 \in 0 .. N
        BY <1>3, <3>2
      <4> QED
        BY <2>4, <2>5, <3>2, <4>1
    <3> QED
      BY <3>1, <3>2
  <2>7. g = [i \in 0 .. N |-> g[i]]
    BY <2>9
  <2> QED
    BY <2>6, <2>7
<1>15. Eq(f)
  <2> HIDE DEF Eq
  <2> QED
    BY <1>14
<1>16. f[0] = empty /\ \A i \in 1 .. N : f[i] = Link(f[i - 1], s[i])
  <2>1. 0 \in 0 .. N /\ \A i \in 1 .. N : i \in 0 .. N /\ i # 0
    BY <1>3
  <2> HIDE DEF f
  <2> QED
    BY <1>15, <2>1
<1> HIDE DEF f, Eq
<1>17. f[N] \in At(N) /\ N \in 0 .. N
  BY <1>3, <1>13, <1>16
<1> DEFINE m == f[N]
<1>18. m \in Maps(Desc) /\ Same(m) /\ Hashed(m, Elements(s))
  BY <1>17 DEF At, Elements
<1> HIDE DEF m
<1>19. LiveNames(m) = LiveNames(map)
  BY <1>18 DEF LiveNames
<1>20. Sized(m)
  <2>1. m.buckets # <<>>
    <3>1. 0 \in DOMAIN m.buckets /\ 0 \notin DOMAIN <<>>
      BY <1>1, <1>18
    <3> QED
      BY <3>1
  <2> QED
    BY <1>1, <1>18, <2>1 DEF Sized
<1>21. InOrder(m, s)
  BY <1>18, <1>19 DEF InOrder
<1>22. MapInv(m)
  BY <1>3, <1>18, <1>19, <1>20, <1>21 DEF MapInv
<1> QED
  BY <1>5, <1>18, <1>21, <1>22 DEF m

\* The chains depend on three fields only.
LEMMA HashedFrame ==
    ASSUME NEW m, NEW k, NEW S, Hashed(m, S),
           k.nbuckets = m.nbuckets, k.buckets = m.buckets, k.next_bucket = m.next_bucket
    PROVE  Hashed(k, S)
BY DEF Hashed, InBucket, Bucket

\* Another descriptor for an entry that is there.
LEMMA UpdateMap ==
    ASSUME NEW map, MapInv(map), NEW n \in Name, map.desc[n] # Nil, NEW d \in Desc
    PROVE  /\ MapInv([map EXCEPT !.desc[n] = d])
           /\ [map EXCEPT !.desc[n] = d].desc = [map.desc EXCEPT ![n] = d]
           /\ \A s : InOrder(map, s) => InOrder([map EXCEPT !.desc[n] = d], s)
<1> DEFINE ds == [map.desc EXCEPT ![n] = d]
           k == [map EXCEPT !.desc[n] = d]
<1>1. map \in Maps(Desc)
  BY DEF MapInv
<1>2. /\ map.head_insert \in Link0 /\ map.tail_insert \in Link0 /\ map.inuse \in Nat
      /\ map.next_insert \in [Name -> Link0] /\ map.next_bucket \in [Name -> Link0]
      /\ map.desc \in [Name -> Desc \union {Nil}] /\ map.nbuckets \in Named
      /\ map.buckets \in [0 .. map.nbuckets - 1 -> Link0]
  BY <1>1, MapsFacts DEF MapInv, Sized
<1>3. ds \in [Name -> Desc \union {Nil}] /\ d # Nil
  BY <1>2, NilAssumption
<1>4. k = [head_insert |-> map.head_insert, tail_insert |-> map.tail_insert,
           buckets |-> map.buckets, nbuckets |-> map.nbuckets, inuse |-> map.inuse,
           next_insert |-> map.next_insert, next_bucket |-> map.next_bucket, desc |-> ds]
  <2>1. map = [head_insert |-> map.head_insert, tail_insert |-> map.tail_insert,
               buckets |-> map.buckets, nbuckets |-> map.nbuckets, inuse |-> map.inuse,
               next_insert |-> map.next_insert, next_bucket |-> map.next_bucket,
               desc |-> map.desc]
    BY <1>1, MapsFacts
  <2>2. k = [map EXCEPT !.desc = ds]
    OBVIOUS
  <2> HIDE DEF k, ds
  <2> QED
    BY <2>1, <2>2
<1>5. LiveNames(k) = LiveNames(map)
  <2>1. \A x \in Name : ds[x] # Nil <=> map.desc[x] # Nil
    BY <1>2, <1>3
  <2> HIDE DEF ds, k
  <2> QED
    BY <1>4, <2>1 DEF LiveNames
<1> HIDE DEF k, ds
<1>6. k \in Maps(Desc)
  BY <1>2, <1>3, <1>4, IsMap
<1>7. /\ k.head_insert = map.head_insert /\ k.tail_insert = map.tail_insert
      /\ k.buckets = map.buckets /\ k.nbuckets = map.nbuckets /\ k.inuse = map.inuse
      /\ k.next_insert = map.next_insert /\ k.next_bucket = map.next_bucket /\ k.desc = ds
  BY <1>4
<1>8. Sized(k)
  BY <1>5, <1>7 DEF MapInv, Sized
<1>9. /\ \A s : InOrder(map, s) => InOrder(k, s)
      /\ \E s : InOrder(k, s)
  BY <1>5, <1>7 DEF MapInv, InOrder
<1>10. Hashed(k, LiveNames(k))
  BY <1>5, <1>7, HashedFrame DEF MapInv
<1>11. MapInv(k)
  BY <1>6, <1>8, <1>9, <1>10 DEF MapInv
<1> QED
  BY <1>7, <1>9, <1>11 DEF k, ds

\* Insertion, with the rehash that may follow, changes the map at one name.
LEMMA InsertMap ==
    ASSUME NEW map, MapInv(map), NEW n \in Name, NEW d \in Desc, ~InsertAborts(map, n)
    PROVE  /\ MapInv(_ejs_propertymap_insert(map, n, d))
           /\ _ejs_propertymap_insert(map, n, d).desc = [map.desc EXCEPT ![n] = d]
           /\ \E s : /\ InOrder(map, s)
                    /\ \/ InOrder(_ejs_propertymap_insert(map, n, d), s)
                       \/ InOrder(_ejs_propertymap_insert(map, n, d), Append(s, n))
<1> DEFINE m == Allocated(map)
           ins == _ejs_propertymap_insert(map, n, d)
<1> PICK s : InOrder(map, s)
  BY DEF MapInv
<1>1. MapInv(m) /\ m.desc = map.desc /\ m.nbuckets # 0 /\ InOrder(m, s)
  BY AllocatedMap
<1>2. CASE Found(m, n)
  <2>1. ins = [m EXCEPT !.desc[n] = d]
    BY <1>2 DEF _ejs_propertymap_insert
  <2>2. m \in Maps(Desc) /\ Hashed(m, LiveNames(m)) /\ LiveNames(m) \subseteq Name
    BY <1>1 DEF MapInv, LiveNames
  <2>3. n \in LiveNames(m)
    BY <1>1, <1>2, <2>2, FoundIs
  <2> HIDE DEF m, ins
  <2>4. m.desc[n] # Nil
    BY <2>3 DEF LiveNames
  <2>5. /\ MapInv([m EXCEPT !.desc[n] = d]) /\ [m EXCEPT !.desc[n] = d].desc = [m.desc EXCEPT ![n] = d]
        /\ InOrder([m EXCEPT !.desc[n] = d], s)
    BY <1>1, <2>4, UpdateMap
  <2> QED
    BY <1>1, <2>1, <2>5 DEF ins
<1>3. CASE ~Found(m, n)
  <2> DEFINE k == Link(m, n)
             ds == [map.desc EXCEPT ![n] = d]
             ni == [e \in Name |-> IF e = n THEN Nil
                                   ELSE IF e = m.tail_insert THEN n ELSE m.next_insert[e]]
             hi == IF m.head_insert = Nil THEN n ELSE m.head_insert
             S == LiveNames(m)
             new == [k EXCEPT !.desc[n] = d,
                              !.inuse = @ + 1,
                              !.head_insert = IF @ = Nil THEN n ELSE @,
                              !.next_insert = [e \in Name |-> IF e = n THEN Nil
                                                              ELSE IF e = m.tail_insert THEN n ELSE @[e]],
                              !.tail_insert = n]
  <2>1. ins = IF Crowded(new) THEN _ejs_propertymap_rehash(new) ELSE new
    BY <1>3 DEF _ejs_propertymap_insert
  <2>2. /\ m \in Maps(Desc) /\ Hashed(m, S) /\ S \subseteq Name
        /\ m.nbuckets \in Named \ {0} /\ m.buckets \in [0 .. m.nbuckets - 1 -> Link0]
    BY <1>1 DEF MapInv, LiveNames, Sized
  <2>3. n \notin S
    BY <1>1, <1>3, <2>2, FoundIs
  <2>4. ~(Crowded([m EXCEPT !.inuse = @ + 1]) /\ NextPrimes(m) = {})
    BY <1>3 DEF InsertAborts
  <2> HIDE DEF m
  <2>5. /\ k \in Maps(Desc) /\ Hashed(k, S \union {n})
        /\ k.buckets \in [0 .. k.nbuckets - 1 -> Link0]
        /\ k.nbuckets = m.nbuckets /\ k.desc = m.desc
        /\ k.next_insert = m.next_insert /\ k.head_insert = m.head_insert
        /\ k.tail_insert = m.tail_insert /\ k.inuse = m.inuse
    BY <2>2, <2>3, LinkEntry
  <2>6. /\ m.head_insert \in Link0 /\ m.tail_insert \in Link0 /\ m.inuse \in Nat
        /\ m.next_insert \in [Name -> Link0] /\ k.next_bucket \in [Name -> Link0]
        /\ m.desc \in [Name -> Desc \union {Nil}]
    BY <2>2, <2>5, MapsFacts
  <2>7. new = [head_insert |-> hi, tail_insert |-> n, buckets |-> k.buckets,
               nbuckets |-> m.nbuckets, inuse |-> m.inuse + 1,
               next_insert |-> ni, next_bucket |-> k.next_bucket, desc |-> ds]
    <3>1. k = [head_insert |-> k.head_insert, tail_insert |-> k.tail_insert,
               buckets |-> k.buckets, nbuckets |-> k.nbuckets, inuse |-> k.inuse,
               next_insert |-> k.next_insert, next_bucket |-> k.next_bucket,
               desc |-> k.desc]
      BY <2>5, MapsFacts
    <3>2. new = [k EXCEPT !.desc = ds, !.inuse = m.inuse + 1, !.head_insert = hi,
                          !.next_insert = ni, !.tail_insert = n]
      <4> HIDE DEF k
      <4> QED
        BY <1>1, <2>5
    <3> HIDE DEF k, new, ds, hi, ni
    <3> QED
      BY <2>5, <3>1, <3>2
  <2>8. hi \in Link0 /\ n \in Link0 /\ ni \in [Name -> Link0] /\ ds \in [Name -> Desc \union {Nil}]
        /\ m.inuse + 1 \in Nat /\ d # Nil
    BY <1>1, <2>6, NilAssumption DEF Link0
  <2>9. /\ ds[n] = d /\ \A x \in Name \ {n} : ds[x] = map.desc[x]
        /\ ni[n] = Nil /\ \A x \in Name \ {n} : ni[x] = IF x = m.tail_insert THEN n ELSE m.next_insert[x]
    BY <1>1, <2>6
  <2> HIDE DEF new, k, ds, ni, hi
  <2>10. /\ new.head_insert = hi /\ new.tail_insert = n /\ new.buckets = k.buckets
         /\ new.nbuckets = m.nbuckets /\ new.inuse = m.inuse + 1
         /\ new.next_insert = ni /\ new.next_bucket = k.next_bucket /\ new.desc = ds
    BY <2>7
  <2>11. new \in Maps(Desc)
    BY <2>2, <2>5, <2>6, <2>7, <2>8, IsMap
  <2>12. LiveNames(new) = S \union {n}
    BY <1>1, <2>8, <2>9, <2>10 DEF LiveNames
  <2>13. Hashed(new, LiveNames(new))
    BY <2>5, <2>10, <2>12, HashedFrame
  <2>14. InOrder(m, s)
    BY <1>1
  <2>15. /\ Lists(Name, Nil, m.next_insert, m.head_insert, s) /\ s \in Seq(Name) /\ Len(s) \in Nat
         /\ Distinct(s) /\ Elements(s) = S
         /\ m.tail_insert = (IF Len(s) = 0 THEN Nil ELSE s[Len(s)])
         /\ m.head_insert = (IF Len(s) = 0 THEN Nil ELSE s[1])
         /\ m.inuse = Len(s)
    BY <2>14 DEF InOrder, Lists
  <2>16. Nil \notin Name
    BY NameAssumption
  <2>17. hi = IF Len(s) = 0 THEN n ELSE m.head_insert
    <3>1. Len(s) # 0 => s[1] \in Name
      BY <2>15
    <3> QED
      BY <2>15, <2>16, <3>1 DEF hi
  <2>18. ASSUME NEW i \in 1 .. Len(s)
         PROVE  ni[s[i]] = IF i = Len(s) THEN n ELSE m.next_insert[s[i]]
    <3>1. s[i] \in Name \ {n} /\ Len(s) # 0
      BY <2>3, <2>15 DEF Elements
    <3>2. s[i] = m.tail_insert <=> i = Len(s)
      BY <2>15, <3>1 DEF Distinct
    <3> QED
      BY <2>9, <3>1, <3>2
  <2>19. /\ Lists(Name, Nil, ni, IF Len(s) = 0 THEN n ELSE m.head_insert, Append(s, n))
         /\ Elements(Append(s, n)) = Elements(s) \union {n}
    BY <2>3, <2>9, <2>15, <2>16, <2>18, ListAppend
  <2>20. InOrder(new, Append(s, n))
    <3>1. Len(Append(s, n)) = Len(s) + 1 /\ Append(s, n)[Len(s) + 1] = n
      BY <2>15
    <3> QED
      BY <2>10, <2>12, <2>15, <2>17, <2>19, <3>1 DEF InOrder
  <2>21. CASE Crowded(new)
    <3>1. Crowded([m EXCEPT !.inuse = @ + 1])
      <4>1. [m EXCEPT !.inuse = @ + 1].inuse = m.inuse + 1 /\ [m EXCEPT !.inuse = @ + 1].nbuckets = m.nbuckets
        BY <2>2, MapsFacts
      <4> QED
        BY <2>10, <2>21, <4>1 DEF Crowded
    <3>2. NextPrimes(new) # {}
      BY <2>4, <2>10, <3>1 DEF NextPrimes
    <3>3. /\ MapInv(_ejs_propertymap_rehash(new)) /\ _ejs_propertymap_rehash(new).desc = new.desc
          /\ InOrder(_ejs_propertymap_rehash(new), Append(s, n))
      BY <2>11, <2>20, <3>2, RehashMap
    <3> QED
      BY <2>1, <2>10, <2>21, <3>3 DEF ds
  <2>22. CASE ~Crowded(new)
    <3>1. Sized(new)
      <4>1. new.buckets # <<>>
        <5>1. m.nbuckets \in Nat \ {0}
          BY <2>2, PrimesFacts
        <5>2. 0 \in 0 .. k.nbuckets - 1
          BY <2>5, <5>1
        <5>3. DOMAIN k.buckets = 0 .. k.nbuckets - 1
          BY <2>5
        <5>4. 0 \notin DOMAIN <<>>
          OBVIOUS
        <5> QED
          BY <2>10, <5>2, <5>3, <5>4
      <4> QED
        BY <2>2, <2>5, <2>10, <4>1 DEF Sized
    <3>2. MapInv(new)
      BY <2>11, <2>13, <2>20, <3>1 DEF MapInv
    <3> QED
      BY <2>1, <2>10, <2>20, <2>22, <3>2 DEF ds
  <2> QED
    BY <2>21, <2>22
<1> QED
  BY <1>2, <1>3

\* The tail that remove leaves is the last of the entries that stay.
LEMMA NewTailIs ==
    ASSUME NEW map, MapInv(map), NEW s, InOrder(map, s), NEW k \in 1 .. Len(s)
    PROVE  NewTail(map, s[k]) = IF Len(Without(s, k)) = 0 THEN Nil ELSE Without(s, k)[Len(Without(s, k))]
<1>1. /\ s \in Seq(Name) /\ Len(s) \in Nat /\ Len(s) >= 1 /\ Distinct(s)
      /\ map.head_insert = s[1] /\ map.tail_insert = s[Len(s)]
      /\ \A i \in 1 .. Len(s) : map.next_insert[s[i]] = IF i < Len(s) THEN s[i + 1] ELSE Nil
  BY DEF InOrder, Lists
<1>2. Entries(map) = s
  BY MapReads
<1>3. Without(s, k) \in [1 .. Len(s) - 1 -> Name]
  BY <1>1 DEF Without
<1>4. Len(Without(s, k)) = Len(s) - 1
  BY <1>1, <1>3
<1>5. ASSUME Len(s) # 1
      PROVE  Without(s, k)[Len(s) - 1] = IF k = Len(s) THEN s[Len(s) - 1] ELSE s[Len(s)]
  <2>1. PICK L \in Nat : L = Len(s) /\ L >= 1
    BY <1>1
  <2>2. k \in 1 .. L /\ L # 1
    BY <1>5, <2>1
  <2>3. L - 1 \in 1 .. L - 1 /\ L - 1 + 1 = L /\ (L - 1 < k <=> k = L)
    BY <2>1, <2>2
  <2>4. Without(s, k)[L - 1] = IF L - 1 < k THEN s[L - 1] ELSE s[L - 1 + 1]
    BY <2>1, <2>3 DEF Without
  <2> QED
    BY <2>1, <2>3, <2>4
<1>6. (s[Len(s)] = s[k] <=> k = Len(s)) /\ (s[1] = s[k] <=> k = 1)
  BY <1>1 DEF Distinct
<1>7. CASE k # Len(s)
  <2>1. NewTail(map, s[k]) = s[Len(s)] /\ Len(s) # 1
    BY <1>1, <1>6, <1>7 DEF NewTail
  <2> QED
    BY <1>1, <1>4, <1>5, <1>7, <2>1
<1>8. CASE k = Len(s) /\ k = 1
  <2>1. NewTail(map, s[k]) = Nil
    BY <1>1, <1>6, <1>8 DEF NewTail
  <2> QED
    BY <1>4, <1>8, <2>1
<1>9. CASE k = Len(s) /\ k # 1
  <2> DEFINE x == CHOOSE e \in Elements(s) : map.next_insert[e] = s[k]
  <2>1. NewTail(map, s[k]) = x
    BY <1>1, <1>2, <1>6, <1>9 DEF NewTail
  <2>2. Len(s) - 1 \in 1 .. Len(s) /\ map.next_insert[s[Len(s) - 1]] = s[k]
    BY <1>1, <1>9
  <2>3. x \in Elements(s) /\ map.next_insert[x] = s[k]
    <3>1. s[Len(s) - 1] \in Elements(s)
      BY <2>2 DEF Elements
    <3> QED
      BY <2>2, <3>1
  <2> HIDE DEF x
  <2>4. PICK i \in 1 .. Len(s) : x = s[i]
    BY <2>3 DEF Elements
  <2>5. i + 1 = k
    <3>1. s[k] # Nil
      BY <1>1, NameAssumption
    <3>2. i < Len(s) /\ s[i + 1] = s[k] /\ i + 1 \in 1 .. Len(s)
      BY <1>1, <2>3, <2>4, <3>1
    <3> QED
      BY <1>1, <3>2 DEF Distinct
  <2>6. x = s[Len(s) - 1]
    <3>1. i = Len(s) - 1
      BY <1>1, <1>9, <2>5
    <3> QED
      BY <2>4, <3>1
  <2> QED
    BY <1>1, <1>4, <1>5, <1>9, <2>1, <2>6
<1> QED
  BY <1>7, <1>8, <1>9

\* Removal changes the map at one name.
LEMMA RemoveMap ==
    ASSUME NEW map, MapInv(map), NEW n \in Name, map.desc[n] # Nil
    PROVE  /\ MapInv(_ejs_propertymap_remove(map, n))
           /\ _ejs_propertymap_remove(map, n).desc = [map.desc EXCEPT ![n] = Nil]
           /\ \E s : \E k \in 1 .. Len(s) :
                 InOrder(map, s) /\ InOrder(_ejs_propertymap_remove(map, n), Without(s, k))
<1> DEFINE b0 == Bucket(map, n)
           hashed == Unlinked(map.next_bucket, map.buckets[b0], n)
           inserted == Unlinked(map.next_insert, map.head_insert, n)
           S == LiveNames(map)
           ds == [map.desc EXCEPT ![n] = Nil]
           bs == [map.buckets EXCEPT ![b0] = hashed.start]
           m == _ejs_propertymap_remove(map, n)
           nx == [e \in Name |-> IF e = n THEN Nil ELSE IF map.next_bucket[e] = n THEN map.next_bucket[n]
                                                        ELSE map.next_bucket[e]]
           ni == [e \in Name |-> IF e = n THEN Nil ELSE IF map.next_insert[e] = n THEN map.next_insert[n]
                                                        ELSE map.next_insert[e]]
           hi == IF map.head_insert = n THEN map.next_insert[n] ELSE map.head_insert
           hb == IF map.buckets[b0] = n THEN map.next_bucket[n] ELSE map.buckets[b0]
           tl == NewTail(map, n)
<1>1. /\ map \in Maps(Desc) /\ Sized(map) /\ Hashed(map, S) /\ S \subseteq Name /\ n \in S
      /\ map.inuse \in Nat
  BY MapsFacts DEF MapInv, LiveNames
<1>2. PICK s : InOrder(map, s)
  BY DEF MapInv
<1>3. /\ Lists(Name, Nil, map.next_insert, map.head_insert, s) /\ s \in Seq(Name) /\ Len(s) \in Nat
      /\ Distinct(s) /\ Elements(s) = S /\ map.inuse = Len(s)
  BY <1>2 DEF InOrder, Lists
<1>4. PICK k \in 1 .. Len(s) : n = s[k]
  BY <1>1, <1>3 DEF Elements
<1>5. map.inuse # 0 /\ map.nbuckets # 0 /\ Found(map, n)
  BY <1>1, <1>3, <1>4, FoundIs DEF Sized
<1>6. /\ map.nbuckets \in Nat \ {0} /\ map.nbuckets \in Named
      /\ map.buckets \in [0 .. map.nbuckets - 1 -> Link0]
      /\ b0 \in 0 .. map.nbuckets - 1
  BY <1>1, <1>5, PrimesFacts, BucketIn DEF Sized
<1>7. /\ map.head_insert \in Link0 /\ map.tail_insert \in Link0
      /\ map.next_insert \in [Name -> Link0] /\ map.next_bucket \in [Name -> Link0]
      /\ map.desc \in [Name -> Desc \union {Nil}]
  BY <1>1, MapsFacts
<1>8. hashed.start = hb /\ hashed.next = nx /\ inserted.start = hi /\ inserted.next = ni
  BY DEF Unlinked
<1>9. tl = IF Len(Without(s, k)) = 0 THEN Nil ELSE Without(s, k)[Len(Without(s, k))]
  BY <1>2, <1>4, NewTailIs
<1>10. /\ hi \in Link0 /\ hb \in Link0 /\ ni \in [Name -> Link0] /\ nx \in [Name -> Link0]
       /\ ds \in [Name -> Desc \union {Nil}] /\ Nil \in Link0
  BY <1>6, <1>7 DEF Link0
<1>11. bs = [map.buckets EXCEPT ![b0] = hb] /\ bs \in [0 .. map.nbuckets - 1 -> Link0]
  BY <1>6, <1>8, <1>10
<1>12. bs[b0] = hb /\ \A b \in 0 .. map.nbuckets - 1 : b # b0 => bs[b] = map.buckets[b]
  BY <1>6, <1>11
<1>13. /\ \A x \in Name \ {n} : nx[x] = IF map.next_bucket[x] = n THEN map.next_bucket[n] ELSE map.next_bucket[x]
       /\ \A x \in Name \ {n} : ni[x] = IF map.next_insert[x] = n THEN map.next_insert[n] ELSE map.next_insert[x]
       /\ ds[n] = Nil /\ \A x \in Name \ {n} : ds[x] = map.desc[x]
  BY <1>7
<1>14. m = [head_insert |-> hi, tail_insert |-> tl, buckets |-> bs, nbuckets |-> map.nbuckets,
            inuse |-> map.inuse - 1, next_insert |-> ni, next_bucket |-> nx, desc |-> ds]
  <2>1. map = [head_insert |-> map.head_insert, tail_insert |-> map.tail_insert,
               buckets |-> map.buckets, nbuckets |-> map.nbuckets, inuse |-> map.inuse,
               next_insert |-> map.next_insert, next_bucket |-> map.next_bucket,
               desc |-> map.desc]
    BY <1>1, MapsFacts
  <2>2. m = [map EXCEPT !.buckets = bs, !.next_bucket = hashed.next, !.head_insert = inserted.start,
                        !.next_insert = inserted.next, !.tail_insert = tl, !.desc = ds,
                        !.inuse = map.inuse - 1]
    BY <1>5 DEF _ejs_propertymap_remove
  <2> HIDE DEF m, bs, hashed, inserted, tl, ds, ni, nx, hi, hb
  <2> QED
    BY <1>8, <2>1, <2>2
<1> HIDE DEF m, bs, hashed, inserted, tl, ds, ni, nx, hi, hb
<1>15. /\ m.head_insert = hi /\ m.tail_insert = tl /\ m.buckets = bs /\ m.nbuckets = map.nbuckets
       /\ m.inuse = map.inuse - 1 /\ m.next_insert = ni /\ m.next_bucket = nx /\ m.desc = ds
  BY <1>14
<1>16. Nil \notin Name
  BY NameAssumption
<1> DEFINE t == Without(s, k)
<1>17. Lists(Name, Nil, ni, hi, t) /\ Elements(t) = S \ {n}
  <2>1. \A x \in Elements(s) \ {s[k]} :
            ni[x] = IF map.next_insert[x] = s[k] THEN map.next_insert[s[k]] ELSE map.next_insert[x]
    BY <1>1, <1>3, <1>4, <1>13
  <2>2. /\ Lists(Name, Nil, ni, IF map.head_insert = s[k] THEN map.next_insert[s[k]] ELSE map.head_insert, t)
        /\ Elements(t) = Elements(s) \ {s[k]}
    BY <1>3, <1>16, <2>1, ListRemove
  <2> QED
    BY <1>3, <1>4, <2>2 DEF hi
<1>18. Len(t) = Len(s) - 1 /\ t \in Seq(Name)
  <2>1. t \in [1 .. Len(s) - 1 -> Name]
    BY <1>3 DEF Without
  <2> QED
    BY <1>3, <1>4, <2>1
<1>19. tl \in Link0
  BY <1>9, <1>18 DEF Link0
<1>20. m \in Maps(Desc)
  <2>1. map.inuse - 1 \in Nat
    BY <1>1, <1>5
  <2> QED
    BY <1>6, <1>10, <1>11, <1>14, <1>19, <2>1, IsMap
<1>21. LiveNames(m) = S \ {n}
  BY <1>13, <1>15 DEF LiveNames
<1>22. InOrder(m, t)
  BY <1>3, <1>9, <1>15, <1>17, <1>18, <1>21 DEF InOrder
<1>23. Sized(m)
  <2>1. m.buckets # <<>>
    <3>1. 0 \in DOMAIN bs /\ 0 \notin DOMAIN <<>>
      BY <1>6, <1>11
    <3> QED
      BY <1>15, <3>1
  <2> QED
    BY <1>6, <1>11, <1>15, <2>1 DEF Sized
<1>24. \A x \in Name : Bucket(m, x) = Bucket(map, x)
  BY <1>15 DEF Bucket
<1>25. ASSUME NEW b \in 0 .. map.nbuckets - 1 PROVE \E c : InBucket(m, S \ {n}, b, c)
  <2>1. PICK c : InBucket(map, S, b, c)
    BY <1>1 DEF Hashed
  <2>2. /\ Lists(Name, Nil, map.next_bucket, map.buckets[b], c) /\ c \in Seq(Name)
        /\ Elements(c) = {x \in S : Bucket(map, x) = b}
    BY <2>1 DEF InBucket, Lists
  <2>3. CASE b = b0
    <3>1. PICK j \in 1 .. Len(c) : n = c[j]
      BY <1>1, <2>2, <2>3 DEF Elements, b0
    <3>2. \A x \in Elements(c) \ {c[j]} :
              nx[x] = IF map.next_bucket[x] = c[j] THEN map.next_bucket[c[j]] ELSE map.next_bucket[x]
      BY <1>1, <1>13, <2>2, <3>1
    <3>3. /\ Lists(Name, Nil, nx, IF map.buckets[b] = c[j] THEN map.next_bucket[c[j]] ELSE map.buckets[b],
                   Without(c, j))
          /\ Elements(Without(c, j)) = Elements(c) \ {c[j]}
      BY <1>16, <2>2, <3>2, ListRemove
    <3>4. m.buckets[b] = IF map.buckets[b] = c[j] THEN map.next_bucket[c[j]] ELSE map.buckets[b]
      BY <1>12, <1>15, <2>3, <3>1 DEF hb
    <3>5. Elements(Without(c, j)) = {x \in S \ {n} : Bucket(m, x) = b}
      BY <1>1, <1>24, <2>2, <3>1, <3>3
    <3> QED
      BY <1>15, <3>3, <3>4, <3>5 DEF InBucket
  <2>4. CASE b # b0
    <3>1. n \notin Elements(c)
      BY <2>2, <2>4 DEF b0
    <3>2. ASSUME NEW x \in Elements(c) PROVE nx[x] = map.next_bucket[x]
      <4>1. PICK i \in 1 .. Len(c) : x = c[i]
        BY DEF Elements
      <4>2. map.next_bucket[x] # n
        <5>1. CASE i < Len(c)
          <6>1. map.next_bucket[x] = c[i + 1] /\ i + 1 \in 1 .. Len(c)
            BY <2>2, <4>1, <5>1 DEF Lists
          <6> QED
            BY <3>1, <6>1 DEF Elements
        <5>2. CASE ~(i < Len(c))
          <6>1. map.next_bucket[x] = Nil
            BY <2>2, <4>1, <5>2 DEF Lists
          <6> QED
            BY <1>16, <6>1
        <5> QED
          BY <5>1, <5>2
      <4>3. x \in Name \ {n}
        BY <1>1, <2>2, <3>1
      <4> QED
        BY <1>13, <4>2, <4>3
    <3>3. Lists(Name, Nil, nx, m.buckets[b], c)
      BY <1>12, <1>15, <2>2, <2>4, <3>2, ListFrame
    <3>4. Elements(c) = {x \in S \ {n} : Bucket(m, x) = b}
      BY <1>1, <1>24, <2>2, <3>1
    <3> QED
      BY <1>15, <3>3, <3>4 DEF InBucket
  <2> QED
    BY <2>3, <2>4
<1>26. Hashed(m, LiveNames(m))
  BY <1>15, <1>21, <1>25 DEF Hashed
<1>27. MapInv(m)
  BY <1>20, <1>22, <1>23, <1>26 DEF MapInv
<1>28. \E q : \E j \in 1 .. Len(q) : InOrder(map, q) /\ InOrder(m, Without(q, j))
  BY <1>2, <1>4, <1>22 DEF t
<1> QED
  BY <1>15, <1>27, <1>28 DEF m, ds

\* What comes before a name that was there was there too, before that name.
Ordered(old, new) ==
    \A P, Q \in Name : Before(Entries(new), P, Q) /\ old.desc[Q] # Nil => Before(Entries(old), P, Q)

MapGrows(old, new) == LiveNames(old) \subseteq LiveNames(new) /\ Ordered(old, new)

LEMMA OrderedMap ==
    ASSUME NEW old, MapInv(old), NEW new, MapInv(new), NEW s, InOrder(old, s),
           \/ InOrder(new, s)
           \/ \E n : InOrder(new, Append(s, n))
           \/ \E k \in 1 .. Len(s) : InOrder(new, Without(s, k))
    PROVE  Ordered(old, new)
<1>1. Entries(old) = s /\ s \in Seq(Name) /\ Distinct(s) /\ Elements(s) = LiveNames(old) /\ Len(s) \in Nat
  BY MapReads DEF InOrder, Lists
<1>2. CASE InOrder(new, s)
  <2>1. Entries(new) = s
    BY <1>2, MapReads
  <2> QED
    BY <1>1, <2>1 DEF Ordered
<1>3. CASE \E n : InOrder(new, Append(s, n))
  <2>1. PICK n : InOrder(new, Append(s, n))
    BY <1>3
  <2> DEFINE t == Append(s, n)
  <2>2. Entries(new) = t /\ Distinct(t)
    BY <2>1, MapReads DEF InOrder, Lists
  <2>3. Len(t) = Len(s) + 1 /\ \A i \in 1 .. Len(s) : i \in 1 .. Len(t) /\ t[i] = s[i]
    BY <1>1
  <2> HIDE DEF t
  <2> SUFFICES ASSUME NEW P \in Name, NEW Q \in Name, Before(t, P, Q), Q \in Elements(s)
               PROVE  Before(s, P, Q)
    BY <1>1, <2>2 DEF Ordered, LiveNames
  <2>4. PICK i, j \in 1 .. Len(t) : i < j /\ t[i] = P /\ t[j] = Q
    BY DEF Before
  <2>5. PICK l \in 1 .. Len(s) : s[l] = Q
    BY DEF Elements
  <2>6. j = l
    BY <2>2, <2>3, <2>4, <2>5 DEF Distinct
  <2>7. i \in 1 .. Len(s) /\ s[i] = P
    BY <1>1, <2>3, <2>4, <2>6
  <2> QED
    BY <2>4, <2>5, <2>6, <2>7 DEF Before
<1>4. CASE \E k \in 1 .. Len(s) : InOrder(new, Without(s, k))
  <2>1. PICK k \in 1 .. Len(s) : InOrder(new, Without(s, k))
    BY <1>4
  <2> DEFINE t == Without(s, k)
  <2>2. Entries(new) = t
    BY <2>1, MapReads
  <2>3. /\ Len(t) = Len(s) - 1
        /\ \A i \in 1 .. Len(t) : t[i] = IF i < k THEN s[i] ELSE s[i + 1]
    BY <1>1 DEF Without
  <2> HIDE DEF t
  <2> SUFFICES ASSUME NEW P \in Name, NEW Q \in Name, Before(t, P, Q)
               PROVE  Before(s, P, Q)
    BY <1>1, <2>2 DEF Ordered
  <2>4. PICK i, j \in 1 .. Len(t) : i < j /\ t[i] = P /\ t[j] = Q
    BY DEF Before
  <2> DEFINE a == IF i < k THEN i ELSE i + 1
             b == IF j < k THEN j ELSE j + 1
  <2>5. a \in 1 .. Len(s) /\ b \in 1 .. Len(s) /\ a < b
    BY <1>1, <2>3, <2>4
  <2>6. s[a] = P /\ s[b] = Q
    BY <2>3, <2>4
  <2> QED
    BY <2>5, <2>6 DEF Before
<1> QED
  BY <1>2, <1>3, <1>4

LEMMA OrderedRefl == ASSUME NEW map PROVE MapGrows(map, map)
BY DEF MapGrows, Ordered

LEMMA GrowsTrans ==
    ASSUME NEW a, NEW b, NEW c, MapGrows(a, b), MapGrows(b, c)
    PROVE  MapGrows(a, c)
BY DEF MapGrows, Ordered, LiveNames

-----------------------------------------------------------------------------
(* Property descriptors.                                                    *)

\* Not data and accessor at once.
Single(d) == ~(IsDataDescriptor(d) /\ IsAccessorDescriptor(d))
Accessors == Fun \union {undefined, zero}

LEMMA DescFacts ==
    ASSUME NEW d \in Desc
    PROVE  /\ d.has \in SUBSET Fields /\ d.enumerable \in BOOLEAN /\ d.configurable \in BOOLEAN
           /\ d.writable \in BOOLEAN /\ d.slot \in Slot /\ d.setter \in Accessors /\ d # Nil
BY NilAssumption DEF Desc, Accessors

\* The fields of c, but those of d that are in p.
Merged(c, d, p, e) ==
    /\ e.has = c.has \union p
    /\ e.enumerable = IF "enumerable" \in p THEN d.enumerable ELSE c.enumerable
    /\ e.configurable = IF "configurable" \in p THEN d.configurable ELSE c.configurable
    /\ e.writable = IF "writable" \in p THEN d.writable ELSE c.writable
    /\ e.slot = IF "value" \in p \/ "get" \in p THEN d.slot ELSE c.slot
    /\ e.setter = IF "set" \in p THEN d.setter ELSE c.setter

LEMMA CopyFacts ==
    ASSUME NEW c \in Desc, NEW d \in Desc, NEW fs \in SUBSET Fields
    PROVE  Copy(c, d, fs) \in Desc /\ Merged(c, d, d.has \intersect fs, Copy(c, d, fs))
<1> DEFINE e == Copy(c, d, fs)
           p == d.has \intersect fs
<1>1. /\ e.has = c.has \union p
      /\ e.enumerable = IF "enumerable" \in p THEN d.enumerable ELSE c.enumerable
      /\ e.configurable = IF "configurable" \in p THEN d.configurable ELSE c.configurable
      /\ e.writable = IF "writable" \in p THEN d.writable ELSE c.writable
      /\ e.slot = IF p \intersect {"value", "get"} # {} THEN d.slot ELSE c.slot
      /\ e.setter = IF "set" \in p THEN d.setter ELSE c.setter
      /\ e = [has |-> e.has, enumerable |-> e.enumerable, configurable |-> e.configurable,
              writable |-> e.writable, slot |-> e.slot, setter |-> e.setter]
  BY DEF Copy
<1> HIDE DEF e, p
<1>2. (p \intersect {"value", "get"} # {}) <=> ("value" \in p \/ "get" \in p)
  OBVIOUS
<1>3. /\ e.has \in SUBSET Fields /\ e.enumerable \in BOOLEAN /\ e.configurable \in BOOLEAN
      /\ e.writable \in BOOLEAN /\ e.slot \in Slot /\ e.setter \in Accessors
  BY <1>1, DescFacts DEF p
<1>4. e \in Desc
  BY <1>1, <1>3 DEF Desc, Accessors
<1> QED
  BY <1>1, <1>2, <1>4 DEF e, p, Merged

LEMMA NoFieldsFacts ==
    /\ NoFields \in Desc /\ NoFields.has = {} /\ ~NoFields.enumerable /\ ~NoFields.configurable
    /\ ~NoFields.writable /\ NoFields.slot = zero /\ NoFields.setter = zero
BY DEF NoFields, Desc, Slot, Fields

LEMMA ConvertedFacts ==
    ASSUME NEW c \in Desc, NEW d \in Desc, Single(c), Single(d)
    PROVE  LET e == Converted(c, d)
           IN  /\ e \in Desc /\ e.enumerable = c.enumerable /\ e.configurable = c.configurable
               /\ IsGenericDescriptor(d) \/ IsDataDescriptor(c) = IsDataDescriptor(d) => e = c
               /\ ~IsGenericDescriptor(d) /\ IsDataDescriptor(c) # IsDataDescriptor(d) =>
                     e.has = c.has \ {"value", "writable", "get", "set"}
<1> DEFINE e == Converted(c, d)
<1>1. CASE IsGenericDescriptor(d) \/ IsDataDescriptor(c) = IsDataDescriptor(d)
  BY <1>1 DEF Converted
<1>2. CASE ~(IsGenericDescriptor(d) \/ IsDataDescriptor(c) = IsDataDescriptor(d)) /\ IsDataDescriptor(c)
  <2>1. e = [c EXCEPT !.has = @ \ {"value", "writable"}, !.slot = undefined, !.writable = FALSE]
    BY <1>2 DEF Converted
  <2>2. e \in Desc /\ e.enumerable = c.enumerable /\ e.configurable = c.configurable
        /\ e.has = c.has \ {"value", "writable"}
    <3> HIDE DEF e
    <3> QED
      BY <2>1 DEF Desc, Slot
  <2>3. "get" \notin c.has /\ "set" \notin c.has
    BY <1>2 DEF Single, IsAccessorDescriptor, Has
  <2> QED
    BY <1>2, <2>2, <2>3
<1>3. CASE ~(IsGenericDescriptor(d) \/ IsDataDescriptor(c) = IsDataDescriptor(d)) /\ ~IsDataDescriptor(c)
  <2>1. e = [c EXCEPT !.has = @ \ {"get", "set"}, !.slot = undefined, !.setter = undefined]
    BY <1>3 DEF Converted
  <2>2. e \in Desc /\ e.enumerable = c.enumerable /\ e.configurable = c.configurable
        /\ e.has = c.has \ {"get", "set"}
    <3> HIDE DEF e
    <3> QED
      BY <2>1 DEF Desc, Slot
  <2>3. "value" \notin c.has /\ "writable" \notin c.has
    BY <1>3 DEF IsDataDescriptor, Has
  <2> QED
    BY <1>3, <2>2, <2>3
<1> QED
  BY <1>1, <1>2, <1>3

\* What [[DefineOwnProperty]] stores for a new property.
LEMMA NewPropertyFacts ==
    ASSUME NEW d \in Desc, Single(d)
    PROVE  NewProperty(d) \in Desc /\ Single(NewProperty(d))
<1> DEFINE fs == CommonFields \union (IF IsGenericDescriptor(d) \/ IsDataDescriptor(d)
                                      THEN {"value", "writable"} ELSE {"get", "set"})
<1>1. fs \in SUBSET Fields
  BY DEF CommonFields, Fields
<1>2. NewProperty(d) = Copy(NoFields, d, fs)
  BY DEF NewProperty
<1> HIDE DEF fs
<1>3. NewProperty(d) \in Desc /\ NewProperty(d).has = d.has \intersect fs
  <2>1. NewProperty(d) \in Desc /\ Merged(NoFields, d, d.has \intersect fs, NewProperty(d))
    BY <1>1, <1>2, NoFieldsFacts, CopyFacts
  <2> QED
    BY <2>1, NoFieldsFacts DEF Merged
<1>4. \A f : f \in NewProperty(d).has => f \in d.has
  BY <1>3
<1> QED
  BY <1>3, <1>4 DEF Single, IsDataDescriptor, IsAccessorDescriptor, Has

\* What it stores for a property that is there: the property keeps one kind, and
\* if it is not configurable, what it promises.
LEMMA StoredFacts ==
    ASSUME NEW c \in Desc, NEW d \in Desc, Single(c), Single(d)
    PROVE  LET e == Copy(Converted(c, d), d, d.has)
           IN  /\ e \in Desc /\ Single(e)
               /\ ~c.configurable /\ ~Rejects(c, d) => Kept(c, e)
<1> DEFINE k == Converted(c, d)
           e == Copy(k, d, d.has)
<1>1. /\ k \in Desc /\ k.enumerable = c.enumerable /\ k.configurable = c.configurable
      /\ IsGenericDescriptor(d) \/ IsDataDescriptor(c) = IsDataDescriptor(d) => k = c
      /\ ~IsGenericDescriptor(d) /\ IsDataDescriptor(c) # IsDataDescriptor(d) =>
            k.has = c.has \ {"value", "writable", "get", "set"}
  BY ConvertedFacts
<1> HIDE DEF k
<1>2. d.has \in SUBSET Fields /\ d.has \intersect d.has = d.has
  BY DescFacts
<1>3. /\ e \in Desc
      /\ e.has = k.has \union d.has
      /\ e.enumerable = IF "enumerable" \in d.has THEN d.enumerable ELSE k.enumerable
      /\ e.configurable = IF "configurable" \in d.has THEN d.configurable ELSE k.configurable
      /\ e.writable = IF "writable" \in d.has THEN d.writable ELSE k.writable
      /\ e.slot = IF "value" \in d.has \/ "get" \in d.has THEN d.slot ELSE k.slot
      /\ e.setter = IF "set" \in d.has THEN d.setter ELSE k.setter
  <2>1. e \in Desc /\ Merged(k, d, d.has \intersect d.has, e)
    BY <1>1, <1>2, CopyFacts
  <2> HIDE DEF e
  <2> QED
    BY <1>2, <2>1 DEF Merged
<1> HIDE DEF e
<1>4. Single(e)
  BY <1>1, <1>3 DEF Single, IsDataDescriptor, IsAccessorDescriptor, IsGenericDescriptor, Has
<1>5. ASSUME ~c.configurable, ~Rejects(c, d) PROVE Kept(c, e)
  <2>1. /\ ~d.configurable
        /\ "enumerable" \in d.has => d.enumerable = c.enumerable
    BY <1>5 DEF Rejects, Has
  <2>2. e # Nil /\ ~e.configurable /\ e.enumerable = c.enumerable
    BY <1>1, <1>3, <1>5, <2>1, DescFacts
  <2>3. k = c
    BY <1>1, <1>5 DEF Rejects
  <2>4. CASE IsGenericDescriptor(d)
    BY <1>3, <2>2, <2>3, <2>4
       DEF Kept, IsGenericDescriptor, IsDataDescriptor, IsAccessorDescriptor, Has,
           _ejs_property_desc_get_value, _ejs_property_desc_get_getter, _ejs_property_desc_get_setter
  <2>5. CASE ~IsGenericDescriptor(d) /\ IsDataDescriptor(c)
    <3>1. IsDataDescriptor(d) /\ "get" \notin d.has
      BY <1>5, <2>5 DEF Rejects, Single, IsAccessorDescriptor, Has
    <3>2. IsDataDescriptor(e)
      BY <1>3, <2>3, <2>5 DEF IsDataDescriptor, Has
    <3>3. ASSUME ~c.writable
          PROVE  ~e.writable /\ _ejs_property_desc_get_value(e) = _ejs_property_desc_get_value(c)
      <4>1. ~d.writable /\ ("value" \in d.has => d.slot = _ejs_property_desc_get_value(c))
        BY <1>5, <2>5, <3>3 DEF Rejects, Has
      <4>2. ~e.writable
        BY <1>3, <2>3, <3>3, <4>1
      <4>3. CASE "value" \in d.has
        BY <1>3, <4>1, <4>2, <4>3 DEF _ejs_property_desc_get_value, Has
      <4>4. CASE "value" \notin d.has
        BY <1>3, <2>3, <3>1, <4>2, <4>4 DEF _ejs_property_desc_get_value, Has
      <4> QED
        BY <4>2, <4>3, <4>4
    <3> QED
      BY <2>2, <2>5, <3>2, <3>3 DEF Kept
  <2>6. CASE ~IsGenericDescriptor(d) /\ ~IsDataDescriptor(c)
    <3>1. ~IsDataDescriptor(d)
      BY <1>5, <2>6 DEF Rejects
    <3>2. ~IsDataDescriptor(e) /\ "value" \notin d.has
      BY <1>3, <2>3, <2>6, <3>1 DEF IsDataDescriptor, Has
    <3>3. /\ "set" \in d.has => d.setter = _ejs_property_desc_get_setter(c)
          /\ "get" \in d.has => d.slot = _ejs_property_desc_get_getter(c)
      BY <1>5, <2>6 DEF Rejects, Has
    <3>4. _ejs_property_desc_get_setter(e) = _ejs_property_desc_get_setter(c)
      BY <1>3, <2>3, <3>3 DEF _ejs_property_desc_get_setter, Has
    <3>5. _ejs_property_desc_get_getter(e) = _ejs_property_desc_get_getter(c)
      BY <1>3, <2>3, <3>2, <3>3 DEF _ejs_property_desc_get_getter, Has
    <3>6. IsDataDescriptor(c) = IsDataDescriptor(e)
      BY <2>6, <3>2 DEF IsDataDescriptor, Has
    <3> QED
      BY <2>2, <2>6, <3>4, <3>5, <3>6 DEF Kept
  <2> QED
    BY <2>4, <2>5, <2>6
<1> QED
  BY <1>3, <1>4, <1>5 DEF e, k

-----------------------------------------------------------------------------
(* The heap.                                                                *)

ObjRec == [proto : Obj \union {null}, extensible : BOOLEAN, map : Maps(Desc)]

ObjInv(x) ==
    /\ x \in ObjRec
    /\ MapInv(x.map)
    /\ \A P \in Name : x.map.desc[P] # Nil => Single(x.map.desc[P])

\* Objects are well formed and their prototypes exist.
HeapInv(h) ==
    /\ h \in [Obj -> ObjRec \union {Nil}]
    /\ \A o \in Obj : h[o] # Nil => ObjInv(h[o]) /\ (h[o].proto # null => h[h[o].proto] # Nil)

\* The new properties keep what the old ones that are not configurable promise.
MapKeeps(old, new) ==
    \A P \in Name : old.desc[P] # Nil /\ ~old.desc[P].configurable => Kept(old.desc[P], new.desc[P])

\* The new object keeps what the old one promises.
Keeps(old, new) ==
    /\ MapKeeps(old.map, new.map)
    /\ ~old.extensible =>
          ~new.extensible /\ new.proto = old.proto /\ LiveNames(new.map) \subseteq LiveNames(old.map)

HeapKeeps(h, g) == \A o \in Obj : h[o] # Nil => g[o] # Nil /\ Keeps(h[o], g[o])

\* Only properties of o differ.
SameShape(h, o, g) ==
    /\ \A x \in Obj : x # o => g[x] = h[x]
    /\ h[o] # Nil /\ g[o] # Nil
    /\ g[o].proto = h[o].proto /\ g[o].extensible = h[o].extensible

\* The properties of every object keep their order.
HeapOrdered(h, g) == \A o \in Obj : h[o] # Nil => Ordered(h[o].map, g[o].map)

\* And none of them is lost.
HeapGrows(h, g) == \A o \in Obj : h[o] # Nil => MapGrows(h[o].map, g[o].map)

\* What a method that changes properties of o may do.
Changed(h, o, g) == HeapInv(g) /\ HeapKeeps(h, g) /\ SameShape(h, o, g) /\ HeapOrdered(h, g)

\* What one that removes none may do.
Edited(h, o, g) == HeapInv(g) /\ HeapKeeps(h, g) /\ SameShape(h, o, g) /\ HeapGrows(h, g)

LEMMA KeptRefl == ASSUME NEW d \in Desc, ~d.configurable PROVE Kept(d, d)
BY DescFacts DEF Kept

LEMMA KeptTrans == ASSUME NEW c, NEW d, NEW e, Kept(c, d), Kept(d, e) PROVE Kept(c, e)
BY DEF Kept, IsDataDescriptor, Has

LEMMA ObjFacts ==
    ASSUME NEW h, HeapInv(h), NEW o \in Obj, h[o] # Nil
    PROVE  /\ h[o] \in ObjRec /\ MapInv(h[o].map) /\ h[o].map \in Maps(Desc)
           /\ h[o].proto \in Obj \union {null} /\ h[o].extensible \in BOOLEAN
           /\ h[o].map.desc \in [Name -> Desc \union {Nil}]
           /\ \A P \in Name : h[o].map.desc[P] # Nil =>
                 h[o].map.desc[P] \in Desc /\ Single(h[o].map.desc[P])
           /\ h[o].proto # null => h[o].proto \in Obj /\ h[h[o].proto] # Nil
<1>1. ObjInv(h[o]) /\ (h[o].proto # null => h[h[o].proto] # Nil)
  BY DEF HeapInv
<1>2. h[o] \in ObjRec /\ MapInv(h[o].map) /\ h[o].map \in Maps(Desc)
  BY <1>1 DEF ObjInv, MapInv
<1>3. h[o].proto \in Obj \union {null} /\ h[o].extensible \in BOOLEAN
  BY <1>2 DEF ObjRec
<1>4. h[o].map.desc \in [Name -> Desc \union {Nil}]
  BY <1>2, MapsFacts
<1> QED
  BY <1>1, <1>2, <1>3, <1>4 DEF ObjInv

LEMMA KeepsRefl ==
    ASSUME NEW h, HeapInv(h)
    PROVE  HeapKeeps(h, h)
<1> SUFFICES ASSUME NEW o \in Obj, h[o] # Nil PROVE Keeps(h[o], h[o])
  BY DEF HeapKeeps
<1>1. \A P \in Name : h[o].map.desc[P] # Nil => h[o].map.desc[P] \in Desc
  BY ObjFacts
<1> QED
  BY <1>1, KeptRefl DEF Keeps, MapKeeps

LEMMA KeepsTrans ==
    ASSUME NEW h, NEW g, NEW k, HeapKeeps(h, g), HeapKeeps(g, k)
    PROVE  HeapKeeps(h, k)
<1> SUFFICES ASSUME NEW o \in Obj, h[o] # Nil PROVE k[o] # Nil /\ Keeps(h[o], k[o])
  BY DEF HeapKeeps
<1>1. g[o] # Nil /\ k[o] # Nil /\ Keeps(h[o], g[o]) /\ Keeps(g[o], k[o])
  BY DEF HeapKeeps
<1>2. ASSUME NEW P \in Name, h[o].map.desc[P] # Nil, ~h[o].map.desc[P].configurable
      PROVE  Kept(h[o].map.desc[P], k[o].map.desc[P])
  <2>1. Kept(h[o].map.desc[P], g[o].map.desc[P])
    BY <1>1, <1>2 DEF Keeps, MapKeeps
  <2>2. g[o].map.desc[P] # Nil /\ ~g[o].map.desc[P].configurable
    BY <2>1 DEF Kept
  <2>3. Kept(g[o].map.desc[P], k[o].map.desc[P])
    BY <1>1, <2>2 DEF Keeps, MapKeeps
  <2> QED
    BY <2>1, <2>3, KeptTrans
<1>3. MapKeeps(h[o].map, k[o].map)
  BY <1>2 DEF MapKeeps
<1>4. ASSUME ~h[o].extensible
      PROVE  /\ ~k[o].extensible /\ k[o].proto = h[o].proto
             /\ LiveNames(k[o].map) \subseteq LiveNames(h[o].map)
  BY <1>1, <1>4 DEF Keeps
<1> QED
  BY <1>1, <1>3, <1>4 DEF Keeps

LEMMA HeapGrowsTrans ==
    ASSUME NEW h, NEW g, NEW k, HeapKeeps(h, g), HeapGrows(h, g), HeapGrows(g, k)
    PROVE  HeapGrows(h, k)
<1> SUFFICES ASSUME NEW o \in Obj, h[o] # Nil PROVE MapGrows(h[o].map, k[o].map)
  BY DEF HeapGrows
<1>1. MapGrows(h[o].map, g[o].map) /\ MapGrows(g[o].map, k[o].map)
  BY DEF HeapGrows, HeapKeeps
<1> QED
  BY <1>1, GrowsTrans

LEMMA EditedRefl ==
    ASSUME NEW h, HeapInv(h), NEW o \in Obj, h[o] # Nil
    PROVE  Edited(h, o, h)
BY KeepsRefl, OrderedRefl DEF Edited, SameShape, HeapGrows

LEMMA EditedTrans ==
    ASSUME NEW h, NEW g, NEW k, NEW o \in Obj, Edited(h, o, g), Edited(g, o, k)
    PROVE  Edited(h, o, k)
<1>1. HeapKeeps(h, k) /\ HeapGrows(h, k)
  BY KeepsTrans, HeapGrowsTrans DEF Edited
<1> QED
  BY <1>1 DEF Edited, SameShape

HasMap(g, o, m) == g[o].map = m

\* Another map for one object.
LEMMA EditHeap ==
    ASSUME NEW h, HeapInv(h), NEW o \in Obj, h[o] # Nil, NEW m, MapInv(m),
           \A P \in Name : m.desc[P] # Nil => Single(m.desc[P]),
           MapKeeps(h[o].map, m), Ordered(h[o].map, m),
           ~h[o].extensible => LiveNames(m) \subseteq LiveNames(h[o].map),
           NEW g, g = [h EXCEPT ![o].map = m]
    PROVE  Changed(h, o, g) /\ HasMap(g, o, m)
<1> DEFINE x == [h[o] EXCEPT !.map = m]
<1>1. /\ h \in [Obj -> ObjRec \union {Nil}] /\ h[o] \in ObjRec /\ m \in Maps(Desc)
      /\ Nil \notin ObjRec
  BY ObjFacts, NilAssumption DEF HeapInv, MapInv, ObjRec
<1>2. x \in ObjRec /\ x.map = m /\ x.proto = h[o].proto /\ x.extensible = h[o].extensible
  BY <1>1 DEF ObjRec
<1>3. g = [h EXCEPT ![o] = x]
  BY <1>1
<1> HIDE DEF x
<1>4. g \in [Obj -> ObjRec \union {Nil}] /\ g[o] = x /\ \A y \in Obj : y # o => g[y] = h[y]
  BY <1>1, <1>2, <1>3
<1>5. g[o] # Nil /\ \A y \in Obj : g[y] # Nil <=> h[y] # Nil
  BY <1>1, <1>2, <1>4
<1>6. ObjInv(x)
  BY <1>2 DEF ObjInv
<1>7. HeapInv(g)
  <2>1. ASSUME NEW y \in Obj, g[y] # Nil PROVE ObjInv(g[y]) /\ (g[y].proto # null => g[g[y].proto] # Nil)
    <3>1. h[y] # Nil
      BY <1>5, <2>1
    <3>2. ObjInv(h[y]) /\ (h[y].proto # null => h[y].proto \in Obj /\ h[h[y].proto] # Nil)
      BY <3>1, ObjFacts DEF HeapInv
    <3>3. ObjInv(g[y]) /\ g[y].proto = h[y].proto
      BY <1>2, <1>4, <1>6, <3>2
    <3> QED
      BY <1>5, <3>2, <3>3
  <2> QED
    BY <1>4, <2>1 DEF HeapInv
<1>8. HeapKeeps(h, g)
  <2>1. ASSUME NEW y \in Obj, h[y] # Nil PROVE g[y] # Nil /\ Keeps(h[y], g[y])
    <3>1. CASE y = o
      BY <1>2, <1>4, <1>5, <3>1 DEF Keeps
    <3>2. CASE y # o
      BY <1>4, <1>5, <2>1, <3>2, KeepsRefl DEF HeapKeeps
    <3> QED
      BY <3>1, <3>2
  <2> QED
    BY <2>1 DEF HeapKeeps
<1>9. SameShape(h, o, g)
  BY <1>2, <1>4, <1>5 DEF SameShape
<1>10. HeapOrdered(h, g)
  BY <1>2, <1>4, OrderedRefl DEF HeapOrdered, MapGrows
<1> QED
  BY <1>2, <1>4, <1>7, <1>8, <1>9, <1>10 DEF Changed, HasMap

LEMMA EditedHeap ==
    ASSUME NEW h, NEW o \in Obj, NEW m, NEW g, Changed(h, o, g), HasMap(g, o, m),
           LiveNames(h[o].map) \subseteq LiveNames(m)
    PROVE  Edited(h, o, g)
<1>1. ASSUME NEW x \in Obj, h[x] # Nil PROVE MapGrows(h[x].map, g[x].map)
  <2>1. CASE x = o
    BY <1>1, <2>1 DEF Changed, HeapOrdered, HasMap, MapGrows
  <2>2. CASE x # o
    BY <2>2, OrderedRefl DEF Changed, SameShape
  <2> QED
    BY <2>1, <2>2
<1> QED
  BY <1>1 DEF Changed, Edited, HeapGrows

-----------------------------------------------------------------------------
(* The internal methods.                                                    *)

Statuses == {"ok", "reject", "abort"}

LEMMA LookupIs ==
    ASSUME NEW h, HeapInv(h), NEW o \in Obj, h[o] # Nil, NEW P \in Name
    PROVE  _ejs_object_specop_get_own_property(h, o, P) = h[o].map.desc[P]
BY ObjFacts, MapReads DEF _ejs_object_specop_get_own_property

LEMMA DoneIs ==
    ASSUME NEW h
    PROVE  /\ Done(h).heap = h /\ Done(h).status = "ok" /\ Done(h).call = Nil
           /\ Reject(h).heap = h /\ Reject(h).status = "reject" /\ Reject(h).call = Nil
BY DEF Done, Reject

\* [[DefineOwnProperty]]: what it does to the property, for each way it ends.
DefineDoes(h, o, P, d, r) ==
    LET cur == h[o].map.desc[P]
        new == r.heap[o].map.desc[P]
    IN  /\ r.status \in Statuses /\ r.call = Nil
        /\ r.status # "ok" => r.heap = h
        /\ \A Q \in Name : Q # P => r.heap[o].map.desc[Q] = h[o].map.desc[Q]
        /\ cur = Nil /\ r.status = "ok" => new = NewProperty(d)
        /\ cur # Nil =>
              \/ r.status = "ok" /\ r.heap = h /\ Unchanged(cur, d)
              \/ r.status = "reject" /\ ~Unchanged(cur, d) /\ Rejects(cur, d)
              \/ /\ r.status = "ok" /\ ~Unchanged(cur, d) /\ ~Rejects(cur, d)
                 /\ new = Copy(Converted(cur, d), d, d.has)

LEMMA DefineOwn ==
    ASSUME NEW h, HeapInv(h), NEW o \in Obj, h[o] # Nil, NEW P \in Name, NEW d \in Desc, Single(d)
    PROVE  LET r == _ejs_object_specop_define_own_property(h, o, P, d)
           IN  Edited(h, o, r.heap) /\ DefineDoes(h, o, P, d, r)
<1> DEFINE r == _ejs_object_specop_define_own_property(h, o, P, d)
           map == h[o].map
           cur == map.desc[P]
<1>1. /\ MapInv(map) /\ map.desc \in [Name -> Desc \union {Nil}] /\ h[o].extensible \in BOOLEAN
      /\ \A Q \in Name : map.desc[Q] # Nil => map.desc[Q] \in Desc /\ Single(map.desc[Q])
  BY ObjFacts
<1>2. _ejs_object_specop_get_own_property(h, o, P) = cur
  BY LookupIs
<1>3. Edited(h, o, h)
  BY EditedRefl
<1>4. CASE cur = Nil /\ ~h[o].extensible
  <2>1. r = Reject(h)
    BY <1>2, <1>4 DEF _ejs_object_specop_define_own_property
  <2>2. r.heap = h /\ r.status = "reject" /\ r.call = Nil
    BY <2>1, DoneIs
  <2> QED
    BY <1>3, <1>4, <2>2 DEF DefineDoes, Statuses
<1>5. CASE cur = Nil /\ h[o].extensible /\ InsertAborts(map, P)
  <2>1. r = [Reject(h) EXCEPT !.status = "abort"]
    BY <1>2, <1>5 DEF _ejs_object_specop_define_own_property
  <2>2. r.heap = h /\ r.status = "abort" /\ r.call = Nil
    BY <2>1 DEF Reject
  <2> QED
    BY <1>3, <1>5, <2>2 DEF DefineDoes, Statuses
<1>6. CASE cur = Nil /\ h[o].extensible /\ ~InsertAborts(map, P)
  <2> DEFINE n == NewProperty(d)
             m == _ejs_propertymap_insert(map, P, n)
             g == [h EXCEPT ![o].map = m]
  <2>1. r = Done([h EXCEPT ![o].map = _ejs_propertymap_insert(@, P, n)])
    BY <1>2, <1>6 DEF _ejs_object_specop_define_own_property
  <2>2. r = Done(g)
    BY <2>1
  <2>3. n \in Desc /\ Single(n) /\ n # Nil
    BY NewPropertyFacts, DescFacts
  <2> HIDE DEF n
  <2>4. MapInv(m) /\ m.desc = [map.desc EXCEPT ![P] = n] /\ Ordered(map, m)
    <3>1. /\ MapInv(m) /\ m.desc = [map.desc EXCEPT ![P] = n]
          /\ \E s : InOrder(map, s) /\ (InOrder(m, s) \/ InOrder(m, Append(s, P)))
      BY <1>1, <1>6, <2>3, InsertMap
    <3> QED
      BY <1>1, <3>1, OrderedMap
  <2> HIDE DEF m
  <2>5. m.desc[P] = n /\ \A Q \in Name : Q # P => m.desc[Q] = map.desc[Q]
    BY <1>1, <2>4
  <2>6. \A Q \in Name : m.desc[Q] # Nil => Single(m.desc[Q])
    BY <1>1, <2>3, <2>5
  <2>7. MapKeeps(map, m)
    BY <1>1, <1>6, <2>5, KeptRefl DEF MapKeeps
  <2>8. Edited(h, o, g) /\ g[o].map = m
    <3> HIDE DEF map
    <3>1. /\ MapKeeps(h[o].map, m) /\ h[o].extensible /\ Ordered(h[o].map, m)
          /\ LiveNames(h[o].map) \subseteq LiveNames(m)
      BY <1>6, <2>3, <2>4, <2>5, <2>7 DEF map, LiveNames
    <3>2. g = [h EXCEPT ![o].map = m]
      OBVIOUS
    <3> HIDE DEF g
    <3>3. ~h[o].extensible => LiveNames(m) \subseteq LiveNames(h[o].map)
      BY <3>1
    <3>4. MapInv(m)
      BY <2>4
    <3>5. Changed(h, o, g) /\ HasMap(g, o, m)
      BY <2>6, <3>1, <3>2, <3>3, <3>4, EditHeap
    <3>6. Edited(h, o, g)
      BY <3>1, <3>5, EditedHeap
    <3> QED
      BY <3>5, <3>6 DEF HasMap
  <2> HIDE DEF g
  <2>9. r.heap = g /\ r.status = "ok" /\ r.call = Nil
    BY <2>2, DoneIs
  <2> QED
    BY <1>6, <2>5, <2>8, <2>9 DEF DefineDoes, Statuses, n
<1>7. CASE cur # Nil /\ Unchanged(cur, d)
  <2>1. r = Done(h)
    BY <1>2, <1>7 DEF _ejs_object_specop_define_own_property
  <2>2. r.heap = h /\ r.status = "ok" /\ r.call = Nil
    BY <2>1, DoneIs
  <2> QED
    BY <1>3, <1>7, <2>2 DEF DefineDoes, Statuses
<1>8. CASE cur # Nil /\ ~Unchanged(cur, d) /\ Rejects(cur, d)
  <2>1. r = Reject(h)
    BY <1>2, <1>8 DEF _ejs_object_specop_define_own_property
  <2>2. r.heap = h /\ r.status = "reject" /\ r.call = Nil
    BY <2>1, DoneIs
  <2> QED
    BY <1>3, <1>8, <2>2 DEF DefineDoes, Statuses
<1>9. CASE cur # Nil /\ ~Unchanged(cur, d) /\ ~Rejects(cur, d)
  <2> DEFINE n == Copy(Converted(cur, d), d, d.has)
             m == [map EXCEPT !.desc[P] = n]
             g == [h EXCEPT ![o].map = m]
  <2>1. r = Done([h EXCEPT ![o].map.desc[P] = n])
    BY <1>2, <1>9 DEF _ejs_object_specop_define_own_property
  <2>2. r = Done(g)
    BY <2>1
  <2>3. n \in Desc /\ Single(n) /\ n # Nil /\ (~cur.configurable => Kept(cur, n))
    BY <1>1, <1>9, StoredFacts, DescFacts
  <2> HIDE DEF n
  <2>4. MapInv(m) /\ m.desc = [map.desc EXCEPT ![P] = n] /\ Ordered(map, m)
    <3>1. /\ MapInv(m) /\ m.desc = [map.desc EXCEPT ![P] = n]
          /\ \A s : InOrder(map, s) => InOrder(m, s)
      BY <1>1, <1>9, <2>3, UpdateMap
    <3> QED
      BY <1>1, <3>1, OrderedMap DEF MapInv
  <2> HIDE DEF m
  <2>5. m.desc[P] = n /\ \A Q \in Name : Q # P => m.desc[Q] = map.desc[Q]
    BY <1>1, <2>4
  <2>6. \A Q \in Name : m.desc[Q] # Nil => Single(m.desc[Q])
    BY <1>1, <2>3, <2>5
  <2>7. MapKeeps(map, m)
    BY <1>1, <2>3, <2>5, KeptRefl DEF MapKeeps
  <2>8. LiveNames(m) = LiveNames(map)
    BY <1>9, <2>3, <2>5 DEF LiveNames
  <2>9. Edited(h, o, g) /\ g[o].map = m
    <3> HIDE DEF map
    <3>1. MapKeeps(h[o].map, m) /\ LiveNames(m) = LiveNames(h[o].map) /\ Ordered(h[o].map, m)
      BY <2>4, <2>7, <2>8 DEF map
    <3>2. g = [h EXCEPT ![o].map = m]
      OBVIOUS
    <3> HIDE DEF g
    <3>3. ~h[o].extensible => LiveNames(m) \subseteq LiveNames(h[o].map)
      BY <3>1
    <3>4. MapInv(m)
      BY <2>4
    <3>5. Changed(h, o, g) /\ HasMap(g, o, m)
      BY <2>6, <3>1, <3>2, <3>3, <3>4, EditHeap
    <3>6. Edited(h, o, g)
      BY <3>1, <3>5, EditedHeap
    <3> QED
      BY <3>5, <3>6 DEF HasMap
  <2> HIDE DEF g
  <2>10. r.heap = g /\ r.status = "ok" /\ r.call = Nil
    BY <2>2, DoneIs
  <2> QED
    BY <1>9, <2>5, <2>9, <2>10 DEF DefineDoes, Statuses, n
<1> QED
  BY <1>4, <1>5, <1>6, <1>7, <1>8, <1>9

LEMMA DeleteOwn ==
    ASSUME NEW h, HeapInv(h), NEW o \in Obj, h[o] # Nil, NEW P \in Name
    PROVE  LET r == _ejs_object_specop_delete(h, o, P)
           IN  Changed(h, o, r.heap) /\ r.status \in Statuses
<1> DEFINE r == _ejs_object_specop_delete(h, o, P)
           map == h[o].map
           cur == map.desc[P]
<1>1. /\ MapInv(map) /\ map.desc \in [Name -> Desc \union {Nil}]
      /\ \A Q \in Name : map.desc[Q] # Nil => map.desc[Q] \in Desc /\ Single(map.desc[Q])
  BY ObjFacts
<1>2. _ejs_object_specop_get_own_property(h, o, P) = cur
  BY LookupIs
<1>3. CASE cur = Nil \/ ~cur.configurable
  <2>1. r \in {Done(h), Reject(h)}
    BY <1>2, <1>3 DEF _ejs_object_specop_delete
  <2>2. Changed(h, o, h)
    BY EditedRefl DEF Edited, Changed, HeapGrows, HeapOrdered, MapGrows
  <2> QED
    BY <2>1, <2>2, DoneIs DEF Statuses
<1>4. CASE cur # Nil /\ cur.configurable
  <2> DEFINE m == _ejs_propertymap_remove(map, P)
             g == [h EXCEPT ![o].map = m]
  <2>1. r = Done(g)
    BY <1>2, <1>4 DEF _ejs_object_specop_delete
  <2>2. MapInv(m) /\ m.desc = [map.desc EXCEPT ![P] = Nil] /\ Ordered(map, m)
    <3>1. /\ MapInv(m) /\ m.desc = [map.desc EXCEPT ![P] = Nil]
          /\ \E s : \E k \in 1 .. Len(s) : InOrder(map, s) /\ InOrder(m, Without(s, k))
      BY <1>1, <1>4, RemoveMap
    <3> QED
      BY <1>1, <3>1, OrderedMap
  <2> HIDE DEF m
  <2>3. m.desc[P] = Nil /\ \A Q \in Name : Q # P => m.desc[Q] = map.desc[Q]
    BY <1>1, <2>2
  <2>4. \A Q \in Name : m.desc[Q] # Nil => Single(m.desc[Q])
    BY <1>1, <2>3
  <2>5. MapKeeps(map, m)
    BY <1>1, <1>4, <2>3, KeptRefl DEF MapKeeps
  <2>6. LiveNames(m) \subseteq LiveNames(map)
    BY <2>3 DEF LiveNames
  <2>7. Changed(h, o, g)
    BY <2>2, <2>4, <2>5, <2>6, EditHeap
  <2> HIDE DEF g
  <2> QED
    BY <2>1, <2>7, DoneIs DEF Statuses
<1> QED
  BY <1>3, <1>4

LEMMA ValueDesc ==
    ASSUME NEW V \in Val \union {undefined, zero}
    PROVE  Value(V) \in Desc /\ Single(Value(V)) /\ Plain(V) \in Desc /\ Single(Plain(V))
BY DEF Value, Plain, NoFields, Desc, Slot, Fields, Single, IsDataDescriptor, IsAccessorDescriptor, Has

\* [[Set]] changes properties of the receiver, or none.
LEMMA SetProperty ==
    ASSUME NEW h, HeapInv(h), NEW o, NEW x \in Obj, h[x] # Nil, NEW P \in Name,
           NEW V \in Val \union {undefined, zero}
    PROVE  LET r == _ejs_object_specop_set(h, o, P, V, x)
           IN  Edited(h, x, r.heap) /\ r.status \in Statuses
<1> DEFINE r == _ejs_object_specop_set(h, o, P, V, x)
           D(d) == _ejs_object_specop_define_own_property(h, x, P, d)
<1>1. \/ r = Done(h) \/ r = Reject(h) \/ r = D(Value(V)) \/ r = D(Plain(V))
      \/ \E c : r = [Done(h) EXCEPT !.call = c]
  BY DEF _ejs_object_specop_set
<1>2. CASE r = Done(h) \/ r = Reject(h)
  BY <1>2, DoneIs, EditedRefl DEF Statuses
<1>3. CASE r = D(Value(V)) \/ r = D(Plain(V))
  BY <1>3, ValueDesc, DefineOwn DEF DefineDoes
<1>4. CASE \E c : r = [Done(h) EXCEPT !.call = c]
  <2>1. r.heap = h /\ r.status = "ok"
    BY <1>4 DEF Done
  <2> QED
    BY <2>1, EditedRefl DEF Statuses
<1> QED
  BY <1>1, <1>2, <1>3, <1>4

LEMMA IsDesc ==
    ASSUME NEW hs \in SUBSET Fields, NEW e \in BOOLEAN, NEW c \in BOOLEAN, NEW w \in BOOLEAN,
           NEW sl \in Slot, NEW st \in Accessors,
           NEW d, d = [has |-> hs, enumerable |-> e, configurable |-> c, writable |-> w,
                       slot |-> sl, setter |-> st]
    PROVE  /\ d \in Desc /\ d.has = hs /\ d.enumerable = e /\ d.configurable = c
           /\ d.writable = w /\ d.slot = sl /\ d.setter = st
BY DEF Desc, Accessors

LEMMA ToDescriptorFacts ==
    ASSUME NEW a, IsAttributes(a), ~DescriptorThrows(a)
    PROVE  ToDescriptor(a) \in Desc /\ Single(ToDescriptor(a))
<1> DEFINE Read(f, default) == IF f \in DOMAIN a THEN a[f] ELSE default
           d == ToDescriptor(a)
           e == Read("enumerable", FALSE)
           c == Read("configurable", FALSE)
           w == Read("writable", FALSE)
           sl == Read("value", Read("get", zero))
           st == Read("set", zero)
<1>1. d = [has |-> DOMAIN a, enumerable |-> e, configurable |-> c, writable |-> w,
           slot |-> sl, setter |-> st]
  BY DEF ToDescriptor
<1>2. DOMAIN a \in SUBSET Fields
  BY DEF IsAttributes
<1>3. ASSUME NEW f \in Flags PROVE Read(f, FALSE) \in BOOLEAN
  BY DEF IsAttributes
<1>4. e \in BOOLEAN /\ c \in BOOLEAN /\ w \in BOOLEAN
  BY <1>3 DEF Flags
<1>5. /\ "value" \in DOMAIN a => a["value"] \in Slot
      /\ "get" \in DOMAIN a => a["get"] \in Slot
  BY DEF IsAttributes, Flags
<1>6. "set" \in DOMAIN a => a["set"] \in Fun \union {undefined}
  BY DEF DescriptorThrows
<1>7. sl \in Slot /\ st \in Accessors
  BY <1>5, <1>6 DEF Slot, Accessors
<1> HIDE DEF Read, d, e, c, w, sl, st
<1>8. d \in Desc /\ d.has = DOMAIN a
  BY <1>1, <1>2, <1>4, <1>7, IsDesc
<1>9. ~(\E f \in {"get", "set"}, g \in {"value", "writable"} : f \in DOMAIN a /\ g \in DOMAIN a)
  BY DEF DescriptorThrows
<1>10. Single(d)
  BY <1>8, <1>9 DEF Single, IsDataDescriptor, IsAccessorDescriptor, Has
<1> QED
  BY <1>8, <1>10 DEF d

IsResult(r) == r = [heap |-> r.heap, status |-> r.status, call |-> r.call]

LEMMA DefineResult ==
    ASSUME NEW h, NEW o, NEW P, NEW d
    PROVE  IsResult(_ejs_object_specop_define_own_property(h, o, P, d))
<1>1. \A g : IsResult(Done(g)) /\ IsResult(Reject(g)) /\ IsResult([Reject(g) EXCEPT !.status = "abort"])
  BY DEF IsResult, Done, Reject
<1> QED
  BY <1>1 DEF _ejs_object_specop_define_own_property

\* The results of methods that change properties of o.
Edits(h, o) ==
    {r \in [heap : [Obj -> ObjRec \union {Nil}], status : Statuses, call : {Nil}] :
        Edited(h, o, r.heap)}

LEMMA InEdits ==
    ASSUME NEW h, NEW o, NEW r, IsResult(r), Edited(h, o, r.heap), r.status \in Statuses, r.call = Nil
    PROVE  r \in Edits(h, o)
<1>1. r.heap \in [Obj -> ObjRec \union {Nil}]
  BY DEF Edited, HeapInv
<1> QED
  BY <1>1 DEF Edits, IsResult

LEMMA EditsFacts ==
    ASSUME NEW h, NEW o \in Obj, NEW r \in Edits(h, o)
    PROVE  /\ Edited(h, o, r.heap) /\ r.status \in Statuses /\ r.call = Nil
           /\ HeapInv(r.heap) /\ r.heap[o] # Nil
BY DEF Edits, Edited, SameShape

LEMMA DoneEdits ==
    ASSUME NEW h, HeapInv(h), NEW o \in Obj, h[o] # Nil
    PROVE  Done(h) \in Edits(h, o) /\ Reject(h) \in Edits(h, o)
<1>1. IsResult(Done(h)) /\ IsResult(Reject(h))
  BY DEF IsResult, Done, Reject
<1> QED
  BY <1>1, DoneIs, EditedRefl, InEdits DEF Statuses

LEMMA DefineEdits ==
    ASSUME NEW h, NEW o \in Obj, NEW r \in Edits(h, o), NEW P \in Name, NEW d \in Desc, Single(d)
    PROVE  _ejs_object_specop_define_own_property(r.heap, o, P, d) \in Edits(h, o)
<1> DEFINE q == _ejs_object_specop_define_own_property(r.heap, o, P, d)
<1>1. Edited(h, o, r.heap) /\ HeapInv(r.heap) /\ r.heap[o] # Nil
  BY EditsFacts
<1>2. Edited(r.heap, o, q.heap) /\ q.status \in Statuses /\ q.call = Nil
  BY <1>1, DefineOwn DEF DefineDoes
<1>3. IsResult(q)
  BY DefineResult
<1> HIDE DEF q
<1>4. Edited(h, o, q.heap)
  BY <1>1, <1>2, EditedTrans
<1>5. q \in Edits(h, o)
  BY <1>2, <1>3, <1>4, InEdits
<1> QED
  BY <1>5 DEF q

\* Defining along a list.
LEMMA DefineAllEdits ==
    ASSUME NEW h, HeapInv(h), NEW o \in Obj, h[o] # Nil, NEW list, Len(list) \in Nat,
           \A i \in 1 .. Len(list) : list[i][1] \in Name /\ list[i][2] \in Desc /\ Single(list[i][2])
    PROVE  DefineAll(h, o, list) \in Edits(h, o)
<1> DEFINE N == Len(list)
           S == Edits(h, o)
           x0 == Done(h)
           To(i, r) == IF r.status # "ok" THEN r
                       ELSE _ejs_object_specop_define_own_property(r.heap, o, list[i][1], list[i][2])
           Eq(f) == f = [i \in 0 .. N |-> IF i = 0 THEN x0 ELSE To(i, f[i - 1])]
           f == CHOOSE f : Eq(f)
           step == [p \in (1 .. N) \X S |-> To(p[1], p[2])]
<1>1. DefineAll(h, o, list) = f[N]
  BY DEF DefineAll
<1>2. N \in Nat /\ x0 \in S
  BY DoneEdits
<1>3. ASSUME NEW i \in 1 .. N, NEW r \in S PROVE To(i, r) \in S
  BY <1>3, DefineEdits
<1> HIDE DEF N, S, x0, To
<1>4. step \in [(1 .. N) \X S -> S] /\ \A i \in 1 .. N, r \in S : step[<<i, r>>] = To(i, r)
  BY <1>3
<1> HIDE DEF step
<1>5. \E g \in [0 .. N -> S] : Iterates(N, x0, step, g)
  BY <1>2, <1>4, Recursion
<1>6. PICK g \in [0 .. N -> S] : g[0] = x0 /\ \A i \in 1 .. N : g[i] = step[<<i, g[i - 1]>>]
  BY <1>5 DEF Iterates
<1>7. ASSUME NEW i \in 0 .. N PROVE g[i] = IF i = 0 THEN x0 ELSE To(i, g[i - 1])
  <2>1. CASE i = 0
    BY <1>6, <2>1
  <2>2. CASE i # 0
    <3>1. i \in 1 .. N /\ i - 1 \in 0 .. N
      BY <1>2, <2>2
    <3> QED
      BY <1>4, <1>6, <2>2, <3>1
  <2> QED
    BY <2>1, <2>2
<1>8. Eq(g)
  <2>1. g = [i \in 0 .. N |-> g[i]]
    BY <1>6
  <2> QED
    BY <1>7, <2>1
<1>9. Eq(f)
  <2> HIDE DEF Eq
  <2> QED
    BY <1>8
<1> HIDE DEF f
<1>10. f[0] = x0 /\ \A i \in 1 .. N : f[i] = To(i, f[i - 1])
  <2>1. 0 \in 0 .. N /\ \A i \in 1 .. N : i \in 0 .. N /\ i # 0
    BY <1>2
  <2> QED
    BY <1>9, <2>1
<1> HIDE DEF Eq
<1> DEFINE P == {i \in 0 .. N : f[i] \in S}
<1>11. 0 \in P
  BY <1>2, <1>10
<1>12. ASSUME NEW i \in 0 .. N - 1, i \in P PROVE i + 1 \in P
  <2>1. i + 1 \in 1 .. N /\ i + 1 - 1 = i /\ i + 1 \in 0 .. N
    BY <1>2
  <2> QED
    BY <1>3, <1>10, <1>12, <2>1
<1> HIDE DEF P
<1>13. \A i \in 0 .. N : i \in P
  BY <1>2, <1>11, <1>12, BoundedInduction
<1>14. N \in 0 .. N
  BY <1>2
<1> QED
  BY <1>1, <1>13, <1>14 DEF P, S

\* Every descriptor object that does not throw is defined.
LEMMA DefinePropertiesEdits ==
    ASSUME NEW h, HeapInv(h), NEW o \in Obj, h[o] # Nil, NEW props, Len(props) \in Nat,
           \A i \in 1 .. Len(props) : props[i][1] \in Name /\ IsAttributes(props[i][2])
    PROVE  DefineProperties(h, o, props) \in Edits(h, o)
<1> DEFINE list == [i \in 1 .. Len(props) |-> <<props[i][1], ToDescriptor(props[i][2])>>]
<1>1. CASE \E i \in 1 .. Len(props) : DescriptorThrows(props[i][2])
  BY <1>1, DoneEdits DEF DefineProperties
<1>2. CASE ~(\E i \in 1 .. Len(props) : DescriptorThrows(props[i][2]))
  <2>1. DefineProperties(h, o, props) = DefineAll(h, o, list)
    BY <1>2 DEF DefineProperties
  <2>2. PICK N \in Nat : N = Len(props)
    OBVIOUS
  <2>3. DOMAIN list = 1 .. N
    BY <2>2
  <2>4. Len(list) = N
    <3>1. list \in Seq({list[i] : i \in 1 .. N})
      BY <2>2, <2>3
    <3> QED
      BY <2>2, <2>3, <3>1
  <2>5. ASSUME NEW i \in 1 .. N
        PROVE  list[i][1] \in Name /\ list[i][2] \in Desc /\ Single(list[i][2])
    <3>1. list[i][1] = props[i][1] /\ list[i][2] = ToDescriptor(props[i][2])
      BY <2>2
    <3> HIDE DEF list
    <3>2. IsAttributes(props[i][2]) /\ ~DescriptorThrows(props[i][2]) /\ props[i][1] \in Name
      BY <1>2, <2>2
    <3> QED
      BY <3>1, <3>2, ToDescriptorFacts
  <2> HIDE DEF list
  <2> QED
    BY <2>1, <2>2, <2>4, <2>5, DefineAllEdits
<1> QED
  BY <1>1, <1>2

LEMMA PropertiesFacts ==
    ASSUME NEW props \in Properties \union {<<>>}
    PROVE  /\ Len(props) \in Nat
           /\ \A i \in 1 .. Len(props) : props[i][1] \in Name /\ IsAttributes(props[i][2])
<1>1. CASE props = <<>>
  BY <1>1
<1>2. CASE props # <<>>
  BY <1>2, AttributesAssumption
<1> QED
  BY <1>1, <1>2

-----------------------------------------------------------------------------
(* Own keys.                                                                *)

\* r is the part of s that is in S, up to k.
Selected(s, S, k, r) ==
    /\ Elements(r) = {s[i] : i \in {j \in 1 .. k : s[j] \in S}}
    /\ Distinct(r)
    /\ \A i, j \in 1 .. Len(r) : i < j =>
          \E a, b \in 1 .. k : a < b /\ r[i] = s[a] /\ r[j] = s[b]

LEMMA AppendSelected ==
    ASSUME NEW D, NEW s \in Seq(D), Distinct(s), NEW S, NEW k \in 1 .. Len(s),
           NEW r \in Seq(D), Selected(s, S, k - 1, r), s[k] \in S
    PROVE  Append(r, s[k]) \in Seq(D) /\ Selected(s, S, k, Append(r, s[k]))
<1> DEFINE t == Append(r, s[k])
<1>1. /\ s[k] \in D /\ Len(s) \in Nat /\ k \in Nat /\ Len(r) \in Nat
      /\ \A i \in 1 .. k - 1 : i \in 1 .. k /\ i \in 1 .. Len(s) /\ i # k
  OBVIOUS
<1>2. t \in Seq(D) /\ Len(t) = Len(r) + 1 /\ t[Len(r) + 1] = s[k] /\ \A i \in 1 .. Len(r) : t[i] = r[i]
  BY <1>1
<1> HIDE DEF t
<1>3. \A i \in 1 .. Len(t) : i \in 1 .. Len(r) \/ i = Len(r) + 1
  BY <1>1, <1>2
<1>4. Elements(r) = {s[i] : i \in {j \in 1 .. k - 1 : s[j] \in S}}
  BY DEF Selected
<1>5. Elements(t) = Elements(r) \union {s[k]}
  BY <1>1, <1>2, <1>3 DEF Elements
<1>6. Elements(t) = {s[i] : i \in {j \in 1 .. k : s[j] \in S}}
  <2>1. \A i \in 1 .. k : i \in 1 .. k - 1 \/ i = k
    BY <1>1
  <2>2. k \in 1 .. k
    BY <1>1
  <2> QED
    BY <1>1, <1>4, <1>5, <2>1, <2>2
<1>7. ASSUME NEW i \in 1 .. Len(r) PROVE \E a \in 1 .. k - 1 : r[i] = s[a]
  <2>1. r[i] \in Elements(r)
    BY DEF Elements
  <2> QED
    BY <1>4, <2>1
<1>8. ASSUME NEW i \in 1 .. Len(r) PROVE r[i] # s[k]
  <2>1. PICK a \in 1 .. k - 1 : r[i] = s[a]
    BY <1>7
  <2> QED
    BY <1>1, <2>1 DEF Distinct
<1>9. Distinct(t)
  <2> SUFFICES ASSUME NEW i \in 1 .. Len(t), NEW j \in 1 .. Len(t), t[i] = t[j] PROVE i = j
    BY DEF Distinct
  <2>1. Distinct(r)
    BY DEF Selected
  <2>2. CASE i \in 1 .. Len(r) /\ j \in 1 .. Len(r)
    BY <1>2, <2>1, <2>2 DEF Distinct
  <2>3. CASE i = Len(r) + 1 \/ j = Len(r) + 1
    BY <1>2, <1>3, <1>8, <2>3
  <2> QED
    BY <1>3, <2>2, <2>3
<1>10. ASSUME NEW i \in 1 .. Len(t), NEW j \in 1 .. Len(t), i < j
       PROVE  \E a, b \in 1 .. k : a < b /\ t[i] = s[a] /\ t[j] = s[b]
  <2>1. i \in 1 .. Len(r)
    BY <1>1, <1>2, <1>10
  <2>2. CASE j \in 1 .. Len(r)
    <3>1. PICK a \in 1 .. k - 1, b \in 1 .. k - 1 : a < b /\ r[i] = s[a] /\ r[j] = s[b]
      BY <1>10, <2>1, <2>2 DEF Selected
    <3> QED
      BY <1>1, <1>2, <2>1, <2>2, <3>1
  <2>3. CASE j = Len(r) + 1
    <3>1. PICK a \in 1 .. k - 1 : r[i] = s[a]
      BY <1>7, <2>1
    <3>2. a < k /\ a \in 1 .. k /\ k \in 1 .. k
      BY <1>1
    <3> QED
      BY <1>2, <2>1, <2>3, <3>1, <3>2
  <2> QED
    BY <1>3, <2>2, <2>3
<1>11. Selected(s, S, k, t)
  BY <1>6, <1>9, <1>10 DEF Selected
<1> QED
  BY <1>2, <1>11 DEF t

LEMMA SkipSelected ==
    ASSUME NEW s, NEW S, NEW k \in Nat \ {0}, NEW r, Selected(s, S, k - 1, r), s[k] \notin S
    PROVE  Selected(s, S, k, r)
<1>1. \A i \in 1 .. k : i \in 1 .. k - 1 \/ i = k
  OBVIOUS
<1>2. \A i \in 1 .. k - 1 : i \in 1 .. k
  OBVIOUS
<1>3. {j \in 1 .. k : s[j] \in S} = {j \in 1 .. k - 1 : s[j] \in S}
  BY <1>1, <1>2
<1> QED
  BY <1>2, <1>3 DEF Selected

\* Keep selects, without repetition and in order.
LEMMA KeepIs ==
    ASSUME NEW D, NEW s \in Seq(D), Distinct(s), NEW S
    PROVE  Keep(s, S) \in Seq(D) /\ Selected(s, S, Len(s), Keep(s, S))
<1> DEFINE N == Len(s)
           To(i, r) == IF s[i] \in S THEN Append(r, s[i]) ELSE r
           Eq(f) == f = [i \in 0 .. N |-> IF i = 0 THEN <<>> ELSE To(i, f[i - 1])]
           f == CHOOSE f : Eq(f)
           step == [p \in (1 .. N) \X Seq(D) |-> To(p[1], p[2])]
<1>1. Keep(s, S) = f[N]
  BY DEF Keep
<1>2. N \in Nat /\ <<>> \in Seq(D)
  OBVIOUS
<1>3. ASSUME NEW i \in 1 .. N, NEW r \in Seq(D) PROVE To(i, r) \in Seq(D)
  OBVIOUS
<1>4. /\ \A i \in 1 .. N : \A r : s[i] \in S => To(i, r) = Append(r, s[i])
      /\ \A i \in 1 .. N : \A r : s[i] \notin S => To(i, r) = r
  OBVIOUS
<1> HIDE DEF To
<1>5. step \in [(1 .. N) \X Seq(D) -> Seq(D)] /\ \A i \in 1 .. N, r \in Seq(D) : step[<<i, r>>] = To(i, r)
  <2> HIDE DEF N
  <2> QED
    BY <1>3
<1> HIDE DEF step, N
<1>6. \E g \in [0 .. N -> Seq(D)] : Iterates(N, <<>>, step, g)
  BY <1>2, <1>5, Recursion
<1>7. PICK g \in [0 .. N -> Seq(D)] : g[0] = <<>> /\ \A i \in 1 .. N : g[i] = step[<<i, g[i - 1]>>]
  BY <1>6 DEF Iterates
<1>8. ASSUME NEW i \in 0 .. N PROVE g[i] = IF i = 0 THEN <<>> ELSE To(i, g[i - 1])
  <2>1. CASE i = 0
    BY <1>7, <2>1
  <2>2. CASE i # 0
    <3>1. i \in 1 .. N /\ i - 1 \in 0 .. N
      BY <1>2, <2>2
    <3> QED
      BY <1>5, <1>7, <2>2, <3>1
  <2> QED
    BY <2>1, <2>2
<1>9. Eq(g)
  <2>1. g = [i \in 0 .. N |-> g[i]]
    BY <1>7
  <2> QED
    BY <1>8, <2>1
<1>10. Eq(f)
  <2> HIDE DEF Eq
  <2> QED
    BY <1>9
<1> HIDE DEF f
<1>11. f[0] = <<>> /\ \A i \in 1 .. N : f[i] = To(i, f[i - 1])
  <2>1. 0 \in 0 .. N /\ \A i \in 1 .. N : i \in 0 .. N /\ i # 0
    BY <1>2
  <2> QED
    BY <1>10, <2>1
<1> HIDE DEF Eq
<1> DEFINE P == {i \in 0 .. N : f[i] \in Seq(D) /\ Selected(s, S, i, f[i])}
<1>12. 0 \in P
  <2>1. Selected(s, S, 0, <<>>)
    BY DEF Selected, Elements, Distinct
  <2>2. 0 \in 0 .. N /\ f[0] \in Seq(D) /\ Selected(s, S, 0, f[0])
    BY <1>2, <1>11, <2>1
  <2> QED
    BY <2>2
<1>13. ASSUME NEW i \in 0 .. N - 1, i \in P PROVE i + 1 \in P
  <2>1. i + 1 \in 1 .. N /\ i + 1 - 1 = i /\ i + 1 \in 0 .. N /\ i + 1 \in Nat \ {0}
    BY <1>2
  <2>2. f[i] \in Seq(D) /\ Selected(s, S, i + 1 - 1, f[i]) /\ f[i + 1] = To(i + 1, f[i])
    BY <1>11, <1>13, <2>1
  <2>3. CASE s[i + 1] \in S
    <3>1. f[i + 1] = Append(f[i], s[i + 1])
      BY <1>4, <2>1, <2>2, <2>3
    <3>2. i + 1 \in 1 .. Len(s)
      BY <2>1 DEF N
    <3> DEFINE k == i + 1
               q == f[i]
    <3>3. k \in 1 .. Len(s) /\ q \in Seq(D) /\ Selected(s, S, k - 1, q) /\ s[k] \in S
      BY <2>2, <2>3, <3>2
    <3> HIDE DEF k, q
    <3>4. Append(q, s[k]) \in Seq(D) /\ Selected(s, S, k, Append(q, s[k]))
      BY <3>3, AppendSelected
    <3>5. f[i + 1] \in Seq(D) /\ Selected(s, S, i + 1, f[i + 1])
      BY <3>1, <3>4 DEF k, q
    <3> QED
      BY <2>1, <3>5
  <2>4. CASE s[i + 1] \notin S
    <3>1. f[i + 1] = f[i]
      BY <1>4, <2>1, <2>2, <2>4
    <3>2. Selected(s, S, i + 1, f[i])
      BY <2>1, <2>2, <2>4, SkipSelected
    <3> QED
      BY <2>1, <2>2, <3>1, <3>2
  <2> QED
    BY <2>3, <2>4
<1> HIDE DEF P
<1>14. \A i \in 0 .. N : i \in P
  BY <1>2, <1>12, <1>13, BoundedInduction
<1>15. N \in 0 .. N
  BY <1>2
<1> QED
  BY <1>1, <1>14, <1>15 DEF P, N

\* R is a strict order of A.
Orders(R, A) ==
    /\ \A n \in A : <<n, n>> \notin R
    /\ \A l, m, n \in A : <<l, m>> \in R /\ <<m, n>> \in R => <<l, n>> \in R
    /\ \A m, n \in A : m # n => <<m, n>> \in R \/ <<n, m>> \in R

Below(R, A, n) == {m \in A : <<m, n>> \in R}

Sorted(R, A) == [i \in 1 .. Cardinality(A) |-> CHOOSE n \in A : Cardinality(Below(R, A, n)) = i - 1]

LEMMA BelowRanks ==
    ASSUME NEW R, NEW A, IsFiniteSet(A), Orders(R, A)
    PROVE  /\ Cardinality(A) \in Nat
           /\ \A n \in A : Cardinality(Below(R, A, n)) \in 0 .. Cardinality(A) - 1
           /\ \A m, n \in A : <<m, n>> \in R => Cardinality(Below(R, A, m)) < Cardinality(Below(R, A, n))
<1>1. /\ \A n \in A : <<n, n>> \notin R
      /\ \A l, m, n \in A : <<l, m>> \in R /\ <<m, n>> \in R => <<l, n>> \in R
  BY DEF Orders
<1>2. Cardinality(A) \in Nat
  BY FS_CardinalityType
<1>3. ASSUME NEW U, IsFiniteSet(U), NEW T \in SUBSET U, NEW x \in U, x \notin T
      PROVE  Cardinality(T) \in Nat /\ Cardinality(U) \in Nat /\ Cardinality(T) < Cardinality(U)
  <2>1. IsFiniteSet(T) /\ Cardinality(T) <= Cardinality(U) /\ Cardinality(T) # Cardinality(U)
    BY <1>3, FS_Subset
  <2>2. Cardinality(T) \in Nat /\ Cardinality(U) \in Nat
    BY <1>3, <2>1, FS_CardinalityType
  <2> QED
    BY <2>1, <2>2
<1>4. ASSUME NEW n \in A PROVE /\ IsFiniteSet(Below(R, A, n)) /\ Cardinality(Below(R, A, n)) \in Nat
                               /\ Cardinality(Below(R, A, n)) \in 0 .. Cardinality(A) - 1
  <2>1. Below(R, A, n) \in SUBSET A /\ n \notin Below(R, A, n)
    BY <1>1 DEF Below
  <2>2. IsFiniteSet(Below(R, A, n))
    BY <2>1, FS_Subset
  <2>3. Cardinality(Below(R, A, n)) \in Nat /\ Cardinality(Below(R, A, n)) < Cardinality(A)
    BY <1>3, <2>1
  <2> QED
    BY <1>2, <2>2, <2>3
<1>5. ASSUME NEW m \in A, NEW n \in A, <<m, n>> \in R
      PROVE  Cardinality(Below(R, A, m)) < Cardinality(Below(R, A, n))
  <2>1. Below(R, A, m) \in SUBSET Below(R, A, n) /\ m \in Below(R, A, n) /\ m \notin Below(R, A, m)
    BY <1>1, <1>5 DEF Below
  <2> QED
    BY <1>3, <1>4, <2>1
<1> QED
  BY <1>2, <1>4, <1>5

\* Sorted lists A once, in the order R.
LEMMA SortedIs ==
    ASSUME NEW R, NEW A, IsFiniteSet(A), Orders(R, A)
    PROVE  /\ Sorted(R, A) \in Seq(A) /\ Len(Sorted(R, A)) = Cardinality(A)
           /\ Elements(Sorted(R, A)) = A /\ Distinct(Sorted(R, A))
           /\ \A i, j \in 1 .. Len(Sorted(R, A)) : i < j => <<Sorted(R, A)[i], Sorted(R, A)[j]>> \in R
<1> DEFINE k == Cardinality(A)
           rank == [n \in A |-> Cardinality(Below(R, A, n))]
           t == Sorted(R, A)
<1>1. /\ k \in Nat
      /\ \A n \in A : rank[n] \in 0 .. k - 1
      /\ \A m, n \in A : <<m, n>> \in R => rank[m] < rank[n]
  BY BelowRanks
<1>2. \A m, n \in A : m # n => <<m, n>> \in R \/ <<n, m>> \in R
  BY DEF Orders
<1>3. \A n \in A : <<n, n>> \notin R
  BY DEF Orders
<1>4. rank \in [A -> 0 .. k - 1]
  BY <1>1
<1>5. t = [i \in 1 .. k |-> CHOOSE n \in A : rank[n] = i - 1]
  BY DEF Sorted
<1> HIDE DEF k, rank, t
<1>6. \A m, n \in A : rank[m] = rank[n] => m = n
  <2>1. \A m \in A : rank[m] \in Int
    BY <1>1
  <2>2. \A m, n \in A : <<m, n>> \in R => rank[m] # rank[n]
    BY <1>1, <2>1
  <2> QED
    BY <1>2, <2>2
<1>7. IsFiniteSet(0 .. k - 1) /\ Cardinality(0 .. k - 1) = k
  <2> DEFINE b == k - 1
  <2>1. b \in Int /\ 0 \in Int
    BY <1>1
  <2> HIDE DEF b
  <2>2. IsFiniteSet(0 .. b) /\ Cardinality(0 .. b) = IF 0 > b THEN 0 ELSE b - 0 + 1
    BY <2>1, FS_Interval
  <2> QED
    BY <1>1, <2>2 DEF b
<1>8. rank \in Injection(A, 0 .. k - 1)
  BY <1>4, <1>6 DEF Injection, IsInjective
<1>9. rank \in Surjection(A, 0 .. k - 1)
  BY <1>7, <1>8, FS_Injection DEF k
<1>10. \A i \in 0 .. k - 1 : \E n \in A : rank[n] = i
  BY <1>9 DEF Surjection
<1>11. ASSUME NEW i \in 1 .. k PROVE t[i] \in A /\ rank[t[i]] = i - 1
  <2>1. i - 1 \in 0 .. k - 1
    BY <1>1
  <2>2. \E n \in A : rank[n] = i - 1
    BY <1>10, <2>1
  <2>3. t[i] = CHOOSE n \in A : rank[n] = i - 1
    BY <1>5
  <2> QED
    BY <2>2, <2>3
<1>12. t \in [1 .. k -> A]
  BY <1>5, <1>11
<1>13. t \in Seq(A) /\ Len(t) = k
  BY <1>1, <1>12
<1>14. Distinct(t)
  BY <1>1, <1>11, <1>13 DEF Distinct
<1>15. ASSUME NEW n \in A PROVE n \in Elements(t)
  <2>1. rank[n] \in 0 .. k - 1
    BY <1>1
  <2>2. rank[n] + 1 \in 1 .. k /\ rank[n] + 1 - 1 = rank[n]
    BY <1>1, <2>1
  <2>3. t[rank[n] + 1] = n
    <3> DEFINE i == rank[n] + 1
    <3>1. i \in 1 .. k /\ i - 1 = rank[n]
      BY <1>1, <2>1, <2>2
    <3> HIDE DEF i
    <3>2. t[i] \in A /\ rank[t[i]] = i - 1
      BY <1>11, <3>1
    <3>3. t[i] = n
      BY <1>6, <3>1, <3>2
    <3> QED
      BY <3>3 DEF i
  <2> QED
    BY <1>13, <2>2, <2>3 DEF Elements
<1>16. Elements(t) = A
  BY <1>11, <1>13, <1>15 DEF Elements
<1>17. ASSUME NEW i \in 1 .. k, NEW j \in 1 .. k, i < j PROVE <<t[i], t[j]>> \in R
  <2>1. rank[t[i]] < rank[t[j]] /\ t[i] # t[j]
    BY <1>1, <1>11, <1>17
  <2>2. <<t[j], t[i]>> \notin R
    <3>1. ~(rank[t[j]] < rank[t[i]])
      BY <1>1, <1>11, <1>17
    <3> QED
      BY <1>1, <1>11, <3>1
  <2> QED
    BY <1>2, <1>11, <2>1, <2>2
<1> QED
  BY <1>13, <1>14, <1>16, <1>17 DEF k, t

\* The remainder of an integer that is less than a word from 0.
LEMMA RemainderIs ==
    ASSUME NEW x \in Int, -Word < x, x < Word
    PROVE  x % Word = IF x < 0 THEN x + Word ELSE x
<1> DEFINE q == x \div Word
           r == x % Word
<1>1. Word \in Nat \ {0}
  BY IndexAssumption
<1>2. x = (Word * (x \div Word)) + (x % Word) /\ x % Word \in 0 .. Word - 1 /\ x \div Word \in Int
  BY <1>1
<1> HIDE DEF q, r
<1>3. x = Word * q + r /\ r \in 0 .. Word - 1 /\ q \in Int
  BY <1>2 DEF q, r
<1>4. q \in {-1, 0}
  <2>1. CASE q >= 1
    <3>1. Word * q >= Word
      BY <1>1, <1>3, <2>1
    <3> QED
      BY <1>1, <1>3, <3>1
  <2>2. CASE q <= -2
    <3>1. Word * q <= -2 * Word
      BY <1>1, <1>3, <2>2
    <3> QED
      BY <1>1, <1>3, <3>1
  <2> QED
    BY <1>3, <2>1, <2>2
<1>5. CASE q = 0
  BY <1>1, <1>3, <1>5 DEF r
<1>6. CASE q = -1
  BY <1>1, <1>3, <1>6 DEF r
<1> QED
  BY <1>4, <1>5, <1>6

\* Numbers below 2^31 are compared as they are.
LEMMA CompareIs ==
    ASSUME NEW a \in DOMAIN Index, NEW b \in DOMAIN Index, 2 * Index[a] < Word, 2 * Index[b] < Word
    PROVE  string_index_compare(a, b) = Index[a] - Index[b]
<1>1. Word \in Nat \ {0} /\ Index[a] \in Nat /\ Index[b] \in Nat
  BY IndexAssumption
<1>2. ASSUME NEW x \in Int, -Word < 2 * x, 2 * x < Word PROVE ToInt32(x) = x
  <2>1. x % Word = IF x < 0 THEN x + Word ELSE x
    BY <1>1, <1>2, RemainderIs
  <2> QED
    BY <1>1, <1>2, <2>1 DEF ToInt32
<1>3. ToInt32(Index[a]) = Index[a] /\ ToInt32(Index[b]) = Index[b]
  BY <1>1, <1>2
<1> DEFINE d == Index[a] - Index[b]
<1>4. d \in Int /\ -Word < 2 * d /\ 2 * d < Word
  BY <1>1
<1> HIDE DEF d
<1>5. ToInt32(d) = d
  BY <1>2, <1>4
<1> QED
  BY <1>3, <1>5 DEF string_index_compare, d

\* qsort keeps the names, and sorts them if their numbers are below 2^31.
LEMMA QsortIs ==
    ASSUME NEW s \in Seq(Name), Distinct(s), Elements(s) \subseteq DOMAIN Index
    PROVE  /\ qsort(s) \in Seq(Name) /\ Distinct(qsort(s)) /\ Elements(qsort(s)) = Elements(s)
           /\ (\A P \in Elements(s) : 2 * Index[P] < Word) =>
                 \A i, j \in 1 .. Len(qsort(s)) : i < j => Index[qsort(s)[i]] <= Index[qsort(s)[j]]
<1> DEFINE A == Elements(s)
           N == Len(s)
           lists == {t \in [1 .. N -> A] : \A i, j \in 1 .. N : t[i] = t[j] => i = j}
           q == qsort(s)
<1>1. N \in Nat /\ A \subseteq Name /\ IsFiniteSet(A) /\ Cardinality(A) = N
  BY NameAssumption, ShortList DEF Elements
<1>2. s \in lists
  BY DEF Elements, Distinct
<1>3. q = CHOOSE t \in lists : (\E u \in lists : Ascends(u)) => Ascends(t)
  BY DEF qsort
<1>4. q \in lists /\ ((\E u \in lists : Ascends(u)) => Ascends(q))
  <2>1. \E t \in lists : (\E u \in lists : Ascends(u)) => Ascends(t)
    BY <1>2
  <2> HIDE DEF lists, q
  <2> QED
    BY <1>3, <2>1
<1>5. q \in [1 .. N -> A] /\ \A i, j \in 1 .. N : q[i] = q[j] => i = j
  BY <1>4
<1> HIDE DEF q, N
<1>6. q \in Seq(Name) /\ q \in Seq(A) /\ Len(q) = N /\ Distinct(q)
  BY <1>1, <1>5 DEF Distinct
<1>7. Elements(q) = A
  <2>1. Elements(q) \subseteq A
    BY <1>5, <1>6 DEF Elements
  <2> HIDE DEF A
  <2>2. IsFiniteSet(Elements(q)) /\ Cardinality(Elements(q)) = N
    BY <1>1, <1>6, ShortList
  <2> QED
    BY <1>1, <2>1, <2>2, FS_Subset
<1>8. ASSUME \A P \in A : 2 * Index[P] < Word, NEW i \in 1 .. Len(q), NEW j \in 1 .. Len(q), i < j
      PROVE  Index[q[i]] <= Index[q[j]]
  <2> DEFINE First(P, Q) == Index[P] < Index[Q] \/ (Index[P] = Index[Q] /\ Before(s, P, Q))
             R == {x \in A \X A : First(x[1], x[2])}
             u == Sorted(R, A)
  <2>1. \A P \in A : P \in DOMAIN Index /\ Index[P] \in Nat /\ 2 * Index[P] < Word
    BY <1>8, IndexAssumption
  <2>2. /\ \A P \in A : ~Before(s, P, P)
        /\ \A P, Q, V \in A : Before(s, P, Q) /\ Before(s, Q, V) => Before(s, P, V)
        /\ \A P, Q \in A : P # Q => Before(s, P, Q) \/ Before(s, Q, P)
    <3>1. ASSUME NEW P \in A PROVE ~Before(s, P, P)
      BY <1>1 DEF Before, Distinct, N
    <3>2. ASSUME NEW P \in A, NEW Q \in A, NEW V \in A, Before(s, P, Q), Before(s, Q, V)
          PROVE  Before(s, P, V)
      <4>1. PICK k, l \in 1 .. Len(s) : k < l /\ s[k] = P /\ s[l] = Q
        BY <3>2 DEF Before
      <4>2. PICK m, n \in 1 .. Len(s) : m < n /\ s[m] = Q /\ s[n] = V
        BY <3>2 DEF Before
      <4>3. l = m
        BY <4>1, <4>2 DEF Distinct
      <4>4. k < n
        BY <4>1, <4>2, <4>3
      <4> QED
        BY <4>1, <4>2, <4>4 DEF Before
    <3>3. ASSUME NEW P \in A, NEW Q \in A, P # Q PROVE Before(s, P, Q) \/ Before(s, Q, P)
      <4>1. PICK k \in 1 .. Len(s) : s[k] = P
        BY DEF Elements
      <4>2. PICK l \in 1 .. Len(s) : s[l] = Q
        BY DEF Elements
      <4>3. k < l \/ l < k
        BY <3>3, <4>1, <4>2
      <4> QED
        BY <4>1, <4>2, <4>3 DEF Before
    <3> QED
      BY <3>1, <3>2, <3>3
  <2>3. \A P, Q \in A : <<P, Q>> \in R <=> First(P, Q)
    OBVIOUS
  <2> HIDE DEF A, R
  <2>4. Orders(R, A)
    BY <2>1, <2>2, <2>3 DEF Orders
  <2>5. /\ u \in Seq(A) /\ Len(u) = N /\ Distinct(u)
        /\ \A k, l \in 1 .. Len(u) : k < l => <<u[k], u[l]>> \in R
    BY <1>1, <2>4, SortedIs
  <2> HIDE DEF u
  <2>6. u \in lists
    BY <1>1, <2>5 DEF Distinct
  <2>7. Ascends(u)
    <3> SUFFICES ASSUME NEW k \in 1 .. Len(u), NEW l \in 1 .. Len(u), k < l
                 PROVE  string_index_compare(u[k], u[l]) <= 0
      BY DEF Ascends
    <3>1. u[k] \in A /\ u[l] \in A /\ <<u[k], u[l]>> \in R
      BY <2>5
    <3>2. Index[u[k]] <= Index[u[l]]
      BY <2>1, <2>3, <3>1
    <3>3. string_index_compare(u[k], u[l]) = Index[u[k]] - Index[u[l]]
      BY <2>1, <3>1, CompareIs
    <3> QED
      BY <2>1, <3>1, <3>2, <3>3
  <2>8. Ascends(q)
    BY <1>4, <2>6, <2>7
  <2>9. string_index_compare(q[i], q[j]) <= 0
    BY <1>8, <2>8 DEF Ascends
  <2>10. q[i] \in A /\ q[j] \in A
    BY <1>6
  <2>11. string_index_compare(q[i], q[j]) = Index[q[i]] - Index[q[j]]
    BY <2>1, <2>10, CompareIs
  <2> QED
    BY <2>1, <2>9, <2>10, <2>11
<1> QED
  BY <1>6, <1>7, <1>8 DEF q

\* Sequences without repetition of disjoint elements, one after the other.
LEMMA Concatenated ==
    ASSUME NEW D, NEW s \in Seq(D), NEW t \in Seq(D), Distinct(s), Distinct(t),
           Elements(s) \intersect Elements(t) = {}
    PROVE  /\ s \o t \in Seq(D) /\ Distinct(s \o t) /\ Elements(s \o t) = Elements(s) \union Elements(t)
           /\ Len(s \o t) = Len(s) + Len(t)
           /\ \A i \in 1 .. Len(s) : (s \o t)[i] = s[i]
           /\ \A i \in 1 .. Len(t) : (s \o t)[Len(s) + i] = t[i]
           /\ \A i \in 1 .. Len(s \o t) : i \in 1 .. Len(s) \/ (i - Len(s) \in 1 .. Len(t) /\ i > Len(s))
<1> DEFINE u == s \o t
<1>1. /\ u \in Seq(D) /\ Len(u) = Len(s) + Len(t) /\ Len(s) \in Nat /\ Len(t) \in Nat
      /\ \A i \in 1 .. Len(u) : u[i] = IF i <= Len(s) THEN s[i] ELSE t[i - Len(s)]
  OBVIOUS
<1> HIDE DEF u
<1>2. \A i \in 1 .. Len(u) : i \in 1 .. Len(s) \/ (i - Len(s) \in 1 .. Len(t) /\ i > Len(s))
  BY <1>1
<1>3. \A i \in 1 .. Len(s) : i \in 1 .. Len(u) /\ u[i] = s[i]
  BY <1>1
<1>4. ASSUME NEW i \in 1 .. Len(t) PROVE Len(s) + i \in 1 .. Len(u) /\ u[Len(s) + i] = t[i]
  <2>1. Len(s) + i \in 1 .. Len(u) /\ ~(Len(s) + i <= Len(s)) /\ Len(s) + i - Len(s) = i
    BY <1>1
  <2> QED
    BY <1>1, <2>1
<1>5. Elements(u) = Elements(s) \union Elements(t)
  <2>1. ASSUME NEW i \in 1 .. Len(u) PROVE u[i] \in Elements(s) \union Elements(t)
    <3>1. CASE i \in 1 .. Len(s)
      BY <1>3, <3>1 DEF Elements
    <3>2. CASE i - Len(s) \in 1 .. Len(t) /\ i > Len(s)
      <4>1. u[i] = t[i - Len(s)]
        BY <1>1, <3>2
      <4> QED
        BY <3>2, <4>1 DEF Elements
    <3> QED
      BY <1>2, <3>1, <3>2
  <2>2. ASSUME NEW i \in 1 .. Len(s) PROVE s[i] \in Elements(u)
    BY <1>3 DEF Elements
  <2>3. ASSUME NEW i \in 1 .. Len(t) PROVE t[i] \in Elements(u)
    BY <1>4 DEF Elements
  <2>4. Elements(u) \subseteq Elements(s) \union Elements(t)
    BY <2>1 DEF Elements
  <2>5. Elements(s) \subseteq Elements(u) /\ Elements(t) \subseteq Elements(u)
    BY <2>2, <2>3 DEF Elements
  <2> QED
    BY <2>4, <2>5
<1>6. ASSUME NEW i \in 1 .. Len(u), NEW j \in 1 .. Len(u), u[i] = u[j] PROVE i = j
  <2>1. CASE i \in 1 .. Len(s) /\ j \in 1 .. Len(s)
    BY <1>3, <1>6, <2>1 DEF Distinct
  <2>2. CASE i > Len(s) /\ j > Len(s)
    <3>1. i - Len(s) \in 1 .. Len(t) /\ j - Len(s) \in 1 .. Len(t)
          /\ u[i] = t[i - Len(s)] /\ u[j] = t[j - Len(s)]
      BY <1>1, <1>2, <2>2
    <3>2. i - Len(s) = j - Len(s)
      BY <1>6, <3>1 DEF Distinct
    <3> QED
      BY <1>1, <3>2
  <2>3. CASE ~(i > Len(s)) /\ j > Len(s)
    <3>1. u[i] \in Elements(s) /\ u[j] \in Elements(t)
      BY <1>1, <1>2, <2>3 DEF Elements
    <3> QED
      BY <1>6, <3>1
  <2>4. CASE i > Len(s) /\ ~(j > Len(s))
    <3>1. u[i] \in Elements(t) /\ u[j] \in Elements(s)
      BY <1>1, <1>2, <2>4 DEF Elements
    <3> QED
      BY <1>6, <3>1
  <2> QED
    BY <1>1, <1>2, <2>1, <2>2, <2>3, <2>4
<1> QED
  BY <1>1, <1>2, <1>3, <1>4, <1>5, <1>6 DEF u, Distinct

\* Numbers in order if they are below 2^31, others as in s.
InPlace(ns, s, P, Q) ==
    \/ Rank(P) < Rank(Q)
    \/ Rank(P) = Rank(Q) /\ Rank(P) = 1 /\
          ((\A V \in ns \intersect DOMAIN Index : 2 * Index[V] < Word) => Index[P] <= Index[Q])
    \/ Rank(P) = Rank(Q) /\ Rank(P) # 1 /\ Before(s, P, Q)

\* The keys of an object with properties ns that were made in the order s.
KeysOf(ns, s, keys) ==
    /\ keys \in Seq(Name) /\ Distinct(keys) /\ Elements(keys) = ns
    /\ \A i, j \in 1 .. Len(keys) : i < j => InPlace(ns, s, keys[i], keys[j])

LEMMA KeysAre ==
    ASSUME NEW h, HeapInv(h), NEW o \in Obj, h[o] # Nil
    PROVE  KeysOf(LiveNames(h[o].map), Entries(h[o].map), _ejs_object_specop_own_property_keys(h, o))
<1> DEFINE s == Entries(h[o].map)
           I == DOMAIN Index
           W == Name \ (DOMAIN Index \union Symbol)
           numbers == Keep(s, I)
           A == Elements(numbers)
           a == qsort(numbers)
           b == Keep(s, W)
           c == Keep(s, Symbol)
           keys == a \o b \o c
<1>1. s \in Seq(Name) /\ Distinct(s) /\ Elements(s) = LiveNames(h[o].map) /\ Len(s) \in Nat
  <2>1. PICK q : InOrder(h[o].map, q)
    BY ObjFacts DEF MapInv
  <2>2. s = q
    BY <2>1, ObjFacts, MapReads
  <2> QED
    BY <2>1, <2>2 DEF InOrder, Lists
<1> HIDE DEF s
<1>2. /\ numbers \in Seq(Name) /\ Selected(s, I, Len(s), numbers)
      /\ b \in Seq(Name) /\ Selected(s, W, Len(s), b)
      /\ c \in Seq(Name) /\ Selected(s, Symbol, Len(s), c)
  BY <1>1, KeepIs
<1> HIDE DEF numbers, b, c
<1>3. /\ Distinct(numbers) /\ Distinct(b) /\ Distinct(c)
      /\ A = Elements(s) \intersect I /\ Elements(b) = Elements(s) \intersect W
      /\ Elements(c) = Elements(s) \intersect Symbol
      /\ \A i, j \in 1 .. Len(b) : i < j => Before(s, b[i], b[j])
      /\ \A i, j \in 1 .. Len(c) : i < j => Before(s, c[i], c[j])
  <2>1. ASSUME NEW S, NEW r, Selected(s, S, Len(s), r)
        PROVE  /\ Distinct(r) /\ Elements(r) = Elements(s) \intersect S
               /\ \A i, j \in 1 .. Len(r) : i < j => Before(s, r[i], r[j])
    <3>1. Distinct(r) /\ Elements(r) = Elements(s) \intersect S
      <4>1. Distinct(r) /\ Elements(r) = {s[i] : i \in {j \in 1 .. Len(s) : s[j] \in S}}
        BY <2>1 DEF Selected
      <4>2. {s[i] : i \in {j \in 1 .. Len(s) : s[j] \in S}} = Elements(s) \intersect S
        BY DEF Elements
      <4> QED
        BY <4>1, <4>2
    <3>2. ASSUME NEW i \in 1 .. Len(r), NEW j \in 1 .. Len(r), i < j PROVE Before(s, r[i], r[j])
      <4>1. PICK x, y \in 1 .. Len(s) : x < y /\ r[i] = s[x] /\ r[j] = s[y]
        BY <2>1, <3>2 DEF Selected
      <4> QED
        BY <4>1 DEF Before
    <3> QED
      BY <3>1, <3>2
  <2> QED
    BY <1>2, <2>1
<1>4. IsFiniteSet(A) /\ Cardinality(A) = Len(numbers) /\ A \subseteq Name /\ A \subseteq I
  BY <1>2, <1>3, NameAssumption, ShortList DEF Elements
<1>5. _ejs_object_specop_own_property_keys(h, o) = keys
  BY DEF _ejs_object_specop_own_property_keys, s, numbers, b, c
<1>6. /\ a \in Seq(Name) /\ Elements(a) = A /\ Distinct(a)
      /\ (\A P \in A : 2 * Index[P] < Word) =>
            \A i, j \in 1 .. Len(a) : i < j => Index[a[i]] <= Index[a[j]]
  BY <1>2, <1>3, <1>4, QsortIs
<1> HIDE DEF A
<1>7. a \in Seq(Name)
  BY <1>6
<1> HIDE DEF a
<1>8. Symbol \subseteq Name /\ I \subseteq Name \ Symbol /\ Elements(s) \subseteq Name
  BY <1>1, NamesAssumption DEF LiveNames
<1> DEFINE ab == a \o b
<1>9. Elements(a) \intersect Elements(b) = {}
  BY <1>3, <1>6
<1>10. ab \in Seq(Name) /\ Distinct(ab) /\ Elements(ab) = Elements(a) \union Elements(b)
  BY <1>2, <1>3, <1>6, <1>7, <1>9, Concatenated
<1>11. Elements(ab) \intersect Elements(c) = {}
  BY <1>3, <1>6, <1>8, <1>10
<1>12. ASSUME NEW i \in 1 .. Len(ab), NEW j \in 1 .. Len(ab), i < j
       PROVE  InPlace(Elements(s), s, ab[i], ab[j])
  <2>1. /\ Len(a) \in Nat
        /\ \A k \in 1 .. Len(a) : ab[k] = a[k] /\ a[k] \in I
        /\ \A k \in 1 .. Len(ab) :
              \/ k \in 1 .. Len(a)
              \/ k > Len(a) /\ ab[k] \in W /\ k - Len(a) \in 1 .. Len(b) /\ ab[k] = b[k - Len(a)]
    <3>1. /\ Len(a) \in Nat /\ Len(b) \in Nat
          /\ \A k \in 1 .. Len(a) : ab[k] = a[k]
          /\ \A k \in 1 .. Len(b) : ab[Len(a) + k] = b[k]
          /\ \A k \in 1 .. Len(ab) : k \in 1 .. Len(a) \/ (k - Len(a) \in 1 .. Len(b) /\ k > Len(a))
      BY <1>2, <1>3, <1>6, <1>7, <1>9, Concatenated
    <3> HIDE DEF ab
    <3>2. \A k \in 1 .. Len(a) : a[k] \in I
      BY <1>3, <1>6 DEF Elements
    <3>3. \A k \in 1 .. Len(b) : b[k] \in W
      BY <1>3 DEF Elements
    <3>4. ASSUME NEW k \in 1 .. Len(ab)
          PROVE  \/ k \in 1 .. Len(a)
                 \/ k > Len(a) /\ ab[k] \in W /\ k - Len(a) \in 1 .. Len(b) /\ ab[k] = b[k - Len(a)]
      <4>1. CASE k - Len(a) \in 1 .. Len(b)
        <5>1. Len(a) + (k - Len(a)) = k
          BY <3>1
        <5>2. ab[k] = b[k - Len(a)]
          BY <3>1, <4>1, <5>1
        <5> QED
          BY <3>1, <3>3, <4>1, <5>2
      <4> QED
        BY <3>1, <4>1
    <3> QED
      BY <3>1, <3>2, <3>4
  <2> HIDE DEF ab
  <2>2. CASE i \in 1 .. Len(a) /\ j \in 1 .. Len(a)
    <3>1. /\ ab[i] = a[i] /\ ab[j] = a[j] /\ ab[i] \in I /\ ab[j] \in I
          /\ (\A P \in A : 2 * Index[P] < Word) => Index[a[i]] <= Index[a[j]]
      BY <1>6, <1>12, <2>1, <2>2
    <3> QED
      BY <1>3, <3>1 DEF Rank, InPlace
  <2>3. CASE i \in 1 .. Len(a) /\ j > Len(a)
    <3>1. ab[i] \in I /\ ab[j] \in W
      BY <2>1, <2>3
    <3> QED
      BY <3>1 DEF Rank, InPlace
  <2>4. CASE i > Len(a) /\ j > Len(a)
    <3>1. /\ ab[i] \in W /\ i - Len(a) \in 1 .. Len(b) /\ ab[i] = b[i - Len(a)]
          /\ ab[j] \in W /\ j - Len(a) \in 1 .. Len(b) /\ ab[j] = b[j - Len(a)]
      BY <2>1, <2>4
    <3>2. i - Len(a) < j - Len(a)
      BY <1>12, <2>1
    <3>3. Before(s, ab[i], ab[j])
      BY <1>3, <3>1, <3>2
    <3> QED
      BY <3>1, <3>3 DEF Rank, InPlace
  <2>5. i > Len(a) => ~(j \in 1 .. Len(a))
    BY <1>12, <2>1
  <2> QED
    BY <2>1, <2>2, <2>3, <2>4, <2>5
<1>13. keys = ab \o c
  OBVIOUS
<1>14. /\ keys \in Seq(Name) /\ Distinct(keys) /\ Elements(keys) = Elements(ab) \union Elements(c)
       /\ \A k \in 1 .. Len(ab) : keys[k] = ab[k]
       /\ \A k \in 1 .. Len(c) : keys[Len(ab) + k] = c[k]
       /\ \A k \in 1 .. Len(keys) : k \in 1 .. Len(ab) \/ (k - Len(ab) \in 1 .. Len(c) /\ k > Len(ab))
  <2> HIDE DEF ab, keys
  <2> QED
    BY <1>2, <1>3, <1>10, <1>11, <1>13, Concatenated
<1> HIDE DEF ab, keys
<1>15. Len(ab) \in Nat /\ \A k \in 1 .. Len(ab) : ab[k] \in I \union W
  <2>1. ASSUME NEW k \in 1 .. Len(ab) PROVE ab[k] \in I \union W
    <3>1. ab[k] \in Elements(ab)
      BY DEF Elements
    <3> QED
      BY <1>3, <1>6, <1>10, <3>1
  <2> QED
    BY <1>10, <2>1
<1>16. ASSUME NEW k \in 1 .. Len(keys)
       PROVE  \/ k \in 1 .. Len(ab) /\ keys[k] \in I \union W
              \/ k > Len(ab) /\ keys[k] \in Symbol /\ k - Len(ab) \in 1 .. Len(c) /\ keys[k] = c[k - Len(ab)]
  <2>1. CASE k - Len(ab) \in 1 .. Len(c) /\ k > Len(ab)
    <3>1. Len(ab) + (k - Len(ab)) = k
      BY <1>15
    <3>2. keys[k] = c[k - Len(ab)]
      BY <1>14, <2>1, <3>1
    <3>3. c[k - Len(ab)] \in Symbol
      BY <1>3, <2>1 DEF Elements
    <3> QED
      BY <2>1, <3>2, <3>3
  <2> QED
    BY <1>14, <1>15, <2>1
<1>17. ASSUME NEW i \in 1 .. Len(keys), NEW j \in 1 .. Len(keys), i < j
       PROVE  InPlace(Elements(s), s, keys[i], keys[j])
  <2>1. CASE i \in 1 .. Len(ab) /\ j \in 1 .. Len(ab)
    BY <1>12, <1>14, <1>17, <2>1
  <2>2. CASE keys[i] \in I \union W /\ keys[j] \in Symbol
    BY <1>8, <2>2 DEF Rank, InPlace
  <2>3. CASE i > Len(ab) /\ j > Len(ab)
    <3>1. /\ keys[i] \in Symbol /\ i - Len(ab) \in 1 .. Len(c) /\ keys[i] = c[i - Len(ab)]
          /\ keys[j] \in Symbol /\ j - Len(ab) \in 1 .. Len(c) /\ keys[j] = c[j - Len(ab)]
      BY <1>16, <2>3
    <3>2. i - Len(ab) < j - Len(ab)
      BY <1>15, <1>17
    <3>3. Before(s, keys[i], keys[j])
      BY <1>3, <3>1, <3>2
    <3> QED
      BY <1>8, <3>1, <3>3 DEF Rank, InPlace
  <2>4. i > Len(ab) => ~(j \in 1 .. Len(ab))
    BY <1>15, <1>17
  <2> QED
    BY <1>16, <2>1, <2>2, <2>3, <2>4
<1>18. Elements(keys) = Elements(s)
  BY <1>3, <1>6, <1>8, <1>10, <1>14
<1>19. KeysOf(Elements(s), s, keys)
  BY <1>14, <1>17, <1>18 DEF KeysOf
<1> QED
  BY <1>1, <1>5, <1>19 DEF s

-----------------------------------------------------------------------------
(* Seal and freeze.                                                         *)

Levels == {"sealed", "frozen"}

\* What isSealed and isFrozen ask of a property.
Fixed(level, d) == ~d.configurable /\ (level = "frozen" /\ IsDataDescriptor(d) => ~d.writable)

LEMMA IntegrityDescFacts ==
    ASSUME NEW level \in Levels, NEW c
    PROVE  LET d == IntegrityDesc(level, c)
           IN  /\ d \in Desc /\ Single(d)
               /\ ~d.configurable /\ ~d.writable /\ ~d.enumerable
               /\ d.has = IF level = "sealed" \/ IsAccessorDescriptor(c)
                          THEN {"configurable"} ELSE {"configurable", "writable"}
<1> DEFINE d == IntegrityDesc(level, c)
           hs == IF level = "sealed" \/ IsAccessorDescriptor(c)
                 THEN {"configurable"} ELSE {"configurable", "writable"}
           e == NoFields.enumerable
           f == NoFields.configurable
           w == NoFields.writable
<1>1. hs \in SUBSET Fields /\ e \in BOOLEAN /\ f \in BOOLEAN /\ w \in BOOLEAN /\ ~e /\ ~f /\ ~w
      /\ zero \in Slot /\ zero \in Accessors
  BY DEF Fields, NoFields, Slot, Accessors
<1>2. d = [has |-> hs, enumerable |-> e, configurable |-> f, writable |-> w, slot |-> zero, setter |-> zero]
  <2>1. NoFields = [has |-> NoFields.has, enumerable |-> e, configurable |-> f, writable |-> w,
                    slot |-> zero, setter |-> zero]
    BY NoFieldsFacts DEF Desc
  <2>2. d = [NoFields EXCEPT !.has = hs]
    BY DEF IntegrityDesc
  <2> HIDE DEF d, hs, e, f, w
  <2> QED
    BY <2>1, <2>2
<1>3. "get" \notin hs /\ "set" \notin hs
  OBVIOUS
<1> HIDE DEF d, hs, e, f, w
<1>4. /\ d \in Desc /\ d.has = hs /\ d.enumerable = e /\ d.configurable = f /\ d.writable = w
  BY <1>1, <1>2, IsDesc
<1>5. Single(d)
  BY <1>3, <1>4 DEF Single, IsAccessorDescriptor, Has
<1> QED
  BY <1>1, <1>4, <1>5 DEF d, hs

\* A property that is sealed or frozen without being rejected is fixed.
LEMMA IntegrityStep ==
    ASSUME NEW h, HeapInv(h), NEW o \in Obj, h[o] # Nil, NEW P \in Name, h[o].map.desc[P] # Nil,
           NEW level \in Levels,
           NEW r, r = _ejs_object_specop_define_own_property(
                          h, o, P, IntegrityDesc(level, h[o].map.desc[P]))
    PROVE  /\ Edited(h, o, r.heap) /\ r.status \in Statuses /\ r.call = Nil /\ IsResult(r)
           /\ LiveNames(r.heap[o].map) = LiveNames(h[o].map)
           /\ \A Q \in Name : Q # P => r.heap[o].map.desc[Q] = h[o].map.desc[Q]
           /\ r.status = "ok" => Fixed(level, r.heap[o].map.desc[P])
<1> DEFINE c == h[o].map.desc[P]
           d == IntegrityDesc(level, c)
           new == r.heap[o].map.desc[P]
<1>1. c \in Desc /\ Single(c)
  BY ObjFacts
<1>2. /\ d \in Desc /\ Single(d) /\ ~d.configurable /\ ~d.writable /\ ~d.enumerable
      /\ d.has = IF level = "sealed" \/ IsAccessorDescriptor(c)
                 THEN {"configurable"} ELSE {"configurable", "writable"}
  BY IntegrityDescFacts
<1>3. Edited(h, o, r.heap) /\ DefineDoes(h, o, P, d, r) /\ IsResult(r)
  BY <1>2, DefineOwn, DefineResult
<1> HIDE DEF d
<1>4. /\ r.status \in Statuses /\ r.call = Nil
      /\ \A Q \in Name : Q # P => r.heap[o].map.desc[Q] = h[o].map.desc[Q]
      /\ \/ r.status = "ok" /\ r.heap = h /\ Unchanged(c, d)
         \/ r.status = "reject" /\ r.heap = h
         \/ r.status = "ok" /\ new = Copy(Converted(c, d), d, d.has)
  BY <1>3 DEF DefineDoes
<1> HIDE DEF c, new
<1>5. CASE r.status = "ok" /\ new = Copy(Converted(c, d), d, d.has)
  <2> DEFINE k == Converted(c, d)
  <2>1. k \in Desc
    BY <1>1, <1>2, ConvertedFacts
  <2> HIDE DEF k
  <2>2. new \in Desc /\ Merged(k, d, d.has \intersect d.has, new)
    BY <1>2, <1>5, <2>1, CopyFacts, DescFacts DEF k
  <2>3. d.has \intersect d.has = d.has
    OBVIOUS
  <2>4. ~new.configurable
    BY <1>2, <2>2, <2>3 DEF Merged
  <2>5. level = "frozen" /\ IsDataDescriptor(new) => ~new.writable
    <3>1. CASE IsAccessorDescriptor(c)
      <4>1. IsGenericDescriptor(d)
        BY <1>2, <3>1 DEF IsGenericDescriptor, IsDataDescriptor, IsAccessorDescriptor, Has
      <4>2. k = c
        BY <1>1, <1>2, <4>1, ConvertedFacts DEF k
      <4>3. new.has = c.has \union {"configurable"}
        BY <1>2, <2>2, <2>3, <3>1, <4>2 DEF Merged
      <4>4. ~IsDataDescriptor(new)
        BY <1>1, <3>1, <4>3 DEF Single, IsDataDescriptor, Has
      <4> QED
        BY <4>4
    <3>2. CASE ~IsAccessorDescriptor(c) /\ level = "frozen"
      BY <1>2, <2>2, <2>3, <3>2 DEF Merged
    <3> QED
      BY <3>1, <3>2
  <2>6. new # Nil
    BY <2>2, DescFacts
  <2> HIDE DEF d
  <2>7. LiveNames(r.heap[o].map) = LiveNames(h[o].map)
    BY <1>4, <2>6 DEF LiveNames, c, new
  <2> QED
    BY <1>3, <1>4, <2>4, <2>5, <2>7 DEF Fixed, c, new
<1>6. CASE r.status = "reject" /\ r.heap = h
  BY <1>3, <1>4, <1>6 DEF c, new
<1>7. CASE r.status = "ok" /\ r.heap = h /\ Unchanged(c, d)
  <2>1. new = c
    BY <1>7 DEF c, new
  <2>2. d.has # {} /\ d.has = c.has /\ Copy(c, d, d.has) = c
    BY <1>2, <1>7 DEF Unchanged
  <2>3. Merged(c, d, d.has \intersect d.has, c)
    BY <1>1, <1>2, <2>2, CopyFacts, DescFacts
  <2>4. d.has \intersect d.has = d.has
    OBVIOUS
  <2>5. ~c.configurable
    BY <1>2, <2>3, <2>4 DEF Merged
  <2>6. level = "frozen" /\ IsDataDescriptor(c) => ~c.writable
    <3>1. CASE IsAccessorDescriptor(c)
      BY <1>1, <3>1 DEF Single
    <3>2. CASE ~IsAccessorDescriptor(c) /\ level = "frozen"
      BY <1>2, <2>3, <2>4, <3>2 DEF Merged
    <3> QED
      BY <3>1, <3>2
  <2> QED
    BY <1>3, <1>4, <1>7, <2>1, <2>5, <2>6 DEF Fixed, c, new
<1> QED
  BY <1>4, <1>5, <1>6, <1>7

\* The same objects with the same prototypes.
SameProtos(h, g) ==
    \A x \in Obj : /\ g[x] # Nil <=> h[x] # Nil
                   /\ h[x] # Nil => g[x].proto = h[x].proto

\* What a method that leaves the prototypes alone may do.
Kind(h, g) == HeapInv(g) /\ HeapKeeps(h, g) /\ SameProtos(h, g) /\ HeapGrows(h, g)

LEMMA EditedKind ==
    ASSUME NEW h, NEW o \in Obj, NEW g, Edited(h, o, g)
    PROVE  Kind(h, g)
BY DEF Edited, SameShape, Kind, SameProtos

LEMMA KindTrans ==
    ASSUME NEW h, NEW g, NEW k, Kind(h, g), Kind(g, k)
    PROVE  Kind(h, k)
<1>1. HeapKeeps(h, k) /\ HeapGrows(h, k)
  BY KeepsTrans, HeapGrowsTrans DEF Kind
<1> QED
  BY <1>1 DEF Kind, SameProtos

LEMMA PreventExtensions ==
    ASSUME NEW h, HeapInv(h), NEW o \in Obj, h[o] # Nil,
           NEW r, r = _ejs_object_specop_preventextensions(h, o)
    PROVE  /\ Kind(h, r.heap) /\ r.status = "ok" /\ r.call = Nil
           /\ ~r.heap[o].extensible /\ r.heap[o].map = h[o].map
<1> DEFINE x == [h[o] EXCEPT !.extensible = FALSE]
           g == [h EXCEPT ![o] = x]
           no == x.extensible
<1>1. r.heap = g /\ r.status = "ok" /\ r.call = Nil
  BY DEF _ejs_object_specop_preventextensions, Done
<1>2. h[o] \in ObjRec /\ ObjInv(h[o]) /\ h \in [Obj -> ObjRec \union {Nil}]
      /\ (h[o].proto # null => h[h[o].proto] # Nil) /\ h[o].proto \in Obj \union {null}
  BY ObjFacts DEF HeapInv
<1>3. h[o] = [proto |-> h[o].proto, extensible |-> h[o].extensible, map |-> h[o].map]
  BY <1>2 DEF ObjRec
<1>4. /\ x = [proto |-> h[o].proto, extensible |-> no, map |-> h[o].map] /\ ~no /\ no \in BOOLEAN
      /\ x.proto = h[o].proto /\ x.map = h[o].map
  <2> DEFINE y == h[o]
  <2> HIDE DEF y
  <2>1. y = [proto |-> y.proto, extensible |-> y.extensible, map |-> y.map]
    BY <1>3 DEF y
  <2>2. ASSUME NEW e PROVE
            LET z == [y EXCEPT !.extensible = e]
            IN  z = [proto |-> y.proto, extensible |-> z.extensible, map |-> y.map]
                /\ z.extensible = e /\ z.proto = y.proto /\ z.map = y.map
    BY <2>1
  <2>3. x = [y EXCEPT !.extensible = FALSE]
    BY DEF y
  <2>4. /\ x = [proto |-> y.proto, extensible |-> no, map |-> y.map]
        /\ no = FALSE /\ x.proto = y.proto /\ x.map = y.map
    BY <2>2, <2>3
  <2> QED
    BY <2>4 DEF y
<1> HIDE DEF x, no
<1>5. x \in ObjRec
  BY <1>2, <1>4 DEF ObjRec
<1>6. ObjInv(x)
  BY <1>2, <1>4, <1>5 DEF ObjInv
<1>7. x # Nil
  BY <1>5, NilAssumption DEF ObjRec
<1>8. g \in [Obj -> ObjRec \union {Nil}] /\ g[o] = x /\ \A y \in Obj : y # o => g[y] = h[y]
  BY <1>2, <1>5
<1> HIDE DEF g
<1>9. \A y \in Obj : (g[y] # Nil <=> h[y] # Nil) /\ (h[y] # Nil => g[y].proto = h[y].proto)
  BY <1>4, <1>7, <1>8
<1>10. HeapInv(g)
  <2> SUFFICES ASSUME NEW y \in Obj, g[y] # Nil
               PROVE  ObjInv(g[y]) /\ (g[y].proto # null => g[g[y].proto] # Nil)
    BY <1>8 DEF HeapInv
  <2>1. h[y] # Nil /\ g[y].proto = h[y].proto
    BY <1>9
  <2>2. ObjInv(h[y]) /\ (h[y].proto # null => h[y].proto \in Obj /\ h[h[y].proto] # Nil)
    BY <2>1, ObjFacts DEF HeapInv
  <2>3. ObjInv(g[y])
    BY <1>6, <1>8, <2>2
  <2> QED
    BY <1>9, <2>1, <2>2, <2>3
<1>11. HeapKeeps(h, g)
  <2> SUFFICES ASSUME NEW y \in Obj, h[y] # Nil PROVE Keeps(h[y], g[y])
    BY <1>9 DEF HeapKeeps
  <2>1. Keeps(h[y], h[y])
    BY KeepsRefl DEF HeapKeeps
  <2>2. CASE y = o
    BY <1>4, <1>8, <2>1, <2>2 DEF Keeps
  <2> QED
    BY <1>8, <2>1, <2>2
<1>12. HeapGrows(h, g)
  BY <1>4, <1>8, OrderedRefl DEF HeapGrows
<1> QED
  BY <1>1, <1>4, <1>8, <1>9, <1>10, <1>11, <1>12 DEF Kind, SameProtos

\* The results while an object is sealed or frozen.
Seals(h, o) == {r \in Edits(h, o) : LiveNames(r.heap[o].map) = LiveNames(h[o].map)}

SealProperty(o, P, level, r) ==
    LET cur == _ejs_object_specop_get_own_property(r.heap, o, P)
        q == _ejs_object_specop_define_own_property(r.heap, o, P, IntegrityDesc(level, cur))
    IN  [q EXCEPT !.status = IF r.status = "ok" THEN @ ELSE r.status]

LEMMA SealStep ==
    ASSUME NEW h, NEW o \in Obj, NEW r \in Seals(h, o), NEW P \in LiveNames(h[o].map),
           NEW level \in Levels, NEW t, t = SealProperty(o, P, level, r)
    PROVE  /\ t \in Seals(h, o)
           /\ t.status = "ok" => r.status = "ok" /\ Fixed(level, t.heap[o].map.desc[P])
           /\ \A Q \in Name : Q # P => t.heap[o].map.desc[Q] = r.heap[o].map.desc[Q]
<1> DEFINE c == r.heap[o].map.desc[P]
           q == _ejs_object_specop_define_own_property(r.heap, o, P, IntegrityDesc(level, c))
<1>1. r \in Edits(h, o) /\ LiveNames(r.heap[o].map) = LiveNames(h[o].map) /\ P \in Name
  BY DEF Seals, LiveNames
<1>2. /\ Edited(h, o, r.heap) /\ r.status \in Statuses /\ HeapInv(r.heap) /\ r.heap[o] # Nil
      /\ r.heap[o].map.desc[P] # Nil
  BY <1>1, EditsFacts DEF LiveNames
<1>3. _ejs_object_specop_get_own_property(r.heap, o, P) = c
  BY <1>1, <1>2, LookupIs
<1>4. t = [q EXCEPT !.status = IF r.status = "ok" THEN @ ELSE r.status]
  BY <1>3 DEF SealProperty
<1> HIDE DEF q
<1>5. /\ Edited(r.heap, o, q.heap) /\ q.status \in Statuses /\ q.call = Nil /\ IsResult(q)
      /\ LiveNames(q.heap[o].map) = LiveNames(r.heap[o].map)
      /\ \A Q \in Name : Q # P => q.heap[o].map.desc[Q] = r.heap[o].map.desc[Q]
      /\ q.status = "ok" => Fixed(level, q.heap[o].map.desc[P])
  BY <1>1, <1>2, IntegrityStep DEF q
<1>6. /\ t.heap = q.heap /\ t.call = Nil /\ IsResult(t)
      /\ t.status = IF r.status = "ok" THEN q.status ELSE r.status
  BY <1>4, <1>5 DEF IsResult
<1>7. Edited(h, o, t.heap)
  BY <1>2, <1>5, <1>6, EditedTrans
<1>8. t.status \in Statuses
  BY <1>2, <1>5, <1>6
<1>9. t \in Edits(h, o)
  BY <1>6, <1>7, <1>8, InEdits
<1> QED
  BY <1>1, <1>5, <1>6, <1>9 DEF Seals

\* What the loop over the keys of o leaves.
LEMMA SealAll ==
    ASSUME NEW h, HeapInv(h), NEW o \in Obj, h[o] # Nil, NEW level \in Levels,
           NEW keys \in Seq(LiveNames(h[o].map)), NEW f,
           f = CHOOSE run : run = [i \in 0 .. Len(keys) |->
                                      IF i = 0 THEN Done(h) ELSE SealProperty(o, keys[i], level, run[i - 1])]
    PROVE  /\ f[Len(keys)] \in Seals(h, o)
           /\ f[Len(keys)].status = "ok" =>
                 \A P \in Elements(keys) : Fixed(level, f[Len(keys)].heap[o].map.desc[P])
<1> DEFINE N == Len(keys)
           S == Seals(h, o)
           x0 == Done(h)
           To(i, r) == SealProperty(o, keys[i], level, r)
           Does(i, r, t) ==
               /\ t.status = "ok" => r.status = "ok" /\ Fixed(level, t.heap[o].map.desc[keys[i]])
               /\ \A Q \in Name : Q # keys[i] => t.heap[o].map.desc[Q] = r.heap[o].map.desc[Q]
           Eq(g) == g = [i \in 0 .. N |-> IF i = 0 THEN x0 ELSE To(i, g[i - 1])]
           step == [p \in (1 .. N) \X S |-> To(p[1], p[2])]
<1>1. f = CHOOSE g : Eq(g)
  OBVIOUS
<1>2. N \in Nat /\ x0 \in S
  BY DoneEdits, DoneIs DEF Seals
<1>3. \A i \in 1 .. N : keys[i] \in LiveNames(h[o].map) /\ keys[i] \in Name
  BY DEF LiveNames
<1>4. ASSUME NEW i \in 1 .. N, NEW r \in S
      PROVE  To(i, r) \in S /\ Does(i, r, To(i, r))
  BY <1>3, <1>4, SealStep
<1> HIDE DEF N, S, x0, To, Does
<1>5. step \in [(1 .. N) \X S -> S] /\ \A i \in 1 .. N, r \in S : step[<<i, r>>] = To(i, r)
  BY <1>4
<1> HIDE DEF step
<1>6. \E g \in [0 .. N -> S] : Iterates(N, x0, step, g)
  BY <1>2, <1>5, Recursion
<1>7. PICK g \in [0 .. N -> S] : g[0] = x0 /\ \A i \in 1 .. N : g[i] = step[<<i, g[i - 1]>>]
  BY <1>6 DEF Iterates
<1>8. ASSUME NEW i \in 0 .. N PROVE g[i] = IF i = 0 THEN x0 ELSE To(i, g[i - 1])
  <2>1. CASE i = 0
    BY <1>7, <2>1
  <2>2. CASE i # 0
    <3>1. i \in 1 .. N /\ i - 1 \in 0 .. N
      BY <1>2, <2>2
    <3> QED
      BY <1>5, <1>7, <2>2, <3>1
  <2> QED
    BY <2>1, <2>2
<1>9. Eq(g)
  <2>1. g = [i \in 0 .. N |-> g[i]]
    BY <1>7
  <2> QED
    BY <1>8, <2>1
<1>10. Eq(f)
  <2> HIDE DEF Eq
  <2> QED
    BY <1>1, <1>9
<1>11. f[0] = x0 /\ \A i \in 1 .. N : f[i] = To(i, f[i - 1])
  <2>1. 0 \in 0 .. N /\ \A i \in 1 .. N : i \in 0 .. N /\ i # 0
    BY <1>2
  <2> QED
    BY <1>10, <2>1
<1> HIDE DEF Eq
<1> DEFINE Good(i) == f[i].status = "ok" => \A j \in 1 .. i : Fixed(level, f[i].heap[o].map.desc[keys[j]])
           P == {i \in 0 .. N : f[i] \in S /\ Good(i)}
<1>12. 0 \in P
  BY <1>2, <1>11
<1>13. ASSUME NEW i \in 0 .. N - 1, i \in P PROVE i + 1 \in P
  <2>1. i + 1 \in 1 .. N /\ i + 1 - 1 = i /\ i + 1 \in 0 .. N /\ i \in Nat
    BY <1>2
  <2>2. f[i + 1] = To(i + 1, f[i]) /\ f[i] \in S /\ Good(i)
    <3>1. f[i] \in S /\ Good(i)
      BY <1>13
    <3> DEFINE k == i + 1
    <3>2. k \in 1 .. N /\ k - 1 = i
      BY <2>1
    <3> HIDE DEF k
    <3>3. f[k] = To(k, f[i])
      BY <1>11, <3>2
    <3> QED
      BY <3>1, <3>3 DEF k
  <2>3. /\ f[i + 1] \in S
        /\ f[i + 1].status = "ok" =>
              f[i].status = "ok" /\ Fixed(level, f[i + 1].heap[o].map.desc[keys[i + 1]])
        /\ \A Q \in Name : Q # keys[i + 1] => f[i + 1].heap[o].map.desc[Q] = f[i].heap[o].map.desc[Q]
    <3> DEFINE k == i + 1
               q == f[i]
    <3>1. k \in 1 .. N /\ q \in S /\ f[k] = To(k, q)
      BY <2>1, <2>2
    <3> HIDE DEF k, q
    <3>2. f[k] \in S /\ Does(k, q, f[k])
      BY <1>4, <3>1
    <3> QED
      BY <3>2 DEF k, q, Does
  <2>4. ASSUME f[i + 1].status = "ok", NEW j \in 1 .. i + 1
        PROVE  Fixed(level, f[i + 1].heap[o].map.desc[keys[j]])
    <3>1. CASE keys[j] = keys[i + 1]
      BY <2>3, <2>4, <3>1
    <3>2. CASE keys[j] # keys[i + 1]
      <4>1. j \in 1 .. i /\ j \in 1 .. N
        BY <1>2, <2>1, <3>2
      <4>2. Fixed(level, f[i].heap[o].map.desc[keys[j]])
        BY <2>2, <2>3, <2>4, <4>1
      <4>3. f[i + 1].heap[o].map.desc[keys[j]] = f[i].heap[o].map.desc[keys[j]]
        BY <1>3, <2>3, <3>2, <4>1
      <4> QED
        BY <4>2, <4>3
    <3> QED
      BY <3>1, <3>2
  <2> QED
    BY <2>1, <2>3, <2>4
<1> HIDE DEF P
<1>14. \A i \in 0 .. N : i \in P
  BY <1>2, <1>12, <1>13, BoundedInduction
<1>15. N \in 0 .. N
  BY <1>2
<1>16. f[N] \in S /\ Good(N)
  BY <1>14, <1>15 DEF P
<1> QED
  BY <1>16 DEF N, S, Elements

\* Seal and freeze: what they may do, and what they reach.
LEMMA SetIntegrity ==
    ASSUME NEW h, HeapInv(h), NEW o \in Obj, h[o] # Nil, NEW level \in Levels,
           NEW r, r = SetIntegrityLevel(h, o, level)
    PROVE  /\ Kind(h, r.heap) /\ r.status \in Statuses
           /\ r.status = "ok" => TestIntegrityLevel(r.heap, o, level)
<1> DEFINE keys == _ejs_object_specop_own_property_keys(h, o)
           f == CHOOSE f : f = [i \in 0 .. Len(keys) |->
                                  IF i = 0 THEN Done(h) ELSE SealProperty(o, keys[i], level, f[i - 1])]
           last == f[Len(keys)]
<1>1. KeysOf(LiveNames(h[o].map), Entries(h[o].map), keys)
  BY KeysAre
<1>2. r = IF last.status # "ok" THEN last ELSE _ejs_object_specop_preventextensions(last.heap, o)
  BY DEF SetIntegrityLevel, SealProperty
<1> HIDE DEF keys
<1>3. keys \in Seq(LiveNames(h[o].map)) /\ Elements(keys) = LiveNames(h[o].map)
  <2>1. keys \in Seq(Name) /\ Elements(keys) = LiveNames(h[o].map)
    BY <1>1 DEF KeysOf
  <2>2. \A i \in 1 .. Len(keys) : keys[i] \in LiveNames(h[o].map)
    BY <2>1 DEF Elements
  <2> QED
    BY <2>1, <2>2
<1>4. /\ last \in Seals(h, o)
      /\ last.status = "ok" => \A P \in Elements(keys) : Fixed(level, last.heap[o].map.desc[P])
  <2>1. f = CHOOSE g : g = [i \in 0 .. Len(keys) |->
                              IF i = 0 THEN Done(h) ELSE SealProperty(o, keys[i], level, g[i - 1])]
    OBVIOUS
  <2> HIDE DEF f
  <2> QED
    BY <1>3, <2>1, SealAll
<1> HIDE DEF f, last
<1>5. /\ Edited(h, o, last.heap) /\ last.status \in Statuses /\ HeapInv(last.heap) /\ last.heap[o] # Nil
      /\ LiveNames(last.heap[o].map) = LiveNames(h[o].map)
  BY <1>4, EditsFacts DEF Seals
<1>6. Kind(h, last.heap)
  BY <1>5, EditedKind
<1>7. CASE last.status # "ok"
  BY <1>2, <1>5, <1>6, <1>7
<1>8. CASE last.status = "ok"
  <2>1. r = _ejs_object_specop_preventextensions(last.heap, o)
    BY <1>2, <1>8
  <2>2. /\ Kind(last.heap, r.heap) /\ r.status = "ok"
        /\ ~r.heap[o].extensible /\ r.heap[o].map = last.heap[o].map
    BY <1>5, <2>1, PreventExtensions
  <2>3. Kind(h, r.heap)
    BY <1>6, <2>2, KindTrans
  <2>4. HeapInv(r.heap) /\ r.heap[o] # Nil
    BY <2>3 DEF Kind, SameProtos
  <2>5. Elements(_ejs_object_specop_own_property_keys(r.heap, o)) = LiveNames(h[o].map)
    BY <1>5, <2>2, <2>4, KeysAre DEF KeysOf
  <2>6. ASSUME NEW P \in LiveNames(h[o].map)
        PROVE  Fixed(level, _ejs_object_specop_get_own_property(r.heap, o, P))
    <3>1. P \in Name
      BY DEF LiveNames
    <3>2. _ejs_object_specop_get_own_property(r.heap, o, P) = last.heap[o].map.desc[P]
      BY <2>2, <2>4, <3>1, LookupIs
    <3> QED
      BY <1>3, <1>4, <1>8, <3>2
  <2>7. TestIntegrityLevel(r.heap, o, level)
    BY <2>2, <2>5, <2>6 DEF TestIntegrityLevel, Fixed
  <2> QED
    BY <2>2, <2>3, <2>7 DEF Statuses
<1> QED
  BY <1>7, <1>8

-----------------------------------------------------------------------------
(* Prototypes.                                                              *)

\* s is o and its prototypes.
ProtoList(h, o, s) ==
    /\ s \in Seq(Obj) /\ Distinct(s) /\ Len(s) >= 1 /\ s[1] = o
    /\ \A i \in 1 .. Len(s) :
          h[s[i]] # Nil /\ h[s[i]].proto = IF i < Len(s) THEN s[i + 1] ELSE null

\* Every chain of prototypes ends.
Ends(h) == \A o \in Obj : h[o] # Nil => \E s : ProtoList(h, o, s)

LEMMA ChainIs ==
    ASSUME NEW h, NEW o, NEW s, ProtoList(h, o, s)
    PROVE  ProtoChain(h, o) = s
<1> DEFINE N == Cardinality(Obj)
           Eq(at) == at = [i \in 0 .. N |-> IF i = 0 THEN o
                                            ELSE IF at[i - 1] = null THEN null ELSE h[at[i - 1]].proto]
           at == CHOOSE at : Eq(at)
           g == [i \in 0 .. N |-> IF i < Len(s) THEN s[i + 1] ELSE null]
<1>1. /\ s \in Seq(Obj) /\ Len(s) \in Nat /\ Len(s) >= 1
      /\ Distinct(s) /\ s[1] = o
      /\ \A i \in 1 .. Len(s) : h[s[i]].proto = IF i < Len(s) THEN s[i + 1] ELSE null
  BY DEF ProtoList
<1>2. N \in Nat /\ Len(s) <= N /\ null \notin Obj /\ IsFiniteSet(Obj)
  BY <1>1, ObjAssumption, ShortList
<1> HIDE DEF N
<1>3. ASSUME NEW i \in 0 .. N
      PROVE  g[i] = IF i = 0 THEN o ELSE IF g[i - 1] = null THEN null ELSE h[g[i - 1]].proto
  <2>1. CASE i = 0
    BY <1>1, <1>2, <2>1
  <2>2. CASE i # 0 /\ i - 1 < Len(s)
    <3>1. i \in 1 .. Len(s) /\ g[i - 1] = s[i] /\ s[i] \in Obj
      BY <1>1, <1>2, <2>2
    <3>2. h[s[i]].proto = IF i < Len(s) THEN s[i + 1] ELSE null
      BY <1>1, <3>1
    <3> QED
      BY <1>2, <2>2, <3>1, <3>2
  <2>3. CASE i # 0 /\ ~(i - 1 < Len(s))
    <3>1. g[i - 1] = null /\ ~(i < Len(s))
      BY <1>1, <1>2, <2>3
    <3> QED
      BY <2>3, <3>1
  <2> QED
    BY <2>1, <2>2, <2>3
<1>4. Eq(g)
  <2>1. g = [i \in 0 .. N |-> g[i]]
    OBVIOUS
  <2> HIDE DEF g
  <2> QED
    BY <1>3, <2>1
<1>5. Eq(at)
  <2> HIDE DEF Eq, g
  <2> QED
    BY <1>4
<1>6. at[0] = o /\ \A i \in 1 .. N : at[i] = IF at[i - 1] = null THEN null ELSE h[at[i - 1]].proto
  <2>1. 0 \in 0 .. N /\ \A i \in 1 .. N : i \in 0 .. N /\ i # 0
    BY <1>2
  <2> HIDE DEF at
  <2> QED
    BY <1>5, <2>1
<1>7. DOMAIN at = 0 .. N
  <2> HIDE DEF at
  <2> QED
    BY <1>5
<1>8. ProtoChain(h, o) = [i \in 1 .. Cardinality({j \in DOMAIN at : at[j] # null}) |-> at[i - 1]]
  BY DEF ProtoChain, N
<1> HIDE DEF at, g, Eq
<1>9. /\ \A i \in 0 .. N : at[i] = IF i < Len(s) THEN s[i + 1] ELSE null
      /\ Cardinality({j \in 0 .. N : at[j] # null}) = Len(s)
  <2>1. at[0] = (IF Len(s) = 0 THEN null ELSE s[1])
    BY <1>1, <1>6
  <2>2. \A i \in 1 .. N : at[i - 1] = null => at[i] = null
    BY <1>6
  <2>3. ASSUME NEW i \in 1 .. N, NEW k \in 1 .. Len(s), at[i - 1] = s[k]
        PROVE  at[i] = IF k < Len(s) THEN s[k + 1] ELSE null
    <3>1. s[k] \in Obj
      BY <1>1
    <3> QED
      BY <1>1, <1>2, <1>6, <2>3, <3>1
  <2>4. \A i \in 1 .. N, k \in 1 .. Len(s) :
            at[i - 1] = s[k] => at[i] = IF k < Len(s) THEN s[k + 1] ELSE null
    BY <2>3
  <2>5. Walks(Obj, null, s, at)
    BY <2>1, <2>2, <2>4 DEF N, Walks
  <2>6. s \in Seq(Obj) /\ Distinct(s) /\ IsFiniteSet(Obj) /\ null \notin Obj
    BY <1>1, <1>2
  <2>7. /\ \A i \in 0 .. Cardinality(Obj) : at[i] = IF i < Len(s) THEN s[i + 1] ELSE null
        /\ Cardinality({j \in 0 .. Cardinality(Obj) : at[j] # null}) = Len(s)
    BY <2>5, <2>6, WalkAlong
  <2> QED
    BY <2>7 DEF N
<1>10. ProtoChain(h, o) = [i \in 1 .. Len(s) |-> at[i - 1]]
  BY <1>7, <1>8, <1>9
<1>11. ASSUME NEW i \in 1 .. Len(s) PROVE at[i - 1] = s[i]
  <2>1. i - 1 \in 0 .. N /\ i - 1 < Len(s) /\ i - 1 + 1 = i
    BY <1>1, <1>2
  <2> QED
    BY <1>9, <2>1
<1> QED
  BY <1>1, <1>10, <1>11

\* A chain has no object twice, and none is its own prototype.
LEMMA ChainFacts ==
    ASSUME NEW h, Ends(h), NEW o \in Obj, h[o] # Nil
    PROVE  /\ ProtoList(h, o, ProtoChain(h, o))
           /\ Cardinality(Elements(ProtoChain(h, o))) = Len(ProtoChain(h, o))
           /\ ~_ejs_Object_prototype_isPrototypeOf(h, o, o)
<1>1. PICK s : ProtoList(h, o, s)
  BY DEF Ends
<1>2. ProtoChain(h, o) = s
  BY <1>1, ChainIs
<1>3. s \in Seq(Obj) /\ Distinct(s) /\ Len(s) >= 1 /\ s[1] = o
  BY <1>1 DEF ProtoList
<1>4. Cardinality(Elements(s)) = Len(s)
  BY <1>3, ObjAssumption, ShortList
<1>5. o \notin Elements(Tail(s))
  <2> SUFFICES ASSUME NEW i \in 1 .. Len(Tail(s)) PROVE Tail(s)[i] # o
    BY DEF Elements
  <2>1. Len(Tail(s)) = Len(s) - 1 /\ Tail(s)[i] = s[i + 1]
    BY <1>3
  <2>2. i + 1 \in 1 .. Len(s) /\ 1 \in 1 .. Len(s) /\ i + 1 # 1
    BY <1>3, <2>1
  <2> QED
    BY <1>3, <2>1, <2>2 DEF Distinct
<1> QED
  BY <1>1, <1>2, <1>4, <1>5 DEF _ejs_Object_prototype_isPrototypeOf

LEMMA EndsFrame ==
    ASSUME NEW h, NEW g, Ends(h), SameProtos(h, g)
    PROVE  Ends(g)
<1> SUFFICES ASSUME NEW o \in Obj, g[o] # Nil PROVE \E s : ProtoList(g, o, s)
  BY DEF Ends
<1>1. PICK s : ProtoList(h, o, s)
  BY DEF Ends, SameProtos
<1>2. \A i \in 1 .. Len(s) : s[i] \in Obj
  BY <1>1 DEF ProtoList
<1>3. ProtoList(g, o, s)
  BY <1>1, <1>2 DEF ProtoList, SameProtos
<1> QED
  BY <1>3

\* What Object.create and the assignment of a prototype do to the heap: o has
\* prototype V in g, the rest is as in h.
Linked(h, o, V, g) ==
    /\ g[o] # Nil /\ g[o].proto = V
    /\ \A x \in Obj : x # o => g[x] = h[x]

\* The prototypes from V on, none for null.
ProtosOf(h, V, t) == IF V = null THEN t = <<>> ELSE ProtoList(h, V, t)

LEMMA OwnChain ==
    ASSUME NEW h, NEW o \in Obj, NEW V \in Obj \union {null}, NEW g, Linked(h, o, V, g),
           NEW t, ProtosOf(h, V, t), o \notin Elements(t)
    PROVE  ProtoList(g, o, Cons(o, t))
<1> DEFINE u == Cons(o, t)
<1>1. /\ t \in Seq(Obj) /\ Len(t) \in Nat /\ Distinct(t)
      /\ V = IF Len(t) = 0 THEN null ELSE t[1]
      /\ \A i \in 1 .. Len(t) : h[t[i]] # Nil /\ h[t[i]].proto = IF i < Len(t) THEN t[i + 1] ELSE null
  <2>1. CASE V = null
    BY <2>1 DEF ProtosOf, Distinct
  <2>2. CASE V # null
    BY <2>2 DEF ProtosOf, ProtoList
  <2> QED
    BY <2>1, <2>2
<1>2. u \in [1 .. Len(t) + 1 -> Obj]
  BY <1>1 DEF Cons
<1>3. u \in Seq(Obj) /\ Len(u) = Len(t) + 1
  BY <1>1, <1>2
<1>4. u[1] = o /\ \A i \in 1 .. Len(t) : u[i + 1] = t[i]
  BY <1>1 DEF Cons
<1>5. \A i \in 1 .. Len(u) : i = 1 \/ (i - 1 \in 1 .. Len(t) /\ u[i] = t[i - 1])
  BY <1>1, <1>3, <1>4 DEF Cons
<1> HIDE DEF u
<1>6. \A i \in 1 .. Len(t) : t[i] # o /\ t[i] \in Obj
  BY <1>1 DEF Elements
<1>7. Distinct(u)
  <2> SUFFICES ASSUME NEW i \in 1 .. Len(u), NEW j \in 1 .. Len(u), u[i] = u[j] PROVE i = j
    BY DEF Distinct
  <2>1. CASE i = 1 \/ j = 1
    BY <1>4, <1>5, <1>6, <2>1
  <2>2. CASE i # 1 /\ j # 1
    <3>1. i - 1 \in 1 .. Len(t) /\ j - 1 \in 1 .. Len(t) /\ t[i - 1] = t[j - 1]
      BY <1>5, <2>2
    <3>2. i - 1 = j - 1
      BY <1>1, <3>1 DEF Distinct
    <3> QED
      BY <3>2
  <2> QED
    BY <2>1, <2>2
<1>8. ASSUME NEW i \in 1 .. Len(u)
      PROVE  g[u[i]] # Nil /\ g[u[i]].proto = IF i < Len(u) THEN u[i + 1] ELSE null
  <2>1. CASE i = 1
    <3>1. g[u[i]] # Nil /\ g[u[i]].proto = V
      BY <1>4, <2>1 DEF Linked
    <3>2. CASE Len(t) = 0
      BY <1>1, <1>3, <2>1, <3>1, <3>2
    <3>3. CASE Len(t) # 0
      <4>1. 1 \in 1 .. Len(t) /\ i < Len(u) /\ u[i + 1] = t[1]
        BY <1>1, <1>3, <1>4, <2>1, <3>3
      <4> QED
        BY <1>1, <3>1, <3>3, <4>1
    <3> QED
      BY <3>2, <3>3
  <2>2. CASE i # 1
    <3> DEFINE j == i - 1
    <3>1. j \in 1 .. Len(t) /\ u[i] = t[j] /\ i = j + 1 /\ (i < Len(u) <=> j < Len(t))
      BY <1>1, <1>3, <1>5, <2>2
    <3> HIDE DEF j
    <3>2. g[u[i]] = h[t[j]]
      BY <1>6, <3>1 DEF Linked
    <3>3. g[u[i]] # Nil /\ g[u[i]].proto = IF j < Len(t) THEN t[j + 1] ELSE null
      BY <1>1, <3>1, <3>2
    <3>4. j < Len(t) => u[i + 1] = t[j + 1]
      <4>1. j < Len(t) => j + 1 \in 1 .. Len(t)
        BY <1>1, <3>1
      <4> QED
        BY <1>4, <3>1, <4>1
    <3> QED
      BY <3>1, <3>3, <3>4
  <2> QED
    BY <2>1, <2>2
<1>9. ProtoList(g, o, u)
  BY <1>1, <1>3, <1>4, <1>7, <1>8 DEF ProtoList
<1> QED
  BY <1>9 DEF u

\* Two chains that meet go on together: what is on one after they meet is on the other.
LEMMA ChainsMerge ==
    ASSUME NEW h, NEW x, NEW s, ProtoList(h, x, s), NEW y, NEW t, ProtoList(h, y, t),
           NEW i \in 1 .. Len(s), NEW j \in 1 .. Len(t), s[i] = t[j], NEW k \in i .. Len(s)
    PROVE  s[k] \in Elements(t)
<1> DEFINE P == {m \in 0 .. k - i : j + m <= Len(t) /\ s[i + m] = t[j + m]}
<1>1. /\ s \in Seq(Obj) /\ t \in Seq(Obj) /\ Len(s) \in Nat /\ Len(t) \in Nat /\ i \in Nat /\ j \in Nat
      /\ \A a \in 1 .. Len(s) : h[s[a]].proto = IF a < Len(s) THEN s[a + 1] ELSE null
      /\ \A a \in 1 .. Len(t) : h[t[a]].proto = IF a < Len(t) THEN t[a + 1] ELSE null
  BY DEF ProtoList
<1>2. k \in Nat /\ k - i \in Nat /\ i + (k - i) = k
  BY <1>1
<1>3. 0 \in P
  BY <1>1, <1>2
<1>4. ASSUME NEW m \in 0 .. (k - i) - 1, m \in P PROVE m + 1 \in P
  <2> DEFINE a == i + m
             b == j + m
  <2>1. /\ a \in 1 .. Len(s) /\ b \in 1 .. Len(t) /\ a < Len(s) /\ s[a] = t[b]
        /\ a + 1 = i + (m + 1) /\ b + 1 = j + (m + 1) /\ m + 1 \in 0 .. k - i
    BY <1>1, <1>2, <1>4
  <2> HIDE DEF a, b
  <2>2. a + 1 \in 1 .. Len(s) /\ s[a + 1] \in Obj
    <3>1. s \in Seq(Obj) /\ Len(s) \in Nat /\ a \in 1 .. Len(s) /\ a < Len(s)
      BY <1>1, <2>1
    <3>2. a + 1 \in 1 .. Len(s)
      BY <3>1
    <3> QED
      BY <3>1, <3>2
  <2>3. s[a + 1] = IF b < Len(t) THEN t[b + 1] ELSE null
    BY <1>1, <2>1
  <2>4. b < Len(t) /\ s[a + 1] = t[b + 1]
    BY <2>2, <2>3, ObjAssumption
  <2>5. b + 1 <= Len(t)
    BY <1>1, <2>1, <2>4
  <2> QED
    BY <2>1, <2>4, <2>5
<1> HIDE DEF P
<1>5. \A m \in 0 .. k - i : m \in P
  <2> DEFINE N == k - i
  <2>1. N \in Nat /\ 0 \in P /\ \A m \in 0 .. N - 1 : m \in P => m + 1 \in P
    BY <1>2, <1>3, <1>4
  <2> HIDE DEF N
  <2>2. \A m \in 0 .. N : m \in P
    BY <2>1, BoundedInduction
  <2> QED
    BY <2>2 DEF N
<1>6. k - i \in 0 .. k - i
  BY <1>2
<1> DEFINE d == k - i
<1>7. d \in Nat /\ i + d = k /\ d \in P
  BY <1>2, <1>5, <1>6
<1> HIDE DEF d
<1>8. j + d <= Len(t) /\ s[i + d] = t[j + d]
  BY <1>7 DEF P
<1>9. j + d \in 1 .. Len(t) /\ s[k] = t[j + d]
  <2>1. j + d \in 1 .. Len(t)
    BY <1>1, <1>7, <1>8
  <2> QED
    BY <1>7, <1>8, <2>1
<1> QED
  BY <1>9 DEF Elements

\* The chain of x, which has o at k, goes on with V after the assignment.
LEMMA RelinkedChain ==
    ASSUME NEW h, NEW o \in Obj, NEW V \in Obj \union {null}, NEW g, Linked(h, o, V, g),
           NEW t, ProtosOf(h, V, t), o \notin Elements(t),
           NEW x, NEW s, ProtoList(h, x, s), NEW k \in 1 .. Len(s), s[k] = o
    PROVE  \E u : ProtoList(g, x, u)
<1> DEFINE a == [i \in 1 .. k |-> s[i]]
           u == a \o t
<1>1. /\ s \in Seq(Obj) /\ Len(s) \in Nat /\ Distinct(s) /\ k \in Nat /\ k >= 1 /\ s[1] = x /\ k <= Len(s)
      /\ \A i \in 1 .. Len(s) : h[s[i]] # Nil /\ h[s[i]].proto = IF i < Len(s) THEN s[i + 1] ELSE null
  BY DEF ProtoList
<1>2. /\ t \in Seq(Obj) /\ Len(t) \in Nat /\ Distinct(t)
      /\ V = IF Len(t) = 0 THEN null ELSE t[1]
      /\ \A i \in 1 .. Len(t) : h[t[i]] # Nil /\ h[t[i]].proto = IF i < Len(t) THEN t[i + 1] ELSE null
  <2>1. CASE V = null
    BY <2>1 DEF ProtosOf, Distinct
  <2>2. CASE V # null
    BY <2>2 DEF ProtosOf, ProtoList
  <2> QED
    BY <2>1, <2>2
<1>3. a \in [1 .. k -> Obj] /\ \A i \in 1 .. k : a[i] = s[i] /\ i \in 1 .. Len(s)
  <2>1. \A i \in 1 .. k : i \in 1 .. Len(s) /\ s[i] \in Obj
    BY <1>1
  <2> QED
    BY <2>1
<1>4. a \in Seq(Obj) /\ Len(a) = k
  BY <1>1, <1>3
<1> HIDE DEF a
<1>5. Distinct(a)
  BY <1>1, <1>3, <1>4 DEF Distinct
<1>6. Elements(a) \intersect Elements(t) = {}
  <2> SUFFICES ASSUME NEW i \in 1 .. k, NEW j \in 1 .. Len(t), a[i] = t[j] PROVE FALSE
    BY <1>4 DEF Elements
  <2>1. V # null /\ ProtoList(h, V, t)
    <3>1. V # null
      BY <1>2, ObjAssumption
    <3> QED
      BY <3>1 DEF ProtosOf
  <2>2. i \in 1 .. Len(s) /\ s[i] = t[j] /\ k \in i .. Len(s)
    BY <1>1, <1>3
  <2>3. s[k] \in Elements(t)
    BY <2>1, <2>2, ChainsMerge
  <2> QED
    BY <2>3
<1>7. /\ u \in Seq(Obj) /\ Distinct(u) /\ Len(u) = Len(a) + Len(t)
      /\ \A i \in 1 .. Len(a) : u[i] = a[i]
      /\ \A i \in 1 .. Len(t) : u[Len(a) + i] = t[i]
      /\ \A i \in 1 .. Len(u) : i \in 1 .. Len(a) \/ (i - Len(a) \in 1 .. Len(t) /\ i > Len(a))
  <2>1. a \in Seq(Obj) /\ t \in Seq(Obj) /\ Distinct(a) /\ Distinct(t)
    BY <1>2, <1>4, <1>5
  <2> QED
    BY <1>6, <2>1, Concatenated
<1> HIDE DEF u
<1>8. /\ Len(u) = k + Len(t)
      /\ \A i \in 1 .. k : u[i] = s[i] /\ i \in 1 .. Len(s)
      /\ \A i \in 1 .. Len(t) : u[k + i] = t[i]
      /\ \A i \in 1 .. Len(u) : i \in 1 .. k \/ (i - k \in 1 .. Len(t) /\ i > k)
  BY <1>3, <1>4, <1>7
<1>9. \A i \in 1 .. Len(t) : t[i] # o /\ t[i] \in Obj
  BY <1>2 DEF Elements
<1>10. ASSUME NEW i \in 1 .. Len(u)
       PROVE  g[u[i]] # Nil /\ g[u[i]].proto = IF i < Len(u) THEN u[i + 1] ELSE null
  <2>1. CASE i \in 1 .. k - 1
    <3>1. /\ i \in 1 .. k /\ i + 1 \in 1 .. k /\ i < Len(u) /\ i < Len(s) /\ i # k
          /\ i \in 1 .. Len(s)
      BY <1>1, <1>2, <1>8, <2>1
    <3>2. u[i] = s[i] /\ u[i + 1] = s[i + 1]
      BY <1>8, <3>1
    <3>3. s[i] # o /\ s[i] \in Obj
      BY <1>1, <3>1 DEF Distinct
    <3>4. g[u[i]] = h[s[i]]
      BY <3>2, <3>3 DEF Linked
    <3> QED
      BY <1>1, <3>1, <3>2, <3>4
  <2>2. CASE i = k
    <3>1. u[i] = o
      BY <1>1, <1>8, <2>2
    <3>2. g[u[i]] # Nil /\ g[u[i]].proto = V
      BY <3>1 DEF Linked
    <3>3. CASE Len(t) = 0
      <4>1. ~(i < Len(u))
        BY <1>1, <1>8, <2>2, <3>3
      <4> QED
        BY <1>2, <3>2, <3>3, <4>1
    <3>4. CASE Len(t) # 0
      <4>1. 1 \in 1 .. Len(t) /\ i < Len(u)
        BY <1>1, <1>2, <1>8, <2>2, <3>4
      <4>2. u[i + 1] = t[1]
        BY <1>8, <2>2, <4>1
      <4> QED
        BY <1>2, <3>2, <3>4, <4>1, <4>2
    <3> QED
      BY <3>3, <3>4
  <2>3. CASE i - k \in 1 .. Len(t) /\ i > k
    <3> DEFINE j == i - k
    <3>1. j \in 1 .. Len(t) /\ i = k + j /\ (i < Len(u) <=> j < Len(t)) /\ k + (j + 1) = i + 1
          /\ (j < Len(t) => j + 1 \in 1 .. Len(t))
      BY <1>1, <1>2, <1>8, <2>3
    <3> HIDE DEF j
    <3>2. u[i] = t[j] /\ (j < Len(t) => u[i + 1] = t[j + 1])
      <4>1. u[k + j] = t[j]
        BY <1>8, <3>1
      <4>2. ASSUME j < Len(t) PROVE u[k + (j + 1)] = t[j + 1]
        BY <1>8, <3>1, <4>2
      <4> QED
        BY <3>1, <4>1, <4>2
    <3>3. g[u[i]] = h[t[j]]
      BY <1>9, <3>1, <3>2 DEF Linked
    <3>4. h[t[j]] # Nil /\ h[t[j]].proto = IF j < Len(t) THEN t[j + 1] ELSE null
      BY <1>2, <3>1
    <3> QED
      BY <3>1, <3>2, <3>3, <3>4
  <2>4. i \in 1 .. k => i \in 1 .. k - 1 \/ i = k
    BY <1>1
  <2> QED
    BY <1>8, <2>1, <2>2, <2>3, <2>4
<1>11. u[1] = x /\ Len(u) >= 1
  BY <1>1, <1>2, <1>8
<1>12. ProtoList(g, x, u)
  BY <1>7, <1>10, <1>11 DEF ProtoList
<1> QED
  BY <1>12

\* Chains still end when o, which is not among the prototypes from V on, gets V.
LEMMA LinkedEnds ==
    ASSUME NEW h, Ends(h), NEW o \in Obj, NEW V \in Obj \union {null}, NEW g, Linked(h, o, V, g),
           NEW t, ProtosOf(h, V, t), o \notin Elements(t)
    PROVE  Ends(g)
<1> SUFFICES ASSUME NEW x \in Obj, g[x] # Nil PROVE \E u : ProtoList(g, x, u)
  BY DEF Ends
<1>1. CASE x = o
  BY <1>1, OwnChain
<1>2. CASE x # o
  <2>1. h[x] # Nil
    BY <1>2 DEF Linked
  <2>2. PICK s : ProtoList(h, x, s)
    BY <2>1 DEF Ends
  <2>3. CASE o \in Elements(s)
    <3>1. PICK k \in 1 .. Len(s) : s[k] = o
      BY <2>3 DEF Elements
    <3> QED
      BY <2>2, <3>1, RelinkedChain
  <2>4. CASE o \notin Elements(s)
    <3>1. \A i \in 1 .. Len(s) : s[i] \in Obj /\ s[i] # o
      BY <2>2, <2>4 DEF ProtoList, Elements
    <3>2. \A i \in 1 .. Len(s) : g[s[i]] = h[s[i]]
      BY <3>1 DEF Linked
    <3>3. ProtoList(g, x, s)
      BY <2>2, <3>2 DEF ProtoList
    <3> QED
      BY <3>3
  <2> QED
    BY <2>3, <2>4
<1> QED
  BY <1>1, <1>2

-----------------------------------------------------------------------------
(* The operations of the program on a sound heap.                           *)

Sound(h) == HeapInv(h) /\ Ends(h)

\* g is a heap that an operation may leave of h.
Leaves(h, g) == Sound(g) /\ HeapKeeps(h, g) /\ HeapOrdered(h, g)

LEMMA KindLeaves ==
    ASSUME NEW h, Sound(h), NEW g, Kind(h, g)
    PROVE  Leaves(h, g)
BY EndsFrame DEF Sound, Kind, Leaves, HeapGrows, HeapOrdered, MapGrows

LEMMA SetPrototype ==
    ASSUME NEW h, Sound(h), NEW o \in Obj, h[o] # Nil,
           NEW V \in Obj \union {null}, V # null => h[V] # Nil,
           NEW r, r = _ejs_object_specop_set_prototype_of(h, o, V)
    PROVE  Leaves(h, r.heap) /\ r.status \in {"ok", "reject"}
<1> DEFINE x == [h[o] EXCEPT !.proto = V]
           g == [h EXCEPT ![o] = x]
<1>1. HeapInv(h) /\ Ends(h) /\ HeapKeeps(h, h) /\ HeapOrdered(h, h)
  BY KeepsRefl, OrderedRefl DEF Sound, HeapOrdered, MapGrows
<1>2. CASE r = Done(h) \/ r = Reject(h)
  BY <1>1, <1>2, DoneIs DEF Leaves, Sound
<1>3. CASE r = Done(g) /\ h[o].extensible /\ ~WouldLoop(h, o, V)
  <2>1. r.heap = g /\ r.status = "ok"
    BY <1>3, DoneIs
  <2>2. h[o] \in ObjRec /\ ObjInv(h[o]) /\ h \in [Obj -> ObjRec \union {Nil}]
    BY <1>1, ObjFacts DEF HeapInv
  <2>3. h[o] = [proto |-> h[o].proto, extensible |-> h[o].extensible, map |-> h[o].map]
        /\ h[o].extensible \in BOOLEAN /\ h[o].map \in Maps(Desc)
    BY <2>2 DEF ObjRec
  <2>4. x = [proto |-> V, extensible |-> h[o].extensible, map |-> h[o].map]
    BY <2>3
  <2>5. x.proto = V /\ x.extensible = h[o].extensible /\ x.map = h[o].map
    BY <2>4
  <2> HIDE DEF x
  <2>6. x \in ObjRec
    BY <2>3, <2>4 DEF ObjRec
  <2>7. ObjInv(x) /\ x # Nil
    BY <2>2, <2>5, <2>6, NilAssumption DEF ObjInv, ObjRec
  <2>8. g \in [Obj -> ObjRec \union {Nil}] /\ g[o] = x /\ \A y \in Obj : y # o => g[y] = h[y]
    BY <2>2, <2>6
  <2> HIDE DEF g
  <2>9. \A y \in Obj : g[y] # Nil <=> h[y] # Nil
    BY <2>7, <2>8
  <2>10. HeapInv(g)
    <3> SUFFICES ASSUME NEW y \in Obj, g[y] # Nil
                 PROVE  ObjInv(g[y]) /\ (g[y].proto # null => g[g[y].proto] # Nil)
      BY <2>8 DEF HeapInv
    <3>1. CASE y = o
      BY <2>5, <2>7, <2>8, <2>9, <3>1
    <3>2. CASE y # o
      <4>1. g[y] = h[y] /\ h[y] # Nil
        BY <2>8, <3>2
      <4>2. ObjInv(h[y]) /\ (h[y].proto # null => h[y].proto \in Obj /\ h[h[y].proto] # Nil)
        BY <1>1, <4>1, ObjFacts DEF HeapInv
      <4> QED
        BY <2>9, <4>1, <4>2
    <3> QED
      BY <3>1, <3>2
  <2>11. HeapKeeps(h, g)
    <3> SUFFICES ASSUME NEW y \in Obj, h[y] # Nil PROVE Keeps(h[y], g[y])
      BY <2>9 DEF HeapKeeps
    <3>1. Keeps(h[y], h[y])
      BY <1>1 DEF HeapKeeps
    <3>2. CASE y = o
      BY <1>3, <2>5, <2>8, <3>1, <3>2 DEF Keeps
    <3> QED
      BY <2>8, <3>1, <3>2
  <2>12. Linked(h, o, V, g)
    BY <2>5, <2>7, <2>8 DEF Linked
  <2>13. Ends(g)
    <3>1. CASE V = null
      <4>1. ProtosOf(h, V, <<>>) /\ o \notin Elements(<<>>)
        BY <3>1 DEF ProtosOf, Elements
      <4> QED
        BY <1>1, <2>12, <4>1, LinkedEnds
    <3>2. CASE V # null
      <4>1. ProtoList(h, V, ProtoChain(h, V))
        BY <1>1, <3>2, ChainFacts
      <4>2. ProtosOf(h, V, ProtoChain(h, V)) /\ o \notin Elements(ProtoChain(h, V))
        BY <1>3, <3>2, <4>1 DEF ProtosOf, WouldLoop
      <4> QED
        BY <1>1, <2>12, <4>2, LinkedEnds
    <3> QED
      BY <3>1, <3>2
  <2>14. HeapOrdered(h, g)
    BY <2>5, <2>8, OrderedRefl DEF HeapOrdered, MapGrows
  <2> QED
    BY <2>1, <2>10, <2>11, <2>13, <2>14 DEF Leaves, Sound
<1>4. r = Done(h) \/ r = Reject(h) \/ (r = Done(g) /\ h[o].extensible /\ ~WouldLoop(h, o, V))
  BY DEF _ejs_object_specop_set_prototype_of
<1> QED
  BY <1>2, <1>3, <1>4

LEMMA NewObjectInv ==
    ASSUME NEW V \in Obj \union {null}
    PROVE  /\ ObjInv(NewObject(V)) /\ NewObject(V) \in ObjRec /\ NewObject(V) # Nil
           /\ NewObject(V).proto = V
<1> DEFINE x == NewObject(V)
           m == _ejs_propertymap_init
           yes == x.extensible
<1>1. MapInv(m) /\ LiveNames(m) = {} /\ m \in Maps(Desc)
  BY InitMap DEF MapInv
<1>2. x = [proto |-> V, extensible |-> TRUE, map |-> m]
  BY DEF NewObject
<1> HIDE DEF m
<1>3. x = [proto |-> V, extensible |-> yes, map |-> m] /\ yes \in BOOLEAN /\ x.proto = V /\ x.map = m
  BY <1>2
<1> HIDE DEF x, yes
<1>4. x \in ObjRec
  BY <1>1, <1>3 DEF ObjRec
<1>5. ObjInv(x)
  BY <1>1, <1>3, <1>4 DEF ObjInv, LiveNames
<1> QED
  BY <1>3, <1>4, <1>5, NilAssumption DEF x, ObjRec

LEMMA CreateObject ==
    ASSUME NEW h, Sound(h), NEW o \in Obj, h[o] = Nil,
           NEW V \in Obj \union {null}, V # null => h[V] # Nil,
           NEW g, g = [h EXCEPT ![o] = NewObject(V)]
    PROVE  Leaves(h, g) /\ HeapGrows(h, g) /\ g[o] # Nil
<1> DEFINE x == NewObject(V)
<1>1. ObjInv(x) /\ x \in ObjRec /\ x # Nil /\ x.proto = V
  BY NewObjectInv
<1> HIDE DEF x
<1>2. HeapInv(h) /\ Ends(h) /\ HeapKeeps(h, h) /\ h \in [Obj -> ObjRec \union {Nil}]
  BY KeepsRefl DEF Sound, HeapInv
<1>3. g \in [Obj -> ObjRec \union {Nil}] /\ g[o] = x /\ \A y \in Obj : y # o => g[y] = h[y]
  BY <1>1, <1>2 DEF x
<1>4. \A y \in Obj : h[y] # Nil => g[y] # Nil /\ g[y] = h[y]
  BY <1>3
<1>5. HeapInv(g)
  <2> SUFFICES ASSUME NEW y \in Obj, g[y] # Nil
               PROVE  ObjInv(g[y]) /\ (g[y].proto # null => g[g[y].proto] # Nil)
    BY <1>3 DEF HeapInv
  <2>1. CASE y = o
    BY <1>1, <1>3, <1>4, <2>1
  <2>2. CASE y # o
    <3>1. g[y] = h[y] /\ h[y] # Nil
      BY <1>3, <2>2
    <3>2. ObjInv(h[y]) /\ (h[y].proto # null => h[y].proto \in Obj /\ h[h[y].proto] # Nil)
      BY <1>2, <3>1, ObjFacts DEF HeapInv
    <3> QED
      BY <1>4, <3>1, <3>2
  <2> QED
    BY <2>1, <2>2
<1>6. HeapKeeps(h, g)
  BY <1>2, <1>4 DEF HeapKeeps
<1>7. Linked(h, o, V, g)
  BY <1>1, <1>3 DEF Linked
<1>8. Ends(g)
  <2>1. CASE V = null
    <3>1. ProtosOf(h, V, <<>>) /\ o \notin Elements(<<>>)
      BY <2>1 DEF ProtosOf, Elements
    <3> QED
      BY <1>2, <1>7, <3>1, LinkedEnds
  <2>2. CASE V # null
    <3>1. PICK t : ProtoList(h, V, t)
      BY <1>2, <2>2 DEF Ends
    <3>2. ProtosOf(h, V, t) /\ o \notin Elements(t)
      BY <2>2, <3>1 DEF ProtosOf, ProtoList, Elements
    <3> QED
      BY <1>2, <1>7, <3>2, LinkedEnds
  <2> QED
    BY <2>1, <2>2
<1>9. HeapGrows(h, g) /\ HeapOrdered(h, g)
  BY <1>4, OrderedRefl DEF HeapGrows, HeapOrdered, MapGrows
<1> QED
  BY <1>1, <1>3, <1>5, <1>6, <1>8, <1>9 DEF Leaves, Sound

-----------------------------------------------------------------------------
(* The invariant.                                                           *)

\* Object.assign goes from an object to another and is at a name.
CursorInv(h, a) ==
    \/ a = Nil
    \/ /\ a \in [to : Obj, from : Obj, at : Name, calls : BOOLEAN]
       /\ h[a.to] # Nil /\ h[a.from] # Nil

ObjectInv == Sound(heap) /\ aborted \in BOOLEAN /\ CursorInv(heap, assigning)

\* A step keeps the invariant and what the heap promises.
StepKeeps == ObjectInv' /\ Leaves(heap, heap')

LEMMA CursorFrame ==
    ASSUME NEW h, NEW g, NEW a, CursorInv(h, a), HeapKeeps(h, g)
    PROVE  CursorInv(g, a)
BY DEF CursorInv, HeapKeeps

LEMMA ApplyKeeps ==
    ASSUME ObjectInv, NEW r, Leaves(heap, r.heap), Apply(r)
    PROVE  StepKeeps
<1>1. heap' = r.heap /\ aborted' \in BOOLEAN /\ assigning' = assigning
  BY DEF Apply
<1>2. CursorInv(heap', assigning)
  BY <1>1, CursorFrame DEF ObjectInv, Leaves
<1> QED
  BY <1>1, <1>2 DEF StepKeeps, ObjectInv, Leaves

LEMMA DoneLeaves ==
    ASSUME NEW h, Sound(h)
    PROVE  Leaves(h, h) /\ Leaves(h, Done(h).heap) /\ Leaves(h, Reject(h).heap)
BY KeepsRefl, OrderedRefl, DoneIs DEF Sound, Leaves, HeapOrdered, MapGrows

LEMMA EditedLeaves ==
    ASSUME NEW h, Sound(h), NEW o \in Obj, NEW g, Edited(h, o, g)
    PROVE  Leaves(h, g)
BY EditedKind, KindLeaves

LEMMA ChangedLeaves ==
    ASSUME NEW h, Sound(h), NEW o \in Obj, NEW g, Changed(h, o, g)
    PROVE  Leaves(h, g)
<1>1. HeapInv(g) /\ HeapKeeps(h, g) /\ SameProtos(h, g) /\ HeapOrdered(h, g)
  BY DEF Changed, SameShape, SameProtos
<1> QED
  BY <1>1, EndsFrame DEF Sound, Leaves

LEMMA CreateKeeps ==
    ASSUME ObjectInv, NEW o \in Obj, NEW V \in Obj \union {null}, NEW props \in Properties \union {<<>>},
           _ejs_Object_create(o, V, props)
    PROVE  StepKeeps
<1> DEFINE g == [heap EXCEPT ![o] = NewObject(V)]
           r == DefineProperties(g, o, props)
<1>1. heap[o] = Nil /\ (V # null => heap[V] # Nil) /\ Apply(r)
  BY DEF _ejs_Object_create, Live
<1>2. Leaves(heap, g) /\ HeapGrows(heap, g) /\ g[o] # Nil
  BY <1>1, CreateObject DEF ObjectInv
<1> HIDE DEF g
<1>3. r \in Edits(g, o)
  BY <1>2, PropertiesFacts, DefinePropertiesEdits DEF Leaves, Sound
<1> HIDE DEF r
<1>4. Leaves(g, r.heap)
  BY <1>2, <1>3, EditsFacts, EditedLeaves DEF Leaves
<1>5. HeapOrdered(heap, r.heap)
  <2>1. HeapGrows(heap, r.heap)
    BY <1>2, <1>3, EditsFacts, HeapGrowsTrans DEF Leaves, Edited
  <2> QED
    BY <2>1 DEF HeapGrows, HeapOrdered, MapGrows
<1>6. Leaves(heap, r.heap)
  BY <1>2, <1>4, <1>5, KeepsTrans DEF Leaves
<1> QED
  BY <1>1, <1>6, ApplyKeeps

LEMMA DefinePropertyKeeps ==
    ASSUME ObjectInv, NEW o \in Obj, NEW x \in Attributes, _ejs_Object_defineProperty(o, x[1], x[2])
    PROVE  StepKeeps
<1> DEFINE d == ToDescriptor(x[2])
           q == _ejs_object_specop_define_own_property(heap, o, x[1], d)
           r == IF DescriptorThrows(x[2]) THEN Reject(heap) ELSE q
<1>1. heap[o] # Nil /\ Apply(r) /\ Sound(heap) /\ HeapInv(heap)
  BY DEF _ejs_Object_defineProperty, Live, ObjectInv, Sound
<1>2. x[1] \in Name /\ IsAttributes(x[2])
  BY AttributesAssumption
<1>3. CASE DescriptorThrows(x[2])
  <2>1. Apply(Reject(heap))
    BY <1>1, <1>3
  <2> QED
    BY <1>1, <2>1, DoneLeaves, ApplyKeeps
<1>4. CASE ~DescriptorThrows(x[2])
  <2>1. d \in Desc /\ Single(d)
    BY <1>2, <1>4, ToDescriptorFacts
  <2> HIDE DEF d
  <2>2. Edited(heap, o, q.heap)
    BY <1>1, <1>2, <2>1, DefineOwn
  <2>3. Apply(q)
    BY <1>1, <1>4
  <2> QED
    BY <1>1, <2>2, <2>3, EditedLeaves, ApplyKeeps
<1> QED
  BY <1>3, <1>4

LEMMA DefinePropertiesKeeps ==
    ASSUME ObjectInv, NEW o \in Obj, NEW props \in Properties, _ejs_Object_defineProperties(o, props)
    PROVE  StepKeeps
<1> DEFINE r == DefineProperties(heap, o, props)
<1>1. heap[o] # Nil /\ Apply(r) /\ Sound(heap) /\ HeapInv(heap)
  BY DEF _ejs_Object_defineProperties, Live, ObjectInv, Sound
<1>2. r \in Edits(heap, o)
  BY <1>1, PropertiesFacts, DefinePropertiesEdits
<1> HIDE DEF r
<1> QED
  BY <1>1, <1>2, EditsFacts, EditedLeaves, ApplyKeeps

LEMMA SetKeeps ==
    ASSUME ObjectInv, NEW o \in Obj, NEW x \in Obj, NEW P \in Name, NEW v \in Val,
           _ejs_Reflect_set(o, P, v, x) \/ (_ejs_object_setprop(o, P, v) /\ x = o)
    PROVE  StepKeeps
<1> DEFINE r == _ejs_object_specop_set(heap, o, P, v, x)
<1>1. heap[x] # Nil /\ Apply(r) /\ Sound(heap) /\ HeapInv(heap)
  BY DEF _ejs_Reflect_set, _ejs_object_setprop, Live, ObjectInv, Sound
<1>2. Edited(heap, x, r.heap)
  BY <1>1, SetProperty
<1> HIDE DEF r
<1> QED
  BY <1>1, <1>2, EditedLeaves, ApplyKeeps

LEMMA DeleteKeeps ==
    ASSUME ObjectInv, NEW o \in Obj, NEW P \in Name, _ejs_op_delete(o, P)
    PROVE  StepKeeps
<1> DEFINE r == _ejs_object_specop_delete(heap, o, P)
<1>1. heap[o] # Nil /\ Apply(r) /\ Sound(heap) /\ HeapInv(heap)
  BY DEF _ejs_op_delete, Live, ObjectInv, Sound
<1>2. Changed(heap, o, r.heap)
  BY <1>1, DeleteOwn
<1> HIDE DEF r
<1> QED
  BY <1>1, <1>2, ChangedLeaves, ApplyKeeps

LEMMA SetPrototypeKeeps ==
    ASSUME ObjectInv, NEW o \in Obj, NEW V \in Obj \union {null},
           _ejs_Reflect_setPrototypeOf(o, V) \/ _ejs_Object_setPrototypeOf(o, V)
    PROVE  StepKeeps
<1> DEFINE r == _ejs_object_specop_set_prototype_of(heap, o, V)
           q == [r EXCEPT !.status = IF @ = "reject" THEN "abort" ELSE @]
<1>1. heap[o] # Nil /\ (V # null => heap[V] # Nil) /\ (Apply(r) \/ Apply(q)) /\ Sound(heap)
  BY DEF _ejs_Reflect_setPrototypeOf, _ejs_Object_setPrototypeOf, Live, ObjectInv
<1>2. Leaves(heap, r.heap)
  BY <1>1, SetPrototype
<1>3. \E g : r = Done(g) \/ r = Reject(g)
  BY DEF _ejs_object_specop_set_prototype_of
<1> HIDE DEF r
<1>4. q.heap = r.heap
  BY <1>3 DEF Done, Reject
<1> HIDE DEF q
<1> QED
  BY <1>1, <1>2, <1>4, ApplyKeeps

LEMMA IntegrityKeeps ==
    ASSUME ObjectInv, NEW o \in Obj,
           _ejs_Object_preventExtensions(o) \/ _ejs_Object_seal(o) \/ _ejs_Object_freeze(o)
    PROVE  StepKeeps
<1> DEFINE p == _ejs_object_specop_preventextensions(heap, o)
           s == SetIntegrityLevel(heap, o, "sealed")
           f == SetIntegrityLevel(heap, o, "frozen")
<1>1. heap[o] # Nil /\ (Apply(p) \/ Apply(s) \/ Apply(f)) /\ Sound(heap) /\ HeapInv(heap)
  BY DEF _ejs_Object_preventExtensions, _ejs_Object_seal, _ejs_Object_freeze, Live, ObjectInv, Sound
<1>2. Kind(heap, p.heap)
  BY <1>1, PreventExtensions
<1>3. Kind(heap, s.heap) /\ Kind(heap, f.heap)
  BY <1>1, SetIntegrity DEF Levels
<1> HIDE DEF p, s, f
<1> QED
  BY <1>1, <1>2, <1>3, KindLeaves, ApplyKeeps

LEMMA CursorIs ==
    ASSUME NEW h, NEW to \in Obj, NEW from \in Obj, NEW at \in Name, h[to] # Nil, h[from] # Nil
    PROVE  CursorInv(h, Cursor(to, from, at))
<1> DEFINE a == Cursor(to, from, at)
           no == a.calls
<1>1. a = [to |-> to, from |-> from, at |-> at, calls |-> no] /\ no \in BOOLEAN
      /\ a.to = to /\ a.from = from
  BY DEF Cursor
<1> HIDE DEF a, no
<1>2. a \in [to : Obj, from : Obj, at : Name, calls : BOOLEAN]
  BY <1>1
<1> QED
  BY <1>1, <1>2 DEF CursorInv, a

LEMMA AssignKeeps ==
    ASSUME ObjectInv, NEW to \in Obj, NEW from \in Obj, _ejs_Object_assign(to, from)
    PROVE  StepKeeps
<1> DEFINE e == heap[from].map.head_insert
<1>1. /\ heap[to] # Nil /\ heap[from] # Nil /\ heap' = heap /\ aborted' = aborted
      /\ assigning' = IF e = Nil THEN Nil ELSE Cursor(to, from, e)
      /\ Sound(heap) /\ HeapInv(heap) /\ aborted \in BOOLEAN
  BY DEF _ejs_Object_assign, Live, ObjectInv, Sound
<1>2. e \in Name \union {Nil}
  BY <1>1, ObjFacts, MapsFacts DEF Link0
<1> HIDE DEF e
<1>3. CursorInv(heap, assigning')
  <2>1. CASE e = Nil
    BY <1>1, <2>1 DEF CursorInv
  <2>2. CASE e # Nil
    BY <1>1, <1>2, <2>2, CursorIs
  <2> QED
    BY <2>1, <2>2
<1> QED
  BY <1>1, <1>3, DoneLeaves DEF StepKeeps, ObjectInv

LEMMA AdvanceKeeps ==
    ASSUME NEW h, HeapInv(h), assigning # Nil, CursorInv(h, assigning), Advance(h, assigning)
    PROVE  CursorInv(h, assigning')
<1>1. /\ assigning.to \in Obj /\ assigning.from \in Obj /\ assigning.at \in Name
      /\ h[assigning.to] # Nil /\ h[assigning.from] # Nil
  BY DEF CursorInv
<1> DEFINE map == h[assigning.from].map
<1>2. map.next_insert[assigning.at] \in Name \union {Nil} /\ Elements(Entries(map)) \subseteq Name
  BY <1>1, ObjFacts, MapsFacts, MapReads DEF Link0, LiveNames
<1>3. PICK e \in Name \union {Nil} :
          assigning' = IF e = Nil THEN Nil ELSE Cursor(assigning.to, assigning.from, e)
  BY <1>2 DEF Advance
<1>4. CASE e = Nil
  BY <1>3, <1>4 DEF CursorInv
<1>5. CASE e # Nil
  BY <1>1, <1>3, <1>5, CursorIs
<1> QED
  BY <1>4, <1>5

LEMMA PutKeeps ==
    ASSUME ObjectInv, assigning # Nil, NEW v \in Val \union {undefined, zero}, AssignPut(v)
    PROVE  StepKeeps
<1> DEFINE r == _ejs_object_specop_set(heap, assigning.to, assigning.at, v, assigning.to)
<1>1. /\ assigning.to \in Obj /\ assigning.from \in Obj /\ assigning.at \in Name
      /\ heap[assigning.to] # Nil /\ heap[assigning.from] # Nil
      /\ Sound(heap) /\ HeapInv(heap) /\ CursorInv(heap, assigning)
  BY DEF ObjectInv, CursorInv, Sound
<1>2. /\ heap' = r.heap /\ aborted' \in BOOLEAN
      /\ IF r.status = "ok" THEN Advance(r.heap, assigning) ELSE assigning' = Nil
  BY DEF AssignPut
<1>3. Edited(heap, assigning.to, r.heap)
  BY <1>1, SetProperty
<1> HIDE DEF r
<1>4. Leaves(heap, r.heap)
  BY <1>1, <1>3, EditedLeaves
<1>5. HeapInv(r.heap) /\ CursorInv(r.heap, assigning)
  BY <1>1, <1>4, CursorFrame DEF Leaves, Sound
<1>6. CursorInv(r.heap, assigning')
  <2>1. CASE r.status = "ok"
    BY <1>2, <1>5, <2>1, AdvanceKeeps
  <2>2. CASE r.status # "ok"
    BY <1>2, <2>2 DEF CursorInv
  <2> QED
    BY <2>1, <2>2
<1> QED
  BY <1>2, <1>4, <1>6 DEF StepKeeps, ObjectInv, Leaves

LEMMA EntryKeeps ==
    ASSUME ObjectInv, AssignEntry
    PROVE  StepKeeps
<1>1. assigning # Nil /\ Sound(heap) /\ HeapInv(heap) /\ CursorInv(heap, assigning) /\ aborted \in BOOLEAN
  BY DEF AssignEntry, Assigning, ObjectInv, Sound
<1>2. \/ Advance(heap, assigning) /\ heap' = heap /\ aborted' = aborted
      \/ \E v \in Val \union {undefined, zero} : AssignPut(v)
      \/ assigning' = [assigning EXCEPT !.calls = TRUE] /\ heap' = heap /\ aborted' = aborted
  BY DEF AssignEntry
<1>3. CASE Advance(heap, assigning) /\ heap' = heap /\ aborted' = aborted
  <2>1. CursorInv(heap, assigning')
    BY <1>1, <1>3, AdvanceKeeps
  <2> QED
    BY <1>1, <1>3, <2>1, DoneLeaves DEF StepKeeps, ObjectInv
<1>4. CASE \E v \in Val \union {undefined, zero} : AssignPut(v)
  BY <1>1, <1>4, PutKeeps
<1>5. CASE assigning' = [assigning EXCEPT !.calls = TRUE] /\ heap' = heap /\ aborted' = aborted
  <2>1. CursorInv(heap, assigning')
    <3> DEFINE a == assigning
               b == assigning'
               R == [to : Obj, from : Obj, at : Name, calls : BOOLEAN]
    <3>1. a \in R /\ heap[a.to] # Nil /\ heap[a.from] # Nil
      BY <1>1 DEF CursorInv
    <3>2. ASSUME NEW c \in BOOLEAN
          PROVE  LET z == [a EXCEPT !.calls = c] IN z \in R /\ z.to = a.to /\ z.from = a.from
      BY <3>1
    <3>3. b \in R /\ b.to = a.to /\ b.from = a.from
      BY <1>5, <3>2
    <3> QED
      BY <3>1, <3>3 DEF CursorInv
  <2> QED
    BY <1>1, <1>5, <2>1, DoneLeaves DEF StepKeeps, ObjectInv
<1> QED
  BY <1>2, <1>3, <1>4, <1>5

\* Every step keeps the invariant and what the heap promises.
LEMMA NextKeeps ==
    ASSUME ObjectInv, Next
    PROVE  StepKeeps
<1>1. ASSUME NEW o \in Obj, ObjectStep(o) PROVE StepKeeps
  <2>1. ASSUME NEW V \in Obj \union {null}, NEW props \in Properties \union {<<>>},
               _ejs_Object_create(o, V, props)
        PROVE  StepKeeps
    BY <2>1, CreateKeeps
  <2>2. ASSUME NEW V \in Obj \union {null},
               _ejs_Reflect_setPrototypeOf(o, V) \/ _ejs_Object_setPrototypeOf(o, V)
        PROVE  StepKeeps
    BY <2>2, SetPrototypeKeeps
  <2>3. ASSUME NEW P \in Name, NEW v \in Val, _ejs_object_setprop(o, P, v) PROVE StepKeeps
    BY <2>3, SetKeeps
  <2>4. ASSUME NEW P \in Name, NEW v \in Val, NEW x \in Obj \ {o}, _ejs_Reflect_set(o, P, v, x)
        PROVE  StepKeeps
    BY <2>4, SetKeeps
  <2>5. ASSUME NEW P \in Name, _ejs_op_delete(o, P) PROVE StepKeeps
    BY <2>5, DeleteKeeps
  <2>6. ASSUME NEW x \in Attributes, _ejs_Object_defineProperty(o, x[1], x[2]) PROVE StepKeeps
    BY <2>6, DefinePropertyKeeps
  <2>7. ASSUME NEW props \in Properties, _ejs_Object_defineProperties(o, props) PROVE StepKeeps
    BY <2>7, DefinePropertiesKeeps
  <2>8. ASSUME _ejs_Object_preventExtensions(o) \/ _ejs_Object_seal(o) \/ _ejs_Object_freeze(o)
        PROVE  StepKeeps
    BY <2>8, IntegrityKeeps
  <2>9. ASSUME NEW from \in Obj, _ejs_Object_assign(o, from) PROVE StepKeeps
    BY <2>9, AssignKeeps
  <2> QED
    BY <1>1, <2>1, <2>2, <2>3, <2>4, <2>5, <2>6, <2>7, <2>8, <2>9 DEF ObjectStep
<1>2. ASSUME NEW v \in Val, GetterReturns(v) PROVE StepKeeps
  BY <1>2, PutKeeps DEF GetterReturns, Assigning
<1> QED
  BY <1>1, <1>2, EntryKeeps DEF Next

LEMMA InitInv ==
    ASSUME Init
    PROVE  ObjectInv
<1> DEFINE p == _ejs_Object_prototype
           x == NewObject(null)
<1>1. heap = [o \in Obj |-> IF o = p THEN x ELSE Nil] /\ assigning = Nil /\ aborted = FALSE /\ p \in Obj
  BY ObjAssumption DEF Init
<1>2. ObjInv(x) /\ x \in ObjRec /\ x # Nil /\ x.proto = null
  BY NewObjectInv
<1> HIDE DEF p, x
<1>3. /\ heap \in [Obj -> ObjRec \union {Nil}] /\ heap[p] = x
      /\ \A o \in Obj : heap[o] # Nil => o = p
  BY <1>1, <1>2
<1>4. HeapInv(heap)
  BY <1>2, <1>3 DEF HeapInv
<1>5. ProtoList(heap, p, <<p>>)
  BY <1>1, <1>2, <1>3 DEF ProtoList, Distinct
<1>6. Ends(heap)
  BY <1>3, <1>5 DEF Ends
<1> QED
  BY <1>1, <1>4, <1>6 DEF ObjectInv, Sound, CursorInv

\* Objects stay sound whatever the program calls, Object.assign in the middle of
\* getters and setters included.
THEOREM ObjectsInvariant == Spec => []ObjectInv
<1>1. Init => ObjectInv
  BY InitInv
<1>2. ObjectInv /\ [Next]_vars => ObjectInv'
  <2>1. CASE Next
    BY <2>1, NextKeeps DEF StepKeeps
  <2>2. CASE UNCHANGED vars
    BY <2>2 DEF vars, ObjectInv
  <2> QED
    BY <2>1, <2>2
<1> QED
  BY <1>1, <1>2, PTL DEF Spec

-----------------------------------------------------------------------------
(* The properties.                                                          *)

\* Prototypes exist and property maps are well formed hash tables of descriptors,
\* for any hash function and bucket sizes, through insertion, removal and rehashing.
THEOREM TypesAlwaysOK == Spec => []TypeOK
<1>1. ObjectInv => TypeOK
  <2> SUFFICES ASSUME ObjectInv PROVE TypeOK
    OBVIOUS
  <2>1. HeapInv(heap) /\ aborted \in BOOLEAN
    BY DEF ObjectInv, Sound
  <2>2. ASSUME NEW o \in Live
        PROVE  /\ heap[o].proto \in Live \union {null}
               /\ heap[o].extensible \in BOOLEAN
               /\ WellFormed(heap[o].map)
               /\ \A P \in Elements(Entries(heap[o].map)) : heap[o].map.desc[P] \in Desc
    <3>1. o \in Obj /\ heap[o] # Nil
      BY DEF Live
    <3>2. MapInv(heap[o].map) /\ heap[o].extensible \in BOOLEAN
          /\ heap[o].proto \in Obj \union {null}
          /\ (heap[o].proto # null => heap[heap[o].proto] # Nil)
          /\ \A P \in Name : heap[o].map.desc[P] # Nil => heap[o].map.desc[P] \in Desc
      BY <2>1, <3>1, ObjFacts
    <3>3. heap[o].proto \in Live \union {null}
      BY <3>2 DEF Live
    <3>4. WellFormed(heap[o].map) /\ Elements(Entries(heap[o].map)) = LiveNames(heap[o].map)
      BY <3>2, MapReads
    <3> QED
      BY <3>2, <3>3, <3>4 DEF LiveNames
  <2> QED
    BY <2>1, <2>2 DEF TypeOK
<1> QED
  BY <1>1, ObjectsInvariant, PTL

\* No operation changes what a property that is not configurable or an object that
\* is not extensible promises.
THEOREM PromisesAlwaysKept == Spec => PromisesKept
<1> DEFINE Keep1(old, new) ==
               /\ \A P \in Elements(Entries(old.map)) :
                     ~old.map.desc[P].configurable => Kept(old.map.desc[P], new.map.desc[P])
               /\ ~old.extensible =>
                     /\ ~new.extensible /\ new.proto = old.proto
                     /\ Elements(Entries(new.map)) \subseteq Elements(Entries(old.map))
           A == \A o \in Live : Keep1(heap[o], heap'[o])
<1>1. ASSUME ObjectInv, Next PROVE A
  <2>1. HeapInv(heap) /\ HeapInv(heap') /\ HeapKeeps(heap, heap')
    BY <1>1, NextKeeps DEF StepKeeps, ObjectInv, Leaves, Sound
  <2> SUFFICES ASSUME NEW o \in Live PROVE Keep1(heap[o], heap'[o])
    OBVIOUS
  <2> DEFINE old == heap[o]
             new == heap'[o]
  <2>2. o \in Obj /\ old # Nil
    BY DEF Live
  <2>3. new # Nil /\ Keeps(old, new)
    BY <2>1, <2>2 DEF HeapKeeps
  <2>4. MapInv(old.map) /\ MapInv(new.map)
    BY <2>1, <2>2, <2>3, ObjFacts
  <2>5. /\ Elements(Entries(old.map)) = LiveNames(old.map)
        /\ Elements(Entries(new.map)) = LiveNames(new.map)
    BY <2>4, MapReads
  <2> HIDE DEF old, new
  <2>6. Keep1(old, new)
    BY <2>3, <2>5 DEF Keeps, MapKeeps, LiveNames
  <2> QED
    BY <2>6 DEF old, new
<1>2. ObjectInv /\ [Next]_vars => [A]_vars
  BY <1>1
<1>3. Spec => [][A]_vars
  BY <1>2, ObjectsInvariant, PTL DEF Spec
<1>4. [A]_vars <=> [\A o \in Live :
          LET old == heap[o]
              new == heap[o]'
          IN  /\ \A P \in Elements(Entries(old.map)) :
                    ~old.map.desc[P].configurable => Kept(old.map.desc[P], new.map.desc[P])
              /\ ~old.extensible =>
                    /\ ~new.extensible /\ new.proto = old.proto
                    /\ Elements(Entries(new.map)) \subseteq Elements(Entries(old.map))]_vars
  OBVIOUS
<1> QED
  BY <1>3, <1>4, PTL DEF PromisesKept

\* The descriptor object of a property, read again.
LEMMA RoundTrip ==
    ASSUME NEW d \in Desc, Single(d), NEW e, e = ToDescriptor(FromPropertyDescriptor(d))
    PROVE  /\ e \in Desc /\ Single(e)
           /\ e.has = (d.has \ {"set"}) \union (IF "get" \in d.has THEN {"set"} ELSE {})
           /\ e.enumerable = (IF "enumerable" \in d.has THEN d.enumerable ELSE FALSE)
           /\ e.configurable = (IF "configurable" \in d.has THEN d.configurable ELSE FALSE)
           /\ e.writable = (IF "writable" \in d.has THEN d.writable ELSE FALSE)
           /\ ("value" \in d.has \/ "get" \in d.has => e.slot = d.slot)
           /\ ("get" \in d.has => e.setter = _ejs_property_desc_get_setter(d))
<1> DEFINE a == FromPropertyDescriptor(d)
           fs == (d.has \ {"set"}) \union (IF "get" \in d.has THEN {"set"} ELSE {})
           st == _ejs_property_desc_get_setter(d)
           Read(f, default) == IF f \in DOMAIN a THEN a[f] ELSE default
           e1 == Read("enumerable", FALSE)
           e2 == Read("configurable", FALSE)
           e3 == Read("writable", FALSE)
           e4 == Read("value", Read("get", zero))
           e5 == Read("set", zero)
<1>1. /\ d.has \in SUBSET Fields /\ d.enumerable \in BOOLEAN /\ d.configurable \in BOOLEAN
      /\ d.writable \in BOOLEAN /\ d.slot \in Slot /\ d.setter \in Accessors
  BY DescFacts
<1>2. st \in Accessors
  BY <1>1 DEF _ejs_property_desc_get_setter, Accessors
<1>3. a = [f \in fs |-> CASE f = "value" -> d.slot
                          [] f = "get" -> d.slot
                          [] f = "set" -> st
                          [] OTHER -> d[f]]
  BY DEF FromPropertyDescriptor, Has
<1> HIDE DEF st
<1>4. /\ DOMAIN a = fs
      /\ "value" \in fs => a["value"] = d.slot
      /\ "get" \in fs => a["get"] = d.slot
      /\ "set" \in fs => a["set"] = st
      /\ "enumerable" \in fs => a["enumerable"] = d.enumerable
      /\ "configurable" \in fs => a["configurable"] = d.configurable
      /\ "writable" \in fs => a["writable"] = d.writable
  <2> HIDE DEF fs, a
  <2> QED
    BY <1>3
<1>5. e = [has |-> DOMAIN a, enumerable |-> e1, configurable |-> e2, writable |-> e3,
           slot |-> e4, setter |-> e5]
  BY DEF ToDescriptor
<1> HIDE DEF a
<1>6. /\ fs \in SUBSET Fields
      /\ \A f \in Fields \ {"set"} : f \in fs <=> f \in d.has
      /\ "set" \in fs <=> "get" \in d.has
  BY <1>1 DEF Fields
<1>7. /\ e1 = IF "enumerable" \in d.has THEN d.enumerable ELSE FALSE
      /\ e2 = IF "configurable" \in d.has THEN d.configurable ELSE FALSE
      /\ e3 = IF "writable" \in d.has THEN d.writable ELSE FALSE
  <2>1. \A f \in {"enumerable", "configurable", "writable"} : f \in fs <=> f \in d.has
    BY <1>6 DEF Fields
  <2> HIDE DEF fs
  <2> QED
    BY <1>4, <2>1
<1>8. e1 \in BOOLEAN /\ e2 \in BOOLEAN /\ e3 \in BOOLEAN
  BY <1>1, <1>7
<1>9. /\ "value" \in d.has \/ "get" \in d.has => e4 = d.slot
      /\ "get" \in d.has => e5 = st
      /\ e4 \in Slot /\ e5 \in Accessors
  <2>1. \A f \in {"value", "get"} : f \in fs <=> f \in d.has
    BY <1>6 DEF Fields
  <2>2. zero \in Slot /\ zero \in Accessors
    BY DEF Slot, Accessors
  <2>3. "set" \in fs <=> "get" \in d.has
    BY <1>6
  <2> HIDE DEF fs
  <2> QED
    BY <1>1, <1>2, <1>4, <2>1, <2>2, <2>3
<1> HIDE DEF e1, e2, e3, e4, e5, fs
<1>10. /\ e \in Desc /\ e.has = fs /\ e.enumerable = e1 /\ e.configurable = e2
       /\ e.writable = e3 /\ e.slot = e4 /\ e.setter = e5
  BY <1>4, <1>5, <1>6, <1>8, <1>9, IsDesc
<1>11. Single(e)
  <2>1. IsDataDescriptor(e) => IsDataDescriptor(d)
    BY <1>6, <1>10 DEF IsDataDescriptor, Has, Fields
  <2>2. IsAccessorDescriptor(e) => IsAccessorDescriptor(d)
    BY <1>6, <1>10 DEF IsAccessorDescriptor, Has, Fields
  <2> QED
    BY <2>1, <2>2 DEF Single
<1> QED
  BY <1>7, <1>9, <1>10, <1>11 DEF fs, st

\* What descriptor d and e say alike.
Alike(d, e) ==
    /\ d.enumerable = e.enumerable /\ d.configurable = e.configurable /\ d.writable = e.writable
    /\ _ejs_property_desc_get_value(d) = _ejs_property_desc_get_value(e)
    /\ _ejs_property_desc_get_getter(d) = _ejs_property_desc_get_getter(e)
    /\ _ejs_property_desc_get_setter(d) = _ejs_property_desc_get_setter(e)

\* A property accepts the descriptor it gave, and does not change.
LEMMA GivenBack ==
    ASSUME NEW d \in Desc, Single(d), NEW e, e = ToDescriptor(FromPropertyDescriptor(d))
    PROVE  ~Rejects(d, e) /\ Alike(d, Copy(Converted(d, e), e, e.has))
<1>1. /\ e \in Desc /\ Single(e)
      /\ e.has = (d.has \ {"set"}) \union (IF "get" \in d.has THEN {"set"} ELSE {})
      /\ e.enumerable = (IF "enumerable" \in d.has THEN d.enumerable ELSE FALSE)
      /\ e.configurable = (IF "configurable" \in d.has THEN d.configurable ELSE FALSE)
      /\ e.writable = (IF "writable" \in d.has THEN d.writable ELSE FALSE)
      /\ ("value" \in d.has \/ "get" \in d.has => e.slot = d.slot)
      /\ ("get" \in d.has => e.setter = _ejs_property_desc_get_setter(d))
  BY RoundTrip
<1>2. /\ "value" \in e.has <=> "value" \in d.has
      /\ "get" \in e.has <=> "get" \in d.has
      /\ "writable" \in e.has <=> "writable" \in d.has
      /\ "enumerable" \in e.has <=> "enumerable" \in d.has
      /\ "configurable" \in e.has <=> "configurable" \in d.has
      /\ "set" \in e.has <=> "get" \in d.has
  BY <1>1
<1>3. IsDataDescriptor(e) <=> IsDataDescriptor(d)
  BY <1>2 DEF IsDataDescriptor, Has
<1>4. ~Rejects(d, e)
  <2> SUFFICES ASSUME Rejects(d, e) PROVE FALSE
    OBVIOUS
  <2>1. ~d.configurable /\ ~e.configurable
    BY <1>1 DEF Rejects
  <2>2. ~(Has(e, "enumerable") /\ e.enumerable # d.enumerable)
    BY <1>1, <1>2 DEF Has
  <2>3. IsDataDescriptor(d) = IsDataDescriptor(e)
    BY <1>3 DEF IsDataDescriptor, Has
  <2>4. ~d.writable => ~e.writable
    BY <1>1
  <2>5. Has(e, "value") => e.slot = _ejs_property_desc_get_value(d)
    BY <1>1, <1>2 DEF Has, _ejs_property_desc_get_value
  <2>6. Has(e, "set") => e.setter = _ejs_property_desc_get_setter(d)
    BY <1>1, <1>2 DEF Has
  <2>7. Has(e, "get") => e.slot = _ejs_property_desc_get_getter(d)
    BY <1>1, <1>2 DEF Has, _ejs_property_desc_get_getter
  <2> QED
    BY <2>1, <2>2, <2>3, <2>4, <2>5, <2>6, <2>7 DEF Rejects
<1> DEFINE k == Converted(d, e)
           new == Copy(k, e, e.has)
<1>5. k = d
  <2>1. IsDataDescriptor(d) = IsDataDescriptor(e)
    BY <1>3 DEF IsDataDescriptor, Has
  <2> QED
    BY <1>1, <2>1, ConvertedFacts
<1> HIDE DEF k
<1>6. Merged(d, e, e.has \intersect e.has, new)
  BY <1>1, <1>5, CopyFacts, DescFacts
<1>7. e.has \intersect e.has = e.has
  OBVIOUS
<1> HIDE DEF new
<1>8. /\ new.has = d.has \union e.has
      /\ new.enumerable = IF "enumerable" \in e.has THEN e.enumerable ELSE d.enumerable
      /\ new.configurable = IF "configurable" \in e.has THEN e.configurable ELSE d.configurable
      /\ new.writable = IF "writable" \in e.has THEN e.writable ELSE d.writable
      /\ new.slot = IF "value" \in e.has \/ "get" \in e.has THEN e.slot ELSE d.slot
      /\ new.setter = IF "set" \in e.has THEN e.setter ELSE d.setter
  BY <1>6, <1>7 DEF Merged
<1>9. new.enumerable = d.enumerable /\ new.configurable = d.configurable /\ new.writable = d.writable
  BY <1>1, <1>2, <1>8
<1>10. new.slot = d.slot
  BY <1>1, <1>2, <1>8
<1>11. _ejs_property_desc_get_setter(new) = _ejs_property_desc_get_setter(d)
  BY <1>1, <1>2, <1>8 DEF _ejs_property_desc_get_setter, Has
<1>12. /\ _ejs_property_desc_get_value(new) = _ejs_property_desc_get_value(d)
       /\ _ejs_property_desc_get_getter(new) = _ejs_property_desc_get_getter(d)
  BY <1>2, <1>8, <1>10 DEF _ejs_property_desc_get_value, _ejs_property_desc_get_getter, Has
<1>13. Alike(d, new)
  BY <1>9, <1>11, <1>12 DEF Alike
<1> QED
  BY <1>4, <1>13 DEF k, new

LEMMA RoundTrips ==
    ASSUME NEW h, HeapInv(h), NEW o \in Obj, h[o] # Nil, NEW P \in Name, h[o].map.desc[P] # Nil,
           NEW r, r = _ejs_object_specop_define_own_property(
                          h, o, P, ToDescriptor(_ejs_Object_getOwnPropertyDescriptor(h, o, P)))
    PROVE  /\ r.status = "ok"
           /\ Alike(_ejs_object_specop_get_own_property(h, o, P),
                    _ejs_object_specop_get_own_property(r.heap, o, P))
<1> DEFINE d == h[o].map.desc[P]
           e == ToDescriptor(FromPropertyDescriptor(d))
<1>1. _ejs_object_specop_get_own_property(h, o, P) = d
  BY LookupIs
<1>2. d \in Desc /\ Single(d)
  BY ObjFacts
<1>3. r = _ejs_object_specop_define_own_property(h, o, P, e)
  BY <1>1 DEF _ejs_Object_getOwnPropertyDescriptor
<1>4. e \in Desc /\ Single(e) /\ ~Rejects(d, e) /\ Alike(d, Copy(Converted(d, e), e, e.has))
  BY <1>2, RoundTrip, GivenBack
<1> HIDE DEF e
<1>5. Edited(h, o, r.heap) /\ DefineDoes(h, o, P, e, r)
  BY <1>3, <1>4, DefineOwn
<1>6. HeapInv(r.heap) /\ r.heap[o] # Nil
  BY <1>5 DEF Edited, SameShape
<1>7. _ejs_object_specop_get_own_property(r.heap, o, P) = r.heap[o].map.desc[P]
  BY <1>6, LookupIs
<1>8. \/ r.status = "ok" /\ r.heap = h
      \/ r.status = "ok" /\ r.heap[o].map.desc[P] = Copy(Converted(d, e), e, e.has)
  BY <1>4, <1>5 DEF DefineDoes
<1>9. Alike(d, d)
  BY DEF Alike
<1> HIDE DEF d
<1>10. CASE r.status = "ok" /\ r.heap = h
  BY <1>1, <1>9, <1>10
<1>11. CASE r.status = "ok" /\ r.heap[o].map.desc[P] = Copy(Converted(d, e), e, e.has)
  BY <1>1, <1>4, <1>7, <1>11
<1> QED
  BY <1>8, <1>10, <1>11

\* The holder of a property is an object that has it, and o if o has it.
LEMMA HolderFacts ==
    ASSUME NEW h, Sound(h), NEW o \in Obj, h[o] # Nil, NEW P \in Name
    PROVE  /\ \A x \in Holders(h, o, P) : x \in Obj /\ h[x] # Nil /\ h[x].map.desc[P] # Nil
           /\ h[o].map.desc[P] # Nil => Holders(h, o, P) = {o}
<1> DEFINE c == ProtoChain(h, o)
           at == {i \in 1 .. Len(c) : _ejs_object_specop_get_own_property(h, c[i], P) # Nil}
<1>1. HeapInv(h) /\ ProtoList(h, o, c)
  BY ChainFacts DEF Sound
<1>2. Holders(h, o, P) = {c[i] : i \in {j \in at : \A k \in at : j <= k}}
  BY DEF Holders
<1> HIDE DEF c
<1>3. /\ c \in Seq(Obj) /\ Len(c) \in Nat /\ Len(c) >= 1 /\ c[1] = o
      /\ \A i \in 1 .. Len(c) : c[i] \in Obj /\ h[c[i]] # Nil
  BY <1>1 DEF ProtoList
<1>4. at = {i \in 1 .. Len(c) : h[c[i]].map.desc[P] # Nil}
  BY <1>1, <1>3, LookupIs
<1> HIDE DEF at
<1>5. \A x \in Holders(h, o, P) : x \in Obj /\ h[x] # Nil /\ h[x].map.desc[P] # Nil
  BY <1>2, <1>3, <1>4
<1>6. ASSUME h[o].map.desc[P] # Nil PROVE Holders(h, o, P) = {o}
  <2>1. 1 \in at /\ at \subseteq 1 .. Len(c)
    BY <1>3, <1>4, <1>6
  <2>2. {j \in at : \A k \in at : j <= k} = {1}
    <3>1. \A k \in at : k \in Nat /\ 1 <= k /\ (k <= 1 => k = 1)
      BY <1>3, <2>1
    <3>2. ASSUME NEW j \in at, \A k \in at : j <= k PROVE j = 1
      BY <2>1, <3>1, <3>2
    <3> QED
      BY <2>1, <3>1, <3>2
  <2> QED
    BY <1>2, <1>3, <2>2
<1> QED
  BY <1>5, <1>6

\* What is stored under a descriptor with a value.
LEMMA ValueFacts ==
    ASSUME NEW v \in Val
    PROVE  /\ Value(v).has = {"value"} /\ Value(v).slot = v
           /\ Plain(v).has = {"value", "writable", "enumerable", "configurable"} /\ Plain(v).slot = v
           /\ IsDataDescriptor(Value(v)) /\ IsDataDescriptor(Plain(v))
BY DEF Value, Plain, NoFields, IsDataDescriptor, Has

Holds(d, v) == IsDataDescriptor(d) /\ d.slot = v

\* A definition with a value that is not rejected stores it.
LEMMA DefinedHolds ==
    ASSUME NEW h, HeapInv(h), NEW o \in Obj, h[o] # Nil, NEW P \in Name, NEW v \in Val,
           NEW d \in Desc, Single(d), "value" \in d.has, d.slot = v,
           NEW r, r = _ejs_object_specop_define_own_property(h, o, P, d), r.status = "ok"
    PROVE  Holds(r.heap[o].map.desc[P], v)
<1> DEFINE c == h[o].map.desc[P]
           new == r.heap[o].map.desc[P]
<1>1. DefineDoes(h, o, P, d, r)
  BY DefineOwn
<1>2. d.has \in SUBSET Fields /\ IsDataDescriptor(d)
  BY DescFacts DEF IsDataDescriptor, Has
<1>3. CASE c = Nil
  <2>1. new = NewProperty(d)
    BY <1>1, <1>3 DEF DefineDoes
  <2> DEFINE fs == CommonFields \union (IF IsGenericDescriptor(d) \/ IsDataDescriptor(d)
                                        THEN {"value", "writable"} ELSE {"get", "set"})
  <2>2. fs \in SUBSET Fields /\ "value" \in fs
    BY <1>2 DEF CommonFields, Fields
  <2>3. NewProperty(d) = Copy(NoFields, d, fs)
    BY DEF NewProperty
  <2> HIDE DEF fs, new
  <2>4. Merged(NoFields, d, d.has \intersect fs, new)
    BY <2>1, <2>2, <2>3, CopyFacts, NoFieldsFacts
  <2>5. "value" \in new.has /\ new.slot = d.slot
    BY <2>2, <2>4 DEF Merged
  <2> QED
    BY <2>5 DEF Holds, IsDataDescriptor, Has, new
<1>4. CASE c # Nil
  <2>1. c \in Desc /\ Single(c)
    BY <1>4, ObjFacts
  <2>2. \/ new = c /\ Unchanged(c, d)
        \/ new = Copy(Converted(c, d), d, d.has)
    BY <1>1, <1>4 DEF DefineDoes
  <2> HIDE DEF new, c
  <2>3. \E k \in Desc : Merged(k, d, d.has \intersect d.has, new)
    <3>1. CASE new = c /\ Unchanged(c, d)
      <4>1. Copy(c, d, d.has) = c
        BY <3>1 DEF Unchanged
      <4> QED
        BY <1>2, <2>1, <3>1, <4>1, CopyFacts
    <3>2. CASE new = Copy(Converted(c, d), d, d.has)
      <4>1. Converted(c, d) \in Desc
        BY <2>1, ConvertedFacts
      <4> QED
        BY <1>2, <3>2, <4>1, CopyFacts
    <3> QED
      BY <2>2, <3>1, <3>2
  <2>4. "value" \in new.has /\ new.slot = d.slot
    BY <2>3 DEF Merged
  <2> QED
    BY <2>4 DEF Holds, IsDataDescriptor, Has, new
<1> QED
  BY <1>3, <1>4

\* [[Get]] of a property o has itself.
LEMMA GetHeld ==
    ASSUME NEW h, Sound(h), NEW o \in Obj, h[o] # Nil, NEW P \in Name, h[o].map.desc[P] # Nil,
           NEW v, Holds(h[o].map.desc[P], v), NEW x
    PROVE  _ejs_object_specop_get(h, o, P, x) = v
<1>1. Holders(h, o, P) = {o}
  BY HolderFacts
<1>2. (CHOOSE y \in Holders(h, o, P) : TRUE) = o
  BY <1>1
<1>3. _ejs_object_specop_get_own_property(h, o, P) = h[o].map.desc[P]
  BY LookupIs DEF Sound
<1> QED
  BY <1>1, <1>2, <1>3 DEF _ejs_object_specop_get, Holds

\* What is assigned without a setter is read.
LEMMA AssignedRead ==
    ASSUME NEW h, Sound(h), NEW o \in Obj, h[o] # Nil, NEW P \in Name, NEW v \in Val,
           NEW r, r = _ejs_object_specop_set(h, o, P, v, o), r.status = "ok", r.call = Nil,
           NEW d, d = _ejs_object_specop_get_own_property(r.heap, o, P),
           d # Nil, ~IsGenericDescriptor(d)
    PROVE  _ejs_object_specop_get(r.heap, o, P, o) = v
<1> DEFINE own == CHOOSE x \in Holders(h, o, P) : TRUE
           c == IF Holders(h, o, P) = {} THEN Plain(undefined)
                ELSE _ejs_object_specop_get_own_property(h, own, P)
           setter == _ejs_property_desc_get_setter(c)
           D(e) == _ejs_object_specop_define_own_property(h, o, P, e)
<1>1. HeapInv(h)
  BY DEF Sound
<1>2. Edited(h, o, r.heap)
  BY <1>1, SetProperty
<1>3. HeapInv(r.heap) /\ r.heap[o] # Nil /\ Sound(r.heap)
  BY <1>2, EditedLeaves DEF Leaves, Sound, Edited, SameShape
<1>4. d = r.heap[o].map.desc[P]
  BY <1>3, LookupIs
<1>5. c \in Desc /\ Single(c)
  <2>1. CASE Holders(h, o, P) = {}
    BY <2>1, ValueDesc
  <2>2. CASE Holders(h, o, P) # {}
    <3>1. own \in Holders(h, o, P)
      BY <2>2
    <3> HIDE DEF own
    <3>2. own \in Obj /\ h[own] # Nil /\ h[own].map.desc[P] # Nil
      BY <3>1, HolderFacts
    <3>3. c = h[own].map.desc[P]
      BY <1>1, <2>2, <3>2, LookupIs DEF own
    <3> HIDE DEF c
    <3> QED
      BY <1>1, <3>2, <3>3, ObjFacts
  <2> QED
    BY <2>1, <2>2
<1>6. \/ r = Reject(h) \/ r = D(Value(v)) \/ r = D(Plain(v))
      \/ r = Done(h) /\ ~IsDataDescriptor(c) /\ ~IsAccessorDescriptor(c)
      \/ r = [Done(h) EXCEPT !.call = <<setter, o>>]
  BY DEF _ejs_object_specop_set
<1>7. CASE r = Reject(h)
  BY <1>7, DoneIs
<1>8. CASE r = D(Value(v)) \/ r = D(Plain(v))
  <2>1. Holds(d, v)
    <3>1. ASSUME NEW e \in Desc, Single(e), "value" \in e.has, e.slot = v, r = D(e) PROVE Holds(d, v)
      BY <1>1, <1>4, <3>1, DefinedHolds
    <3>2. "value" \in Value(v).has /\ "value" \in Plain(v).has
      BY ValueFacts
    <3> QED
      BY <1>8, <3>1, <3>2, ValueDesc, ValueFacts
  <2> QED
    BY <1>3, <1>4, <2>1, GetHeld
<1>9. CASE r = Done(h) /\ ~IsDataDescriptor(c) /\ ~IsAccessorDescriptor(c)
  <2>1. r.heap = h
    BY <1>9, DoneIs
  <2>2. Holders(h, o, P) = {o}
    BY <1>4, <2>1, HolderFacts
  <2>3. own = o
    BY <2>2
  <2>4. c = d
    BY <2>1, <2>2, <2>3
  <2> QED
    BY <1>9, <2>4 DEF IsGenericDescriptor
<1>10. CASE r = [Done(h) EXCEPT !.call = <<setter, o>>]
  <2>1. r.call = <<setter, o>>
    BY <1>10 DEF Done
  <2>2. setter \in Slot
    <3> HIDE DEF c
    <3> QED
      BY <1>5, DescFacts DEF _ejs_property_desc_get_setter, Accessors, Slot
  <2> HIDE DEF setter
  <2> QED
    BY <2>1, <2>2, NilAssumption
<1> QED
  BY <1>6, <1>7, <1>8, <1>9, <1>10

\* The essential invariants of objects, for any objects, names and values.
THEOREM ObjectsAlwaysSound == Spec => []ObjectsSound
<1>1. ObjectInv => ObjectsSound
  <2> SUFFICES ASSUME ObjectInv PROVE ObjectsSound
    OBVIOUS
  <2>1. Sound(heap) /\ HeapInv(heap) /\ Ends(heap)
    BY DEF ObjectInv, Sound
  <2>2. \A o \in Live : o \in Obj /\ heap[o] # Nil
    BY DEF Live
  <2>3. PrototypesEnd
    BY <2>1, <2>2, ChainFacts DEF PrototypesEnd
  <2>4. ASSUME NEW o \in Live
        PROVE  \A P \in Elements(Entries(heap[o].map)) : P \in Name /\ heap[o].map.desc[P] # Nil
    BY <2>1, <2>2, ObjFacts, MapReads DEF LiveNames
  <2>5. OneKind
    BY <2>1, <2>2, <2>4, ObjFacts DEF OneKind, Single
  <2>6. IntegrityReached
    BY <2>1, <2>2, SetIntegrity DEF IntegrityReached, Levels
  <2>7. AssignedIsRead
    BY <2>1, <2>2, AssignedRead DEF AssignedIsRead
  <2>8. DescriptorRoundTrip
    <3> SUFFICES ASSUME NEW o \in Live, NEW P \in Elements(Entries(heap[o].map))
                 PROVE  LET d == _ejs_object_specop_get_own_property(heap, o, P)
                            r == _ejs_object_specop_define_own_property(heap, o, P,
                                     ToDescriptor(_ejs_Object_getOwnPropertyDescriptor(heap, o, P)))
                            e == _ejs_object_specop_get_own_property(r.heap, o, P)
                        IN  /\ r.status = "ok"
                            /\ \A f \in CommonFields \union {"writable"} : d[f] = e[f]
                            /\ _ejs_property_desc_get_value(d) = _ejs_property_desc_get_value(e)
                            /\ _ejs_property_desc_get_getter(d) = _ejs_property_desc_get_getter(e)
                            /\ _ejs_property_desc_get_setter(d) = _ejs_property_desc_get_setter(e)
      BY DEF DescriptorRoundTrip
    <3> DEFINE d == _ejs_object_specop_get_own_property(heap, o, P)
               r == _ejs_object_specop_define_own_property(heap, o, P,
                        ToDescriptor(_ejs_Object_getOwnPropertyDescriptor(heap, o, P)))
               e == _ejs_object_specop_get_own_property(r.heap, o, P)
    <3>1. o \in Obj /\ heap[o] # Nil /\ P \in Name /\ heap[o].map.desc[P] # Nil
      BY <2>2, <2>4
    <3>2. r.status = "ok" /\ Alike(d, e)
      BY <2>1, <3>1, RoundTrips
    <3> HIDE DEF d, r, e
    <3>3. \A f \in CommonFields \union {"writable"} : d[f] = e[f]
      BY <3>2 DEF CommonFields, Alike
    <3>4. /\ r.status = "ok"
          /\ \A f \in CommonFields \union {"writable"} : d[f] = e[f]
          /\ _ejs_property_desc_get_value(d) = _ejs_property_desc_get_value(e)
          /\ _ejs_property_desc_get_getter(d) = _ejs_property_desc_get_getter(e)
          /\ _ejs_property_desc_get_setter(d) = _ejs_property_desc_get_setter(e)
      BY <3>2, <3>3 DEF Alike
    <3> QED
      BY <3>4 DEF d, r, e
  <2> QED
    BY <2>3, <2>5, <2>6, <2>7, <2>8 DEF ObjectsSound
<1> QED
  BY <1>1, ObjectsInvariant, PTL

-----------------------------------------------------------------------------
(* Proxies.                                                                 *)

\* Nothing is defined on an object that is not extensible.
LEMMA DefineRejected ==
    ASSUME NEW h, HeapInv(h), NEW o \in Obj, h[o] # Nil, NEW P \in Name,
           h[o].map.desc[P] = Nil, ~h[o].extensible, NEW d
    PROVE  _ejs_object_specop_define_own_property(h, o, P, d).status = "reject"
<1>1. _ejs_object_specop_get_own_property(h, o, P) = Nil
  BY LookupIs
<1> QED
  BY <1>1, DoneIs DEF _ejs_object_specop_define_own_property

\* Whatever their traps return, getPrototypeOf, isExtensible, preventExtensions, has,
\* getOwnProperty and defineProperty of a proxy deny nothing that its target, an ordinary
\* object, is bound to.  The traps of get, set, delete, setPrototypeOf and ownKeys can.
THEOREM ProxiesAlwaysHonest == Spec => []ProxyHonest
<1>1. ObjectInv => ProxyHonest
  <2> SUFFICES ASSUME ObjectInv, NEW t \in Live
               PROVE  /\ ~heap[t].extensible => \A trap \in Traps(Obj \union {null}) :
                            _ejs_proxy_specop_get_prototype_of(heap, t, trap) \in {heap[t].proto, TypeError}
                      /\ \A trap \in Traps(BOOLEAN) :
                            /\ _ejs_proxy_specop_is_extensible(heap, t, trap) \in {heap[t].extensible, TypeError}
                            /\ trap # Nil /\ heap[t].extensible =>
                                  _ejs_proxy_specop_prevent_extensions(heap, t, trap) # TRUE
                      /\ \A P \in Name :
                            Own(heap, t, P) # Nil /\ ~(Own(heap, t, P).configurable /\ heap[t].extensible) =>
                                /\ \A trap \in Traps(BOOLEAN) :
                                      _ejs_proxy_specop_has_property(heap, t, P, trap) # FALSE
                                /\ \A trap \in Traps({undefined, null}) :
                                      _ejs_proxy_specop_get_own_property(heap, t, P, trap) # Nil
                      /\ \A P \in Name, trap \in Traps(BOOLEAN) :
                            Own(heap, t, P) = Nil /\ ~heap[t].extensible =>
                                _ejs_proxy_specop_define_own_property(heap, t, P, Plain(undefined), trap) # TRUE
    BY DEF ProxyHonest
  <2>1. Sound(heap) /\ HeapInv(heap) /\ t \in Obj /\ heap[t] # Nil /\ heap[t].extensible \in BOOLEAN
    BY ObjFacts DEF ObjectInv, Sound, Live
  <2>2. /\ TypeError # TRUE /\ TypeError # FALSE /\ TypeError # Nil
        /\ NotImplemented # TRUE /\ NotImplemented # FALSE /\ NotImplemented # Nil
    BY AnswersAssumption
  <2>3. \A P \in Name : Own(heap, t, P) = heap[t].map.desc[P]
    BY <2>1, LookupIs DEF Own
  <2>4. ASSUME ~heap[t].extensible, NEW trap \in Traps(Obj \union {null})
        PROVE  _ejs_proxy_specop_get_prototype_of(heap, t, trap) \in {heap[t].proto, TypeError}
    BY <2>4 DEF _ejs_proxy_specop_get_prototype_of, _ejs_object_specop_get_prototype_of
  <2>5. ASSUME NEW trap \in Traps(BOOLEAN)
        PROVE  /\ _ejs_proxy_specop_is_extensible(heap, t, trap) \in {heap[t].extensible, TypeError}
               /\ trap # Nil /\ heap[t].extensible =>
                     _ejs_proxy_specop_prevent_extensions(heap, t, trap) # TRUE
    <3>1. _ejs_proxy_specop_is_extensible(heap, t, trap) \in {heap[t].extensible, TypeError}
      BY DEF _ejs_proxy_specop_is_extensible, _ejs_object_specop_is_extensible
    <3>2. ASSUME trap # Nil, heap[t].extensible
          PROVE  _ejs_proxy_specop_prevent_extensions(heap, t, trap) # TRUE
      <4>1. CASE trap.result
        <5>1. _ejs_proxy_specop_prevent_extensions(heap, t, trap) = TypeError
          BY <3>2, <4>1 DEF _ejs_proxy_specop_prevent_extensions
        <5> QED
          BY <2>2, <5>1
      <4>2. CASE ~trap.result
        <5>1. _ejs_proxy_specop_prevent_extensions(heap, t, trap) = trap.result
          BY <3>2, <4>2 DEF _ejs_proxy_specop_prevent_extensions
        <5> QED
          BY <4>2, <5>1
      <4> QED
        BY <4>1, <4>2
    <3> QED
      BY <3>1, <3>2
  <2>6. ASSUME NEW P \in Name, Own(heap, t, P) # Nil,
               ~(Own(heap, t, P).configurable /\ heap[t].extensible)
        PROVE  /\ \A trap \in Traps(BOOLEAN) : _ejs_proxy_specop_has_property(heap, t, P, trap) # FALSE
               /\ \A trap \in Traps({undefined, null}) :
                     _ejs_proxy_specop_get_own_property(heap, t, P, trap) # Nil
    <3>1. Holders(heap, t, P) # {}
      BY <2>1, <2>3, <2>6, HolderFacts
    <3>2. _ejs_object_specop_has_property(heap, t, P)
      BY <3>1 DEF _ejs_object_specop_has_property
    <3>3. ASSUME NEW trap \in Traps(BOOLEAN) PROVE _ejs_proxy_specop_has_property(heap, t, P, trap) # FALSE
      <4>1. CASE trap = Nil
        <5>1. _ejs_proxy_specop_has_property(heap, t, P, trap) = _ejs_object_specop_has_property(heap, t, P)
          BY <4>1 DEF _ejs_proxy_specop_has_property
        <5> QED
          BY <3>2, <5>1
      <4>2. CASE trap # Nil /\ trap.result
        <5>1. _ejs_proxy_specop_has_property(heap, t, P, trap) = trap.result
          BY <4>2 DEF _ejs_proxy_specop_has_property
        <5> QED
          BY <4>2, <5>1
      <4>3. CASE trap # Nil /\ ~trap.result
        <5>1. _ejs_proxy_specop_has_property(heap, t, P, trap) = TypeError
          BY <2>6, <4>3 DEF _ejs_proxy_specop_has_property
        <5> QED
          BY <2>2, <5>1
      <4> QED
        BY <4>1, <4>2, <4>3
    <3>4. ASSUME NEW trap \in Traps({undefined, null})
          PROVE  _ejs_proxy_specop_get_own_property(heap, t, P, trap) # Nil
      <4>1. CASE trap = Nil
        BY <2>6, <4>1 DEF _ejs_proxy_specop_get_own_property
      <4>2. CASE trap # Nil /\ (trap.result \in Obj \union Fun \/ trap.result # undefined)
        <5>1. _ejs_proxy_specop_get_own_property(heap, t, P, trap) \in {NotImplemented, TypeError}
          BY <4>2 DEF _ejs_proxy_specop_get_own_property
        <5> QED
          BY <2>2, <5>1
      <4>3. CASE trap # Nil /\ trap.result \notin Obj \union Fun /\ trap.result = undefined
        <5>1. _ejs_proxy_specop_get_own_property(heap, t, P, trap) = TypeError
          BY <2>6, <4>3 DEF _ejs_proxy_specop_get_own_property
        <5> QED
          BY <2>2, <5>1
      <4> QED
        BY <4>1, <4>2, <4>3
    <3> QED
      BY <3>3, <3>4
  <2>7. ASSUME NEW P \in Name, NEW trap \in Traps(BOOLEAN), Own(heap, t, P) = Nil, ~heap[t].extensible
        PROVE  _ejs_proxy_specop_define_own_property(heap, t, P, Plain(undefined), trap) # TRUE
    <3>1. CASE trap = Nil
      <4>1. _ejs_object_specop_define_own_property(heap, t, P, Plain(undefined)).status = "reject"
        BY <2>1, <2>3, <2>7, DefineRejected
      <4> QED
        BY <3>1, <4>1 DEF _ejs_proxy_specop_define_own_property
    <3>2. CASE trap # Nil /\ ~trap.result
      BY <3>2 DEF _ejs_proxy_specop_define_own_property
    <3>3. CASE trap # Nil /\ trap.result
      <4>1. _ejs_proxy_specop_define_own_property(heap, t, P, Plain(undefined), trap) = TypeError
        BY <2>7, <3>3 DEF _ejs_proxy_specop_define_own_property
      <4> QED
        BY <2>2, <4>1
    <3> QED
      BY <3>1, <3>2, <3>3
  <2> QED
    BY <2>4, <2>5, <2>6, <2>7
<1> QED
  BY <1>1, ObjectsInvariant, PTL

-----------------------------------------------------------------------------
(* Enumeration.                                                             *)

\* The steps of collect_keys for a name and for an object.
AddKey(h, g, keys, x, P) ==
    IF Enumerable(h, x, P) /\ ~name_in_keys(P, keys, g) THEN Append(keys, P) ELSE keys

AddOwnKeys(h, g, keys, x) ==
    LET order == Entries(h[x].map)
        at[j \in 0 .. Len(order)] == IF j = 0 THEN keys ELSE AddKey(h, g, at[j - 1], x, order[j])
    IN  at[Len(order)]

\* keys lists A without repetition.
Listed(W, keys, A) == keys \in Seq(W) /\ Distinct(keys) /\ Elements(keys) = A

LEMMA AddKeyIs ==
    ASSUME NEW W, W \intersect Symbol = {}, NEW h, NEW keys, NEW A, Listed(W, keys, A),
           NEW x, NEW P, Enumerable(h, x, P) => P \in W
    PROVE  Listed(W, AddKey(h, FALSE, keys, x, P), A \union (IF Enumerable(h, x, P) THEN {P} ELSE {}))
<1>1. keys \in Seq(W) /\ Len(keys) \in Nat /\ Distinct(keys) /\ Elements(keys) = A
  BY DEF Listed
<1>2. CASE ~Enumerable(h, x, P)
  BY <1>2 DEF AddKey
<1>3. CASE Enumerable(h, x, P)
  <2>1. P \in W /\ P \notin Symbol
    BY <1>3
  <2>2. \A k \in Elements(keys) : k \notin Symbol
    BY <1>1 DEF Elements
  <2>3. name_in_keys(P, keys, FALSE) <=> P \in A
    BY <1>1, <2>1, <2>2 DEF name_in_keys
  <2>4. CASE P \in A
    <3>1. AddKey(h, FALSE, keys, x, P) = keys /\ A \union {P} = A
      BY <2>3, <2>4 DEF AddKey
    <3> QED
      BY <1>3, <3>1
  <2>5. CASE P \notin A
    <3> DEFINE t == Append(keys, P)
    <3>1. AddKey(h, FALSE, keys, x, P) = t
      BY <1>3, <2>3, <2>5 DEF AddKey
    <3>2. /\ t \in Seq(W) /\ Len(t) = Len(keys) + 1 /\ t[Len(keys) + 1] = P
          /\ \A i \in 1 .. Len(keys) : t[i] = keys[i]
      BY <1>1, <2>1
    <3> HIDE DEF t
    <3>3. \A i \in 1 .. Len(t) : i \in 1 .. Len(keys) \/ i = Len(keys) + 1
      BY <1>1, <3>2
    <3>4. \A i \in 1 .. Len(keys) : i \in 1 .. Len(t) /\ t[i] # P
      BY <1>1, <2>5, <3>2 DEF Elements
    <3>5. Len(keys) + 1 \in 1 .. Len(t)
      BY <1>1, <3>2
    <3>6. Elements(t) = A \union {P}
      BY <1>1, <3>2, <3>3, <3>4, <3>5 DEF Elements
    <3>7. Distinct(t)
      <4> SUFFICES ASSUME NEW i \in 1 .. Len(t), NEW j \in 1 .. Len(t), t[i] = t[j] PROVE i = j
        BY DEF Distinct
      <4>1. CASE i \in 1 .. Len(keys) /\ j \in 1 .. Len(keys)
        BY <1>1, <3>2, <4>1 DEF Distinct
      <4>2. CASE ~(i \in 1 .. Len(keys) /\ j \in 1 .. Len(keys))
        BY <3>2, <3>3, <3>4, <4>2
      <4> QED
        BY <4>1, <4>2
    <3> QED
      BY <1>3, <3>1, <3>2, <3>6, <3>7 DEF Listed
  <2> QED
    BY <2>4, <2>5
<1> QED
  BY <1>2, <1>3

EnumerableNames(h, x) == {P \in LiveNames(h[x].map) : Enumerable(h, x, P)}

LEMMA AddOwnKeysIs ==
    ASSUME NEW W, W \intersect Symbol = {}, NEW h, HeapInv(h), NEW keys, NEW A, Listed(W, keys, A),
           NEW x \in Obj, h[x] # Nil, EnumerableNames(h, x) \subseteq W
    PROVE  Listed(W, AddOwnKeys(h, FALSE, keys, x), A \union EnumerableNames(h, x))
<1> DEFINE s == Entries(h[x].map)
           N == Len(s)
           S == Seq(W)
           To(i, r) == AddKey(h, FALSE, r, x, s[i])
           Eq(f) == f = [i \in 0 .. N |-> IF i = 0 THEN keys ELSE To(i, f[i - 1])]
           f == CHOOSE f : Eq(f)
           step == [p \in (1 .. N) \X S |-> To(p[1], p[2])]
<1>1. AddOwnKeys(h, FALSE, keys, x) = f[N]
  BY DEF AddOwnKeys
<1>2. s \in Seq(Name) /\ Elements(s) = LiveNames(h[x].map)
  <2>1. PICK q : InOrder(h[x].map, q)
    BY ObjFacts DEF MapInv
  <2>2. s = q
    BY <2>1, ObjFacts, MapReads
  <2> QED
    BY <2>1, <2>2 DEF InOrder, Lists
<1>3. N \in Nat /\ keys \in S /\ Distinct(keys) /\ Elements(keys) = A
  BY <1>2 DEF Listed
<1> HIDE DEF s
<1>4. \A i \in 1 .. N : Enumerable(h, x, s[i]) => s[i] \in W
  BY <1>2 DEF Elements, EnumerableNames
<1>5. \A i \in 1 .. N, r \in S : To(i, r) \in S
  <2> SUFFICES ASSUME NEW i \in 1 .. N, NEW r \in S PROVE To(i, r) \in S
    OBVIOUS
  <2>1. To(i, r) = r \/ (To(i, r) = Append(r, s[i]) /\ s[i] \in W)
    BY <1>4 DEF AddKey
  <2> HIDE DEF To
  <2> QED
    BY <2>1
<1>6. ASSUME NEW i \in 1 .. N, NEW r, NEW B, Listed(W, r, B)
      PROVE  Listed(W, To(i, r), B \union (IF Enumerable(h, x, s[i]) THEN {s[i]} ELSE {}))
  BY <1>4, <1>6, AddKeyIs
<1> HIDE DEF To, S, N
<1>7. step \in [(1 .. N) \X S -> S] /\ \A i \in 1 .. N, r \in S : step[<<i, r>>] = To(i, r)
  BY <1>5
<1> HIDE DEF step
<1>8. \E g \in [0 .. N -> S] : Iterates(N, keys, step, g)
  BY <1>3, <1>7, Recursion
<1>9. PICK g \in [0 .. N -> S] : g[0] = keys /\ \A i \in 1 .. N : g[i] = step[<<i, g[i - 1]>>]
  BY <1>8 DEF Iterates
<1>10. ASSUME NEW i \in 0 .. N PROVE g[i] = IF i = 0 THEN keys ELSE To(i, g[i - 1])
  <2>1. CASE i = 0
    BY <1>9, <2>1
  <2>2. CASE i # 0
    <3>1. i \in 1 .. N /\ i - 1 \in 0 .. N
      BY <1>3, <2>2
    <3> QED
      BY <1>7, <1>9, <2>2, <3>1
  <2> QED
    BY <2>1, <2>2
<1>11. Eq(g)
  <2>1. g = [i \in 0 .. N |-> g[i]]
    BY <1>9
  <2> QED
    BY <1>10, <2>1
<1>12. Eq(f)
  <2> HIDE DEF Eq
  <2> QED
    BY <1>11
<1> HIDE DEF f
<1>13. f[0] = keys /\ \A i \in 1 .. N : f[i] = To(i, f[i - 1])
  <2>1. 0 \in 0 .. N /\ \A i \in 1 .. N : i \in 0 .. N /\ i # 0
    BY <1>3
  <2> QED
    BY <1>12, <2>1
<1> HIDE DEF Eq
<1> DEFINE B(i) == A \union {s[j] : j \in {k \in 1 .. i : Enumerable(h, x, s[k])}}
           P == {i \in 0 .. N : Listed(W, f[i], B(i))}
<1>14. 0 \in P
  <2>1. B(0) = A /\ 0 \in 0 .. N
    BY <1>3
  <2> QED
    BY <1>13, <2>1
<1>15. ASSUME NEW i \in 0 .. N - 1, i \in P PROVE i + 1 \in P
  <2> DEFINE k == i + 1
             q == f[i]
             E == IF Enumerable(h, x, s[k]) THEN {s[k]} ELSE {}
  <2>1. k \in 1 .. N /\ k - 1 = i /\ k \in 0 .. N /\ \A j : j \in 1 .. k <=> j \in 1 .. i \/ j = k
    BY <1>3
  <2>2. Listed(W, q, B(i))
    BY <1>15
  <2>3. B(k) = B(i) \union E
    <3> HIDE DEF k
    <3> QED
      BY <2>1
  <2> HIDE DEF k, q, B
  <2>4. f[k] = To(k, q)
    BY <1>13, <2>1 DEF q
  <2>5. Listed(W, To(k, q), B(i) \union E)
    BY <1>6, <2>1, <2>2
  <2>6. Listed(W, f[k], B(k))
    BY <2>3, <2>4, <2>5
  <2> QED
    BY <2>1, <2>6 DEF k
<1> HIDE DEF P
<1>16. \A i \in 0 .. N : i \in P
  BY <1>3, <1>14, <1>15, BoundedInduction
<1>17. N \in 0 .. N
  BY <1>3
<1>18. Listed(W, f[N], B(N))
  BY <1>16, <1>17 DEF P
<1>19. B(N) = A \union EnumerableNames(h, x)
  BY <1>2 DEF EnumerableNames, Elements, N
<1> QED
  BY <1>1, <1>18, <1>19

\* The enumerable names of the objects in c.
NamesOf(h, c) == UNION {EnumerableNames(h, x) : x \in Elements(c)}

\* for-in lists the enumerable names of the chain, each once.
LEMMA CollectIs ==
    ASSUME NEW h, HeapInv(h), Ends(h), NEW o \in Obj, h[o] # Nil,
           NEW W, W = NamesOf(h, ProtoChain(h, o)), W \intersect Symbol = {}
    PROVE  Listed(W, collect_keys(h, o, FALSE), W)
<1> DEFINE c == ProtoChain(h, o)
           N == Len(c)
           S == {r \in Seq(W) : Distinct(r)}
           To(i, r) == AddOwnKeys(h, FALSE, r, c[i])
           Eq(f) == f = [i \in 0 .. N |-> IF i = 0 THEN <<>> ELSE To(i, f[i - 1])]
           f == CHOOSE f : Eq(f)
           B(i) == UNION {EnumerableNames(h, c[j]) : j \in 1 .. i}
           P == {i \in 0 .. N : Listed(W, f[i], B(i))}
<1>1. collect_keys(h, o, FALSE) = f[N]
  BY DEF collect_keys, AddOwnKeys, AddKey
<1>2. c \in Seq(Obj) /\ N \in Nat /\ \A i \in 1 .. N : c[i] \in Obj /\ h[c[i]] # Nil
  <2>1. ProtoList(h, o, c)
    BY ChainFacts
  <2> QED
    BY <2>1 DEF ProtoList
<1>3. W = NamesOf(h, c)
  OBVIOUS
<1> HIDE DEF c
<1>4. \A i \in 1 .. N : EnumerableNames(h, c[i]) \subseteq W
  BY <1>3 DEF NamesOf, Elements
<1>5. ASSUME NEW i \in 1 .. N, NEW r, NEW A, Listed(W, r, A)
      PROVE  Listed(W, To(i, r), A \union EnumerableNames(h, c[i]))
  BY <1>2, <1>4, <1>5, AddOwnKeysIs
<1>6. ASSUME NEW i \in 1 .. N, NEW r \in S PROVE To(i, r) \in S
  <2>1. Listed(W, r, Elements(r))
    BY DEF Listed
  <2>2. Listed(W, To(i, r), Elements(r) \union EnumerableNames(h, c[i]))
    BY <1>5, <2>1
  <2> HIDE DEF To
  <2> QED
    BY <2>2 DEF Listed
<1>7. <<>> \in S /\ Listed(W, <<>>, {})
  BY DEF Listed, Distinct, Elements
<1> DEFINE step == [p \in (1 .. N) \X S |-> To(p[1], p[2])]
<1> HIDE DEF To, S, N
<1>8. step \in [(1 .. N) \X S -> S] /\ \A i \in 1 .. N, r \in S : step[<<i, r>>] = To(i, r)
  BY <1>6
<1> HIDE DEF step
<1>9. \E g \in [0 .. N -> S] : Iterates(N, <<>>, step, g)
  BY <1>2, <1>7, <1>8, Recursion
<1>10. PICK g \in [0 .. N -> S] : g[0] = <<>> /\ \A i \in 1 .. N : g[i] = step[<<i, g[i - 1]>>]
  BY <1>9 DEF Iterates
<1>11. ASSUME NEW i \in 0 .. N PROVE g[i] = IF i = 0 THEN <<>> ELSE To(i, g[i - 1])
  <2>1. CASE i = 0
    BY <1>10, <2>1
  <2>2. CASE i # 0
    <3>1. i \in 1 .. N /\ i - 1 \in 0 .. N
      BY <1>2, <2>2
    <3> QED
      BY <1>8, <1>10, <2>2, <3>1
  <2> QED
    BY <2>1, <2>2
<1>12. Eq(g)
  <2>1. g = [i \in 0 .. N |-> g[i]]
    BY <1>10
  <2> QED
    BY <1>11, <2>1
<1>13. Eq(f)
  <2> HIDE DEF Eq
  <2> QED
    BY <1>12
<1> HIDE DEF f
<1>14. f[0] = <<>> /\ \A i \in 1 .. N : f[i] = To(i, f[i - 1])
  <2>1. 0 \in 0 .. N /\ \A i \in 1 .. N : i \in 0 .. N /\ i # 0
    BY <1>2
  <2> QED
    BY <1>13, <2>1
<1> HIDE DEF Eq
<1>15. 0 \in P
  <2>1. B(0) = {} /\ 0 \in 0 .. N
    BY <1>2
  <2> QED
    BY <1>7, <1>14, <2>1
<1>16. ASSUME NEW i \in 0 .. N - 1, i \in P PROVE i + 1 \in P
  <2> DEFINE k == i + 1
             q == f[i]
  <2>1. k \in 1 .. N /\ k - 1 = i /\ k \in 0 .. N /\ \A j : j \in 1 .. k <=> j \in 1 .. i \/ j = k
    BY <1>2
  <2>2. Listed(W, q, B(i))
    BY <1>16
  <2>3. B(k) = B(i) \union EnumerableNames(h, c[k])
    <3> HIDE DEF k
    <3> QED
      BY <2>1
  <2> HIDE DEF k, q, B
  <2>4. f[k] = To(k, q)
    BY <1>14, <2>1 DEF q
  <2>5. Listed(W, To(k, q), B(i) \union EnumerableNames(h, c[k]))
    BY <1>5, <2>1, <2>2
  <2>6. Listed(W, f[k], B(k))
    BY <2>3, <2>4, <2>5
  <2> QED
    BY <2>1, <2>6 DEF k
<1> HIDE DEF P
<1>17. \A i \in 0 .. N : i \in P
  BY <1>2, <1>15, <1>16, BoundedInduction
<1>18. N \in 0 .. N
  BY <1>2
<1>19. Listed(W, f[N], B(N))
  BY <1>17, <1>18 DEF P
<1>20. B(N) = W
  BY <1>3 DEF NamesOf, Elements, N
<1> QED
  BY <1>1, <1>19, <1>20

\* After any sequence of calls the own keys are the properties of the object: numbers
\* first, in ascending order if all are below half a Word, then strings, then symbols,
\* both in the order the properties were made; and for-in lists every enumerable name of
\* a chain once.
THEOREM KeysAlwaysExact == Spec => KeysExact
<1>1. ObjectInv => KeysInOrder /\ ForInComplete
  <2> SUFFICES ASSUME ObjectInv PROVE KeysInOrder /\ ForInComplete
    OBVIOUS
  <2>1. Sound(heap) /\ HeapInv(heap) /\ Ends(heap) /\ \A o \in Live : o \in Obj /\ heap[o] # Nil
    BY DEF ObjectInv, Sound, Live
  <2>2. ASSUME NEW o \in Obj, heap[o] # Nil
        PROVE  /\ Entries(heap[o].map) \in Seq(Name) /\ Distinct(Entries(heap[o].map))
               /\ Elements(Entries(heap[o].map)) = LiveNames(heap[o].map)
               /\ LiveNames(heap[o].map) \subseteq Name
    <3>1. MapInv(heap[o].map)
      BY <2>1, <2>2, ObjFacts
    <3>2. PICK q : InOrder(heap[o].map, q)
      BY <3>1 DEF MapInv
    <3>3. Entries(heap[o].map) = q
      BY <3>1, <3>2, MapReads
    <3> QED
      BY <3>2, <3>3 DEF InOrder, Lists, LiveNames
  <2>3. KeysInOrder
    <3> SUFFICES ASSUME NEW o \in Live, NEW keys, keys = _ejs_object_specop_own_property_keys(heap, o)
                 PROVE  /\ Elements(keys) = Elements(Entries(heap[o].map))
                        /\ Len(keys) = Cardinality(Elements(keys))
                        /\ \A i, j \in 1 .. Len(keys) : i < j => Rank(keys[i]) <= Rank(keys[j])
                        /\ (\A P \in Elements(keys) \intersect DOMAIN Index : 2 * Index[P] < Word) =>
                              \A i, j \in 1 .. Len(keys) :
                                  i < j /\ keys[j] \in DOMAIN Index => Index[keys[i]] <= Index[keys[j]]
      BY DEF KeysInOrder
    <3>1. KeysOf(LiveNames(heap[o].map), Entries(heap[o].map), keys)
      BY <2>1, KeysAre
    <3>2. keys \in Seq(Name) /\ Distinct(keys) /\ Elements(keys) = LiveNames(heap[o].map)
      BY <3>1 DEF KeysOf
    <3>3. Elements(keys) = Elements(Entries(heap[o].map)) /\ Len(keys) = Cardinality(Elements(keys))
      BY <2>1, <2>2, <3>2, NameAssumption, ShortList
    <3>4. ASSUME NEW i \in 1 .. Len(keys), NEW j \in 1 .. Len(keys), i < j
          PROVE  /\ Rank(keys[i]) <= Rank(keys[j])
                 /\ /\ \A P \in Elements(keys) \intersect DOMAIN Index : 2 * Index[P] < Word
                    /\ keys[j] \in DOMAIN Index
                    => Index[keys[i]] <= Index[keys[j]]
      <4>1. InPlace(Elements(keys), Entries(heap[o].map), keys[i], keys[j])
        BY <3>1, <3>2, <3>4 DEF KeysOf
      <4>2. Rank(keys[i]) \in 1 .. 3 /\ Rank(keys[j]) \in 1 .. 3
        BY DEF Rank
      <4>3. Rank(keys[i]) <= Rank(keys[j])
        BY <4>1, <4>2 DEF InPlace
      <4>4. ASSUME keys[j] \in DOMAIN Index PROVE Rank(keys[j]) = 1 /\ Rank(keys[i]) = 1
        BY <4>2, <4>3, <4>4 DEF Rank
      <4> QED
        BY <4>1, <4>3, <4>4 DEF InPlace
    <3> QED
      BY <3>3, <3>4
  <2>4. ForInComplete
    <3> SUFFICES ASSUME NEW o \in Live,
                        NEW names,
                        names = UNION {{P \in Elements(Entries(heap[x].map)) : Enumerable(heap, x, P)} :
                                          x \in Elements(ProtoChain(heap, o))},
                        names \intersect Symbol = {}
                 PROVE  /\ Elements(collect_keys(heap, o, FALSE)) = names
                        /\ Len(collect_keys(heap, o, FALSE)) = Cardinality(names)
      BY DEF ForInComplete
    <3>1. o \in Obj /\ heap[o] # Nil
      BY <2>1
    <3>2. ProtoList(heap, o, ProtoChain(heap, o))
      BY <2>1, <3>1, ChainFacts
    <3>3. ASSUME NEW x \in Elements(ProtoChain(heap, o))
          PROVE  /\ {P \in Elements(Entries(heap[x].map)) : Enumerable(heap, x, P)} = EnumerableNames(heap, x)
                 /\ EnumerableNames(heap, x) \subseteq Name
      <4>1. x \in Obj /\ heap[x] # Nil
        BY <3>2 DEF ProtoList, Elements
      <4>2. Elements(Entries(heap[x].map)) = LiveNames(heap[x].map) /\ LiveNames(heap[x].map) \subseteq Name
        BY <2>2, <4>1
      <4> QED
        BY <4>2 DEF EnumerableNames
    <3>4. names = NamesOf(heap, ProtoChain(heap, o)) /\ names \subseteq Name
      BY <3>3 DEF NamesOf
    <3>5. Listed(names, collect_keys(heap, o, FALSE), names)
      BY <2>1, <3>1, <3>4, CollectIs
    <3>6. IsFiniteSet(names)
      BY <3>4, NameAssumption, FS_Subset
    <3> QED
      BY <3>5, <3>6, ShortList DEF Listed
  <2> QED
    BY <2>3, <2>4
<1> DEFINE Order(h, g, o) ==
               LET old == _ejs_object_specop_own_property_keys(h, o)
                   new == _ejs_object_specop_own_property_keys(g, o)
               IN  \A P, Q \in Name \ DOMAIN Index :
                       Rank(P) = Rank(Q) /\ Before(new, P, Q) /\ Q \in Elements(old) => Before(old, P, Q)
           A == \A o \in Live : Order(heap, heap', o)
<1>2. ASSUME ObjectInv, Next PROVE A
  <2>1. HeapInv(heap) /\ HeapInv(heap') /\ HeapKeeps(heap, heap') /\ HeapOrdered(heap, heap')
    BY <1>2, NextKeeps DEF StepKeeps, ObjectInv, Leaves, Sound
  <2> SUFFICES ASSUME NEW o \in Live PROVE Order(heap, heap', o)
    OBVIOUS
  <2>2. o \in Obj /\ heap[o] # Nil /\ heap'[o] # Nil
    BY <2>1 DEF Live, HeapKeeps
  <2> DEFINE g == heap'
  <2>3. Ordered(heap[o].map, g[o].map) /\ HeapInv(g) /\ g[o] # Nil
    BY <2>1, <2>2 DEF HeapOrdered
  <2> HIDE DEF g
  <2> DEFINE old == _ejs_object_specop_own_property_keys(heap, o)
             new == _ejs_object_specop_own_property_keys(g, o)
             s == Entries(heap[o].map)
             t == Entries(g[o].map)
  <2>4. KeysOf(LiveNames(heap[o].map), s, old) /\ KeysOf(LiveNames(g[o].map), t, new)
    BY <2>1, <2>2, <2>3, KeysAre
  <2>5. Distinct(s)
    <3>1. MapInv(heap[o].map)
      BY <2>1, <2>2, ObjFacts
    <3> QED
      BY <3>1, MapReads DEF MapInv, InOrder, Lists
  <2> HIDE DEF old, new, s, t
  <2>6. ASSUME NEW P \in Name \ DOMAIN Index, NEW Q \in Name \ DOMAIN Index,
               Rank(P) = Rank(Q), Before(new, P, Q), Q \in Elements(old)
        PROVE  Before(old, P, Q)
    <3>1. Rank(P) \in {2, 3}
      BY DEF Rank
    <3>2. PICK i, j \in 1 .. Len(new) : i < j /\ new[i] = P /\ new[j] = Q
      BY <2>6 DEF Before
    <3>3. Before(t, P, Q)
      BY <2>4, <2>6, <3>1, <3>2 DEF KeysOf, InPlace
    <3>4. heap[o].map.desc[Q] # Nil
      BY <2>4, <2>6 DEF KeysOf, LiveNames
    <3>5. Before(s, P, Q)
      BY <2>3, <3>3, <3>4 DEF Ordered, s, t
    <3>6. P \in Elements(old)
      <4>1. P \in Elements(s) /\ Elements(s) = LiveNames(heap[o].map)
        <5>1. MapInv(heap[o].map)
          BY <2>1, <2>2, ObjFacts
        <5> QED
          BY <3>5, <5>1, MapReads DEF Before, Elements, s
      <4> QED
        BY <2>4, <4>1 DEF KeysOf
    <3>7. PICK k \in 1 .. Len(old) : old[k] = P
      BY <3>6 DEF Elements
    <3>8. PICK l \in 1 .. Len(old) : old[l] = Q
      BY <2>6 DEF Elements
    <3>9. CASE k < l
      BY <3>7, <3>8, <3>9 DEF Before
    <3>10. CASE l < k
      <4>1. Before(s, Q, P)
        BY <2>4, <2>6, <3>1, <3>7, <3>8, <3>10 DEF KeysOf, InPlace
      <4>2. PICK a, b \in 1 .. Len(s) : a < b /\ s[a] = P /\ s[b] = Q
        BY <3>5 DEF Before
      <4>3. PICK c, d \in 1 .. Len(s) : c < d /\ s[c] = Q /\ s[d] = P
        BY <4>1 DEF Before
      <4>4. c = b /\ d = a
        BY <2>5, <4>2, <4>3 DEF Distinct
      <4> QED
        BY <4>2, <4>3, <4>4
    <3>11. CASE k = l
      <4>1. P = Q
        BY <3>7, <3>8, <3>11
      <4>2. PICK a, b \in 1 .. Len(s) : a < b /\ s[a] = P /\ s[b] = Q
        BY <3>5 DEF Before
      <4>3. a = b
        BY <2>5, <4>1, <4>2 DEF Distinct
      <4> QED
        BY <4>2, <4>3
    <3> QED
      BY <3>9, <3>10, <3>11
  <2> QED
    BY <2>6 DEF old, new, g
<1>3. ObjectInv /\ [Next]_vars => [A]_vars
  BY <1>2
<1>4. Spec => [][A]_vars
  BY <1>3, ObjectsInvariant, PTL DEF Spec
<1>5. [A]_vars <=> [\A o \in Live :
          LET old == _ejs_object_specop_own_property_keys(heap, o)
              new == _ejs_object_specop_own_property_keys(heap', o)
          IN  \A P, Q \in Name \ DOMAIN Index :
                  Rank(P) = Rank(Q) /\ Before(new, P, Q) /\ Q \in Elements(old) => Before(old, P, Q)]_vars
  OBVIOUS
<1> QED
  BY <1>1, <1>4, <1>5, ObjectsInvariant, PTL DEF KeysExact, OrderKept
==============================================================================
