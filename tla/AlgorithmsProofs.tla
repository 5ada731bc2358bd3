--------------------------- MODULE AlgorithmsProofs ---------------------------
(***************************************************************************)
(* What the stateless parts of the program compute, for problems of any    *)
(* size: the pages of results and of jobs, the rows that an ingest reads,  *)
(* the candidates of the blocking index and the isotonic fit.              *)
(*                                                                         *)
(* The code's loops and sorts are recursive functions and a CHOOSE here.   *)
(* That those exist at all is proved first: Rounds for a loop,             *)
(* SumRecursion for a sum and InOrderLists for a sort.                     *)
(***************************************************************************)
EXTENDS Algorithms, TLAPS, FiniteSetTheorems, FunctionTheorems, SequenceTheorems

----------------------------------------------------------------------------
(* Numbers, and what can be counted. *)

\* A set of numbers that is not empty has a least one.
LEMMA LeastNat ==
  ASSUME NEW T, T \subseteq Nat, T # {}
  PROVE  \E x \in T : \A y \in T : x <= y
<1>1. IsWellFoundedOn(OpToRel(<, Nat), Nat)
  BY NatLessThanWellFounded
<1> DEFINE R == OpToRel(<, Nat)
<1>2. \E x \in T : \A y \in T : ~ (<<y, x>> \in R)
  <2> HIDE DEF R
  <2>1. IsWellFoundedOn(R, Nat)
    BY <1>1 DEF R
  <2> QED BY <2>1, WFMin, Zenon
<1>3. \A x, y \in Nat : <<y, x>> \in R <=> y < x
  BY DEF OpToRel
<1> HIDE DEF R
<1>4. PICK x \in T : \A y \in T : ~ (<<y, x>> \in R)
  BY <1>2
<1>5. \A y \in T : ~ (y < x)
  BY <1>3, <1>4
<1> QED BY <1>5

\* Induction over the natural numbers, on the set of those that have a property.
LEMMA NatInd ==
  ASSUME NEW S, 0 \in S, \A m \in Nat : m \in S => m + 1 \in S
  PROVE  Nat \subseteq S
<1> SUFFICES ASSUME Nat \ S # {} PROVE FALSE
  OBVIOUS
<1>1. PICK x \in Nat \ S : \A y \in Nat \ S : x <= y
  BY LeastNat
<1>2. x - 1 \in Nat /\ x - 1 \in S
  BY <1>1
<1> QED BY <1>1, <1>2

\* A list of n elements has n places.
LEMMA Places ==
  ASSUME NEW n \in Nat
  PROVE  IsFiniteSet(1 .. n) /\ Cardinality(1 .. n) = n
<1>1. /\ IsFiniteSet(1 .. n)
      /\ Cardinality(1 .. n) = IF 1 > n THEN 0 ELSE n - 1 + 1
  BY FS_Interval
<1> QED BY <1>1

\* Of two elements of S that differ one comes first, and none comes before itself.
OrdersAll(S, R) ==
  /\ \A x \in S : <<x, x>> \notin R
  /\ \A x, y \in S : x # y => <<x, y>> \in R \/ <<y, x>> \in R
  /\ \A x, y, z \in S : <<x, y>> \in R /\ <<y, z>> \in R => <<x, z>> \in R

\* t lists the elements of S once each, in the order of R.
Lists(t, S, R) ==
  /\ t \in [1 .. Cardinality(S) -> S]
  /\ \A i, j \in 1 .. Cardinality(S) : t[i] = t[j] => i = j
  /\ \A x \in S : \E i \in 1 .. Cardinality(S) : t[i] = x
  /\ \A i, j \in 1 .. Cardinality(S) : i < j => <<t[i], t[j]>> \in R

\* A sort puts the elements into their order, all of them and no other.
LEMMA InOrderLists ==
  ASSUME NEW S, IsFiniteSet(S), NEW R, OrdersAll(S, R)
  PROVE  Lists(InOrder(S, R), S, R)
<1> DEFINE below(x) == {y \in S : <<y, x>> \in R}
           rank == [x \in S |-> Cardinality(below(x))]
           c == Cardinality(S)
           t == InOrder(S, R)
<1>1. c \in Nat
  BY FS_CardinalityType
<1>2. ASSUME NEW x \in S
      PROVE  /\ IsFiniteSet(below(x)) /\ rank[x] = Cardinality(below(x))
             /\ rank[x] \in Nat /\ rank[x] <= c - 1
  <2>1. below(x) \subseteq S \ {x}
    BY DEF OrdersAll
  <2>2. IsFiniteSet(S \ {x}) /\ Cardinality(S \ {x}) = c - 1
    BY FS_RemoveElement
  <2>3. IsFiniteSet(below(x)) /\ Cardinality(below(x)) <= c - 1
    <3> HIDE DEF below, c
    <3> QED BY <2>1, <2>2, FS_Subset
  <2>4. Cardinality(below(x)) \in Nat
    BY <2>3, FS_CardinalityType
  <2>5. rank[x] = Cardinality(below(x))
    OBVIOUS
  <2> HIDE DEF rank, below
  <2> QED BY <2>3, <2>4, <2>5
<1>3. ASSUME NEW x \in S, NEW y \in S, <<x, y>> \in R
      PROVE  rank[x] < rank[y]
  <2>1. below(x) \subseteq below(y) \ {x} /\ x \in below(y)
    BY <1>3 DEF OrdersAll
  <2> HIDE DEF below, rank
  <2>2. IsFiniteSet(below(y) \ {x}) /\ Cardinality(below(y) \ {x}) = rank[y] - 1
    BY <1>2, <2>1, FS_RemoveElement
  <2>3. rank[x] <= rank[y] - 1
    BY <1>2, <2>1, <2>2, FS_Subset
  <2>4. rank[x] \in Nat /\ rank[y] \in Nat
    BY <1>2
  <2> QED BY <2>3, <2>4
<1> HIDE DEF rank
<1>4. ASSUME NEW x \in S, NEW y \in S, rank[x] = rank[y]
      PROVE  x = y
  <2>1. rank[x] \in Nat /\ rank[y] \in Nat
    BY <1>2
  <2>2. ~(rank[x] < rank[y]) /\ ~(rank[y] < rank[x])
    BY <1>4, <2>1
  <2> QED BY <1>3, <2>2 DEF OrdersAll
<1>5. ASSUME NEW n \in 1 .. c
      PROVE  \E x \in S : rank[x] = n - 1
  <2> DEFINE f == [x \in S |-> rank[x] + 1]
  <2>1. \A x \in S : rank[x] + 1 \in 1 .. c
    <3> SUFFICES ASSUME NEW x \in S PROVE rank[x] + 1 \in 1 .. c
      OBVIOUS
    <3>1. rank[x] \in Nat /\ rank[x] <= c - 1
      BY <1>2
    <3> HIDE DEF c
    <3> QED BY <1>1, <3>1
  <2>2. f \in Injection(S, 1 .. c)
    <3>1. f \in [S -> 1 .. c]
      BY <2>1
    <3>2. \A x, y \in S : f[x] = f[y] => x = y
      <4> SUFFICES ASSUME NEW x \in S, NEW y \in S, f[x] = f[y] PROVE x = y
        OBVIOUS
      <4>1. rank[x] + 1 = rank[y] + 1 /\ rank[x] \in Nat /\ rank[y] \in Nat
        BY <1>2
      <4>2. rank[x] = rank[y]
        BY <4>1
      <4> QED BY <1>4, <4>2
    <3> QED BY <3>1, <3>2 DEF Injection, IsInjective
  <2>3. IsFiniteSet(1 .. c) /\ Cardinality(1 .. c) = c
    BY <1>1, Places
  <2>4. f \in Surjection(S, 1 .. c)
    <3> HIDE DEF f
    <3> QED BY <2>2, <2>3, FS_Injection
  <2>5. PICK x \in S : f[x] = n
    BY <2>4 DEF Surjection
  <2>6. rank[x] + 1 = n /\ rank[x] \in Nat
    BY <1>2, <2>5
  <2> HIDE DEF c
  <2> QED BY <1>1, <2>6
<1>6. ASSUME NEW n \in 1 .. c
      PROVE  t[n] \in S /\ rank[t[n]] = n - 1
  <2>1. t[n] = CHOOSE x \in S : Cardinality(below(x)) = n - 1
    BY DEF InOrder
  <2>2. \E x \in S : Cardinality(below(x)) = n - 1
    BY <1>2, <1>5
  <2> HIDE DEF below, t
  <2>3. t[n] \in S /\ Cardinality(below(t[n])) = n - 1
    BY <2>1, <2>2
  <2> QED BY <1>2, <2>3
<1>7. t \in [1 .. c -> S]
  <2>1. ASSUME NEW n \in 1 .. c
        PROVE  (CHOOSE x \in S : Cardinality(below(x)) = n - 1) \in S
    <3>1. t[n] = CHOOSE x \in S : Cardinality(below(x)) = n - 1
      BY DEF InOrder
    <3>2. t[n] \in S
      BY <1>6
    <3> HIDE DEF t
    <3> QED BY <3>1, <3>2, Zenon
  <2>2. t = [n \in 1 .. c |-> CHOOSE x \in S : Cardinality(below(x)) = n - 1]
    BY Zenon DEF InOrder
  <2> HIDE DEF t, c
  <2> QED BY <2>1, <2>2, Zenon
<1> HIDE DEF t, c
<1>8. \A x \in S : \E i \in 1 .. c : t[i] = x
  <2> SUFFICES ASSUME NEW x \in S PROVE \E i \in 1 .. c : t[i] = x
    OBVIOUS
  <2>1. rank[x] \in Nat /\ rank[x] <= c - 1
    BY <1>2
  <2>2. rank[x] + 1 \in 1 .. c /\ (rank[x] + 1) - 1 = rank[x]
    BY <1>1, <2>1
  <2>3. t[rank[x] + 1] = x
    BY <1>4, <1>6, <2>2
  <2> QED BY <2>2, <2>3
<1>9. \A i, j \in 1 .. c : i < j => <<t[i], t[j]>> \in R
  <2> SUFFICES ASSUME NEW i \in 1 .. c, NEW j \in 1 .. c, i < j
               PROVE  <<t[i], t[j]>> \in R
    OBVIOUS
  <2>1. t[i] \in S /\ t[j] \in S /\ rank[t[i]] = i - 1 /\ rank[t[j]] = j - 1
    BY <1>6
  <2>2. rank[t[i]] < rank[t[j]]
    BY <1>1, <2>1
  <2>3. t[i] # t[j] /\ ~(<<t[j], t[i]>> \in R)
    <3>1. ASSUME <<t[j], t[i]>> \in R PROVE FALSE
      <4>1. rank[t[j]] < rank[t[i]]
        BY <1>3, <2>1, <3>1
      <4> QED BY <1>1, <2>1, <4>1
    <3> QED BY <1>1, <2>1, <2>2, <3>1
  <2> QED BY <2>1, <2>3 DEF OrdersAll
<1>10. \A i, j \in 1 .. c : t[i] = t[j] => i = j
  <2> SUFFICES ASSUME NEW i \in 1 .. c, NEW j \in 1 .. c, t[i] = t[j]
               PROVE  i = j
    OBVIOUS
  <2>1. i - 1 = j - 1
    BY <1>6
  <2> QED BY <1>1, <2>1
<1> QED BY <1>7, <1>8, <1>9, <1>10 DEF Lists, t, c

\* There is one way only to list them.
LEMMA ListsUnique ==
  ASSUME NEW S, NEW R, IsFiniteSet(S), OrdersAll(S, R),
         NEW t, NEW u, Lists(t, S, R), Lists(u, S, R)
  PROVE  t = u
<1> DEFINE c == Cardinality(S)
<1>1. c \in Nat
  BY FS_CardinalityType
<1>2. t = [k \in 1 .. c |-> t[k]] /\ u = [k \in 1 .. c |-> u[k]]
  BY DEF Lists
<1> HIDE DEF c
<1> SUFFICES ASSUME t # u PROVE FALSE
  OBVIOUS
<1> DEFINE D == {k \in 1 .. c : t[k] # u[k]}
<1>3. D # {} /\ D \subseteq Nat
  BY <1>1, <1>2
<1>4. PICK i \in D : \A j \in D : i <= j
  <2> HIDE DEF D
  <2> QED BY <1>3, LeastNat
<1>5. i \in 1 .. c /\ t[i] # u[i] /\ \A j \in 1 .. c : j < i => t[j] = u[j]
  BY <1>1, <1>4
<1> HIDE DEF D
<1>6. t[i] \in S /\ u[i] \in S
  BY <1>5 DEF Lists, c
<1>7. <<t[i], u[i]>> \in R
  <2>1. PICK j \in 1 .. c : t[j] = u[i]
    BY <1>6 DEF Lists, c
  <2>2. ~(j < i) /\ j # i
    <3>1. j # i
      BY <1>5, <2>1
    <3>2. j < i => u[j] = u[i]
      BY <1>5, <2>1
    <3>3. u[j] = u[i] => j = i
      BY <1>5 DEF Lists, c
    <3> QED BY <3>1, <3>2, <3>3
  <2>3. i < j
    BY <1>1, <1>5, <2>2
  <2> QED BY <1>5, <2>1, <2>3 DEF Lists, c
<1>8. <<u[i], t[i]>> \in R
  <2>1. PICK j \in 1 .. c : u[j] = t[i]
    BY <1>6 DEF Lists, c
  <2>2. ~(j < i) /\ j # i
    <3>1. j # i
      BY <1>5, <2>1
    <3>2. j < i => t[j] = t[i]
      BY <1>5, <2>1
    <3>3. t[j] = t[i] => j = i
      BY <1>5 DEF Lists, c
    <3> QED BY <3>1, <3>2, <3>3
  <2>3. i < j
    BY <1>1, <1>5, <2>2
  <2> QED BY <1>5, <2>1, <2>3 DEF Lists, c
<1> QED BY <1>6, <1>7, <1>8 DEF OrdersAll

\* A sum is made of one summand and the sum of the others.
LEMMA SumRecursion ==
  ASSUME NEW f, NEW S, IsFiniteSet(S), \A x \in S : f[x] \in Nat
  PROVE  \E sum : /\ sum \in [SUBSET S -> Nat]
                  /\ sum[{}] = 0
                  /\ \A s \in SUBSET S : s # {} => \E x \in s : sum[s] = f[x] + sum[s \ {x}]
                  /\ SumFunctionOnSet(f, S) = sum[S]
<1> DEFINE one(s) == CHOOSE x \in s : TRUE
           Sums(h) == h = [s \in SUBSET S |-> IF s = {} THEN 0
                                              ELSE f[one(s)] + h[s \ {one(s)}]]
           sum == CHOOSE h : Sums(h)
           small(m) == {s \in SUBSET S : Cardinality(s) <= m}
<1>1. SumFunctionOnSet(f, S) = sum[S]
  BY Zenon DEF SumFunctionOnSet, FoldFunctionOnSet, MapThenFoldSet
<1>2. ASSUME NEW s \in SUBSET S
      PROVE  /\ IsFiniteSet(s) /\ Cardinality(s) \in Nat /\ Cardinality(s) <= Cardinality(S)
             /\ Cardinality(s) = 0 <=> s = {}
             /\ s # {} => one(s) \in s /\ Cardinality(s \ {one(s)}) = Cardinality(s) - 1
                          /\ s \ {one(s)} \in SUBSET S
  <2>1. IsFiniteSet(s) /\ Cardinality(s) <= Cardinality(S)
    BY FS_Subset
  <2>2. Cardinality(s) \in Nat /\ (Cardinality(s) = 0 <=> s = {})
    BY <2>1, FS_CardinalityType, FS_EmptySet
  <2>3. s # {} => one(s) \in s
    OBVIOUS
  <2> HIDE DEF one
  <2>4. s # {} => Cardinality(s \ {one(s)}) = Cardinality(s) - 1
    BY <2>1, <2>3, FS_RemoveElement
  <2> QED BY <2>1, <2>2, <2>3, <2>4
<1> HIDE DEF one
<1> DEFINE OnSmall(m) == \E h \in [small(m) -> Nat] :
             \A s \in small(m) : h[s] = IF s = {} THEN 0 ELSE f[one(s)] + h[s \ {one(s)}]
           M == {m \in Nat : OnSmall(m)}
<1>3. 0 \in M
  <2> DEFINE h == [s \in small(0) |-> 0]
  <2>1. ASSUME NEW s \in small(0) PROVE s = {}
    <3>1. s \in SUBSET S /\ Cardinality(s) <= 0
      OBVIOUS
    <3>2. Cardinality(s) \in Nat /\ (Cardinality(s) = 0 <=> s = {})
      BY <1>2, <3>1
    <3> QED BY <3>1, <3>2
  <2>2. h \in [small(0) -> Nat] /\ \A s \in small(0) : h[s] = 0
    OBVIOUS
  <2>3. OnSmall(0)
    <3> HIDE DEF h
    <3> QED BY <2>1, <2>2
  <2> QED BY <2>3
<1>4. ASSUME NEW m \in Nat, m \in M
      PROVE  m + 1 \in M
  <2>1. PICK g \in [small(m) -> Nat] :
          \A s \in small(m) : g[s] = IF s = {} THEN 0 ELSE f[one(s)] + g[s \ {one(s)}]
    BY <1>4
  <2> DEFINE h == [s \in small(m + 1) |->
                     IF s \in small(m) THEN g[s] ELSE f[one(s)] + g[s \ {one(s)}]]
  <2>2. ASSUME NEW s \in small(m + 1), s # {}
        PROVE  s \ {one(s)} \in small(m) /\ one(s) \in S /\ f[one(s)] \in Nat
    <3>1. s \in SUBSET S /\ Cardinality(s) <= m + 1
      OBVIOUS
    <3>2. Cardinality(s \ {one(s)}) = Cardinality(s) - 1 /\ s \ {one(s)} \in SUBSET S
          /\ one(s) \in s /\ Cardinality(s) \in Nat
      BY <1>2, <2>2, <3>1
    <3>3. Cardinality(s \ {one(s)}) <= m
      BY <3>1, <3>2
    <3> QED BY <3>1, <3>2, <3>3
  <2>3. ASSUME NEW s \in small(m) PROVE s \in small(m + 1)
    <3>1. s \in SUBSET S /\ Cardinality(s) <= m
      OBVIOUS
    <3>2. Cardinality(s) \in Nat
      BY <1>2, <3>1
    <3> QED BY <3>1, <3>2
  <2>4. ASSUME NEW s \in small(m + 1), s = {} PROVE s \in small(m)
    <3>1. s \in SUBSET S
      OBVIOUS
    <3>2. Cardinality(s) = 0
      BY <1>2, <2>4, <3>1
    <3> QED BY <3>1, <3>2
  <2> HIDE DEF small
  <2>5. ASSUME NEW s \in small(m + 1)
        PROVE  /\ h[s] \in Nat
               /\ h[s] = IF s = {} THEN 0 ELSE f[one(s)] + h[s \ {one(s)}]
    <3>1. CASE s \in small(m)
      <4>1. h[s] = g[s] /\ g[s] \in Nat
        BY <3>1
      <4>2. s # {} => h[s \ {one(s)}] = g[s \ {one(s)}]
        BY <2>2, <2>3
      <4> HIDE DEF h
      <4> QED BY <2>1, <3>1, <4>1, <4>2
    <3>2. CASE s \notin small(m)
      <4>1. s # {} /\ s \ {one(s)} \in small(m) /\ f[one(s)] \in Nat
        BY <2>2, <2>4, <3>2
      <4>2. h[s] = f[one(s)] + g[s \ {one(s)}] /\ g[s \ {one(s)}] \in Nat
        BY <3>2, <4>1
      <4>3. h[s \ {one(s)}] = g[s \ {one(s)}]
        BY <2>3, <4>1
      <4> HIDE DEF h
      <4> QED BY <4>1, <4>2, <4>3
    <3> QED BY <3>1, <3>2
  <2>6. h \in [small(m + 1) -> Nat]
    BY <2>5
  <2> HIDE DEF h
  <2>7. OnSmall(m + 1)
    BY <2>5, <2>6
  <2> QED BY <2>7
<1>5. Cardinality(S) \in Nat
  BY FS_CardinalityType
<1>6. \E h : Sums(h)
  <2>1. OnSmall(Cardinality(S))
    <3> HIDE DEF M
    <3>1. Nat \subseteq M
      BY <1>3, <1>4, NatInd
    <3> QED BY <1>5, <3>1 DEF M
  <2>2. small(Cardinality(S)) = SUBSET S
    BY <1>2
  <2>3. PICK h \in [SUBSET S -> Nat] :
          \A s \in SUBSET S : h[s] = IF s = {} THEN 0 ELSE f[one(s)] + h[s \ {one(s)}]
    <3> HIDE DEF small
    <3> QED BY <2>1, <2>2
  <2>4. h = [s \in SUBSET S |-> h[s]]
    OBVIOUS
  <2>5. Sums(h)
    BY <2>3, <2>4
  <2> QED BY <2>5
<1>7. Sums(sum)
  <2> HIDE DEF Sums
  <2> QED BY <1>6
<1> HIDE DEF sum
<1>8. ASSUME NEW s \in SUBSET S
      PROVE  sum[s] = IF s = {} THEN 0 ELSE f[one(s)] + sum[s \ {one(s)}]
  BY <1>7
<1>9. sum \in [SUBSET S -> Nat]
  <2> DEFINE N == {m \in Nat : \A s \in small(m) : sum[s] \in Nat}
  <2>1. 0 \in N
    <3>1. ASSUME NEW s \in small(0)
          PROVE  sum[s] \in Nat
      <4>1. s \in SUBSET S /\ Cardinality(s) <= 0
        OBVIOUS
      <4>2. Cardinality(s) \in Nat /\ (Cardinality(s) = 0 <=> s = {})
        BY <1>2, <4>1
      <4>3. s = {}
        BY <4>1, <4>2
      <4>4. sum[s] = 0
        BY <1>8, <4>1, <4>3
      <4> QED BY <4>4
    <3> QED BY <3>1
  <2>2. ASSUME NEW m \in Nat, m \in N
        PROVE  m + 1 \in N
    <3>1. ASSUME NEW s \in small(m + 1)
          PROVE  sum[s] \in Nat
      <4>1. CASE s = {}
        <5>1. s \in SUBSET S
          OBVIOUS
        <5>2. sum[s] = 0
          BY <1>8, <4>1, <5>1
        <5> QED BY <5>2
      <4>2. CASE s # {}
        <5>1. s \in SUBSET S /\ Cardinality(s) <= m + 1
          OBVIOUS
        <5>2. Cardinality(s \ {one(s)}) = Cardinality(s) - 1 /\ s \ {one(s)} \in SUBSET S
              /\ one(s) \in s /\ Cardinality(s) \in Nat
          BY <1>2, <4>2, <5>1
        <5>3. s \ {one(s)} \in small(m)
          BY <5>1, <5>2
        <5>4. sum[s \ {one(s)}] \in Nat /\ f[one(s)] \in Nat
          BY <2>2, <5>1, <5>2, <5>3
        <5> QED BY <1>8, <4>2, <5>1, <5>4
      <4> QED BY <4>1, <4>2
    <3> QED BY <3>1
  <2>3. Nat \subseteq N
    <3> HIDE DEF N
    <3> QED BY <2>1, <2>2, NatInd
  <2>4. \A s \in SUBSET S : sum[s] \in Nat
    BY <1>2, <1>5, <2>3
  <2>5. sum = [s \in SUBSET S |-> sum[s]]
    <3>1. sum = [s \in SUBSET S |-> IF s = {} THEN 0 ELSE f[one(s)] + sum[s \ {one(s)}]]
      BY <1>7
    <3> QED BY <1>8, <3>1
  <2> QED BY <2>4, <2>5
<1>10. \A s \in SUBSET S : s # {} => \E x \in s : sum[s] = f[x] + sum[s \ {x}]
  BY <1>2, <1>8
<1>11. sum[{}] = 0
  BY <1>8
<1> QED BY <1>1, <1>9, <1>10, <1>11

\* A sum of numbers is a number, no smaller than any of them.
LEMMA SumBound ==
  ASSUME NEW f, IsFiniteSet(DOMAIN f), \A x \in DOMAIN f : f[x] \in Nat
  PROVE  /\ SumFunction(f) \in Nat
         /\ \A x \in DOMAIN f : f[x] <= SumFunction(f)
<1> DEFINE S == DOMAIN f
<1>1. PICK sum : /\ sum \in [SUBSET S -> Nat]
                 /\ sum[{}] = 0
                 /\ \A s \in SUBSET S : s # {} => \E x \in s : sum[s] = f[x] + sum[s \ {x}]
                 /\ SumFunctionOnSet(f, S) = sum[S]
  <2>1. IsFiniteSet(S) /\ \A x \in S : f[x] \in Nat
    OBVIOUS
  <2> HIDE DEF S
  <2> QED BY <2>1, SumRecursion
<1>2. SumFunction(f) = sum[S]
  BY <1>1 DEF SumFunction
<1> HIDE DEF S
<1> DEFINE M == {m \in Nat : \A s \in SUBSET S : Cardinality(s) = m => \A x \in s : f[x] <= sum[s]}
<1>3. 0 \in M
  <2> SUFFICES ASSUME NEW s \in SUBSET S, Cardinality(s) = 0 PROVE s = {}
    OBVIOUS
  <2>1. IsFiniteSet(s)
    BY FS_Subset DEF S
  <2> QED BY <2>1, FS_EmptySet
<1>4. ASSUME NEW m \in Nat, m \in M
      PROVE  m + 1 \in M
  <2> SUFFICES ASSUME NEW s \in SUBSET S, Cardinality(s) = m + 1, NEW x \in s
               PROVE  f[x] <= sum[s]
    OBVIOUS
  <2>1. PICK y \in s : sum[s] = f[y] + sum[s \ {y}]
    BY <1>1
  <2>2. sum[s \ {y}] \in Nat /\ f[y] \in Nat /\ f[x] \in Nat
    BY <1>1 DEF S
  <2>3. Cardinality(s \ {y}) = m
    <3>1. IsFiniteSet(s)
      BY FS_Subset DEF S
    <3>2. Cardinality(s \ {y}) = Cardinality(s) - 1
      BY <3>1, FS_RemoveElement
    <3> QED BY <3>2
  <2>4. x # y => f[x] <= sum[s \ {y}]
    BY <1>4, <2>3
  <2> QED BY <2>1, <2>2, <2>4
<1>5. Cardinality(S) \in Nat /\ Nat \subseteq M
  <2>1. Cardinality(S) \in Nat
    BY FS_CardinalityType DEF S
  <2> HIDE DEF M
  <2> QED BY <1>3, <1>4, <2>1, NatInd
<1> QED BY <1>1, <1>2, <1>5 DEF S

\* A loop: one state for each round, every one made out of the state before it.
RunsThrough(f, N, X, first, step) ==
  /\ f \in [0 .. N -> X]
  /\ f[0] = first
  /\ \A n \in 1 .. N : f[n] = step[<<n, f[n - 1]>>]

\* Any number of rounds can be gone through.
LEMMA Rounds ==
  ASSUME NEW N \in Nat, NEW X, NEW first \in X, NEW step \in [(1 .. N) \X X -> X]
  PROVE  \E f : RunsThrough(f, N, X, first, step)
<1> DEFINE Runs(m) == \E f \in [0 .. m -> X] : /\ f[0] = first
                                               /\ \A n \in 1 .. m : f[n] = step[<<n, f[n - 1]>>]
           M == {m \in Nat : m <= N => Runs(m)}
<1>1. 0 \in M
  <2> DEFINE f == [n \in 0 .. 0 |-> first]
  <2>1. f \in [0 .. 0 -> X] /\ f[0] = first /\ 1 .. 0 = {}
    OBVIOUS
  <2> HIDE DEF f
  <2>2. Runs(0)
    BY <2>1
  <2> QED BY <2>2
<1>2. ASSUME NEW m \in Nat, m \in M
      PROVE  m + 1 \in M
  <2> SUFFICES ASSUME m + 1 <= N PROVE Runs(m + 1)
    OBVIOUS
  <2>1. m <= N
    OBVIOUS
  <2>2. PICK g \in [0 .. m -> X] : /\ g[0] = first
                                   /\ \A n \in 1 .. m : g[n] = step[<<n, g[n - 1]>>]
    BY <1>2, <2>1
  <2> DEFINE f == [n \in 0 .. m + 1 |-> IF n <= m THEN g[n] ELSE step[<<m + 1, g[m]>>]]
  <2>3. step[<<m + 1, g[m]>>] \in X
    <3>1. <<m + 1, g[m]>> \in (1 .. N) \X X
      OBVIOUS
    <3> QED BY <3>1
  <2>4. ASSUME NEW n \in 0 .. m + 1 PROVE f[n] \in X
    BY <2>3
  <2>5. f \in [0 .. m + 1 -> X]
    BY <2>4
  <2>6. f[0] = first
    BY <2>2
  <2>7. ASSUME NEW n \in 1 .. m + 1 PROVE f[n] = step[<<n, f[n - 1]>>]
    <3>1. f[n - 1] = g[n - 1]
      OBVIOUS
    <3>2. CASE n <= m
      BY <2>2, <3>1, <3>2
    <3>3. CASE ~(n <= m)
      <4>1. n = m + 1 /\ n - 1 = m
        BY <3>3
      <4>2. f[n] = step[<<m + 1, g[m]>>]
        BY <3>3
      <4> HIDE DEF f
      <4> QED BY <3>1, <4>1, <4>2
    <3> QED BY <3>2, <3>3
  <2> HIDE DEF f
  <2> QED BY <2>5, <2>6, <2>7
<1>3. Nat \subseteq M
  <2> HIDE DEF M
  <2> QED BY <1>1, <1>2, NatInd
<1>4. Runs(N)
  BY <1>3
<1> QED BY <1>4 DEF RunsThrough

----------------------------------------------------------------------------
(* The blocking index. *)

\* Names that are cut into keys of the set Keys.
NamesOver(Keys) ==
  [tokens : Seq(Keys), trigrams : Seq(Keys), romanized : Seq(Keys),
   phonetic : Keys, prefix : Keys]

CandidateProblemsOver(Keys) ==
  [src : NamesOver(Keys), dests : Seq(NamesOver(Keys)), k : Nat \ {0}]

\* What is picked of a sequence.
LEMMA PickedLists ==
  ASSUME NEW seq, NEW at, at \subseteq DOMAIN seq, at \subseteq Nat, IsFiniteSet(at)
  PROVE  \E places : /\ Lists(places, at, Rising(at))
                     /\ Picked(seq, at) = [n \in 1 .. Cardinality(at) |-> seq[places[n]]]
                     /\ Cardinality(at) \in Nat
<1>1. OrdersAll(at, Rising(at))
  <2>1. \A x, y \in at : <<x, y>> \in Rising(at) <=> x < y
    BY DEF Rising
  <2> QED BY <2>1 DEF OrdersAll
<1> DEFINE places == InOrder(at, Rising(at))
<1>2. Lists(places, at, Rising(at))
  <2> HIDE DEF places
  <2> QED BY <1>1, InOrderLists DEF places
<1>3. DOMAIN places = 1 .. Cardinality(at)
  BY <1>2 DEF Lists
<1>4. Picked(seq, at) = [n \in 1 .. Cardinality(at) |-> seq[places[n]]]
  BY <1>3 DEF Picked
<1>5. Cardinality(at) \in Nat
  BY FS_CardinalityType
<1> QED BY <1>2, <1>4, <1>5

\* A name has finitely many keys of each kind.
LEMMA KeysAreFinite ==
  ASSUME NEW Keys, NEW name \in NamesOver(Keys), NEW field \in Fields
  PROVE  IsFiniteSet(DOMAIN KeysOf(field, name))
<1>1. ASSUME NEW s \in Seq(Keys)
      PROVE  IsFiniteSet(DOMAIN s) /\ DOMAIN s \subseteq Nat
  <2>1. DOMAIN s = 1 .. Len(s) /\ Len(s) \in Nat
    OBVIOUS
  <2> QED BY <2>1, Places
<1>2. /\ name.tokens \in Seq(Keys) /\ name.trigrams \in Seq(Keys)
      /\ name.romanized \in Seq(Keys)
  BY DEF NamesOver
<1>3. CASE field = "token"
  <2> DEFINE at == {i \in DOMAIN name.tokens : name.tokens[i] \notin ShortTokens}
  <2>1. at \subseteq DOMAIN name.tokens
    OBVIOUS
  <2>2. IsFiniteSet(at) /\ at \subseteq Nat
    <3> HIDE DEF at
    <3> QED BY <1>1, <1>2, <2>1, FS_Subset
  <2>3. KeysOf(field, name) = Picked(name.tokens, at)
    BY <1>3 DEF KeysOf
  <2> HIDE DEF at
  <2>4. DOMAIN Picked(name.tokens, at) = 1 .. Cardinality(at) /\ Cardinality(at) \in Nat
    BY <2>1, <2>2, PickedLists
  <2> QED BY <2>3, <2>4, Places
<1>4. CASE field = "phonetic"
  <2> DEFINE keys == IF name.phonetic = NoKey THEN << >> ELSE <<name.phonetic>>
  <2>1. KeysOf(field, name) = keys
    BY <1>4 DEF KeysOf
  <2>2. DOMAIN keys = {} \/ DOMAIN keys = {1}
    OBVIOUS
  <2> HIDE DEF keys
  <2>3. IsFiniteSet({}) /\ IsFiniteSet({1})
    BY FS_EmptySet, FS_Singleton
  <2> QED BY <2>1, <2>2, <2>3
<1>5. CASE field = "trigram"
  BY <1>1, <1>2, <1>5 DEF KeysOf
<1>6. CASE field = "romanized"
  BY <1>1, <1>2, <1>6 DEF KeysOf
<1> QED BY <1>3, <1>4, <1>5, <1>6 DEF Fields

\* How often a key is among the keys.
LEMMA TimesNat ==
  ASSUME NEW key, NEW keys, IsFiniteSet(DOMAIN keys)
  PROVE  Times(key, keys) \in Nat
<1> DEFINE at == {i \in DOMAIN keys : keys[i] = key}
<1>1. IsFiniteSet(at)
  BY FS_Subset
<1>2. Cardinality(at) \in Nat
  BY <1>1, FS_CardinalityType
<1> QED BY <1>2 DEF Times

\* What a key of the source's adds to the hits of a destination.
LEMMA PostedNat ==
  ASSUME NEW Keys, NEW dests \in Seq(NamesOver(Keys)), NEW field \in Fields, NEW key,
         NEW i \in DOMAIN dests
  PROVE  /\ Posted(dests, field, key, i) \in Nat
         /\ Weight(field) \in Nat \ {0}
         /\ Times(key, KeysOf(field, dests[i])) > 0 /\ ~Skipped(dests, field, key)
              => Weight(field) * Posted(dests, field, key, i) > 0
<1>1. dests[i] \in NamesOver(Keys)
  OBVIOUS
<1>2. Times(key, KeysOf(field, dests[i])) \in Nat
  BY <1>1, KeysAreFinite, TimesNat
<1>3. Posted(dests, field, key, i) \in Nat
  BY <1>2 DEF Posted
<1>4. Weight(field) \in {1, 3, 4}
  BY DEF Weight
<1>5. ASSUME Times(key, KeysOf(field, dests[i])) > 0, ~Skipped(dests, field, key)
      PROVE  Weight(field) * Posted(dests, field, key, i) > 0
  <2>1. Posted(dests, field, key, i) > 0
    BY <1>5 DEF Posted
  <2> DEFINE p == Posted(dests, field, key, i)
  <2> HIDE DEF p
  <2>2. p \in Nat /\ p > 0
    BY <1>3, <2>1 DEF p
  <2>3. Weight(field) * p > 0
    <3>1. 1 * p > 0 /\ 3 * p > 0 /\ 4 * p > 0
      BY <2>2
    <3> QED BY <1>4, <3>1
  <2> QED BY <2>3 DEF p
<1>6. Weight(field) \in Nat \ {0}
  BY <1>4
<1> QED BY <1>3, <1>5, <1>6

\* The hits of one kind of keys: no fewer than what each of the source's keys adds.
LEMMA FieldHitsNat ==
  ASSUME NEW Keys, NEW src \in NamesOver(Keys), NEW dests \in Seq(NamesOver(Keys)),
         NEW field \in Fields, NEW i \in DOMAIN dests
  PROVE  /\ FieldHits(src, dests, field, i) \in Nat
         /\ \A n \in DOMAIN KeysOf(field, src) :
              /\ Weight(field) * Posted(dests, field, KeysOf(field, src)[n], i) \in Nat
              /\ Weight(field) * Posted(dests, field, KeysOf(field, src)[n], i)
                   <= FieldHits(src, dests, field, i)
<1> DEFINE keys == KeysOf(field, src)
           f == [n \in DOMAIN keys |-> Weight(field) * Posted(dests, field, keys[n], i)]
<1>1. IsFiniteSet(DOMAIN keys)
  BY KeysAreFinite
<1>2. FieldHits(src, dests, field, i) = SumFunction(f)
  BY DEF FieldHits
<1>3. ASSUME NEW n \in DOMAIN keys
      PROVE  /\ f[n] = Weight(field) * Posted(dests, field, keys[n], i)
             /\ f[n] \in Nat
  <2>1. Posted(dests, field, keys[n], i) \in Nat /\ Weight(field) \in Nat
    <3> HIDE DEF keys
    <3> QED BY PostedNat
  <2>2. Weight(field) * Posted(dests, field, keys[n], i) \in Nat
    BY <2>1
  <2> QED BY <2>2
<1>4. DOMAIN f = DOMAIN keys
  OBVIOUS
<1> HIDE DEF f, keys
<1>5. SumFunction(f) \in Nat /\ \A n \in DOMAIN keys : f[n] <= SumFunction(f)
  BY <1>1, <1>3, <1>4, SumBound
<1>6. /\ FieldHits(src, dests, field, i) \in Nat
      /\ \A n \in DOMAIN keys :
           /\ Weight(field) * Posted(dests, field, keys[n], i) \in Nat
           /\ Weight(field) * Posted(dests, field, keys[n], i) <= FieldHits(src, dests, field, i)
  BY <1>2, <1>3, <1>5
<1> QED BY <1>6 DEF keys

\* A destination that shares an indexed key with the source is hit.
LEMMA SharedKeyHits ==
  ASSUME NEW Keys, NEW src \in NamesOver(Keys), NEW dests \in Seq(NamesOver(Keys)),
         NEW i \in DOMAIN dests
  PROVE  /\ Hits(src, dests, i) \in Nat
         /\ SharesAKey(src, dests, i) => i \in Touched(src, dests)
<1>1. \A field \in Fields : FieldHits(src, dests, field, i) \in Nat
  BY FieldHitsNat
<1>2. Fields = {"token", "phonetic", "trigram", "romanized"}
  BY DEF Fields
<1>3. /\ Hits(src, dests, i) \in Nat
      /\ \A field \in Fields : FieldHits(src, dests, field, i) <= Hits(src, dests, i)
  BY <1>1, <1>2 DEF Hits
<1>4. ASSUME SharesAKey(src, dests, i) PROVE Hits(src, dests, i) > 0
  <2>1. PICK field \in Fields : \E n \in DOMAIN KeysOf(field, src) :
          Shares(src, dests, i, field, KeysOf(field, src)[n])
    BY <1>4 DEF SharesAKey
  <2>2. PICK n \in DOMAIN KeysOf(field, src) :
          Shares(src, dests, i, field, KeysOf(field, src)[n])
    BY <2>1
  <2> DEFINE added == Weight(field) * Posted(dests, field, KeysOf(field, src)[n], i)
  <2>3. added > 0
    BY <2>2, PostedNat DEF Shares
  <2>4. added \in Nat /\ added <= FieldHits(src, dests, field, i)
    BY FieldHitsNat
  <2> HIDE DEF added
  <2>5. FieldHits(src, dests, field, i) \in Nat
        /\ FieldHits(src, dests, field, i) <= Hits(src, dests, i)
    BY <1>1, <1>3
  <2> QED BY <1>3, <2>3, <2>4, <2>5
<1> QED BY <1>3, <1>4 DEF Touched

\* What the heap holds for a destination that was hit.
Candidate(src, dests, i) == [index |-> i, hits |-> Hits(src, dests, i)]

HitBefore(src, dests, n) == {i \in Touched(src, dests) : i <= n}

\* Of the destinations up to n, the heap holds those that were hit most.
HoldsTheBest(src, dests, k, n, heap) ==
  LET seen == HitBefore(src, dests, n) IN
  /\ heap \subseteq {Candidate(src, dests, i) : i \in seen}
  /\ IsFiniteSet(heap) /\ Cardinality(heap) <= k
  /\ Cardinality(heap) < k => \A i \in seen : Candidate(src, dests, i) \in heap
  /\ \A i \in seen : Candidate(src, dests, i) \notin heap =>
       \A d \in heap : d.hits >= Hits(src, dests, i)

\* The root of a heap that is not empty is one of those with the fewest hits.
LEMMA RootIsWorst ==
  ASSUME NEW heap, IsFiniteSet(heap), heap # {},
         \A d \in heap : d.hits \in Nat /\ d.index \in Nat,
         \A c, d \in heap : c.index = d.index => c = d
  PROVE  Root(heap) \in heap /\ \A d \in heap : d.hits >= Root(heap).hits
<1> DEFINE R == {e \in heap \X heap : GoesBefore(e[1], e[2])}
           order == InOrder(heap, R)
<1>1. \A c, d \in heap : <<c, d>> \in R <=> GoesBefore(c, d)
  OBVIOUS
<1> HIDE DEF R
<1>2. OrdersAll(heap, R)
  <2>1. \A c \in heap : ~GoesBefore(c, c)
    BY DEF GoesBefore
  <2>2. \A c, d \in heap : c # d => GoesBefore(c, d) \/ GoesBefore(d, c)
    BY DEF GoesBefore
  <2>3. \A c, d, e \in heap : GoesBefore(c, d) /\ GoesBefore(d, e) => GoesBefore(c, e)
    BY DEF GoesBefore
  <2> QED BY <1>1, <2>1, <2>2, <2>3 DEF OrdersAll
<1>3. Lists(order, heap, R)
  BY <1>2, InOrderLists
<1> HIDE DEF order
<1>4. Cardinality(heap) \in Nat /\ Cardinality(heap) # 0
  BY FS_CardinalityType, FS_EmptySet
<1>5. 1 \in 1 .. Cardinality(heap) /\ order[1] \in heap
  BY <1>3, <1>4 DEF Lists
<1>6. ASSUME NEW d \in heap \ {order[1]}
      PROVE  GoesBefore(order[1], d)
  <2>1. PICK i \in 1 .. Cardinality(heap) : order[i] = d
    BY <1>3 DEF Lists
  <2>2. 1 < i
    BY <1>4, <2>1
  <2> QED BY <1>1, <1>3, <1>5, <2>1, <2>2 DEF Lists
<1>7. Root(heap) \in heap /\ \A d \in heap \ {Root(heap)} : GoesBefore(Root(heap), d)
  BY <1>5, <1>6 DEF Root
<1> QED BY <1>7 DEF GoesBefore

\* An offer keeps the best.
LEMMA OfferKeepsTheBest ==
  ASSUME NEW src, NEW dests, NEW k \in Nat \ {0}, NEW n \in Nat,
         Touched(src, dests) \subseteq Nat,
         \A i \in Touched(src, dests) : Hits(src, dests, i) \in Nat,
         n + 1 \in Touched(src, dests),
         NEW heap, HoldsTheBest(src, dests, k, n, heap)
  PROVE  HoldsTheBest(src, dests, k, n + 1, Offer(heap, Candidate(src, dests, n + 1), k))
<1> DEFINE c == Candidate(src, dests, n + 1)
           was == HitBefore(src, dests, n)
           seen == HitBefore(src, dests, n + 1)
           new == Offer(heap, c, k)
<1>1. seen = was \cup {n + 1} /\ n + 1 \notin was /\ was \subseteq Nat
  BY DEF HitBefore
<1>2. ASSUME NEW i \in seen
      PROVE  /\ Candidate(src, dests, i).index = i
             /\ Candidate(src, dests, i).hits = Hits(src, dests, i)
             /\ Hits(src, dests, i) \in Nat
  BY DEF Candidate, HitBefore
<1>3. c.index = n + 1 /\ c.hits = Hits(src, dests, n + 1) /\ Hits(src, dests, n + 1) \in Nat
  BY <1>1, <1>2
<1>4. /\ heap \subseteq {Candidate(src, dests, i) : i \in was}
      /\ IsFiniteSet(heap) /\ Cardinality(heap) <= k
      /\ Cardinality(heap) < k => \A i \in was : Candidate(src, dests, i) \in heap
      /\ \A i \in was : Candidate(src, dests, i) \notin heap =>
           \A d \in heap : d.hits >= Hits(src, dests, i)
  BY DEF HoldsTheBest
<1>5. ASSUME NEW d \in heap
      PROVE  d.index \in was /\ d = Candidate(src, dests, d.index)
             /\ d.hits = Hits(src, dests, d.index) /\ d.hits \in Nat
  <2>1. PICK i \in was : d = Candidate(src, dests, i)
    BY <1>4
  <2>2. d.index = i /\ d.hits = Hits(src, dests, i) /\ Hits(src, dests, i) \in Nat
    BY <1>1, <1>2, <2>1
  <2> QED BY <2>1, <2>2
<1>6. c \notin heap
  BY <1>1, <1>3, <1>5
<1>7. Cardinality(heap) \in Nat
  BY <1>4, FS_CardinalityType
<1>8. c = Candidate(src, dests, n + 1)
  OBVIOUS
<1> HIDE DEF was, seen, c
<1>9. CASE Cardinality(heap) < k
  <2>1. new = heap \cup {c}
    BY <1>9 DEF Offer
  <2>2. IsFiniteSet(new) /\ Cardinality(new) = Cardinality(heap) + 1
    <3> HIDE DEF new
    <3> QED BY <1>4, <1>6, <2>1, FS_AddElement
  <2>3. \A i \in seen : Candidate(src, dests, i) \in new
    BY <1>1, <1>4, <1>8, <1>9, <2>1
  <2>4. new \subseteq {Candidate(src, dests, i) : i \in seen}
    BY <1>1, <1>4, <1>8, <2>1
  <2>5. Cardinality(new) <= k
    BY <1>7, <1>9, <2>2
  <2> HIDE DEF new
  <2>6. HoldsTheBest(src, dests, k, n + 1, new)
    BY <2>2, <2>3, <2>4, <2>5 DEF HoldsTheBest, seen
  <2> QED BY <2>6 DEF new, c
<1>10. CASE ~(Cardinality(heap) < k)
  <2>1. Cardinality(heap) = k /\ heap # {}
    BY <1>4, <1>7, <1>10, FS_EmptySet
  <2>2. \A d \in heap : d.hits \in Nat /\ d.index \in Nat
    BY <1>1, <1>5
  <2>3. \A d, e \in heap : d.index = e.index => d = e
    BY <1>5
  <2> DEFINE root == Root(heap)
  <2>4. root \in heap /\ \A d \in heap : d.hits >= root.hits
    BY <1>4, <2>1, <2>2, <2>3, RootIsWorst
  <2> HIDE DEF root
  <2>5. CASE c.hits >= root.hits
    <3>1. new = (heap \ {root}) \cup {c}
      BY <1>10, <2>5 DEF Offer, root
    <3> HIDE DEF new
    <3>2. IsFiniteSet(new) /\ Cardinality(new) = k
      <4>1. IsFiniteSet(heap \ {root}) /\ Cardinality(heap \ {root}) = k - 1
        BY <1>4, <2>1, <2>4, FS_RemoveElement
      <4>2. c \notin heap \ {root}
        BY <1>6
      <4>3. IsFiniteSet(new) /\ Cardinality(new) = (k - 1) + 1
        BY <3>1, <4>1, <4>2, FS_AddElement
      <4> QED BY <4>3
    <3>3. new \subseteq {Candidate(src, dests, i) : i \in seen}
      BY <1>1, <1>4, <1>8, <3>1
    <3>4. ASSUME NEW i \in seen, Candidate(src, dests, i) \notin new, NEW d \in new
          PROVE  d.hits >= Hits(src, dests, i)
      <4>1. i \in was
        BY <1>1, <1>8, <3>1, <3>4
      <4>2. Hits(src, dests, i) \in Nat
        BY <1>2
      <4>3. Hits(src, dests, i) <= root.hits /\ root.hits \in Nat
        <5>1. CASE Candidate(src, dests, i) \in heap
          <6>1. Candidate(src, dests, i) = root
            BY <3>1, <3>4, <5>1
          <6> QED BY <1>2, <6>1, <4>2
        <5>2. CASE Candidate(src, dests, i) \notin heap
          BY <1>4, <2>2, <2>4, <4>1, <5>2
        <5> QED BY <5>1, <5>2
      <4>4. d.hits >= root.hits /\ d.hits \in Nat
        BY <1>3, <2>2, <2>4, <2>5, <3>1
      <4> QED BY <4>2, <4>3, <4>4
    <3>5. HoldsTheBest(src, dests, k, n + 1, new)
      BY <3>2, <3>3, <3>4 DEF HoldsTheBest, seen
    <3> QED BY <3>5 DEF new, c
  <2>6. CASE ~(c.hits >= root.hits)
    <3>1. new = heap
      BY <1>10, <2>6 DEF Offer, root
    <3> HIDE DEF new
    <3>2. ASSUME NEW i \in seen, Candidate(src, dests, i) \notin heap, NEW d \in heap
          PROVE  d.hits >= Hits(src, dests, i)
      <4>1. CASE i \in was
        BY <1>4, <3>2, <4>1
      <4>2. CASE i = n + 1
        <5>1. d.hits \in Nat /\ root.hits \in Nat /\ d.hits >= root.hits /\ c.hits \in Nat
          BY <1>3, <2>2, <2>4
        <5>2. d.hits >= c.hits
          BY <2>6, <5>1
        <5> QED BY <1>3, <4>2, <5>2
      <4> QED BY <1>1, <4>1, <4>2
    <3>3. heap \subseteq {Candidate(src, dests, i) : i \in seen}
      BY <1>1, <1>4
    <3>4. Cardinality(heap) <= k /\ ~(Cardinality(heap) < k)
      BY <1>4, <1>10
    <3>5. HoldsTheBest(src, dests, k, n + 1, heap)
      BY <1>4, <3>2, <3>3, <3>4 DEF HoldsTheBest, seen
    <3> QED BY <3>1, <3>5 DEF new, c
  <2> QED BY <2>5, <2>6
<1> QED BY <1>9, <1>10

\* All destinations having been offered, the heap holds those that were hit most.
LEMMA TopKHoldsTheBest ==
  ASSUME NEW Keys, NEW src \in NamesOver(Keys), NEW dests \in Seq(NamesOver(Keys)),
         NEW k \in Nat \ {0}
  PROVE  HoldsTheBest(src, dests, k, Len(dests), TopK(src, dests, k))
<1> DEFINE N == Len(dests)
           hit == Touched(src, dests)
           Held == UNION {SUBSET {Candidate(src, dests, i) : i \in hit}, {{}}}
           Offered(n, heap) == IF n \notin hit THEN heap
                            ELSE Offer(heap, [index |-> n, hits |-> Hits(src, dests, n)], k)
           Heaps(h) == h = [n \in 0 .. N |-> IF n = 0 THEN {} ELSE Offered(n, h[n - 1])]
           heaps == CHOOSE h : Heaps(h)
<1>1. N \in Nat /\ DOMAIN dests = 1 .. N /\ hit \subseteq 1 .. N
      /\ \A i \in hit : Hits(src, dests, i) \in Nat
  BY SharedKeyHits DEF Touched
<1>2. TopK(src, dests, k) = heaps[N]
  BY Zenon DEF TopK
<1> HIDE DEF N, hit
<1>3. \A n \in 1 .. N, heap \in Held : Offered(n, heap) \in Held
  BY DEF Offer, Candidate
<1> DEFINE step == [e \in (1 .. N) \X Held |-> Offered(e[1], e[2])]
<1>4. step \in [(1 .. N) \X Held -> Held]
  BY <1>3
<1>5. \A n \in 1 .. N, heap \in Held : step[<<n, heap>>] = Offered(n, heap)
  OBVIOUS
<1>6. {} \in Held
  OBVIOUS
<1> HIDE DEF Held, Offered, step
<1>7. PICK f : RunsThrough(f, N, Held, {}, step)
  BY <1>1, <1>4, <1>6, Rounds
<1>8. /\ f \in [0 .. N -> Held]
       /\ f[0] = {}
       /\ \A n \in 1 .. N : f[n] = step[<<n, f[n - 1]>>]
  BY <1>7 DEF RunsThrough
<1>9. \A n \in 1 .. N : n - 1 \in 0 .. N
  BY <1>1
<1>10. ASSUME NEW n \in 0 .. N
      PROVE  f[n] = IF n = 0 THEN {} ELSE Offered(n, f[n - 1])
  <2>1. n # 0 => n \in 1 .. N
    BY <1>1
  <2>2. n # 0 => f[n - 1] \in Held
    BY <1>9, <1>8, <2>1
  <2> QED BY <1>5, <1>8, <2>1, <2>2
<1>11. Heaps(f)
  <2>1. f = [n \in 0 .. N |-> f[n]]
    BY <1>8
  <2> QED BY <1>10, <2>1
<1>12. Heaps(heaps)
  <2> HIDE DEF Heaps
  <2> QED BY <1>11
<1> HIDE DEF heaps
<1>13. ASSUME NEW n \in 0 .. N
       PROVE  heaps[n] = IF n = 0 THEN {} ELSE Offered(n, heaps[n - 1])
  BY <1>12
<1> HIDE DEF Heaps
<1> DEFINE M == {m \in Nat : m <= N => HoldsTheBest(src, dests, k, m, heaps[m])}
<1>14. 0 \in M
  <2>1. heaps[0] = {}
    BY <1>1, <1>13
  <2>2. HitBefore(src, dests, 0) = {}
    BY <1>1 DEF HitBefore, hit
  <2>3. IsFiniteSet({}) /\ Cardinality({}) = 0
    BY FS_EmptySet
  <2>4. HoldsTheBest(src, dests, k, 0, {})
    BY <2>2, <2>3 DEF HoldsTheBest
  <2> QED BY <2>1, <2>4
<1>15. ASSUME NEW m \in Nat, m \in M
       PROVE  m + 1 \in M
  <2> SUFFICES ASSUME m + 1 <= N PROVE HoldsTheBest(src, dests, k, m + 1, heaps[m + 1])
    OBVIOUS
  <2>1. HoldsTheBest(src, dests, k, m, heaps[m])
    BY <1>1, <1>15
  <2>2. heaps[m + 1] = Offered(m + 1, heaps[m])
    <3>1. m + 1 \in 0 .. N /\ m + 1 # 0 /\ (m + 1) - 1 = m
      BY <1>1
    <3> QED BY <1>13, <3>1
  <2>3. CASE m + 1 \in hit
    <3>1. heaps[m + 1] = Offer(heaps[m], Candidate(src, dests, m + 1), k)
      BY <2>2, <2>3 DEF Offered, Candidate
    <3>2. hit \subseteq Nat
      BY <1>1
    <3> QED BY <1>1, <2>1, <2>3, <3>1, <3>2, OfferKeepsTheBest DEF hit
  <2>4. CASE m + 1 \notin hit
    <3>1. heaps[m + 1] = heaps[m]
      BY <2>2, <2>4 DEF Offered
    <3>2. HitBefore(src, dests, m + 1) = HitBefore(src, dests, m)
      BY <1>1, <2>4 DEF HitBefore, hit
    <3> QED BY <2>1, <3>1, <3>2 DEF HoldsTheBest
  <2> QED BY <2>3, <2>4
<1>16. Nat \subseteq M
  <2> HIDE DEF M
  <2> QED BY <1>14, <1>15, NatInd
<1>17. HoldsTheBest(src, dests, k, N, heaps[N])
  BY <1>1, <1>16
<1> QED BY <1>2, <1>17 DEF N

\* The indices of what is in the heap, those with more hits first.
ListsTheHeap(found, heap) ==
  /\ found \in Seq(Nat) /\ Len(found) = Cardinality(heap)
  /\ \A i, j \in DOMAIN found : found[i] = found[j] => i = j
  /\ \A d \in heap : \E i \in DOMAIN found : found[i] = d.index
  /\ \A i \in DOMAIN found : \E d \in heap : found[i] = d.index
  /\ \A i, j \in DOMAIN found : i < j =>
       \E c, d \in heap : found[i] = c.index /\ found[j] = d.index /\ c.hits >= d.hits

\* The heap is sorted, and its indices are the candidates.
LEMMA BestFirstLists ==
  ASSUME NEW heap, IsFiniteSet(heap),
         \A d \in heap : d.hits \in Nat /\ d.index \in Nat,
         \A c, d \in heap : c.index = d.index => c = d,
         NEW found, found = IndicesOf(BestFirst(heap))
  PROVE  ListsTheHeap(found, heap)
<1> DEFINE R == {e \in heap \X heap : Preferred(e[1], e[2])}
           order == InOrder(heap, R)
           n == Cardinality(heap)
<1>1. \A c, d \in heap : <<c, d>> \in R <=> Preferred(c, d)
  OBVIOUS
<1>2. BestFirst(heap) = order
  BY DEF BestFirst
<1> HIDE DEF R
<1>3. OrdersAll(heap, R)
  <2>1. \A c \in heap : ~Preferred(c, c)
    BY DEF Preferred
  <2>2. \A c, d \in heap : c # d => Preferred(c, d) \/ Preferred(d, c)
    BY DEF Preferred
  <2>3. \A c, d, e \in heap : Preferred(c, d) /\ Preferred(d, e) => Preferred(c, e)
    BY DEF Preferred
  <2> QED BY <1>1, <2>1, <2>2, <2>3 DEF OrdersAll
<1>4. Lists(order, heap, R)
  BY <1>3, InOrderLists
<1> HIDE DEF order
<1>5. n \in Nat
  BY FS_CardinalityType
<1>6. order \in [1 .. n -> heap]
  BY <1>4 DEF Lists
<1>7. DOMAIN found = 1 .. n /\ \A i \in 1 .. n : found[i] = order[i].index /\ order[i] \in heap
  BY <1>2, <1>6 DEF IndicesOf
<1>8. found = [i \in 1 .. n |-> order[i].index]
  BY <1>2, <1>6 DEF IndicesOf
<1> HIDE DEF n
<1>9. found \in [1 .. n -> Nat]
  BY <1>7, <1>8
<1>10. found \in Seq(Nat) /\ Len(found) = n
  BY <1>5, <1>9
<1>11. \A i, j \in 1 .. n : found[i] = found[j] => i = j
  <2> SUFFICES ASSUME NEW i \in 1 .. n, NEW j \in 1 .. n, found[i] = found[j] PROVE i = j
    OBVIOUS
  <2>1. order[i] = order[j]
    BY <1>7
  <2> QED BY <1>4, <2>1 DEF Lists, n
<1>12. \A d \in heap : \E i \in 1 .. n : found[i] = d.index
  BY <1>4, <1>7 DEF Lists, n
<1>13. ASSUME NEW i \in 1 .. n, NEW j \in 1 .. n, i < j
       PROVE  \E c, d \in heap : found[i] = c.index /\ found[j] = d.index /\ c.hits >= d.hits
  <2>1. <<order[i], order[j]>> \in R
    BY <1>4, <1>13 DEF Lists, n
  <2>2. order[i] \in heap /\ order[j] \in heap /\ found[i] = order[i].index
        /\ found[j] = order[j].index
    BY <1>7
  <2>3. order[i].hits >= order[j].hits
    BY <1>1, <2>1, <2>2 DEF Preferred
  <2> QED BY <2>2, <2>3
<1>14. \A i \in 1 .. n : \E d \in heap : found[i] = d.index
  BY <1>7
<1>15. DOMAIN found = 1 .. n
  BY <1>7
<1>16. Len(found) = Cardinality(heap)
  BY <1>10 DEF n
<1>17. \A i, j \in 1 .. n : i < j =>
         \E c, d \in heap : found[i] = c.index /\ found[j] = d.index /\ c.hits >= d.hits
  BY <1>13
<1>18. /\ \A i, j \in DOMAIN found : found[i] = found[j] => i = j
       /\ \A d \in heap : \E i \in DOMAIN found : found[i] = d.index
  BY <1>11, <1>12, <1>15
<1>19. \A i \in DOMAIN found : \E d \in heap : found[i] = d.index
  BY <1>14, <1>15
<1>20. \A i, j \in DOMAIN found : i < j =>
         \E c, d \in heap : found[i] = c.index /\ found[j] = d.index /\ c.hits >= d.hits
  BY <1>15, <1>17
<1>21. found \in Seq(Nat)
  BY <1>10
<1> HIDE DEF n
<1> QED BY <1>16, <1>18, <1>19, <1>20, <1>21, Zenon DEF ListsTheHeap

\* The candidates of a source: none of the others was hit more often.
LEMMA BestAreFound ==
  ASSUME NEW Keys, NEW src \in NamesOver(Keys), NEW dests \in Seq(NamesOver(Keys)),
         NEW k \in Nat \ {0}
  PROVE  BestOf(src, dests, k, QueryCandidates(src, dests, k))
<1> DEFINE found == QueryCandidates(src, dests, k)
           hit == Touched(src, dests)
           heap == TopK(src, dests, k)
<1>1. CASE Len(dests) <= k
  <2>1. found = [i \in DOMAIN dests |-> i]
    BY <1>1 DEF QueryCandidates
  <2>2. NoneIsBetter(src, dests, k, found)
    <3>1. ~(Len(dests) > k)
      BY <1>1
    <3> QED BY <3>1 DEF NoneIsBetter
  <2>3. \A i \in DOMAIN dests : \E n \in DOMAIN found : found[n] = i
    BY <2>1
  <2>4. RareKeyIsEnough(src, dests, k, found)
    <3> HIDE DEF found
    <3> QED BY <2>3 DEF RareKeyIsEnough
  <2> QED BY <2>2, <2>4 DEF BestOf
<1>2. CASE hit = {}
  <2>1. \A i \in DOMAIN dests : ~SharesAKey(src, dests, i)
    BY <1>2, SharedKeyHits
  <2> QED BY <1>2, <2>1 DEF BestOf, NoneIsBetter, RareKeyIsEnough
<1>3. CASE ~(Len(dests) <= k) /\ hit # {}
  <2>1. found = IndicesOf(BestFirst(heap))
    BY <1>3 DEF QueryCandidates
  <2>2. HoldsTheBest(src, dests, k, Len(dests), heap)
    BY TopKHoldsTheBest
  <2>3. hit \subseteq Nat /\ hit \subseteq DOMAIN dests
        /\ \A i \in hit : Hits(src, dests, i) \in Nat
    BY SharedKeyHits DEF Touched
  <2>4. HitBefore(src, dests, Len(dests)) = hit
    BY DEF HitBefore, Touched
  <2> HIDE DEF heap, found, hit
  <2>5. /\ heap \subseteq {Candidate(src, dests, i) : i \in hit}
        /\ IsFiniteSet(heap) /\ Cardinality(heap) <= k
        /\ Cardinality(heap) < k => \A i \in hit : Candidate(src, dests, i) \in heap
        /\ \A i \in hit : Candidate(src, dests, i) \notin heap =>
             \A d \in heap : d.hits >= Hits(src, dests, i)
    BY <2>2, <2>4 DEF HoldsTheBest
  <2>6. \A i : Candidate(src, dests, i).index = i
               /\ Candidate(src, dests, i).hits = Hits(src, dests, i)
    BY DEF Candidate
  <2>7. ASSUME NEW d \in heap
        PROVE  d.index \in hit /\ d = Candidate(src, dests, d.index)
               /\ d.hits = Hits(src, dests, d.index) /\ d.hits \in Nat /\ d.index \in Nat
    BY <2>3, <2>5, <2>6
  <2>8. \A c, d \in heap : c.index = d.index => c = d
    BY <2>7
  <2>9. /\ found \in Seq(Nat) /\ Len(found) = Cardinality(heap)
        /\ \A i, j \in DOMAIN found : found[i] = found[j] => i = j
        /\ \A d \in heap : \E i \in DOMAIN found : found[i] = d.index
        /\ \A i \in DOMAIN found : \E d \in heap : found[i] = d.index
        /\ \A i, j \in DOMAIN found : i < j =>
             \E c, d \in heap : found[i] = c.index /\ found[j] = d.index /\ c.hits >= d.hits
    <3>1. IsFiniteSet(heap) /\ \A d \in heap : d.hits \in Nat /\ d.index \in Nat
      BY <2>5, <2>7
    <3>2. ListsTheHeap(found, heap)
      BY <2>1, <2>8, <3>1, BestFirstLists
    <3> QED BY <3>2, Zenon DEF ListsTheHeap
  <2> DEFINE kept == {found[i] : i \in DOMAIN found}
  <2>10. kept \subseteq hit
    BY <2>7, <2>9
  <2>11. Cardinality(kept) = Len(found)
    <3>1. found \in Bijection(1 .. Len(found), kept)
      <4>1. DOMAIN found = 1 .. Len(found) /\ found = [i \in 1 .. Len(found) |-> found[i]]
        BY <2>9
      <4>2. found \in [1 .. Len(found) -> kept]
        BY <4>1
      <4> QED BY <2>9, <4>1, <4>2 DEF Bijection, Injection, Surjection, IsInjective
    <3>2. IsFiniteSet(1 .. Len(found)) /\ Cardinality(1 .. Len(found)) = Len(found)
      BY <2>9, Places
    <3> HIDE DEF kept
    <3> QED BY <3>1, <3>2, FS_Bijection DEF ExistsBijection
  <2>12. ASSUME NEW i \in hit
         PROVE  i \in kept <=> Candidate(src, dests, i) \in heap
    <3>1. ASSUME i \in kept PROVE Candidate(src, dests, i) \in heap
      <4>1. PICK n \in DOMAIN found : found[n] = i
        BY <3>1
      <4>2. PICK d \in heap : found[n] = d.index
        BY <2>9
      <4> QED BY <2>7, <4>1, <4>2
    <3>2. ASSUME Candidate(src, dests, i) \in heap PROVE i \in kept
      <4>1. PICK n \in DOMAIN found : found[n] = Candidate(src, dests, i).index
        BY <2>9, <3>2
      <4> QED BY <2>6, <4>1
    <3> QED BY <3>1, <3>2
  <2>13. ASSUME NEW i \in kept, NEW j \in hit \ kept
         PROVE  Hits(src, dests, i) >= Hits(src, dests, j)
    <3>1. PICK d \in heap : i = d.index
      <4>1. PICK n \in DOMAIN found : found[n] = i
        OBVIOUS
      <4> QED BY <2>9, <4>1
    <3>2. Candidate(src, dests, j) \notin heap
      BY <2>12
    <3>3. d.hits = Hits(src, dests, i)
      BY <2>7, <3>1
    <3> QED BY <2>5, <3>2, <3>3
  <2>14. ASSUME NEW n \in 1 .. Len(found) - 1
         PROVE  Hits(src, dests, found[n]) >= Hits(src, dests, found[n + 1])
    <3>1. n \in DOMAIN found /\ n + 1 \in DOMAIN found /\ n < n + 1
      BY <2>9
    <3> DEFINE m == n + 1
    <3>2. m \in DOMAIN found /\ n < m
      BY <3>1
    <3> HIDE DEF m
    <3>3. \A i, j \in DOMAIN found : i < j =>
            \E c, d \in heap : found[i] = c.index /\ found[j] = d.index /\ c.hits >= d.hits
      BY <2>9
    <3>4. PICK c \in heap, d \in heap :
            found[n] = c.index /\ found[m] = d.index /\ c.hits >= d.hits
      <4>1. n \in DOMAIN found
        BY <3>1
      <4> QED BY <3>2, <3>3, <4>1
    <3> QED BY <2>7, <3>4 DEF m
  <2>15. Cardinality(kept) < k => kept = hit
    BY <2>5, <2>9, <2>10, <2>11, <2>12
  <2>16. NoneIsBetter(src, dests, k, found)
    BY <2>5, <2>9, <2>10, <2>11, <2>13, <2>14, <2>15 DEF NoneIsBetter, hit
  <2>17. RareKeyIsEnough(src, dests, k, found)
    <3> SUFFICES ASSUME NEW i \in DOMAIN dests, SharesAKey(src, dests, i), i \notin kept
                 PROVE  Len(found) = k /\ \A n \in DOMAIN found :
                          Hits(src, dests, found[n]) >= Hits(src, dests, i)
      BY DEF RareKeyIsEnough
    <3>1. i \in hit
      BY SharedKeyHits DEF hit
    <3>2. ~(Cardinality(kept) < k)
      BY <2>15, <3>1
    <3>3. Len(found) = k
      BY <2>5, <2>9, <2>11, <3>2
    <3>4. ASSUME NEW n \in DOMAIN found PROVE Hits(src, dests, found[n]) >= Hits(src, dests, i)
      BY <2>13, <3>1
    <3> QED BY <3>3, <3>4
  <2> QED BY <2>16, <2>17 DEF BestOf, found
<1> QED BY <1>1, <1>2, <1>3

----------------------------------------------------------------------------
(* Pages. *)

\* A number is a multiple of n and what is left over.
LEMMA DivMod ==
  ASSUME NEW a \in Nat, NEW n \in Nat \ {0}
  PROVE  /\ a \div n \in Nat /\ a % n \in 0 .. n - 1
         /\ a = n * (a \div n) + (a % n)
  OBVIOUS

\* What is known of the multiples of n.
LEMMA TimesIsMonotonic ==
  ASSUME NEW a \in Int, NEW b \in Int, NEW n \in Nat \ {0}
  PROVE  /\ a * n \in Int /\ (a - 1) * n = a * n - n
         /\ a < b => a * n + n <= b * n
         /\ a <= b => a * n <= b * n
         /\ 1 <= a => 0 <= (a - 1) * n
  OBVIOUS

\* A place is on one page only.
LEMMA OnePageOnly ==
  ASSUME NEW n \in Nat \ {0}, NEW p \in Nat \ {0}, NEW r \in Nat \ {0},
         NEW q \in 1 .. n, NEW s \in 1 .. n, (p - 1) * n + q = (r - 1) * n + s
  PROVE  p = r /\ q = s
<1>1. (p - 1) * n \in Int /\ (r - 1) * n \in Int
  OBVIOUS
<1>2. p < r => (p - 1) * n + n <= (r - 1) * n
  BY TimesIsMonotonic
<1>3. r < p => (r - 1) * n + n <= (p - 1) * n
  BY TimesIsMonotonic
<1>4. ~(p < r) /\ ~(r < p)
  BY <1>1, <1>2, <1>3
<1>5. p = r
  BY <1>4
<1> QED BY <1>1, <1>5

\* Every place of a list is on a page.
LEMMA PlacesOnPages ==
  ASSUME NEW L \in Nat, NEW n \in Nat \ {0}
  PROVE  /\ TotalPages(L, n) \in Nat \ {0}
         /\ \A i \in 1 .. L : \E p \in 1 .. TotalPages(L, n), q \in 1 .. n : i = (p - 1) * n + q
<1> DEFINE Covers(N) == /\ N \in Nat \ {0}
                        /\ \A i \in 1 .. L : \E p \in 1 .. N, q \in 1 .. n : i = (p - 1) * n + q
<1>1. ASSUME L = 0 PROVE Covers(TotalPages(L, n))
  <2>1. TotalPages(L, n) = 1 /\ 1 .. L = {}
    BY <1>1 DEF TotalPages
  <2> QED BY <2>1
<1>2. ASSUME L > 0 PROVE Covers(TotalPages(L, n))
  <2> DEFINE P == TotalPages(L, n)
             m == L + n - 1
  <2>1. P = m \div n /\ m \in Nat
    BY <1>2 DEF TotalPages
  <2> HIDE DEF P, m
  <2>2. P \in Nat /\ m % n \in 0 .. n - 1 /\ m = n * P + (m % n)
    BY <2>1, DivMod
  <2>3. n * P = P * n /\ P * n \in Int
    BY <2>2
  <2>4. L <= P * n /\ P # 0
    <3>1. m = P * n + (m % n) /\ m % n <= n - 1 /\ m % n \in Int /\ m = L + n - 1
      BY <2>2, <2>3 DEF m
    <3>2. L <= P * n
      BY <2>3, <3>1
    <3>3. P = 0 => P * n = 0
      OBVIOUS
    <3> QED BY <1>2, <3>2, <3>3
  <2>5. ASSUME NEW i \in 1 .. L
        PROVE  \E p \in 1 .. P, q \in 1 .. n : i = (p - 1) * n + q
    <3> DEFINE p == ((i - 1) \div n) + 1
               q == ((i - 1) % n) + 1
    <3>1. i - 1 \in Nat
      OBVIOUS
    <3>2. p - 1 \in Nat /\ q - 1 \in 0 .. n - 1 /\ i - 1 = n * (p - 1) + (q - 1)
          /\ p \in Int /\ q \in Int
      <4>1. (i - 1) \div n \in Nat /\ (i - 1) % n \in 0 .. n - 1
            /\ i - 1 = n * ((i - 1) \div n) + ((i - 1) % n)
        BY <3>1, DivMod
      <4>2. p - 1 = (i - 1) \div n /\ q - 1 = (i - 1) % n
        BY <4>1
      <4> QED BY <4>1, <4>2
    <3> HIDE DEF p, q
    <3>3. n * (p - 1) = (p - 1) * n /\ (p - 1) * n \in Int
      BY <3>2
    <3>4. i = (p - 1) * n + q
      BY <3>2, <3>3
    <3>5. p - 1 < P
      <4>1. P <= p - 1 => P * n <= (p - 1) * n
        BY <2>2, <3>2, TimesIsMonotonic
      <4> QED BY <2>2, <2>3, <2>4, <3>2, <3>3, <3>4, <4>1
    <3> QED BY <2>2, <3>2, <3>4, <3>5
  <2>6. P \in Nat \ {0}
    BY <2>2, <2>4
  <2> QED BY <2>5, <2>6 DEF P
<1>3. Covers(TotalPages(L, n))
  <2> HIDE DEF Covers
  <2> QED BY <1>1, <1>2
<1> QED BY <1>3

\* s is what is in seq after offset, up to limit of it.
CutOut(s, seq, offset, limit) ==
  /\ \A q \in Nat \ {0} : q \in DOMAIN s <=> q <= limit /\ offset + q <= Len(seq)
  /\ \A q \in DOMAIN s :
       /\ q \in Nat \ {0} /\ q <= limit /\ offset + q \in 1 .. Len(seq)
       /\ s[q] = seq[offset + q]

\* What a slice holds.
LEMMA SliceElements ==
  ASSUME NEW S, NEW seq \in Seq(S), NEW offset \in Nat, NEW limit \in Nat
  PROVE  /\ Slice(seq, offset, limit) \in Seq(S)
         /\ CutOut(Slice(seq, offset, limit), seq, offset, limit)
<1> DEFINE from == Smaller(offset, Len(seq)) + 1
           to == Smaller(offset + limit, Len(seq))
           s == SubSeq(seq, from, to)
<1>1. Slice(seq, offset, limit) = s
  BY DEF Slice
<1>2. from \in Nat \ {0} /\ to \in Nat /\ to <= Len(seq) /\ Len(seq) \in Nat
  BY DEF Smaller
<1>3. s \in Seq(S) /\ Len(s) = IF from <= to THEN to - from + 1 ELSE 0
  <2> HIDE DEF from, to
  <2> QED BY <1>2
<1>4. \A q \in 1 .. Len(s) : s[q] = seq[from + q - 1]
  <2> HIDE DEF from, to
  <2> QED BY <1>2, <1>3
<1>5. DOMAIN s = 1 .. Len(s) /\ Len(s) \in Nat
  BY <1>3
<1> HIDE DEF s
<1>6. ASSUME NEW q \in Nat \ {0}
      PROVE  q \in DOMAIN s <=> q <= limit /\ offset + q <= Len(seq)
  BY <1>2, <1>3, <1>5 DEF Smaller
<1>7. ASSUME NEW q \in DOMAIN s
      PROVE  /\ q \in Nat \ {0} /\ q <= limit /\ offset + q \in 1 .. Len(seq)
             /\ s[q] = seq[offset + q]
  <2>1. q \in Nat \ {0}
    BY <1>5
  <2>2. q <= limit /\ offset + q <= Len(seq)
    BY <1>6, <2>1
  <2>3. from + q - 1 = offset + q
    BY <1>2, <2>1, <2>2 DEF Smaller
  <2> HIDE DEF from
  <2>4. s[q] = seq[offset + q]
    BY <1>4, <1>5, <2>3
  <2> QED BY <1>2, <2>1, <2>2, <2>4
<1> QED BY <1>1, <1>3, <1>6, <1>7 DEF CutOut

----------------------------------------------------------------------------
(* The list of jobs. *)

\* No two jobs have an id in common: it is the table's primary key, and the map's key.
JobTables ==
  {jobs \in SUBSET [id : Nat, started : Nat] :
     IsFiniteSet(jobs) /\ \A j, k \in jobs : j.id = k.id => j = k}

JobProblemsOver == [backend : {"memory", "postgres"}, jobs : JobTables, limit : Int]

\* Jobs that the store can tell apart come in one order only.
LEMMA OneOrderOfJobs ==
  ASSUME NEW backend \in {"memory", "postgres"}, NEW jobs \in JobTables,
         backend = "postgres" \/ (\A j, k \in jobs : j.started = k.started => j = k)
  PROVE  \A s, t \in JobOrders(backend, jobs) : s = t /\ \A j \in jobs : \E i \in DOMAIN s : s[i] = j
<1> DEFINE Before(j, k) == IF backend = "memory" THEN j.started > k.started
                          ELSE PostgresJobPrecedes(j, k)
           R == {e \in jobs \X jobs : Before(e[1], e[2])}
           c == Cardinality(jobs)
<1>1. /\ IsFiniteSet(jobs) /\ \A j, k \in jobs : j.id = k.id => j = k
      /\ \A j \in jobs : j.id \in Nat /\ j.started \in Nat
  BY DEF JobTables
<1>2. \A j, k \in jobs : <<j, k>> \in R <=> Before(j, k)
  OBVIOUS
<1> HIDE DEF R
<1>3. OrdersAll(jobs, R)
  <2>1. \A j \in jobs : ~Before(j, j)
    BY <1>1 DEF PostgresJobPrecedes
  <2>2. \A j, k \in jobs : j # k => Before(j, k) \/ Before(k, j)
    BY <1>1 DEF PostgresJobPrecedes
  <2>3. \A j, k, l \in jobs : Before(j, k) /\ Before(k, l) => Before(j, l)
    BY <1>1 DEF PostgresJobPrecedes
  <2> HIDE DEF Before
  <2> QED BY <1>2, <2>1, <2>2, <2>3 DEF OrdersAll
<1>4. c \in Nat
  BY <1>1, FS_CardinalityType
<1>5. ASSUME NEW s \in JobOrders(backend, jobs)
      PROVE  Lists(s, jobs, R) /\ DOMAIN s = 1 .. c
  <2>1. s \in [1 .. c -> jobs] /\ \A i, j \in 1 .. c : s[i] = s[j] => i = j
    BY DEF JobOrders, OrdersOf
  <2>2. \A i, j \in 1 .. c : i < j => IF backend = "memory" THEN MemoryJobPrecedes(s[i], s[j])
                                     ELSE PostgresJobPrecedes(s[i], s[j])
    BY <2>1 DEF JobOrders
  <2> HIDE DEF c
  <2>3. ASSUME NEW i \in 1 .. c, NEW j \in 1 .. c, i < j
        PROVE  Before(s[i], s[j])
    <3>1. s[i] \in jobs /\ s[j] \in jobs /\ s[i] # s[j]
      BY <1>4, <2>1, <2>3
    <3>2. IF backend = "memory" THEN MemoryJobPrecedes(s[i], s[j])
          ELSE PostgresJobPrecedes(s[i], s[j])
      BY <2>2, <2>3
    <3> QED BY <1>1, <3>1, <3>2 DEF MemoryJobPrecedes
  <2>4. \A x \in jobs : \E i \in 1 .. c : s[i] = x
    <3>1. s \in Injection(1 .. c, jobs)
      BY <2>1 DEF Injection, IsInjective
    <3>2. IsFiniteSet(1 .. c) /\ Cardinality(1 .. c) = c
      BY <1>4, Places
    <3>3. s \in Surjection(1 .. c, jobs)
      BY <1>1, <3>1, <3>2, FS_Injection DEF c
    <3> QED BY <3>3 DEF Surjection
  <2> HIDE DEF Before
  <2>5. \A i, j \in 1 .. c : i < j => <<s[i], s[j]>> \in R
    BY <1>2, <2>1, <2>3
  <2>6. DOMAIN s = 1 .. c
    BY <2>1
  <2> QED BY <2>1, <2>4, <2>5, <2>6 DEF Lists, c
<1> HIDE DEF Before
<1> SUFFICES ASSUME NEW s \in JobOrders(backend, jobs), NEW t \in JobOrders(backend, jobs)
             PROVE  s = t /\ \A j \in jobs : \E i \in DOMAIN s : s[i] = j
  OBVIOUS
<1>6. s = t
  BY <1>1, <1>3, <1>5, ListsUnique
<1>7. \A j \in jobs : \E i \in DOMAIN s : s[i] = j
  BY <1>5 DEF Lists
<1> QED BY <1>6, <1>7

\* The pages show every job, and nothing else.
LEMMA JobPages ==
  ASSUME NEW backend \in {"memory", "postgres"}, NEW jobs \in JobTables, NEW limit \in Int,
         backend = "postgres" \/ (\A j, k \in jobs : j.started = k.started => j = k)
  PROVE  JobPagesShowAll(backend, jobs, limit)
<1> DEFINE n == NormalizedLimit(limit)
           L == Cardinality(jobs)
           pages == TotalPages(L, n)
<1>1. n \in Nat \ {0}
  BY PageSizesAssumption DEF NormalizedLimit, Smaller
<1>2. L \in Nat
  BY FS_CardinalityType DEF JobTables
<1>3. pages \in Nat \ {0}
  BY <1>1, <1>2, PlacesOnPages
<1> SUFFICES ASSUME NEW orders \in [1 .. pages -> JobOrders(backend, jobs)]
             PROVE  UNION {{HandleListJobs(orders[p], limit, (p - 1) * n)[i] :
                              i \in DOMAIN HandleListJobs(orders[p], limit, (p - 1) * n)} :
                           p \in 1 .. pages} = jobs
  BY DEF JobPagesShowAll
<1> DEFINE page(p) == HandleListJobs(orders[p], limit, (p - 1) * n)
           t == orders[1]
<1>4. 1 \in 1 .. pages
  BY <1>3
<1>5. t \in JobOrders(backend, jobs)
  BY <1>4
<1>6. \A p \in 1 .. pages : orders[p] = t
  BY <1>4, OneOrderOfJobs
<1>7. t \in [1 .. L -> jobs]
  BY <1>5 DEF JobOrders, OrdersOf
<1>8. t \in Seq(jobs) /\ Len(t) = L
  <2> HIDE DEF L, t
  <2> QED BY <1>2, <1>7
<1>9. \A j \in jobs : \E i \in 1 .. L : t[i] = j
  <2>1. DOMAIN t = 1 .. L
    BY <1>7
  <2> HIDE DEF t, L
  <2>2. \A j \in jobs : \E i \in DOMAIN t : t[i] = j
    BY <1>5, OneOrderOfJobs
  <2> QED BY <2>1, <2>2
<1>10. ASSUME NEW p \in 1 .. pages
       PROVE  page(p) = Slice(t, (p - 1) * n, n) /\ (p - 1) * n \in Nat
  <2>1. (p - 1) * n \in Nat
    <3>1. (p - 1) * n \in Int /\ 0 <= (p - 1) * n
      BY <1>1, <1>3, TimesIsMonotonic
    <3> QED BY <3>1
  <2>2. orders[p] = t
    BY <1>6
  <2> HIDE DEF t
  <2>3. page(p) = Slice(t, IF (p - 1) * n < 0 THEN 0 ELSE (p - 1) * n, n)
    BY <2>2 DEF HandleListJobs
  <2> QED BY <2>1, <2>3
<1> HIDE DEF t, n, L, page
<1>11. ASSUME NEW p \in 1 .. pages, NEW i \in DOMAIN page(p)
       PROVE  page(p)[i] \in jobs
  <2> DEFINE offset == (p - 1) * n
  <2>1. page(p) = Slice(t, offset, n) /\ n \in Nat /\ offset \in Nat
    BY <1>1, <1>10
  <2> HIDE DEF offset
  <2>2. CutOut(page(p), t, offset, n)
    BY <1>8, <2>1, SliceElements
  <2>3. offset + i \in 1 .. Len(t) /\ page(p)[i] = t[offset + i]
    BY <2>2 DEF CutOut
  <2> QED BY <1>7, <1>8, <2>3
<1>12. ASSUME NEW j \in jobs
       PROVE  \E p \in 1 .. pages : \E i \in DOMAIN page(p) : page(p)[i] = j
  <2>1. PICK at \in 1 .. L : t[at] = j
    BY <1>9
  <2>2. PICK p \in 1 .. pages, q \in 1 .. n : at = (p - 1) * n + q
    <3>1. \A i \in 1 .. L : \E p \in 1 .. TotalPages(L, n), q \in 1 .. n : i = (p - 1) * n + q
      BY <1>1, <1>2, PlacesOnPages
    <3> QED BY <3>1
  <2> DEFINE offset == (p - 1) * n
  <2>3. page(p) = Slice(t, offset, n) /\ n \in Nat /\ offset \in Nat
    BY <1>1, <1>10
  <2>4. q \in Nat \ {0} /\ q <= n /\ offset + q = at /\ at <= Len(t)
    BY <1>1, <1>2, <1>8, <2>2, <2>3
  <2> HIDE DEF offset
  <2>5. CutOut(page(p), t, offset, n)
    BY <1>8, <2>3, SliceElements
  <2>6. q \in DOMAIN page(p) /\ page(p)[q] = t[at]
    BY <2>4, <2>5 DEF CutOut
  <2> QED BY <2>1, <2>6
<1>13. UNION {{page(p)[i] : i \in DOMAIN page(p)} : p \in 1 .. pages} = jobs
  BY <1>11, <1>12
<1> QED BY <1>13 DEF page

----------------------------------------------------------------------------
(* The pages of results. *)

\* The rows of a batch.  No two have an id in common: with the batch it is PostgreSQL's
\* primary key, and a run gives every row its own.
RowTables == {rows \in Seq(ResultRow) : \A i, j \in DOMAIN rows : rows[i].id = rows[j].id => i = j}

PageRequest ==
  [status : STRING, search : Terms \cup {NoTerm}, rank1Only : BOOLEAN,
   sortBy : STRING, sortDir : STRING, limit : Int, page : Int]

\* There are no more pages than the number of a page can name.
PageProblemsOver ==
  {p \in [backend : {"memory", "postgres"}, rows : RowTables, request : PageRequest] :
     HandleGetResults(p.backend, p.rows, p.request).totalPages <= MaxResultsPage}

\* t has the rows of s and no other, once each.
TakenFrom(t, s) ==
  /\ t \in RowTables
  /\ \A n \in DOMAIN t : \E i \in DOMAIN s : t[n] = s[i]

\* t has c rows, of different places.
AtPlaces(t, rows, c, places) ==
  /\ t = [n \in 1 .. c |-> rows[places[n]]]
  /\ \A i, j \in 1 .. c : places[i] = places[j] => i = j

\* Rows that are taken one by one from different places are a table of rows.
LEMMA RowsAt ==
  ASSUME NEW rows \in RowTables, NEW c \in Nat, NEW places \in [1 .. c -> DOMAIN rows],
         NEW t, AtPlaces(t, rows, c, places)
  PROVE  TakenFrom(t, rows) /\ Len(t) = c
<1>1. rows \in Seq(ResultRow) /\ \A i, j \in DOMAIN rows : rows[i].id = rows[j].id => i = j
  BY DEF RowTables
<1>2. \A i \in DOMAIN rows : rows[i] \in ResultRow
  BY <1>1
<1> HIDE DEF ResultRow
<1>3. t \in [1 .. c -> ResultRow]
  BY <1>2 DEF AtPlaces
<1>4. t \in Seq(ResultRow) /\ Len(t) = c /\ DOMAIN t = 1 .. c
  BY <1>3
<1>5. \A n \in 1 .. c : t[n] = rows[places[n]] /\ places[n] \in DOMAIN rows
  BY DEF AtPlaces
<1>6. \A i, j \in 1 .. c : t[i].id = t[j].id => i = j
  BY <1>1, <1>5 DEF AtPlaces
<1> QED BY <1>4, <1>5, <1>6 DEF TakenFrom, RowTables

\* The rows that pass.
LEMMA PickedRows ==
  ASSUME NEW rows \in RowTables, NEW at \in SUBSET DOMAIN rows
  PROVE  TakenFrom(Picked(rows, at), rows) /\ Len(Picked(rows, at)) = Cardinality(at)
<1>1. at \subseteq Nat /\ IsFiniteSet(at)
  <2>1. DOMAIN rows = 1 .. Len(rows) /\ Len(rows) \in Nat
    BY DEF RowTables
  <2>2. IsFiniteSet(1 .. Len(rows)) /\ 1 .. Len(rows) \subseteq Nat
    BY <2>1, Places
  <2> QED BY <2>1, <2>2, FS_Subset
<1>2. PICK places : /\ Lists(places, at, Rising(at))
                    /\ Picked(rows, at) = [n \in 1 .. Cardinality(at) |-> rows[places[n]]]
                    /\ Cardinality(at) \in Nat
  BY <1>1, PickedLists
<1>3. places \in [1 .. Cardinality(at) -> DOMAIN rows]
      /\ \A i, j \in 1 .. Cardinality(at) : places[i] = places[j] => i = j
  BY <1>2 DEF Lists
<1>4. AtPlaces(Picked(rows, at), rows, Cardinality(at), places)
  BY <1>2, <1>3 DEF AtPlaces
<1> QED BY <1>2, <1>3, <1>4, RowsAt

\* Key a with id x is before key b with id y.
Before(a, x, b, y) == a < b \/ (a = b /\ x < y)

\* Either store compares numbers, of one row as of any other.
LEMMA KeysAreNumbers ==
  ASSUME NEW backend \in {"memory", "postgres"}, NEW field \in SortFields, NEW r \in ResultRow
  PROVE  KeyOf(backend, field, r) \in Nat /\ IdOf(backend, r) \in Nat
<1>1. r.id \in Texts /\ r.keys[field] \in Nat /\ (field \in TextFields => r.keys[field] \in Texts)
  BY DEF ResultRow, SortKeys
<1>2. {"source_name", "reference_id"} \subseteq TextFields
  BY DEF TextFields
<1>3. IdOf(backend, r) \in Nat
  BY <1>1, TextsAssumption DEF IdOf
<1>4. MemoryKey(field, r) \in Nat
  BY <1>1, <1>2, TextsAssumption DEF MemoryKey
<1>5. r.keys[field] \div Microsecond \in Nat
  BY <1>1, TextsAssumption
<1>6. PostgresKey(field, r) \in Nat
  BY <1>1, <1>5, TextsAssumption DEF PostgresKey
<1> QED BY <1>3, <1>4, <1>6 DEF KeyOf

\* The rows in the order that a store shows them in.
LEMMA SortedRows ==
  ASSUME NEW backend \in {"memory", "postgres"}, NEW rows \in RowTables, NEW q, q.sortBy \in SortFields
  PROVE  TakenFrom(Sorted(backend, rows, q), rows) /\ Len(Sorted(backend, rows, q)) = Len(rows)
<1> DEFINE S == DOMAIN rows
           R == Earlier(backend, rows, q)
           places == InOrder(S, R)
<1>1. S = 1 .. Len(rows) /\ Len(rows) \in Nat
  BY DEF RowTables
<1>2. IsFiniteSet(S) /\ Cardinality(S) = Len(rows) /\ S \subseteq Nat
  <2>1. IsFiniteSet(1 .. Len(rows)) /\ Cardinality(1 .. Len(rows)) = Len(rows)
    <3>1. Len(rows) \in Nat
      BY <1>1
    <3> HIDE DEF S
    <3> QED BY <3>1, Places
  <2> QED BY <1>1, <2>1
<1>3. \A i \in S : KeyOf(backend, q.sortBy, rows[i]) \in Nat /\ IdOf(backend, rows[i]) \in Nat
  <2>1. \A i \in S : rows[i] \in ResultRow
    BY DEF RowTables
  <2> QED BY <2>1, KeysAreNumbers
<1>4. \A i, j \in S : <<i, j>> \in R <=>
        Precedes(backend, q, rows[i], rows[j]) \/ (~Precedes(backend, q, rows[j], rows[i]) /\ i < j)
  <2> SUFFICES ASSUME NEW i \in S, NEW j \in S
               PROVE  <<i, j>> \in R <=>
                        Precedes(backend, q, rows[i], rows[j]) \/ (~Precedes(backend, q, rows[j], rows[i]) /\ i < j)
    BY Zenon
  <2>1. <<i, j>> \in S \X S /\ <<i, j>>[1] = i /\ <<i, j>>[2] = j
    OBVIOUS
  <2> QED BY <2>1 DEF Earlier
<1> HIDE DEF R, S
<1>5. OrdersAll(S, R)
  <2>1. \A i \in S : <<i, i>> \notin R
    BY <1>2, <1>3, <1>4 DEF Precedes
  <2>2. \A i, j \in S : i # j => <<i, j>> \in R \/ <<j, i>> \in R
    <3> SUFFICES ASSUME NEW i \in S, NEW j \in S, i # j PROVE <<i, j>> \in R \/ <<j, i>> \in R
      OBVIOUS
    <3>1. i < j \/ j < i
      BY <1>2
    <3> QED BY <1>4, <3>1
  <2>3. ASSUME NEW i \in S, NEW j \in S, NEW k \in S, <<i, j>> \in R, <<j, k>> \in R
        PROVE  <<i, k>> \in R
    <3>1. /\ \/ Precedes(backend, q, rows[i], rows[j])
             \/ ~Precedes(backend, q, rows[j], rows[i]) /\ i < j
          /\ \/ Precedes(backend, q, rows[j], rows[k])
             \/ ~Precedes(backend, q, rows[k], rows[j]) /\ j < k
      BY <1>4, <2>3
    <3>2. Precedes(backend, q, rows[i], rows[k]) \/ (~Precedes(backend, q, rows[k], rows[i]) /\ i < k)
      <4> DEFINE a == KeyOf(backend, q.sortBy, rows[i])  b == KeyOf(backend, q.sortBy, rows[j])
                 c == KeyOf(backend, q.sortBy, rows[k])
                 x == IdOf(backend, rows[i])  y == IdOf(backend, rows[j])  z == IdOf(backend, rows[k])
      <4>1. /\ a \in Nat /\ b \in Nat /\ c \in Nat /\ x \in Nat /\ y \in Nat /\ z \in Nat
            /\ i \in Nat /\ j \in Nat /\ k \in Nat
        BY <1>2, <1>3
      <4>2. CASE q.sortDir = "desc"
        <5>1. /\ Precedes(backend, q, rows[i], rows[j]) <=> Before(b, x, a, y)
              /\ Precedes(backend, q, rows[j], rows[i]) <=> Before(a, y, b, x)
              /\ Precedes(backend, q, rows[j], rows[k]) <=> Before(c, y, b, z)
              /\ Precedes(backend, q, rows[k], rows[j]) <=> Before(b, z, c, y)
              /\ Precedes(backend, q, rows[i], rows[k]) <=> Before(c, x, a, z)
              /\ Precedes(backend, q, rows[k], rows[i]) <=> Before(a, z, c, x)
          <6>1. \A u, v \in S : Precedes(backend, q, rows[u], rows[v])
                  <=> Before(KeyOf(backend, q.sortBy, rows[v]), IdOf(backend, rows[u]),
                             KeyOf(backend, q.sortBy, rows[u]), IdOf(backend, rows[v]))
            <7> SUFFICES ASSUME NEW u \in S, NEW v \in S
                         PROVE  Precedes(backend, q, rows[u], rows[v])
                                <=> Before(KeyOf(backend, q.sortBy, rows[v]), IdOf(backend, rows[u]),
                                           KeyOf(backend, q.sortBy, rows[u]), IdOf(backend, rows[v]))
              OBVIOUS
            <7> DEFINE s == KeyOf(backend, q.sortBy, rows[u])  t == KeyOf(backend, q.sortBy, rows[v])
            <7>1. s \in Nat /\ t \in Nat
              BY <1>3
            <7>2. Precedes(backend, q, rows[u], rows[v]) <=>
                    IF s = t THEN IdOf(backend, rows[u]) < IdOf(backend, rows[v])
                    ELSE IF q.sortDir = "desc" THEN t < s ELSE s < t
              BY Zenon DEF Precedes
            <7> HIDE DEF s, t
            <7> QED BY <7>1, <7>2, <4>2 DEF s, t, Before
          <6> QED BY <6>1
        <5> HIDE DEF a, b, c, x, y, z
        <5>2. /\ Before(b, x, a, y) \/ (~Before(a, y, b, x) /\ i < j)
              /\ Before(c, y, b, z) \/ (~Before(b, z, c, y) /\ j < k)
          BY <3>1, <5>1
        <5>3. Before(c, x, a, z) \/ (~Before(a, z, c, x) /\ i < k)
          BY <4>1, <5>2 DEF Before
        <5> QED BY <5>1, <5>3
      <4>3. CASE q.sortDir # "desc"
        <5>1. /\ Precedes(backend, q, rows[i], rows[j]) <=> Before(a, x, b, y)
              /\ Precedes(backend, q, rows[j], rows[i]) <=> Before(b, y, a, x)
              /\ Precedes(backend, q, rows[j], rows[k]) <=> Before(b, y, c, z)
              /\ Precedes(backend, q, rows[k], rows[j]) <=> Before(c, z, b, y)
              /\ Precedes(backend, q, rows[i], rows[k]) <=> Before(a, x, c, z)
              /\ Precedes(backend, q, rows[k], rows[i]) <=> Before(c, z, a, x)
          <6>1. \A u, v \in S : Precedes(backend, q, rows[u], rows[v])
                  <=> Before(KeyOf(backend, q.sortBy, rows[u]), IdOf(backend, rows[u]),
                             KeyOf(backend, q.sortBy, rows[v]), IdOf(backend, rows[v]))
            <7> SUFFICES ASSUME NEW u \in S, NEW v \in S
                         PROVE  Precedes(backend, q, rows[u], rows[v])
                                <=> Before(KeyOf(backend, q.sortBy, rows[u]), IdOf(backend, rows[u]),
                                           KeyOf(backend, q.sortBy, rows[v]), IdOf(backend, rows[v]))
              OBVIOUS
            <7> DEFINE s == KeyOf(backend, q.sortBy, rows[u])  t == KeyOf(backend, q.sortBy, rows[v])
            <7>1. s \in Nat /\ t \in Nat
              BY <1>3
            <7>2. Precedes(backend, q, rows[u], rows[v]) <=>
                    IF s = t THEN IdOf(backend, rows[u]) < IdOf(backend, rows[v])
                    ELSE IF q.sortDir = "desc" THEN t < s ELSE s < t
              BY Zenon DEF Precedes
            <7> HIDE DEF s, t
            <7> QED BY <7>1, <7>2, <4>3 DEF s, t, Before
          <6> QED BY <6>1
        <5> HIDE DEF a, b, c, x, y, z
        <5>2. /\ Before(a, x, b, y) \/ (~Before(b, y, a, x) /\ i < j)
              /\ Before(b, y, c, z) \/ (~Before(c, z, b, y) /\ j < k)
          BY <3>1, <5>1
        <5>3. Before(a, x, c, z) \/ (~Before(c, z, a, x) /\ i < k)
          BY <4>1, <5>2 DEF Before
        <5> QED BY <5>1, <5>3
      <4> QED BY <4>2, <4>3
    <3> QED BY <1>4, <3>2
  <2> QED BY <2>1, <2>2, <2>3 DEF OrdersAll
<1>6. Lists(places, S, R)
  <2> HIDE DEF places
  <2> QED BY <1>2, <1>5, InOrderLists DEF places
<1>7. Sorted(backend, rows, q) = [n \in DOMAIN places |-> rows[places[n]]]
  BY DEF Sorted, R, S
<1> HIDE DEF places
<1>8. places \in [1 .. Len(rows) -> S] /\ \A i, j \in 1 .. Len(rows) : places[i] = places[j] => i = j
  BY <1>2, <1>6 DEF Lists
<1>9. Sorted(backend, rows, q) = [n \in 1 .. Len(rows) |-> rows[places[n]]]
  BY <1>7, <1>8
<1>10. /\ places \in [1 .. Len(rows) -> DOMAIN rows] /\ Len(rows) \in Nat
       /\ \A i, j \in 1 .. Len(rows) : places[i] = places[j] => i = j
  BY <1>1, <1>8 DEF S
<1>11. AtPlaces(Sorted(backend, rows, q), rows, Len(rows), places)
  BY <1>9, <1>10 DEF AtPlaces
<1> QED BY <1>10, <1>11, RowsAt

Passing(backend, rows, request) ==
  {i \in DOMAIN rows : Passes(backend, Normalized(request), rows[i])}

\* All the rows that a client is shown, page after page.
Shown(backend, rows, request) ==
  Sorted(backend, Picked(rows, Passing(backend, rows, request)), Normalized(request))

\* part is the beginning of what is cut out of t behind the offset, n rows at most.
BeginsCut(part, t, offset, n) ==
  \A i \in DOMAIN part : i \in 1 .. n /\ offset + i \in 1 .. Len(t) /\ part[i] = t[offset + i]

\* The answer counts the rows, and its page is cut out of them.
CountsAndCuts(backend, rows, request) ==
  LET got   == HandleGetResults(backend, rows, request)
      n     == NormalizedLimit(request.limit)
      shown == Shown(backend, rows, request)
  IN /\ n \in 1 .. MaxResultsPageSize
     /\ TakenFrom(shown, rows)
     /\ Len(shown) = Cardinality(Passing(backend, rows, request))
     /\ got.total = Len(shown) /\ got.totalPages = TotalPages(Len(shown), n)
     /\ got.counts = CountResultsByStatus(rows, request.search)
     /\ got.page = PageNumber(request.page) /\ got.limit = n
     /\ (PageNumber(request.page) - 1) * n \in Nat
     /\ BeginsCut(got.rows, shown, (PageNumber(request.page) - 1) * n, n)
     /\ AllCanBeScanned(backend, rows, request) =>
          got.rows = Slice(shown, (PageNumber(request.page) - 1) * n, n)

\* What can be scanned of a page is its beginning.
LEMMA ScannedBegins ==
  ASSUME NEW page \in Seq(ResultRow)
  PROVE  \A i \in DOMAIN Scanned(page) : i \in DOMAIN page /\ Scanned(page)[i] = page[i]
<1>1. CASE Unreadable(page) = {}
  BY <1>1 DEF Scanned
<1>2. CASE Unreadable(page) # {}
  <2> DEFINE f == First(Unreadable(page))
  <2>1. f \in Unreadable(page)
    <3>1. Unreadable(page) \subseteq Nat
      BY DEF Unreadable
    <3>2. \E i \in Unreadable(page) : \A j \in Unreadable(page) : i <= j
      BY <1>2, <3>1, LeastNat
    <3> QED BY <3>2 DEF First
  <2>2. f \in 1 .. Len(page) /\ Len(page) \in Nat
    BY <2>1 DEF Unreadable
  <2> HIDE DEF f
  <2>3. Scanned(page) = SubSeq(page, 1, f - 1)
    BY <1>2 DEF Scanned, f
  <2>4. SubSeq(page, 1, f - 1) = [i \in 1 .. f - 1 |-> page[i]]
    BY <2>2
  <2> QED BY <2>2, <2>3, <2>4
<1> QED BY <1>1, <1>2

\* That is so of every answer.
LEMMA AnswerShows ==
  ASSUME NEW backend \in {"memory", "postgres"}, NEW rows \in RowTables, NEW request \in PageRequest
  PROVE  CountsAndCuts(backend, rows, request)
<1> DEFINE q == Normalized(request)
           n == NormalizedLimit(request.limit)
           at == Passing(backend, rows, request)
           found == Picked(rows, at)
           shown == Shown(backend, rows, request)
           page == PageNumber(request.page)
           offset == (page - 1) * n
           got == HandleGetResults(backend, rows, request)
<1>1. n \in 1 .. MaxResultsPageSize /\ n \in Nat \ {0}
  BY PageSizesAssumption DEF NormalizedLimit, Smaller, PageRequest
<1>2. page \in Nat \ {0}
  BY PageSizesAssumption DEF PageNumber, Smaller, PageRequest
<1>3. q.limit = n /\ q.sortBy \in SortFields /\ q.search = request.search
  BY DEF Normalized, SortFields
<1>4. TakenFrom(found, rows) /\ Len(found) = Cardinality(at)
  BY PickedRows DEF Passing
<1>5. found \in RowTables
  BY <1>4 DEF TakenFrom
<1>6. shown = Sorted(backend, found, q)
  BY DEF Shown
<1> HIDE DEF q, n, at, found, shown, page
<1>7. TakenFrom(shown, found) /\ Len(shown) = Len(found)
  BY <1>3, <1>5, <1>6, SortedRows
<1>8. TakenFrom(shown, rows)
  BY <1>4, <1>7 DEF TakenFrom
<1>9. offset \in Nat
  <2>1. offset \in Int /\ 0 <= offset
    BY <1>1, <1>2, TimesIsMonotonic
  <2> QED BY <2>1
<1>10. GetResultsPage(backend, rows, q, offset) =
         [rows |-> IF backend = "memory" THEN Slice(shown, offset, n)
                   ELSE Scanned(Slice(shown, offset, n)),
          total |-> Len(found)]
  <2>1. CASE backend = "memory"
    <3>1. found = Found("memory", rows, q)
      BY <2>1 DEF at, Passing, Found, found, q
    <3> QED BY <1>3, <1>6, <2>1, <3>1 DEF GetResultsPage, MemoryPage
  <2>2. CASE backend = "postgres"
    <3>1. found = Found("postgres", rows, q)
      BY <2>2 DEF at, Passing, Found, found, q
    <3> QED BY <1>3, <1>6, <2>2, <3>1 DEF GetResultsPage, PostgresPage
  <2> QED BY <2>1, <2>2
<1>11. got = [page |-> page, limit |-> n, total |-> Len(found),
              totalPages |-> TotalPages(Len(found), n),
              rows |-> IF backend = "memory" THEN Slice(shown, offset, n)
                       ELSE Scanned(Slice(shown, offset, n)),
              counts |-> CountResultsByStatus(rows, request.search)]
  BY <1>3, <1>10 DEF HandleGetResults, q, page
<1> DEFINE slice == Slice(shown, offset, n)
<1>12. CutOut(slice, shown, offset, n) /\ slice \in Seq(ResultRow)
  <2>1. shown \in Seq(ResultRow)
    BY <1>8 DEF TakenFrom, RowTables
  <2> HIDE DEF offset
  <2> QED BY <1>1, <1>9, <2>1, SliceElements
<1>13. ASSUME Unreadable(found) = {}
       PROVE  Scanned(slice) = slice
  <2> HIDE DEF slice, offset
  <2>1. \A i \in DOMAIN slice : slice[i].noted
    <3> SUFFICES ASSUME NEW i \in DOMAIN slice PROVE slice[i].noted
      OBVIOUS
    <3>1. slice[i] = shown[offset + i] /\ offset + i \in DOMAIN shown
      BY <1>8, <1>12 DEF CutOut, TakenFrom, RowTables
    <3>2. PICK j \in DOMAIN found : shown[offset + i] = found[j]
      BY <1>7, <3>1 DEF TakenFrom
    <3> QED BY <1>13, <3>1, <3>2 DEF Unreadable
  <2> QED BY <2>1 DEF Scanned, Unreadable
<1>15. AllCanBeScanned(backend, rows, request) => got.rows = slice
  <2>1. found = Found(backend, rows, q)
    BY DEF at, Passing, Found, found, q
  <2>2. AllCanBeScanned(backend, rows, request) => backend = "memory" \/ Unreadable(found) = {}
    BY <2>1 DEF AllCanBeScanned, q
  <2> QED BY <1>11, <1>13, <2>2
<1>16. BeginsCut(got.rows, shown, offset, n)
  <2> HIDE DEF slice, offset
  <2>1. BeginsCut(slice, shown, offset, n)
    BY <1>12 DEF CutOut, BeginsCut
  <2>2. \A i \in DOMAIN Scanned(slice) : i \in DOMAIN slice /\ Scanned(slice)[i] = slice[i]
    BY <1>12, ScannedBegins
  <2>3. BeginsCut(Scanned(slice), shown, offset, n)
    BY <2>1, <2>2 DEF BeginsCut
  <2>4. got.rows = slice \/ got.rows = Scanned(slice)
    BY <1>11 DEF slice, offset
  <2> QED BY <2>1, <2>3, <2>4
<1>14. /\ got.total = Len(shown) /\ got.totalPages = TotalPages(Len(shown), n)
       /\ got.counts = CountResultsByStatus(rows, request.search)
       /\ got.page = page /\ got.limit = n
  <2> HIDE DEF got
  <2> QED BY <1>7, <1>11
<1> HIDE DEF got
<1> QED BY <1>1, <1>2, <1>4, <1>7, <1>8, <1>9, <1>14, <1>15, <1>16
        DEF CountsAndCuts, got, n, at, page, shown

\* A client that turns the pages sees no row twice, and each of those that were counted
\* if they can all be scanned.
LEMMA RowsOnPages ==
  ASSUME NEW backend \in {"memory", "postgres"}, NEW rows \in RowTables, NEW request \in PageRequest,
         HandleGetResults(backend, rows, request).totalPages <= MaxResultsPage
  PROVE  /\ NoRowTwice(PagesOf(backend, rows, request))
         /\ AllCanBeScanned(backend, rows, request) => CountedRowsShown(backend, rows, request)
<1> DEFINE n == NormalizedLimit(request.limit)
           shown == Shown(backend, rows, request)
           asked(p) == [request EXCEPT !.page = p]
           first == HandleGetResults(backend, rows, asked(1))
           P == TotalPages(Len(shown), n)
           pages == PagesOf(backend, rows, request)
           scanned == AllCanBeScanned(backend, rows, request)
           places == PlacesOn(pages)
           at(s) == (s[1] - 1) * n + s[2]
<1>1. /\ n \in 1 .. MaxResultsPageSize /\ n \in Nat \ {0} /\ TakenFrom(shown, rows)
      /\ HandleGetResults(backend, rows, request).totalPages = P
  BY AnswerShows, PageSizesAssumption DEF CountsAndCuts
<1>2. ASSUME NEW p \in Nat \ {0}, p <= MaxResultsPage
      PROVE  /\ BeginsCut(HandleGetResults(backend, rows, asked(p)).rows, shown, (p - 1) * n, n)
             /\ scanned => HandleGetResults(backend, rows, asked(p)).rows = Slice(shown, (p - 1) * n, n)
             /\ HandleGetResults(backend, rows, asked(p)).totalPages = P
             /\ HandleGetResults(backend, rows, asked(p)).total = Len(shown)
             /\ (p - 1) * n \in Nat
  <2>1. asked(p) \in PageRequest
    BY DEF PageRequest
  <2>2. asked(p).limit = request.limit /\ asked(p).page = p
    BY DEF PageRequest
  <2>3. Normalized(asked(p)) = Normalized(request)
    BY DEF Normalized, PageRequest
  <2>4. Shown(backend, rows, asked(p)) = shown
    BY <2>3 DEF Shown, Passing
  <2>5. PageNumber(p) = p
    BY <1>2, PageSizesAssumption DEF PageNumber, Smaller
  <2>6. CountsAndCuts(backend, rows, asked(p))
    BY <2>1, AnswerShows
  <2>7. AllCanBeScanned(backend, rows, asked(p)) <=> scanned
    BY <2>3 DEF AllCanBeScanned
  <2> HIDE DEF asked, shown, scanned
  <2> QED BY <2>2, <2>4, <2>5, <2>6, <2>7 DEF CountsAndCuts
<1>3. Len(shown) \in Nat /\ DOMAIN shown = 1 .. Len(shown) /\ shown \in Seq(ResultRow)
      /\ \A i, j \in 1 .. Len(shown) : shown[i].id = shown[j].id => i = j
  BY <1>1 DEF TakenFrom, RowTables
<1>4. P \in Nat \ {0} /\ P <= MaxResultsPage
  BY <1>1, <1>3, PlacesOnPages
<1>5. first.totalPages = P /\ first.total = Len(shown)
  <2>1. 1 <= MaxResultsPage
    BY PageSizesAssumption
  <2> QED BY <1>2, <2>1
<1>6. pages = [p \in 1 .. P |-> HandleGetResults(backend, rows, asked(p)).rows]
  BY <1>5 DEF PagesOf
<1> HIDE DEF n, shown, first, P, asked, scanned
<1>7. /\ DOMAIN pages = 1 .. P
      /\ \A p \in 1 .. P : BeginsCut(pages[p], shown, (p - 1) * n, n)
      /\ \A p \in 1 .. P : scanned => pages[p] = Slice(shown, (p - 1) * n, n)
  <2>1. DOMAIN pages = 1 .. P
    BY <1>6
  <2>2. ASSUME NEW p \in 1 .. P
        PROVE  /\ BeginsCut(pages[p], shown, (p - 1) * n, n)
               /\ scanned => pages[p] = Slice(shown, (p - 1) * n, n)
    <3>1. p \in Nat \ {0} /\ p <= MaxResultsPage
      BY <1>4, PageSizesAssumption
    <3>2. pages[p] = HandleGetResults(backend, rows, asked(p)).rows
      BY <1>6
    <3> HIDE DEF pages
    <3> QED BY <1>2, <3>1, <3>2
  <2> QED BY <2>1, <2>2
<1> HIDE DEF pages
<1>8. ASSUME scanned, NEW p \in 1 .. P
      PROVE  CutOut(pages[p], shown, (p - 1) * n, n) /\ (p - 1) * n \in Nat
  <2> DEFINE offset == (p - 1) * n
  <2>1. offset \in Nat /\ n \in Nat
    BY <1>1, <1>2, <1>4, PageSizesAssumption
  <2>2. pages[p] = Slice(shown, offset, n)
    BY <1>7, <1>8
  <2> HIDE DEF offset
  <2>3. CutOut(pages[p], shown, offset, n)
    BY <1>3, <2>1, <2>2, SliceElements
  <2> QED BY <2>1, <2>3 DEF offset
<1>9. ASSUME NEW s \in places
      PROVE  /\ s[1] \in 1 .. P /\ s[2] \in 1 .. n /\ s = <<s[1], s[2]>>
             /\ at(s) \in 1 .. Len(shown) /\ pages[s[1]][s[2]] = shown[at(s)]
  <2>1. s[1] \in 1 .. P /\ s[2] \in 1 .. MaxResultsPageSize /\ s = <<s[1], s[2]>>
        /\ s[2] \in DOMAIN pages[s[1]]
    BY <1>7 DEF PlacesOn
  <2> DEFINE offset == (s[1] - 1) * n
  <2>2. BeginsCut(pages[s[1]], shown, offset, n)
    BY <1>7, <2>1
  <2>3. at(s) = offset + s[2]
    OBVIOUS
  <2> HIDE DEF offset, at
  <2>4. s[2] \in 1 .. n /\ at(s) \in 1 .. Len(shown) /\ pages[s[1]][s[2]] = shown[at(s)]
    BY <2>1, <2>2, <2>3 DEF BeginsCut
  <2> QED BY <2>1, <2>4
<1>10. ASSUME NEW s \in places, NEW t \in places, at(s) = at(t)
       PROVE  s = t
  <2> DEFINE p == s[1]  q == s[2]  r == t[1]  u == t[2]
  <2>1. /\ p \in Nat \ {0} /\ r \in Nat \ {0} /\ q \in 1 .. n /\ u \in 1 .. n
        /\ s = <<p, q>> /\ t = <<r, u>>
    BY <1>4, <1>9
  <2>2. (p - 1) * n + q = (r - 1) * n + u
    BY <1>10
  <2> HIDE DEF p, q, r, u, at, places
  <2>3. p = r /\ q = u
    BY <1>1, <2>1, <2>2, OnePageOnly
  <2> QED BY <2>1, <2>3
<1>11. ASSUME scanned, NEW i \in 1 .. Len(shown)
       PROVE  \E s \in places : at(s) = i
  <2>1. PICK p \in 1 .. P, q \in 1 .. n : i = (p - 1) * n + q
    <3>1. \A j \in 1 .. Len(shown) : \E p \in 1 .. P, q \in 1 .. n : j = (p - 1) * n + q
      BY <1>1, <1>3, PlacesOnPages DEF P
    <3> QED BY <3>1
  <2> DEFINE offset == (p - 1) * n
  <2>2. CutOut(pages[p], shown, offset, n) /\ offset \in Nat /\ i = offset + q
    BY <1>8, <1>11, <2>1
  <2> HIDE DEF offset
  <2>3. q \in DOMAIN pages[p]
    BY <1>1, <2>2 DEF CutOut
  <2>4. <<p, q>> \in places
    BY <1>1, <1>7, <2>3, PageSizesAssumption DEF PlacesOn
  <2>5. at(<<p, q>>) = i
    BY <2>1
  <2> HIDE DEF at, places
  <2> QED BY <2>4, <2>5
<1> HIDE DEF places
<1>12. NoRowTwice(pages)
  <2> SUFFICES ASSUME NEW s \in places, NEW t \in places,
                      pages[s[1]][s[2]].id = pages[t[1]][t[2]].id
               PROVE  s = t
    BY DEF NoRowTwice, places
  <2> HIDE DEF at
  <2>1. at(s) = at(t)
    BY <1>3, <1>9
  <2> QED BY <1>10, <2>1
<1>13. ASSUME scanned
       PROVE  Cardinality(places) = Len(shown)
  <2> DEFINE f == [s \in places |-> at(s)]
  <2>1. f \in [places -> 1 .. Len(shown)]
    BY <1>9
  <2>2. \A s \in places : f[s] = at(s)
    OBVIOUS
  <2> HIDE DEF f, at
  <2>3. f \in Bijection(places, 1 .. Len(shown))
    BY <1>10, <1>11, <1>13, <2>1, <2>2 DEF Bijection, Injection, Surjection, IsInjective
  <2>4. IsFiniteSet(1 .. Len(shown)) /\ Cardinality(1 .. Len(shown)) = Len(shown)
    BY <1>3, Places
  <2>5. ExistsBijection(1 .. Len(shown), places)
    <3>1. ExistsBijection(places, 1 .. Len(shown))
      BY <2>3 DEF ExistsBijection
    <3> QED BY <3>1, Fun_ExistsBijSymmetric
  <2> QED BY <2>4, <2>5, FS_Bijection
<1>14. scanned => Cardinality(places) = first.total
  BY <1>5, <1>13
<1> QED BY <1>12, <1>14 DEF CountedRowsShown, places, pages, first, asked, scanned

\* Elements that are counted by their labels, added up.
LEMMA SumOfCounts ==
  ASSUME NEW F, IsFiniteSet(F), NEW label, NEW T, IsFiniteSet(T), NEW f,
         \A x \in T : f[x] = Cardinality({i \in F : label[i] = x})
  PROVE  SumFunctionOnSet(f, T) = Cardinality({i \in F : label[i] \in T})
<1> DEFINE of(s) == {i \in F : label[i] \in s}
           one(x) == {i \in F : label[i] = x}
<1>1. ASSUME NEW s PROVE IsFiniteSet(of(s)) /\ Cardinality(of(s)) \in Nat
  <2>1. of(s) \subseteq F
    OBVIOUS
  <2> HIDE DEF of
  <2>2. IsFiniteSet(of(s))
    BY <2>1, FS_Subset
  <2> QED BY <2>2, FS_CardinalityType
<1>2. ASSUME NEW x PROVE IsFiniteSet(one(x)) /\ Cardinality(one(x)) \in Nat
  <2>1. one(x) \subseteq F
    OBVIOUS
  <2> HIDE DEF one
  <2>2. IsFiniteSet(one(x))
    BY <2>1, FS_Subset
  <2> QED BY <2>2, FS_CardinalityType
<1>3. \A x \in T : f[x] \in Nat
  BY <1>2
<1>4. PICK sum : /\ sum \in [SUBSET T -> Nat]
                 /\ sum[{}] = 0
                 /\ \A s \in SUBSET T : s # {} => \E x \in s : sum[s] = f[x] + sum[s \ {x}]
                 /\ SumFunctionOnSet(f, T) = sum[T]
  BY <1>3, SumRecursion
<1> DEFINE M == {m \in Nat : \A s \in SUBSET T : Cardinality(s) = m => sum[s] = Cardinality(of(s))}
<1>5. 0 \in M
  <2> SUFFICES ASSUME NEW s \in SUBSET T, Cardinality(s) = 0 PROVE sum[s] = Cardinality(of(s))
    OBVIOUS
  <2>1. IsFiniteSet(s)
    BY FS_Subset
  <2>2. s = {}
    BY <2>1, FS_EmptySet
  <2>3. of(s) = {}
    BY <2>2
  <2>4. Cardinality({}) = 0
    BY FS_EmptySet
  <2> HIDE DEF of
  <2> QED BY <1>4, <2>2, <2>3, <2>4
<1>6. ASSUME NEW m \in Nat, m \in M
      PROVE  m + 1 \in M
  <2> SUFFICES ASSUME NEW s \in SUBSET T, Cardinality(s) = m + 1
               PROVE  sum[s] = Cardinality(of(s))
    OBVIOUS
  <2>1. s # {}
    <3>1. Cardinality({}) = 0
      BY FS_EmptySet
    <3> QED BY <3>1
  <2>2. PICK x \in s : sum[s] = f[x] + sum[s \ {x}]
    BY <1>4, <2>1
  <2>3. Cardinality(s \ {x}) = m
    <3>1. IsFiniteSet(s)
      BY FS_Subset
    <3>2. Cardinality(s \ {x}) = Cardinality(s) - 1
      BY <3>1, FS_RemoveElement
    <3> QED BY <3>2
  <2>4. sum[s \ {x}] = Cardinality(of(s \ {x}))
    BY <1>6, <2>3
  <2>5. of(s) = one(x) \cup of(s \ {x}) /\ one(x) \cap of(s \ {x}) = {}
    OBVIOUS
  <2>6. f[x] = Cardinality(one(x))
    OBVIOUS
  <2> HIDE DEF of, one
  <2>7. Cardinality(of(s)) = Cardinality(one(x)) + Cardinality(of(s \ {x}))
    <3>1. Cardinality(one(x) \cup of(s \ {x}))
            = Cardinality(one(x)) + Cardinality(of(s \ {x})) - Cardinality(one(x) \cap of(s \ {x}))
      BY <1>1, <1>2, FS_Union
    <3>2. Cardinality(one(x) \cap of(s \ {x})) = 0
      BY <2>5, FS_EmptySet
    <3> QED BY <1>1, <1>2, <2>5, <3>1, <3>2
  <2> QED BY <2>2, <2>4, <2>6, <2>7
<1>7. Nat \subseteq M
  <2> HIDE DEF M
  <2> QED BY <1>5, <1>6, NatInd
<1>8. Cardinality(T) \in Nat
  BY FS_CardinalityType
<1>9. sum[T] = Cardinality(of(T))
  BY <1>7, <1>8
<1> QED BY <1>4, <1>9

\* The number on a tab is the number of rows that it shows.
LEMMA TabsCount ==
  ASSUME NEW backend \in {"memory", "postgres"}, NEW rows \in RowTables, NEW request \in PageRequest
  PROVE  TabsAreCounted(backend, rows, request)
<1> DEFINE found == {i \in DOMAIN rows : InSearch(request.search, rows[i])}
           label == [i \in DOMAIN rows |-> rows[i].status]
           counts == CountResultsByStatus(rows, request.search)
           tab == IF InStatus(request.status, [status |-> ""]) THEN DOMAIN counts
                  ELSE DOMAIN counts \cap {request.status}
<1> SUFFICES ASSUME ~request.rank1Only
             PROVE  HandleGetResults(backend, rows, request).total = SumFunctionOnSet(counts, tab)
  <2>1. HandleGetResults(backend, rows, request).counts = counts
    BY AnswerShows DEF CountsAndCuts
  <2> HIDE DEF counts
  <2> QED BY <2>1 DEF TabsAreCounted
<1>1. IsFiniteSet(DOMAIN rows)
  <2>1. DOMAIN rows = 1 .. Len(rows) /\ Len(rows) \in Nat
    BY DEF RowTables
  <2>2. IsFiniteSet(1 .. Len(rows))
    BY <2>1, Places
  <2> QED BY <2>1, <2>2
<1>2. IsFiniteSet(found) /\ found \subseteq DOMAIN rows
  BY <1>1, FS_Subset
<1>3. DOMAIN counts = {rows[i].status : i \in found}
      /\ \A s \in DOMAIN counts : counts[s] = Cardinality({i \in found : rows[i].status = s})
  BY DEF CountResultsByStatus
<1>4. \A i \in found : label[i] = rows[i].status
  OBVIOUS
<1> HIDE DEF label, counts
<1>5. IsFiniteSet(DOMAIN counts)
  <2> HIDE DEF found
  <2>1. IsFiniteSet({rows[i].status : i \in found})
    <3> DEFINE f == [i \in found |-> rows[i].status]
               T == {rows[i].status : i \in found}
    <3>1. f \in Surjection(found, T)
      BY DEF Surjection
    <3> HIDE DEF f, T
    <3>2. IsFiniteSet(T)
      BY <1>2, <3>1, FS_Surjection
    <3> QED BY <3>2 DEF T
  <2> QED BY <1>3, <2>1
<1>6. IsFiniteSet(tab) /\ tab \subseteq DOMAIN counts
  BY <1>5, FS_Subset
<1> HIDE DEF tab
<1>7. \A s \in tab : counts[s] = Cardinality({i \in found : label[i] = s})
  <2> SUFFICES ASSUME NEW s \in tab
               PROVE  counts[s] = Cardinality({i \in found : label[i] = s})
    OBVIOUS
  <2>1. {i \in found : label[i] = s} = {i \in found : rows[i].status = s}
    BY <1>4
  <2> QED BY <1>3, <1>6, <2>1
<1>8. SumFunctionOnSet(counts, tab) = Cardinality({i \in found : label[i] \in tab})
  <2> HIDE DEF found
  <2> QED BY <1>2, <1>6, <1>7, SumOfCounts
<1>9. {i \in found : label[i] \in tab} = Passing(backend, rows, request)
  <2>1. ASSUME NEW i \in DOMAIN rows
        PROVE  Passes(backend, Normalized(request), rows[i])
                 <=> InStatus(request.status, rows[i]) /\ InSearch(request.search, rows[i])
    BY DEF Passes, MemoryPasses, PostgresPasses, Normalized
  <2>2. ASSUME NEW i \in found
        PROVE  label[i] \in tab <=> InStatus(request.status, rows[i])
    <3>1. rows[i].status \in DOMAIN counts
      BY <1>3
    <3>2. rows[i].status # ""
      <4>1. rows[i] \in ResultRow
        BY DEF RowTables
      <4> QED BY <4>1 DEF ResultRow, RowStatus
    <3>3. InStatus(request.status, [status |-> ""]) <=> request.status \in {"", "ALL"}
      BY DEF InStatus
    <3>4. InStatus(request.status, rows[i])
            <=> request.status \in {"", "ALL"} \/ rows[i].status = request.status
      BY DEF InStatus
    <3> QED BY <1>4, <3>1, <3>3, <3>4 DEF tab
  <2> QED BY <2>1, <2>2 DEF Passing
<1>10. HandleGetResults(backend, rows, request).total = Cardinality(Passing(backend, rows, request))
  BY AnswerShows DEF CountsAndCuts
<1> QED BY <1>8, <1>9, <1>10

----------------------------------------------------------------------------
(* Ingest. *)

\* Sources whose tables hold rows of the set Rows.
SourcesOver(Rows) ==
  [type : STRING, tables : Seq(Seq(Rows)) \ {<< >>}, explicit : BOOLEAN, key : BOOLEAN,
   columns : SUBSET ColumnTypes, name : Names,
   reachable : BOOLEAN, carried : BOOLEAN, confined : BOOLEAN]

IngestProblemsOver(Rows) ==
  [request : [source : SourcesOver(Rows), destination : SourcesOver(Rows),
              mapping : BOOLEAN, saves : BOOLEAN],
   env : Int, handle : {"upload", "connector"}]

ReadingsOver(Rows) == [rows : Seq(Rows), offset : Nat, calls : Nat, done : BOOLEAN]

\* A failure is told from what was read.
FailureIsNoAnswer(Rows) ==
  Failed \notin Seq(Rows) \cup ReadingsOver(Rows) \cup [rows : Seq(Rows), truncated : BOOLEAN]

\* All of a sequence, picked, is the sequence.
LEMMA PickedAll ==
  ASSUME NEW S, NEW seq \in Seq(S)
  PROVE  Picked(seq, DOMAIN seq) = seq
<1> DEFINE at == DOMAIN seq
           c == Len(seq)
           same == [i \in 1 .. c |-> i]
<1>1. at = 1 .. c /\ c \in Nat
  OBVIOUS
<1>2. IsFiniteSet(1 .. c) /\ Cardinality(1 .. c) = c
  <2>1. c \in Nat
    BY <1>1
  <2> HIDE DEF c
  <2> QED BY <2>1, Places
<1> HIDE DEF at, c
<1>3. IsFiniteSet(at) /\ Cardinality(at) = c /\ at \subseteq Nat
  BY <1>1, <1>2
<1>4. PICK places : /\ Lists(places, at, Rising(at))
                    /\ Picked(seq, at) = [n \in 1 .. Cardinality(at) |-> seq[places[n]]]
                    /\ Cardinality(at) \in Nat
  <2>1. at \subseteq DOMAIN seq
    BY DEF at
  <2> QED BY <1>3, <2>1, PickedLists
<1>5. \A i, j \in at : <<i, j>> \in Rising(at) <=> i < j
  BY DEF Rising
<1>6. OrdersAll(at, Rising(at))
  BY <1>3, <1>5 DEF OrdersAll
<1>7. Lists(same, at, Rising(at))
  BY <1>1, <1>3, <1>5 DEF Lists
<1>8. places = same
  <2> HIDE DEF same
  <2> QED BY <1>3, <1>4, <1>6, <1>7, ListsUnique
<1>9. Picked(seq, at) = [n \in 1 .. c |-> seq[n]]
  BY <1>3, <1>4, <1>8
<1>10. seq = [n \in 1 .. c |-> seq[n]]
  BY DEF c
<1> QED BY <1>9, <1>10 DEF at

\* Tables that only grow: each begins like the ones before it.
LEMMA TablesGrow ==
  ASSUME NEW Rows, NEW source \in SourcesOver(Rows), OnlyGrew(source), NEW k \in Nat \ {0}
  PROVE  LET first == source.tables[1]
             table == TableAt(source, k)
             last  == source.tables[Len(source.tables)]
         IN /\ first \in Seq(Rows) /\ table \in Seq(Rows) /\ last \in Seq(Rows)
            /\ Len(first) <= Len(table) /\ Len(table) <= Len(last)
            /\ \A i \in 1 .. Len(table) : table[i] = last[i]
            /\ \A i \in DOMAIN table : table[i].decodes
<1> DEFINE tables == source.tables
           N == Len(tables)
           Begins(a, b) == Len(tables[a]) <= Len(tables[b])
                           /\ \A i \in 1 .. Len(tables[a]) : tables[a][i] = tables[b][i]
<1>1. tables \in Seq(Seq(Rows)) /\ tables # << >>
  BY DEF SourcesOver
<1>2. N \in Nat \ {0} /\ \A a \in 1 .. N : tables[a] \in Seq(Rows)
  BY <1>1
<1>3. /\ \A a \in 1 .. N - 1 : Prefix(tables[a], tables[a + 1])
      /\ \A a \in 1 .. N : \A i \in DOMAIN tables[a] : tables[a][i].decodes
  <2>1. DOMAIN tables = 1 .. N
    BY <1>1
  <2>2. \A a \in 1 .. N - 1 : Prefix(tables[a], tables[a + 1])
    BY Zenon DEF OnlyGrew
  <2>3. \A a \in DOMAIN tables : \A i \in DOMAIN tables[a] : tables[a][i].decodes
    BY Zenon DEF OnlyGrew
  <2> HIDE DEF tables, N
  <2> QED BY <2>1, <2>2, <2>3
<1> HIDE DEF tables, N
<1>4. ASSUME NEW a \in 1 .. N - 1 PROVE Begins(a, a + 1)
  <2>1. a \in 1 .. N /\ a + 1 \in 1 .. N
    BY <1>2
  <2>2. tables[a] \in Seq(Rows) /\ tables[a + 1] \in Seq(Rows)
    BY <1>2, <2>1
  <2>3. Len(tables[a]) <= Len(tables[a + 1])
        /\ tables[a] = SubSeq(tables[a + 1], 1, Len(tables[a]))
    BY <1>3 DEF Prefix
  <2> DEFINE s == tables[a]  t == tables[a + 1]
  <2> HIDE DEF s, t
  <2>4. \A i \in 1 .. Len(s) : SubSeq(t, 1, Len(s))[i] = t[i]
    BY <2>2, <2>3 DEF s, t
  <2> QED BY <2>3, <2>4 DEF s, t
<1> DEFINE M == {m \in Nat : \A a \in 1 .. N : a + m <= N => Begins(a, a + m)}
<1>5. 0 \in M
  <2> SUFFICES ASSUME NEW a \in 1 .. N PROVE Begins(a, a + 0)
    OBVIOUS
  <2>1. a + 0 = a /\ Len(tables[a]) \in Nat
    BY <1>2
  <2> QED BY <2>1
<1>6. ASSUME NEW m \in Nat, m \in M PROVE m + 1 \in M
  <2> SUFFICES ASSUME NEW a \in 1 .. N, a + (m + 1) <= N PROVE Begins(a, a + (m + 1))
    OBVIOUS
  <2>1. a + m \in 1 .. N - 1 /\ a + (m + 1) = (a + m) + 1 /\ a + m <= N
    BY <1>2
  <2>2. Begins(a, a + m) /\ Begins(a + m, (a + m) + 1)
    BY <1>4, <1>6, <2>1
  <2> DEFINE b == a + m  c == (a + m) + 1
  <2>3. /\ Len(tables[a]) \in Nat /\ Len(tables[b]) \in Nat /\ Len(tables[c]) \in Nat
    BY <1>2, <2>1
  <2>4. Begins(a, b) /\ Begins(b, c)
    BY <2>2
  <2> HIDE DEF b, c
  <2>5. Begins(a, c)
    <3> DEFINE s == tables[a]  t == tables[b]  u == tables[c]
    <3>1. /\ Len(s) <= Len(t) /\ Len(t) <= Len(u)
          /\ \A i \in 1 .. Len(s) : s[i] = t[i]
          /\ \A i \in 1 .. Len(t) : t[i] = u[i]
          /\ Len(s) \in Nat /\ Len(t) \in Nat /\ Len(u) \in Nat
      BY <2>3, <2>4
    <3> HIDE DEF s, t, u
    <3>2. Len(s) <= Len(u) /\ \A i \in 1 .. Len(s) : i \in 1 .. Len(t)
      BY <3>1
    <3>3. \A i \in 1 .. Len(s) : s[i] = u[i]
      BY <3>1, <3>2
    <3> QED BY <3>2, <3>3 DEF s, t, u
  <2> QED BY <2>1, <2>5 DEF c
<1>7. \A a, b \in 1 .. N : a <= b => Begins(a, b)
  <2>1. Nat \subseteq M
    <3> HIDE DEF M
    <3> QED BY <1>5, <1>6, NatInd
  <2> SUFFICES ASSUME NEW a \in 1 .. N, NEW b \in 1 .. N, a <= b PROVE Begins(a, b)
    OBVIOUS
  <2>2. b - a \in Nat /\ a + (b - a) = b
    BY <1>2
  <2>3. b - a \in M
    BY <2>1, <2>2
  <2>4. \A d \in 1 .. N : d + (b - a) <= N => Begins(d, d + (b - a))
    BY <2>3
  <2> HIDE DEF Begins, M
  <2>5. Begins(a, a + (b - a))
    BY <1>2, <2>2, <2>4
  <2> QED BY <2>2, <2>5
<1> DEFINE at == Least(k, N)
<1>8. at \in 1 .. N /\ 1 \in 1 .. N /\ N \in 1 .. N /\ 1 <= at /\ at <= N
  BY <1>2 DEF Least
<1>9. TableAt(source, k) = tables[at]
  BY DEF TableAt, N, tables
<1>10. Begins(1, at) /\ Begins(at, N)
  <2> HIDE DEF Begins, at
  <2> QED BY <1>7, <1>8
<1>11. \A i \in DOMAIN tables[at] : tables[at][i].decodes
  BY <1>3, <1>8
<1> HIDE DEF at
<1> QED BY <1>2, <1>8, <1>9, <1>10, <1>11 DEF tables, N

\* A call returns what the table it finds has at that place, or fails.
LEMMA FetchReads ==
  ASSUME NEW Rows, NEW source \in SourcesOver(Rows), OnlyGrew(source), NEW k \in Nat \ {0},
         NEW limit \in 1 .. MaxLimit, NEW offset \in Nat
  PROVE  \/ FetchRecords(source, k, limit, offset) = Failed
         \/ /\ FetchRecords(source, k, limit, offset) \in Seq(Rows)
            /\ CutOut(FetchRecords(source, k, limit, offset), TableAt(source, k), offset, limit)
<1> DEFINE table == TableAt(source, k)
           page == Window(table, offset, limit)
           got == FetchRecords(source, k, limit, offset)
<1>1. table \in Seq(Rows) /\ \A i \in DOMAIN table : table[i].decodes
  BY TablesGrow
<1>2. MaxLimit \in Nat /\ limit \in Nat \ {0}
  BY IngestAssumption
<1>3. ClampLimit(limit) = limit /\ FromZero(offset) = offset
  BY <1>2 DEF ClampLimit, FromZero, Least
<1> HIDE DEF table
<1>4. page = Slice(table, offset, limit)
  BY DEF Window, Slice, Least, Smaller
<1>5. page \in Seq(Rows) /\ CutOut(page, table, offset, limit)
  BY <1>1, <1>2, <1>4, SliceElements
<1> HIDE DEF page
<1>6. \A i \in DOMAIN page : page[i].decodes
  <2> SUFFICES ASSUME NEW i \in DOMAIN page PROVE page[i].decodes
    OBVIOUS
  <2>1. offset + i \in 1 .. Len(table) /\ page[i] = table[offset + i]
    BY <1>5 DEF CutOut
  <2> QED BY <1>1, <2>1
<1>7. Picked(page, {i \in DOMAIN page : page[i].decodes}) = page
  <2>1. {i \in DOMAIN page : page[i].decodes} = DOMAIN page
    BY <1>6
  <2> QED BY <1>5, <2>1, PickedAll
<1>8. got \in {Failed, page}
  <2>1. PostgresFetch(source, table, limit, offset) \in {Failed, page}
    BY <1>3 DEF PostgresFetch, page
  <2>2. SqlServerFetch(source, table, limit, offset) \in {Failed, page}
    BY <1>3 DEF SqlServerFetch, page
  <2>3. MongoFetch(source, table, limit, offset) \in {Failed, page}
    BY <1>3, <1>7 DEF MongoFetch, page
  <2>4. CsvFetch(source, table, limit, offset) \in {Failed, page}
    BY <1>3 DEF CsvFetch, page
  <2>5. ExcelFetch(source, table, limit, offset) \in {Failed, page}
    BY <1>3 DEF ExcelFetch, page
  <2>6. CarriedFetch(table, limit, offset) \in {Failed, page}
    <3>1. ~(limit <= 0)
      BY <1>2
    <3> QED BY <1>3, <3>1 DEF CarriedFetch, page
  <2> DEFINE type == ConnectorOf(source.type)
  <2> HIDE DEF type
  <2>7. got = CASE type = "POSTGRES"                 -> PostgresFetch(source, table, limit, offset)
                [] type = "SQLSERVER"                -> SqlServerFetch(source, table, limit, offset)
                [] type = "MONGODB"                  -> MongoFetch(source, table, limit, offset)
                [] type = "CSV" /\ ~source.carried   -> CsvFetch(source, table, limit, offset)
                [] type = "EXCEL" /\ ~source.carried -> ExcelFetch(source, table, limit, offset)
                [] OTHER                             -> CarriedFetch(table, limit, offset)
    BY DEF FetchRecords, type, table
  <2> HIDE DEF got
  <2> QED BY <2>1, <2>2, <2>3, <2>4, <2>5, <2>6, <2>7
<1> HIDE DEF got
<1> QED BY <1>5, <1>8 DEF got, table

\* What has been read is how the last table begins; a source that had no more to
\* give has given all that it had at the start; and each round has read something.
ReadsOn(source, max, n, st) ==
  LET first == source.tables[1]  last == source.tables[Len(source.tables)] IN
  /\ Len(st.rows) <= Len(last) /\ \A i \in 1 .. Len(st.rows) : st.rows[i] = last[i]
  /\ st.offset = Len(st.rows) /\ Len(st.rows) <= max
  /\ st.done => Len(first) <= Len(st.rows)
  /\ st.done \/ Len(st.rows) >= max \/ Len(st.rows) >= n

\* What two lists make when they are joined.
LEMMA Joined ==
  ASSUME NEW S, NEW s \in Seq(S), NEW t \in Seq(S)
  PROVE  /\ s \o t \in Seq(S) /\ Len(s \o t) = Len(s) + Len(t)
         /\ Len(s) \in Nat /\ Len(t) \in Nat
         /\ \A i \in 1 .. Len(s) + Len(t) :
              (s \o t)[i] = IF i <= Len(s) THEN s[i] ELSE t[i - Len(s)]
  OBVIOUS

\* One more page.
LEMMA FetchNextReadsOn ==
  ASSUME NEW Rows, NEW source \in SourcesOver(Rows), OnlyGrew(source), FailureIsNoAnswer(Rows),
         NEW max \in Nat \ {0}, NEW n \in Nat, NEW st \in ReadingsOver(Rows),
         ReadsOn(source, max, n, st)
  PROVE  \/ Round(source, max, st) = Failed
         \/ /\ Round(source, max, st) \in ReadingsOver(Rows)
            /\ ReadsOn(source, max, n + 1, Round(source, max, st))
<1> DEFINE first == source.tables[1]
           last == source.tables[Len(source.tables)]
           table == TableAt(source, st.calls + 1)
           size == FetchSize(max, st)
           page == FetchRecords(source, st.calls + 1, size, st.offset)
           new == Round(source, max, st)
           read == Len(st.rows)
<1>1. /\ st.rows \in Seq(Rows) /\ st.offset \in Nat /\ st.calls \in Nat /\ st.done \in BOOLEAN
      /\ read \in Nat /\ st # Failed
  BY DEF ReadingsOver, FailureIsNoAnswer
<1>2. /\ read <= Len(last) /\ \A i \in 1 .. read : st.rows[i] = last[i]
      /\ st.offset = read /\ read <= max
      /\ st.done => Len(first) <= read
      /\ st.done \/ read >= max \/ read >= n
  BY DEF ReadsOn
<1>3. /\ first \in Seq(Rows) /\ table \in Seq(Rows) /\ last \in Seq(Rows)
      /\ Len(first) <= Len(table) /\ Len(table) <= Len(last)
      /\ \A i \in 1 .. Len(table) : table[i] = last[i]
  <2>1. st.calls + 1 \in Nat \ {0}
    BY <1>1
  <2> QED BY <2>1, TablesGrow
<1>4. Len(first) \in Nat /\ Len(table) \in Nat /\ Len(last) \in Nat
  BY <1>3
<1>5. CASE st.done \/ read >= max
  <2>1. new = st
    BY <1>1, <1>5 DEF Round
  <2>2. ReadsOn(source, max, n + 1, st)
    BY <1>2, <1>5 DEF ReadsOn
  <2> QED BY <2>1, <2>2
<1>6. CASE ~(st.done \/ read >= max) /\ page = Failed
  <2>1. new = Failed
    BY <1>1, <1>6 DEF Round, FetchNext, Advance, After
  <2> QED BY <2>1
<1>7. CASE ~(st.done \/ read >= max) /\ page # Failed
  <2> DEFINE rows == st.rows \o page
             after == Reading(rows, st.offset + Len(page), st.calls + 1, Len(page) < size)
  <2>1. new = after
    BY <1>1, <1>7 DEF Round, FetchNext, Advance, After
  <2>0. size = Least(IngestPageSize, max - read) /\ read = Len(st.rows)
    BY DEF FetchSize
  <2>2. size \in 1 .. MaxLimit /\ size \in Nat \ {0} /\ read + size <= max
    <3>1. ~(read >= max) /\ read \in Nat
      BY <1>1, <1>7
    <3>2. size = Least(IngestPageSize, max - read)
      BY <2>0
    <3> HIDE DEF size, read
    <3>3. IngestPageSize \in Int /\ 1 <= IngestPageSize /\ IngestPageSize <= MaxLimit
          /\ MaxLimit \in Int
      BY IngestAssumption
    <3>4. max - read \in Int /\ 1 <= max - read
      BY <3>1
    <3>5. size \in Int /\ 1 <= size /\ size <= MaxLimit /\ size <= max - read
      BY <3>2, <3>3, <3>4 DEF Least
    <3> QED BY <3>1, <3>3, <3>5
  <2>3. page \in Seq(Rows) /\ CutOut(page, table, read, size)
    <3>1. st.calls + 1 \in Nat \ {0} /\ st.offset = read
      BY <1>1, <1>2
    <3> HIDE DEF size
    <3> QED BY <1>1, <1>7, <2>2, <3>1, FetchReads
  <2> HIDE DEF page, size, table, first, last, new, read
  <2>4. Len(page) \in Nat /\ DOMAIN page = 1 .. Len(page)
    BY <2>3
  <2>5. Len(page) <= size /\ read + Len(page) <= max
        /\ (Len(page) > 0 => read + Len(page) <= Len(table))
    <3>1. Len(page) > 0 => Len(page) \in DOMAIN page
      BY <2>4
    <3>2. Len(page) > 0 => Len(page) <= size /\ read + Len(page) <= Len(table)
      BY <1>1, <1>4, <2>3, <3>1 DEF CutOut
    <3> QED BY <1>1, <2>2, <2>4, <3>2
  <2>6. Len(page) < size => Len(table) <= read + Len(page)
    <3> SUFFICES ASSUME Len(page) < size, Len(table) > read + Len(page) PROVE FALSE
      BY <1>1, <1>4, <2>4
    <3> DEFINE q == Len(page) + 1
    <3>1. q \in Nat \ {0} /\ q <= size /\ read + q <= Len(table) /\ q \notin DOMAIN page
      BY <1>1, <1>4, <2>2, <2>4
    <3> HIDE DEF q
    <3> QED BY <2>3, <3>1 DEF CutOut
  <2>7. /\ rows \in Seq(Rows) /\ Len(rows) = read + Len(page)
        /\ \A i \in 1 .. read + Len(page) :
             rows[i] = IF i <= read THEN st.rows[i] ELSE page[i - read]
    BY <1>1, <2>0, <2>3, Joined
  <2> HIDE DEF rows
  <2>8. \A i \in 1 .. Len(rows) : rows[i] = last[i]
    <3> SUFFICES ASSUME NEW i \in 1 .. Len(rows) PROVE rows[i] = last[i]
      OBVIOUS
    <3>1. CASE i <= read
      <4>1. i \in 1 .. read /\ i \in 1 .. read + Len(page)
        BY <1>1, <2>4, <2>7, <3>1
      <4>2. rows[i] = st.rows[i]
        BY <2>7, <3>1, <4>1
      <4> QED BY <1>2, <4>1, <4>2
    <3>2. CASE ~(i <= read)
      <4> DEFINE q == i - read
      <4>1. q \in DOMAIN page /\ read + q = i /\ rows[i] = page[q]
        BY <1>1, <2>4, <2>7, <3>2
      <4> HIDE DEF q
      <4>2. page[q] = table[i] /\ i \in 1 .. Len(table)
        BY <2>3, <4>1 DEF CutOut
      <4> QED BY <1>3, <4>1, <4>2
    <3> QED BY <3>1, <3>2
  <2>9. /\ after.rows = rows /\ after.offset = read + Len(page) /\ after.calls = st.calls + 1
        /\ after.done = (Len(page) < size)
    BY <1>2 DEF Reading
  <2>10. after \in ReadingsOver(Rows)
    BY <1>1, <2>4, <2>7 DEF Reading, ReadingsOver
  <2> HIDE DEF after
  <2>11. ReadsOn(source, max, n + 1, after)
    <3>1. Len(after.rows) <= Len(last)
      BY <1>1, <1>2, <1>3, <1>4, <2>4, <2>5, <2>7, <2>9
    <3>2. \A i \in 1 .. Len(after.rows) : after.rows[i] = last[i]
      BY <2>8, <2>9
    <3>3. after.offset = Len(after.rows) /\ Len(after.rows) <= max
      BY <2>5, <2>7, <2>9
    <3>4. after.done => Len(first) <= Len(after.rows)
      <4>1. after.done => Len(table) <= Len(after.rows)
        BY <2>6, <2>7, <2>9
      <4>2. Len(after.rows) \in Nat
        BY <1>1, <2>4, <2>7, <2>9
      <4> QED BY <1>3, <1>4, <4>1, <4>2
    <3>5. after.done \/ Len(after.rows) >= n + 1
      <4>1. CASE Len(page) < size
        BY <2>9, <4>1
      <4>2. CASE ~(Len(page) < size)
        BY <1>1, <1>2, <1>7, <2>2, <2>4, <2>7, <2>9, <4>2
      <4> QED BY <4>1, <4>2
    <3> QED BY <3>1, <3>2, <3>3, <3>4, <3>5 DEF ReadsOn, first, last
  <2> QED BY <2>1, <2>10, <2>11 DEF new
<1> QED BY <1>5, <1>6, <1>7

\* The loop ends with everything read, the limit reached, or a failure.
LEMMA LoopReadsOn ==
  ASSUME NEW Rows, NEW source \in SourcesOver(Rows), OnlyGrew(source), FailureIsNoAnswer(Rows),
         NEW max \in Nat \ {0}, FetchLoop(source, max) # Failed
  PROVE  /\ FetchLoop(source, max) \in ReadingsOver(Rows)
         /\ ReadsOn(source, max, max + 1, FetchLoop(source, max))
<1> DEFINE N == max + 1
           start == Reading(<< >>, 0, 0, FALSE)
           Loops(h) == h = [n \in 0 .. N |-> IF n = 0 THEN start ELSE Round(source, max, h[n - 1])]
           after == CHOOSE h : Loops(h)
           X == ReadingsOver(Rows) \cup {Failed}
           Y == {x \in X : x = Failed \/ \E n \in Nat : ReadsOn(source, max, n, x)}
<1>1. FetchLoop(source, max) = after[N]
  BY Zenon DEF FetchLoop
<1>2. start \in ReadingsOver(Rows) /\ ReadsOn(source, max, 0, start)
  <2>1. Len(source.tables[Len(source.tables)]) \in Nat
    <3>1. source.tables[Len(source.tables)] \in Seq(Rows)
      <4>1. 1 \in Nat \ {0}
        OBVIOUS
      <4> QED BY <4>1, TablesGrow
    <3> QED BY <3>1
  <2>2. start \in ReadingsOver(Rows) /\ start.rows = << >> /\ start.offset = 0 /\ start.done = FALSE
    BY DEF Reading, ReadingsOver
  <2> HIDE DEF start
  <2>3. Len(start.rows) = 0
    BY <2>2
  <2> QED BY <2>1, <2>2, <2>3 DEF ReadsOn
<1>3. \A x \in Y : Round(source, max, x) \in Y
  <2> SUFFICES ASSUME NEW x \in Y PROVE Round(source, max, x) \in Y
    OBVIOUS
  <2>1. CASE x = Failed
    BY <2>1 DEF Round
  <2>2. CASE x # Failed
    <3>1. PICK n \in Nat : ReadsOn(source, max, n, x)
      BY <2>2
    <3>2. x \in ReadingsOver(Rows)
      BY <2>2
    <3>3. \/ Round(source, max, x) = Failed
          \/ /\ Round(source, max, x) \in ReadingsOver(Rows)
             /\ ReadsOn(source, max, n + 1, Round(source, max, x))
      <4> HIDE DEF Y, X
      <4> QED BY <3>1, <3>2, FetchNextReadsOn
    <3>4. n + 1 \in Nat
      OBVIOUS
    <3> QED BY <3>3, <3>4
  <2> QED BY <2>1, <2>2
<1>4. start \in Y
  BY <1>2
<1> HIDE DEF start
<1> DEFINE step == [e \in (1 .. N) \X Y |-> Round(source, max, e[2])]
<1>5. step \in [(1 .. N) \X Y -> Y]
  BY <1>3
<1>6. \A n \in 1 .. N, x \in Y : step[<<n, x>>] = Round(source, max, x)
  OBVIOUS
<1>7. N \in Nat
  OBVIOUS
<1> HIDE DEF step, Y, N
<1>8. PICK f : RunsThrough(f, N, Y, start, step)
  BY <1>4, <1>5, <1>7, Rounds
<1>9. /\ f \in [0 .. N -> Y]
      /\ f[0] = start
      /\ \A n \in 1 .. N : f[n] = step[<<n, f[n - 1]>>]
  BY <1>8 DEF RunsThrough
<1>10. ASSUME NEW n \in 0 .. N
       PROVE  f[n] = IF n = 0 THEN start ELSE Round(source, max, f[n - 1])
  <2>1. CASE n = 0
    BY <1>9, <2>1
  <2>2. CASE n # 0
    <3>1. n \in 1 .. N /\ n - 1 \in 0 .. N
      BY <1>7, <2>2
    <3>2. f[n - 1] \in Y
      BY <1>9, <3>1
    <3> QED BY <1>6, <1>9, <2>2, <3>1, <3>2
  <2> QED BY <2>1, <2>2
<1>11. Loops(f)
  <2>1. f = [n \in 0 .. N |-> f[n]]
    BY <1>9
  <2> QED BY <1>10, <2>1
<1>12. Loops(after)
  <2> HIDE DEF Loops
  <2> QED BY <1>11
<1> HIDE DEF after
<1>13. ASSUME NEW n \in 0 .. N
       PROVE  after[n] = IF n = 0 THEN start ELSE Round(source, max, after[n - 1])
  BY <1>12
<1> HIDE DEF Loops, X
<1> DEFINE M == {m \in Nat : m <= N =>
                   \/ after[m] = Failed
                   \/ after[m] \in ReadingsOver(Rows) /\ ReadsOn(source, max, m, after[m])}
<1>14. 0 \in M
  <2>1. after[0] = start
    BY <1>7, <1>13
  <2> QED BY <1>2, <2>1
<1>15. ASSUME NEW m \in Nat, m \in M PROVE m + 1 \in M
  <2> SUFFICES ASSUME m + 1 <= N
               PROVE  \/ after[m + 1] = Failed
                      \/ after[m + 1] \in ReadingsOver(Rows) /\ ReadsOn(source, max, m + 1, after[m + 1])
    OBVIOUS
  <2>1. after[m + 1] = Round(source, max, after[m])
    <3>1. m + 1 \in 0 .. N /\ m + 1 # 0 /\ (m + 1) - 1 = m
      BY <1>7
    <3> QED BY <1>13, <3>1
  <2>2. \/ after[m] = Failed
        \/ after[m] \in ReadingsOver(Rows) /\ ReadsOn(source, max, m, after[m])
    BY <1>7, <1>15
  <2>3. CASE after[m] = Failed
    BY <2>1, <2>3 DEF Round
  <2>4. CASE after[m] \in ReadingsOver(Rows) /\ ReadsOn(source, max, m, after[m])
    BY <2>1, <2>4, FetchNextReadsOn
  <2> QED BY <2>2, <2>3, <2>4
<1>16. Nat \subseteq M
  <2> HIDE DEF M
  <2> QED BY <1>14, <1>15, NatInd
<1>17. N \in M
  BY <1>7, <1>16
<1>18. after[N] \in ReadingsOver(Rows) /\ ReadsOn(source, max, N, after[N])
  BY <1>1, <1>7, <1>17
<1> QED BY <1>1, <1>18 DEF N

\* A source that lost nothing is read in full.
LEMMA SourceIsReadInFull ==
  ASSUME NEW Rows, NEW source \in SourcesOver(Rows), OnlyGrew(source), FailureIsNoAnswer(Rows),
         NEW max \in Nat \ {0}, NEW side, FetchAllRecords(source, max) # Failed
  PROVE  ReadInFull(source, max, BuildRecords(side, FetchAllRecords(source, max).rows),
                    FetchAllRecords(source, max).truncated)
<1> DEFINE end == FetchLoop(source, max)
           extra == Probe(source, max, end)
           got == FetchAllRecords(source, max)
           first == source.tables[1]
           last == source.tables[Len(source.tables)]
           table == TableAt(source, end.calls + 1)
           records == BuildRecords(side, got.rows)
<1>1. got = Fetched(end, extra)
  BY DEF FetchAllRecords, Probed
<1>2. /\ end # Failed /\ extra # Failed
      /\ got.rows = end.rows /\ got.truncated = (extra # << >>)
  BY <1>1 DEF Fetched
<1>3. end \in ReadingsOver(Rows) /\ ReadsOn(source, max, max + 1, end)
  BY <1>2, LoopReadsOn
<1> HIDE DEF end, got, extra
<1>4. /\ end.rows \in Seq(Rows) /\ end.offset \in Nat /\ end.calls + 1 \in Nat \ {0}
  BY <1>3 DEF ReadingsOver
<1>5. /\ first \in Seq(Rows) /\ table \in Seq(Rows) /\ last \in Seq(Rows)
      /\ Len(first) <= Len(table) /\ Len(table) <= Len(last)
      /\ Len(first) \in Nat /\ Len(table) \in Nat /\ Len(last) \in Nat
  <2>1. /\ first \in Seq(Rows) /\ table \in Seq(Rows) /\ last \in Seq(Rows)
        /\ Len(first) <= Len(table) /\ Len(table) <= Len(last)
    BY <1>4, TablesGrow
  <2> QED BY <2>1
<1> DEFINE read == Len(end.rows)
<1>6. /\ read <= Len(last) /\ \A i \in 1 .. read : end.rows[i] = last[i]
      /\ end.offset = read /\ read <= max /\ read \in Nat
      /\ (end.done => Len(first) <= read)
      /\ end.done \/ read >= max
  <2>1. /\ read <= Len(last) /\ \A i \in 1 .. read : end.rows[i] = last[i]
        /\ end.offset = read /\ read <= max
        /\ (end.done => Len(first) <= read)
        /\ end.done \/ read >= max \/ read >= max + 1
    BY <1>3 DEF ReadsOn
  <2>2. read \in Nat
    BY <1>4
  <2> HIDE DEF read, first, last
  <2> QED BY <2>1, <2>2
<1>7. records = [i \in DOMAIN end.rows |-> [id |-> <<side, i>>, row |-> end.rows[i]]]
  BY <1>2 DEF BuildRecords
<1>8. [i \in DOMAIN records |-> records[i].row] = end.rows
  <2>1. DOMAIN records = DOMAIN end.rows
    BY <1>7
  <2>2. \A i \in DOMAIN end.rows : records[i].row = end.rows[i]
    BY <1>7
  <2>3. end.rows = [i \in DOMAIN end.rows |-> end.rows[i]]
    BY <1>4
  <2> HIDE DEF records
  <2> QED BY <2>1, <2>2, <2>3
<1> HIDE DEF records, first, last, table
<1>9. Prefix(end.rows, last)
  <2>1. end.rows = SubSeq(last, 1, read)
    <3> DEFINE s == SubSeq(last, 1, read)
    <3>1. /\ s \in Seq(Rows) /\ Len(s) = read /\ \A i \in 1 .. read : s[i] = last[i]
      <4>1. read \in 0 .. Len(last)
        BY <1>5, <1>6
      <4> HIDE DEF read
      <4> QED BY <1>5, <4>1
    <3>2. end.rows = [i \in 1 .. read |-> end.rows[i]]
      BY <1>4
    <3>3. s = [i \in 1 .. read |-> s[i]]
      <4> HIDE DEF s, read
      <4> QED BY <3>1
    <3> HIDE DEF s, read
    <3> QED BY <1>6, <3>1, <3>2, <3>3 DEF s
  <2> QED BY <1>6, <2>1 DEF Prefix
<1>10. CASE read < max
  <2>1. extra = << >> /\ ~got.truncated
    <3>1. extra = << >>
      BY <1>2, <1>10 DEF Probe, extra
    <3> QED BY <1>2, <3>1
  <2>2. Len(first) <= read
    BY <1>6, <1>10
  <2>3. read >= Least(Len(first), max) /\ read <= max /\ ~(Len(first) > max)
    <3> HIDE DEF read
    <3> QED BY <1>5, <1>6, <1>10, <2>2 DEF Least
  <2> QED BY <1>8, <1>9, <2>1, <2>3 DEF ReadInFull, first, last, got, records
<1>11. CASE read = max
  <2>1. extra = FetchRecords(source, end.calls + 1, 1, end.offset)
    BY <1>2, <1>11 DEF Probe, extra
  <2>2. extra \in Seq(Rows) /\ CutOut(extra, table, max, 1)
    <3>1. 1 \in 1 .. MaxLimit /\ end.offset = max
      BY <1>6, <1>11, IngestAssumption
    <3> HIDE DEF read
    <3> QED BY <1>2, <1>4, <2>1, <3>1, FetchReads DEF table
  <2>3. got.truncated <=> Len(table) > max
    <3>1. 1 \in DOMAIN extra <=> max + 1 <= Len(table)
      <4>1. 1 \in Nat \ {0}
        OBVIOUS
      <4>2. 1 \in DOMAIN extra <=> 1 <= 1 /\ max + 1 <= Len(table)
        BY <2>2, <4>1 DEF CutOut
      <4> QED BY <4>2
    <3>2. extra # << >> <=> 1 \in DOMAIN extra
      BY <2>2
    <3>3. max + 1 <= Len(table) <=> Len(table) > max
      BY <1>5
    <3>4. got.truncated = (extra # << >>)
      BY <1>2
    <3> QED BY <3>1, <3>2, <3>3, <3>4, Zenon
  <2>4. read >= Least(Len(first), max) /\ read <= max
    <3> HIDE DEF read
    <3> QED BY <1>5, <1>11 DEF Least
  <2>5. (got.truncated => Len(last) > max) /\ (Len(first) > max => got.truncated)
    <3> HIDE DEF read
    <3> QED BY <1>5, <2>3
  <2> QED BY <1>8, <1>9, <2>4, <2>5 DEF ReadInFull, first, last, got, records
<1>12. read < max \/ read = max
  <2> HIDE DEF read
  <2> QED BY <1>6
<1> QED BY <1>10, <1>11, <1>12

\* Of a request, nothing is answered, or both its sources are.
LEMMA IngestIsAnsweredInFull ==
  ASSUME NEW Rows, FailureIsNoAnswer(Rows), NEW p \in IngestProblemsOver(Rows)
  PROVE  LET max == MaxIngestRecords(p.env) IN
         AnsweredInFull(p.request, max,
           IF p.handle = "upload" THEN HandleUploadFile(p.request, max)
           ELSE HandleConnectorIngest(p.request, max))
<1> DEFINE request == p.request
           max == MaxIngestRecords(p.env)
           from == FetchAllRecords(request.source, max)
           to == FetchAllRecords(request.destination, max)
           batch == [sources |-> BuildRecords("src", from.rows),
                     destinations |-> BuildRecords("dest", to.rows),
                     sourceTruncated |-> from.truncated, destinationTruncated |-> to.truncated]
<1>1. max \in Nat \ {0}
  BY IngestAssumption DEF MaxIngestRecords
<1>2. request.source \in SourcesOver(Rows) /\ request.destination \in SourcesOver(Rows)
  BY DEF IngestProblemsOver
<1> HIDE DEF max, request
<1>3. AnsweredInFull(request, max, Ingested(request, max))
  <2>1. CASE from = Failed \/ to = Failed \/ ~request.saves
    BY <2>1 DEF Ingested, BatchOf, Answer, AnsweredInFull
  <2>2. CASE ~(from = Failed \/ to = Failed \/ ~request.saves)
    <3>1. Ingested(request, max) = Answer(200, request.mapping, batch)
      BY <2>2 DEF Ingested, BatchOf
    <3>2. BatchIsFull(request, max, batch)
      <4>1. OnlyGrew(request.source) =>
              ReadInFull(request.source, max, BuildRecords("src", from.rows), from.truncated)
        BY <1>1, <1>2, <2>2, SourceIsReadInFull
      <4>2. OnlyGrew(request.destination) =>
              ReadInFull(request.destination, max, BuildRecords("dest", to.rows), to.truncated)
        BY <1>1, <1>2, <2>2, SourceIsReadInFull
      <4> HIDE DEF from, to
      <4> QED BY <4>1, <4>2 DEF BatchIsFull
    <3> HIDE DEF batch
    <3> QED BY <3>1, <3>2 DEF AnsweredInFull, Answer
  <2> QED BY <2>1, <2>2
<1>4. AnsweredInFull(request, max, Answer(400, FALSE, NoBatch))
      /\ AnsweredInFull(request, max, Answer(400, request.mapping, NoBatch))
  BY DEF AnsweredInFull, Answer
<1>5. AnsweredInFull(request, max, HandleUploadFile(request, max))
  BY <1>3, <1>4 DEF HandleUploadFile
<1>6. AnsweredInFull(request, max, HandleConnectorIngest(request, max))
  BY <1>3, <1>4 DEF HandleConnectorIngest
<1> QED BY <1>5, <1>6 DEF request, max

----------------------------------------------------------------------------
(* Fractions. *)

Fractions == [num : Int, den : Nat \ {0}]

\* A factor that is positive can be left out of a comparison.
LEMMA CancelFactor ==
  ASSUME NEW a \in Int, NEW b \in Int, NEW n \in Nat \ {0}, a * n <= b * n
  PROVE  a <= b
<1> SUFFICES ASSUME b < a PROVE FALSE
  OBVIOUS
<1>1. b * n + n <= a * n
  BY TimesIsMonotonic
<1>2. b * n \in Int /\ a * n \in Int
  OBVIOUS
<1> QED BY <1>1, <1>2

\* What does not exceed what does not exceed a third does not exceed it.
LEMMA NotExceedsTransitive ==
  ASSUME NEW p \in Fractions, NEW q \in Fractions, NEW r \in Fractions,
         ~Exceeds(p, q), ~Exceeds(q, r)
  PROVE  ~Exceeds(p, r)
<1> DEFINE a == p.num  b == p.den  c == q.num  d == q.den  e == r.num  f == r.den
<1>1. /\ a \in Int /\ c \in Int /\ e \in Int
      /\ b \in Nat \ {0} /\ d \in Nat \ {0} /\ f \in Nat \ {0}
  BY DEF Fractions
<1>2. a * d <= c * b /\ c * f <= e * d
  BY <1>1 DEF Exceeds
<1>3. a * f <= e * b => ~Exceeds(p, r)
  BY <1>1 DEF Exceeds
<1> HIDE DEF a, b, c, d, e, f
<1>4. (a * d) * f <= (c * b) * f
  BY <1>1, <1>2, TimesIsMonotonic
<1>5. (c * f) * b <= (e * d) * b
  BY <1>1, <1>2, TimesIsMonotonic
<1>6. (a * d) * f = (a * f) * d /\ (c * b) * f = (c * f) * b /\ (e * d) * b = (e * b) * d
  BY <1>1
<1>7. (a * f) * d <= (e * b) * d
  <2>1. (a * f) * d \in Int /\ (c * f) * b \in Int /\ (e * b) * d \in Int
    BY <1>1
  <2> QED BY <1>4, <1>5, <1>6, <2>1
<1>8. a * f \in Int /\ e * b \in Int
  BY <1>1
<1> QED BY <1>1, <1>3, <1>7, <1>8, CancelFactor

\* One of two fractions does not exceed the other.
LEMMA NotExceedsTotal ==
  ASSUME NEW p \in Fractions, NEW q \in Fractions
  PROVE  /\ ~Exceeds(p, p)
         /\ Exceeds(p, q) => ~Exceeds(q, p)
         /\ ~Exceeds(p, q) /\ ~Exceeds(q, p) => SameFrac(p, q)
<1>1. p.num * q.den \in Int /\ q.num * p.den \in Int /\ p.num * p.den \in Int
  BY DEF Fractions
<1> QED BY <1>1 DEF Exceeds, SameFrac

\* A list of fractions has a least and a greatest one.
LEMMA ExtremesExist ==
  ASSUME NEW a \in Nat, NEW b \in Nat, a <= b, NEW f \in [a .. b -> Fractions]
  PROVE  /\ \E i \in a .. b : \A j \in a .. b : ~Exceeds(f[i], f[j])
         /\ \E i \in a .. b : \A j \in a .. b : ~Exceeds(f[j], f[i])
<1> DEFINE Low(n)    == \E i \in a .. n : \A j \in a .. n : ~Exceeds(f[i], f[j])
           High(n) == \E i \in a .. n : \A j \in a .. n : ~Exceeds(f[j], f[i])
           M == {m \in Nat : a + m <= b => Low(a + m) /\ High(a + m)}
<1> HIDE DEF Fractions
<1>1. \A i \in a .. b : f[i] \in Fractions
  OBVIOUS
<1>2. 0 \in M
  <2>1. a .. a + 0 = {a} /\ a \in a .. b
    OBVIOUS
  <2>2. ~Exceeds(f[a], f[a])
    BY <1>1, <2>1, NotExceedsTotal
  <2>3. Low(a + 0) /\ High(a + 0)
    BY <2>1, <2>2
  <2> HIDE DEF Low, High
  <2> QED BY <2>3
<1>3. ASSUME NEW m \in Nat, m \in M
      PROVE  m + 1 \in M
  <2> SUFFICES ASSUME a + (m + 1) <= b PROVE Low(a + (m + 1)) /\ High(a + (m + 1))
    BY DEF M
  <2> DEFINE n == a + m
             s == a + (m + 1)
  <2>0. a .. s = (a .. n) \cup {s} /\ s \in a .. b /\ n \in Nat /\ a .. n \subseteq a .. b /\ n <= b
    OBVIOUS
  <2>1. Low(n) /\ High(n)
    <3> HIDE DEF Low, High
    <3> QED BY <1>3, <2>0
  <2> HIDE DEF n, s
  <2>2. PICK i \in a .. n : \A j \in a .. n : ~Exceeds(f[i], f[j])
    BY <2>1
  <2>3. PICK k \in a .. n : \A j \in a .. n : ~Exceeds(f[j], f[k])
    BY <2>1
  <2>4. f[i] \in Fractions /\ f[k] \in Fractions /\ f[s] \in Fractions
    BY <1>1, <2>0
  <2>5. ~Exceeds(f[s], f[s])
    BY <2>4, NotExceedsTotal
  <2>6. Low(s)
    <3>1. CASE Exceeds(f[i], f[s])
      <4>1. ~Exceeds(f[s], f[i])
        BY <2>4, <3>1, NotExceedsTotal
      <4>2. ASSUME NEW j \in a .. n PROVE ~Exceeds(f[s], f[j])
        <5>1. f[j] \in Fractions /\ ~Exceeds(f[i], f[j])
          BY <1>1, <2>0, <2>2
        <5> QED BY <2>4, <4>1, <5>1, NotExceedsTransitive
      <4> QED BY <2>0, <2>5, <4>2
    <3>2. CASE ~Exceeds(f[i], f[s])
      BY <2>0, <2>2, <3>2
    <3> QED BY <3>1, <3>2
  <2>7. High(s)
    <3>1. CASE Exceeds(f[s], f[k])
      <4>1. ~Exceeds(f[k], f[s])
        BY <2>4, <3>1, NotExceedsTotal
      <4>2. ASSUME NEW j \in a .. n PROVE ~Exceeds(f[j], f[s])
        <5>1. f[j] \in Fractions /\ ~Exceeds(f[j], f[k])
          BY <1>1, <2>0, <2>3
        <5> QED BY <2>4, <4>1, <5>1, NotExceedsTransitive
      <4> QED BY <2>0, <2>5, <4>2
    <3>2. CASE ~Exceeds(f[s], f[k])
      BY <2>0, <2>3, <3>2
    <3> QED BY <3>1, <3>2
  <2> HIDE DEF Low, High
  <2> QED BY <2>6, <2>7 DEF s
<1> HIDE DEF Low, High
<1>4. b - a \in Nat /\ a + (b - a) = b
  OBVIOUS
<1>5. Nat \subseteq M
  <2> HIDE DEF M
  <2> QED BY <1>2, <1>3, NatInd
<1>6. b - a \in M
  BY <1>4, <1>5
<1>7. Low(b) /\ High(b)
  BY <1>4, <1>6
<1> QED BY <1>7 DEF Low, High

----------------------------------------------------------------------------
(* The isotonic fit.  With the labels counted from the lowest score on, the *)
(* matches among the first k points, over all of them, are a curve; a share *)
(* is the slope of a chord, and the fit the greatest convex curve below it. *)

Curve(x, n) ==
  /\ x \in [0 .. n -> [num : Int, den : Int]]
  /\ \A u, v \in 0 .. n : u < v => x[u].den < x[v].den

\* The slope of the chord from u to v.
Slope(x, u, v) == Frac(x[v].num - x[u].num, x[v].den - x[u].den)

\* At u the curve is on or above the line of slope p through its point at v.
OnOrAbove(x, u, v, p) ==
  p.num * (x[u].den - x[v].den) <= (x[u].num - x[v].num) * p.den

\* Between a and b the curve is on or above its chord.
Arch(x, a, b) == \A u \in a .. b : OnOrAbove(x, u, a, Slope(x, a, b))

\* The numbers behind ArchesJoin: chords of p1 over w1 and p2 over w2, the first the
\* steeper one, and a point over the first.
LEMMA AboveFirstChord ==
  ASSUME NEW p1 \in Int, NEW p2 \in Int, NEW w1 \in Nat \ {0}, NEW w2 \in Nat \ {0},
         NEW d \in Nat, NEW p \in Int, p2 * w1 <= p1 * w2, p1 * d <= p * w1
  PROVE  (p1 + p2) * d <= p * (w1 + w2)
<1>1. (p2 * w1) * d <= (p1 * w2) * d
  OBVIOUS
<1>2. (p1 * d) * (w1 + w2) <= (p * w1) * (w1 + w2)
  BY TimesIsMonotonic
<1>3. ((p1 + p2) * d) * w1 <= (p * (w1 + w2)) * w1
  <2>1. ((p1 + p2) * d) * w1 = (p1 * d) * w1 + (p2 * w1) * d
    OBVIOUS
  <2>2. (p1 * d) * (w1 + w2) = (p1 * d) * w1 + (p1 * w2) * d
    OBVIOUS
  <2>3. (p * w1) * (w1 + w2) = (p * (w1 + w2)) * w1
    OBVIOUS
  <2>4. /\ (p1 * d) * w1 \in Int /\ (p2 * w1) * d \in Int /\ (p1 * w2) * d \in Int
        /\ (p * (w1 + w2)) * w1 \in Int
    OBVIOUS
  <2> QED BY <1>1, <1>2, <2>1, <2>2, <2>3, <2>4
<1>4. (p1 + p2) * d \in Int /\ p * (w1 + w2) \in Int
  OBVIOUS
<1> QED BY <1>3, <1>4, CancelFactor

\* The same for a point over the second.
LEMMA AboveSecondChord ==
  ASSUME NEW p1 \in Int, NEW p2 \in Int, NEW w1 \in Nat \ {0}, NEW w2 \in Nat \ {0},
         NEW d \in Nat, d <= w2, NEW p \in Int, p2 * w1 <= p1 * w2, p2 * d <= p * w2
  PROVE  (p1 + p2) * (w1 + d) <= (p1 + p) * (w1 + w2)
<1> DEFINE g == p1 * w2 - p2 * w1
<1>1. g \in Nat
  OBVIOUS
<1>2. 0 <= (w2 - d) * g
  <2>1. w2 - d \in Nat
    OBVIOUS
  <2> HIDE DEF g
  <2> QED BY <1>1, <2>1
<1>3. (p2 * d) * (w1 + w2) <= (p * w2) * (w1 + w2)
  BY TimesIsMonotonic
<1>4. ((p1 + p2) * (w1 + d)) * w2 <= ((p1 + p) * (w1 + w2)) * w2
  <2> DEFINE all == (w1 + w2) * w2
             A == p1 * all
             B == (p2 * d) * (w1 + w2)
             C == (p * w2) * (w1 + w2)
  <2>1. ((p1 + p2) * (w1 + d)) * w2 = A + B - (w2 - d) * g
    OBVIOUS
  <2>2. ((p1 + p) * (w1 + w2)) * w2 = A + C
    OBVIOUS
  <2>3. A \in Int /\ B \in Int /\ C \in Int /\ (w2 - d) * g \in Int
    OBVIOUS
  <2>4. B <= C
    BY <1>3
  <2> HIDE DEF A, B, C, g
  <2> QED BY <1>2, <2>1, <2>2, <2>3, <2>4
<1>5. (p1 + p2) * (w1 + d) \in Int /\ (p1 + p) * (w1 + w2) \in Int
  OBVIOUS
<1> QED BY <1>4, <1>5, CancelFactor

\* A point above a chord of p1 over w, which is as steep as n over m or steeper.
LEMMA AboveLineUp ==
  ASSUME NEW p1 \in Int, NEW w \in Nat \ {0}, NEW d \in Nat, NEW p \in Int,
         NEW n \in Int, NEW m \in Nat \ {0}, p1 * d <= p * w, n * w <= p1 * m
  PROVE  n * d <= p * m
<1>1. (n * w) * d <= (p1 * m) * d
  OBVIOUS
<1>2. (p1 * d) * m <= (p * w) * m
  BY TimesIsMonotonic
<1>3. (n * d) * w <= (p * m) * w
  <2>1. (n * w) * d = (n * d) * w /\ (p1 * m) * d = (p1 * d) * m /\ (p * w) * m = (p * m) * w
    OBVIOUS
  <2>2. (n * d) * w \in Int /\ (p1 * d) * m \in Int /\ (p * m) * w \in Int
    OBVIOUS
  <2> QED BY <1>1, <1>2, <2>1, <2>2
<1>4. n * d \in Int /\ p * m \in Int
  OBVIOUS
<1> QED BY <1>3, <1>4, CancelFactor

\* The same before the chord's end, for a chord that is no steeper.
LEMMA AboveLineDown ==
  ASSUME NEW p1 \in Int, NEW w \in Nat \ {0}, NEW d \in Nat, d <= w, NEW p \in Int,
         NEW n \in Int, NEW m \in Nat \ {0}, p1 * d <= p * w, p1 * m <= n * w
  PROVE  n * (d - w) <= (p - p1) * m
<1>1. (p1 * m) * (w - d) <= (n * w) * (w - d)
  <2>1. w - d \in Nat
    OBVIOUS
  <2> QED BY <2>1
<1>2. (p1 * d) * m <= (p * w) * m
  BY TimesIsMonotonic
<1>3. (n * (d - w)) * w <= ((p - p1) * m) * w
  <2> DEFINE A == (p1 * m) * (w - d)
             B == (n * w) * (w - d)
             C == (p * w) * m
  <2>1. (n * (d - w)) * w = 0 - B /\ (p1 * d) * m = (p1 * m) * w - A
        /\ ((p - p1) * m) * w = C - (p1 * m) * w
    OBVIOUS
  <2>2. A \in Int /\ B \in Int /\ C \in Int /\ (p1 * m) * w \in Int
    OBVIOUS
  <2>3. A <= B /\ (p1 * d) * m <= C
    BY <1>1, <1>2
  <2> HIDE DEF A, B, C
  <2> QED BY <2>1, <2>2, <2>3
<1>4. n * (d - w) \in Int /\ (p - p1) * m \in Int
  OBVIOUS
<1> QED BY <1>3, <1>4, CancelFactor

\* A chord's slope is a fraction.
LEMMA SlopeIsFraction ==
  ASSUME NEW n \in Nat, NEW x, Curve(x, n), NEW u \in 0 .. n, NEW v \in 0 .. n, u < v
  PROVE  /\ Slope(x, u, v) \in Fractions
         /\ x[u].num \in Int /\ x[u].den \in Int /\ x[v].num \in Int /\ x[v].den \in Int
         /\ x[v].den - x[u].den \in Nat \ {0}
<1>1. x[u] \in [num : Int, den : Int] /\ x[v] \in [num : Int, den : Int]
  BY DEF Curve
<1>2. x[u].den < x[v].den
  BY DEF Curve
<1> QED BY <1>1, <1>2 DEF Slope, Frac, Fractions

\* Where the slope falls from one arch to the next, the two are one arch.
LEMMA ArchesJoin ==
  ASSUME NEW n \in Nat, NEW x, Curve(x, n),
         NEW a \in 0 .. n, NEW b \in 0 .. n, NEW c \in 0 .. n, a < b, b < c,
         Arch(x, a, b), Arch(x, b, c), Exceeds(Slope(x, a, b), Slope(x, b, c))
  PROVE  Arch(x, a, c)
<1> DEFINE p1 == x[b].num - x[a].num  w1 == x[b].den - x[a].den
           p2 == x[c].num - x[b].num  w2 == x[c].den - x[b].den
<1>1. /\ x[a].num \in Int /\ x[a].den \in Int /\ x[b].num \in Int /\ x[b].den \in Int
      /\ x[c].num \in Int /\ x[c].den \in Int
      /\ w1 \in Nat \ {0} /\ w2 \in Nat \ {0} /\ p1 \in Int /\ p2 \in Int
  BY SlopeIsFraction
<1>2. /\ Slope(x, a, b) = Frac(p1, w1) /\ Slope(x, b, c) = Frac(p2, w2)
      /\ Slope(x, a, c) = Frac(p1 + p2, w1 + w2)
  BY <1>1 DEF Slope
<1>3. p2 * w1 <= p1 * w2
  BY <1>1, <1>2 DEF Exceeds, Frac
<1> SUFFICES ASSUME NEW u \in a .. c PROVE OnOrAbove(x, u, a, Slope(x, a, c))
  BY DEF Arch
<1>4. u \in 0 .. n /\ x[u].num \in Int /\ x[u].den \in Int
  BY DEF Curve
<1>5. CASE u \in a .. b
  <2> DEFINE d == x[u].den - x[a].den  p == x[u].num - x[a].num
  <2>1. d \in Nat /\ p \in Int
    <3>1. a = u \/ x[a].den < x[u].den
      BY <1>4, <1>5 DEF Curve
    <3> QED BY <1>1, <1>4, <3>1
  <2>2. p1 * d <= p * w1
    BY <1>2, <1>5 DEF Arch, OnOrAbove, Frac
  <2>3. (p1 + p2) * d <= p * (w1 + w2)
    <3> HIDE DEF p1, p2, w1, w2, d, p
    <3> QED BY <1>1, <1>3, <2>1, <2>2, AboveFirstChord
  <2> QED BY <1>2, <2>3 DEF OnOrAbove, Frac
<1>6. CASE u \in b .. c
  <2> DEFINE d == x[u].den - x[b].den  p == x[u].num - x[b].num
  <2>1. d \in Nat /\ p \in Int /\ d <= w2
    <3>1. b = u \/ x[b].den < x[u].den
      BY <1>4, <1>6 DEF Curve
    <3>2. c = u \/ x[u].den < x[c].den
      BY <1>4, <1>6 DEF Curve
    <3> QED BY <1>1, <1>4, <3>1, <3>2
  <2>2. p2 * d <= p * w2
    BY <1>2, <1>6 DEF Arch, OnOrAbove, Frac
  <2>3. (p1 + p2) * (w1 + d) <= (p1 + p) * (w1 + w2)
    <3> HIDE DEF p1, p2, w1, w2, d, p
    <3> QED BY <1>1, <1>3, <2>1, <2>2, AboveSecondChord
  <2>4. w1 + d = x[u].den - x[a].den /\ p1 + p = x[u].num - x[a].num
    BY <1>1, <1>4
  <2> QED BY SMTT(30), <1>2, <2>3, <2>4 DEF OnOrAbove, Frac
<1>7. u \in a .. b \/ u \in b .. c
  OBVIOUS
<1> QED BY <1>5, <1>6, <1>7

\* What is on or above a line at v is so at u as well, when the curve does not fall below
\* the line between them.
LEMMA LineGoesOn ==
  ASSUME NEW n \in Nat, NEW x, Curve(x, n), NEW p \in Fractions,
         NEW t \in 0 .. n, NEW v \in 0 .. n, NEW u \in 0 .. n,
         OnOrAbove(x, v, t, p), OnOrAbove(x, u, v, p)
  PROVE  OnOrAbove(x, u, t, p)
<1>1. /\ x[t].num \in Int /\ x[t].den \in Int /\ x[v].num \in Int /\ x[v].den \in Int
      /\ x[u].num \in Int /\ x[u].den \in Int /\ p.num \in Int /\ p.den \in Int
  BY DEF Curve, Fractions
<1> DEFINE a == x[v].den - x[t].den  b == x[u].den - x[v].den
           c == x[v].num - x[t].num  d == x[u].num - x[v].num
           k == p.num  m == p.den
<1>2. k * a <= c * m /\ k * b <= d * m
  BY DEF OnOrAbove
<1>3. x[u].den - x[t].den = a + b /\ x[u].num - x[t].num = c + d
  BY <1>1
<1>4. a \in Int /\ b \in Int /\ c \in Int /\ d \in Int /\ k \in Int /\ m \in Int
  BY <1>1
<1>5. k * (a + b) <= (c + d) * m
  <2> HIDE DEF a, b, c, d, k, m
  <2>1. k * (a + b) = k * a + k * b /\ (c + d) * m = c * m + d * m
    BY <1>4
  <2>2. k * a \in Int /\ k * b \in Int /\ c * m \in Int /\ d * m \in Int
    BY <1>4
  <2> QED BY <1>2, <2>1, <2>2
<1> QED BY <1>3, <1>5 DEF OnOrAbove

\* Over an arch that is no less steep than the line through its start, and over one that is
\* no steeper than the line through its end.
LEMMA ArchOverLine ==
  ASSUME NEW n \in Nat, NEW x, Curve(x, n), NEW p \in Fractions,
         NEW a \in 0 .. n, NEW b \in 0 .. n, a < b, Arch(x, a, b), NEW u \in a .. b
  PROVE  /\ ~Exceeds(p, Slope(x, a, b)) => OnOrAbove(x, u, a, p)
         /\ ~Exceeds(Slope(x, a, b), p) => OnOrAbove(x, u, b, p)
<1> DEFINE p1 == x[b].num - x[a].num  w == x[b].den - x[a].den
           d == x[u].den - x[a].den   q == x[u].num - x[a].num
           k == p.num  m == p.den
<1>1. /\ x[a].num \in Int /\ x[a].den \in Int /\ x[b].num \in Int /\ x[b].den \in Int
      /\ w \in Nat \ {0} /\ p1 \in Int /\ Slope(x, a, b) = Frac(p1, w)
  BY SlopeIsFraction DEF Slope
<1>2. u \in 0 .. n /\ x[u].num \in Int /\ x[u].den \in Int /\ k \in Int /\ m \in Nat \ {0}
  BY DEF Curve, Fractions
<1>3. d \in Nat /\ d <= w /\ q \in Int
  <2>1. a = u \/ x[a].den < x[u].den
    BY <1>2 DEF Curve
  <2>2. b = u \/ x[u].den < x[b].den
    BY <1>2 DEF Curve
  <2> QED BY <1>1, <1>2, <2>1, <2>2
<1>4. p1 * d <= q * w
  BY <1>1 DEF Arch, OnOrAbove, Frac
<1>5. ASSUME ~Exceeds(p, Slope(x, a, b)) PROVE OnOrAbove(x, u, a, p)
  <2>1. k * w <= p1 * m
    BY <1>1, <1>2, <1>5 DEF Exceeds, Frac
  <2>2. k * d <= q * m
    <3> HIDE DEF p1, w, d, q, k, m
    <3> QED BY <1>1, <1>2, <1>3, <1>4, <2>1, AboveLineUp
  <2> QED BY <2>2 DEF OnOrAbove
<1>6. ASSUME ~Exceeds(Slope(x, a, b), p) PROVE OnOrAbove(x, u, b, p)
  <2>1. p1 * m <= k * w
    BY <1>1, <1>2, <1>6 DEF Exceeds, Frac
  <2>2. k * (d - w) <= (q - p1) * m
    <3> HIDE DEF p1, w, d, q, k, m
    <3> QED BY <1>1, <1>2, <1>3, <1>4, <2>1, AboveLineDown
  <2>3. d - w = x[u].den - x[b].den /\ q - p1 = x[u].num - x[b].num
    BY <1>1, <1>2
  <2> QED BY <2>2, <2>3 DEF OnOrAbove
<1> QED BY <1>5, <1>6

\* e are the ends of m arches that make the curve.
Arches(x, n, m, e) ==
  /\ e \in [0 .. m -> 0 .. n] /\ e[0] = 0 /\ e[m] = n
  /\ \A t \in 1 .. m : e[t - 1] < e[t] /\ Arch(x, e[t - 1], e[t])

\* No arch is steeper than the next.
Convex(x, m, e) ==
  \A t \in 1 .. m - 1 : ~Exceeds(Slope(x, e[t - 1], e[t]), Slope(x, e[t], e[t + 1]))

\* Then none is steeper than any that follows.
LEMMA SlopesRise ==
  ASSUME NEW n \in Nat, NEW x, Curve(x, n), NEW m \in Nat, NEW e, Arches(x, n, m, e),
         Convex(x, m, e), NEW t \in 1 .. m, NEW r \in t .. m
  PROVE  ~Exceeds(Slope(x, e[t - 1], e[t]), Slope(x, e[r - 1], e[r]))
<1> DEFINE Sl(i) == Slope(x, e[i - 1], e[i])
           S == {k \in Nat : t + k <= m => ~Exceeds(Sl(t), Sl(t + k))}
<1>1. ASSUME NEW i \in 1 .. m PROVE Sl(i) \in Fractions
  <2>1. e[i - 1] \in 0 .. n /\ e[i] \in 0 .. n /\ e[i - 1] < e[i]
    BY DEF Arches
  <2> QED BY <2>1, SlopeIsFraction
<1>2. ASSUME NEW i \in 1 .. m - 1 PROVE ~Exceeds(Sl(i), Sl(i + 1))
  <2>1. (i + 1) - 1 = i
    OBVIOUS
  <2> QED BY <2>1 DEF Convex
<1> HIDE DEF Sl
<1>3. 0 \in S
  <2>1. t + 0 = t
    OBVIOUS
  <2> QED BY <1>1, <2>1, NotExceedsTotal
<1>4. ASSUME NEW k \in Nat, k \in S
      PROVE  k + 1 \in S
  <2> SUFFICES ASSUME t + (k + 1) <= m PROVE ~Exceeds(Sl(t), Sl(t + (k + 1)))
    OBVIOUS
  <2>1. ~Exceeds(Sl(t), Sl(t + k)) /\ t + k \in 1 .. m - 1 /\ t + (k + 1) = (t + k) + 1
    BY <1>4
  <2>2. ~Exceeds(Sl(t + k), Sl(t + (k + 1)))
    BY <1>2, <2>1
  <2>3. Sl(t) \in Fractions /\ Sl(t + k) \in Fractions /\ Sl(t + (k + 1)) \in Fractions
    BY <1>1, <2>1
  <2> HIDE DEF Fractions
  <2> QED BY <2>1, <2>2, <2>3, NotExceedsTransitive
<1>5. Nat \subseteq S
  <2> HIDE DEF S
  <2> QED BY <1>3, <1>4, NatInd
<1>6. r - t \in Nat /\ t + (r - t) = r
  OBVIOUS
<1>7. r - t \in S
  BY <1>5, <1>6
<1>8. ~Exceeds(Sl(t), Sl(r))
  BY <1>6, <1>7
<1> QED BY <1>8 DEF Sl

\* Every point is over one of the arches.
LEMMA OverOneArch ==
  ASSUME NEW n \in Nat, NEW x, NEW m \in Nat \ {0}, NEW e, Arches(x, n, m, e),
         NEW u \in 0 .. n
  PROVE  \E r \in 1 .. m : u \in e[r - 1] .. e[r] /\ (u > 0 => e[r - 1] < u)
<1> DEFINE T == {i \in 1 .. m : u <= e[i]}
<1>1. m \in T
  BY DEF Arches
<1>2. PICK r \in T : \A i \in T : r <= i
  <2>1. T \subseteq Nat /\ T # {}
    BY <1>1
  <2> HIDE DEF T
  <2> QED BY <2>1, LeastNat
<1>3. r \in 1 .. m /\ u <= e[r] /\ r - 1 \notin T
  BY <1>2
<1>4. e[r - 1] \in 0 .. n /\ e[r] \in 0 .. n /\ e[0] = 0
  BY <1>3 DEF Arches
<1>5. r = 1 \/ e[r - 1] < u
  BY <1>3, <1>4
<1> QED BY <1>3, <1>4, <1>5

\* The curve is nowhere below the line through an arch of convex ones.
LEMMA OverEveryLine ==
  ASSUME NEW n \in Nat, NEW x, Curve(x, n), NEW m \in Nat, NEW e, Arches(x, n, m, e),
         Convex(x, m, e), NEW t \in 1 .. m, NEW u \in 0 .. n
  PROVE  OnOrAbove(x, u, e[t], Slope(x, e[t - 1], e[t]))
<1> DEFINE Sl(i) == Slope(x, e[i - 1], e[i])
           p == Sl(t)
<1>1. ASSUME NEW i \in 1 .. m
      PROVE  /\ Sl(i) \in Fractions /\ e[i - 1] \in 0 .. n /\ e[i] \in 0 .. n
             /\ e[i - 1] < e[i] /\ Arch(x, e[i - 1], e[i])
  <2>1. e[i - 1] \in 0 .. n /\ e[i] \in 0 .. n /\ e[i - 1] < e[i] /\ Arch(x, e[i - 1], e[i])
    BY DEF Arches
  <2> QED BY <2>1, SlopeIsFraction
<1>2. p \in Fractions
  BY <1>1
<1>3. \A i \in 1 .. m : (i <= t => ~Exceeds(Sl(i), p)) /\ (i >= t => ~Exceeds(p, Sl(i)))
  <2> SUFFICES ASSUME NEW i \in 1 .. m
               PROVE  (i <= t => ~Exceeds(Sl(i), p)) /\ (i >= t => ~Exceeds(p, Sl(i)))
    OBVIOUS
  <2>1. i <= t => t \in i .. m
    OBVIOUS
  <2>2. i >= t => i \in t .. m
    OBVIOUS
  <2> QED BY <2>1, <2>2, SlopesRise
<1>4. ASSUME NEW i \in 1 .. m, NEW v \in e[i - 1] .. e[i]
      PROVE  /\ i >= t => OnOrAbove(x, v, e[i - 1], p)
             /\ i <= t => OnOrAbove(x, v, e[i], p)
             /\ v \in 0 .. n
  <2>1. v \in 0 .. n
    BY <1>1
  <2>2. ~Exceeds(p, Sl(i)) => OnOrAbove(x, v, e[i - 1], p)
    <3> HIDE DEF p
    <3> QED BY <1>1, <1>2, ArchOverLine
  <2>3. ~Exceeds(Sl(i), p) => OnOrAbove(x, v, e[i], p)
    <3> HIDE DEF p
    <3> QED BY <1>1, <1>2, ArchOverLine
  <2> QED BY <1>3, <2>1, <2>2, <2>3
<1> HIDE DEF p, Sl
<1>5. e[t] \in 0 .. n
  BY <1>1
<1>6. OnOrAbove(x, e[t], e[t], p)
  <2>1. x[e[t]].num \in Int /\ x[e[t]].den \in Int /\ p.num \in Int /\ p.den \in Int
    BY <1>2, <1>5 DEF Curve, Fractions
  <2> QED BY <2>1 DEF OnOrAbove
<1> DEFINE Up   == {k \in Nat : t + k <= m => OnOrAbove(x, e[t + k], e[t], p)}
           Down == {k \in Nat : k <= t => OnOrAbove(x, e[t - k], e[t], p)}
<1>7. Nat \subseteq Up
  <2>1. 0 \in Up
    BY <1>6
  <2>2. ASSUME NEW k \in Nat, k \in Up PROVE k + 1 \in Up
    <3> SUFFICES ASSUME t + (k + 1) <= m PROVE OnOrAbove(x, e[t + (k + 1)], e[t], p)
      OBVIOUS
    <3> DEFINE i == t + (k + 1)
    <3>1. i \in 1 .. m /\ i >= t /\ i - 1 = t + k /\ t + k <= m
      OBVIOUS
    <3> HIDE DEF i
    <3>2. e[i - 1] \in 0 .. n /\ e[i] \in 0 .. n /\ e[i - 1] < e[i]
      BY <1>1, <3>1
    <3>3. e[i] \in e[i - 1] .. e[i]
      BY <3>2
    <3>4. OnOrAbove(x, e[i], e[i - 1], p)
      BY <1>4, <3>1, <3>3
    <3>5. OnOrAbove(x, e[i - 1], e[t], p)
      BY <2>2, <3>1
    <3>6. OnOrAbove(x, e[i], e[t], p)
      BY <1>2, <1>5, <3>2, <3>4, <3>5, LineGoesOn
    <3> QED BY <3>6 DEF i
  <2> HIDE DEF Up
  <2> QED BY <2>1, <2>2, NatInd
<1>8. Nat \subseteq Down
  <2>1. 0 \in Down
    BY <1>6
  <2>2. ASSUME NEW k \in Nat, k \in Down PROVE k + 1 \in Down
    <3> SUFFICES ASSUME k + 1 <= t PROVE OnOrAbove(x, e[t - (k + 1)], e[t], p)
      OBVIOUS
    <3> DEFINE i == t - k
    <3>1. i \in 1 .. m /\ i <= t /\ i - 1 = t - (k + 1) /\ k <= t
      OBVIOUS
    <3>5. OnOrAbove(x, e[i], e[t], p)
      BY <2>2, <3>1
    <3> HIDE DEF i
    <3>2. e[i - 1] \in 0 .. n /\ e[i] \in 0 .. n /\ e[i - 1] < e[i]
      BY <1>1, <3>1
    <3>3. e[i - 1] \in e[i - 1] .. e[i]
      BY <3>2
    <3>4. OnOrAbove(x, e[i - 1], e[i], p)
      BY <1>4, <3>1, <3>3
    <3>6. OnOrAbove(x, e[i - 1], e[t], p)
      BY <1>2, <1>5, <3>2, <3>4, <3>5, LineGoesOn
    <3> QED BY <3>1, <3>6
  <2> HIDE DEF Down
  <2> QED BY <2>1, <2>2, NatInd
<1>9. PICK r \in 1 .. m : u \in e[r - 1] .. e[r]
  BY OverOneArch
<1>10. e[r - 1] \in 0 .. n /\ e[r] \in 0 .. n
  BY <1>1
<1>11. CASE r > t
  <2>1. (r - 1) - t \in Nat /\ t + ((r - 1) - t) = r - 1 /\ r - 1 <= m
    BY <1>11
  <2>2. (r - 1) - t \in Up
    BY <1>7, <2>1
  <2>3. OnOrAbove(x, e[r - 1], e[t], p)
    BY <2>1, <2>2
  <2>4. OnOrAbove(x, u, e[r - 1], p)
    BY <1>4, <1>9, <1>11
  <2>5. OnOrAbove(x, u, e[t], p)
    BY <1>2, <1>5, <1>10, <2>3, <2>4, LineGoesOn
  <2> QED BY <2>5 DEF p, Sl
<1>12. CASE r <= t
  <2>1. t - r \in Nat /\ t - (t - r) = r /\ t - r <= t
    BY <1>12
  <2>2. t - r \in Down
    BY <1>8, <2>1
  <2>3. OnOrAbove(x, e[r], e[t], p)
    BY <2>1, <2>2
  <2>4. OnOrAbove(x, u, e[r], p)
    BY <1>4, <1>9, <1>12
  <2>5. OnOrAbove(x, u, e[t], p)
    BY <1>2, <1>5, <1>10, <2>3, <2>4, LineGoesOn
  <2> QED BY <2>5 DEF p, Sl
<1> QED BY <1>11, <1>12

\* No chord that ends where an arch ends is steeper than the arch, and none that begins
\* where it begins is less steep.
LEMMA ChordsOfAnArch ==
  ASSUME NEW n \in Nat, NEW x, Curve(x, n), NEW m \in Nat, NEW e, Arches(x, n, m, e),
         Convex(x, m, e), NEW t \in 1 .. m, NEW u \in 0 .. n
  PROVE  /\ u < e[t] => ~Exceeds(Slope(x, u, e[t]), Slope(x, e[t - 1], e[t]))
         /\ e[t - 1] < u => ~Exceeds(Slope(x, e[t - 1], e[t]), Slope(x, e[t - 1], u))
<1> DEFINE a == e[t - 1]
           b == e[t]
           k == x[b].num - x[a].num
           w == x[b].den - x[a].den
<1>1. a \in 0 .. n /\ b \in 0 .. n /\ a < b
  BY DEF Arches
<1>2. OnOrAbove(x, u, b, Slope(x, a, b))
  BY OverEveryLine
<1> HIDE DEF a, b
<1>3. /\ x[a].num \in Int /\ x[a].den \in Int /\ x[b].num \in Int /\ x[b].den \in Int
      /\ w \in Nat \ {0} /\ k \in Int
  BY <1>1, SlopeIsFraction
<1>4. x[u].num \in Int /\ x[u].den \in Int
  BY DEF Curve
<1>5. k * (x[u].den - x[b].den) <= (x[u].num - x[b].num) * w
  BY <1>2 DEF OnOrAbove, Slope, Frac
<1>6. ASSUME u < b PROVE ~Exceeds(Slope(x, u, b), Slope(x, a, b))
  <2> DEFINE d == x[b].den - x[u].den  q == x[b].num - x[u].num
  <2>1. x[u].den - x[b].den = 0 - d /\ x[u].num - x[b].num = 0 - q /\ d \in Int /\ q \in Int
    BY <1>3, <1>4
  <2>2. q * w <= k * d
    <3>0. k * (0 - d) <= (0 - q) * w
      BY <1>5, <2>1
    <3> HIDE DEF d, q, k, w
    <3>1. k * (0 - d) = 0 - k * d /\ (0 - q) * w = 0 - q * w /\ k * d \in Int /\ q * w \in Int
      BY <1>3, <2>1
    <3> QED BY <3>0, <3>1
  <2>3. ~(q * w > k * d)
    <3> HIDE DEF d, q, k, w
    <3> QED BY <1>3, <2>1, <2>2
  <2> QED BY <2>3 DEF Exceeds, Slope, Frac
<1>7. ASSUME a < u PROVE ~Exceeds(Slope(x, a, b), Slope(x, a, u))
  <2> DEFINE d == x[u].den - x[a].den  q == x[u].num - x[a].num
  <2>1. x[u].den - x[b].den = d - w /\ x[u].num - x[b].num = q - k /\ d \in Int /\ q \in Int
    BY <1>3, <1>4
  <2>2. k * d <= q * w
    <3>0. k * (d - w) <= (q - k) * w
      BY <1>5, <2>1
    <3> HIDE DEF d, q, k, w
    <3>1. /\ k * (d - w) = k * d - k * w /\ (q - k) * w = q * w - k * w
          /\ k * d \in Int /\ q * w \in Int /\ k * w \in Int
      BY <1>3, <2>1
    <3> QED BY <3>0, <3>1
  <2>3. ~(k * d > q * w)
    <3> HIDE DEF d, q, k, w
    <3> QED BY <1>3, <2>1, <2>2
  <2> QED BY <2>3 DEF Exceeds, Slope, Frac
<1> QED BY <1>6, <1>7 DEF a, b

----------------------------------------------------------------------------
(* The blocks of the isotonic fit. *)

FitBlocks == [score : Int, pos : Int, neg : Int]

\* One point for each score that has labels, from the lowest score on.
PointTables ==
  {points \in Seq([score : Int, pos : Nat, neg : Nat]) :
     /\ points # << >>
     /\ \A i \in DOMAIN points : points[i].pos + points[i].neg > 0
     /\ \A i, j \in DOMAIN points : i < j => points[i].score < points[j].score}

\* A point has a label at least, and its score is above those of the points before.
LEMMA PointsAt ==
  ASSUME NEW points \in PointTables
  PROVE  /\ Len(points) \in Nat \ {0} /\ DOMAIN points = 1 .. Len(points)
         /\ points \in Seq(FitBlocks)
         /\ \A i \in 1 .. Len(points) :
              /\ points[i] = [score |-> points[i].score, pos |-> points[i].pos, neg |-> points[i].neg]
              /\ points[i].score \in Int /\ points[i].pos \in Nat /\ points[i].neg \in Nat
              /\ points[i].pos + points[i].neg > 0
         /\ \A i, j \in 1 .. Len(points) : i < j => points[i].score < points[j].score
<1>1. points \in Seq([score : Int, pos : Nat, neg : Nat]) /\ points # << >>
  BY DEF PointTables
<1>2. Len(points) \in Nat \ {0} /\ DOMAIN points = 1 .. Len(points)
  BY <1>1, EmptySeq
<1>3. \A i \in 1 .. Len(points) : points[i] \in [score : Int, pos : Nat, neg : Nat]
  <2> DEFINE P == [score : Int, pos : Nat, neg : Nat]
  <2>1. points \in Seq(P)
    BY <1>1
  <2> HIDE DEF P
  <2>2. \A i \in 1 .. Len(points) : points[i] \in P
    BY <2>1
  <2> QED BY <2>2 DEF P
<1>4. \A i \in 1 .. Len(points) :
              /\ points[i] = [score |-> points[i].score, pos |-> points[i].pos, neg |-> points[i].neg]
              /\ points[i].score \in Int /\ points[i].pos \in Nat /\ points[i].neg \in Nat
  BY <1>3
<1>5. points \in Seq(FitBlocks)
  <2>1. \A i \in 1 .. Len(points) : points[i] \in FitBlocks
    BY <1>3 DEF FitBlocks
  <2>2. points = [i \in 1 .. Len(points) |-> points[i]]
    BY <1>1, <1>2
  <2> QED BY <1>2, <2>1, <2>2
<1> QED BY <1>2, <1>4, <1>5 DEF PointTables

\* The counts up to each point, which are a curve.
LEMMA CumulatedCounts ==
  ASSUME NEW points \in PointTables
  PROVE  /\ Cumulated(points)[0] = Frac(0, 0)
         /\ \A k \in 1 .. Len(points) :
              Cumulated(points)[k] = Frac(Cumulated(points)[k - 1].num + points[k].pos,
                                          Cumulated(points)[k - 1].den + points[k].pos + points[k].neg)
         /\ Curve(Cumulated(points), Len(points))
<1> DEFINE N == Len(points)
           Pairs == [num : Nat, den : Nat]
           Added(k, y) == Frac(y.num + points[k].pos, y.den + points[k].pos + points[k].neg)
           Counts(h) == h = [k \in 0 .. N |->
                               IF k = 0 THEN Frac(0, 0)
                               ELSE Frac(h[k - 1].num + points[k].pos,
                                         h[k - 1].den + points[k].pos + points[k].neg)]
           x == CHOOSE h : Counts(h)
           step == [e \in (1 .. N) \X Pairs |-> Added(e[1], e[2])]
<1>1. N \in Nat /\ \A k \in 1 .. N : /\ points[k].pos \in Nat /\ points[k].neg \in Nat
                                     /\ points[k].pos + points[k].neg > 0
  BY PointsAt
<1>2. Cumulated(points) = x
  BY Zenon DEF Cumulated
<1> HIDE DEF N
<1>3. \A k \in 1 .. N, y \in Pairs : Added(k, y) \in Pairs
  BY <1>1 DEF Frac
<1>4. step \in [(1 .. N) \X Pairs -> Pairs]
  BY <1>3
<1>5. \A k \in 1 .. N, y \in Pairs : step[<<k, y>>] = Added(k, y)
  OBVIOUS
<1>6. Frac(0, 0) \in Pairs
  BY DEF Frac
<1> HIDE DEF Pairs, Added, step
<1>7. PICK f : RunsThrough(f, N, Pairs, Frac(0, 0), step)
  BY <1>1, <1>4, <1>6, Rounds
<1>8. /\ f \in [0 .. N -> Pairs]
      /\ f[0] = Frac(0, 0)
      /\ \A k \in 1 .. N : f[k] = step[<<k, f[k - 1]>>]
  BY <1>7 DEF RunsThrough
<1>9. \A k \in 1 .. N : k - 1 \in 0 .. N
  BY <1>1
<1>10. ASSUME NEW k \in 0 .. N
       PROVE  f[k] = IF k = 0 THEN Frac(0, 0) ELSE Added(k, f[k - 1])
  <2>1. k # 0 => k \in 1 .. N
    BY <1>1
  <2>2. k # 0 => f[k - 1] \in Pairs
    BY <1>8, <1>9, <2>1
  <2> QED BY <1>5, <1>8, <2>1, <2>2
<1>11. Counts(f)
  <2>1. f = [k \in 0 .. N |-> f[k]]
    BY <1>8
  <2>2. Counts(f) <=> f = [k \in 0 .. N |-> IF k = 0 THEN Frac(0, 0) ELSE Added(k, f[k - 1])]
    BY DEF Added
  <2> HIDE DEF Counts
  <2> QED BY <1>10, <2>1, <2>2
<1>12. Counts(x)
  <2> HIDE DEF Counts
  <2> QED BY <1>11
<1> HIDE DEF x
<1>13. ASSUME NEW k \in 0 .. N
       PROVE  x[k] = IF k = 0 THEN Frac(0, 0) ELSE Added(k, x[k - 1])
  BY <1>12 DEF Added
<1>14. DOMAIN x = 0 .. N /\ x = [k \in 0 .. N |-> x[k]]
  BY <1>12
<1> HIDE DEF Counts
<1>15. x[0] = Frac(0, 0) /\ \A k \in 1 .. N : x[k] = Added(k, x[k - 1])
  BY <1>1, <1>13
<1> DEFINE M == {k \in Nat : k <= N => x[k] \in Pairs}
<1>16. Nat \subseteq M
  <2>1. 0 \in M
    BY <1>6, <1>15
  <2>2. ASSUME NEW k \in Nat, k \in M PROVE k + 1 \in M
    <3> SUFFICES ASSUME k + 1 <= N PROVE x[k + 1] \in Pairs
      OBVIOUS
    <3>1. x[k] \in Pairs /\ k + 1 \in 1 .. N /\ (k + 1) - 1 = k
      BY <1>1, <2>2
    <3> QED BY <1>3, <1>15, <3>1
  <2> HIDE DEF M
  <2> QED BY <2>1, <2>2, NatInd
<1>17. \A k \in 0 .. N : x[k] \in Pairs
  BY <1>1, <1>16
<1>18. ASSUME NEW k \in 1 .. N PROVE x[k - 1].den < x[k].den
  <2>1. x[k - 1].den \in Nat
    BY <1>9, <1>17 DEF Pairs
  <2>2. x[k].den = x[k - 1].den + points[k].pos + points[k].neg
    <3>1. x[k] = Frac(x[k - 1].num + points[k].pos, x[k - 1].den + points[k].pos + points[k].neg)
      BY <1>15 DEF Added
    <3> QED BY <3>1 DEF Frac
  <2> QED BY <1>1, <2>1, <2>2
<1>19. \A u, v \in 0 .. N : u < v => x[u].den < x[v].den
  <2> SUFFICES ASSUME NEW u \in 0 .. N
               PROVE  \A v \in 0 .. N : u < v => x[u].den < x[v].den
    OBVIOUS
  <2> DEFINE L == {k \in Nat : u + k + 1 <= N => x[u].den < x[u + k + 1].den}
  <2>0. \A k \in 0 .. N : x[k].den \in Nat
    BY <1>17 DEF Pairs
  <2>1. 0 \in L
    <3>1. u + 0 + 1 = u + 1 /\ (u + 1) - 1 = u /\ (u + 1 <= N => u + 1 \in 1 .. N)
      BY <1>1
    <3> QED BY <1>18, <3>1
  <2>2. ASSUME NEW k \in Nat, k \in L PROVE k + 1 \in L
    <3> SUFFICES ASSUME u + (k + 1) + 1 <= N PROVE x[u].den < x[u + (k + 1) + 1].den
      OBVIOUS
    <3> DEFINE j == u + (k + 1) + 1
    <3>1. j \in 1 .. N /\ j - 1 = u + k + 1 /\ u + k + 1 \in 0 .. N /\ u + k + 1 <= N
      BY <1>1
    <3>2. x[u].den < x[j - 1].den
      BY <2>2, <3>1
    <3>3. x[j - 1].den < x[j].den
      BY <1>18, <3>1
    <3>4. x[u].den \in Nat /\ x[j - 1].den \in Nat /\ x[j].den \in Nat
      BY <2>0, <3>1
    <3> HIDE DEF j
    <3>5. x[u].den < x[j].den
      BY <3>2, <3>3, <3>4
    <3> QED BY <3>5 DEF j
  <2>3. Nat \subseteq L
    <3> HIDE DEF L
    <3> QED BY <2>1, <2>2, NatInd
  <2> SUFFICES ASSUME NEW v \in 0 .. N, u < v PROVE x[u].den < x[v].den
    OBVIOUS
  <2>4. v - u - 1 \in Nat /\ u + (v - u - 1) + 1 = v
    OBVIOUS
  <2>5. v - u - 1 \in L
    BY <2>3, <2>4
  <2> QED BY <2>4, <2>5
<1>20. Curve(x, N)
  <2>1. x \in [0 .. N -> [num : Int, den : Int]]
    <3>1. \A k \in 0 .. N : x[k] \in [num : Int, den : Int]
      BY <1>17 DEF Pairs
    <3> QED BY <1>14, <3>1
  <2> QED BY <1>19, <2>1 DEF Curve
<1>21. \A k \in 1 .. N : x[k] = Frac(x[k - 1].num + points[k].pos,
                                     x[k - 1].den + points[k].pos + points[k].neg)
  BY <1>15 DEF Added
<1> QED BY <1>2, <1>15, <1>20, <1>21 DEF N

\* The points after the a-th up to the b-th as one block.
BlockOver(points, a, b) ==
  LET x == Cumulated(points) IN
  [score |-> points[b].score, pos |-> x[b].num - x[a].num,
   neg |-> (x[b].den - x[a].den) - (x[b].num - x[a].num)]

\* The blocks are over arches of the curve, from its start to v, with the ends e.
Cover(points, blocks, v, e) ==
  /\ blocks \in Seq(FitBlocks)
  /\ Arches(Cumulated(points), v, Len(blocks), e)
  /\ \A t \in 1 .. Len(blocks) : blocks[t] = BlockOver(points, e[t - 1], e[t])

Covers(points, blocks, v) == \E e : Cover(points, blocks, v, e)

\* The first j blocks do not fall.
NoneFalls(blocks, j) == \A t \in 1 .. j - 1 : ~Exceeds(Share(blocks[t]), Share(blocks[t + 1]))

\* A block's share is the slope of the chord over its points.
LEMMA BlockIsChord ==
  ASSUME NEW points \in PointTables, NEW a \in 0 .. Len(points), NEW b \in 0 .. Len(points), a < b
  PROVE  /\ BlockOver(points, a, b) \in FitBlocks
         /\ Share(BlockOver(points, a, b)) = Slope(Cumulated(points), a, b)
         /\ Share(BlockOver(points, a, b)) \in Fractions
<1> DEFINE x == Cumulated(points)
           n == Len(points)
<1>1. Curve(x, n) /\ n \in Nat
  BY CumulatedCounts, PointsAt
<1>2. points[b].score \in Int
  <2>1. b \in 1 .. Len(points)
    BY PointsAt
  <2> QED BY <2>1, PointsAt
<1> HIDE DEF x, n
<1>3. /\ x[a].num \in Int /\ x[a].den \in Int /\ x[b].num \in Int /\ x[b].den \in Int
      /\ Slope(x, a, b) \in Fractions
  BY <1>1, SlopeIsFraction DEF n
<1>4. BlockOver(points, a, b) = [score |-> points[b].score, pos |-> x[b].num - x[a].num,
                                 neg |-> (x[b].den - x[a].den) - (x[b].num - x[a].num)]
  BY DEF BlockOver, x
<1>5. BlockOver(points, a, b) \in FitBlocks
  BY <1>2, <1>3, <1>4 DEF FitBlocks
<1>6. Share(BlockOver(points, a, b)) = Slope(x, a, b)
  BY <1>3, <1>4 DEF Share, Slope, Frac
<1> QED BY <1>3, <1>5, <1>6 DEF x

\* A pooled block is over both.
LEMMA PooledIsOverBoth ==
  ASSUME NEW points \in PointTables, NEW a \in 0 .. Len(points), NEW b \in 0 .. Len(points),
         NEW c \in 0 .. Len(points), a < b, b < c
  PROVE  Pooled(BlockOver(points, a, b), BlockOver(points, b, c)) = BlockOver(points, a, c)
<1> DEFINE x == Cumulated(points)
           n == Len(points)
<1>1. Curve(x, n) /\ n \in Nat
  BY CumulatedCounts, PointsAt
<1> HIDE DEF x, n
<1>2. /\ x[a].num \in Int /\ x[a].den \in Int /\ x[b].num \in Int /\ x[b].den \in Int
      /\ x[c].num \in Int /\ x[c].den \in Int
  BY <1>1, SlopeIsFraction DEF n
<1>3. (x[b].num - x[a].num) + (x[c].num - x[b].num) = x[c].num - x[a].num
  BY <1>2
<1>4. ((x[b].den - x[a].den) - (x[b].num - x[a].num)) + ((x[c].den - x[b].den) - (x[c].num - x[b].num))
        = (x[c].den - x[a].den) - (x[c].num - x[a].num)
  <2> DEFINE p == x[a].den  q == x[b].den  r == x[c].den
             i == x[a].num  j == x[b].num  k == x[c].num
  <2>1. p \in Int /\ q \in Int /\ r \in Int /\ i \in Int /\ j \in Int /\ k \in Int
    BY <1>2
  <2> HIDE DEF p, q, r, i, j, k
  <2>2. ((q - p) - (j - i)) + ((r - q) - (k - j)) = (r - p) - (k - i)
    BY <2>1
  <2> QED BY <2>2 DEF p, q, r, i, j, k
<1> QED BY <1>3, <1>4 DEF Pooled, BlockOver, x

\* Ends of m arches with another end w, and with the last one moved to w.
OneMoreEnd(e, m, w) == [t \in 0 .. m + 1 |-> IF t = m + 1 THEN w ELSE e[t]]
LastEndMoved(e, m, w) == [t \in 0 .. m |-> IF t = m THEN w ELSE e[t]]

\* One more arch extends the cover of the curve up to w, and so does the last one when it
\* reaches up to w.
LEMMA MoreArches ==
  ASSUME NEW x, NEW v \in Nat, NEW w \in Nat, v < w, NEW m \in Nat, NEW e, Arches(x, v, m, e)
  PROVE  /\ Arch(x, v, w) => Arches(x, w, m + 1, OneMoreEnd(e, m, w))
         /\ m > 0 /\ Arch(x, e[m - 1], w) => Arches(x, w, m, LastEndMoved(e, m, w))
<1>1. /\ e \in [0 .. m -> 0 .. v] /\ e[0] = 0 /\ e[m] = v
      /\ \A t \in 1 .. m : e[t - 1] < e[t] /\ Arch(x, e[t - 1], e[t])
  BY DEF Arches
<1>2. ASSUME Arch(x, v, w)
      PROVE  Arches(x, w, m + 1, OneMoreEnd(e, m, w))
  <2> DEFINE f == OneMoreEnd(e, m, w)
  <2>1. f \in [0 .. m + 1 -> 0 .. w]
    BY <1>1 DEF OneMoreEnd
  <2>2. f[0] = 0 /\ f[m + 1] = w /\ f[m] = v
    BY <1>1 DEF OneMoreEnd
  <2>3. \A t \in 1 .. m : f[t - 1] = e[t - 1] /\ f[t] = e[t]
    BY DEF OneMoreEnd
  <2> HIDE DEF f
  <2>4. ASSUME NEW t \in 1 .. m + 1 PROVE f[t - 1] < f[t] /\ Arch(x, f[t - 1], f[t])
    <3>1. CASE t = m + 1
      <4>1. t - 1 = m
        BY <3>1
      <4> QED BY <1>2, <2>2, <3>1, <4>1
    <3>2. CASE t \in 1 .. m
      BY <1>1, <2>3, <3>2
    <3> QED BY <3>1, <3>2
  <2>5. Arches(x, w, m + 1, f)
    BY <2>1, <2>2, <2>4 DEF Arches
  <2> QED BY <2>5 DEF f
<1>3. ASSUME m > 0, Arch(x, e[m - 1], w)
      PROVE  Arches(x, w, m, LastEndMoved(e, m, w))
  <2> DEFINE f == LastEndMoved(e, m, w)
  <2>1. f \in [0 .. m -> 0 .. w]
    BY <1>1 DEF LastEndMoved
  <2>2. f[0] = 0 /\ f[m] = w /\ f[m - 1] = e[m - 1] /\ e[m - 1] < w
    <3>1. m - 1 \in 0 .. m /\ m - 1 # m /\ m \in 1 .. m
      BY <1>3
    <3>2. e[m - 1] \in 0 .. v
      BY <1>1, <3>1
    <3> QED BY <1>1, <1>3, <3>1, <3>2 DEF LastEndMoved
  <2>3. \A t \in 1 .. m - 1 : f[t - 1] = e[t - 1] /\ f[t] = e[t]
    BY DEF LastEndMoved
  <2> HIDE DEF f
  <2>4. ASSUME NEW t \in 1 .. m PROVE f[t - 1] < f[t] /\ Arch(x, f[t - 1], f[t])
    <3>1. CASE t = m
      BY <1>3, <2>2, <3>1
    <3>2. CASE t \in 1 .. m - 1
      BY <1>1, <2>3, <3>2
    <3> QED BY <3>1, <3>2
  <2>5. Arches(x, w, m, f)
    BY <2>1, <2>2, <2>4 DEF Arches
  <2> QED BY <2>5 DEF f
<1> QED BY <1>2, <1>3

\* A block is taken, whether it is pooled with the last one or not.
LEMMA TakeCovers ==
  ASSUME NEW points \in PointTables, NEW blocks, NEW a \in 0 .. Len(points),
         Covers(points, blocks, a), NEW b \in 0 .. Len(points), a < b,
         Arch(Cumulated(points), a, b)
  PROVE  LET c == BlockOver(points, a, b) IN
         /\ Covers(points, Take(blocks, c), b)
         /\ \/ /\ Take(blocks, c) = Append(blocks, c)
               /\ blocks # << >> => ~Exceeds(Share(blocks[Len(blocks)]), Share(c))
            \/ /\ Len(Take(blocks, c)) = Len(blocks) /\ blocks # << >>
               /\ Exceeds(Share(blocks[Len(blocks)]), Share(c))
<1> DEFINE n == Len(points)
           x == Cumulated(points)
           c == BlockOver(points, a, b)
           m == Len(blocks)
<1>0. n \in Nat /\ Curve(x, n)
  BY CumulatedCounts, PointsAt
<1>1. c \in FitBlocks
  BY BlockIsChord
<1>2. PICK e : Cover(points, blocks, a, e)
  BY DEF Covers
<1>3. /\ blocks \in Seq(FitBlocks) /\ m \in Nat /\ Arches(x, a, m, e)
      /\ \A t \in 1 .. m : blocks[t] = BlockOver(points, e[t - 1], e[t])
  BY <1>2 DEF Cover
<1>4. CASE blocks # << >> /\ Exceeds(Share(blocks[m]), Share(c))
  <2> DEFINE d == Pooled(blocks[m], c)
             s == Append(SubSeq(blocks, 1, m - 1), d)
             f == LastEndMoved(e, m, b)
  <2>1. m > 0 /\ m - 1 \in Nat /\ m \in 1 .. m
    BY <1>3, <1>4, EmptySeq
  <2>2. Take(blocks, c) = s
    BY <1>4 DEF Take, Front, Last
  <2>3. /\ e[m - 1] \in 0 .. n /\ e[m] = a /\ e[m - 1] < a /\ Arch(x, e[m - 1], a)
        /\ e[m - 1] \in Nat
    <3>1. m - 1 \in 0 .. m
      BY <2>1
    <3>2. e[m - 1] \in 0 .. a
      BY <1>3, <3>1 DEF Arches
    <3> QED BY <1>3, <2>1, <3>2 DEF Arches
  <2>4. blocks[m] = BlockOver(points, e[m - 1], a)
    BY <1>3, <2>1, <2>3
  <2>5. Exceeds(Slope(x, e[m - 1], a), Slope(x, a, b))
    BY <1>4, <2>3, <2>4, BlockIsChord
  <2>6. Arch(x, e[m - 1], b)
    <3> HIDE DEF x, n
    <3> QED BY <1>0, <2>3, <2>5, ArchesJoin DEF n, x
  <2>7. d = BlockOver(points, e[m - 1], b)
    BY <2>3, <2>4, PooledIsOverBoth
  <2>8. d \in FitBlocks
    BY <2>3, <2>7, BlockIsChord
  <2> HIDE DEF c, d, x, n
  <2>9. /\ s \in Seq(FitBlocks) /\ Len(s) = m /\ s[m] = d
        /\ \A t \in 1 .. m - 1 : s[t] = blocks[t]
    <3> HIDE DEF FitBlocks
    <3>1. SubSeq(blocks, 1, m - 1) \in Seq(FitBlocks)
      BY <1>3, <2>1
    <3>2. Len(SubSeq(blocks, 1, m - 1)) = m - 1
      <4> DEFINE k == m - 1
      <4>1. k \in Nat /\ k <= Len(blocks) /\ blocks \in Seq(FitBlocks)
        BY <1>3, <2>1
      <4> HIDE DEF k
      <4>2. Len(SubSeq(blocks, 1, k)) = k
        BY <4>1
      <4> QED BY <4>2 DEF k
    <3>3. \A t \in 1 .. m - 1 : SubSeq(blocks, 1, m - 1)[t] = blocks[t]
      BY <1>3, <2>1
    <3> HIDE DEF m
    <3> QED BY <2>1, <2>8, <3>1, <3>2, <3>3
  <2>10. Arches(x, b, m, f)
    <3> HIDE DEF m
    <3>1. a \in Nat /\ b \in Nat
      BY PointsAt
    <3> QED BY <1>3, <2>1, <2>6, <3>1, MoreArches
  <2>11. ASSUME NEW t \in 1 .. m PROVE s[t] = BlockOver(points, f[t - 1], f[t])
    <3> HIDE DEF s, m
    <3>1. CASE t = m
      <4>1. f[t] = b /\ f[t - 1] = e[m - 1]
        BY <1>3, <2>1, <3>1 DEF LastEndMoved
      <4> QED BY <2>7, <2>9, <3>1, <4>1
    <3>2. CASE t \in 1 .. m - 1
      <4>1. f[t] = e[t] /\ f[t - 1] = e[t - 1]
        BY <1>3, <2>1, <3>2 DEF LastEndMoved
      <4> QED BY <1>3, <2>9, <3>2, <4>1
    <3> QED BY <1>3, <3>1, <3>2
  <2> HIDE DEF s, f
  <2>12. Cover(points, s, b, f)
    BY <2>9, <2>10, <2>11 DEF Cover, x
  <2>13. Covers(points, Take(blocks, c), b)
    BY <2>2, <2>12 DEF Covers
  <2>14. Len(Take(blocks, c)) = m
    BY <2>2, <2>9
  <2> QED BY <1>4, <2>13, <2>14 DEF c
<1>5. CASE ~(blocks # << >> /\ Exceeds(Share(blocks[m]), Share(c)))
  <2> DEFINE s == Append(blocks, c)
             f == OneMoreEnd(e, m, b)
  <2>1. Take(blocks, c) = s
    BY <1>5 DEF Take, Last
  <2> HIDE DEF c, x, n
  <2>2. s \in Seq(FitBlocks) /\ Len(s) = m + 1 /\ s[m + 1] = c /\ \A t \in 1 .. m : s[t] = blocks[t]
    <3> HIDE DEF FitBlocks
    <3> QED BY <1>1, <1>3
  <2>3. e[m] = a /\ e[0] = 0
    BY <1>3 DEF Arches
  <2>4. Arches(x, b, m + 1, f)
    <3> HIDE DEF m
    <3>1. a \in Nat /\ b \in Nat
      BY PointsAt
    <3> QED BY <1>3, <3>1, MoreArches DEF x
  <2>5. ASSUME NEW t \in 1 .. m + 1 PROVE s[t] = BlockOver(points, f[t - 1], f[t])
    <3> HIDE DEF s, m
    <3>1. CASE t = m + 1
      <4>1. f[t] = b /\ f[t - 1] = a
        BY <1>3, <2>3, <3>1 DEF OneMoreEnd
      <4> QED BY <2>2, <3>1, <4>1 DEF c
    <3>2. CASE t \in 1 .. m
      <4>1. f[t] = e[t] /\ f[t - 1] = e[t - 1]
        BY <1>3, <3>2 DEF OneMoreEnd
      <4> QED BY <1>3, <2>2, <3>2, <4>1
    <3> QED BY <1>3, <3>1, <3>2
  <2> HIDE DEF s, f
  <2>6. Cover(points, s, b, f)
    BY <2>2, <2>4, <2>5 DEF Cover, x
  <2>7. Covers(points, Take(blocks, c), b)
    BY <2>1, <2>6 DEF Covers
  <2> QED BY <1>5, <2>1, <2>7 DEF c, s
<1> QED BY <1>4, <1>5

\* Take: what was taken stays a list of blocks.
LEMMA TakeType ==
  ASSUME NEW blocks \in Seq(FitBlocks), NEW c \in FitBlocks
  PROVE  Take(blocks, c) \in Seq(FitBlocks)
<1> DEFINE m == Len(blocks)
<1>1. m \in Nat /\ (blocks # << >> => m \in 1 .. m)
  BY EmptySeq
<1>2. ASSUME blocks # << >>
      PROVE  Append(Front(blocks), Pooled(Last(blocks), c)) \in Seq(FitBlocks)
  <2>1. Last(blocks) \in FitBlocks
    <3> HIDE DEF FitBlocks
    <3> QED BY <1>1, <1>2 DEF Last
  <2>2. Pooled(Last(blocks), c) \in FitBlocks
    BY <2>1 DEF Pooled, FitBlocks
  <2>3. Front(blocks) \in Seq(FitBlocks)
    <3> HIDE DEF FitBlocks
    <3>1. \A i \in 1 .. m - 1 : blocks[i] \in FitBlocks
      BY <1>1
    <3>2. 1 \in Int /\ m - 1 \in Int
      BY <1>1
    <3> HIDE DEF m
    <3>3. SubSeq(blocks, 1, m - 1) \in Seq(FitBlocks)
      BY <3>1, <3>2, SubSeqProperties
    <3> QED BY <3>3 DEF Front, m
  <2> HIDE DEF FitBlocks
  <2> QED BY <2>2, <2>3
<1>3. Append(blocks, c) \in Seq(FitBlocks)
  <2> HIDE DEF FitBlocks
  <2> QED OBVIOUS
<1> QED BY <1>2, <1>3 DEF Take

\* The loop over the blocks of one pass.
LEMMA PassIsALoop ==
  ASSUME NEW blocks \in Seq(FitBlocks)
  PROVE  \E taken :
           /\ taken[0] = << >>
           /\ \A j \in 1 .. Len(blocks) : taken[j] = Take(taken[j - 1], blocks[j])
           /\ Pass(blocks) = taken[Len(blocks)]
           /\ Pass(blocks) \in Seq(FitBlocks)
<1> DEFINE N == Len(blocks)
           Kept == Seq(FitBlocks)
           Taken(h) == h = [j \in 0 .. N |-> IF j = 0 THEN << >> ELSE Take(h[j - 1], blocks[j])]
           taken == CHOOSE h : Taken(h)
           step == [e \in (1 .. N) \X Kept |-> Take(e[2], blocks[e[1]])]
<1>1. N \in Nat /\ \A j \in 1 .. N : blocks[j] \in FitBlocks
  <2> HIDE DEF FitBlocks
  <2> QED OBVIOUS
<1>2. Pass(blocks) = taken[N]
  BY Zenon DEF Pass
<1> HIDE DEF N
<1>3. \A j \in 1 .. N, y \in Kept : Take(y, blocks[j]) \in Kept
  BY <1>1, TakeType
<1> HIDE DEF Kept
<1>4. step \in [(1 .. N) \X Kept -> Kept]
  BY <1>3
<1>5. \A j \in 1 .. N, y \in Kept : step[<<j, y>>] = Take(y, blocks[j])
  OBVIOUS
<1>6. << >> \in Kept
  BY DEF Kept
<1> HIDE DEF step
<1>7. PICK f : RunsThrough(f, N, Kept, << >>, step)
  BY <1>1, <1>4, <1>6, Rounds
<1>8. /\ f \in [0 .. N -> Kept]
      /\ f[0] = << >>
      /\ \A j \in 1 .. N : f[j] = step[<<j, f[j - 1]>>]
  BY <1>7 DEF RunsThrough
<1>9. \A j \in 1 .. N : j - 1 \in 0 .. N
  BY <1>1
<1>10. ASSUME NEW j \in 0 .. N
       PROVE  f[j] = IF j = 0 THEN << >> ELSE Take(f[j - 1], blocks[j])
  <2>1. j # 0 => j \in 1 .. N
    BY <1>1
  <2>2. j # 0 => f[j - 1] \in Kept
    BY <1>8, <1>9, <2>1
  <2> QED BY <1>5, <1>8, <2>1, <2>2
<1>11. Taken(f)
  <2>1. f = [j \in 0 .. N |-> f[j]]
    BY <1>8
  <2> QED BY <1>10, <2>1
<1>12. Taken(taken)
  <2> HIDE DEF Taken
  <2> QED BY <1>11
<1> HIDE DEF taken
<1>13. ASSUME NEW j \in 0 .. N
       PROVE  taken[j] = IF j = 0 THEN << >> ELSE Take(taken[j - 1], blocks[j])
  BY <1>12
<1> HIDE DEF Taken
<1>14. taken[0] = << >> /\ \A j \in 1 .. N : taken[j] = Take(taken[j - 1], blocks[j])
  BY <1>1, <1>13
<1> DEFINE M == {j \in Nat : j <= N => taken[j] \in Kept}
<1>15. 0 \in M
  BY <1>6, <1>14
<1>16. ASSUME NEW j \in Nat, j \in M PROVE j + 1 \in M
  <2> SUFFICES ASSUME j + 1 <= N PROVE taken[j + 1] \in Kept
    OBVIOUS
  <2>1. taken[j] \in Kept /\ j + 1 \in 1 .. N /\ (j + 1) - 1 = j
    BY <1>1, <1>16
  <2> QED BY <1>3, <1>14, <2>1
<1>17. Nat \subseteq M
  <2> HIDE DEF M
  <2> QED BY <1>15, <1>16, NatInd
<1>18. taken[N] \in Kept
  BY <1>1, <1>17
<1> QED BY <1>2, <1>14, <1>18 DEF N, Kept

\* One pass: the blocks still cover the curve; when no block falls it changes nothing, and
\* otherwise there are fewer blocks after it.
LEMMA PassCovers ==
  ASSUME NEW points \in PointTables, NEW blocks, Covers(points, blocks, Len(points))
  PROVE  /\ Covers(points, Pass(blocks), Len(points))
         /\ NoneFalls(blocks, Len(blocks)) => Pass(blocks) = blocks
         /\ ~NoneFalls(blocks, Len(blocks)) => Len(Pass(blocks)) < Len(blocks)
<1> DEFINE n == Len(points)
           x == Cumulated(points)
           m == Len(blocks)
<1>1. PICK e : Cover(points, blocks, n, e)
  BY DEF Covers
<1>2. /\ blocks \in Seq(FitBlocks) /\ m \in Nat /\ n \in Nat /\ Arches(x, n, m, e)
      /\ \A t \in 1 .. m : blocks[t] = BlockOver(points, e[t - 1], e[t])
  BY <1>1, PointsAt DEF Cover
<1>3. PICK taken : /\ taken[0] = << >>
                   /\ \A j \in 1 .. m : taken[j] = Take(taken[j - 1], blocks[j])
                   /\ Pass(blocks) = taken[m]
                   /\ Pass(blocks) \in Seq(FitBlocks)
  BY <1>2, PassIsALoop
<1>4. /\ e[0] = 0 /\ e[m] = n /\ e \in [0 .. m -> 0 .. n]
      /\ \A t \in 1 .. m : e[t - 1] < e[t] /\ Arch(x, e[t - 1], e[t])
  BY <1>2 DEF Arches
<1> DEFINE Sofar(j) == /\ Covers(points, taken[j], e[j]) /\ Len(taken[j]) <= j
                       /\ NoneFalls(blocks, j) =>
                            Len(taken[j]) = j /\ \A i \in 1 .. j : taken[j][i] = blocks[i]
                       /\ ~NoneFalls(blocks, j) => Len(taken[j]) < j
           M == {j \in Nat : j <= m => Sofar(j)}
<1>5. 0 \in M
  <2>1. << >> \in Seq(FitBlocks) /\ Len(<< >>) = 0
    BY EmptySeq
  <2> DEFINE f == [t \in 0 .. 0 |-> 0]
  <2>2. f \in [0 .. 0 -> 0 .. 0] /\ f[0] = 0 /\ 1 .. 0 = {}
    OBVIOUS
  <2> HIDE DEF f
  <2>3. Arches(x, 0, 0, f)
    BY <2>2 DEF Arches
  <2>4. Covers(points, << >>, 0)
    BY <2>1, <2>2, <2>3 DEF Covers, Cover
  <2>5. NoneFalls(blocks, 0)
    BY DEF NoneFalls
  <2>6. Sofar(0)
    <3>1. Covers(points, taken[0], e[0]) /\ Len(taken[0]) = 0
      BY <1>3, <1>4, <2>1, <2>4
    <3> QED BY <2>2, <2>5, <3>1
  <2> HIDE DEF Sofar
  <2> QED BY <2>6
<1>6. ASSUME NEW j \in Nat, j \in M
      PROVE  j + 1 \in M
  <2> SUFFICES ASSUME j + 1 <= m PROVE Sofar(j + 1)
    BY DEF M
  <2> DEFINE c == blocks[j + 1]
             s == taken[j]
  <2>1. j + 1 \in 1 .. m /\ (j + 1) - 1 = j /\ j \in 0 .. m /\ j + 1 \in 0 .. m
    BY <1>2
  <2>2. Sofar(j)
    <3> HIDE DEF Sofar
    <3> QED BY <1>2, <1>6
  <2>3. taken[j + 1] = Take(s, c)
    BY <1>3, <2>1
  <2>4. /\ e[j] \in 0 .. n /\ e[j + 1] \in 0 .. n /\ e[j] < e[j + 1]
        /\ Arch(x, e[j], e[j + 1]) /\ c = BlockOver(points, e[j], e[j + 1])
    <3>1. e[j] \in 0 .. n /\ e[j + 1] \in 0 .. n
      BY <1>4, <2>1
    <3>2. e[j] < e[j + 1] /\ Arch(x, e[j], e[j + 1])
      BY <1>4, <2>1
    <3>3. c = BlockOver(points, e[j], e[j + 1])
      BY <1>2, <2>1
    <3> QED BY <3>1, <3>2, <3>3
  <2>5. s \in Seq(FitBlocks) /\ Len(s) \in Nat /\ (s = << >> <=> Len(s) = 0)
    <3>1. s \in Seq(FitBlocks)
      BY <2>2 DEF Covers, Cover
    <3> HIDE DEF FitBlocks
    <3> QED BY <3>1, EmptySeq
  <2>6. c \in FitBlocks
    BY <2>4, BlockIsChord
  <2>7. /\ Covers(points, Take(s, c), e[j + 1])
        /\ \/ /\ Take(s, c) = Append(s, c)
              /\ s # << >> => ~Exceeds(Share(s[Len(s)]), Share(c))
           \/ /\ Len(Take(s, c)) = Len(s) /\ s # << >>
              /\ Exceeds(Share(s[Len(s)]), Share(c))
    <3> HIDE DEF c, s
    <3> QED BY <2>2, <2>4, TakeCovers DEF s
  <2>8. Len(Append(s, c)) = Len(s) + 1 /\ Append(s, c)[Len(s) + 1] = c
        /\ \A i \in 1 .. Len(s) : Append(s, c)[i] = s[i]
    <3> HIDE DEF s, c, FitBlocks
    <3> QED BY <2>5, <2>6
  <2>9. NoneFalls(blocks, j + 1)
          <=> NoneFalls(blocks, j) /\ (j >= 1 => ~Exceeds(Share(blocks[j]), Share(c)))
    <3>1. 1 .. (j + 1) - 1 = 1 .. j /\ (j >= 1 => 1 .. j = (1 .. j - 1) \cup {j})
          /\ (j = 0 => 1 .. j = {} /\ 1 .. j - 1 = {})
      OBVIOUS
    <3> QED BY <3>1 DEF NoneFalls
  <2> HIDE DEF c, s
  <2>10. NoneFalls(blocks, j) => Len(s) = j /\ \A i \in 1 .. j : s[i] = blocks[i]
    BY <2>2 DEF s
  <2>11. (~NoneFalls(blocks, j) => Len(s) < j) /\ Len(s) <= j
    BY <2>2 DEF s
  <2>12. CASE NoneFalls(blocks, j + 1)
    <3>1. Len(s) = j /\ \A i \in 1 .. j : s[i] = blocks[i]
      BY <2>9, <2>10, <2>12
    <3>2. Take(s, c) = Append(s, c)
      <4>1. s # << >> => j >= 1 /\ s[Len(s)] = blocks[j]
        BY <2>5, <3>1
      <4> QED BY <2>7, <2>9, <2>12, <4>1
    <3>3. \A i \in 1 .. j + 1 : Append(s, c)[i] = blocks[i]
      BY <2>8, <3>1 DEF c
    <3> QED BY <2>3, <2>7, <2>8, <2>12, <3>1, <3>2, <3>3
  <2>13. CASE ~NoneFalls(blocks, j + 1)
    <3>1. Len(Take(s, c)) < j + 1
      <4>1. CASE NoneFalls(blocks, j)
        <5>1. j >= 1 /\ Exceeds(Share(blocks[j]), Share(c))
          BY <2>9, <2>13, <4>1
        <5>2. Len(s) = j /\ s[Len(s)] = blocks[j] /\ s # << >>
          BY <2>5, <2>10, <4>1, <5>1
        <5>3. Len(Take(s, c)) = Len(s)
          BY <2>7, <5>1, <5>2
        <5> QED BY <5>2, <5>3
      <4>2. CASE ~NoneFalls(blocks, j)
        <5>1. Len(Take(s, c)) \in {Len(s), Len(s) + 1}
          BY <2>7, <2>8
        <5> QED BY <2>5, <2>11, <4>2, <5>1
      <4> QED BY <4>1, <4>2
    <3>2. Len(Take(s, c)) <= j + 1
      <4>1. Len(Take(s, c)) \in Nat
        BY <2>5, <2>7, <2>8
      <4> QED BY <3>1, <4>1
    <3> QED BY <2>3, <2>7, <2>13, <3>1, <3>2
  <2> QED BY <2>12, <2>13
<1>7. Nat \subseteq M
  <2> HIDE DEF M
  <2> QED BY <1>5, <1>6, NatInd
<1>8. Sofar(m)
  <2>1. m \in M /\ m <= m
    BY <1>2, <1>7
  <2> HIDE DEF Sofar, m
  <2> QED BY <2>1
<1>9. ASSUME NoneFalls(blocks, m) PROVE Pass(blocks) = blocks
  <2>1. Len(Pass(blocks)) = m /\ \A i \in 1 .. m : Pass(blocks)[i] = blocks[i]
    BY <1>3, <1>8, <1>9
  <2> QED BY <1>2, <1>3, <2>1, SeqEqual
<1> QED BY <1>3, <1>4, <1>8, <1>9

\* Each point is a block, before the first pass.
LEMMA PointsCover ==
  ASSUME NEW points \in PointTables
  PROVE  Covers(points, points, Len(points))
<1> DEFINE n == Len(points)
           x == Cumulated(points)
           e == [t \in 0 .. n |-> t]
<1>1. n \in Nat /\ Curve(x, n) /\ points \in Seq(FitBlocks)
  BY PointsAt, CumulatedCounts
<1>2. \A t \in 1 .. n : e[t - 1] = t - 1 /\ e[t] = t
  BY <1>1
<1>3. e \in [0 .. n -> 0 .. n] /\ e[0] = 0 /\ e[n] = n
  BY <1>1
<1> HIDE DEF e
<1>4. ASSUME NEW t \in 1 .. n
      PROVE  points[t] = BlockOver(points, t - 1, t)
  <2>1. t - 1 \in 0 .. n /\ t \in 0 .. n
    BY <1>1
  <2>2. x[t] = Frac(x[t - 1].num + points[t].pos, x[t - 1].den + points[t].pos + points[t].neg)
    BY CumulatedCounts
  <2>3. x[t - 1].num \in Int /\ x[t - 1].den \in Int
    BY <1>1, <2>1 DEF Curve
  <2>4. /\ points[t] = [score |-> points[t].score, pos |-> points[t].pos, neg |-> points[t].neg]
        /\ points[t].pos \in Nat /\ points[t].neg \in Nat
    BY PointsAt
  <2>5. /\ x[t].num = x[t - 1].num + points[t].pos
        /\ x[t].den = x[t - 1].den + points[t].pos + points[t].neg
    <3> HIDE DEF x
    <3> QED BY <2>2 DEF Frac
  <2>6. /\ x[t].num - x[t - 1].num = points[t].pos
        /\ (x[t].den - x[t - 1].den) - (x[t].num - x[t - 1].num) = points[t].neg
    <3> HIDE DEF x
    <3> QED BY <2>3, <2>4, <2>5
  <2> QED BY <2>4, <2>6 DEF BlockOver
<1>5. ASSUME NEW t \in 1 .. n
      PROVE  Arch(x, t - 1, t)
  <2>1. t - 1 \in 0 .. n /\ t \in 0 .. n /\ t - 1 < t /\ (t - 1) .. t = {t - 1, t}
    BY <1>1
  <2> DEFINE p == x[t].num - x[t - 1].num  w == x[t].den - x[t - 1].den
  <2>2. p \in Int /\ w \in Int /\ x[t - 1].num \in Int /\ x[t - 1].den \in Int
        /\ Slope(x, t - 1, t) = Frac(p, w)
    BY SMTT(30), <1>1, <2>1, SlopeIsFraction DEF Slope
  <2>3. OnOrAbove(x, t - 1, t - 1, Slope(x, t - 1, t))
    <3>1. x[t - 1].den - x[t - 1].den = 0 /\ x[t - 1].num - x[t - 1].num = 0
      BY <2>2
    <3> HIDE DEF p, w
    <3> QED BY <2>2, <3>1 DEF OnOrAbove, Frac
  <2>4. OnOrAbove(x, t, t - 1, Slope(x, t - 1, t))
    <3>1. p * w <= p * w
      <4> HIDE DEF p, w
      <4> QED BY <2>2
    <3> QED BY <2>2, <3>1 DEF OnOrAbove, Frac
  <2> QED BY <2>1, <2>3, <2>4 DEF Arch
<1>6. Arches(x, n, n, e)
  BY <1>2, <1>3, <1>5 DEF Arches
<1>7. Cover(points, points, n, e)
  BY <1>1, <1>2, <1>4, <1>6 DEF Cover
<1> QED BY <1>7 DEF Covers

\* What the passes leave covers the curve, and no block falls.
LEMMA FitCovers ==
  ASSUME NEW points \in PointTables
  PROVE  LET blocks == PassUntilNoneMerges(points) IN
         Covers(points, blocks, Len(points)) /\ NoneFalls(blocks, Len(blocks))
<1> DEFINE N == Len(points)
           Good == {b \in Seq(FitBlocks) : Covers(points, b, N)}
           Repeated(h) == h = [j \in 0 .. N |-> IF j = 0 THEN points ELSE Pass(h[j - 1])]
           after == CHOOSE h : Repeated(h)
           step == [i \in (1 .. N) \X Good |-> Pass(i[2])]
<1>1. N \in Nat \ {0}
  BY PointsAt
<1>2. PassUntilNoneMerges(points) = after[N]
  BY Zenon DEF PassUntilNoneMerges
<1> HIDE DEF N
<1>3. ASSUME NEW b \in Good
      PROVE  /\ Pass(b) \in Good
             /\ NoneFalls(b, Len(b)) => Pass(b) = b
             /\ ~NoneFalls(b, Len(b)) => Len(Pass(b)) < Len(b)
             /\ Len(b) \in Nat /\ Len(b) >= 1
  <2>1. Covers(points, b, N) /\ b \in Seq(FitBlocks)
    OBVIOUS
  <2>2. PICK e : Cover(points, b, N, e)
    BY <2>1 DEF Covers
  <2>3. e[0] = 0 /\ e[Len(b)] = N
    BY <2>2 DEF Cover, Arches
  <2>4. Len(b) \in Nat /\ Len(b) >= 1
    <3>1. Len(b) # 0
      BY <1>1, <2>3
    <3> QED BY <2>1, <3>1
  <2>5. Pass(b) \in Seq(FitBlocks)
    BY <2>1, PassIsALoop
  <2> QED BY <2>1, <2>4, <2>5, PassCovers DEF N
<1>4. step \in [(1 .. N) \X Good -> Good]
  <2> HIDE DEF Good
  <2> QED BY <1>3
<1>5. \A j \in 1 .. N, y \in Good : step[<<j, y>>] = Pass(y)
  <2> HIDE DEF Good
  <2> QED OBVIOUS
<1>6. points \in Good
  BY PointsCover, PointsAt DEF N
<1> HIDE DEF Good, step
<1>7. PICK f : RunsThrough(f, N, Good, points, step)
  BY <1>1, <1>4, <1>6, Rounds
<1>8. /\ f \in [0 .. N -> Good]
      /\ f[0] = points
      /\ \A j \in 1 .. N : f[j] = step[<<j, f[j - 1]>>]
  BY <1>7 DEF RunsThrough
<1>9. \A j \in 1 .. N : j - 1 \in 0 .. N
  BY <1>1
<1>10. ASSUME NEW j \in 0 .. N
       PROVE  f[j] = IF j = 0 THEN points ELSE Pass(f[j - 1])
  <2>1. j # 0 => j \in 1 .. N
    BY <1>1
  <2>2. j # 0 => f[j - 1] \in Good
    BY <1>8, <1>9, <2>1
  <2> QED BY <1>5, <1>8, <2>1, <2>2
<1>11. Repeated(f)
  <2>1. f = [j \in 0 .. N |-> f[j]]
    BY <1>8
  <2> QED BY <1>10, <2>1
<1>12. Repeated(after)
  <2> HIDE DEF Repeated
  <2> QED BY <1>11
<1> HIDE DEF after
<1>13. ASSUME NEW j \in 0 .. N
       PROVE  after[j] = IF j = 0 THEN points ELSE Pass(after[j - 1])
  BY <1>12
<1> HIDE DEF Repeated
<1>14. after[0] = points /\ \A j \in 1 .. N : after[j] = Pass(after[j - 1])
  BY <1>1, <1>13
<1> DEFINE Shorter(j) == /\ after[j] \in Good
                         /\ \/ NoneFalls(after[j], Len(after[j]))
                            \/ Len(after[j]) <= N - j
           M == {j \in Nat : j <= N => Shorter(j)}
<1>15. 0 \in M
  <2>1. Len(after[0]) <= N - 0
    BY <1>1, <1>14 DEF N
  <2> QED BY <1>6, <1>14, <2>1
<1>16. ASSUME NEW j \in Nat, j \in M PROVE j + 1 \in M
  <2> SUFFICES ASSUME j + 1 <= N PROVE Shorter(j + 1)
    BY DEF M
  <2>1. Shorter(j) /\ j + 1 \in 1 .. N /\ (j + 1) - 1 = j
    BY <1>1, <1>16
  <2> DEFINE b == after[j]
  <2>2. after[j + 1] = Pass(b)
    BY <1>14, <2>1
  <2>3. b \in Good
    BY <2>1
  <2>4. Len(b) \in Nat /\ Pass(b) \in Good /\ Len(Pass(b)) \in Nat
    BY <1>3, <2>3
  <2>5. CASE NoneFalls(b, Len(b))
    <3>1. Pass(b) = b
      BY <1>3, <2>3, <2>5
    <3> QED BY <2>2, <2>3, <2>5, <3>1
  <2>6. CASE ~NoneFalls(b, Len(b))
    <3>1. Len(Pass(b)) < Len(b) /\ Len(b) <= N - j
      BY <1>3, <2>1, <2>3, <2>6
    <3>2. Len(Pass(b)) <= N - (j + 1)
      <4> HIDE DEF b
      <4> QED BY <1>1, <2>4, <3>1
    <3> QED BY <2>2, <2>4, <3>2
  <2> QED BY <2>5, <2>6
<1>17. Nat \subseteq M
  <2> HIDE DEF M
  <2> QED BY <1>15, <1>16, NatInd
<1>18. Shorter(N)
  BY <1>1, <1>17
<1>19. NoneFalls(after[N], Len(after[N]))
  <2>1. Len(after[N]) \in Nat /\ Len(after[N]) >= 1 /\ N - N = 0
    BY <1>1, <1>3, <1>18
  <2> QED BY <1>18, <2>1
<1>20. Covers(points, after[N], N)
  BY <1>18 DEF Good
<1> QED BY <1>2, <1>19, <1>20 DEF N

----------------------------------------------------------------------------
(* The fit is the regression. *)

\* The least and the greatest of a list of fractions are there.
LEMMA ExtremesOf ==
  ASSUME NEW a \in Nat, NEW b \in Nat, a <= b, NEW f \in [a .. b -> Fractions],
         NEW S, S = {f[i] : i \in a .. b}
  PROVE  /\ LeastOf(S) \in S /\ \A q \in S : ~Exceeds(LeastOf(S), q)
         /\ MostOf(S) \in S /\ \A q \in S : ~Exceeds(q, MostOf(S))
<1>1. /\ \E i \in a .. b : \A j \in a .. b : ~Exceeds(f[i], f[j])
      /\ \E i \in a .. b : \A j \in a .. b : ~Exceeds(f[j], f[i])
  BY ExtremesExist
<1>2. \E p \in S : \A q \in S : ~Exceeds(p, q)
  BY <1>1
<1>3. \E p \in S : \A q \in S : ~Exceeds(q, p)
  BY <1>1
<1>4. LeastOf(S) \in S /\ \A q \in S : ~Exceeds(LeastOf(S), q)
  BY <1>2 DEF LeastOf
<1>5. MostOf(S) \in S /\ \A q \in S : ~Exceeds(q, MostOf(S))
  BY <1>3 DEF MostOf
<1> QED BY <1>4, <1>5

\* A fit: blocks that cover the curve up to its end, and do not fall.
FitOf(points, blocks, e) ==
  Cover(points, blocks, Len(points), e) /\ NoneFalls(blocks, Len(blocks))

\* The blocks of a fit: each is known by the score of its last point, its share is the slope
\* of its arch, and no share exceeds the next.
LEMMA BlocksOfFit ==
  ASSUME NEW points \in PointTables, NEW blocks, NEW e, FitOf(points, blocks, e)
  PROVE  /\ Len(blocks) \in Nat \ {0}
         /\ Arches(Cumulated(points), Len(points), Len(blocks), e)
         /\ Convex(Cumulated(points), Len(blocks), e)
         /\ \A t \in 1 .. Len(blocks) :
              /\ e[t - 1] \in 0 .. Len(points) /\ e[t] \in 1 .. Len(points) /\ e[t - 1] < e[t]
              /\ blocks[t].score = points[e[t]].score /\ blocks[t].score \in Int
              /\ Share(blocks[t]) = Slope(Cumulated(points), e[t - 1], e[t])
              /\ Share(blocks[t]) \in Fractions
         /\ \A t \in 1 .. Len(blocks) - 1 : ~Exceeds(Share(blocks[t]), Share(blocks[t + 1]))
<1> DEFINE x == Cumulated(points)
           n == Len(points)
           m == Len(blocks)
<1>1. /\ blocks \in Seq(FitBlocks) /\ m \in Nat /\ n \in Nat \ {0} /\ Arches(x, n, m, e)
      /\ \A t \in 1 .. m : blocks[t] = BlockOver(points, e[t - 1], e[t])
      /\ NoneFalls(blocks, m)
  BY PointsAt DEF FitOf, Cover
<1>2. /\ e[0] = 0 /\ e[m] = n /\ e \in [0 .. m -> 0 .. n]
      /\ \A t \in 1 .. m : e[t - 1] < e[t]
  BY <1>1 DEF Arches
<1>3. m # 0
  BY <1>1, <1>2
<1>4. ASSUME NEW t \in 1 .. m
      PROVE  /\ e[t - 1] \in 0 .. n /\ e[t] \in 1 .. n /\ e[t - 1] < e[t]
             /\ blocks[t].score = points[e[t]].score /\ blocks[t].score \in Int
             /\ Share(blocks[t]) = Slope(x, e[t - 1], e[t])
             /\ Share(blocks[t]) \in Fractions
  <2>1. t - 1 \in 0 .. m /\ t \in 0 .. m
    BY <1>1
  <2>2. e[t - 1] \in 0 .. n /\ e[t] \in 0 .. n /\ e[t - 1] < e[t]
    BY <1>2, <2>1
  <2>3. e[t] \in 1 .. n
    BY <1>1, <2>2
  <2>4. points[e[t]].score \in Int
    BY <2>3, PointsAt
  <2>5. blocks[t] = BlockOver(points, e[t - 1], e[t])
    BY <1>1
  <2>6. blocks[t].score = points[e[t]].score
    BY <2>5 DEF BlockOver
  <2> QED BY <2>2, <2>3, <2>4, <2>5, <2>6, BlockIsChord
<1>5. \A t \in 1 .. m - 1 : ~Exceeds(Share(blocks[t]), Share(blocks[t + 1]))
  BY <1>1 DEF NoneFalls
<1>6. Convex(x, m, e)
  <2> SUFFICES ASSUME NEW t \in 1 .. m - 1
               PROVE  ~Exceeds(Slope(x, e[t - 1], e[t]), Slope(x, e[t], e[t + 1]))
    BY DEF Convex
  <2>1. t \in 1 .. m /\ t + 1 \in 1 .. m /\ (t + 1) - 1 = t
    BY <1>1
  <2>2. Share(blocks[t]) = Slope(x, e[t - 1], e[t])
    BY <1>4, <2>1
  <2>3. Share(blocks[t + 1]) = Slope(x, e[t], e[t + 1])
    BY <1>4, <2>1
  <2> QED BY <1>5, <2>2, <2>3
<1> QED BY <1>1, <1>3, <1>4, <1>5, <1>6

\* The closed form at a point of a block: at least the block's share, and no more at the
\* block's last point.
LEMMA MinMaxAt ==
  ASSUME NEW points \in PointTables, NEW blocks, NEW e, FitOf(points, blocks, e),
         NEW i \in 1 .. Len(points), NEW t \in 1 .. Len(blocks), e[t - 1] < i, i <= e[t]
  PROVE  /\ MinMax(points, i) \in Fractions
         /\ ~Exceeds(Share(blocks[t]), MinMax(points, i))
         /\ i = e[t] => ~Exceeds(MinMax(points, i), Share(blocks[t]))
<1> DEFINE x == Cumulated(points)
           n == Len(points)
           m == Len(blocks)
           share == Share(blocks[t])
<1>1. n \in Nat /\ Curve(x, n) /\ m \in Nat /\ Arches(x, n, m, e) /\ Convex(x, m, e)
  BY PointsAt, CumulatedCounts, BlocksOfFit
<1>2. /\ e[t - 1] \in 0 .. n /\ e[t] \in 1 .. n /\ share = Slope(x, e[t - 1], e[t])
      /\ share \in Fractions
  BY BlocksOfFit
<1>3. \A j, k \in 0 .. n : ShareFrom(points, j, k) = Slope(x, j - 1, k)
  BY DEF ShareFrom, Slope
<1> HIDE DEF x, n, m, share
<1>4. ASSUME NEW u \in 0 .. n
      PROVE  /\ u < e[t] => ~Exceeds(Slope(x, u, e[t]), share)
             /\ e[t - 1] < u => ~Exceeds(share, Slope(x, e[t - 1], u))
  BY <1>1, <1>2, ChordsOfAnArch DEF m
<1> DEFINE S(j) == {ShareFrom(points, j, k) : k \in i .. n}
           low(j) == LeastOf(S(j))
<1>5. ASSUME NEW j \in 1 .. i
      PROVE  /\ low(j) \in Fractions
             /\ \E k \in i .. n : low(j) = Slope(x, j - 1, k)
             /\ \A k \in i .. n : ~Exceeds(low(j), Slope(x, j - 1, k))
  <2> DEFINE f == [k \in i .. n |-> Slope(x, j - 1, k)]
  <2>1. i \in Nat /\ n \in Nat /\ i <= n /\ j - 1 \in 0 .. n /\ j \in 0 .. n
    BY <1>1 DEF n
  <2>2. ASSUME NEW k \in i .. n PROVE Slope(x, j - 1, k) \in Fractions /\ k \in 0 .. n
    <3>1. k \in 0 .. n /\ j - 1 < k
      BY <2>1
    <3> QED BY <1>1, <2>1, <3>1, SlopeIsFraction
  <2>3. f \in [i .. n -> Fractions]
    <3> HIDE DEF Fractions
    <3> QED BY <2>2
  <2>4. S(j) = {f[k] : k \in i .. n}
    <3>1. \A k \in i .. n : ShareFrom(points, j, k) = f[k]
      BY <1>3, <2>1, <2>2
    <3> HIDE DEF f
    <3> QED BY <3>1
  <2>5. \A k \in i .. n : f[k] = Slope(x, j - 1, k)
    OBVIOUS
  <2> HIDE DEF S, f
  <2>6. low(j) \in S(j) /\ \A q \in S(j) : ~Exceeds(low(j), q)
    BY <2>1, <2>3, <2>4, ExtremesOf
  <2> HIDE DEF low
  <2> QED BY <2>2, <2>4, <2>5, <2>6
<1> DEFINE T == {LeastOf({ShareFrom(points, j, k) : k \in i .. n}) : j \in 1 .. i}
           most == MostOf(T)
<1>6. MinMax(points, i) = most
  BY DEF MinMax, n
<1>7. T = {low(j) : j \in 1 .. i}
  OBVIOUS
<1> HIDE DEF S, low
<1>8. most \in T /\ \A q \in T : ~Exceeds(q, most)
  <2> DEFINE g == [j \in 1 .. i |-> low(j)]
  <2>1. g \in [1 .. i -> Fractions]
    <3> HIDE DEF Fractions
    <3> QED BY <1>5
  <2>2. T = {g[j] : j \in 1 .. i}
    <3> HIDE DEF T
    <3>1. \A j \in 1 .. i : g[j] = low(j)
      OBVIOUS
    <3> HIDE DEF g
    <3> QED BY <1>7, <3>1
  <2>3. 1 \in Nat /\ i \in Nat /\ 1 <= i
    OBVIOUS
  <2> HIDE DEF g, T
  <2> QED BY <2>1, <2>2, <2>3, ExtremesOf
<1> HIDE DEF T, most
<1>9. PICK j \in 1 .. i : most = low(j)
  BY <1>7, <1>8
<1>10. most \in Fractions
  BY <1>5, <1>9
<1>11. ~Exceeds(share, most)
  <2> DEFINE a == e[t - 1] + 1
  <2>1. a \in 1 .. i /\ a - 1 = e[t - 1]
    BY <1>2
  <2> HIDE DEF a
  <2>2. PICK k \in i .. n : low(a) = Slope(x, a - 1, k)
    BY <1>5, <2>1
  <2>3. k \in 0 .. n /\ e[t - 1] < k
    BY <1>1, <1>2
  <2>4. ~Exceeds(share, low(a))
    BY <1>4, <2>1, <2>2, <2>3
  <2>5. ~Exceeds(low(a), most)
    BY <1>7, <1>8, <2>1
  <2>6. low(a) \in Fractions
    BY <1>5, <2>1
  <2> HIDE DEF Fractions
  <2> QED BY <1>2, <1>10, <2>4, <2>5, <2>6, NotExceedsTransitive
<1>12. ASSUME i = e[t] PROVE ~Exceeds(most, share)
  <2>1. i \in i .. n /\ j - 1 \in 0 .. n /\ j - 1 < e[t] /\ i \in 0 .. n
    BY <1>1, <1>12 DEF n
  <2>2. ~Exceeds(most, Slope(x, j - 1, e[t]))
    BY <1>5, <1>9, <1>12, <2>1
  <2>3. ~Exceeds(Slope(x, j - 1, e[t]), share)
    BY <1>4, <2>1
  <2>4. Slope(x, j - 1, e[t]) \in Fractions
    BY <1>1, <1>12, <2>1, SlopeIsFraction
  <2> HIDE DEF Fractions
  <2> QED BY <1>2, <1>10, <2>2, <2>3, <2>4, NotExceedsTransitive
<1> QED BY <1>6, <1>10, <1>11, <1>12 DEF share

\* Between two scores the line rises from the share at one to the share at the other.  p over
\* q and r over s are the shares, u of w the way from the first to the second.
LEMMA BetweenNumbers ==
  ASSUME NEW p \in Int, NEW q \in Nat \ {0}, NEW r \in Int, NEW s \in Nat \ {0},
         NEW w \in Nat \ {0}, NEW u \in Nat, u <= w, NEW v \in Nat, u <= v, p * s <= r * q
  PROVE  LET at(i) == p * s * w + (r * q - p * s) * i
             den   == q * s * w IN
         /\ at(u) \in Int /\ den \in Nat \ {0}
         /\ p * den <= at(u) * q /\ at(u) * s <= r * den
         /\ u = 0 => at(u) * q <= p * den
         /\ at(u) * den <= at(v) * den
<1> DEFINE g == r * q - p * s
           a == p * s * w
           den == q * s * w
<1>1. g \in Nat /\ a \in Int
  OBVIOUS
<1>2. den \in Nat \ {0}
  <2>1. q * s \in Nat \ {0}
    OBVIOUS
  <2> DEFINE k == q * s
  <2> HIDE DEF k
  <2>2. k * w \in Nat \ {0}
    BY <2>1 DEF k
  <2> QED BY <2>2 DEF k
<1>3. p * den = a * q
  OBVIOUS
<1>4. r * den = a * s + (g * w) * s
  OBVIOUS
<1> HIDE DEF g, a, den
<1>5. 0 <= g * u /\ g * u <= g * w /\ g * u <= g * v /\ g * u \in Int /\ g * v \in Int /\ g * w \in Int
      /\ (u = 0 => g * u = 0)
  BY <1>1
<1> DEFINE x == g * u  y == g * v  z == g * w
<1> HIDE DEF x, y, z
<1>6. /\ a * q <= (a + x) * q /\ (a + x) * s <= a * s + z * s /\ (a + x) * den <= (a + y) * den
      /\ (u = 0 => (a + x) * q <= a * q)
  <2>1. x \in Nat /\ y \in Nat /\ z \in Nat /\ x <= z /\ x <= y /\ (u = 0 => x = 0)
    BY <1>5 DEF x, y, z
  <2>2. a * q <= (a + x) * q
    BY <1>1, <2>1, TimesIsMonotonic
  <2>3. (a + x) * s <= (a + z) * s /\ (a + z) * s = a * s + z * s
    BY <1>1, <2>1, TimesIsMonotonic
  <2>4. (a + x) * den <= (a + y) * den
    BY <1>1, <1>2, <2>1, TimesIsMonotonic
  <2>5. u = 0 => a + x = a
    BY <1>1, <2>1
  <2>6. a * q \in Int
    BY <1>1
  <2>7. u = 0 => (a + x) * q <= a * q
    BY <2>5, <2>6
  <2> QED BY <2>2, <2>3, <2>4, <2>7
<1>7. a + x \in Int
  BY <1>1, <1>5 DEF x
<1> QED BY <1>2, <1>3, <1>4, <1>6, <1>7 DEF x, y, z, a, g, den

\* Between two blocks the line stays between their shares, and further on it is no lower.
LEMMA BetweenRises ==
  ASSUME NEW b, NEW c, Share(b) \in Fractions, Share(c) \in Fractions,
         b.score \in Int, c.score \in Int, ~Exceeds(Share(b), Share(c)),
         NEW s \in Int, b.score <= s, s < c.score,
         NEW t \in Int, s <= t, t < c.score
  PROVE  /\ Between(b, c, s) \in Fractions
         /\ ~Exceeds(Share(b), Between(b, c, s)) /\ ~Exceeds(Between(b, c, s), Share(c))
         /\ s = b.score => ~Exceeds(Between(b, c, s), Share(b))
         /\ ~Exceeds(Between(b, c, s), Between(b, c, t))
<1> DEFINE p == Share(b).num  q == Share(b).den  r == Share(c).num  d == Share(c).den
           w == c.score - b.score  u == s - b.score  v == t - b.score
           At(i) == p * d * w + (r * q - p * d) * i
           den == q * d * w
<1>1. p \in Int /\ q \in Nat \ {0} /\ r \in Int /\ d \in Nat \ {0}
  BY DEF Fractions
<1>2. w \in Nat \ {0} /\ u \in Nat /\ v \in Nat /\ u <= w /\ u <= v
  OBVIOUS
<1>3. p * d <= r * q
  BY <1>1 DEF Exceeds
<1>4. Between(b, c, s) = Frac(At(u), den) /\ Between(b, c, t) = Frac(At(v), den)
  BY DEF Between
<1>5. s = b.score => u = 0
  OBVIOUS
<1>6. Exceeds(Share(b), Between(b, c, s)) <=> p * den > At(u) * q
  <2> HIDE DEF p, q, At, den, u
  <2> QED BY <1>4 DEF Exceeds, Frac, p, q
<1>7. Exceeds(Between(b, c, s), Share(c)) <=> At(u) * d > r * den
  <2> HIDE DEF r, d, At, den, u
  <2> QED BY <1>4 DEF Exceeds, Frac, r, d
<1>8. Exceeds(Between(b, c, s), Share(b)) <=> At(u) * q > p * den
  <2> HIDE DEF p, q, At, den, u
  <2> QED BY <1>4 DEF Exceeds, Frac, p, q
<1>9. Exceeds(Between(b, c, s), Between(b, c, t)) <=> At(u) * den > At(v) * den
  <2> HIDE DEF At, den, u, v
  <2> QED BY <1>4 DEF Exceeds, Frac
<1>10. /\ At(u) \in Int /\ den \in Nat \ {0}
       /\ p * den <= At(u) * q /\ At(u) * d <= r * den
       /\ u = 0 => At(u) * q <= p * den
       /\ At(u) * den <= At(v) * den
  <2> HIDE DEF p, q, r, d, u, v, w
  <2> QED BY <1>1, <1>2, <1>3, BetweenNumbers
<1>11. At(v) \in Int
  <2> HIDE DEF p, q, r, d, u, v, w
  <2> QED BY <1>1, <1>2
<1> HIDE DEF At, den
<1>12. Between(b, c, s) \in Fractions
  BY <1>4, <1>10 DEF Fractions, Frac
<1> HIDE DEF p, q, r, d, u, v
<1>13. /\ p * den \in Int /\ At(u) * q \in Int /\ At(u) * d \in Int /\ r * den \in Int
       /\ At(u) * den \in Int /\ At(v) * den \in Int
  BY <1>1, <1>10, <1>11
<1> QED BY <1>5, <1>6, <1>7, <1>8, <1>9, <1>10, <1>12, <1>13

\* The blocks' scores and shares rise, from any block to any later one.
LEMMA BlocksRise ==
  ASSUME NEW points \in PointTables, NEW blocks, NEW e, FitOf(points, blocks, e),
         NEW t \in 1 .. Len(blocks), NEW r \in t .. Len(blocks)
  PROVE  /\ ~Exceeds(Share(blocks[t]), Share(blocks[r]))
         /\ t < r => e[t] < e[r] /\ blocks[t].score < blocks[r].score
<1> DEFINE x == Cumulated(points)
           n == Len(points)
           m == Len(blocks)
<1>1. n \in Nat /\ Curve(x, n) /\ m \in Nat /\ Arches(x, n, m, e) /\ Convex(x, m, e)
  BY PointsAt, CumulatedCounts, BlocksOfFit
<1>2. \A i \in 1 .. m : /\ e[i - 1] \in 0 .. n /\ e[i] \in 1 .. n /\ e[i - 1] < e[i]
                        /\ blocks[i].score = points[e[i]].score
                        /\ Share(blocks[i]) = Slope(x, e[i - 1], e[i])
  BY BlocksOfFit
<1>3. ~Exceeds(Share(blocks[t]), Share(blocks[r]))
  <2>1. ~Exceeds(Slope(x, e[t - 1], e[t]), Slope(x, e[r - 1], e[r]))
    <3> HIDE DEF x, n
    <3> QED BY <1>1, SlopesRise
  <2>2. r \in 1 .. m
    BY <1>1
  <2> QED BY <1>2, <2>1, <2>2
<1> DEFINE M == {k \in Nat : t + k + 1 <= m => e[t] < e[t + k + 1]}
<1>4. 0 \in M
  <2>1. t + 0 + 1 = t + 1 /\ (t + 1) - 1 = t /\ (t + 1 <= m => t + 1 \in 1 .. m)
    BY <1>1
  <2> QED BY <1>2, <2>1
<1>5. ASSUME NEW k \in Nat, k \in M PROVE k + 1 \in M
  <2> SUFFICES ASSUME t + (k + 1) + 1 <= m PROVE e[t] < e[t + (k + 1) + 1]
    OBVIOUS
  <2> DEFINE j == t + (k + 1) + 1
  <2>1. j \in 1 .. m /\ j - 1 = t + k + 1 /\ t + k + 1 <= m /\ j - 1 \in 1 .. m
    BY <1>1
  <2> HIDE DEF j
  <2>2. e[j - 1] < e[j] /\ e[j - 1] \in 0 .. n /\ e[j] \in 1 .. n /\ e[t] \in 1 .. n
    BY <1>2, <2>1
  <2>3. e[t] < e[j - 1]
    BY <1>5, <2>1
  <2>4. e[t] < e[j]
    <3> HIDE DEF n
    <3> QED BY <1>1, <2>2, <2>3
  <2> QED BY <2>4 DEF j
<1>6. Nat \subseteq M
  <2> HIDE DEF M
  <2> QED BY <1>4, <1>5, NatInd
<1>7. ASSUME t < r PROVE e[t] < e[r] /\ blocks[t].score < blocks[r].score
  <2>1. r - t - 1 \in Nat /\ t + (r - t - 1) + 1 = r /\ r \in 1 .. m
    BY <1>1, <1>7
  <2>2. r - t - 1 \in M
    BY <1>6, <2>1
  <2>3. e[t] < e[r]
    BY <2>1, <2>2
  <2>4. e[t] \in 1 .. n /\ e[r] \in 1 .. n
    BY <1>2, <2>1
  <2>5. points[e[t]].score < points[e[r]].score
    BY <2>3, <2>4, PointsAt
  <2> QED BY <1>2, <2>1, <2>3, <2>5
<1> QED BY <1>3, <1>7

\* A score is calibrated to the first share, to the last, or between two.
LEMMA CalibrateCases ==
  ASSUME NEW points \in PointTables, NEW blocks, NEW e, FitOf(points, blocks, e), NEW s \in Int
  PROVE  LET m == Len(blocks)  fitted == CalibrateIsotonic(blocks, s) IN
         /\ s <= blocks[1].score => fitted = Share(blocks[1])
         /\ s > blocks[1].score /\ s >= blocks[m].score => fitted = Share(blocks[m])
         /\ s > blocks[1].score /\ s < blocks[m].score =>
              \E i \in 1 .. m - 1 : /\ blocks[i].score <= s /\ s < blocks[i + 1].score
                                    /\ fitted = Between(blocks[i], blocks[i + 1], s)
<1> DEFINE m == Len(blocks)
           Meets(j) == blocks[j].score <= s /\ s < blocks[j + 1].score
<1>1. m \in Nat \ {0} /\ \A i \in 1 .. m : blocks[i].score \in Int
  BY BlocksOfFit
<1>2. \A i \in 1 .. m : i <= m => blocks[i].score <= blocks[m].score
  <2> SUFFICES ASSUME NEW i \in 1 .. m PROVE blocks[i].score <= blocks[m].score
    OBVIOUS
  <2>1. m \in i .. m
    BY <1>1
  <2>2. i < m => blocks[i].score < blocks[m].score
    BY <2>1, BlocksRise
  <2>3. blocks[i].score \in Int /\ blocks[m].score \in Int /\ (i < m \/ i = m)
    BY <1>1
  <2> QED BY <2>2, <2>3
<1>3. s <= blocks[1].score => CalibrateIsotonic(blocks, s) = Share(blocks[1])
  BY DEF CalibrateIsotonic
<1>4. s > blocks[1].score /\ s >= blocks[m].score => CalibrateIsotonic(blocks, s) = Share(blocks[m])
  <2>1. blocks[1].score \in Int
    BY <1>1
  <2>2. s > blocks[1].score => ~(s <= blocks[1].score)
    BY <2>1
  <2> QED BY <2>2 DEF CalibrateIsotonic, Last
<1>5. ASSUME s > blocks[1].score, s < blocks[m].score
      PROVE  \E i \in 1 .. m - 1 : Meets(i) /\ CalibrateIsotonic(blocks, s) = Between(blocks[i], blocks[i + 1], s)
  <2> DEFINE T == {j \in 1 .. m : s < blocks[j].score}
  <2>1. PICK j \in T : \A k \in T : j <= k
    <3>1. T \subseteq Nat /\ m \in T
      BY <1>1, <1>5
    <3> HIDE DEF T
    <3> QED BY <3>1, LeastNat
  <2>2. j \in 1 .. m /\ s < blocks[j].score /\ j - 1 \notin T
    BY <2>1
  <2>3. j # 1
    <3>1. blocks[1].score \in Int
      BY <1>1
    <3> QED BY <1>5, <2>2, <3>1
  <2>4. j - 1 \in 1 .. m - 1 /\ (j - 1) + 1 = j /\ j - 1 \in 1 .. m
    BY <1>1, <2>2, <2>3
  <2>5. blocks[j - 1].score <= s
    <3>1. blocks[j - 1].score \in Int
      BY <1>1, <2>4
    <3>2. ~(s < blocks[j - 1].score)
      BY <2>2, <2>4
    <3> QED BY <3>1, <3>2
  <2>6. Meets(j - 1)
    BY <2>2, <2>4, <2>5
  <2> DEFINE i == CHOOSE k \in 1 .. Len(blocks) - 1 : blocks[k].score <= s /\ s < blocks[k + 1].score
  <2>7. i \in 1 .. m - 1 /\ Meets(i)
    BY <2>4, <2>6
  <2>8. ~(s <= blocks[1].score) /\ ~(s >= blocks[m].score)
    <3>1. blocks[1].score \in Int /\ blocks[m].score \in Int
      BY <1>1
    <3> QED BY <1>5, <3>1
  <2>9. CalibrateIsotonic(blocks, s) = Between(blocks[i], blocks[i + 1], s)
    BY <2>8, Zenon DEF CalibrateIsotonic, Last
  <2> HIDE DEF i, Meets
  <2> QED BY <2>7, <2>9
<1> QED BY <1>3, <1>4, <1>5

\* What a score between two blocks is calibrated to.
LEMMA BetweenBlocks ==
  ASSUME NEW points \in PointTables, NEW blocks, NEW e, FitOf(points, blocks, e),
         NEW i \in 1 .. Len(blocks) - 1, NEW s \in Int,
         blocks[i].score <= s, s < blocks[i + 1].score
  PROVE  LET fitted == Between(blocks[i], blocks[i + 1], s) IN
         /\ fitted \in Fractions
         /\ ~Exceeds(Share(blocks[i]), fitted) /\ ~Exceeds(fitted, Share(blocks[i + 1]))
         /\ s = blocks[i].score => ~Exceeds(fitted, Share(blocks[i]))
         /\ \A t \in Int : s <= t /\ t < blocks[i + 1].score =>
              ~Exceeds(fitted, Between(blocks[i], blocks[i + 1], t))
<1>1. i \in 1 .. Len(blocks) /\ i + 1 \in 1 .. Len(blocks)
  BY BlocksOfFit
<1>2. /\ Share(blocks[i]) \in Fractions /\ Share(blocks[i + 1]) \in Fractions
      /\ blocks[i].score \in Int /\ blocks[i + 1].score \in Int
      /\ ~Exceeds(Share(blocks[i]), Share(blocks[i + 1]))
  BY <1>1, BlocksOfFit
<1> DEFINE b == blocks[i]  c == blocks[i + 1]
<1>3. /\ Share(b) \in Fractions /\ Share(c) \in Fractions /\ b.score \in Int /\ c.score \in Int
      /\ ~Exceeds(Share(b), Share(c)) /\ b.score <= s /\ s < c.score
  BY <1>2
<1> HIDE DEF b, c
<1>4. ASSUME NEW t \in Int, s <= t, t < c.score
      PROVE  /\ Between(b, c, s) \in Fractions
             /\ ~Exceeds(Share(b), Between(b, c, s)) /\ ~Exceeds(Between(b, c, s), Share(c))
             /\ s = b.score => ~Exceeds(Between(b, c, s), Share(b))
             /\ ~Exceeds(Between(b, c, s), Between(b, c, t))
  <2> HIDE DEF Fractions
  <2> QED BY <1>3, <1>4, BetweenRises
<1>5. s <= s
  OBVIOUS
<1>6. /\ Between(b, c, s) \in Fractions
      /\ ~Exceeds(Share(b), Between(b, c, s)) /\ ~Exceeds(Between(b, c, s), Share(c))
      /\ s = b.score => ~Exceeds(Between(b, c, s), Share(b))
  BY <1>3, <1>4, <1>5
<1> QED BY <1>4, <1>6 DEF b, c

\* Calibrating never swaps two scores.
LEMMA CalibrateRises ==
  ASSUME NEW points \in PointTables, NEW blocks, NEW e, FitOf(points, blocks, e),
         NEW s \in Int, NEW t \in Int, s <= t
  PROVE  ~Exceeds(CalibrateIsotonic(blocks, s), CalibrateIsotonic(blocks, t))
<1> DEFINE m == Len(blocks)
           Cal(i) == CalibrateIsotonic(blocks, i)
           Sh(i) == Share(blocks[i])
           score(i) == blocks[i].score
<1>1. m \in Nat \ {0} /\ 1 \in 1 .. m /\ m \in 1 .. m
      /\ \A i \in 1 .. m : score(i) \in Int /\ Sh(i) \in Fractions
  BY BlocksOfFit
<1>2. \A i \in 1 .. m : \A j \in i .. m : ~Exceeds(Sh(i), Sh(j)) /\ (i < j => score(i) < score(j))
  BY BlocksRise
<1>3. ASSUME NEW i \in Int
      PROVE  /\ i <= score(1) => Cal(i) = Sh(1)
             /\ i > score(1) /\ i >= score(m) => Cal(i) = Sh(m)
             /\ i > score(1) /\ i < score(m) =>
                  \E j \in 1 .. m - 1 : /\ score(j) <= i /\ i < score(j + 1)
                                        /\ Cal(i) = Between(blocks[j], blocks[j + 1], i)
  BY CalibrateCases
<1>4. ASSUME NEW i \in 1 .. m - 1, NEW k \in Int, score(i) <= k, k < score(i + 1)
      PROVE  LET fitted == Between(blocks[i], blocks[i + 1], k) IN
             /\ fitted \in Fractions
             /\ ~Exceeds(Sh(i), fitted) /\ ~Exceeds(fitted, Sh(i + 1))
             /\ \A l \in Int : k <= l /\ l < score(i + 1) =>
                  ~Exceeds(fitted, Between(blocks[i], blocks[i + 1], l))
  BY <1>4, BetweenBlocks
<1> HIDE DEF m, Cal, Sh, score, Fractions
<1>5. ASSUME NEW k \in Int PROVE ~Exceeds(Sh(1), Cal(k)) /\ ~Exceeds(Cal(k), Sh(m)) /\ Cal(k) \in Fractions
  <2>1. m \in 1 .. m /\ 1 \in 1 .. 1 /\ m \in m .. m
    BY <1>1
  <2>2. CASE k <= score(1)
    BY <1>1, <1>2, <1>3, <2>1, <2>2
  <2>3. CASE k > score(1) /\ k >= score(m)
    BY <1>1, <1>2, <1>3, <2>1, <2>3
  <2>4. CASE k > score(1) /\ k < score(m)
    <3>1. PICK j \in 1 .. m - 1 : /\ score(j) <= k /\ k < score(j + 1)
                                  /\ Cal(k) = Between(blocks[j], blocks[j + 1], k)
      BY <1>3, <2>4
    <3>2. j \in 1 .. m /\ j + 1 \in 1 .. m /\ m \in j + 1 .. m
      BY <1>1
    <3>3. ~Exceeds(Sh(1), Sh(j)) /\ ~Exceeds(Sh(j + 1), Sh(m))
      BY <1>1, <1>2, <3>2
    <3>4. Cal(k) \in Fractions /\ ~Exceeds(Sh(j), Cal(k)) /\ ~Exceeds(Cal(k), Sh(j + 1))
      BY <1>4, <3>1
    <3>5. Sh(1) \in Fractions /\ Sh(m) \in Fractions /\ Sh(j) \in Fractions /\ Sh(j + 1) \in Fractions
      BY <1>1, <3>2
    <3>6. ~Exceeds(Sh(1), Cal(k))
      BY <3>3, <3>4, <3>5, NotExceedsTransitive
    <3>7. ~Exceeds(Cal(k), Sh(m))
      BY <3>3, <3>4, <3>5, NotExceedsTransitive
    <3> QED BY <3>4, <3>6, <3>7
  <2>5. score(1) \in Int /\ score(m) \in Int
    BY <1>1
  <2> QED BY <2>2, <2>3, <2>4, <2>5
<1>6. score(1) \in Int /\ score(m) \in Int
  BY <1>1
<1>7. CASE s <= score(1)
  <2>1. Cal(s) = Sh(1)
    BY <1>3, <1>7
  <2> QED BY <1>5, <2>1 DEF Cal
<1>8. CASE s > score(1) /\ t >= score(m)
  <2>1. Cal(t) = Sh(m)
    BY <1>3, <1>6, <1>8
  <2> QED BY <1>5, <2>1 DEF Cal
<1>9. CASE s > score(1) /\ t < score(m)
  <2>1. s < score(m) /\ t > score(1)
    BY <1>6, <1>9
  <2>2. PICK i \in 1 .. m - 1 : /\ score(i) <= s /\ s < score(i + 1)
                                /\ Cal(s) = Between(blocks[i], blocks[i + 1], s)
    BY <1>3, <1>9, <2>1
  <2>3. PICK j \in 1 .. m - 1 : /\ score(j) <= t /\ t < score(j + 1)
                                /\ Cal(t) = Between(blocks[j], blocks[j + 1], t)
    BY <1>3, <1>9, <2>1
  <2>4. /\ i \in 1 .. m /\ i + 1 \in 1 .. m /\ j \in 1 .. m /\ j + 1 \in 1 .. m
        /\ score(i) \in Int /\ score(i + 1) \in Int /\ score(j) \in Int /\ score(j + 1) \in Int
    BY <1>1
  <2>5. i <= j
    <3> SUFFICES ASSUME j + 1 <= i PROVE FALSE
      BY <1>1
    <3>1. i \in j + 1 .. m
      BY <1>1, <2>4
    <3>2. score(j + 1) <= score(i)
      <4>1. j + 1 < i => score(j + 1) < score(i)
        BY <1>2, <2>4, <3>1
      <4>2. j + 1 = i \/ j + 1 < i
        OBVIOUS
      <4> QED BY <2>4, <4>1, <4>2
    <3> QED BY <2>2, <2>3, <2>4, <3>2
  <2>6. CASE i = j
    BY <1>4, <2>2, <2>3, <2>6 DEF Cal
  <2>7. CASE i < j
    <3>1. j \in i + 1 .. m
      BY <1>1, <2>4, <2>7
    <3>2. ~Exceeds(Sh(i + 1), Sh(j))
      BY <1>2, <2>4, <3>1
    <3>3. ~Exceeds(Cal(s), Sh(i + 1)) /\ ~Exceeds(Sh(j), Cal(t)) /\ Cal(s) \in Fractions /\ Cal(t) \in Fractions
      BY <1>4, <2>2, <2>3
    <3>4. Sh(i + 1) \in Fractions /\ Sh(j) \in Fractions
      BY <1>1, <2>4
    <3>5. ~Exceeds(Cal(s), Sh(j))
      BY <3>2, <3>3, <3>4, NotExceedsTransitive
    <3>6. ~Exceeds(Cal(s), Cal(t))
      BY <3>3, <3>4, <3>5, NotExceedsTransitive
    <3> QED BY <3>6 DEF Cal
  <2> QED BY <2>5, <2>6, <2>7
<1> QED BY <1>6, <1>7, <1>8, <1>9

\* A point of a block is calibrated to the block's share at most, and the block's last
\* point to no less.
LEMMA CalibrateAtPoint ==
  ASSUME NEW points \in PointTables, NEW blocks, NEW e, FitOf(points, blocks, e),
         NEW i \in 1 .. Len(points), NEW t \in 1 .. Len(blocks), e[t - 1] < i, i <= e[t]
  PROVE  LET fitted == CalibrateIsotonic(blocks, points[i].score) IN
         /\ fitted \in Fractions
         /\ ~Exceeds(fitted, Share(blocks[t]))
         /\ i = e[t] => ~Exceeds(Share(blocks[t]), fitted)
<1> DEFINE n == Len(points)
           m == Len(blocks)
           s == points[i].score
           fitted == CalibrateIsotonic(blocks, s)
           Sh(j) == Share(blocks[j])
           score(j) == blocks[j].score
<1>1. /\ n \in Nat \ {0} /\ s \in Int
      /\ \A j, k \in 1 .. n : j < k => points[j].score < points[k].score
      /\ \A j \in 1 .. n : points[j].score \in Int
  BY PointsAt
<1>2. /\ m \in Nat \ {0} /\ 1 \in 1 .. m /\ m \in 1 .. m /\ e[0] = 0 /\ e[m] = n
      /\ \A j \in 1 .. m : /\ score(j) \in Int /\ Sh(j) \in Fractions
                           /\ e[j] \in 1 .. n /\ score(j) = points[e[j]].score
  BY BlocksOfFit DEF Arches
<1>3. \A j \in 1 .. m : \A k \in j .. m :
        ~Exceeds(Sh(j), Sh(k)) /\ (j < k => score(j) < score(k) /\ e[j] < e[k])
  BY BlocksRise
<1>4. /\ s <= score(1) => fitted = Sh(1)
      /\ s > score(1) /\ s >= score(m) => fitted = Sh(m)
      /\ s > score(1) /\ s < score(m) =>
           \E j \in 1 .. m - 1 : /\ score(j) <= s /\ s < score(j + 1)
                                 /\ fitted = Between(blocks[j], blocks[j + 1], s)
  BY <1>1, CalibrateCases
<1>5. ASSUME NEW j \in 1 .. m - 1, score(j) <= s, s < score(j + 1)
      PROVE  LET value == Between(blocks[j], blocks[j + 1], s) IN
             /\ value \in Fractions
             /\ ~Exceeds(Sh(j), value) /\ ~Exceeds(value, Sh(j + 1))
             /\ s = score(j) => ~Exceeds(value, Sh(j))
  BY <1>1, <1>5, BetweenBlocks
\* The point's score is after the block before and up to the block's.
<1>6. s <= score(t) /\ (i = e[t] => s = score(t)) /\ (i < e[t] => s < score(t))
  <2>1. e[t] \in 1 .. n /\ score(t) = points[e[t]].score
    BY <1>2
  <2>2. i < e[t] => s < score(t)
    BY <1>1, <2>1
  <2>3. i = e[t] => s = score(t)
    BY <2>1
  <2>4. (i < e[t] \/ i = e[t]) /\ s \in Int /\ score(t) \in Int
    BY <1>1, <1>2, <2>1
  <2> HIDE DEF s, score
  <2> QED BY <2>2, <2>3, <2>4
<1>7. t > 1 => score(t - 1) < s /\ t - 1 \in 1 .. m
  <2> SUFFICES ASSUME t > 1 PROVE score(t - 1) < s /\ t - 1 \in 1 .. m
    OBVIOUS
  <2>1. t - 1 \in 1 .. m
    BY <1>2
  <2>2. e[t - 1] \in 1 .. n /\ score(t - 1) = points[e[t - 1]].score
    BY <1>2, <2>1
  <2>3. points[e[t - 1]].score < points[i].score
    BY <1>1, <2>2
  <2> QED BY <2>1, <2>2, <2>3
<1> HIDE DEF m, n, s, fitted, Sh, score, Fractions
<1>8. Sh(t) \in Fractions /\ score(t) \in Int /\ score(1) \in Int /\ score(m) \in Int
  BY <1>2 DEF m
<1>9. ~Exceeds(Sh(t), Sh(t))
  BY <1>8, NotExceedsTotal
<1>10. ASSUME s <= score(1)
       PROVE  fitted \in Fractions /\ ~Exceeds(fitted, Sh(t)) /\ (i = e[t] => ~Exceeds(Sh(t), fitted))
  <2>1. t = 1
    <3> SUFFICES ASSUME t > 1 PROVE FALSE
      BY <1>2 DEF m
    <3>1. score(t - 1) < s /\ t - 1 \in 1 .. m /\ t - 1 \in 1 .. t - 1
      BY <1>7
    <3>2. 1 < t - 1 => score(1) < score(t - 1)
      BY <1>2, <1>3, <3>1
    <3>3. score(t - 1) \in Int /\ (1 < t - 1 \/ 1 = t - 1)
      BY <1>2, <3>1
    <3> QED BY <1>1, <1>8, <1>10, <3>1, <3>2, <3>3
  <2> QED BY <1>4, <1>8, <1>9, <1>10, <2>1
<1>11. ASSUME s > score(1), s >= score(m)
       PROVE  fitted \in Fractions /\ ~Exceeds(fitted, Sh(t)) /\ (i = e[t] => ~Exceeds(Sh(t), fitted))
  <2>1. t = m
    <3> SUFFICES ASSUME t < m PROVE FALSE
      BY <1>2 DEF m
    <3>1. m \in t .. m
      BY <1>2 DEF m
    <3>2. score(t) < score(m)
      BY <1>3, <3>1 DEF m
    <3> QED BY <1>1, <1>6, <1>8, <1>11, <3>2
  <2> QED BY <1>4, <1>8, <1>9, <1>11, <2>1
<1>12. ASSUME s > score(1), s < score(m)
       PROVE  fitted \in Fractions /\ ~Exceeds(fitted, Sh(t)) /\ (i = e[t] => ~Exceeds(Sh(t), fitted))
  <2>1. PICK j \in 1 .. m - 1 : /\ score(j) <= s /\ s < score(j + 1)
                                /\ fitted = Between(blocks[j], blocks[j + 1], s)
    BY <1>4, <1>12
  <2>2. /\ fitted \in Fractions /\ ~Exceeds(Sh(j), fitted) /\ ~Exceeds(fitted, Sh(j + 1))
        /\ s = score(j) => ~Exceeds(fitted, Sh(j))
    BY <1>5, <2>1
  <2>3. j \in 1 .. m /\ j + 1 \in 1 .. m /\ score(j) \in Int /\ score(j + 1) \in Int
    BY <1>2
  <2>4. t >= j
    <3> SUFFICES ASSUME t < j PROVE FALSE
      BY <1>2 DEF m
    <3>1. j \in t .. m
      BY <1>2, <2>3 DEF m
    <3>2. score(t) < score(j)
      BY <1>3, <3>1 DEF m
    <3> QED BY <1>1, <1>6, <1>8, <2>1, <2>3, <3>2
  <2>5. t <= j + 1
    <3> SUFFICES ASSUME j + 1 < t PROVE FALSE
      BY <1>2 DEF m
    <3>1. t > 1 /\ t - 1 \in j + 1 .. m /\ t - 1 \in 1 .. m
      BY <1>2, <2>3 DEF m
    <3>2. score(t - 1) < s /\ score(t - 1) \in Int
      BY <1>2, <1>7, <3>1
    <3>3. j + 1 < t - 1 => score(j + 1) < score(t - 1)
      BY <1>3, <2>3, <3>1
    <3>4. j + 1 < t - 1 \/ j + 1 = t - 1
      BY <2>3, <3>1
    <3> QED BY <1>1, <2>1, <2>3, <3>2, <3>3, <3>4
  <2>6. CASE t = j
    <3>1. s = score(j)
      BY <1>1, <1>6, <2>1, <2>3, <2>6
    <3> QED BY <2>2, <2>6, <3>1
  <2>7. CASE t = j + 1
    <3>1. i # e[t]
      BY <1>1, <1>6, <2>1, <2>3, <2>7
    <3> QED BY <2>2, <2>7, <3>1
  <2>8. t = j \/ t = j + 1
    BY <1>2, <2>3, <2>4, <2>5 DEF m
  <2> QED BY <2>6, <2>7, <2>8
<1>13. s \in Int
  BY <1>1
<1> QED BY <1>8, <1>10, <1>11, <1>12, <1>13 DEF fitted, s, Sh

\* fitIsotonic computes the isotonic regression.
LEMMA FitIsRegression ==
  ASSUME NEW points \in PointTables
  PROVE  IsRegressionOf(PassUntilNoneMerges(points), points)
<1> DEFINE blocks == PassUntilNoneMerges(points)
           n == Len(points)
           m == Len(blocks)
<1>1. PICK e : FitOf(points, blocks, e)
  BY FitCovers DEF Covers, FitOf
<1> HIDE DEF blocks
<1>2. /\ n \in Nat /\ DOMAIN points = 1 .. n
      /\ \A j, k \in 1 .. n : j < k => points[j].score < points[k].score
      /\ \A j \in 1 .. n : points[j].score \in Int
  BY PointsAt
<1>3. /\ m \in Nat \ {0} /\ Arches(Cumulated(points), n, m, e) /\ DOMAIN blocks = 1 .. m
      /\ \A t \in 1 .. m : /\ e[t - 1] < e[t] /\ e[t - 1] \in 0 .. n /\ e[t] \in 1 .. n
                           /\ blocks[t].score = points[e[t]].score /\ Share(blocks[t]) \in Fractions
  <2>1. blocks \in Seq(FitBlocks)
    BY <1>1 DEF FitOf, Cover
  <2>2. DOMAIN blocks = 1 .. m
    <3> HIDE DEF FitBlocks
    <3> QED BY <2>1
  <2> QED BY <1>1, <2>2, BlocksOfFit
<1>4. ASSUME NEW i \in 1 .. n
      PROVE  LET fitted == CalibrateIsotonic(blocks, points[i].score) IN
             /\ ~Exceeds(fitted, MinMax(points, i))
             /\ (\E b \in 1 .. m : blocks[b].score = points[i].score) =>
                  SameFrac(fitted, MinMax(points, i))
  <2> DEFINE fitted == CalibrateIsotonic(blocks, points[i].score)
             most == MinMax(points, i)
  <2>1. ASSUME NEW t \in 1 .. m, e[t - 1] < i, i <= e[t]
        PROVE  /\ fitted \in Fractions /\ most \in Fractions /\ ~Exceeds(fitted, most)
               /\ i = e[t] => ~Exceeds(most, fitted)
    <3>1. /\ most \in Fractions /\ ~Exceeds(Share(blocks[t]), most)
          /\ i = e[t] => ~Exceeds(most, Share(blocks[t]))
      BY <1>1, <2>1, MinMaxAt
    <3>2. /\ fitted \in Fractions /\ ~Exceeds(fitted, Share(blocks[t]))
          /\ i = e[t] => ~Exceeds(Share(blocks[t]), fitted)
      BY <1>1, <2>1, CalibrateAtPoint
    <3>3. Share(blocks[t]) \in Fractions
      BY <1>3
    <3> HIDE DEF Fractions, fitted, most
    <3>4. ~Exceeds(fitted, most)
      BY <3>1, <3>2, <3>3, NotExceedsTransitive
    <3>5. i = e[t] => ~Exceeds(most, fitted)
      BY <3>1, <3>2, <3>3, NotExceedsTransitive
    <3> QED BY <3>1, <3>2, <3>4, <3>5
  <2>2. ~Exceeds(fitted, most)
    <3>1. i \in 0 .. n /\ i > 0
      BY <1>2
    <3>2. PICK t \in 1 .. m : i \in e[t - 1] .. e[t] /\ (i > 0 => e[t - 1] < i)
      BY <1>2, <1>3, <3>1, OverOneArch
    <3>3. e[t - 1] < i /\ i <= e[t]
      BY <1>3, <3>1, <3>2
    <3> HIDE DEF fitted, most
    <3> QED BY <2>1, <3>3
  <2>3. ASSUME NEW b \in 1 .. m, blocks[b].score = points[i].score
        PROVE  SameFrac(fitted, most)
    <3>1. e[b] \in 1 .. n /\ points[e[b]].score = points[i].score /\ e[b - 1] < e[b]
      BY <1>3, <2>3
    <3>2. e[b] = i
      <4>1. ~(e[b] < i) /\ ~(i < e[b])
        <5>1. e[b] < i => points[e[b]].score < points[i].score
          BY <1>2, <3>1
        <5>2. i < e[b] => points[i].score < points[e[b]].score
          BY <1>2, <3>1
        <5>3. points[i].score \in Int
          BY <1>2
        <5> QED BY <3>1, <5>1, <5>2, <5>3
      <4> QED BY <3>1, <4>1
    <3>3. fitted \in Fractions /\ most \in Fractions /\ ~Exceeds(fitted, most) /\ ~Exceeds(most, fitted)
      <4>1. e[b - 1] < i /\ i <= e[b]
        BY <3>1, <3>2
      <4> HIDE DEF fitted, most
      <4> QED BY <2>1, <3>2, <4>1
    <3> HIDE DEF fitted, most, Fractions
    <3> QED BY <3>3, NotExceedsTotal
  <2> QED BY <2>2, <2>3
<1>5. ASSUME NEW s \in points[1].score - 1 .. Last(points).score + 1,
             NEW t \in points[1].score - 1 .. Last(points).score + 1, s <= t
      PROVE  ~Exceeds(CalibrateIsotonic(blocks, s), CalibrateIsotonic(blocks, t))
  <2>1. s \in Int /\ t \in Int
    OBVIOUS
  <2> QED BY <1>1, <1>5, <2>1, CalibrateRises
<1>6. IsRegressionOf(blocks, points)
  BY <1>2, <1>3, <1>4, <1>5 DEF IsRegressionOf
<1> QED BY <1>6 DEF blocks

\* What HandleCalibrationFit reads of the reviewed pairs.
Labels == [score : Int, match : BOOLEAN]

\* The points of labels: one for each score, and a label at least for each point.
LEMMA PointsOfLabels ==
  ASSUME NEW labels \in Seq(Labels), labels # << >>
  PROVE  Points(labels) \in PointTables
<1> DEFINE D == DOMAIN labels
           S == {labels[i].score : i \in D}
           c == Cardinality(S)
           t == Scores(labels)
           At(s, of) == {i \in of : labels[i].score = s}
<1>1. D = 1 .. Len(labels) /\ Len(labels) \in Nat \ {0}
  BY EmptySeq
<1>2. IsFiniteSet(D)
  <2>1. Len(labels) \in Nat
    BY <1>1
  <2> HIDE DEF D
  <2> QED BY <1>1, <2>1, Places
<1>3. \A i \in D : labels[i].score \in Int
  <2> DEFINE L == Labels
  <2>1. labels \in Seq(L)
    OBVIOUS
  <2> HIDE DEF L
  <2>2. \A i \in D : labels[i] \in L
    BY <2>1
  <2> QED BY <2>2 DEF L, Labels
<1>4. IsFiniteSet(S) /\ S # {} /\ S \subseteq Int
  <2>1. IsFiniteSet(S)
    <3> DEFINE f == [i \in D |-> labels[i].score]
    <3>1. \A i \in D : f[i] \in S /\ f[i] = labels[i].score
      OBVIOUS
    <3>2. \A s \in S : \E i \in D : f[i] = s
      BY <3>1
    <3>3. f = [i \in D |-> f[i]]
      OBVIOUS
    <3> HIDE DEF D, S, f
    <3>4. f \in [D -> S]
      BY <3>1, <3>3
    <3>5. f \in Surjection(D, S)
      BY <3>2, <3>4 DEF Surjection
    <3> QED BY <1>2, <3>5, FS_Surjection
  <2>2. 1 \in D
    BY <1>1
  <2>3. labels[1].score \in S
    BY <2>2
  <2> HIDE DEF D
  <2> QED BY <1>3, <2>1, <2>3
<1>5. c \in Nat /\ c # 0
  <2> HIDE DEF S
  <2> QED BY <1>4, FS_CardinalityType, FS_EmptySet
<1>6. t = InOrder(S, Rising(S))
  BY DEF Scores
<1>7. \A x, y \in S : <<x, y>> \in Rising(S) <=> x < y
  BY DEF Rising
<1>8. Lists(t, S, Rising(S))
  <2> HIDE DEF S, t
  <2>1. OrdersAll(S, Rising(S))
    BY <1>4, <1>7 DEF OrdersAll
  <2> QED BY <1>4, <1>6, <2>1, InOrderLists
<1> HIDE DEF t
<1>9. t \in [1 .. c -> S] /\ \A i, j \in 1 .. c : i < j => t[i] < t[j]
  <2> HIDE DEF S
  <2>1. t \in [1 .. c -> S] /\ \A i, j \in 1 .. c : i < j => <<t[i], t[j]>> \in Rising(S)
    BY <1>8 DEF Lists
  <2> QED BY <1>7, <2>1
<1>10. ASSUME NEW s \in S
       PROVE  /\ PointOf(labels, s) \in [score : Int, pos : Nat, neg : Nat]
              /\ PointOf(labels, s).score = s
              /\ PointOf(labels, s).pos + PointOf(labels, s).neg > 0
  <2> DEFINE P == At(s, Matches(labels))
             N == At(s, NonMatches(labels))
  <2>1. P \subseteq D /\ N \subseteq D
    BY DEF Matches, NonMatches
  <2>2. IsFiniteSet(P) /\ IsFiniteSet(N)
    <3> HIDE DEF P, N, D
    <3> QED BY <1>2, <2>1, FS_Subset
  <2>3. P # {} \/ N # {}
    <3>1. PICK i \in D : labels[i].score = s
      OBVIOUS
    <3>2. i \in Matches(labels) \/ i \in NonMatches(labels)
      BY <3>1 DEF NonMatches
    <3> QED BY <3>1, <3>2
  <2>4. PointOf(labels, s) = [score |-> s, pos |-> Cardinality(P), neg |-> Cardinality(N)]
    BY DEF PointOf
  <2> HIDE DEF P, N
  <2>5. Cardinality(P) \in Nat /\ Cardinality(N) \in Nat /\ (Cardinality(P) # 0 \/ Cardinality(N) # 0)
    BY <2>2, <2>3, FS_CardinalityType, FS_EmptySet
  <2>6. s \in Int
    BY <1>4
  <2> HIDE DEF S
  <2> QED BY <2>4, <2>5, <2>6
<1> HIDE DEF S, c, D, At
<1> DEFINE pts == Points(labels)
           Pt == [score : Int, pos : Nat, neg : Nat]
<1>11. pts = [i \in 1 .. c |-> PointOf(labels, t[i])]
  BY <1>9 DEF Points, t
<1> HIDE DEF pts
<1>12. \A i \in 1 .. c : /\ pts[i] \in Pt /\ pts[i].score = t[i]
                         /\ pts[i].pos + pts[i].neg > 0
  <2> HIDE DEF Pt
  <2> SUFFICES ASSUME NEW i \in 1 .. c
               PROVE  pts[i] \in Pt /\ pts[i].score = t[i] /\ pts[i].pos + pts[i].neg > 0
    OBVIOUS
  <2>1. t[i] \in S /\ pts[i] = PointOf(labels, t[i])
    BY <1>9, <1>11
  <2> QED BY <1>10, <2>1 DEF Pt
<1>13. pts \in Seq(Pt) /\ DOMAIN pts = 1 .. c /\ pts # << >>
  <2> HIDE DEF Pt
  <2>1. pts \in [1 .. c -> Pt]
    BY <1>11, <1>12
  <2>2. pts \in Seq(Pt) /\ Len(pts) = c /\ DOMAIN pts = 1 .. c
    BY <1>5, <2>1
  <2> QED BY <1>5, <2>2, EmptySeq
<1>14. \A i, j \in 1 .. c : i < j => pts[i].score < pts[j].score
  BY <1>9, <1>12
<1> QED BY <1>12, <1>13, <1>14 DEF PointTables, pts, Pt

\* What is fitted is labels as well.
LEMMA TrainingLabels ==
  ASSUME NEW labels \in Seq(Labels)
  PROVE  SplitObservations(labels).train \in Seq(Labels)
<1> DEFINE at == {i \in DOMAIN labels : ~IsHeldOut(i)}
<1>1. DOMAIN labels = 1 .. Len(labels) /\ Len(labels) \in Nat
  OBVIOUS
<1>2. IsFiniteSet(DOMAIN labels)
  BY <1>1, Places
<1>3. at \subseteq DOMAIN labels /\ at \subseteq Nat
  BY <1>1
<1>4. SplitObservations(labels).train = Picked(labels, at)
  BY DEF SplitObservations
<1> HIDE DEF at
<1>5. IsFiniteSet(at)
  BY <1>2, <1>3, FS_Subset
<1>6. PICK places : /\ Lists(places, at, Rising(at))
                    /\ Picked(labels, at) = [n \in 1 .. Cardinality(at) |-> labels[places[n]]]
                    /\ Cardinality(at) \in Nat
  BY <1>3, <1>5, PickedLists
<1>7. places \in [1 .. Cardinality(at) -> at]
  BY <1>6 DEF Lists
<1> HIDE DEF Labels
<1>8. \A n \in 1 .. Cardinality(at) : labels[places[n]] \in Labels
  BY <1>3, <1>7
<1>9. [n \in 1 .. Cardinality(at) |-> labels[places[n]]] \in Seq(Labels)
  BY <1>6, <1>8
<1> QED BY <1>4, <1>6, <1>9

\* HandleCalibrationFit: an isotonic model that it installs is a regression.
LEMMA InstalledFitIsRegression ==
  ASSUME NEW labels \in Seq(Labels)
  PROVE  IsotonicIsRegression(labels)
<1> DEFINE train == SplitObservations(labels).train
           model == FitCalibrator(train)
           fit == HandleCalibrationFit(labels)
<1> SUFFICES ASSUME fit.status = 200, fit.model.type = "isotonic"
             PROVE  IsRegressionOf(fit.model.blocks, Points(train))
  BY DEF IsotonicIsRegression
<1>1. train \in Seq(Labels)
  BY TrainingLabels
<1>2. fit.model = model
  <2>1. fit = FitAnswer(400, NoModel) \/ fit = FitAnswer(200, model)
    BY DEF HandleCalibrationFit
  <2> HIDE DEF fit, model
  <2> QED BY <2>1 DEF FitAnswer
<1> HIDE DEF fit, train
<1>3. /\ model = [type |-> "isotonic", blocks |-> FitIsotonic(train)]
      /\ Matches(train) # {}
  <2>1. NoModel.type # "isotonic" /\ FitPlatt(train).type # "isotonic"
    BY DEF NoModel, FitPlatt
  <2>2. model.type = "isotonic"
    BY <1>2
  <2> QED BY <2>1, <2>2 DEF FitCalibrator
<1>4. train # << >>
  <2>1. train = << >> => DOMAIN train = {}
    BY EmptySeq
  <2> QED BY <1>3, <2>1 DEF Matches
<1>5. Points(train) \in PointTables
  BY <1>1, <1>4, PointsOfLabels
<1>6. IsRegressionOf(FitIsotonic(train), Points(train))
  BY <1>5, FitIsRegression DEF FitIsotonic
<1> HIDE DEF model
<1> QED BY <1>2, <1>3, <1>6

----------------------------------------------------------------------------
(* The problems that are posed. *)

\* At most one problem is posed, and it is one of those that can be.
OneProblem ==
  \/ problem = Problem("none", << >>)
  \/ \E p \in PageProblems : problem = Problem("page", p)
  \/ \E p \in JobProblems : problem = Problem("jobs", p)
  \/ \E p \in IngestProblems : problem = Problem("ingest", p)
  \/ \E p \in CandidateProblems : problem = Problem("candidates", p)
  \/ \E p \in LabelProblems : problem = Problem("labels", p)

\* Pose: nothing else is ever posed.
LEMMA OneProblemPosed == Spec => []OneProblem
<1>1. Init => OneProblem
  BY DEF Init, OneProblem
<1>2. OneProblem /\ [Next]_problem => OneProblem'
  <2> SUFFICES ASSUME OneProblem, [Next]_problem PROVE OneProblem'
    OBVIOUS
  <2>1. CASE UNCHANGED problem
    BY <2>1 DEF OneProblem
  <2>2. CASE Next
    BY <2>2 DEF Next, Pose, OneProblem
  <2> QED BY <2>1, <2>2
<1> QED BY <1>1, <1>2, PTL DEF Spec

\* HandleGetResults: in whatever order a store compares texts and times, a client that
\* turns the pages of a batch sees no row twice, and each row that was counted if all of
\* them can be scanned; and each tab's number is right.  The batch has no more pages than
\* a request can name.
THEOREM PagesArePartition ==
  ASSUME PageProblems \subseteq PageProblemsOver
  PROVE  Spec => []PagesPartitionRows
<1>1. OneProblem => PagesPartitionRows
  <2> SUFFICES ASSUME OneProblem, Is("page") PROVE PagesPartitionRows
    BY DEF PagesPartitionRows
  <2>1. PICK p \in PageProblems : problem = Problem("page", p)
    BY DEF OneProblem, Is, Problem
  <2>2. problem.of = p
    BY <2>1 DEF Problem
  <2>3. /\ p.backend \in {"memory", "postgres"} /\ p.rows \in RowTables /\ p.request \in PageRequest
        /\ HandleGetResults(p.backend, p.rows, p.request).totalPages <= MaxResultsPage
    BY DEF PageProblemsOver
  <2>4. /\ NoRowTwice(PagesOf(p.backend, p.rows, p.request))
        /\ AllCanBeScanned(p.backend, p.rows, p.request) =>
             CountedRowsShown(p.backend, p.rows, p.request)
    BY <2>3, RowsOnPages
  <2>5. TabsAreCounted(p.backend, p.rows, p.request)
    BY <2>3, TabsCount
  <2> QED BY <2>2, <2>4, <2>5 DEF PagesPartitionRows
<1> QED BY <1>1, OneProblemPosed, PTL

\* HandleListJobs: the pages show every job, and nothing else, where the order of the
\* jobs leaves no choice.
THEOREM JobPagesArePartition ==
  ASSUME JobProblems \subseteq JobProblemsOver
  PROVE  Spec => []JobPagesPartitionJobs
<1>1. OneProblem => JobPagesPartitionJobs
  <2> SUFFICES ASSUME OneProblem, Is("jobs") PROVE JobPagesPartitionJobs
    BY DEF JobPagesPartitionJobs
  <2>1. PICK p \in JobProblems : problem = Problem("jobs", p)
    BY DEF OneProblem, Is, Problem
  <2>2. problem.of = p
    BY <2>1 DEF Problem
  <2>3. p.backend \in {"memory", "postgres"} /\ p.jobs \in JobTables /\ p.limit \in Int
    BY DEF JobProblemsOver
  <2>4. p.backend = "postgres" \/ (\A j, k \in p.jobs : j.started = k.started => j = k) =>
          JobPagesShowAll(p.backend, p.jobs, p.limit)
    BY <2>3, JobPages
  <2> QED BY <2>2, <2>4 DEF JobPagesPartitionJobs
<1> QED BY <1>1, OneProblemPosed, PTL

\* fetchAllRecords and its two handlers: of sources that lost nothing while they were
\* read, a batch has all the rows up to the limit, in order, and says what it left out.
THEOREM IngestIsInFull ==
  ASSUME NEW Rows, FailureIsNoAnswer(Rows), IngestProblems \subseteq IngestProblemsOver(Rows)
  PROVE  Spec => []IngestReadsInFull
<1>1. OneProblem => IngestReadsInFull
  <2> SUFFICES ASSUME OneProblem, Is("ingest") PROVE IngestReadsInFull
    BY DEF IngestReadsInFull
  <2>1. PICK p \in IngestProblems : problem = Problem("ingest", p)
    BY DEF OneProblem, Is, Problem
  <2>2. problem.of = p
    BY <2>1 DEF Problem
  <2>3. p \in IngestProblemsOver(Rows)
    OBVIOUS
  <2>4. LET max == MaxIngestRecords(p.env) IN
        AnsweredInFull(p.request, max,
          IF p.handle = "upload" THEN HandleUploadFile(p.request, max)
          ELSE HandleConnectorIngest(p.request, max))
    BY <2>3, IngestIsAnsweredInFull
  <2> QED BY <2>2, <2>4 DEF IngestReadsInFull
<1> QED BY <1>1, OneProblemPosed, PTL

\* QueryCandidates: nobody outside the candidates was hit more often than one of them,
\* and an indexed key that is shared is enough unless as many others did as well.
THEOREM BestCandidatesAreFound ==
  ASSUME NEW Keys, CandidateProblems \subseteq CandidateProblemsOver(Keys)
  PROVE  Spec => []CandidatesAreTheBest
<1>1. OneProblem => CandidatesAreTheBest
  <2> SUFFICES ASSUME OneProblem, Is("candidates") PROVE CandidatesAreTheBest
    BY DEF CandidatesAreTheBest
  <2>1. PICK p \in CandidateProblems : problem = Problem("candidates", p)
    BY DEF OneProblem, Is, Problem
  <2>2. problem.of = p
    BY <2>1 DEF Problem
  <2>3. p.src \in NamesOver(Keys) /\ p.dests \in Seq(NamesOver(Keys)) /\ p.k \in Nat \ {0}
    BY DEF CandidateProblemsOver
  <2>4. BestOf(p.src, p.dests, p.k, QueryCandidates(p.src, p.dests, p.k))
    BY <2>3, BestAreFound
  <2> QED BY <2>2, <2>4 DEF CandidatesAreTheBest
<1> QED BY <1>1, OneProblemPosed, PTL

\* fitIsotonic: an isotonic calibrator that is installed is the isotonic regression of the
\* labels it was trained on, and never swaps two scores.
THEOREM IsotonicFitsAreRegressions ==
  ASSUME LabelProblems \subseteq Seq(Labels)
  PROVE  Spec => []IsotonicFitIsRegression
<1>1. OneProblem => IsotonicFitIsRegression
  <2> SUFFICES ASSUME OneProblem, Is("labels") PROVE IsotonicFitIsRegression
    BY DEF IsotonicFitIsRegression
  <2>1. PICK p \in LabelProblems : problem = Problem("labels", p)
    BY DEF OneProblem, Is, Problem
  <2>2. problem.of = p
    BY <2>1 DEF Problem
  <2>3. IsotonicIsRegression(p)
    BY InstalledFitIsRegression
  <2> QED BY <2>2, <2>3 DEF IsotonicFitIsRegression
<1> QED BY <1>1, OneProblemPosed, PTL

=============================================================================
