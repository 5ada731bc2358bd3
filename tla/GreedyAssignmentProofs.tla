----------------------- MODULE GreedyAssignmentProofs -----------------------
(***************************************************************************)
(* Candidates and the greedy loop for any scores, configuration, sources   *)
(* and destinations: matching leaves no choice of rows, the assignment is  *)
(* one to one, a row it demotes lost its destination to a row that scores  *)
(* at least as high, the order in which rows arrive does not matter, and   *)
(* what is linked is what the decision rule says of the scores.            *)
(*                                                                         *)
(* Two invariants follow the rows through the loop.  IInv: a source has    *)
(* one best row among the collected ones, hence one among rank1; the sort  *)
(* orders rank1 without changing it; and what the claim loop has visited   *)
(* so far already has the property, as claimed records who took what.      *)
(* OutInv: what has arrived from a source are the rows of a ranking of its *)
(* candidates, each row is met once and keeps all but its status, and      *)
(* after the sort the order is strict.                                     *)
(***************************************************************************)
EXTENDS GreedyAssignment, TLAPS, FiniteSetTheorems, FunctionTheorems, SequenceTheorems

----------------------------------------------------------------------------
(* Numbers. *)

\* A set of numbers that is not empty has a least one.
LEMMA LeastNat ==
  ASSUME NEW T, T \subseteq Nat, T # {}
  PROVE  \E x \in T : \A y \in T : x <= y
<1>1. IsWellFoundedOn(OpToRel(<, Nat), Nat)
  BY NatLessThanWellFounded
<1> DEFINE R == OpToRel(<, Nat)
<1>2. \E x \in T : \A y \in T : ~ (<<y, x>> \in R)
  <2> HIDE DEF R
  <2>1. IsWellFoundedOn(R, Nat)
    BY <1>1 DEF R
  <2> QED BY <2>1, WFMin, Zenon
<1>3. \A x, y \in Nat : <<y, x>> \in R <=> y < x
  BY DEF OpToRel
<1> HIDE DEF R
<1>4. PICK x \in T : \A y \in T : ~ (<<y, x>> \in R)
  BY <1>2
<1>5. \A y \in T : ~ (y < x)
  BY <1>3, <1>4
<1> QED BY <1>5

\* A set of numbers up to some bound that is not empty has a greatest one.
LEMMA GreatestBelow ==
  ASSUME NEW m \in Nat, NEW T, T \subseteq 1..m, T # {}
  PROVE  \E x \in T : \A y \in T : y <= x
<1> DEFINE U == {m - x : x \in T}
<1>1. U \subseteq Nat /\ U # {}
  <2>1. \A x \in T : m - x \in Nat
    OBVIOUS
  <2> QED BY <2>1
<1>2. PICK u \in U : \A y \in U : u <= y
  <2> HIDE DEF U
  <2> QED BY <1>1, LeastNat
<1>3. PICK x \in T : u = m - x
  OBVIOUS
<1>4. \A y \in T : y <= x
  <2> SUFFICES ASSUME NEW y \in T PROVE y <= x
    OBVIOUS
  <2>1. m - y \in U
    OBVIOUS
  <2>2. m - x <= m - y
    BY <1>2, <1>3, <2>1
  <2> QED BY <2>2
<1> QED BY <1>4

\* Induction over the natural numbers, on the set of those that have a property.
LEMMA NatInd ==
  ASSUME NEW S, 0 \in S, \A m \in Nat : m \in S => m + 1 \in S
  PROVE  Nat \subseteq S
<1> SUFFICES ASSUME Nat \ S # {} PROVE FALSE
  OBVIOUS
<1>1. PICK x \in Nat \ S : \A y \in Nat \ S : x <= y
  BY LeastNat
<1>2. x - 1 \in Nat /\ x - 1 \in S
  BY <1>1
<1> QED BY <1>1, <1>2

----------------------------------------------------------------------------
(* The rows of one source. *)

LEMMA ScoredFinite ==
  ASSUME NEW scores, NEW s
  PROVE  /\ IsFiniteSet(Scored(scores, s))
         /\ Cardinality(Scored(scores, s)) \in Nat
         /\ Scored(scores, s) # {} => Cardinality(Scored(scores, s)) >= 1
<1>1. Scored(scores, s) \subseteq Dests
  BY DEF Scored
<1>2. IsFiniteSet(Scored(scores, s))
  BY <1>1, FS_Subset, RecordsAssumption
<1> QED BY <1>2, FS_CardinalityType, FS_EmptySet

\* At least one and at most all of the ranked candidates are kept.
LEMMA KeptBounds ==
  ASSUME NEW m \in Nat
  PROVE  /\ KeptOf(m) \in 0..m
         /\ m >= 1 => KeptOf(m) >= 1
BY ConfigAssumption DEF KeptOf, MaxAlternatives

LEMMA RankingValues ==
  ASSUME NEW scores \in [Sources -> [Dests -> Score]], NEW s \in Sources,
         NEW t \in Rankings(scores, s), NEW k \in 1..Cardinality(Scored(scores, s))
  PROVE  t[k] \in Dests /\ scores[s][t[k]] \in Score
<1>1. t \in [1..Cardinality(Scored(scores, s)) -> Scored(scores, s)]
  BY DEF Rankings, Bijection, Injection
<1>2. t[k] \in Scored(scores, s)
  BY <1>1
<1>3. t[k] \in Dests
  BY <1>2 DEF Scored
<1> QED BY <1>3

\* m rows of the source s, each with its place as its rank, or the row that says
\* there is no match; only the first is ever proposed for automatic matching.
RowsOfSource(rows, m, s, strategy) ==
  /\ rows \in [1..m -> Row]
  /\ \A k \in 1..m :
       /\ rows[k].src = s
       /\ rows[k].rank = k \/ (rows[k].rank = 0 /\ rows[k].status = "NO_MATCH")
       /\ rows[k].rank # 0 => rows[k].dst \in Dests
       /\ rows[k].rank > 1 /\ strategy # "ALL_CANDIDATES"
            => rows[k].status = "REVIEW_NEEDED"

LEMMA RowsForType ==
  ASSUME NEW scores \in [Sources -> [Dests -> Score]], NEW s \in Sources,
         NEW t \in Rankings(scores, s), NEW strategy \in Strategies
  PROVE  \E m \in Nat : RowsOfSource(RowsFor(scores, s, t, strategy), m, s, strategy)
<1> DEFINE rows == RowsFor(scores, s, t, strategy)
           c == Cardinality(Scored(scores, s))
<1>1. CASE Scored(scores, s) = {} /\ EmitUnmatched
  <2>1. rows = <<NoMatchRow(s)>>
    BY <1>1 DEF RowsFor
  <2>2. NoMatchRow(s) \in Row
    BY DEF NoMatchRow, Row, Statuses, Score
  <2>3. rows \in [1..1 -> Row] /\ DOMAIN rows = 1..1 /\ rows[1] = NoMatchRow(s)
    BY <2>1, <2>2
  <2>4. \A k \in 1..1 : k = 1
    OBVIOUS
  <2> QED BY <2>2, <2>3, <2>4 DEF NoMatchRow, RowsOfSource
<1>2. CASE Scored(scores, s) = {} /\ ~EmitUnmatched
  <2>1. rows = << >>
    BY <1>2 DEF RowsFor
  <2>2. rows \in [1..0 -> Row]
    BY <2>1
  <2>3. \A k \in 1..0 : FALSE
    OBVIOUS
  <2> QED BY <2>2, <2>3 DEF RowsOfSource
<1>3. CASE Scored(scores, s) # {}
  <2> DEFINE m == KeptOf(c)
             row(k) == [src |-> s, dst |-> t[k], rank |-> k, score |-> scores[s][t[k]],
                        cross |-> <<s, t[k]>> \in CrossPairs,
                        status |-> ProposedStatus(scores, s, t, k, strategy)]
  <2>1. m \in Nat /\ m <= c /\ c \in Nat
    BY ScoredFinite, KeptBounds
  <2>2. rows = [k \in 1..m |-> row(k)]
    BY <1>3 DEF RowsFor
  <2>3. ASSUME NEW k \in 1..m
        PROVE  /\ row(k) \in Row
               /\ k > 1 /\ strategy # "ALL_CANDIDATES"
                    => row(k).status = "REVIEW_NEEDED"
               /\ t[k] \in Dests
    <3>1. k \in 1..c
      BY <2>1
    <3>2. t[k] \in Dests /\ scores[s][t[k]] \in Score
      BY <3>1, RankingValues
    <3>3. /\ ProposedStatus(scores, s, t, k, strategy) \in Statuses
          /\ k > 1 /\ strategy # "ALL_CANDIDATES"
               => ProposedStatus(scores, s, t, k, strategy) = "REVIEW_NEEDED"
      BY DEF ProposedStatus, Statuses
    <3> QED BY <3>2, <3>3, <2>1 DEF Row
  <2>4. rows \in [1..m -> Row]
    BY <2>2, <2>3
  <2>5. ASSUME NEW k \in 1..m
        PROVE  /\ rows[k].src = s
               /\ rows[k].rank = k
               /\ rows[k].dst \in Dests
               /\ k > 1 /\ strategy # "ALL_CANDIDATES"
                    => rows[k].status = "REVIEW_NEEDED"
    BY <2>2, <2>3
  <2>6. RowsOfSource(rows, m, s, strategy)
    BY <2>4, <2>5 DEF RowsOfSource
  <2> QED BY <2>1, <2>6
<1> QED BY <1>1, <1>2, <1>3

\* The sort of the candidates leaves no choice: scores decide, then the numbers.
LEMMA RankingUnique ==
  ASSUME NEW scores \in [Sources -> [Dests -> Score]], NEW s \in Sources,
         NEW t \in Rankings(scores, s), NEW u \in Rankings(scores, s)
  PROVE  t = u
<1> DEFINE C == Scored(scores, s)
           c == Cardinality(C)
<1>1. c \in Nat
  BY ScoredFinite
<1>2. ASSUME NEW a \in Rankings(scores, s)
      PROVE  /\ a \in [1..c -> C]
             /\ \A i, j \in 1..c : a[i] = a[j] => i = j
             /\ \A d \in C : \E i \in 1..c : a[i] = d
             /\ \A i, j \in 1..c : i < j => Outranks(scores, s, a[i], a[j])
  <2>1. a \in Bijection(1..c, C)
    BY DEF Rankings
  <2>2. /\ a \in [1..c -> C]
        /\ \A i, j \in 1..c : a[i] = a[j] => i = j
        /\ \A d \in C : \E i \in 1..c : a[i] = d
    <3> HIDE DEF C, c
    <3>1. /\ a \in [1..c -> C]
          /\ DOMAIN a = 1..c
          /\ \A i, j \in 1..c : a[i] = a[j] => i = j
      BY <2>1, Fun_BijectionProperties
    <3>2. \A d \in C : \E i \in 1..c : a[i] = d
      BY <2>1 DEF Bijection, Surjection
    <3> QED BY <3>1, <3>2
  <2>3. \A i, j \in DOMAIN a : i < j => Outranks(scores, s, a[i], a[j])
    BY DEF Rankings
  <2>4. DOMAIN a = 1..c
    BY <2>2
  <2> HIDE DEF C, c
  <2> QED BY <2>2, <2>3, <2>4
<1>3. C \subseteq Dests
  BY DEF Scored
<1> HIDE DEF C, c
<1>4. \A d, e \in C : Outranks(scores, s, d, e) => ~Outranks(scores, s, e, d)
  <2> SUFFICES ASSUME NEW d \in C, NEW e \in C, Outranks(scores, s, d, e)
               PROVE  ~Outranks(scores, s, e, d)
    OBVIOUS
  <2>1. d \in Int /\ e \in Int /\ scores[s][d] \in Int /\ scores[s][e] \in Int
    BY <1>3, RecordsAssumption DEF Score
  <2> QED BY <2>1 DEF Outranks
<1> SUFFICES ASSUME t # u PROVE FALSE
  OBVIOUS
<1> DEFINE T == {k \in 1..c : t[k] # u[k]}
<1>5. T # {}
  <2>1. t \in [1..c -> C] /\ u \in [1..c -> C]
    BY <1>2
  <2>2. t = [k \in 1..c |-> t[k]] /\ u = [k \in 1..c |-> u[k]]
    BY <2>1
  <2>3. ASSUME \A k \in 1..c : t[k] = u[k] PROVE FALSE
    BY <2>2, <2>3
  <2> QED BY <2>3
<1>6. PICK i \in T : \A j \in T : i <= j
  <2>1. T \subseteq Nat
    BY <1>1
  <2> HIDE DEF T
  <2> QED BY <1>5, <2>1, LeastNat
<1>7. i \in 1..c /\ t[i] # u[i] /\ \A j \in 1..c : j < i => t[j] = u[j]
  BY <1>1, <1>6
<1> HIDE DEF T
<1>8. Outranks(scores, s, t[i], u[i])
  <2>1. PICK j \in 1..c : t[j] = u[i]
    BY <1>2, <1>7
  <2>2. ~(j < i) /\ j # i
    BY <1>2, <1>7, <2>1
  <2>3. i < j
    BY <1>1, <1>7, <2>2
  <2> QED BY <1>2, <1>7, <2>1, <2>3
<1>9. Outranks(scores, s, u[i], t[i])
  <2>1. PICK j \in 1..c : u[j] = t[i]
    BY <1>2, <1>7
  <2>2. ~(j < i) /\ j # i
    BY <1>2, <1>7, <2>1
  <2>3. i < j
    BY <1>1, <1>7, <2>2
  <2> QED BY <1>2, <1>7, <2>1, <2>3
<1>10. t[i] \in C /\ u[i] \in C
  <2>1. t \in [1..c -> C] /\ u \in [1..c -> C]
    BY <1>2
  <2> QED BY <1>7, <2>1
<1> QED BY <1>4, <1>8, <1>9, <1>10

\* One source has one row of each rank.
LEMMA OneRowPerRank ==
  ASSUME NEW scores \in [Sources -> [Dests -> Score]], NEW s \in Sources,
         NEW t \in Rankings(scores, s), NEW strategy \in Strategies,
         NEW x \in RowSet(scores, s, t, strategy),
         NEW y \in RowSet(scores, s, t, strategy), x.rank = y.rank, x.rank # 0
  PROVE  x = y
<1> DEFINE rows == RowsFor(scores, s, t, strategy)
<1>1. PICK m \in Nat : RowsOfSource(rows, m, s, strategy)
  <2>1. \E m \in Nat : RowsOfSource(RowsFor(scores, s, t, strategy), m, s, strategy)
    BY RowsForType
  <2> QED BY <2>1
<1>2. RowSet(scores, s, t, strategy) = {rows[k] : k \in DOMAIN rows}
  BY DEF RowSet
<1> HIDE DEF rows
<1>3. DOMAIN rows = 1..m
  BY <1>1 DEF RowsOfSource
<1>4. PICK i \in 1..m, j \in 1..m : x = rows[i] /\ y = rows[j]
  BY <1>2, <1>3
<1>5. x.rank = i /\ y.rank = j
  BY <1>1, <1>4 DEF RowsOfSource
<1> QED BY <1>4, <1>5

\* One of the candidates outranks all others.
LEMMA FirstCandidate ==
  ASSUME NEW scores \in [Sources -> [Dests -> Score]], NEW s \in Sources,
         NEW C \in SUBSET Dests, C # {}
  PROVE  \E d \in C : \A e \in C \ {d} : Outranks(scores, s, d, e)
<1> DEFINE gap(d) == 100 - scores[s][d]
           G == {gap(d) : d \in C}
<1>1. \A d \in C : scores[s][d] \in Score /\ d \in Nat /\ gap(d) \in Nat
  BY RecordsAssumption DEF Score
<1>2. G \subseteq Nat /\ G # {}
  BY <1>1
<1>3. PICK g \in G : \A h \in G : g <= h
  <2> HIDE DEF G
  <2> QED BY <1>2, LeastNat
<1> DEFINE B == {d \in C : gap(d) = g}
<1>4. B \subseteq Nat /\ B # {}
  BY <1>1
<1>5. PICK d \in B : \A e \in B : d <= e
  <2> HIDE DEF B
  <2> QED BY <1>4, LeastNat
<1>6. ASSUME NEW e \in C \ {d}
      PROVE  Outranks(scores, s, d, e)
  <2>1. scores[s][d] \in Int /\ scores[s][e] \in Int /\ d \in Int /\ e \in Int
    BY <1>1 DEF Score
  <2>2. gap(d) <= gap(e)
    BY <1>3
  <2>3. scores[s][d] >= scores[s][e]
    BY <2>1, <2>2
  <2>4. scores[s][d] = scores[s][e] => d < e
    <3>1. scores[s][d] = scores[s][e] => e \in B
      OBVIOUS
    <3> QED BY <1>5, <2>1, <3>1
  <2>5. \/ scores[s][d] > scores[s][e]
        \/ scores[s][d] = scores[s][e] /\ d < e
    <3> HIDE DEF gap, G, B
    <3> QED BY <2>1, <2>3, <2>4
  <2> QED BY <2>5 DEF Outranks
<1> QED BY <1>6

\* Any set of candidates can be sorted.
LEMMA CandidatesCanBeSorted ==
  ASSUME NEW scores \in [Sources -> [Dests -> Score]], NEW s \in Sources
  PROVE  \A C \in SUBSET Dests :
           \E t \in Bijection(1..Cardinality(C), C) :
             \A i, j \in 1..Cardinality(C) : i < j => Outranks(scores, s, t[i], t[j])
<1> DEFINE Sorted(t, m, C) ==
             /\ t \in Bijection(1..m, C)
             /\ \A i, j \in 1..m : i < j => Outranks(scores, s, t[i], t[j])
           S == {m \in Nat : \A C \in SUBSET Dests :
                               Cardinality(C) = m => \E t : Sorted(t, m, C)}
<1>1. \A C \in SUBSET Dests : IsFiniteSet(C) /\ Cardinality(C) \in Nat
  BY RecordsAssumption, FS_Subset, FS_CardinalityType
<1>2. 0 \in S
  <2> SUFFICES ASSUME NEW C \in SUBSET Dests, Cardinality(C) = 0
               PROVE  \E t : Sorted(t, 0, C)
    OBVIOUS
  <2>1. C = {}
    BY <1>1, FS_EmptySet
  <2>2. 1..0 = {}
    OBVIOUS
  <2> DEFINE none == [k \in {} |-> k]
  <2>3. none \in Bijection({}, {})
    BY DEF Bijection, Injection, Surjection, IsInjective
  <2>4. Sorted(none, 0, C)
    BY <2>1, <2>2, <2>3
  <2> QED BY <2>4
<1>3. ASSUME NEW m \in Nat, m \in S
      PROVE  m + 1 \in S
  <2> SUFFICES ASSUME NEW C \in SUBSET Dests, Cardinality(C) = m + 1
               PROVE  \E t : Sorted(t, m + 1, C)
    OBVIOUS
  <2>1. C # {}
    BY <1>1, FS_EmptySet
  <2>2. PICK d \in C : \A e \in C \ {d} : Outranks(scores, s, d, e)
    BY <2>1, FirstCandidate
  <2>3. Cardinality(C \ {d}) = m
    <3>1. Cardinality(C \ {d}) = Cardinality(C) - 1
      BY <1>1, FS_RemoveElement
    <3> QED BY <3>1
  <2>4. PICK t : Sorted(t, m, C \ {d})
    BY <1>3, <2>3
  <2>5. /\ t \in [1..m -> C \ {d}]
        /\ \A i, j \in 1..m : t[i] = t[j] => i = j
        /\ \A e \in C \ {d} : \E i \in 1..m : t[i] = e
        /\ \A i, j \in 1..m : i < j => Outranks(scores, s, t[i], t[j])
    <3>1. t \in Bijection(1..m, C \ {d})
      BY <2>4
    <3>2. \A i, j \in 1..m : i < j => Outranks(scores, s, t[i], t[j])
      BY <2>4
    <3>3. /\ t \in [1..m -> C \ {d}]
          /\ \A i, j \in 1..m : t[i] = t[j] => i = j
      BY <3>1, Fun_BijectionProperties
    <3>4. \A e \in C \ {d} : \E i \in 1..m : t[i] = e
      BY <3>1 DEF Bijection, Surjection
    <3> QED BY <3>2, <3>3, <3>4
  <2> DEFINE u == [k \in 1..(m + 1) |-> IF k = 1 THEN d ELSE t[k - 1]]
  <2>6. \A k \in 1..(m + 1) : k # 1 => k - 1 \in 1..m /\ u[k] = t[k - 1] /\ u[k] \in C \ {d}
    BY <2>5
  <2>7. u[1] = d /\ 1 \in 1..(m + 1)
    OBVIOUS
  <2>8. u \in [1..(m + 1) -> C]
    <3>1. \A k \in 1..(m + 1) : u[k] \in C
      BY <2>6, <2>7
    <3> QED BY <3>1
  <2>9. \A i, j \in 1..(m + 1) : u[i] = u[j] => i = j
    <3> SUFFICES ASSUME NEW i \in 1..(m + 1), NEW j \in 1..(m + 1), u[i] = u[j]
                 PROVE  i = j
      OBVIOUS
    <3>1. CASE i = 1 \/ j = 1
      <4> HIDE DEF u
      <4> QED BY <2>6, <2>7, <3>1
    <3>2. CASE i # 1 /\ j # 1
      <4>1. t[i - 1] = t[j - 1] /\ i - 1 \in 1..m /\ j - 1 \in 1..m
        BY <2>6, <3>2
      <4>2. i - 1 = j - 1
        BY <2>5, <4>1
      <4> QED BY <4>2
    <3> QED BY <3>1, <3>2
  <2>10. \A e \in C : \E i \in 1..(m + 1) : u[i] = e
    <3> SUFFICES ASSUME NEW e \in C, e # d
                 PROVE  \E i \in 1..(m + 1) : u[i] = e
      BY <2>7
    <3>1. PICK i \in 1..m : t[i] = e
      BY <2>5
    <3>2. i + 1 \in 1..(m + 1) /\ u[i + 1] = e
      BY <3>1
    <3> QED BY <3>2
  <2>11. \A i, j \in 1..(m + 1) : i < j => Outranks(scores, s, u[i], u[j])
    <3> SUFFICES ASSUME NEW i \in 1..(m + 1), NEW j \in 1..(m + 1), i < j
                 PROVE  Outranks(scores, s, u[i], u[j])
      OBVIOUS
    <3>1. j # 1
      OBVIOUS
    <3>2. CASE i = 1
      <4> HIDE DEF u
      <4> QED BY <2>2, <2>6, <2>7, <3>1, <3>2
    <3>3. CASE i # 1
      <4>1. i - 1 \in 1..m /\ j - 1 \in 1..m /\ i - 1 < j - 1
        BY <3>1, <3>3
      <4>2. u[i] = t[i - 1] /\ u[j] = t[j - 1]
        BY <2>6, <3>1, <3>3
      <4> QED BY <2>5, <4>1, <4>2
    <3> QED BY <3>2, <3>3
  <2> HIDE DEF u
  <2>12. u \in Bijection(1..(m + 1), C)
    <3>1. u \in Injection(1..(m + 1), C)
      BY <2>8, <2>9 DEF Injection, IsInjective
    <3>2. u \in Surjection(1..(m + 1), C)
      BY <2>8, <2>10 DEF Surjection
    <3> QED BY <3>1, <3>2 DEF Bijection
  <2> QED BY <2>11, <2>12
<1> HIDE DEF S
<1>4. Nat \subseteq S
  BY <1>2, <1>3, NatInd
<1> QED BY <1>1, <1>4 DEF S

\* Matching leaves no choice: whatever order candidates are found in, every
\* source has one ranking, and so there is one set of rows it can yield.
THEOREM MatchingIsDetermined ==
  ASSUME NEW scores \in [Sources -> [Dests -> Score]], NEW strategy \in Strategies
  PROVE  \E found : FoundRows(scores, strategy) = {found}
<1>1. ASSUME NEW s \in Sources
      PROVE  \E t : t \in Rankings(scores, s)
  <2> DEFINE C == Scored(scores, s)
  <2>1. C \in SUBSET Dests
    BY DEF Scored
  <2>2. PICK t \in Bijection(1..Cardinality(C), C) :
          \A i, j \in 1..Cardinality(C) : i < j => Outranks(scores, s, t[i], t[j])
    BY <2>1, CandidatesCanBeSorted
  <2>3. DOMAIN t = 1..Cardinality(C)
    <3> HIDE DEF C
    <3> QED BY <2>2, Fun_BijectionProperties
  <2> QED BY <2>2, <2>3 DEF Rankings
<1> DEFINE rk == [s \in Sources |-> CHOOSE t : t \in Rankings(scores, s)]
           found == [s \in Sources |-> RowSet(scores, s, rk[s], strategy)]
<1>2. \A s \in Sources : rk[s] \in Rankings(scores, s)
  BY <1>1
<1>3. rk \in [Sources -> UNION {Rankings(scores, s) : s \in Sources}]
  BY <1>2
<1>4. found \in FoundRows(scores, strategy)
  <2> HIDE DEF rk
  <2> QED BY <1>2, <1>3 DEF FoundRows
<1>5. ASSUME NEW other \in FoundRows(scores, strategy)
      PROVE  other = found
  <2>1. PICK f \in [Sources -> UNION {Rankings(scores, s) : s \in Sources}] :
          /\ \A s \in Sources : f[s] \in Rankings(scores, s)
          /\ other = [s \in Sources |-> RowSet(scores, s, f[s], strategy)]
    BY DEF FoundRows
  <2>2. \A s \in Sources : f[s] = rk[s]
    <3> HIDE DEF rk
    <3> QED BY <1>2, <2>1, RankingUnique
  <2> HIDE DEF rk
  <2> QED BY <2>1, <2>2
<1> HIDE DEF found
<1>6. FoundRows(scores, strategy) = {found}
  BY <1>4, <1>5
<1> QED BY <1>6

----------------------------------------------------------------------------
(* The assignment is one to one, and a demoted row lost to a better one. *)

\* The rows out of resultsChan: those of sources no longer pending, at most one
\* best row each, and no other row is linked automatically.
ItemsOK ==
  /\ \A k \in DOMAIN items :
       /\ items[k].src \notin pending
       /\ items[k].rank = 1 => items[k].dst \in Dests
       /\ items[k].rank # 1 => items[k].status # "AUTO_MATCHED"
  /\ \A j, k \in DOMAIN items :
       items[j].rank = 1 /\ items[k].rank = 1 /\ items[j].src = items[k].src => j = k

\* The rank-1 rows found so far: one per source, with a destination.
Rank1OK ==
  /\ \A k \in DOMAIN rank1 : rank1[k].dst \in Dests
  /\ \A j, k \in DOMAIN rank1 : rank1[j].src = rank1[k].src => j = k

OthersOK == \A k \in DOMAIN others : others[k].status # "AUTO_MATCHED"

\* During the scan: what is in rank1 was met before n and carries the status
\* the rule gives it.
ScanOK ==
  pc \in {"collect", "scan"} =>
    /\ \A k \in DOMAIN rank1 :
         /\ \E i \in DOMAIN items : /\ i < n
                                    /\ items[i].rank = 1
                                    /\ items[i].src = rank1[k].src
         /\ Eligible(rank1[k]) <=> rank1[k].status = "AUTO_MATCHED"
    /\ claimed = [d \in Dests |-> NoSource]

\* In the claim loop: rows are sorted, rows from n on carry the status the rule
\* gives them, and the rows before n have settled who gets what.
ClaimOK ==
  pc \in {"claim", "done"} =>
    /\ \A j, k \in DOMAIN rank1 : j < k => rank1[j].score >= rank1[k].score
    /\ \A k \in DOMAIN rank1 :
         k >= n => (Eligible(rank1[k]) <=> rank1[k].status = "AUTO_MATCHED")
    /\ \A k \in DOMAIN rank1 :
         k < n /\ rank1[k].status = "AUTO_MATCHED" => claimed[rank1[k].dst] # NoSource
    /\ \A d \in Dests : claimed[d] # NoSource =>
         \E k \in DOMAIN rank1 :
           k < n /\ rank1[k].status = "AUTO_MATCHED" /\ rank1[k].dst = d
    /\ \A j, k \in DOMAIN rank1 :
         /\ j < n /\ rank1[j].status = "AUTO_MATCHED"
         /\ k < n /\ rank1[k].status = "AUTO_MATCHED"
         /\ rank1[j].dst = rank1[k].dst
         => j = k
    /\ \A k \in DOMAIN rank1 :
         k < n /\ Eligible(rank1[k]) /\ rank1[k].status # "AUTO_MATCHED" =>
           \E j \in DOMAIN rank1 : /\ j < k
                                   /\ rank1[j].status = "AUTO_MATCHED"
                                   /\ rank1[j].dst = rank1[k].dst

Start == pc = "collect" => n = 1 /\ rank1 = << >> /\ others = << >>

Ending == pc = "done" => n > Len(rank1) /\ result = rank1 \o others

IInv == TypeOK /\ Start /\ ItemsOK /\ Rank1OK /\ OthersOK /\ ScanOK /\ ClaimOK /\ Ending

----------------------------------------------------------------------------
LEMMA InitIInv == Init => IInv
<1> SUFFICES ASSUME Init PROVE IInv
  OBVIOUS
<1>1. << >> \in Seq(Row) /\ Len(<< >>) = 0 /\ DOMAIN << >> = {}
  BY EmptySeq
<1>2. TypeOK
  BY <1>1 DEF Init, TypeOK, NoSource
<1> QED
  BY <1>1, <1>2 DEF Init, IInv, Start, ItemsOK, Rank1OK, OthersOK, ScanOK, ClaimOK, Ending

\* The rule looks at a row's scores, its source and its scripts, not its status.
LEMMA EligibleIgnoresStatus ==
  ASSUME NEW r \in Row, NEW st \in Statuses
  PROVE  Eligible([r EXCEPT !.status = st]) <=> Eligible(r)
BY DEF Eligible, Row

\* Collecting the rows of one more source.
LEMMA CollectStep ==
  ASSUME IInv, NEW s \in Sources, Collect(s)
  PROVE  IInv'
<1> USE DEF IInv
<1>1. PICK t \in Rankings(sc, s) : items' = items \o RowsFor(sc, s, t, "GREEDY_1_1")
  BY DEF Collect
<1> DEFINE rows == RowsFor(sc, s, t, "GREEDY_1_1")
<1>2. sc \in [Sources -> [Dests -> Score]]
  BY InputsAssumption DEF TypeOK
<1>3. PICK m \in Nat : RowsOfSource(rows, m, s, "GREEDY_1_1")
  <2>1. "GREEDY_1_1" \in Strategies
    BY DEF Strategies
  <2>2. \E m \in Nat : RowsOfSource(RowsFor(sc, s, t, "GREEDY_1_1"), m, s, "GREEDY_1_1")
    BY <1>2, <2>1, RowsForType
  <2> QED BY <2>2
<1>4. rows \in Seq(Row) /\ Len(rows) = m /\ DOMAIN rows = 1..m
  BY <1>3 DEF RowsOfSource
<1>a. items' = items \o rows
  BY <1>1
<1> HIDE DEF rows
<1>5. items \in Seq(Row) /\ Len(items) \in Nat /\ DOMAIN items = 1..Len(items)
  BY LenProperties DEF TypeOK
<1>6. /\ items' \in Seq(Row)
      /\ Len(items') = Len(items) + m
      /\ DOMAIN items' = 1..(Len(items) + m)
      /\ \A i \in 1..(Len(items) + m) :
           items'[i] = IF i <= Len(items) THEN items[i] ELSE rows[i - Len(items)]
  <2>1. /\ items \o rows \in Seq(Row)
        /\ Len(items \o rows) = Len(items) + m
        /\ \A i \in 1..(Len(items) + m) :
             (items \o rows)[i] = IF i <= Len(items) THEN items[i] ELSE rows[i - Len(items)]
    BY <1>4, <1>5, ConcatProperties
  <2>2. DOMAIN (items \o rows) = 1..Len(items \o rows)
    BY <2>1, LenProperties
  <2> QED BY <1>a, <2>1, <2>2
<1>7. TypeOK'
  <2>1. Len(rank1) \in Nat
    BY LenProperties DEF TypeOK
  <2> QED BY <1>6, <1>5, <2>1 DEF Collect, TypeOK, Start
<1>8. ItemsOK'
  <2>1. ASSUME NEW k \in 1..(Len(items) + m), k > Len(items)
        PROVE  /\ items'[k].src = s
               /\ items'[k].rank = 1 => k = Len(items) + 1 /\ items'[k].dst \in Dests
               /\ items'[k].rank # 1 => items'[k].status # "AUTO_MATCHED"
    <3>1. k - Len(items) \in 1..m /\ items'[k] = rows[k - Len(items)]
      BY <2>1, <1>5, <1>6
    <3>2. rows[k - Len(items)].rank \in Nat
      BY <3>1, <1>3 DEF RowsOfSource, Row
    <3> QED BY <3>1, <3>2, <1>3, <1>5 DEF RowsOfSource
  <2>2. ASSUME NEW k \in 1..(Len(items) + m), k <= Len(items)
        PROVE  k \in DOMAIN items /\ items'[k] = items[k]
    BY <2>2, <1>5, <1>6
  <2>3. s \in pending /\ pending' = pending \ {s}
    BY DEF Collect
  <2>4. \A k \in DOMAIN items' :
          /\ items'[k].src \notin pending'
          /\ items'[k].rank = 1 => items'[k].dst \in Dests
          /\ items'[k].rank # 1 => items'[k].status # "AUTO_MATCHED"
    BY <1>5, <1>6, <2>1, <2>2, <2>3 DEF ItemsOK
  <2>5. ASSUME NEW j \in DOMAIN items', NEW k \in DOMAIN items',
               items'[j].rank = 1, items'[k].rank = 1, items'[j].src = items'[k].src
        PROVE  j = k
    BY <1>5, <1>6, <2>1, <2>2, <2>3, <2>5 DEF ItemsOK
  <2> QED BY <2>4, <2>5 DEF ItemsOK
<1>9. rank1 = << >> /\ DOMAIN rank1 = {} /\ UNCHANGED <<rank1, others, claimed, n>>
  BY DEF Collect, Start
<1>10. pc' \in {"collect", "scan"}
  BY DEF Collect
<1>11. Start' /\ Rank1OK' /\ OthersOK' /\ ScanOK' /\ ClaimOK' /\ Ending'
  <2>1. ScanOK'
    BY <1>9 DEF ScanOK, Collect
  <2>2. ClaimOK' /\ Ending'
    BY <1>10 DEF ClaimOK, Ending
  <2>3. Start' /\ Rank1OK' /\ OthersOK'
    BY <1>9 DEF Start, Rank1OK, OthersOK, Collect
  <2> QED BY <2>1, <2>2, <2>3
<1> QED BY <1>7, <1>8, <1>11

\* Re-evaluating a rank-1 row, or setting another row aside.
LEMMA ScanStep ==
  ASSUME IInv, Scan
  PROVE  IInv'
<1> USE DEF IInv
<1>1. /\ items \in Seq(Row) /\ Len(items) \in Nat /\ DOMAIN items = 1..Len(items)
      /\ rank1 \in Seq(Row) /\ Len(rank1) \in Nat /\ DOMAIN rank1 = 1..Len(rank1)
      /\ others \in Seq(Row) /\ Len(others) \in Nat /\ DOMAIN others = 1..Len(others)
  BY LenProperties DEF TypeOK
<1>2. n \in DOMAIN items /\ items[n] \in Row /\ n \in Nat
  BY <1>1, ElementOfSeq DEF Scan, TypeOK
<1>3. /\ pc = "scan" /\ n' = n + 1
      /\ UNCHANGED <<sc, pc, pending, items, claimed, result>>
  BY DEF Scan
<1>4. CASE items[n].rank = 1
  <2> DEFINE r == Reevaluated(items[n])
  <2>1. /\ r \in Row /\ r.src = items[n].src /\ r.dst = items[n].dst
        /\ Eligible(r) <=> r.status = "AUTO_MATCHED"
    BY <1>2, EligibleIgnoresStatus DEF Reevaluated, Row, Statuses
  <2>2. rank1' = Append(rank1, r) /\ others' = others
    BY <1>4 DEF Scan
  <2> HIDE DEF r
  <2>3. /\ rank1' \in Seq(Row) /\ Len(rank1') = Len(rank1) + 1
        /\ DOMAIN rank1' = 1..(Len(rank1) + 1)
        /\ \A k \in 1..Len(rank1) : rank1'[k] = rank1[k]
        /\ rank1'[Len(rank1) + 1] = r
    BY <1>1, <2>1, <2>2, AppendProperties, LenProperties
  <2>4. TypeOK'
    BY <1>2, <1>3, <2>2, <2>3 DEF Scan, TypeOK
  <2>5. \A k \in DOMAIN rank1 : rank1[k].src # r.src
    BY <1>2, <1>3, <1>4, <2>1 DEF ScanOK, ItemsOK
  <2>6. Rank1OK'
    <3>1. r.dst \in Dests
      BY <1>2, <1>4, <2>1 DEF ItemsOK
    <3>2. ASSUME NEW k \in DOMAIN rank1'
          PROVE  k = Len(rank1) + 1 \/ (k \in DOMAIN rank1 /\ rank1'[k] = rank1[k])
      BY <1>1, <2>3
    <3>3. \A k \in DOMAIN rank1' : rank1'[k].dst \in Dests
      BY <2>3, <3>1, <3>2 DEF Rank1OK
    <3>4. \A j, k \in DOMAIN rank1' : rank1'[j].src = rank1'[k].src => j = k
      BY <2>3, <2>5, <3>2 DEF Rank1OK
    <3> QED BY <3>3, <3>4 DEF Rank1OK
  <2>7. ScanOK'
    <3>1. ASSUME NEW k \in DOMAIN rank1'
          PROVE  /\ \E i \in DOMAIN items : /\ i < n + 1
                                            /\ items[i].rank = 1
                                            /\ items[i].src = rank1'[k].src
                 /\ Eligible(rank1'[k]) <=> rank1'[k].status = "AUTO_MATCHED"
      <4>1. CASE k = Len(rank1) + 1
        BY <1>2, <1>4, <2>1, <2>3, <4>1
      <4>2. CASE k \in DOMAIN rank1
        BY <1>1, <1>2, <1>3, <2>3, <4>2 DEF ScanOK
      <4> QED BY <1>1, <2>3, <4>1, <4>2
    <3>3. \A k \in DOMAIN rank1' : (Eligible(rank1[k]))' <=> rank1'[k].status = "AUTO_MATCHED"
      BY <1>3, <3>1 DEF Eligible, Rank2Score
    <3>4. claimed' = [d \in Dests |-> NoSource]
      BY <1>3 DEF ScanOK
    <3> HIDE DEF IInv
    <3> QED BY <1>3, <3>1, <3>3, <3>4 DEF ScanOK
  <2>8. ItemsOK' /\ OthersOK' /\ ClaimOK' /\ Start' /\ Ending'
    BY <1>3, <2>2 DEF ItemsOK, OthersOK, ClaimOK, Start, Ending
  <2> QED BY <2>4, <2>6, <2>7, <2>8
<1>5. CASE items[n].rank # 1
  <2>1. others' = Append(others, items[n]) /\ rank1' = rank1
    BY <1>5 DEF Scan
  <2>2. /\ others' \in Seq(Row) /\ DOMAIN others' = 1..(Len(others) + 1)
        /\ \A k \in 1..Len(others) : others'[k] = others[k]
        /\ others'[Len(others) + 1] = items[n]
    BY <1>1, <1>2, <2>1, AppendProperties, LenProperties
  <2>3. OthersOK'
    <3>1. items[n].status # "AUTO_MATCHED"
      BY <1>2, <1>5 DEF ItemsOK
    <3> QED BY <1>1, <2>2, <3>1 DEF OthersOK
  <2>4. TypeOK'
    BY <1>2, <1>3, <2>1, <2>2 DEF Scan, TypeOK
  <2>5. ScanOK'
    <3>2. \A i \in DOMAIN items : i < n => i < n'
      BY <1>1, <1>2, <1>3
    <3>3. \A k \in DOMAIN rank1' :
            /\ \E i \in DOMAIN items' : /\ i < n'
                                        /\ items'[i].rank = 1
                                        /\ items'[i].src = rank1'[k].src
            /\ Eligible(rank1[k]) <=> rank1'[k].status = "AUTO_MATCHED"
      BY <1>3, <2>1, <3>2 DEF ScanOK
    <3>4. \A k \in DOMAIN rank1' : (Eligible(rank1[k]))' <=> rank1'[k].status = "AUTO_MATCHED"
      <4> SUFFICES ASSUME NEW k \in DOMAIN rank1'
                   PROVE  (Eligible(rank1[k]))' <=> rank1'[k].status = "AUTO_MATCHED"
        OBVIOUS
      <4>1. items' = items /\ rank1' = rank1
        BY <1>3, <2>1
      <4>2. (Eligible(rank1[k]))' <=> Eligible(rank1[k])
        BY <4>1 DEF Eligible, Rank2Score
      <4> QED BY <3>3, <4>2
    <3>5. claimed' = [d \in Dests |-> NoSource]
      BY <1>3 DEF ScanOK
    <3> HIDE DEF IInv
    <3> QED BY <3>3, <3>4, <3>5 DEF ScanOK
  <2>6. ItemsOK' /\ Rank1OK' /\ ClaimOK' /\ Start' /\ Ending'
    BY <1>3, <2>1 DEF ItemsOK, Rank1OK, ClaimOK, Start, Ending
  <2> QED BY <2>3, <2>4, <2>5, <2>6
<1> QED BY <1>4, <1>5

\* Any sort that ends without an inversion keeps every row and orders them.
LEMMA SortStep ==
  ASSUME IInv, Sort
  PROVE  IInv'
<1> USE DEF IInv
<1>1. /\ rank1 \in Seq(Row) /\ Len(rank1) \in Nat /\ DOMAIN rank1 = 1..Len(rank1)
  BY LenProperties DEF TypeOK
<1>2. PICK p \in Bijection(DOMAIN rank1, DOMAIN rank1) :
        LET sorted == [k \in DOMAIN rank1 |-> rank1[p[k]]] IN
        /\ \A j, k \in DOMAIN rank1 : j < k => ~Before(sorted[k], sorted[j])
        /\ rank1' = sorted
  BY DEF Sort, SortBy
<1>3. /\ p \in [DOMAIN rank1 -> DOMAIN rank1]
      /\ \A j, k \in DOMAIN rank1 : p[j] = p[k] => j = k
  BY <1>2, Fun_BijectionProperties
<1>4. /\ DOMAIN rank1' = DOMAIN rank1
      /\ \A k \in DOMAIN rank1 : p[k] \in DOMAIN rank1 /\ rank1'[k] = rank1[p[k]]
      /\ \A j, k \in DOMAIN rank1 : j < k => ~Before(rank1'[k], rank1'[j])
  BY <1>2, <1>3
<1>5. \A k \in DOMAIN rank1 : rank1[k] \in Row
  BY <1>1, ElementOfSeq
<1>6. rank1' \in Seq(Row) /\ Len(rank1') = Len(rank1)
  <2>1. rank1' \in [1..Len(rank1) -> Row]
    BY <1>1, <1>2, <1>3, <1>5
  <2> QED BY <1>1, <2>1
<1>7. /\ pc = "scan" /\ pc' = "claim" /\ n' = 1
      /\ UNCHANGED <<sc, pending, items, others, claimed, result>>
  BY DEF Sort, SortBy
<1>8. TypeOK'
  BY <1>1, <1>6, <1>7 DEF TypeOK
<1>9. Rank1OK'
  <2>1. \A k \in DOMAIN rank1' : rank1'[k].dst \in Dests
    BY <1>4 DEF Rank1OK
  <2>2. \A j, k \in DOMAIN rank1' : rank1'[j].src = rank1'[k].src => j = k
    BY <1>3, <1>4 DEF Rank1OK
  <2> QED BY <2>1, <2>2 DEF Rank1OK
<1>10. ClaimOK'
  <2>1. \A j, k \in DOMAIN rank1' : j < k => rank1'[j].score >= rank1'[k].score
    <3>1. \A r, q \in Row : ~Before(q, r) => r.score >= q.score
      BY DEF Before, Row, Score
    <3>2. \A k \in DOMAIN rank1 : rank1'[k] \in Row
      BY <1>4, <1>5
    <3> QED BY <1>4, <3>1, <3>2
  <2>2. \A q : (Eligible(q))' <=> Eligible(q)
    BY <1>7 DEF Eligible, Rank2Score
  <2>3. \A k \in DOMAIN rank1' :
          Eligible(rank1'[k]) <=> rank1'[k].status = "AUTO_MATCHED"
    BY <1>4, <1>7 DEF ScanOK
  <2>4. claimed' = [d \in Dests |-> NoSource]
    BY <1>7 DEF ScanOK
  <2>5. \A k \in DOMAIN rank1' : ~(k < n')
    BY <1>1, <1>4, <1>7
  <2>6. \A k \in DOMAIN rank1' :
          k >= n' => ((Eligible(rank1[k]))' <=> rank1'[k].status = "AUTO_MATCHED")
    <3>1. \A k \in DOMAIN rank1' : (Eligible(rank1[k]))' <=> Eligible(rank1'[k])
      BY <1>7 DEF Eligible, Rank2Score
    <3> QED BY <2>3, <3>1
  <2>7. \A d \in Dests : claimed'[d] = NoSource
    BY <2>4
  <2>8. \A k \in DOMAIN rank1' :
          k < n' /\ (Eligible(rank1[k]))' /\ rank1'[k].status # "AUTO_MATCHED" =>
            \E j \in DOMAIN rank1' : /\ j < k
                                     /\ rank1'[j].status = "AUTO_MATCHED"
                                     /\ rank1'[j].dst = rank1'[k].dst
    BY <2>5
  <2>9. \A j, k \in DOMAIN rank1' :
          /\ j < n' /\ rank1'[j].status = "AUTO_MATCHED"
          /\ k < n' /\ rank1'[k].status = "AUTO_MATCHED"
          /\ rank1'[j].dst = rank1'[k].dst
          => j = k
    BY <2>5
  <2>10. \A k \in DOMAIN rank1' :
           k < n' /\ rank1'[k].status = "AUTO_MATCHED" => claimed'[rank1'[k].dst] # NoSource
    BY <2>5
  <2>11. \A d \in Dests : claimed'[d] # NoSource =>
           \E k \in DOMAIN rank1' :
             k < n' /\ rank1'[k].status = "AUTO_MATCHED" /\ rank1'[k].dst = d
    BY <2>7
  <2> HIDE DEF IInv
  <2> QED BY <2>1, <2>6, <2>8, <2>9, <2>10, <2>11 DEF ClaimOK
<1>11. Start' /\ ItemsOK' /\ OthersOK' /\ ScanOK' /\ Ending'
  BY <1>7 DEF Start, ItemsOK, OthersOK, ScanOK, Ending
<1> QED BY <1>8, <1>9, <1>10, <1>11

\* One row of the claim loop.
LEMMA ClaimStep ==
  ASSUME IInv, Claim
  PROVE  IInv'
<1>1. /\ rank1 \in Seq(Row) /\ Len(rank1) \in Nat /\ DOMAIN rank1 = 1..Len(rank1)
  BY LenProperties DEF IInv, TypeOK
<1>2. n \in DOMAIN rank1 /\ rank1[n] \in Row /\ n \in Nat \ {0} /\ rank1[n].dst \in Dests
  BY <1>1, ElementOfSeq DEF IInv, Claim, TypeOK, Rank1OK
<1>3. /\ pc = "claim" /\ n' = n + 1
      /\ UNCHANGED <<sc, pc, pending, items, others, result>>
  BY DEF Claim
<1>4. \A q : (Eligible(q))' <=> Eligible(q)
  BY <1>3 DEF Eligible, Rank2Score
<1>5. \A k \in DOMAIN rank1 : k < n + 1 <=> k < n \/ k = n
  BY <1>1, <1>2
<1>6. \A k \in DOMAIN rank1 : k >= n + 1 => k >= n /\ k # n
  BY <1>1, <1>2
<1>7. ClaimOK /\ Rank1OK /\ TypeOK
  BY DEF IInv
<1>8. Start' /\ ItemsOK' /\ OthersOK' /\ ScanOK' /\ Ending'
  BY <1>3 DEF IInv, Start, ItemsOK, OthersOK, ScanOK, Ending
<1>9. Eligible(rank1[n]) <=> rank1[n].status = "AUTO_MATCHED"
  BY <1>2, <1>3, <1>7 DEF ClaimOK
<1>10. CASE rank1[n].status # "AUTO_MATCHED"
  <2>1. rank1' = rank1 /\ claimed' = claimed
    BY <1>10 DEF Claim
  <2>2. TypeOK' /\ Rank1OK'
    BY <1>1, <1>2, <1>3, <1>7, <2>1 DEF TypeOK, Rank1OK
  <2>3. ClaimOK'
    BY <1>3, <1>4, <1>5, <1>6, <1>7, <1>9, <1>10, <2>1 DEF ClaimOK
  <2> QED BY <1>8, <2>2, <2>3 DEF IInv
<1>11. CASE rank1[n].status = "AUTO_MATCHED" /\ claimed[rank1[n].dst] = NoSource
  <2>1. rank1' = rank1 /\ claimed' = [claimed EXCEPT ![rank1[n].dst] = rank1[n].src]
    BY <1>11 DEF Claim
  <2>2. rank1[n].src \in Sources /\ rank1[n].src # NoSource
    BY <1>2, RecordsAssumption DEF Row, NoSource
  <2>3. TypeOK' /\ Rank1OK'
    BY <1>1, <1>2, <1>3, <1>7, <2>1, <2>2 DEF TypeOK, Rank1OK
  <2>4. \A d \in Dests : claimed'[d] = IF d = rank1[n].dst THEN rank1[n].src ELSE claimed[d]
    BY <1>2, <1>7, <2>1 DEF TypeOK
  <2>5. ClaimOK'
    BY <1>2, <1>3, <1>4, <1>5, <1>6, <1>7, <1>9, <1>11, <2>1, <2>2, <2>4 DEF ClaimOK, Rank1OK
  <2> QED BY <1>8, <2>3, <2>5 DEF IInv
<1>12. CASE rank1[n].status = "AUTO_MATCHED" /\ claimed[rank1[n].dst] # NoSource
  <2> DEFINE r == [rank1[n] EXCEPT !.status = "REVIEW_NEEDED"]
  <2>1. rank1' = [rank1 EXCEPT ![n] = r] /\ claimed' = claimed
    BY <1>12 DEF Claim
  <2>2. /\ r \in Row /\ r.src = rank1[n].src /\ r.dst = rank1[n].dst
        /\ r.score = rank1[n].score /\ r.status # "AUTO_MATCHED"
        /\ Eligible(r) <=> Eligible(rank1[n])
    BY <1>2, EligibleIgnoresStatus DEF Row, Statuses
  <2> HIDE DEF r
  <2>3. /\ rank1' \in Seq(Row) /\ Len(rank1') = Len(rank1) /\ DOMAIN rank1' = DOMAIN rank1
        /\ \A k \in DOMAIN rank1 : rank1'[k] = IF k = n THEN r ELSE rank1[k]
    BY <1>1, <1>2, <2>1, <2>2, ExceptSeq
  <2>4. \A k \in DOMAIN rank1 :
          /\ rank1'[k].src = rank1[k].src /\ rank1'[k].dst = rank1[k].dst
          /\ rank1'[k].score = rank1[k].score
          /\ Eligible(rank1'[k]) <=> Eligible(rank1[k])
          /\ rank1'[k].status = "AUTO_MATCHED" <=> k # n /\ rank1[k].status = "AUTO_MATCHED"
    BY <2>2, <2>3
  <2>5. TypeOK' /\ Rank1OK'
    BY <1>1, <1>2, <1>3, <1>7, <2>1, <2>3, <2>4 DEF TypeOK, Rank1OK
  <2>6. \E j \in DOMAIN rank1 :
          j < n /\ rank1[j].status = "AUTO_MATCHED" /\ rank1[j].dst = rank1[n].dst
    BY <1>2, <1>3, <1>7, <1>12 DEF ClaimOK
  <2>7. ClaimOK'
    <3>1. \A k \in DOMAIN rank1 : (Eligible(rank1[k]))' <=> Eligible(rank1[k])
      <4>1. \A k \in DOMAIN rank1 : (Eligible(rank1[k]))' <=> Eligible(rank1'[k])
        BY <1>3 DEF Eligible, Rank2Score
      <4> QED BY <2>4, <4>1
    <3>2. \A j, k \in DOMAIN rank1' : j < k => rank1'[j].score >= rank1'[k].score
      BY <1>3, <1>7, <2>3, <2>4 DEF ClaimOK
    <3>3. \A k \in DOMAIN rank1' :
            k >= n' => ((Eligible(rank1[k]))' <=> rank1'[k].status = "AUTO_MATCHED")
      BY <1>3, <1>6, <1>7, <2>3, <2>4, <3>1 DEF ClaimOK
    <3>4. \A k \in DOMAIN rank1' :
            k < n' /\ rank1'[k].status = "AUTO_MATCHED" => claimed'[rank1'[k].dst] # NoSource
      BY <1>3, <1>5, <1>7, <2>1, <2>3, <2>4 DEF ClaimOK
    <3>5. \A d \in Dests : claimed'[d] # NoSource =>
            \E k \in DOMAIN rank1' :
              k < n' /\ rank1'[k].status = "AUTO_MATCHED" /\ rank1'[k].dst = d
      <4> SUFFICES ASSUME NEW d \in Dests, claimed[d] # NoSource
                   PROVE  \E k \in DOMAIN rank1' :
                            k < n' /\ rank1'[k].status = "AUTO_MATCHED" /\ rank1'[k].dst = d
        BY <2>1
      <4>1. PICK k \in DOMAIN rank1 :
              k < n /\ rank1[k].status = "AUTO_MATCHED" /\ rank1[k].dst = d
        BY <1>3, <1>7 DEF ClaimOK
      <4>2. k # n /\ k < n'
        BY <1>1, <1>2, <1>3, <4>1
      <4> QED BY <2>3, <2>4, <4>1, <4>2
    <3>6. \A j, k \in DOMAIN rank1' :
            /\ j < n' /\ rank1'[j].status = "AUTO_MATCHED"
            /\ k < n' /\ rank1'[k].status = "AUTO_MATCHED"
            /\ rank1'[j].dst = rank1'[k].dst
            => j = k
      BY <1>3, <1>5, <1>7, <2>3, <2>4 DEF ClaimOK
    <3>7. \A k \in DOMAIN rank1' :
            k < n' /\ (Eligible(rank1[k]))' /\ rank1'[k].status # "AUTO_MATCHED" =>
              \E j \in DOMAIN rank1' : /\ j < k
                                       /\ rank1'[j].status = "AUTO_MATCHED"
                                       /\ rank1'[j].dst = rank1'[k].dst
      <4> SUFFICES ASSUME NEW k \in DOMAIN rank1, k < n',
                          Eligible(rank1[k]), rank1'[k].status # "AUTO_MATCHED"
                   PROVE  \E j \in DOMAIN rank1 : /\ j < k
                                                  /\ rank1'[j].status = "AUTO_MATCHED"
                                                  /\ rank1'[j].dst = rank1'[k].dst
        BY <2>3, <3>1
      <4>1. PICK j \in DOMAIN rank1 :
              j < k /\ rank1[j].status = "AUTO_MATCHED" /\ rank1[j].dst = rank1[k].dst
        <5>1. CASE k = n
          BY <2>6, <5>1
        <5>2. CASE k < n
          BY <1>3, <1>7, <2>4, <5>2, <1>1, <1>2 DEF ClaimOK
        <5> QED BY <1>3, <1>5, <5>1, <5>2
      <4>2. j # n
        BY <1>1, <1>2, <1>3, <1>5, <4>1
      <4> QED BY <2>4, <4>1, <4>2
    <3> QED BY <3>2, <3>3, <3>4, <3>5, <3>6, <3>7 DEF ClaimOK
  <2> QED BY <1>8, <2>5, <2>7 DEF IInv
<1> QED BY <1>10, <1>11, <1>12

LEMMA CombineStep ==
  ASSUME IInv, Combine
  PROVE  IInv'
<1>1. /\ pc = "claim" /\ pc' = "done" /\ n > Len(rank1) /\ result' = rank1 \o others
      /\ UNCHANGED <<sc, pending, items, n, rank1, others, claimed>>
  BY DEF Combine
<1>2. rank1 \o others \in Seq(Row)
  BY ConcatProperties DEF IInv, TypeOK
<1>3. TypeOK'
  BY <1>1, <1>2 DEF IInv, TypeOK
<1>4. Start' /\ ItemsOK' /\ Rank1OK' /\ OthersOK' /\ ScanOK' /\ Ending'
  BY <1>1 DEF IInv, Start, ItemsOK, Rank1OK, OthersOK, ScanOK, Ending
<1>5. ClaimOK'
  <2>1. ClaimOK
    BY DEF IInv
  <2>2. \A q : (Eligible(q))' <=> Eligible(q)
    BY <1>1 DEF Eligible, Rank2Score
  <2> QED BY <1>1, <2>1, <2>2 DEF ClaimOK
<1> QED BY <1>3, <1>4, <1>5 DEF IInv

LEMMA Invariance == Spec => []IInv
<1>1. IInv /\ [Next]_vars => IInv'
  <2> SUFFICES ASSUME IInv, [Next]_vars PROVE IInv'
    OBVIOUS
  <2>1. CASE UNCHANGED vars
    <3>0. \A q : (Eligible(q))' <=> Eligible(q)
      BY <2>1 DEF vars, Eligible, Rank2Score
    <3>1. TypeOK' /\ Start' /\ ItemsOK' /\ Rank1OK' /\ OthersOK' /\ Ending'
      BY <2>1 DEF vars, IInv, TypeOK, Start, ItemsOK, Rank1OK, OthersOK, Ending
    <3>2. ScanOK' /\ ClaimOK'
      BY <2>1, <3>0 DEF vars, IInv, ScanOK, ClaimOK
    <3> QED BY <3>1, <3>2 DEF IInv
  <2> QED
    BY <2>1, CollectStep, ScanStep, SortStep, ClaimStep, CombineStep DEF Next, Returned
<1> QED BY <1>1, InitIInv, PTL DEF Spec

\* Types of the greedy loop, for every instance.
THEOREM TypeCorrect == Spec => []TypeOK
BY Invariance, PTL DEF IInv

\* Greedy assignment is one to one: of the rows it returns, no two that are
\* linked automatically share a source or a destination.
THEOREM AssignmentIsOneToOne == Spec => []OneToOne
<1>1. IInv => OneToOne
  <2> SUFFICES ASSUME IInv, pc = "done",
                      NEW j \in DOMAIN result, NEW k \in DOMAIN result,
                      result[j].status = "AUTO_MATCHED", result[k].status = "AUTO_MATCHED",
                      result[j].dst = result[k].dst \/ result[j].src = result[k].src
               PROVE  j = k
    BY DEF OneToOne
  <2>1. /\ rank1 \in Seq(Row) /\ Len(rank1) \in Nat /\ DOMAIN rank1 = 1..Len(rank1)
        /\ others \in Seq(Row) /\ Len(others) \in Nat /\ DOMAIN others = 1..Len(others)
        /\ n > Len(rank1) /\ result = rank1 \o others /\ n \in Nat
    BY LenProperties DEF IInv, TypeOK, Ending
  <2>2. /\ DOMAIN result = 1..(Len(rank1) + Len(others))
        /\ \A i \in 1..(Len(rank1) + Len(others)) :
             result[i] = IF i <= Len(rank1) THEN rank1[i] ELSE others[i - Len(rank1)]
    BY <2>1, ConcatProperties, LenProperties
  <2>3. ASSUME NEW i \in DOMAIN result, result[i].status = "AUTO_MATCHED"
        PROVE  i \in DOMAIN rank1 /\ i < n /\ result[i] = rank1[i]
    <3>1. CASE i <= Len(rank1)
      BY <2>1, <2>2, <3>1
    <3>2. CASE i > Len(rank1)
      <4>1. i - Len(rank1) \in DOMAIN others /\ result[i] = others[i - Len(rank1)]
        BY <2>1, <2>2, <3>2
      <4> QED BY <2>3, <4>1 DEF IInv, OthersOK
    <3> QED BY <2>1, <2>2, <3>1, <3>2
  <2> QED BY <2>3 DEF IInv, ClaimOK, Rank1OK
<1> QED BY <1>1, Invariance, PTL

\* A best row that qualifies and is sent to review lost its destination to a row
\* that is linked and scores at least as high.
THEOREM DemotedOnlyForBetter == Spec => []LoserHasBetterWinner
<1>1. IInv => LoserHasBetterWinner
  <2> SUFFICES ASSUME IInv, pc = "done", NEW k \in DOMAIN rank1,
                      Eligible(rank1[k]), rank1[k].status # "AUTO_MATCHED"
               PROVE  \E j \in DOMAIN rank1 : /\ rank1[j].status = "AUTO_MATCHED"
                                              /\ rank1[j].dst = rank1[k].dst
                                              /\ rank1[j].score >= rank1[k].score
    BY DEF LoserHasBetterWinner
  <2>1. k < n
    BY LenProperties DEF IInv, TypeOK, Ending
  <2>2. PICK j \in DOMAIN rank1 :
          j < k /\ rank1[j].status = "AUTO_MATCHED" /\ rank1[j].dst = rank1[k].dst
    BY <2>1 DEF IInv, ClaimOK
  <2> QED BY <2>2 DEF IInv, ClaimOK
<1> QED BY <1>1, Invariance, PTL

----------------------------------------------------------------------------
(* The order of arrival. *)

\* A row and the copy of it that the loop works on differ in their status only.
SameButStatus(r, q) == r = [q EXCEPT !.status = r.status]

\* The rows that have arrived from one source.
ItemsOf(s) == {items[k] : k \in {i \in DOMAIN items : items[i].src = s}}

\* The rows of a source that has arrived are those of one ranking of its
\* candidates.
ArrivedOK ==
  /\ pc # "collect" => pending = {}
  /\ \A s \in Sources \ pending : \E t \in Rankings(sc, s) :
       ItemsOf(s) = RowSet(sc, s, t, "GREEDY_1_1")

\* The rows that the scan has met.
Met == IF pc \in {"collect", "scan"} THEN n - 1 ELSE Len(items)

\* Each row met is in rank1 or in others, once, and nothing else is.
SplitOK ==
  /\ Len(rank1) + Len(others) = Met
  /\ \A k \in DOMAIN rank1 : /\ rank1[k].status \in {"AUTO_MATCHED", "REVIEW_NEEDED"}
                             /\ \E i \in DOMAIN items : /\ i <= Met
                                                        /\ items[i].rank = 1
                                                        /\ SameButStatus(rank1[k], items[i])
  /\ \A i \in DOMAIN items : i <= Met /\ items[i].rank = 1 =>
       \E k \in DOMAIN rank1 : SameButStatus(rank1[k], items[i])
  /\ \A k \in DOMAIN others : \E i \in DOMAIN items :
       i <= Met /\ items[i].rank # 1 /\ others[k] = items[i]
  /\ \A i \in DOMAIN items : i <= Met /\ items[i].rank # 1 =>
       \E k \in DOMAIN others : others[k] = items[i]

\* After the sort: the order is strict, and only rows that qualify are linked.
OrderOK ==
  pc \in {"claim", "done"} =>
    /\ \A j, k \in DOMAIN rank1 : j < k => Before(rank1[j], rank1[k])
    /\ \A k \in DOMAIN rank1 : rank1[k].status = "AUTO_MATCHED" => Eligible(rank1[k])

OutInv == ArrivedOK /\ SplitOK /\ OrderOK

\* Nothing has arrived and nothing was met.
LEMMA InitOutInv == Init => OutInv
<1> SUFFICES ASSUME Init PROVE OutInv
  OBVIOUS
<1>1. Len(<< >>) = 0 /\ DOMAIN << >> = {}
  BY EmptySeq
<1> QED BY <1>1 DEF Init, OutInv, ArrivedOK, SplitOK, OrderOK, Met

\* A source's rows arrive: those of one ranking, and no other source's change.
LEMMA OutCollect ==
  ASSUME IInv, OutInv, NEW s \in Sources, Collect(s)
  PROVE  OutInv'
<1>1. PICK t \in Rankings(sc, s) : items' = items \o RowsFor(sc, s, t, "GREEDY_1_1")
  BY DEF Collect
<1> DEFINE rows == RowsFor(sc, s, t, "GREEDY_1_1")
<1>2. sc \in [Sources -> [Dests -> Score]]
  BY InputsAssumption DEF IInv, TypeOK
<1>3. PICK m \in Nat : RowsOfSource(rows, m, s, "GREEDY_1_1")
  <2>1. \E m \in Nat : RowsOfSource(RowsFor(sc, s, t, "GREEDY_1_1"), m, s, "GREEDY_1_1")
    BY <1>2, RowsForType DEF Strategies
  <2> QED BY <2>1
<1>4. rows \in Seq(Row) /\ Len(rows) = m /\ DOMAIN rows = 1..m
  BY <1>3 DEF RowsOfSource
<1>5. RowSet(sc, s, t, "GREEDY_1_1") = {rows[k] : k \in 1..m}
  BY <1>4 DEF RowSet
<1>a. items' = items \o rows
  BY <1>1
<1>b. \A k \in 1..m : rows[k].src = s
  BY <1>3 DEF RowsOfSource
<1> HIDE DEF rows
<1>6. items \in Seq(Row) /\ Len(items) \in Nat /\ DOMAIN items = 1..Len(items)
  BY LenProperties DEF IInv, TypeOK
<1>7. /\ DOMAIN items' = 1..(Len(items) + m)
      /\ Len(items') = Len(items) + m
      /\ \A i \in 1..(Len(items) + m) :
           items'[i] = IF i <= Len(items) THEN items[i] ELSE rows[i - Len(items)]
  <2>1. /\ items \o rows \in Seq(Row)
        /\ Len(items \o rows) = Len(items) + m
        /\ \A i \in 1..(Len(items) + m) :
             (items \o rows)[i] = IF i <= Len(items) THEN items[i] ELSE rows[i - Len(items)]
    BY <1>4, <1>6, ConcatProperties
  <2>2. DOMAIN (items \o rows) = 1..Len(items \o rows)
    BY <2>1, LenProperties
  <2> QED BY <1>a, <2>1, <2>2
<1>8. /\ s \in pending /\ pending' = pending \ {s} /\ pc = "collect"
      /\ pc' = IF pending' = {} THEN "scan" ELSE "collect"
      /\ UNCHANGED <<sc, n, rank1, others, claimed, result>>
  BY DEF Collect
<1>9. \A i \in DOMAIN items : items[i].src # s
  BY <1>8 DEF IInv, ItemsOK
<1>10. \A q \in Sources \ {s} : ItemsOf(q)' = ItemsOf(q)
  <2> SUFFICES ASSUME NEW q \in Sources \ {s} PROVE ItemsOf(q)' = ItemsOf(q)
    OBVIOUS
  <2>1. {i \in DOMAIN items' : items'[i].src = q} = {i \in DOMAIN items : items[i].src = q}
    <3>1. ASSUME NEW i \in DOMAIN items', i > Len(items)
          PROVE  items'[i].src = s
      <4>1. i - Len(items) \in 1..m /\ items'[i] = rows[i - Len(items)]
        BY <1>6, <1>7, <3>1
      <4> QED BY <1>b, <4>1
    <3> QED BY <1>6, <1>7, <3>1
  <2>2. \A i \in DOMAIN items : items'[i] = items[i]
    BY <1>6, <1>7
  <2> QED BY <2>1, <2>2 DEF ItemsOf
<1>11. ItemsOf(s)' = RowSet(sc, s, t, "GREEDY_1_1")
  <2>1. ASSUME NEW k \in 1..m
        PROVE  /\ Len(items) + k \in DOMAIN items'
               /\ items'[Len(items) + k] = rows[k]
               /\ items'[Len(items) + k].src = s
    <3>1. Len(items) + k \in 1..(Len(items) + m) /\ ~(Len(items) + k <= Len(items))
          /\ (Len(items) + k) - Len(items) = k
      BY <1>6
    <3> QED BY <1>7, <1>b, <3>1
  <2>2. ASSUME NEW i \in DOMAIN items', items'[i].src = s
        PROVE  i - Len(items) \in 1..m /\ items'[i] = rows[i - Len(items)]
    <3>1. ~(i <= Len(items))
      BY <1>6, <1>7, <1>9, <2>2
    <3> QED BY <1>6, <1>7, <3>1
  <2>3. ItemsOf(s)' = {items'[k] : k \in {i \in DOMAIN items' : items'[i].src = s}}
    BY DEF ItemsOf
  <2>4. ASSUME NEW x \in {items'[k] : k \in {i \in DOMAIN items' : items'[i].src = s}}
        PROVE  x \in {rows[k] : k \in 1..m}
    BY <2>2
  <2>5. ASSUME NEW x \in {rows[k] : k \in 1..m}
        PROVE  x \in {items'[k] : k \in {i \in DOMAIN items' : items'[i].src = s}}
    BY <2>1
  <2> QED BY <1>5, <2>3, <2>4, <2>5
<1>12. ArrivedOK'
  <2>1. ASSUME NEW q \in Sources \ pending'
        PROVE  \E w \in Rankings(sc', q) : ItemsOf(q)' = RowSet(sc', q, w, "GREEDY_1_1")
    <3>1. CASE q = s
      BY <1>8, <1>11, <3>1
    <3>2. CASE q # s
      BY <1>8, <1>10, <3>2 DEF OutInv, ArrivedOK
    <3> QED BY <3>1, <3>2
  <2> QED BY <1>8, <2>1 DEF ArrivedOK
<1>13. SplitOK' /\ OrderOK'
  <2>1. /\ n = 1 /\ rank1 = << >> /\ others = << >>
        /\ DOMAIN rank1 = {} /\ DOMAIN others = {} /\ Len(rank1) = 0 /\ Len(others) = 0
    BY <1>8, EmptySeq DEF IInv, Start
  <2>2. Met' = 0 /\ \A i \in DOMAIN items' : ~(i <= 0)
    BY <1>7, <1>8, <2>1 DEF Met
  <2> QED BY <1>8, <2>1, <2>2 DEF SplitOK, OrderOK
<1> QED BY <1>12, <1>13 DEF OutInv

\* The scan meets the next row and puts it where its rank says.
LEMMA OutScan ==
  ASSUME IInv, OutInv, Scan
  PROVE  OutInv'
<1>1. /\ items \in Seq(Row) /\ Len(items) \in Nat /\ DOMAIN items = 1..Len(items)
      /\ rank1 \in Seq(Row) /\ Len(rank1) \in Nat /\ DOMAIN rank1 = 1..Len(rank1)
      /\ others \in Seq(Row) /\ Len(others) \in Nat /\ DOMAIN others = 1..Len(others)
  BY LenProperties DEF IInv, TypeOK
<1>2. n \in DOMAIN items /\ items[n] \in Row /\ n \in Nat
  BY <1>1, ElementOfSeq DEF IInv, Scan, TypeOK
<1>3. /\ pc = "scan" /\ n' = n + 1
      /\ UNCHANGED <<sc, pc, pending, items, claimed, result>>
  BY DEF Scan
<1>4. Met = n - 1 /\ Met' = n
  BY <1>2, <1>3 DEF Met
<1>5. \A i \in DOMAIN items : i <= Met' <=> i <= Met \/ i = n
  BY <1>1, <1>2, <1>4
<1>6. ArrivedOK' /\ OrderOK'
  BY <1>3 DEF OutInv, ArrivedOK, OrderOK, ItemsOf
<1>7. SplitOK
  BY DEF OutInv
<1>8. CASE items[n].rank = 1
  <2> DEFINE r == Reevaluated(items[n])
  <2>1. SameButStatus(r, items[n]) /\ r.status \in {"AUTO_MATCHED", "REVIEW_NEEDED"} /\ r \in Row
    BY <1>2 DEF SameButStatus, Reevaluated, Row, Statuses
  <2>2. rank1' = Append(rank1, r) /\ others' = others
    BY <1>8 DEF Scan
  <2> HIDE DEF r
  <2>3. /\ Len(rank1') = Len(rank1) + 1
        /\ DOMAIN rank1' = 1..(Len(rank1) + 1)
        /\ \A k \in 1..Len(rank1) : rank1'[k] = rank1[k]
        /\ rank1'[Len(rank1) + 1] = r
    BY <1>1, <2>1, <2>2, AppendProperties, LenProperties
  <2>4. \A k \in DOMAIN rank1' : k = Len(rank1) + 1 \/ (k \in DOMAIN rank1 /\ rank1'[k] = rank1[k])
    BY <1>1, <2>3
  <2>5. \A k \in DOMAIN rank1 : k \in DOMAIN rank1' /\ rank1'[k] = rank1[k]
    BY <1>1, <2>3
  <2>6. Len(rank1') + Len(others') = Met'
    <3>1. Len(rank1) + Len(others) = n - 1
      BY <1>4, <1>7 DEF SplitOK
    <3> QED BY <1>1, <1>2, <1>4, <2>2, <2>3, <3>1
  <2>7. \A k \in DOMAIN rank1' :
          /\ rank1'[k].status \in {"AUTO_MATCHED", "REVIEW_NEEDED"}
          /\ \E i \in DOMAIN items : /\ i <= Met'
                                     /\ items[i].rank = 1
                                     /\ SameButStatus(rank1'[k], items[i])
    BY <1>2, <1>5, <1>7, <1>8, <2>1, <2>3, <2>4 DEF SplitOK
  <2>8. \A i \in DOMAIN items : i <= Met' /\ items[i].rank = 1 =>
          \E k \in DOMAIN rank1' : SameButStatus(rank1'[k], items[i])
    <3> SUFFICES ASSUME NEW i \in DOMAIN items, i <= Met', items[i].rank = 1
                 PROVE  \E k \in DOMAIN rank1' : SameButStatus(rank1'[k], items[i])
      OBVIOUS
    <3>1. CASE i = n
      <4>1. Len(rank1) + 1 \in DOMAIN rank1'
        BY <1>1, <2>3
      <4> QED BY <2>1, <2>3, <3>1, <4>1
    <3>2. CASE i <= Met
      BY <1>7, <2>5, <3>2 DEF SplitOK
    <3> QED BY <1>5, <3>1, <3>2
  <2>9. /\ \A k \in DOMAIN others' : \E i \in DOMAIN items :
             i <= Met' /\ items[i].rank # 1 /\ others'[k] = items[i]
        /\ \A i \in DOMAIN items : i <= Met' /\ items[i].rank # 1 =>
             \E k \in DOMAIN others' : others'[k] = items[i]
    BY <1>5, <1>7, <1>8, <2>2 DEF SplitOK
  <2> QED BY <1>3, <1>6, <2>6, <2>7, <2>8, <2>9 DEF OutInv, SplitOK, SameButStatus
<1>9. CASE items[n].rank # 1
  <2>1. others' = Append(others, items[n]) /\ rank1' = rank1
    BY <1>9 DEF Scan
  <2>2. /\ Len(others') = Len(others) + 1
        /\ DOMAIN others' = 1..(Len(others) + 1)
        /\ \A k \in 1..Len(others) : others'[k] = others[k]
        /\ others'[Len(others) + 1] = items[n]
    BY <1>1, <1>2, <2>1, AppendProperties, LenProperties
  <2>4. \A k \in DOMAIN others' : k = Len(others) + 1 \/ (k \in DOMAIN others /\ others'[k] = others[k])
    BY <1>1, <2>2
  <2>5. \A k \in DOMAIN others : k \in DOMAIN others' /\ others'[k] = others[k]
    BY <1>1, <2>2
  <2>6. Len(rank1') + Len(others') = Met'
    <3>1. Len(rank1) + Len(others) = n - 1
      BY <1>4, <1>7 DEF SplitOK
    <3> QED BY <1>1, <1>2, <1>4, <2>1, <2>2, <3>1
  <2>7. \A k \in DOMAIN others' : \E i \in DOMAIN items :
           i <= Met' /\ items[i].rank # 1 /\ others'[k] = items[i]
    BY <1>2, <1>5, <1>7, <1>9, <2>2, <2>4 DEF SplitOK
  <2>8. \A i \in DOMAIN items : i <= Met' /\ items[i].rank # 1 =>
          \E k \in DOMAIN others' : others'[k] = items[i]
    <3> SUFFICES ASSUME NEW i \in DOMAIN items, i <= Met', items[i].rank # 1
                 PROVE  \E k \in DOMAIN others' : others'[k] = items[i]
      OBVIOUS
    <3>1. CASE i = n
      <4>1. Len(others) + 1 \in DOMAIN others'
        BY <1>1, <2>2
      <4> QED BY <2>2, <3>1, <4>1
    <3>2. CASE i <= Met
      BY <1>7, <2>5, <3>2 DEF SplitOK
    <3> QED BY <1>5, <3>1, <3>2
  <2>9. /\ \A k \in DOMAIN rank1 :
             /\ rank1[k].status \in {"AUTO_MATCHED", "REVIEW_NEEDED"}
             /\ \E i \in DOMAIN items : /\ i <= Met'
                                        /\ items[i].rank = 1
                                        /\ SameButStatus(rank1[k], items[i])
        /\ \A i \in DOMAIN items : i <= Met' /\ items[i].rank = 1 =>
             \E k \in DOMAIN rank1 : SameButStatus(rank1[k], items[i])
    BY <1>5, <1>7, <1>9 DEF SplitOK
  <2> QED BY <1>3, <1>6, <2>1, <2>6, <2>7, <2>8, <2>9 DEF OutInv, SplitOK, SameButStatus
<1> QED BY <1>8, <1>9

\* After the sort the order is strict, and what is linked by then qualifies.
LEMMA OutSort ==
  ASSUME IInv, OutInv, Sort
  PROVE  OutInv'
<1>1. /\ rank1 \in Seq(Row) /\ Len(rank1) \in Nat /\ DOMAIN rank1 = 1..Len(rank1)
      /\ Len(items) \in Nat /\ n \in Nat
  BY LenProperties DEF IInv, TypeOK
<1>2. PICK p \in Bijection(DOMAIN rank1, DOMAIN rank1) :
        LET sorted == [k \in DOMAIN rank1 |-> rank1[p[k]]] IN
        /\ \A j, k \in DOMAIN rank1 : j < k => ~Before(sorted[k], sorted[j])
        /\ rank1' = sorted
  BY DEF Sort, SortBy
<1>3. /\ p \in [DOMAIN rank1 -> DOMAIN rank1]
      /\ \A k \in DOMAIN rank1 : \E j \in DOMAIN rank1 : p[j] = k
  BY <1>2, Fun_BijectionProperties
<1>4. /\ DOMAIN rank1' = DOMAIN rank1
      /\ \A k \in DOMAIN rank1 : p[k] \in DOMAIN rank1 /\ rank1'[k] = rank1[p[k]]
      /\ \A j, k \in DOMAIN rank1 : j < k => ~Before(rank1'[k], rank1'[j])
  BY <1>2, <1>3
<1>5. /\ pc = "scan" /\ pc' = "claim" /\ n > Len(items)
      /\ UNCHANGED <<sc, pending, items, others, claimed, result>>
  BY DEF Sort, SortBy
<1>6. IInv'
  BY SortStep
<1>7. rank1' \in Seq(Row) /\ Len(rank1') = Len(rank1)
  BY <1>1, <1>4, <1>6, LenProperties DEF IInv, TypeOK
<1>8. Met = Len(items) /\ Met' = Len(items)
  <2>1. n <= Len(items) + 1
    BY <1>5 DEF IInv, TypeOK
  <2> QED BY <1>1, <1>5, <2>1 DEF Met
<1>9. ArrivedOK'
  BY <1>5 DEF OutInv, ArrivedOK, ItemsOf
<1>10. SplitOK'
  <2>1. SplitOK
    BY DEF OutInv
  <2>2. Len(rank1') + Len(others') = Met'
    BY <1>5, <1>7, <1>8, <2>1 DEF SplitOK
  <2>3. \A k \in DOMAIN rank1' :
          /\ rank1'[k].status \in {"AUTO_MATCHED", "REVIEW_NEEDED"}
          /\ \E i \in DOMAIN items : /\ i <= Met'
                                     /\ items[i].rank = 1
                                     /\ SameButStatus(rank1'[k], items[i])
    <3> SUFFICES ASSUME NEW k \in DOMAIN rank1
                 PROVE  /\ rank1'[k].status \in {"AUTO_MATCHED", "REVIEW_NEEDED"}
                        /\ \E i \in DOMAIN items : /\ i <= Met'
                                                   /\ items[i].rank = 1
                                                   /\ SameButStatus(rank1'[k], items[i])
      BY <1>4
    <3>1. p[k] \in DOMAIN rank1 /\ rank1'[k] = rank1[p[k]]
      BY <1>4
    <3>2. \A j \in DOMAIN rank1 :
            /\ rank1[j].status \in {"AUTO_MATCHED", "REVIEW_NEEDED"}
            /\ \E i \in DOMAIN items : /\ i <= Met
                                       /\ items[i].rank = 1
                                       /\ SameButStatus(rank1[j], items[i])
      BY <2>1 DEF SplitOK
    <3> QED BY <1>8, <3>1, <3>2
  <2>4. \A i \in DOMAIN items : i <= Met' /\ items[i].rank = 1 =>
          \E k \in DOMAIN rank1' : SameButStatus(rank1'[k], items[i])
    <3> SUFFICES ASSUME NEW i \in DOMAIN items, i <= Met', items[i].rank = 1
                 PROVE  \E k \in DOMAIN rank1' : SameButStatus(rank1'[k], items[i])
      OBVIOUS
    <3>1. PICK k \in DOMAIN rank1 : SameButStatus(rank1[k], items[i])
      BY <1>8, <2>1 DEF SplitOK
    <3>2. PICK j \in DOMAIN rank1 : p[j] = k
      BY <1>3
    <3> QED BY <1>4, <3>1, <3>2
  <2>5. /\ \A k \in DOMAIN others : \E i \in DOMAIN items :
             i <= Met' /\ items[i].rank # 1 /\ others[k] = items[i]
        /\ \A i \in DOMAIN items : i <= Met' /\ items[i].rank # 1 =>
             \E k \in DOMAIN others : others[k] = items[i]
    BY <1>8, <2>1 DEF SplitOK
  <2> QED BY <1>5, <2>2, <2>3, <2>4, <2>5 DEF SplitOK, SameButStatus
<1>11. OrderOK'
  <2>1. ASSUME NEW j \in DOMAIN rank1', NEW k \in DOMAIN rank1', j < k
        PROVE  Before(rank1'[j], rank1'[k])
    <3>1. rank1'[j] \in Row /\ rank1'[k] \in Row
      BY <1>7, <2>1, ElementOfSeq, LenProperties
    <3>2. rank1'[j].src # rank1'[k].src
      BY <1>1, <1>4, <1>6, <2>1 DEF IInv, Rank1OK
    <3>3. ~Before(rank1'[k], rank1'[j])
      BY <1>4, <2>1
    <3>4. \A r, q \in Row : ~Before(q, r) /\ r.src # q.src => Before(r, q)
      <4> SUFFICES ASSUME NEW r \in Row, NEW q \in Row, ~Before(q, r), r.src # q.src
                   PROVE  Before(r, q)
        OBVIOUS
      <4>1. r.src \in Sources /\ q.src \in Sources /\ r.score \in Score /\ q.score \in Score
        BY DEF Row
      <4>2. Sources \subseteq Int /\ Score \subseteq Int
        BY RecordsAssumption DEF Score
      <4>3. r.src \in Int /\ q.src \in Int /\ r.score \in Int /\ q.score \in Int
        BY <4>1, <4>2
      <4> QED BY <4>3 DEF Before
    <3> QED BY <3>1, <3>2, <3>3, <3>4
  <2>2. \A k \in DOMAIN rank1' :
          rank1'[k].status = "AUTO_MATCHED" => (Eligible(rank1[k]))'
    <3>1. \A k \in DOMAIN rank1 : rank1[k].status = "AUTO_MATCHED" => Eligible(rank1[k])
      BY <1>5 DEF IInv, ScanOK
    <3>2. \A k \in DOMAIN rank1' : rank1'[k].status = "AUTO_MATCHED" => Eligible(rank1'[k])
      BY <1>4, <3>1
    <3>3. \A k \in DOMAIN rank1' : (Eligible(rank1[k]))' <=> Eligible(rank1'[k])
      BY <1>5 DEF Eligible, Rank2Score
    <3> QED BY <3>2, <3>3
  <2> QED BY <2>1, <2>2 DEF OrderOK
<1> QED BY <1>9, <1>10, <1>11 DEF OutInv

\* A claim changes the status of the row it visits, and that one only.
LEMMA OutClaim ==
  ASSUME IInv, OutInv, Claim
  PROVE  OutInv'
<1>1. /\ rank1 \in Seq(Row) /\ Len(rank1) \in Nat /\ DOMAIN rank1 = 1..Len(rank1)
      /\ items \in Seq(Row) /\ n \in Nat \ {0}
  BY LenProperties DEF IInv, TypeOK
<1>2. /\ pc = "claim" /\ n \in DOMAIN rank1 /\ rank1[n] \in Row
      /\ UNCHANGED <<sc, pc, pending, items, others, result>>
  BY <1>1, ElementOfSeq DEF Claim
<1>3. /\ rank1' \in Seq(Row) /\ Len(rank1') = Len(rank1) /\ DOMAIN rank1' = DOMAIN rank1
      /\ \A k \in DOMAIN rank1 :
           \/ rank1'[k] = rank1[k]
           \/ rank1'[k] = [rank1[k] EXCEPT !.status = "REVIEW_NEEDED"]
  <2>1. CASE rank1' = rank1
    BY <1>1, <2>1
  <2>2. CASE rank1' = [rank1 EXCEPT ![n].status = "REVIEW_NEEDED"]
    <3> DEFINE r == [rank1[n] EXCEPT !.status = "REVIEW_NEEDED"]
    <3>1. rank1' = [rank1 EXCEPT ![n] = r] /\ r \in Row
      BY <1>2, <2>2 DEF Row, Statuses
    <3> HIDE DEF r
    <3>2. /\ rank1' \in Seq(Row) /\ Len(rank1') = Len(rank1) /\ DOMAIN rank1' = DOMAIN rank1
          /\ \A k \in DOMAIN rank1 : rank1'[k] = IF k = n THEN r ELSE rank1[k]
      BY <1>1, <1>2, <3>1, ExceptSeq
    <3> QED BY <3>2 DEF r
  <2> QED BY <2>1, <2>2 DEF Claim
<1>4. \A k \in DOMAIN rank1 : rank1[k] \in Row /\ rank1'[k] \in Row
  BY <1>1, <1>3, ElementOfSeq
<1>5. \A k \in DOMAIN rank1 :
        /\ rank1'[k].src = rank1[k].src /\ rank1'[k].dst = rank1[k].dst
        /\ rank1'[k].score = rank1[k].score /\ rank1'[k].cross = rank1[k].cross
        /\ rank1'[k].status \in {rank1[k].status, "REVIEW_NEEDED"}
  BY <1>3, <1>4 DEF Row
<1>6. \A k \in DOMAIN rank1, i \in DOMAIN items :
        SameButStatus(rank1[k], items[i]) => SameButStatus(rank1'[k], items[i])
  <2>1. \A i \in DOMAIN items : items[i] \in Row
    BY <1>1, ElementOfSeq, LenProperties
  <2> QED BY <1>3, <1>4, <2>1 DEF SameButStatus, Row
<1>7. ArrivedOK'
  BY <1>2 DEF OutInv, ArrivedOK, ItemsOf
<1>8. SplitOK'
  <2>1. SplitOK /\ Met' = Met
    BY <1>2 DEF OutInv, Met
  <2>2. Len(rank1') + Len(others') = Met'
    BY <1>2, <1>3, <2>1 DEF SplitOK
  <2>3. \A k \in DOMAIN rank1' :
          /\ rank1'[k].status \in {"AUTO_MATCHED", "REVIEW_NEEDED"}
          /\ \E i \in DOMAIN items : /\ i <= Met'
                                     /\ items[i].rank = 1
                                     /\ SameButStatus(rank1'[k], items[i])
    BY <1>3, <1>5, <1>6, <2>1 DEF SplitOK
  <2>4. \A i \in DOMAIN items : i <= Met' /\ items[i].rank = 1 =>
          \E k \in DOMAIN rank1' : SameButStatus(rank1'[k], items[i])
    BY <1>3, <1>6, <2>1 DEF SplitOK
  <2>5. (\A k \in DOMAIN rank1 :
           /\ rank1[k].status \in {"AUTO_MATCHED", "REVIEW_NEEDED"}
           /\ \E i \in DOMAIN items : /\ i <= Met
                                      /\ items[i].rank = 1
                                      /\ SameButStatus(rank1[k], items[i]))'
    BY <1>2, <2>3 DEF SameButStatus
  <2>6. (\A i \in DOMAIN items : i <= Met /\ items[i].rank = 1 =>
           \E k \in DOMAIN rank1 : SameButStatus(rank1[k], items[i]))'
    BY <1>2, <2>1, <2>4 DEF SameButStatus
  <2>7. /\ \A k \in DOMAIN others' : \E i \in DOMAIN items' :
             i <= Met' /\ items'[i].rank # 1 /\ others'[k] = items'[i]
        /\ \A i \in DOMAIN items' : i <= Met' /\ items'[i].rank # 1 =>
             \E k \in DOMAIN others' : others'[k] = items'[i]
    BY <1>2, <2>1 DEF SplitOK
  <2> QED BY <2>2, <2>5, <2>6, <2>7 DEF SplitOK
<1>9. OrderOK'
  <2>1. \A j, k \in DOMAIN rank1' : j < k => Before(rank1'[j], rank1'[k])
    BY <1>2, <1>3, <1>5 DEF OutInv, OrderOK, Before
  <2>2. \A k \in DOMAIN rank1' : rank1'[k].status = "AUTO_MATCHED" => (Eligible(rank1[k]))'
    <3>1. \A k \in DOMAIN rank1 : rank1'[k].status = "AUTO_MATCHED" => Eligible(rank1[k])
      BY <1>2, <1>5 DEF OutInv, OrderOK
    <3>2. \A k \in DOMAIN rank1 : (Eligible(rank1[k]))' <=> Eligible(rank1[k])
      <4>1. \A k \in DOMAIN rank1 : (Eligible(rank1[k]))' <=> Eligible(rank1'[k])
        BY <1>2 DEF Eligible, Rank2Score
      <4>2. \A k \in DOMAIN rank1 : Eligible(rank1'[k]) <=> Eligible(rank1[k])
        <5> SUFFICES ASSUME NEW k \in DOMAIN rank1
                     PROVE  Eligible(rank1'[k]) <=> Eligible(rank1[k])
          OBVIOUS
        <5>1. CASE rank1'[k] = [rank1[k] EXCEPT !.status = "REVIEW_NEEDED"]
          <6>1. rank1[k] \in Row /\ "REVIEW_NEEDED" \in Statuses
            BY <1>4 DEF Statuses
          <6> QED BY <5>1, <6>1, EligibleIgnoresStatus
        <5> QED BY <1>3, <5>1
      <4> QED BY <4>1, <4>2
    <3> QED BY <1>3, <3>1, <3>2
  <2> QED BY <2>1, <2>2 DEF OrderOK
<1> QED BY <1>7, <1>8, <1>9 DEF OutInv

\* The last step and stuttering change none of the rows.
LEMMA OutStill ==
  ASSUME OutInv, UNCHANGED <<sc, pending, items, rank1, others>>,
         UNCHANGED <<n, pc>> \/ (pc = "claim" /\ pc' = "done")
  PROVE  OutInv'
<1>1. ArrivedOK'
  BY DEF OutInv, ArrivedOK, ItemsOf
<1>2. SplitOK'
  <2>1. Met' = Met
    BY DEF Met
  <2> QED BY <2>1 DEF OutInv, SplitOK, SameButStatus
<1>3. OrderOK'
  BY DEF OutInv, OrderOK, Eligible, Rank2Score
<1> QED BY <1>1, <1>2, <1>3 DEF OutInv

\* The second invariant holds throughout.
LEMMA OutInvariance == Spec => []OutInv
<1>1. IInv /\ OutInv /\ [Next]_vars => OutInv'
  <2> SUFFICES ASSUME IInv, OutInv, [Next]_vars PROVE OutInv'
    OBVIOUS
  <2>1. CASE UNCHANGED vars
    BY <2>1, OutStill DEF vars
  <2>2. CASE Combine
    BY <2>2, OutStill DEF Combine
  <2> QED
    BY <2>1, <2>2, OutCollect, OutScan, OutSort, OutClaim DEF Next, Returned
<1> QED BY <1>1, InitOutInv, Invariance, PTL DEF Spec

----------------------------------------------------------------------------
\* When every row has arrived, the set of rows is the one that matching yields.
LEMMA ArrivedRows ==
  ASSUME IInv, OutInv, pending = {}, NEW found \in FoundRows(sc, "GREEDY_1_1")
  PROVE  RowsOf(found, Sources) = {items[k] : k \in DOMAIN items}
<1>1. sc \in [Sources -> [Dests -> Score]]
  BY InputsAssumption DEF IInv, TypeOK
<1>2. PICK rk \in [Sources -> UNION {Rankings(sc, s) : s \in Sources}] :
        /\ \A s \in Sources : rk[s] \in Rankings(sc, s)
        /\ found = [s \in Sources |-> RowSet(sc, s, rk[s], "GREEDY_1_1")]
  BY DEF FoundRows
<1>3. \A s \in Sources : found[s] = ItemsOf(s)
  <2> SUFFICES ASSUME NEW s \in Sources PROVE found[s] = ItemsOf(s)
    OBVIOUS
  <2>1. PICK t \in Rankings(sc, s) : ItemsOf(s) = RowSet(sc, s, t, "GREEDY_1_1")
    BY DEF OutInv, ArrivedOK
  <2>2. t = rk[s]
    BY <1>1, <1>2, RankingUnique
  <2> QED BY <1>2, <2>1, <2>2
<1>4. \A k \in DOMAIN items : items[k].src \in Sources
  <2>1. \A k \in DOMAIN items : items[k] \in Row
    BY ElementOfSeq, LenProperties DEF IInv, TypeOK
  <2> QED BY <2>1 DEF Row
<1>5. RowsOf(found, Sources) = UNION {ItemsOf(s) : s \in Sources}
  BY <1>3 DEF RowsOf
<1>6. ASSUME NEW x \in {items[k] : k \in DOMAIN items}
      PROVE  x \in UNION {ItemsOf(s) : s \in Sources}
  BY <1>4 DEF ItemsOf
<1>7. ASSUME NEW x \in UNION {ItemsOf(s) : s \in Sources}
      PROVE  x \in {items[k] : k \in DOMAIN items}
  BY DEF ItemsOf
<1> QED BY <1>5, <1>6, <1>7

\* The rank-2 score map is the runner-up of the set.
LEMMA RunnerUpIsRank2 ==
  ASSUME IInv, OutInv, pending = {}, NEW s \in Sources
  PROVE  /\ RunnerUpIn({items[k] : k \in DOMAIN items}, s) = Rank2Score(s)
         /\ \A k \in DOMAIN items : items[k].src = s /\ items[k].rank = 2 =>
              Rank2Score(s) = items[k].score
         /\ (\A k \in DOMAIN items : ~(items[k].src = s /\ items[k].rank = 2)) =>
              Rank2Score(s) = 0
<1> DEFINE at == {k \in DOMAIN items : items[k].src = s /\ items[k].rank = 2}
           rows == {items[k] : k \in DOMAIN items}
           second == {r \in rows : r.src = s /\ r.rank = 2}
<1>1. sc \in [Sources -> [Dests -> Score]]
  BY InputsAssumption DEF IInv, TypeOK
<1>2. \A j, k \in at : items[j] = items[k]
  <2> SUFFICES ASSUME NEW j \in at, NEW k \in at PROVE items[j] = items[k]
    OBVIOUS
  <2>1. PICK t \in Rankings(sc, s) : ItemsOf(s) = RowSet(sc, s, t, "GREEDY_1_1")
    BY DEF OutInv, ArrivedOK
  <2>2. items[j] \in ItemsOf(s) /\ items[k] \in ItemsOf(s)
    BY DEF ItemsOf
  <2>3. items[j].rank = 2 /\ items[k].rank = 2
    OBVIOUS
  <2>4. "GREEDY_1_1" \in Strategies
    BY DEF Strategies
  <2> HIDE DEF at
  <2> QED BY <1>1, <2>1, <2>2, <2>3, <2>4, OneRowPerRank
<1>3. CASE at = {}
  <2>1. second = {}
    BY <1>3
  <2>2. RunnerUpIn(rows, s) = 0 /\ Rank2Score(s) = 0
    BY <1>3, <2>1 DEF RunnerUpIn, Rank2Score
  <2> QED BY <1>3, <2>2
<1>4. CASE at # {}
  <2>1. PICK last \in at : \A j \in at : j <= last
    <3>1. at \subseteq 1..Len(items) /\ Len(items) \in Nat
      BY LenProperties DEF IInv, TypeOK
    <3> HIDE DEF at
    <3> QED BY <1>4, <3>1, GreatestBelow
  <2> DEFINE c == CHOOSE k \in at : \A j \in at : j <= k
  <2>2. c \in at
    BY <2>1
  <2>3. Rank2Score(s) = items[c].score
    BY <1>4 DEF Rank2Score
  <2>4. second # {} /\ \A r \in second : r = items[c]
    <3>1. items[c] \in second
      BY <2>2
    <3>2. ASSUME NEW r \in second PROVE r = items[c]
      <4>1. PICK k \in DOMAIN items : r = items[k]
        OBVIOUS
      <4>2. k \in at
        BY <4>1
      <4> HIDE DEF at, second, c
      <4> QED BY <1>2, <2>2, <4>1, <4>2
    <3> HIDE DEF second, c
    <3> QED BY <3>1, <3>2
  <2>5. RunnerUpIn(rows, s) = (CHOOSE r \in second : TRUE).score
    BY <2>4 DEF RunnerUpIn
  <2>6. (CHOOSE r \in second : TRUE) \in second
    BY <2>4
  <2> HIDE DEF c
  <2>7. RunnerUpIn(rows, s) = Rank2Score(s)
    BY <2>3, <2>4, <2>5, <2>6
  <2>8. \A k \in at : Rank2Score(s) = items[k].score
    BY <1>2, <2>2, <2>3
  <2> QED BY <1>4, <2>7, <2>8
<1> QED BY <1>3, <1>4

\* The row that the loop made of a best row is the one that Settled makes of it.
LEMMA LoopSettles ==
  ASSUME IInv, OutInv, pc = "done",
         NEW k \in DOMAIN rank1, NEW i \in DOMAIN items,
         items[i].rank = 1, SameButStatus(rank1[k], items[i])
  PROVE  rank1[k] = Settled({items[x] : x \in DOMAIN items}, items[i])
<1> DEFINE rows == {items[x] : x \in DOMAIN items}
<1>1. /\ \A x \in DOMAIN items : items[x] \in Row
      /\ \A x \in DOMAIN rank1 : rank1[x] \in Row /\ x \in Nat
      /\ Met = Len(items) /\ \A x \in DOMAIN items : x <= Met
      /\ n > Len(rank1) /\ \A x \in DOMAIN rank1 : x < n
  BY ElementOfSeq, LenProperties DEF IInv, TypeOK, Met, Ending
<1>2. pending = {}
  BY DEF OutInv, ArrivedOK
<1>3. \A j \in DOMAIN rank1, x \in DOMAIN items :
        SameButStatus(rank1[j], items[x]) =>
          /\ rank1[j].src = items[x].src /\ rank1[j].dst = items[x].dst
          /\ rank1[j].score = items[x].score /\ rank1[j].cross = items[x].cross
  BY <1>1 DEF SameButStatus, Row
<1>4. ASSUME NEW j \in DOMAIN rank1, NEW x \in DOMAIN items, items[x].rank = 1,
             SameButStatus(rank1[j], items[x])
      PROVE  Qualifies(rows, items[x]) <=> Eligible(rank1[j])
  <2>1. RunnerUpIn(rows, items[x].src) = Rank2Score(items[x].src)
    <3>1. items[x].src \in Sources
      BY <1>1 DEF Row
    <3> QED BY <1>2, <3>1, RunnerUpIsRank2
  <2> HIDE DEF rows
  <2> QED BY <1>3, <1>4, <2>1 DEF Qualifies, Eligible
<1> DEFINE First == \A j \in DOMAIN rank1 :
                      j # k /\ rank1[j].dst = rank1[k].dst /\ Eligible(rank1[j])
                        => Before(rank1[k], rank1[j])
<1>5. rank1[k].status = "AUTO_MATCHED" <=> Eligible(rank1[k]) /\ First
  <2>1. ASSUME rank1[k].status = "AUTO_MATCHED"
        PROVE  Eligible(rank1[k]) /\ First
    <3>1. Eligible(rank1[k])
      BY <2>1 DEF OutInv, OrderOK
    <3>2. ASSUME NEW j \in DOMAIN rank1, j # k, rank1[j].dst = rank1[k].dst, Eligible(rank1[j])
          PROVE  Before(rank1[k], rank1[j])
      <4>1. CASE k < j
        BY <4>1 DEF OutInv, OrderOK
      <4>2. CASE j < k
        <5>1. rank1[j].status # "AUTO_MATCHED"
          BY <1>1, <2>1, <3>2 DEF IInv, ClaimOK
        <5>2. PICK l \in DOMAIN rank1 :
                l < j /\ rank1[l].status = "AUTO_MATCHED" /\ rank1[l].dst = rank1[j].dst
          BY <1>1, <3>2, <5>1 DEF IInv, ClaimOK
        <5>3. l = k
          BY <1>1, <2>1, <3>2, <5>2 DEF IInv, ClaimOK
        <5> QED BY <1>1, <4>2, <5>2, <5>3
      <4> QED BY <1>1, <3>2, <4>1, <4>2
    <3> QED BY <3>1, <3>2
  <2>2. ASSUME Eligible(rank1[k]), First, rank1[k].status # "AUTO_MATCHED"
        PROVE  FALSE
    <3>1. PICK j \in DOMAIN rank1 :
            j < k /\ rank1[j].status = "AUTO_MATCHED" /\ rank1[j].dst = rank1[k].dst
      BY <1>1, <2>2 DEF IInv, ClaimOK
    <3>2. Eligible(rank1[j]) /\ Before(rank1[j], rank1[k])
      BY <3>1 DEF OutInv, OrderOK
    <3>3. Before(rank1[k], rank1[j])
      BY <1>1, <2>2, <3>1, <3>2
    <3>4. rank1[j].src # rank1[k].src
      BY <1>1, <3>1 DEF IInv, Rank1OK
    <3>5. \A r, q \in Row : Before(r, q) => ~Before(q, r)
      <4> SUFFICES ASSUME NEW r \in Row, NEW q \in Row PROVE Before(r, q) => ~Before(q, r)
        OBVIOUS
      <4>1. /\ r.src \in Sources /\ q.src \in Sources
            /\ r.score \in Score /\ q.score \in Score
            /\ r.dst \in Dests \cup {NoDest} /\ q.dst \in Dests \cup {NoDest}
        BY DEF Row
      <4>2. Sources \subseteq Int /\ Score \subseteq Int /\ Dests \cup {NoDest} \subseteq Int
        BY RecordsAssumption DEF Score, NoDest
      <4>3. /\ r.src \in Int /\ q.src \in Int /\ r.score \in Int /\ q.score \in Int
            /\ r.dst \in Int /\ q.dst \in Int
        BY <4>1, <4>2
      <4> QED BY <4>3 DEF Before
    <3> QED BY <1>1, <3>2, <3>3, <3>5
  <2> QED BY <2>1, <2>2
<1>6. Wins(rows, items[i]) <=> Eligible(rank1[k]) /\ First
  <2>0. Qualifies(rows, items[i]) <=> Eligible(rank1[k])
    BY <1>4
  <2>1. ASSUME Wins(rows, items[i]), NEW j \in DOMAIN rank1,
               j # k, rank1[j].dst = rank1[k].dst, Eligible(rank1[j])
        PROVE  Before(rank1[k], rank1[j])
    <3>1. PICK x \in DOMAIN items : items[x].rank = 1 /\ SameButStatus(rank1[j], items[x])
      BY DEF OutInv, SplitOK
    <3>2. Qualifies(rows, items[x])
      BY <1>4, <2>1, <3>1
    <3>3. rank1[j].src # rank1[k].src
      BY <2>1 DEF IInv, Rank1OK
    <3>4. items[x] # items[i] /\ items[x].dst = items[i].dst
      BY <1>3, <2>1, <3>1, <3>3
    <3>5. items[x] \in rows
      OBVIOUS
    <3> HIDE DEF rows
    <3>6. Before(items[i], items[x])
      BY <2>1, <3>2, <3>4, <3>5 DEF Wins
    <3> QED BY <1>3, <3>1, <3>6 DEF Before
  <2>2. ASSUME First, NEW q \in rows, q # items[i], q.dst = items[i].dst, Qualifies(rows, q)
        PROVE  Before(items[i], q)
    <3>1. PICK x \in DOMAIN items : q = items[x]
      OBVIOUS
    <3>2. items[x].rank = 1
      BY <2>2, <3>1 DEF Qualifies
    <3>3. PICK j \in DOMAIN rank1 : SameButStatus(rank1[j], items[x])
      BY <1>1, <3>2 DEF OutInv, SplitOK
    <3>4. j # k
      BY <1>3, <2>2, <3>1, <3>2, <3>3 DEF IInv, ItemsOK
    <3>5. Eligible(rank1[j]) /\ rank1[j].dst = rank1[k].dst
      BY <1>3, <1>4, <2>2, <3>1, <3>2, <3>3
    <3>6. Before(rank1[k], rank1[j])
      BY <2>2, <3>4, <3>5
    <3> QED BY <1>3, <3>1, <3>3, <3>6 DEF Before
  <2> HIDE DEF rows
  <2> QED BY <2>0, <2>1, <2>2 DEF Wins
<1>7. rank1[k].status \in {"AUTO_MATCHED", "REVIEW_NEEDED"}
  BY DEF OutInv, SplitOK
<1> HIDE DEF rows, First
<1>8. rank1[k] = [items[i] EXCEPT !.status = rank1[k].status]
  BY DEF SameButStatus
<1>9. rank1[k].status = IF Wins(rows, items[i]) THEN "AUTO_MATCHED" ELSE "REVIEW_NEEDED"
  BY <1>5, <1>6, <1>7
<1>10. Settled(rows, items[i])
         = [items[i] EXCEPT !.status = IF Wins(rows, items[i]) THEN "AUTO_MATCHED" ELSE "REVIEW_NEEDED"]
  BY DEF Settled
<1> QED BY <1>8, <1>9, <1>10 DEF rows

\* Whatever the order in which rows arrive, the loop returns as many rows as
\* arrived, and they are the set that Resolved defines.
THEOREM ArrivalOrderIsImmaterial == Spec => []OutcomeIndependentOfArrival
<1>1. IInv /\ OutInv => OutcomeIndependentOfArrival
  <2> SUFFICES ASSUME IInv, OutInv, pc = "done"
               PROVE  /\ Len(result) = Len(items)
                      /\ \A found \in FoundRows(sc, "GREEDY_1_1") :
                           ToSet(result) = Resolved(RowsOf(found, Sources), "GREEDY_1_1")
    BY DEF OutcomeIndependentOfArrival
  <2> DEFINE rows == {items[x] : x \in DOMAIN items}
  <2>1. /\ rank1 \in Seq(Row) /\ Len(rank1) \in Nat /\ DOMAIN rank1 = 1..Len(rank1)
        /\ others \in Seq(Row) /\ Len(others) \in Nat /\ DOMAIN others = 1..Len(others)
        /\ result = rank1 \o others
        /\ Met = Len(items) /\ \A x \in DOMAIN items : x <= Met
    BY LenProperties DEF IInv, TypeOK, Ending, Met
  <2>2. /\ Len(result) = Len(rank1) + Len(others)
        /\ DOMAIN result = 1..(Len(rank1) + Len(others))
        /\ \A x \in 1..(Len(rank1) + Len(others)) :
             result[x] = IF x <= Len(rank1) THEN rank1[x] ELSE others[x - Len(rank1)]
    BY <2>1, ConcatProperties, LenProperties
  <2>3. Len(result) = Len(items)
    BY <2>1, <2>2 DEF OutInv, SplitOK
  <2>4. ToSet(result) = {rank1[k] : k \in DOMAIN rank1} \cup {others[k] : k \in DOMAIN others}
    <3>1. ASSUME NEW x \in DOMAIN result
          PROVE  \/ \E k \in DOMAIN rank1 : result[x] = rank1[k]
                 \/ \E k \in DOMAIN others : result[x] = others[k]
      <4>1. CASE x <= Len(rank1)
        BY <2>1, <2>2, <4>1
      <4>2. CASE x > Len(rank1)
        <5>1. x - Len(rank1) \in DOMAIN others /\ result[x] = others[x - Len(rank1)]
          BY <2>1, <2>2, <4>2
        <5> QED BY <5>1
      <4> QED BY <2>1, <2>2, <4>1, <4>2
    <3>2. \A k \in DOMAIN rank1 : k \in DOMAIN result /\ result[k] = rank1[k]
      BY <2>1, <2>2
    <3>3. ASSUME NEW k \in DOMAIN others
          PROVE  Len(rank1) + k \in DOMAIN result /\ result[Len(rank1) + k] = others[k]
      <4>1. /\ Len(rank1) + k \in 1..(Len(rank1) + Len(others))
            /\ ~(Len(rank1) + k <= Len(rank1)) /\ (Len(rank1) + k) - Len(rank1) = k
        BY <2>1
      <4> QED BY <2>2, <4>1
    <3> QED BY <3>1, <3>2, <3>3 DEF ToSet
  <2>5. {rank1[k] : k \in DOMAIN rank1} \cup {others[k] : k \in DOMAIN others}
          = {Settled(rows, r) : r \in rows}
    <3>1. ASSUME NEW k \in DOMAIN rank1
          PROVE  \E i \in DOMAIN items : rank1[k] = Settled(rows, items[i])
      <4>1. PICK i \in DOMAIN items : items[i].rank = 1 /\ SameButStatus(rank1[k], items[i])
        BY DEF OutInv, SplitOK
      <4> QED BY <4>1, LoopSettles
    <3>2. ASSUME NEW k \in DOMAIN others
          PROVE  \E i \in DOMAIN items : others[k] = Settled(rows, items[i])
      <4>1. PICK i \in DOMAIN items : items[i].rank # 1 /\ others[k] = items[i]
        BY DEF OutInv, SplitOK
      <4> QED BY <4>1 DEF Settled
    <3>3. ASSUME NEW i \in DOMAIN items
          PROVE  \/ \E k \in DOMAIN rank1 : rank1[k] = Settled(rows, items[i])
                 \/ \E k \in DOMAIN others : others[k] = Settled(rows, items[i])
      <4>1. CASE items[i].rank = 1
        <5>1. PICK k \in DOMAIN rank1 : SameButStatus(rank1[k], items[i])
          BY <2>1, <4>1 DEF OutInv, SplitOK
        <5> QED BY <4>1, <5>1, LoopSettles
      <4>2. CASE items[i].rank # 1
        <5>1. PICK k \in DOMAIN others : others[k] = items[i]
          BY <2>1, <4>2 DEF OutInv, SplitOK
        <5> QED BY <4>2, <5>1 DEF Settled
      <4> QED BY <4>1, <4>2
    <3>4. {Settled(rows, r) : r \in rows} = {Settled(rows, items[i]) : i \in DOMAIN items}
      OBVIOUS
    <3> HIDE DEF rows
    <3>5. ASSUME NEW x \in {rank1[k] : k \in DOMAIN rank1} \cup {others[k] : k \in DOMAIN others}
          PROVE  x \in {Settled(rows, items[i]) : i \in DOMAIN items}
      BY <3>1, <3>2
    <3>6. ASSUME NEW x \in {Settled(rows, items[i]) : i \in DOMAIN items}
          PROVE  x \in {rank1[k] : k \in DOMAIN rank1} \cup {others[k] : k \in DOMAIN others}
      BY <3>3
    <3> QED BY <3>4, <3>5, <3>6
  <2>6. ASSUME NEW found \in FoundRows(sc, "GREEDY_1_1")
        PROVE  ToSet(result) = Resolved(RowsOf(found, Sources), "GREEDY_1_1")
    <3>1. RowsOf(found, Sources) = rows
      BY ArrivedRows DEF OutInv, ArrivedOK
    <3>2. Resolved(rows, "GREEDY_1_1") = {Settled(rows, r) : r \in rows}
      BY DEF Resolved
    <3> QED BY <2>4, <2>5, <3>1, <3>2
  <2> QED BY <2>3, <2>6
<1> QED BY <1>1, Invariance, OutInvariance, PTL

----------------------------------------------------------------------------
\* The best row of a source is its first candidate's; the second candidate has a
\* row too, unless only one is kept.
LEMMA BestRow ==
  ASSUME NEW scores \in [Sources -> [Dests -> Score]], NEW s \in Sources,
         NEW t \in Rankings(scores, s), NEW x \in RowSet(scores, s, t, "GREEDY_1_1"),
         x.rank = 1, MaxAlternativesPerSource # 1
  PROVE  /\ Cardinality(Scored(scores, s)) >= 1
         /\ x.dst = t[1] /\ x.score = scores[s][t[1]]
         /\ Cardinality(Scored(scores, s)) >= 2 =>
              \E y \in RowSet(scores, s, t, "GREEDY_1_1") :
                y.src = s /\ y.rank = 2 /\ y.score = scores[s][t[2]]
<1> DEFINE rows == RowsFor(scores, s, t, "GREEDY_1_1")
           c == Cardinality(Scored(scores, s))
<1>1. RowSet(scores, s, t, "GREEDY_1_1") = {rows[k] : k \in DOMAIN rows}
  BY DEF RowSet
<1>2. Scored(scores, s) # {}
  <2> SUFFICES ASSUME Scored(scores, s) = {} PROVE FALSE
    OBVIOUS
  <2>1. rows \in {<<NoMatchRow(s)>>, << >>}
    BY DEF RowsFor
  <2>2. x = NoMatchRow(s)
    <3> HIDE DEF rows
    <3> QED BY <1>1, <2>1
  <2> QED BY <2>2 DEF NoMatchRow
<1>3. c \in Nat /\ c >= 1
  BY <1>2, ScoredFinite
<1>4. /\ KeptOf(c) \in 1..c
      /\ c >= 2 => KeptOf(c) >= 2
  <2>1. MaxAlternatives # 1 /\ MaxAlternatives \in Int
    BY ConfigAssumption DEF MaxAlternatives
  <2> QED BY <1>3, <2>1 DEF KeptOf
<1>5. /\ DOMAIN rows = 1..KeptOf(c)
      /\ \A k \in 1..KeptOf(c) : /\ rows[k].src = s /\ rows[k].dst = t[k] /\ rows[k].rank = k
                                 /\ rows[k].score = scores[s][t[k]]
  BY <1>2 DEF RowsFor
<1> HIDE DEF rows, c
<1>6. PICK k \in 1..KeptOf(c) : x = rows[k]
  BY <1>1, <1>5
<1>7. x.dst = t[1] /\ x.score = scores[s][t[1]]
  BY <1>5, <1>6
<1>8. ASSUME c >= 2
      PROVE  rows[2] \in RowSet(scores, s, t, "GREEDY_1_1") /\ rows[2].src = s
             /\ rows[2].rank = 2 /\ rows[2].score = scores[s][t[2]]
  <2>1. 2 \in 1..KeptOf(c)
    BY <1>3, <1>4, <1>8
  <2> QED BY <1>1, <1>5, <2>1
<1> QED BY <1>3, <1>7, <1>8 DEF c

\* Every other candidate scores at most what the second one does.
LEMMA RivalsAreBelow ==
  ASSUME NEW scores \in [Sources -> [Dests -> Score]], NEW s \in Sources,
         NEW t \in Rankings(scores, s), NEW d \in Scored(scores, s) \ {t[1]},
         Cardinality(Scored(scores, s)) >= 1
  PROVE  /\ Cardinality(Scored(scores, s)) >= 2
         /\ scores[s][d] <= scores[s][t[2]]
         /\ scores[s][t[2]] <= scores[s][t[1]]
<1> DEFINE C == Scored(scores, s)
           c == Cardinality(C)
<1>1. c \in Nat /\ c >= 1
  BY ScoredFinite
<1>2. /\ \A i, j \in 1..c : i < j => Outranks(scores, s, t[i], t[j])
      /\ \A e \in C : \E i \in 1..c : t[i] = e
  <2>1. t \in Bijection(1..c, C) /\ \A i, j \in DOMAIN t : i < j => Outranks(scores, s, t[i], t[j])
    BY DEF Rankings
  <2> HIDE DEF C, c
  <2>2. DOMAIN t = 1..c
    BY <2>1, Fun_BijectionProperties
  <2>3. \A e \in C : \E i \in 1..c : t[i] = e
    BY <2>1 DEF Bijection, Surjection
  <2> QED BY <2>1, <2>2, <2>3
<1>3. \A k \in 1..c : t[k] \in Dests /\ scores[s][t[k]] \in Score
  BY RankingValues
<1>4. PICK j \in 1..c : t[j] = d
  BY <1>2
<1>5. j >= 2
  BY <1>1, <1>4
<1>a. d # t[1] /\ d \in C
  OBVIOUS
<1> HIDE DEF C, c
<1>6. 1 \in 1..c /\ 2 \in 1..c
  BY <1>1, <1>4, <1>5
<1>7. \A i, k \in 1..c : i < k => scores[s][t[k]] <= scores[s][t[i]]
  <2> SUFFICES ASSUME NEW i \in 1..c, NEW k \in 1..c, i < k
               PROVE  scores[s][t[k]] <= scores[s][t[i]]
    OBVIOUS
  <2>1. Outranks(scores, s, t[i], t[k])
    BY <1>2
  <2>2. scores[s][t[i]] \in Int /\ scores[s][t[k]] \in Int
    BY <1>3 DEF Score
  <2> QED BY <2>1, <2>2 DEF Outranks
<1>8. scores[s][t[2]] <= scores[s][t[1]]
  BY <1>6, <1>7
<1>9. scores[s][t[j]] <= scores[s][t[2]]
  <2>1. scores[s][t[2]] \in Int
    BY <1>3, <1>6 DEF Score
  <2>2. CASE j = 2
    BY <2>1, <2>2
  <2>3. CASE j > 2
    BY <1>6, <1>7, <2>3
  <2> QED BY <1>1, <1>5, <2>2, <2>3
<1>10. c >= 2
  BY <1>1, <1>4, <1>5
<1> QED BY <1>4, <1>8, <1>9, <1>10 DEF C, c

\* The README's decision rule, for every configuration that keeps a second
\* candidate and whose floor is no lower than its automatic thresholds.
THEOREM DecisionRule ==
  ASSUME MaxAlternativesPerSource # 1,
         \A cross \in BOOLEAN : AutoThresholdFor(cross) <= Floor
  PROVE  Spec => []DecisionRuleHolds
<1>1. IInv /\ OutInv => DecisionRuleHolds
  <2> SUFFICES ASSUME IInv, OutInv, pc = "done",
                      NEW k \in DOMAIN result, result[k].status = "AUTO_MATCHED"
               PROVE  LET r      == result[k]
                          rivals == Scored(sc, r.src) \ {r.dst} IN
                      /\ r.score >= AutoThresholdFor(r.cross)
                      /\ \A d \in rivals : sc[r.src][d] <= r.score
                      /\ \/ \A d \in rivals : r.score - sc[r.src][d] >= Margin
                         \/ r.score >= Floor /\ \A d \in rivals : sc[r.src][d] < Floor
    BY DEF DecisionRuleHolds
  <2>1. /\ rank1 \in Seq(Row) /\ Len(rank1) \in Nat /\ DOMAIN rank1 = 1..Len(rank1)
        /\ others \in Seq(Row) /\ Len(others) \in Nat /\ DOMAIN others = 1..Len(others)
        /\ result = rank1 \o others /\ items \in Seq(Row)
    BY LenProperties DEF IInv, TypeOK, Ending
  <2>2. /\ DOMAIN result = 1..(Len(rank1) + Len(others))
        /\ \A x \in 1..(Len(rank1) + Len(others)) :
             result[x] = IF x <= Len(rank1) THEN rank1[x] ELSE others[x - Len(rank1)]
    BY <2>1, ConcatProperties, LenProperties
  <2>3. k \in DOMAIN rank1 /\ result[k] = rank1[k]
    <3>1. CASE k <= Len(rank1)
      BY <2>1, <2>2, <3>1
    <3>2. CASE k > Len(rank1)
      <4>1. k - Len(rank1) \in DOMAIN others /\ result[k] = others[k - Len(rank1)]
        BY <2>1, <2>2, <3>2
      <4> QED BY <4>1 DEF IInv, OthersOK
    <3> QED BY <2>1, <2>2, <3>1, <3>2
  <2> DEFINE r == rank1[k]
             s == r.src
             rivals == Scored(sc, s) \ {r.dst}
  <2>4. r \in Row /\ s \in Sources /\ r.score \in Score
    <3>1. rank1[k] \in Row
      BY <2>1, <2>3, ElementOfSeq
    <3> QED BY <3>1 DEF Row
  <2>5. PICK i \in DOMAIN items : items[i].rank = 1 /\ SameButStatus(r, items[i])
    BY <2>3 DEF OutInv, SplitOK
  <2>6. items[i].src = s /\ r.dst = items[i].dst /\ r.score = items[i].score
    <3>1. items[i] \in Row
      BY <2>1, ElementOfSeq, LenProperties
    <3> HIDE DEF r
    <3>2. items[i].src = r.src /\ r.dst = items[i].dst /\ r.score = items[i].score
      BY <2>5, <3>1 DEF SameButStatus, Row
    <3> QED BY <3>2
  <2>7. sc \in [Sources -> [Dests -> Score]]
    BY InputsAssumption DEF IInv, TypeOK
  <2>8. PICK t \in Rankings(sc, s) : ItemsOf(s) = RowSet(sc, s, t, "GREEDY_1_1")
    BY <2>4 DEF OutInv, ArrivedOK
  <2>9. items[i] \in RowSet(sc, s, t, "GREEDY_1_1")
    BY <2>6, <2>8 DEF ItemsOf
  <2>10. Eligible(r)
    BY <2>3 DEF OutInv, OrderOK
  <2>11. r.cross \in BOOLEAN
    BY <2>4 DEF Row
  <2> HIDE DEF r, s
  <2> DEFINE c == Cardinality(Scored(sc, s))
  <2>12. /\ c >= 1
         /\ r.dst = t[1] /\ r.score = sc[s][t[1]]
         /\ c >= 2 => \E y \in RowSet(sc, s, t, "GREEDY_1_1") :
                        y.src = s /\ y.rank = 2 /\ y.score = sc[s][t[2]]
    BY <2>4, <2>5, <2>6, <2>7, <2>9, BestRow
  <2>13. c >= 2 => Rank2Score(s) = sc[s][t[2]]
    <3> SUFFICES ASSUME c >= 2 PROVE Rank2Score(s) = sc[s][t[2]]
      OBVIOUS
    <3>1. PICK y \in ItemsOf(s) : y.src = s /\ y.rank = 2 /\ y.score = sc[s][t[2]]
      BY <2>8, <2>12
    <3>2. PICK x \in DOMAIN items : y = items[x]
      BY DEF ItemsOf
    <3> HIDE DEF c
    <3>3. pending = {}
      BY DEF OutInv, ArrivedOK
    <3> QED BY <2>4, <3>1, <3>2, <3>3, RunnerUpIsRank2
  <2>14. \A d \in rivals : /\ c >= 2
                           /\ sc[s][d] <= sc[s][t[2]] /\ sc[s][t[2]] <= r.score
    BY <2>4, <2>7, <2>12, RivalsAreBelow
  <2>15. \A d \in rivals : d \in Dests /\ sc[s][d] \in Score
    BY <2>4, <2>7 DEF Scored
  <2>16. \A d \in rivals : sc[s][d] <= r.score /\ sc[s][d] <= Rank2Score(s) /\ Rank2Score(s) \in Score
    <3> SUFFICES ASSUME NEW d \in rivals
                 PROVE  sc[s][d] <= r.score /\ sc[s][d] <= Rank2Score(s) /\ Rank2Score(s) \in Score
      OBVIOUS
    <3>1. c >= 2 /\ Rank2Score(s) = sc[s][t[2]] /\ sc[s][d] <= sc[s][t[2]] /\ sc[s][t[2]] <= r.score
      BY <2>13, <2>14
    <3>2. c \in Nat
      BY ScoredFinite
    <3> HIDE DEF c
    <3>3. 2 \in 1..c
      BY <3>1, <3>2
    <3>4. sc[s][t[2]] \in Score
      BY <2>4, <2>7, <3>3, RankingValues DEF c
    <3>5. sc[s][d] \in Score
      BY <2>15
    <3> HIDE DEF rivals
    <3>6. r.score \in Int /\ sc[s][d] \in Int /\ sc[s][t[2]] \in Int
      BY <2>4, <3>4, <3>5 DEF Score
    <3> QED BY <3>1, <3>4, <3>6
  <2> HIDE DEF c, rivals
  <2>17. IsAutoMatchable(r.score, Rank2Score(s), AutoThresholdFor(r.cross))
    BY <2>10 DEF Eligible, s
  <2>18. /\ AutoThresholdFor(r.cross) \in Score /\ AutoThresholdFor(r.cross) <= Floor
         /\ Floor \in Int /\ Margin \in Int
    <3>1. AutoThresholdFor(r.cross) \in Score
      BY ConfigAssumption DEF AutoThresholdFor
    <3>2. Floor \in Int /\ Margin \in Int
      BY ConfigAssumption DEF Floor, Margin, Score
    <3> QED BY <2>11, <3>1, <3>2
  <2>19. r.score >= AutoThresholdFor(r.cross)
    BY <2>4, <2>17, <2>18 DEF IsAutoMatchable, Score
  <2>20. \/ \A d \in rivals : r.score - sc[s][d] >= Margin
         \/ r.score >= Floor /\ \A d \in rivals : sc[s][d] < Floor
    <3>1. CASE r.score >= Floor /\ Rank2Score(s) < Floor
      <4>1. ASSUME NEW d \in rivals
            PROVE  sc[s][d] < Floor
        <5>1. sc[s][d] \in Int /\ Rank2Score(s) \in Int
          BY <2>15, <2>16, <4>1 DEF Score
        <5>2. sc[s][d] <= Rank2Score(s)
          BY <2>16, <4>1
        <5> QED BY <2>18, <3>1, <5>1, <5>2
      <4> QED BY <3>1, <4>1
    <3>2. CASE r.score - Rank2Score(s) >= Margin
      <4>1. ASSUME NEW d \in rivals
            PROVE  r.score - sc[s][d] >= Margin
        <5>1. r.score \in Int /\ sc[s][d] \in Int /\ Rank2Score(s) \in Int
          BY <2>4, <2>15, <2>16, <4>1 DEF Score
        <5>2. sc[s][d] <= Rank2Score(s)
          BY <2>16, <4>1
        <5> QED BY <2>18, <3>2, <5>1, <5>2
      <4> QED BY <4>1
    <3> QED BY <2>17, <3>1, <3>2 DEF IsAutoMatchable
  <2> QED BY <2>3, <2>16, <2>19, <2>20 DEF r, s, rivals
<1> QED BY <1>1, Invariance, OutInvariance, PTL
=============================================================================
