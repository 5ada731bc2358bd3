------------------------------ MODULE Decision ------------------------------
(***************************************************************************)
(* The decision layer of the matching engine: what one source's scored     *)
(* candidates become (ExecuteJob, per task) and the rule that says when a  *)
(* pair may be linked without a human (IsAutoMatchable).  Scores are whole *)
(* percentages.  Blocking and scoring are inputs: sc[s][d] is the score    *)
(* the engine computes for the pair, 0 for a pair that blocking never      *)
(* proposes or that a mandatory field rejects.                             *)
(***************************************************************************)
EXTENDS Integers, FiniteSets, Functions

CONSTANTS
  Sources,                  \* source record IDs; numbers, for their order
  Dests,                    \* destination record IDs; numbers, for their order
  CrossPairs,               \* the pairs written in two different scripts
  AutoMatchThreshold,
  ReviewThreshold,
  MarginThreshold,
  ExactMatchFloor,
  CrossScriptAutoThreshold,
  MaxAlternativesPerSource,
  EmitUnmatched,
  CalibrationEnabled,       \* the toggle is on and a calibrator is installed
  CalibrationMap            \* what that calibrator maps a raw score to

NoDest == 0                 \* the empty destination_id of a NO_MATCH row
Score  == 0..100

ASSUME RecordsAssumption ==
  /\ Sources \subseteq Nat \ {0} /\ IsFiniteSet(Sources)
  /\ Dests \subseteq Nat \ {0} /\ IsFiniteSet(Dests)
  /\ CrossPairs \subseteq Sources \X Dests

ASSUME ConfigAssumption ==
  /\ AutoMatchThreshold \in Score /\ ReviewThreshold \in Score \ {0}
  /\ MarginThreshold \in Score /\ ExactMatchFloor \in Score
  /\ CrossScriptAutoThreshold \in Score
  /\ MaxAlternativesPerSource \in Int
  /\ EmitUnmatched \in BOOLEAN /\ CalibrationEnabled \in BOOLEAN
  /\ CalibrationMap \in [Score -> Score]

Statuses   == {"AUTO_MATCHED", "REVIEW_NEEDED", "NO_MATCH"}
Strategies == {"GREEDY_1_1", "TOP_1", "ALL_CANDIDATES"}

Row == [src : Sources, dst : Dests \cup {NoDest}, rank : Nat, score : Score,
        cross : BOOLEAN, status : Statuses]

----------------------------------------------------------------------------
(* NewMatchEngine: a zero in the stored configuration means "the default". *)
Margin == IF MarginThreshold = 0 THEN 5 ELSE MarginThreshold
Floor  == IF ExactMatchFloor = 0 THEN 99 ELSE ExactMatchFloor
MaxAlternatives == IF MaxAlternativesPerSource = 0 THEN 5 ELSE MaxAlternativesPerSource

AutoThresholdFor(cross) ==
  IF cross /\ CrossScriptAutoThreshold > 0 THEN CrossScriptAutoThreshold
                                           ELSE AutoMatchThreshold

IsAutoMatchable(top, runnerUp, auto) ==
  \/ top >= Floor /\ runnerUp < Floor
  \/ top >= auto /\ top - runnerUp >= Margin

----------------------------------------------------------------------------
(* One task of ExecuteJob. *)

Scored(sc, s) == {d \in Dests : sc[s][d] >= ReviewThreshold}

\* The sort of the scored candidates: score descending, then destination ID.
Outranks(sc, s, d, e) ==
  \/ sc[s][d] > sc[s][e]
  \/ sc[s][d] = sc[s][e] /\ d < e

Rankings(sc, s) ==
  {t \in Bijection(1..Cardinality(Scored(sc, s)), Scored(sc, s)) :
     \A i, j \in DOMAIN t : i < j => Outranks(sc, s, t[i], t[j])}

Calibrated(x) == IF CalibrationEnabled THEN CalibrationMap[x] ELSE x

RunnerUpScore(sc, s, t) ==
  IF Cardinality(Scored(sc, s)) > 1 THEN sc[s][t[2]] ELSE 0

\* The score the decision is compared with: calibrated when calibration is on,
\* and zero, so that no margin applies, when links are many-to-many.
DecisionRunnerUp(sc, s, t, strategy) ==
  LET raw == RunnerUpScore(sc, s, t) IN
  IF strategy = "ALL_CANDIDATES" THEN 0
  ELSE IF raw > 0 THEN Calibrated(raw) ELSE raw

ProposedStatus(sc, s, t, k, strategy) ==
  IF /\ k = 1 \/ strategy = "ALL_CANDIDATES"
     /\ IsAutoMatchable(Calibrated(sc[s][t[k]]),
                        DecisionRunnerUp(sc, s, t, strategy),
                        AutoThresholdFor(<<s, t[k]>> \in CrossPairs))
  THEN "AUTO_MATCHED" ELSE "REVIEW_NEEDED"

NoMatchRow(s) ==
  [src |-> s, dst |-> NoDest, rank |-> 0, score |-> 0, cross |-> FALSE,
   status |-> "NO_MATCH"]

\* How many of n ranked candidates become rows.
KeptOf(n) == IF MaxAlternatives > 0 /\ n > MaxAlternatives THEN MaxAlternatives ELSE n

\* The rows one source contributes, best first, given its ranking t.
RowsFor(sc, s, t, strategy) ==
  IF Scored(sc, s) = {}
  THEN IF EmitUnmatched THEN <<NoMatchRow(s)>> ELSE << >>
  ELSE [k \in 1..KeptOf(Cardinality(Scored(sc, s))) |->
          [src |-> s, dst |-> t[k], rank |-> k, score |-> sc[s][t[k]],
           cross |-> <<s, t[k]>> \in CrossPairs,
           status |-> ProposedStatus(sc, s, t, k, strategy)]]

\* The rows of one source as a set: a row's place in the stream is no part of
\* what is decided.
RowSet(sc, s, t, strategy) ==
  LET rows == RowsFor(sc, s, t, strategy) IN {rows[k] : k \in DOMAIN rows}

\* What matching each source yields, for every outcome of the sorts.
FoundRows(sc, strategy) ==
  {[s \in Sources |-> RowSet(sc, s, rk[s], strategy)] :
     rk \in {f \in [Sources -> UNION {Rankings(sc, s) : s \in Sources}] :
              \A s \in Sources : f[s] \in Rankings(sc, s)}}

RowsOf(found, S) == UNION {found[s] : s \in S}

----------------------------------------------------------------------------
(* ResolveAssignments on a set of rows.  The greedy loop visits rank-1 rows  *)
(* in a total order and lets the first that qualifies for a destination     *)
(* claim it: so a row wins when it comes before every other row that        *)
(* qualifies for its destination.  GreedyAssignment runs the loop itself.   *)

\* The sort of the rank-1 rows: score descending, source ID, destination ID.
Before(r, q) ==
  \/ r.score > q.score
  \/ r.score = q.score /\ r.src < q.src
  \/ r.score = q.score /\ r.src = q.src /\ r.dst < q.dst

RunnerUpIn(rows, s) ==
  LET second == {r \in rows : r.src = s /\ r.rank = 2} IN
  IF second = {} THEN 0 ELSE (CHOOSE r \in second : TRUE).score

Qualifies(rows, r) ==
  /\ r.rank = 1
  /\ IsAutoMatchable(r.score, RunnerUpIn(rows, r.src), AutoThresholdFor(r.cross))

Wins(rows, r) ==
  /\ Qualifies(rows, r)
  /\ \A q \in rows : q # r /\ q.dst = r.dst /\ Qualifies(rows, q) => Before(r, q)

Settled(rows, r) ==
  IF r.rank # 1 THEN r
  ELSE [r EXCEPT !.status = IF Wins(rows, r) THEN "AUTO_MATCHED" ELSE "REVIEW_NEEDED"]

Resolved(rows, strategy) ==
  IF strategy = "ALL_CANDIDATES" THEN rows
  ELSE IF strategy = "TOP_1" THEN {r \in rows : r.rank = 1}
  ELSE {Settled(rows, r) : r \in rows}
=============================================================================
