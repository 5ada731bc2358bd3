-------------------------- MODULE GreedyAssignment --------------------------
(***************************************************************************)
(* The end of a matching job under the default strategy, as the sequential *)
(* algorithm the code runs: ExecuteJob drains the workers' batches of rows *)
(* in whatever order they arrive, then resolveGreedy1to1 builds the rank-2 *)
(* score map, re-evaluates every rank-1 row, sorts them and lets each one  *)
(* claim its destination in turn.                                          *)
(***************************************************************************)
EXTENDS Decision, Sequences

ToSet(s) == {s[k] : k \in DOMAIN s}

CONSTANT Inputs             \* the score functions to start from
ASSUME InputsAssumption == Inputs \subseteq [Sources -> [Dests -> Score]]

VARIABLES
  sc,        \* the scores of this job
  pc,        \* "collect", "scan", "sort", "claim" or "done"
  pending,   \* sources whose rows have not come out of resultsChan
  items,     \* allResults, in arrival order
  n,         \* next row to scan, next rank-1 row to claim for
  rank1,     \* rank1Items
  others,    \* nonRank1Items
  claimed,   \* claimedDestinations: destination -> source, NoSource if free
  result     \* what ResolveAssignments returns

vars == <<sc, pc, pending, items, n, rank1, others, claimed, result>>

NoSource == 0

\* A score map built from the wrong rank.
Rank3Score(s) ==
  IF \E k \in DOMAIN items : items[k].src = s /\ items[k].rank = 3
  THEN items[CHOOSE k \in DOMAIN items : items[k].src = s /\ items[k].rank = 3].score
  ELSE 0

\* rank2ScoreMap[s]: the score of the last rank-2 row of s, 0 when it has none.
Rank2Score(s) ==
  LET at == {k \in DOMAIN items : items[k].src = s /\ items[k].rank = 2} IN
  IF at = {} THEN 0
  ELSE items[CHOOSE k \in at : \A j \in at : j <= k].score

Eligible(r) ==
  IsAutoMatchable(r.score, Rank2Score(r.src), AutoThresholdFor(r.cross))

Reevaluated(r) ==
  [r EXCEPT !.status = IF Eligible(r) THEN "AUTO_MATCHED" ELSE "REVIEW_NEEDED"]

----------------------------------------------------------------------------
Init ==
  /\ sc \in Inputs
  /\ pc = "collect"
  /\ pending = Sources
  /\ items = << >>
  /\ n = 1
  /\ rank1 = << >>
  /\ others = << >>
  /\ claimed = [d \in Dests |-> NoSource]
  /\ result = << >>

\* The loop over resultsChan appends the rows of one source at a time.
Collect(s) ==
  /\ pc = "collect"
  /\ s \in pending
  /\ pending' = pending \ {s}
  /\ \E t \in Rankings(sc, s) : items' = items \o RowsFor(sc, s, t, "GREEDY_1_1")
  /\ pc' = IF pending' = {} THEN "scan" ELSE "collect"
  /\ UNCHANGED <<sc, n, rank1, others, claimed, result>>

\* One pass over all rows: re-evaluate the rank-1 rows, keep the rest as is.
Scan ==
  /\ pc = "scan"
  /\ n <= Len(items)
  /\ n' = n + 1
  /\ IF items[n].rank = 1
     THEN rank1' = Append(rank1, Reevaluated(items[n])) /\ UNCHANGED others
     ELSE others' = Append(others, items[n]) /\ UNCHANGED rank1
  /\ UNCHANGED <<sc, pc, pending, items, claimed, result>>

\* sort.SliceStable: any rearrangement that the comparison does not object to.
SortBy(Less(_, _)) ==
  /\ pc = "scan"
  /\ n > Len(items)
  /\ \E p \in Bijection(DOMAIN rank1, DOMAIN rank1) :
       LET sorted == [k \in DOMAIN rank1 |-> rank1[p[k]]] IN
       /\ \A j, k \in DOMAIN rank1 : j < k => ~Less(sorted[k], sorted[j])
       /\ rank1' = sorted
  /\ pc' = "claim"
  /\ n' = 1
  /\ UNCHANGED <<sc, pending, items, others, claimed, result>>

SortBySource == SortBy(LAMBDA r, q : r.src < q.src)
SortByScore  == SortBy(LAMBDA r, q : r.score > q.score)

Sort == SortBy(Before)

\* A claim that is never written down.
ClaimForgotten ==
  /\ pc = "claim"
  /\ n <= Len(rank1)
  /\ n' = n + 1
  /\ UNCHANGED <<sc, pc, pending, items, rank1, others, claimed, result>>

\* Rank-1 rows in order: the first to qualify for a destination claims it, a
\* later one that qualifies is demoted.
Claim ==
  /\ pc = "claim"
  /\ n <= Len(rank1)
  /\ n' = n + 1
  /\ \/ /\ rank1[n].status # "AUTO_MATCHED"
        /\ UNCHANGED <<rank1, claimed>>
     \/ /\ rank1[n].status = "AUTO_MATCHED"
        /\ claimed[rank1[n].dst] = NoSource
        /\ claimed' = [claimed EXCEPT ![rank1[n].dst] = rank1[n].src]
        /\ UNCHANGED rank1
     \/ /\ rank1[n].status = "AUTO_MATCHED"
        /\ claimed[rank1[n].dst] # NoSource
        /\ rank1' = [rank1 EXCEPT ![n].status = "REVIEW_NEEDED"]
        /\ UNCHANGED claimed
  /\ UNCHANGED <<sc, pc, pending, items, others, result>>

Combine ==
  /\ pc = "claim"
  /\ n > Len(rank1)
  /\ result' = rank1 \o others
  /\ pc' = "done"
  /\ UNCHANGED <<sc, pending, items, n, rank1, others, claimed>>

Returned == pc = "done" /\ UNCHANGED vars

Next ==
  \/ \E s \in Sources : Collect(s)
  \/ Scan
  \/ Sort
  \/ Claim
  \/ Combine
  \/ Returned

Spec == Init /\ [][Next]_vars

----------------------------------------------------------------------------
(* Properties. *)

\* Every variable holds a value of its kind, and the loop index stays within
\* the rows it runs over.
TypeOK ==
  /\ sc \in Inputs
  /\ pc \in {"collect", "scan", "claim", "done"}
  /\ pending \subseteq Sources
  /\ items \in Seq(Row)
  /\ rank1 \in Seq(Row)
  /\ others \in Seq(Row)
  /\ result \in Seq(Row)
  /\ n \in Nat \ {0}
  /\ pc = "scan" => n <= Len(items) + 1
  /\ pc = "claim" => n <= Len(rank1) + 1
  /\ claimed \in [Dests -> Sources \cup {NoSource}]

\* README "a destination is claimed by at most one source per batch", and a
\* source is given at most one partner: no two AUTO_MATCHED rows of what
\* ResolveAssignments returns share a destination or a source.
OneToOne ==
  pc = "done" =>
    \A j, k \in DOMAIN result :
      /\ result[j].status = "AUTO_MATCHED"
      /\ result[k].status = "AUTO_MATCHED"
      /\ result[j].dst = result[k].dst \/ result[j].src = result[k].src
      => j = k

\* A rank-1 row that qualifies is sent to review only because a row that
\* scores at least as high was auto-matched to the same destination: greedy
\* assignment never takes a destination away from the better claim.
LoserHasBetterWinner ==
  pc = "done" =>
    \A k \in DOMAIN rank1 :
      Eligible(rank1[k]) /\ rank1[k].status # "AUTO_MATCHED" =>
        \E j \in DOMAIN rank1 :
          /\ rank1[j].status = "AUTO_MATCHED"
          /\ rank1[j].dst = rank1[k].dst
          /\ rank1[j].score >= rank1[k].score

\* The README's decision rule, on the scores themselves: a source whose row is
\* auto-matched clears the threshold with its best candidate, and beats the
\* best of its other candidates by the margin, unless it alone is an exact
\* match.
DecisionRuleHolds ==
  pc = "done" =>
    \A k \in DOMAIN result :
      LET r      == result[k]
          rivals == Scored(sc, r.src) \ {r.dst} IN
      r.status = "AUTO_MATCHED" =>
        /\ r.score >= AutoThresholdFor(r.cross)
        /\ \A d \in rivals : sc[r.src][d] <= r.score
        /\ \/ \A d \in rivals : r.score - sc[r.src][d] >= Margin
           \/ r.score >= Floor /\ \A d \in rivals : sc[r.src][d] < Floor

\* Workers finish in any order, so rows arrive in any order; what is decided
\* about each pair does not depend on it, and no row is lost or made up: the
\* loop returns exactly the rows that Resolved defines on the set of them.
OutcomeIndependentOfArrival ==
  pc = "done" =>
    /\ Len(result) = Len(items)
    /\ \A found \in FoundRows(sc, "GREEDY_1_1") :
         ToSet(result) = Resolved(RowsOf(found, Sources), "GREEDY_1_1")
=============================================================================
