--------------------------- MODULE MatchJobProofs ---------------------------
(***************************************************************************)
(* ExecuteJob for any number of workers, sources and destinations: types,  *)
(* no source lost or repeated, completeness of a job that is not           *)
(* cancelled, silence after the final report, and the safety part of the   *)
(* contract the job implements.                                            *)
(*                                                                         *)
(* None of these is inductive alone.  Phases is what ties the goroutines   *)
(* together: which of them may be where while a channel is open or closed. *)
(***************************************************************************)
EXTENDS MatchJob, TLAPS, FiniteSetTheorems, FunctionTheorems

Launched == batch # {} /\ Dests # {}

\* Before launch nothing exists; after an early return nothing ever will.
Idle ==
  /\ unfed = {} /\ tasks = {} /\ queued = {} /\ collected = {}
  /\ ~tasksClosed /\ ~resultsClosed
  /\ \A w \in Workers : pc[w] = "off"

Phases ==
  /\ main = "start" => Idle
  /\ main = "returned" /\ ~Launched => Idle
  /\ main = "drain" => Launched
  /\ main # "returned" => outcome = {} /\ progress.status # "COMPLETED"
  /\ tasksClosed => unfed = {} /\ main # "start"
  /\ resultsClosed => tasksClosed /\ \A w \in Workers : pc[w] = "exited"
  /\ (\E w \in Workers : pc[w] = "exited") => cancelled \/ (tasksClosed /\ tasks = {})
  /\ main = "returned" /\ Launched => resultsClosed /\ queued = {}

IInv == TypeOK /\ Phases /\ EverySourceInOnePlace

----------------------------------------------------------------------------
(* Rows: what matching yields, and what the assignment makes of it. *)

\* A function takes finitely many values on a finite set.
LEMMA RangeFinite ==
  ASSUME NEW S, IsFiniteSet(S), NEW f, DOMAIN f = S
  PROVE  IsFiniteSet({f[x] : x \in S})
<1> DEFINE T == {f[x] : x \in S}
           g == [x \in S |-> f[x]]
<1>1. g \in Surjection(S, T)
  BY DEF Surjection
<1> QED BY <1>1, FS_Surjection

\* What matching the sources yields: a finite set of well-formed rows each.
LEMMA FoundRowsType ==
  ASSUME NEW sc \in [Sources -> [Dests -> Score]], NEW rule \in Strategies,
         NEW yield \in FoundRows(sc, rule)
  PROVE  /\ yield \in [Sources -> SUBSET Row]
         /\ \A s \in Sources : IsFiniteSet(yield[s])
<1>1. PICK rk \in [Sources -> UNION {Rankings(sc, s) : s \in Sources}] :
        /\ \A s \in Sources : rk[s] \in Rankings(sc, s)
        /\ yield = [s \in Sources |-> RowSet(sc, s, rk[s], rule)]
  BY DEF FoundRows
<1>2. ASSUME NEW s \in Sources
      PROVE  /\ RowSet(sc, s, rk[s], rule) \subseteq Row
             /\ IsFiniteSet(RowSet(sc, s, rk[s], rule))
  <2> DEFINE rows == RowsFor(sc, s, rk[s], rule)
             c == Cardinality(Scored(sc, s))
             row(k) == [src |-> s, dst |-> rk[s][k], rank |-> k, score |-> sc[s][rk[s][k]],
                        cross |-> <<s, rk[s][k]>> \in CrossPairs,
                        status |-> ProposedStatus(sc, s, rk[s], k, rule)]
  <2>1. rows = << >> \/ rows = <<NoMatchRow(s)>> \/ rows = [k \in 1..KeptOf(c) |-> row(k)]
    BY DEF RowsFor
  <2>2. c \in Nat /\ KeptOf(c) \in 0..c
    <3>1. Scored(sc, s) \subseteq Dests
      BY DEF Scored
    <3>2. c \in Nat
      BY <3>1, FS_Subset, FS_CardinalityType, RecordsAssumption
    <3> QED BY <3>2, ConfigAssumption DEF KeptOf, MaxAlternatives
  <2>3. ASSUME NEW k \in 1..KeptOf(c)
        PROVE  row(k) \in Row
    <3>1. rk[s] \in [1..c -> Scored(sc, s)]
      BY <1>1 DEF Rankings, Bijection, Injection
    <3>2. k \in 1..c
      BY <2>2
    <3>3. rk[s][k] \in Dests /\ sc[s][rk[s][k]] \in Score
      BY <3>1, <3>2 DEF Scored
    <3>4. ProposedStatus(sc, s, rk[s], k, rule) \in Statuses
      BY DEF ProposedStatus, Statuses
    <3> QED BY <3>2, <3>3, <3>4 DEF Row
  <2>4. NoMatchRow(s) \in Row
    BY DEF NoMatchRow, Row, Statuses, Score
  <2>5. \E m \in Nat : rows \in [1..m -> Row]
    <3> HIDE DEF rows, row
    <3>1. CASE rows = << >>
      <4>1. rows \in [1..0 -> Row]
        BY <3>1
      <4> QED BY <4>1
    <3>2. CASE rows = <<NoMatchRow(s)>>
      <4>1. rows \in [1..1 -> Row]
        BY <2>4, <3>2
      <4> QED BY <4>1
    <3>3. CASE rows = [k \in 1..KeptOf(c) |-> row(k)]
      <4>1. rows \in [1..KeptOf(c) -> Row]
        BY <2>3, <3>3
      <4> QED BY <2>2, <4>1
    <3> QED BY <2>1, <3>1, <3>2, <3>3
  <2>6. PICK m \in Nat : rows \in [1..m -> Row]
    BY <2>5
  <2>7. DOMAIN rows = 1..m /\ IsFiniteSet(1..m)
    BY <2>6, FS_Interval
  <2>8. RowSet(sc, s, rk[s], rule) = {rows[k] : k \in DOMAIN rows}
    BY DEF RowSet
  <2> HIDE DEF rows
  <2>9. IsFiniteSet({rows[k] : k \in DOMAIN rows})
    BY <2>7, RangeFinite
  <2>10. {rows[k] : k \in DOMAIN rows} \subseteq Row
    BY <2>6, <2>7
  <2> QED BY <2>8, <2>9, <2>10
<1> QED BY <1>1, <1>2

LEMMA RowsOfType ==
  ASSUME NEW yield \in [Sources -> SUBSET Row],
         \A s \in Sources : IsFiniteSet(yield[s]), NEW S \in SUBSET Sources
  PROVE  RowsOf(yield, S) \subseteq Row /\ IsFiniteSet(RowsOf(yield, S))
<1> DEFINE g == [s \in S |-> yield[s]]
           T == {g[s] : s \in S}
<1>1. IsFiniteSet(S)
  BY RecordsAssumption, FS_Subset
<1>2. IsFiniteSet(T)
  BY <1>1, RangeFinite
<1>3. \A U \in T : IsFiniteSet(U)
  OBVIOUS
<1>4. RowsOf(yield, S) = UNION T
  BY DEF RowsOf
<1>5. IsFiniteSet(RowsOf(yield, S))
  BY <1>2, <1>3, <1>4, FS_UNION
<1>6. RowsOf(yield, S) \subseteq Row
  BY DEF RowsOf
<1> QED BY <1>5, <1>6

\* ResolveAssignments only drops rows or changes a status.
THEOREM ResolvedType ==
  ASSUME NEW rows \in SUBSET Row, IsFiniteSet(rows), NEW rule \in Strategies
  PROVE  Resolved(rows, rule) \subseteq Row /\ IsFiniteSet(Resolved(rows, rule))
<1>1. CASE rule = "ALL_CANDIDATES"
  BY <1>1 DEF Resolved
<1>2. CASE rule = "TOP_1"
  BY <1>2, FS_Subset DEF Resolved
<1>3. CASE rule = "GREEDY_1_1"
  <2> DEFINE g == [r \in rows |-> Settled(rows, r)]
  <2>1. Resolved(rows, rule) = {g[r] : r \in rows}
    BY <1>3 DEF Resolved
  <2>2. IsFiniteSet({g[r] : r \in rows})
    BY RangeFinite
  <2>3. ASSUME NEW r \in rows
        PROVE  Settled(rows, r) \in Row
    BY DEF Settled, Row, Statuses
  <2>4. Resolved(rows, rule) \subseteq Row
    BY <2>1, <2>3
  <2> QED BY <2>1, <2>2, <2>4
<1> QED BY <1>1, <1>2, <1>3 DEF Strategies

\* Without a source there is nothing to assign.
LEMMA ResolvedNothing ==
  ASSUME NEW yield, NEW rule
  PROVE  Resolved(RowsOf(yield, {}), rule) = {}
BY DEF Resolved, RowsOf

----------------------------------------------------------------------------
\* Counting a finite set of rows in keeps the counters natural numbers.
LEMMA CountInType ==
  ASSUME NEW c \in Counters, NEW rows, IsFiniteSet(rows)
  PROVE  CountIn(c, rows) \in Counters
<1> DEFINE having(st) == Cardinality({r \in rows : r.status = st})
<1>1. having("AUTO_MATCHED") \in Nat /\ having("REVIEW_NEEDED") \in Nat
      /\ having("NO_MATCH") \in Nat
  BY FS_Subset, FS_CardinalityType
<1>2. Cardinality({r \in rows : r.status # "NO_MATCH"}) \in Nat
  BY FS_Subset, FS_CardinalityType
<1>3. CountIn(c, rows) =
        [auto    |-> c.auto + having("AUTO_MATCHED"),
         review  |-> c.review + having("REVIEW_NEEDED"),
         noMatch |-> c.noMatch + having("NO_MATCH"),
         rows    |-> c.rows + Cardinality({r \in rows : r.status # "NO_MATCH"})]
  BY DEF CountIn
<1> HIDE DEF having
<1> QED BY <1>1, <1>2, <1>3 DEF Counters

LEMMA FinalCountersType ==
  ASSUME NEW rows, IsFiniteSet(rows)
  PROVE  FinalCounters(rows) \in Counters
<1>1. ZeroCounters \in Counters
  BY DEF ZeroCounters, Counters
<1>2. CountIn(ZeroCounters, rows) \in Counters /\ Cardinality(rows) \in Nat
  BY <1>1, CountInType, FS_CardinalityType
<1> QED BY <1>2 DEF FinalCounters, Counters

----------------------------------------------------------------------------
LEMMA InitTypeOK == Init => TypeOK
<1> SUFFICES ASSUME Init PROVE TypeOK
  OBVIOUS
<1>1. /\ found \in [Sources -> SUBSET Row]
      /\ \A s \in Sources : IsFiniteSet(found[s])
  <2>1. PICK sc \in Inputs : found \in FoundRows(sc, strategy)
    BY DEF Init
  <2>2. sc \in [Sources -> [Dests -> Score]] /\ strategy \in Strategies
    BY <2>1, JobInputsAssumption DEF Init
  <2> QED BY <2>1, <2>2, FoundRowsType
<1>2. progress \in [status : {"IDLE", "RUNNING", "COMPLETED"}, processed : Nat,
                    counters : Counters] /\ counters \in Counters
  BY DEF Init, NoReport, ZeroCounters, Counters
<1>3. \A w \in Workers : Busy(w) <=> job[w] # NoTask
  BY DEF Init, Busy
<1> QED BY <1>1, <1>2, <1>3 DEF Init, TypeOK

\* Phases is used once: at launch no worker holds a task.
LEMMA NextTypeOK == TypeOK /\ Phases /\ [Next]_vars => TypeOK'
<1> SUFFICES ASSUME TypeOK, Phases, [Next]_vars PROVE TypeOK'
  OBVIOUS
<1> USE DEF TypeOK
<1>0. batch \subseteq Sources /\ strategy \in Strategies
  BY JobInputsAssumption
<1> USE DEF input, channels, workers, counts, Busy
<1>1. CASE Cancel
  BY <1>1 DEF Cancel
<1>2. CASE ReturnEarly
  BY <1>2 DEF ReturnEarly
<1>3. CASE Launch
  <2>1. \A w \in Workers : job[w] = NoTask
    BY <1>3 DEF Launch, Phases, Idle
  <2> QED BY <1>3, <2>1 DEF Launch
<1>4. ASSUME NEW s \in Sources, Feed(s) PROVE TypeOK'
  BY <1>4 DEF Feed
<1>5. CASE CloseTasks
  BY <1>5 DEF CloseTasks
<1>6. CASE CloseResults
  BY <1>6 DEF CloseResults
<1>7. ASSUME NEW w \in Workers, NEW s \in Sources, Take(w, s) PROVE TypeOK'
  BY <1>7, <1>0, JobInputsAssumption DEF Take
<1>8. ASSUME NEW w \in Workers, Exit(w) PROVE TypeOK'
  BY <1>8 DEF Exit
<1>9. ASSUME NEW w \in Workers, ScoreTask(w) PROVE TypeOK'
  <2>1. job[w] \in Sources
    BY <1>9, <1>0 DEF ScoreTask
  <2>2. CountIn(counters, found[job[w]]) \in Counters
    BY <2>1, CountInType
  <2> QED BY <1>9, <2>2 DEF ScoreTask
<1>10. ASSUME NEW w \in Workers, Send(w) PROVE TypeOK'
  <2>1. job[w] \in batch
    BY <1>10 DEF Send
  <2> QED BY <1>10, <2>1 DEF Send
<1>11. ASSUME NEW w \in Workers, Count(w) PROVE TypeOK'
  BY <1>11 DEF Count
<1>12. ASSUME NEW w \in Workers, Report(w) PROVE TypeOK'
  BY <1>12 DEF Report
<1>13. ASSUME NEW s \in Sources, Drain(s) PROVE TypeOK'
  BY <1>13 DEF Drain
<1>14. CASE Finish
  <2>1. RowsOf(found, collected) \subseteq Row /\ IsFiniteSet(RowsOf(found, collected))
    BY <1>0, RowsOfType
  <2>2. IsFiniteSet(outcome')
    BY <1>14, <1>0, <2>1, ResolvedType DEF Finish
  <2>3. FinalCounters(outcome') \in Counters
    BY <2>2, FinalCountersType
  <2> QED BY <1>14, <2>3 DEF Finish
<1>15. CASE UNCHANGED vars
  BY <1>15 DEF vars
<1> QED
  BY <1>1, <1>2, <1>3, <1>4, <1>5, <1>6, <1>7, <1>8, <1>9, <1>10, <1>11, <1>12,
     <1>13, <1>14, <1>15 DEF Next, Returned

----------------------------------------------------------------------------
LEMMA InitPhases == Init => Phases
<1> SUFFICES ASSUME Init PROVE Phases
  OBVIOUS
<1>1. \A w \in Workers : pc[w] = "off"
  BY DEF Init
<1> QED BY <1>1 DEF Init, Phases, Idle, NoReport

LEMMA NextPhases == TypeOK /\ Phases /\ [Next]_vars => Phases'
<1> SUFFICES ASSUME TypeOK, Phases, [Next]_vars PROVE Phases'
  OBVIOUS
<1> USE DEF Phases, Idle, Launched, input, channels, workers, counts
<1>0. pc \in [Workers -> {"off", "select", "score", "send", "count", "report", "exited"}]
  BY DEF TypeOK
<1>1. CASE Cancel
  BY <1>1 DEF Cancel
<1>2. CASE ReturnEarly
  BY <1>2 DEF ReturnEarly
<1>3. CASE Launch
  BY <1>3 DEF Launch
<1>4. ASSUME NEW s \in Sources, Feed(s) PROVE Phases'
  BY <1>4 DEF Feed
<1>5. CASE CloseTasks
  BY <1>5 DEF CloseTasks
<1>6. CASE CloseResults
  BY <1>6 DEF CloseResults
<1>7. ASSUME NEW w \in Workers, NEW s \in Sources, Take(w, s) PROVE Phases'
  BY <1>7, <1>0 DEF Take
<1>8. ASSUME NEW w \in Workers, Exit(w) PROVE Phases'
  BY <1>8, <1>0 DEF Exit
<1>9. ASSUME NEW w \in Workers, ScoreTask(w) PROVE Phases'
  BY <1>9, <1>0 DEF ScoreTask
<1>10. ASSUME NEW w \in Workers, Send(w) PROVE Phases'
  BY <1>10, <1>0 DEF Send
<1>11. ASSUME NEW w \in Workers, Count(w) PROVE Phases'
  BY <1>11, <1>0 DEF Count
<1>12. ASSUME NEW w \in Workers, Report(w) PROVE Phases'
  BY <1>12, <1>0 DEF Report
<1>13. ASSUME NEW s \in Sources, Drain(s) PROVE Phases'
  BY <1>13 DEF Drain
<1>14. CASE Finish
  BY <1>14 DEF Finish
<1>15. CASE UNCHANGED vars
  BY <1>15 DEF vars
<1> QED
  BY <1>1, <1>2, <1>3, <1>4, <1>5, <1>6, <1>7, <1>8, <1>9, <1>10, <1>11, <1>12,
     <1>13, <1>14, <1>15 DEF Next, Returned

----------------------------------------------------------------------------
\* EverySourceInOnePlace without the set Held: a worker's task stands for itself.
OnePlace ==
  main # "start" /\ Launched =>
    /\ \A s \in batch : \/ s \in unfed \cup tasks \cup queued \cup collected
                        \/ \E w \in Workers : Busy(w) /\ job[w] = s
    /\ unfed \cap tasks = {}
    /\ (unfed \cup tasks) \cap (queued \cup collected) = {}
    /\ queued \cap collected = {}
    /\ \A w \in Workers : Busy(w) =>
         job[w] \in batch \ (unfed \cup tasks \cup queued \cup collected)
    /\ \A v, w \in Workers : Busy(v) /\ Busy(w) /\ job[v] = job[w] => v = w

LEMMA OnePlaceIsEverySource == TypeOK => (OnePlace <=> EverySourceInOnePlace)
BY DEF OnePlace, EverySourceInOnePlace, Held, Launched, TypeOK, Busy

LEMMA InitOnePlace == Init => OnePlace
BY DEF Init, OnePlace

LEMMA NextOnePlace == TypeOK /\ Phases /\ OnePlace /\ [Next]_vars => OnePlace'
<1> SUFFICES ASSUME TypeOK, Phases, OnePlace, [Next]_vars PROVE OnePlace'
  OBVIOUS
<1> USE DEF OnePlace, Launched, input, channels, workers, counts, Busy
<1>0. /\ pc \in [Workers -> {"off", "select", "score", "send", "count", "report", "exited"}]
      /\ job \in [Workers -> batch \cup {NoTask}]
      /\ unfed \subseteq batch /\ tasks \subseteq batch
      /\ queued \subseteq batch /\ collected \subseteq batch
      /\ NoTask \notin batch
      /\ \A w \in Workers : Busy(w) <=> job[w] # NoTask
  BY JobInputsAssumption DEF TypeOK
<1>1. CASE Cancel
  BY <1>1 DEF Cancel
<1>2. CASE ReturnEarly
  BY <1>2 DEF ReturnEarly
<1>3. CASE Launch
  BY <1>3, <1>0 DEF Launch, Phases, Idle
<1>4. ASSUME NEW s \in Sources, Feed(s) PROVE OnePlace'
  <2>1. main # "start"
    BY <1>4 DEF Feed, Phases, Idle
  <2> QED BY <1>4, <1>0, <2>1 DEF Feed
<1>5. CASE CloseTasks
  BY <1>5 DEF CloseTasks
<1>6. CASE CloseResults
  BY <1>6 DEF CloseResults
<1>7. ASSUME NEW w \in Workers, NEW s \in Sources, Take(w, s) PROVE OnePlace'
  BY <1>7, <1>0 DEF Take
<1>8. ASSUME NEW w \in Workers, Exit(w) PROVE OnePlace'
  BY <1>8, <1>0 DEF Exit
<1>9. ASSUME NEW w \in Workers, ScoreTask(w) PROVE OnePlace'
  BY <1>9, <1>0 DEF ScoreTask
<1>10. ASSUME NEW w \in Workers, Send(w) PROVE OnePlace'
  BY <1>10, <1>0 DEF Send
<1>11. ASSUME NEW w \in Workers, Count(w) PROVE OnePlace'
  BY <1>11, <1>0 DEF Count
<1>12. ASSUME NEW w \in Workers, Report(w) PROVE OnePlace'
  BY <1>12, <1>0 DEF Report
<1>13. ASSUME NEW s \in Sources, Drain(s) PROVE OnePlace'
  BY <1>13, <1>0 DEF Drain
<1>14. CASE Finish
  BY <1>14 DEF Finish
<1>15. CASE UNCHANGED vars
  BY <1>15 DEF vars
<1> QED
  BY <1>1, <1>2, <1>3, <1>4, <1>5, <1>6, <1>7, <1>8, <1>9, <1>10, <1>11, <1>12,
     <1>13, <1>14, <1>15 DEF Next, Returned

----------------------------------------------------------------------------
LEMMA Invariance == Spec => []IInv
<1>1. Init => IInv
  BY InitTypeOK, InitPhases, InitOnePlace, OnePlaceIsEverySource DEF IInv
<1>2. IInv /\ [Next]_vars => IInv'
  <2> SUFFICES ASSUME IInv, [Next]_vars PROVE IInv'
    OBVIOUS
  <2>1. TypeOK' /\ Phases'
    BY NextTypeOK, NextPhases DEF IInv
  <2>2. OnePlace'
    BY NextOnePlace, OnePlaceIsEverySource DEF IInv
  <2>3. (OnePlace <=> EverySourceInOnePlace)'
    BY <2>1, OnePlaceIsEverySource, PTL
  <2> QED BY <2>1, <2>2, <2>3 DEF IInv
<1> QED BY <1>1, <1>2, PTL DEF Spec

\* The variables of ExecuteJob keep their types, and a goroutine holds a task
\* exactly while it works on one, however many workers and sources there are.
THEOREM TypeCorrect == Spec => []TypeOK
BY Invariance, PTL DEF IInv

\* No source of a launched job is lost or repeated on its way from the feeder
\* to the collected results.
THEOREM NoSourceLostOrRepeated == Spec => []EverySourceInOnePlace
BY Invariance, PTL DEF IInv

\* When the caller's loop over resultsChan has ended, every source not collected
\* is one that a worker left in the tasks channel because its context was done.
LEMMA DrainedIsComplete ==
  ASSUME IInv, Launched, main # "start", resultsClosed, queued = {}, ~cancelled
  PROVE  collected = batch
<1>1. \A w \in Workers : pc[w] = "exited"
  BY DEF IInv, Phases
<1>2. unfed = {} /\ tasks = {}
  BY <1>1, WorkersAssumption DEF IInv, Phases
<1>3. OnePlace
  BY OnePlaceIsEverySource DEF IInv
<1> QED BY <1>1, <1>2, <1>3 DEF OnePlace, Busy, IInv, TypeOK

\* A job whose context stays alive returns with the rows of every source.
THEOREM UncancelledIsComplete == Spec => []CompleteUnlessCancelled
<1>1. IInv => CompleteUnlessCancelled
  <2> SUFFICES ASSUME IInv, main = "returned", Dests # {}, ~cancelled
               PROVE  collected = batch
    BY DEF CompleteUnlessCancelled
  <2>1. CASE batch = {}
    BY <2>1 DEF IInv, TypeOK
  <2>2. CASE batch # {}
    BY <2>2, DrainedIsComplete DEF Launched, IInv, Phases
  <2> QED BY <2>1, <2>2
<1> QED BY <1>1, Invariance, PTL

\* After the COMPLETED report of a job onProgress is not called again: every
\* worker has exited by then.
THEOREM SilenceAfterFinalReport == Spec => NothingAfterFinalReport
<1>1. IInv /\ [Next]_vars => [progress.status = "COMPLETED" => UNCHANGED progress]_vars
  <2> SUFFICES ASSUME IInv, [Next]_vars, progress.status = "COMPLETED"
               PROVE  UNCHANGED progress
    OBVIOUS
  <2>1. main = "returned"
    BY DEF IInv, Phases
  <2>2. \A w \in Workers : pc[w] \in {"off", "exited"}
    BY <2>1 DEF IInv, Phases, Idle
  <2> QED
    BY <2>1, <2>2 DEF Next, vars, Cancel, ReturnEarly, Launch, Feed, CloseTasks,
       CloseResults, Take, Exit, ScoreTask, Send, Count, Report, Drain, Finish, Returned
<1> QED BY <1>1, Invariance, PTL DEF Spec, NothingAfterFinalReport

----------------------------------------------------------------------------
\* processedCount is behind the rows that were sent by the workers that have sent theirs
\* and not counted them yet.
Counting == {w \in Workers : pc[w] = "count"}
Decided == queued \cup collected
CountInv == processed + Cardinality(Counting) = Cardinality(Decided)

\* What counting adds up: the sets are finite.
LEMMA CountedAreFinite ==
  ASSUME TypeOK
  PROVE  /\ IsFiniteSet(Counting) /\ Cardinality(Counting) \in Nat
         /\ IsFiniteSet(Decided) /\ Cardinality(Decided) \in Nat
<1>1. Decided \subseteq Sources /\ Counting \subseteq Workers
  BY JobInputsAssumption DEF TypeOK, Decided, Counting
<1>. QED BY <1>1, RecordsAssumption, WorkersAssumption, FS_Subset, FS_CardinalityType

LEMMA NextCountInv == IInv /\ CountInv /\ [Next]_vars => CountInv'
<1>. SUFFICES ASSUME IInv, CountInv, [Next]_vars PROVE CountInv'
  OBVIOUS
<1>. USE DEF input, channels, workers, counts
<1>0. /\ pc \in [Workers -> {"off", "select", "score", "send", "count", "report", "exited"}]
      /\ TypeOK /\ Phases /\ OnePlace
  BY OnePlaceIsEverySource DEF IInv, TypeOK
<1>1. CASE UNCHANGED <<processed, Counting, Decided>>
  BY <1>1 DEF CountInv
<1>2. CASE Cancel \/ ReturnEarly \/ CloseTasks \/ CloseResults \/ UNCHANGED vars
           \/ (\E s \in Sources : Feed(s)) \/ Finish
  <2>1. UNCHANGED <<processed, Counting, Decided>>
    BY <1>2 DEF Cancel, ReturnEarly, CloseTasks, CloseResults, Feed, Finish, vars, Counting,
                Decided
  <2>. QED BY <1>1, <2>1
<1>3. CASE Launch
  <2>1. Counting = {} /\ Counting' = {}
    BY <1>0, <1>3 DEF Launch, Counting, Phases, Idle
  <2>. QED BY <1>1, <1>3, <2>1 DEF Launch, Decided
<1>4. ASSUME NEW w \in Workers,
             (\E s \in Sources : Take(w, s)) \/ Exit(w) \/ ScoreTask(w) \/ Report(w)
      PROVE  CountInv'
  <2>1. UNCHANGED <<processed, Counting, Decided>>
    BY <1>0, <1>4 DEF Take, Exit, ScoreTask, Report, Counting, Decided
  <2>. QED BY <1>1, <2>1
<1>5. ASSUME NEW w \in Workers, Send(w) PROVE CountInv'
  <2>1. main # "start" /\ Launched
    BY <1>0, <1>5 DEF Send, Phases, Idle, TypeOK, Launched
  <2>2. job[w] \notin Decided /\ w \notin Counting
    BY <1>0, <1>5, <2>1 DEF Send, OnePlace, Busy, Decided, Counting
  <2>3. Decided' = Decided \cup {job[w]} /\ Counting' = Counting \cup {w}
        /\ processed' = processed
    BY <1>0, <1>5 DEF Send, Decided, Counting
  <2>4. /\ Cardinality(Decided') = Cardinality(Decided) + 1
        /\ Cardinality(Counting') = Cardinality(Counting) + 1
    BY <1>0, <2>2, <2>3, CountedAreFinite, FS_AddElement
  <2>. QED BY <1>0, <2>3, <2>4, CountedAreFinite DEF CountInv, TypeOK
<1>6. ASSUME NEW w \in Workers, Count(w) PROVE CountInv'
  <2>1. w \in Counting /\ processed' = processed + 1 /\ Decided' = Decided
    BY <1>6 DEF Count, Counting, Decided
  <2>2. pc'[w] # "count" /\ \A v \in Workers : v # w => pc'[v] = pc[v]
    BY <1>0, <1>6 DEF Count
  <2>3. Counting' = Counting \ {w}
    BY <2>1, <2>2 DEF Counting
  <2>4. Cardinality(Counting') = Cardinality(Counting) - 1
    BY <1>0, <2>1, <2>3, CountedAreFinite, FS_RemoveElement
  <2>. QED BY <1>0, <2>1, <2>4, CountedAreFinite DEF CountInv, TypeOK
<1>7. ASSUME NEW s \in Sources, Drain(s) PROVE CountInv'
  <2>1. UNCHANGED <<processed, Counting, Decided>>
    BY <1>7 DEF Drain, Counting, Decided
  <2>. QED BY <1>1, <2>1
<1>. QED BY <1>2, <1>3, <1>4, <1>5, <1>6, <1>7 DEF Next, Returned

\* The rows of a finite set, by status.
LEMMA StatusesAddUp ==
  ASSUME NEW rows \in SUBSET Row, IsFiniteSet(rows)
  PROVE  LET having(st) == Cardinality({r \in rows : r.status = st})
         IN  having("AUTO_MATCHED") + having("REVIEW_NEEDED") + having("NO_MATCH")
               = Cardinality(rows)
<1>. DEFINE A == {r \in rows : r.status = "AUTO_MATCHED"}
            B == {r \in rows : r.status = "REVIEW_NEEDED"}
            C == {r \in rows : r.status = "NO_MATCH"}
<1>1. IsFiniteSet(A) /\ IsFiniteSet(B) /\ IsFiniteSet(C)
  BY FS_Subset
<1>2. \A r \in rows : r.status \in {"AUTO_MATCHED", "REVIEW_NEEDED", "NO_MATCH"}
  BY DEF Row, Statuses
<1>3. A \cup B \cup C = rows
  BY <1>2
<1>4. A \cap B = {} /\ (A \cup B) \cap C = {}
  OBVIOUS
<1>. HIDE DEF A, B, C
<1>5. IsFiniteSet(A \cup B)
      /\ Cardinality(A \cup B) = Cardinality(A) + Cardinality(B) - Cardinality(A \cap B)
  BY <1>1, FS_Union
<1>6. Cardinality(A \cup B \cup C)
        = Cardinality(A \cup B) + Cardinality(C) - Cardinality((A \cup B) \cap C)
  BY <1>1, <1>5, FS_Union
<1>7. /\ Cardinality(A) \in Nat /\ Cardinality(B) \in Nat /\ Cardinality(C) \in Nat
      /\ Cardinality({}) = 0
  BY <1>1, FS_CardinalityType, FS_EmptySet
<1>8. Cardinality(A) + Cardinality(B) + Cardinality(C) = Cardinality(rows)
  <2>1. Cardinality(A \cup B) = Cardinality(A) + Cardinality(B)
    <3>1. Cardinality(A \cap B) = 0
      BY <1>4, <1>7
    <3>2. Cardinality(A \cup B) = Cardinality(A) + Cardinality(B) - 0
      BY <1>5, <3>1
    <3>. QED BY <1>7, <3>2
  <2>2. Cardinality(rows) = Cardinality(A \cup B) + Cardinality(C)
    <3>1. Cardinality((A \cup B) \cap C) = 0
      BY <1>4, <1>7
    <3>2. Cardinality(rows) = Cardinality(A \cup B) + Cardinality(C) - 0
      BY <1>3, <1>6, <3>1
    <3>. QED BY <1>7, <2>1, <3>2
  <2>. QED BY <1>7, <2>1, <2>2
<1>. QED BY <1>8 DEF A, B, C

LEMMA FinishReportsTruth ==
  ASSUME IInv, CountInv, Finish
  PROVE  FinalReportMatchesOutcome'
<1>. DEFINE having(st) == Cardinality({r \in outcome' : r.status = st})
            final == FinalCounters(outcome')
<1>1. /\ resultsClosed /\ queued = {} /\ collected' = collected
      /\ outcome' = Resolved(RowsOf(found, collected), strategy)
      /\ progress' = [status |-> "COMPLETED", processed |-> processed, counters |-> final]
  BY DEF Finish
<1>2. Counting = {}
  BY <1>1 DEF IInv, Phases, Counting
<1>3. processed = Cardinality(collected)
  <2>1. Cardinality(Counting) = 0 /\ Decided = collected
    BY <1>1, <1>2, FS_EmptySet DEF Decided
  <2>. QED BY <2>1 DEF CountInv, IInv, TypeOK
<1>4. outcome' \subseteq Row /\ IsFiniteSet(outcome')
  <2>1. RowsOf(found, collected) \subseteq Row /\ IsFiniteSet(RowsOf(found, collected))
    BY RowsOfType, JobInputsAssumption DEF IInv, TypeOK
  <2>. QED BY <1>1, <2>1, ResolvedType, JobInputsAssumption DEF IInv, TypeOK
<1>5. /\ having("AUTO_MATCHED") + having("REVIEW_NEEDED") + having("NO_MATCH")
           = Cardinality(outcome')
      /\ having("AUTO_MATCHED") \in Nat /\ having("REVIEW_NEEDED") \in Nat
      /\ having("NO_MATCH") \in Nat
  BY <1>4, StatusesAddUp, FS_Subset, FS_CardinalityType
<1>6. /\ final.rows = Cardinality(outcome')
      /\ final.auto = 0 + having("AUTO_MATCHED")
      /\ final.review = 0 + having("REVIEW_NEEDED")
      /\ final.noMatch = 0 + having("NO_MATCH")
  BY DEF FinalCounters, CountIn, ZeroCounters
<1>. HIDE DEF having, final
<1>7. /\ final.auto = having("AUTO_MATCHED")
      /\ final.auto + final.review + final.noMatch = Cardinality(outcome')
  BY <1>5, <1>6
<1>8. having("AUTO_MATCHED") = Cardinality({r \in outcome' : r.status = "AUTO_MATCHED"})
  BY DEF having
<1>. QED BY <1>1, <1>3, <1>6, <1>7, <1>8 DEF FinalReportMatchesOutcome

\* What the COMPLETED report says is true of what is returned, however the workers
\* race and whenever the context is done: the rows and their statuses, and how many
\* sources they are the rows of.
THEOREM FinalReportIsTrue == Spec => []FinalReportMatchesOutcome
<1>. DEFINE Inv == CountInv /\ FinalReportMatchesOutcome
<1>1. Init => Inv
  <2>. SUFFICES ASSUME Init PROVE Inv
    OBVIOUS
  <2>1. Counting = {} /\ Decided = {} /\ processed = 0 /\ progress.status = "IDLE"
    BY DEF Init, Counting, Decided, NoReport
  <2>. QED BY <2>1, FS_EmptySet DEF CountInv, FinalReportMatchesOutcome
<1>2. IInv /\ Inv /\ [Next]_vars => Inv'
  <2>. SUFFICES ASSUME IInv, Inv, [Next]_vars PROVE FinalReportMatchesOutcome'
    BY NextCountInv
  <2>1. CASE Finish
    BY <2>1, FinishReportsTruth
  <2>2. CASE ~Finish
    <3>1. ASSUME progress'.status = "COMPLETED"
          PROVE  UNCHANGED <<progress, collected, outcome>>
      <4>1. UNCHANGED progress
        BY <2>2, <3>1 DEF Next, vars, Cancel, ReturnEarly, Launch, Feed, CloseTasks,
           CloseResults, Take, Exit, ScoreTask, Send, Count, Report, Drain, Returned
      <4>2. main = "returned"
        BY <3>1, <4>1 DEF IInv, Phases
      <4>. QED
        BY <2>2, <4>1, <4>2 DEF Next, vars, Cancel, ReturnEarly, Launch, Feed, CloseTasks,
           CloseResults, Take, Exit, ScoreTask, Send, Count, Report, Drain, Returned
    <3>. QED BY <3>1 DEF FinalReportMatchesOutcome
  <2>. QED BY <2>1, <2>2
<1>. QED BY <1>1, <1>2, Invariance, PTL DEF Spec

----------------------------------------------------------------------------
\* The contract's assignment is the one the pool computes.
LEMMA SameAssignment ==
  ASSUME NEW S
  PROVE  Contract!Resolved(Contract!RowsOf(found, S), strategy)
           = Resolved(RowsOf(found, S), strategy)
<1>1. ASSUME NEW rows, NEW r
      PROVE  Contract!Qualifies(rows, r) <=> Qualifies(rows, r)
  BY DEF Qualifies, Contract!Qualifies, IsAutoMatchable, Contract!IsAutoMatchable,
         RunnerUpIn, Contract!RunnerUpIn, AutoThresholdFor, Contract!AutoThresholdFor,
         Floor, Contract!Floor, Margin, Contract!Margin
<1>2. ASSUME NEW rows, NEW r
      PROVE  Contract!Settled(rows, r) = Settled(rows, r)
  BY <1>1 DEF Settled, Contract!Settled, Wins, Contract!Wins, Before, Contract!Before
<1>3. Contract!RowsOf(found, S) = RowsOf(found, S)
  BY DEF RowsOf, Contract!RowsOf
<1> QED BY <1>2, <1>3 DEF Resolved, Contract!Resolved

\* The safety part of the contract: a job starts as the abstract one does, and
\* each of its steps decides one source, cancels, returns, or changes nothing
\* that the caller was promised anything about.
THEOREM PoolImplementsContract ==
  Spec => Contract!JobInit /\ [][Contract!JobNext]_Contract!jobVars
<1>1. Init => Contract!JobInit
  BY DEF Init, Contract!JobInit
<1>2. IInv /\ IInv' /\ [Next]_vars => [Contract!JobNext]_Contract!jobVars
  <2> SUFFICES ASSUME IInv, IInv', [Next]_vars
               PROVE  [Contract!JobNext]_Contract!jobVars
    OBVIOUS
  <2>0. batch \subseteq Sources /\ TypeOK /\ Phases /\ OnePlace
    BY JobInputsAssumption, OnePlaceIsEverySource DEF IInv, TypeOK
  <2> USE DEF input, channels, workers, counts
  <2>1. CASE Cancel
    BY <2>1 DEF Cancel, Contract!JobNext, Contract!CancelJob
  <2>2. CASE ReturnEarly
    <3>1. queued \cup collected = {} /\ outcome = {}
      BY <2>2, <2>0 DEF ReturnEarly, Phases, Idle
    <3>2. Resolved(RowsOf(found, queued \cup collected), strategy) = {}
      BY <3>1, ResolvedNothing
    <3>3. Contract!Return
      BY <2>2, <3>1, <3>2, SameAssignment DEF ReturnEarly, Contract!Return
    <3> QED BY <3>3 DEF Contract!JobNext
  <2>3. CASE Launch
    BY <2>3 DEF Launch, Contract!jobVars
  <2>4. ASSUME NEW s \in Sources, Feed(s) PROVE UNCHANGED Contract!jobVars
    BY <2>4 DEF Feed, Contract!jobVars
  <2>5. CASE CloseTasks
    BY <2>5 DEF CloseTasks, Contract!jobVars
  <2>6. CASE CloseResults
    BY <2>6 DEF CloseResults, Contract!jobVars
  <2>7. ASSUME NEW w \in Workers, NEW s \in Sources, Take(w, s)
        PROVE  UNCHANGED Contract!jobVars
    BY <2>7 DEF Take, Contract!jobVars
  <2>8. ASSUME NEW w \in Workers, Exit(w) PROVE UNCHANGED Contract!jobVars
    BY <2>8 DEF Exit, Contract!jobVars
  <2>9. ASSUME NEW w \in Workers, ScoreTask(w) PROVE UNCHANGED Contract!jobVars
    BY <2>9 DEF ScoreTask, Contract!jobVars
  <2>10. ASSUME NEW w \in Workers, Send(w) PROVE Contract!JobNext
    <3>1. main # "returned" /\ main # "start" /\ Launched
      BY <2>10, <2>0 DEF Send, Phases, Idle, TypeOK, Launched
    <3>2. job[w] \in batch \ (queued \cup collected)
      BY <2>10, <2>0, <3>1 DEF Send, OnePlace, Busy
    <3>3. Contract!Decide(job[w])
      BY <2>10, <3>1, <3>2 DEF Send, Contract!Decide
    <3> QED BY <3>2, <3>3, <2>0 DEF Contract!JobNext
  <2>11. ASSUME NEW w \in Workers, Count(w) PROVE UNCHANGED Contract!jobVars
    BY <2>11 DEF Count, Contract!jobVars
  <2>12. ASSUME NEW w \in Workers, Report(w) PROVE UNCHANGED Contract!jobVars
    BY <2>12 DEF Report, Contract!jobVars
  <2>13. ASSUME NEW s \in Sources, Drain(s) PROVE UNCHANGED Contract!jobVars
    BY <2>13 DEF Drain, Contract!jobVars
  <2>14. CASE Finish
    <3>1. cancelled \/ collected = batch
      BY <2>14, <2>0, DrainedIsComplete DEF Finish, Phases
    <3>2. queued \cup collected = collected
      BY <2>14 DEF Finish
    <3>3. Contract!Return
      BY <2>14, <3>1, <3>2, SameAssignment DEF Finish, Contract!Return
    <3> QED BY <3>3 DEF Contract!JobNext
  <2>15. CASE UNCHANGED vars
    BY <2>15 DEF vars, Contract!jobVars
  <2> QED
    BY <2>1, <2>2, <2>3, <2>4, <2>5, <2>6, <2>7, <2>8, <2>9, <2>10, <2>11, <2>12,
       <2>13, <2>14, <2>15 DEF Next, Returned
<1> QED BY <1>1, <1>2, Invariance, PTL DEF Spec
=============================================================================
