------------------------------ MODULE MatchJob ------------------------------
(***************************************************************************)
(* MatchEngine.ExecuteJob: a pool of workers that take sources from one    *)
(* channel and send their rows on another, a feeder that fills the first   *)
(* and closes both, and the caller's goroutine that drains the second.     *)
(* The caller's context may be done at any moment.                         *)
(*                                                                         *)
(* The order inside a channel is left out: workers race for the next task  *)
(* and the outcome of the job is a function of the set of rows (see        *)
(* GreedyAssignment), so a channel is the set of what it holds.            *)
(***************************************************************************)
EXTENDS Decision

CONSTANTS
  Workers,         \* the goroutines, Config.WorkerCount of them
  ReportEvery,     \* a RUNNING report every so many sources; 100 in the code
  Inputs,          \* the score functions to start from
  StrategyInputs,  \* the assignment strategies to start from
  Batches,         \* the sets of sources to start from
  NoTask           \* what a worker without a task holds

ASSUME WorkersAssumption == IsFiniteSet(Workers) /\ Workers # {}
ASSUME ReportAssumption == ReportEvery \in Nat \ {0}
ASSUME JobInputsAssumption ==
  /\ Inputs \subseteq [Sources -> [Dests -> Score]]
  /\ StrategyInputs \subseteq Strategies
  /\ Batches \subseteq SUBSET Sources
  /\ NoTask \notin Sources

VARIABLES
  found, strategy, batch,         \* what each source's task finds; the job's input
  cancelled,                      \* ctx.Done() is closed
  main,                           \* "start", "drain" or "returned"
  unfed, tasks, tasksClosed,      \* the feeder and the tasks channel
  pc, job, cnt,                   \* each worker: where it is, its task, its count
  queued, resultsClosed,          \* resultsChan
  collected,                      \* sources whose rows are in allResults
  counters,                       \* the four atomic counters of the job
  processed,                      \* processedCount
  progress,                       \* the last report given to onProgress
  outcome                         \* the rows ExecuteJob returned

input    == <<found, strategy, batch>>
workers  == <<pc, job, cnt>>
channels == <<unfed, tasks, tasksClosed, queued, resultsClosed>>
counts   == <<counters, processed>>
vars     == <<input, cancelled, main, channels, workers, collected, counts,
              progress, outcome>>

ZeroCounters == [auto |-> 0, review |-> 0, noMatch |-> 0, rows |-> 0]

\* The counters after a set of rows has been counted in.
CountIn(c, rows) ==
  LET having(st) == Cardinality({r \in rows : r.status = st}) IN
  [auto    |-> c.auto + having("AUTO_MATCHED"),
   review  |-> c.review + having("REVIEW_NEEDED"),
   noMatch |-> c.noMatch + having("NO_MATCH"),
   rows    |-> c.rows + Cardinality({r \in rows : r.status # "NO_MATCH"})]

NoReport == [status |-> "IDLE", processed |-> 0, counters |-> ZeroCounters]

\* make(chan matchTask, totalSources) and make(chan []MatchResultItem, totalSources).
SingleSlot == 1
TaskCapacity == Cardinality(batch)
ResultCapacity == Cardinality(batch)

----------------------------------------------------------------------------
Init ==
  /\ strategy \in StrategyInputs
  /\ \E sc \in Inputs : found \in FoundRows(sc, strategy)
  /\ batch \in Batches
  /\ cancelled = FALSE
  /\ main = "start"
  /\ unfed = {}
  /\ tasks = {}
  /\ tasksClosed = FALSE
  /\ pc = [w \in Workers |-> "off"]
  /\ job = [w \in Workers |-> NoTask]
  /\ cnt = [w \in Workers |-> 0]
  /\ queued = {}
  /\ resultsClosed = FALSE
  /\ collected = {}
  /\ counters = ZeroCounters
  /\ processed = 0
  /\ progress = NoReport
  /\ outcome = {}

\* The context given to ExecuteJob times out or is cancelled.
Cancel ==
  /\ ~cancelled
  /\ cancelled' = TRUE
  /\ UNCHANGED <<input, main, channels, workers, collected, counts, progress, outcome>>

\* Nothing to match: no worker is started and onProgress is not called.
ReturnEarly ==
  /\ main = "start"
  /\ batch = {} \/ Dests = {}
  /\ main' = "returned"
  /\ UNCHANGED <<input, cancelled, channels, workers, collected, counts, progress, outcome>>

Launch ==
  /\ main = "start"
  /\ batch # {} /\ Dests # {}
  /\ main' = "drain"
  /\ unfed' = batch
  /\ pc' = [w \in Workers |-> "select"]
  /\ UNCHANGED <<input, cancelled, tasks, tasksClosed, job, cnt, queued, resultsClosed,
                 collected, counts, progress, outcome>>

(* The feeder goroutine. *)

\* tasks <- matchTask{...} blocks while the channel is full.
Feed(s) ==
  /\ s \in unfed
  /\ Cardinality(tasks) < TaskCapacity
  /\ unfed' = unfed \ {s}
  /\ tasks' = tasks \cup {s}
  /\ UNCHANGED <<input, cancelled, main, tasksClosed, workers, queued, resultsClosed,
                 collected, counts, progress, outcome>>

CloseTasks ==
  /\ main = "drain" /\ unfed = {} /\ ~tasksClosed
  /\ tasksClosed' = TRUE
  /\ UNCHANGED <<input, cancelled, main, unfed, tasks, workers, queued, resultsClosed,
                 collected, counts, progress, outcome>>

\* A feeder that closes the results without waiting for the workers.
CloseWithoutWait ==
  /\ tasksClosed /\ ~resultsClosed
  /\ \A w \in Workers : pc[w] \in {"select", "count", "report", "exited"}
  /\ tasks = {}
  /\ resultsClosed' = TRUE
  /\ UNCHANGED <<input, cancelled, main, unfed, tasks, tasksClosed, workers, queued,
                 collected, counts, progress, outcome>>

\* wg.Wait(); close(resultsChan)
CloseResults ==
  /\ tasksClosed /\ ~resultsClosed
  /\ \A w \in Workers : pc[w] = "exited"
  /\ resultsClosed' = TRUE
  /\ UNCHANGED <<input, cancelled, main, unfed, tasks, tasksClosed, workers, queued,
                 collected, counts, progress, outcome>>

(* A worker. *)

\* A worker that looks at the next task and leaves it in the channel.
TakeAndLeave(w, s) ==
  /\ pc[w] = "select"
  /\ s \in tasks
  /\ job' = [job EXCEPT ![w] = s]
  /\ pc' = [pc EXCEPT ![w] = "score"]
  /\ UNCHANGED <<input, cancelled, main, channels, cnt, collected, counts, progress,
                 outcome>>

\* The select may pick a task although the context is done: both are ready.
Take(w, s) ==
  /\ pc[w] = "select"
  /\ s \in tasks
  /\ tasks' = tasks \ {s}
  /\ job' = [job EXCEPT ![w] = s]
  /\ pc' = [pc EXCEPT ![w] = "score"]
  /\ UNCHANGED <<input, cancelled, main, unfed, tasksClosed, cnt, queued, resultsClosed,
                 collected, counts, progress, outcome>>

\* A receive that gives up as soon as the channel is empty.
ExitWhenEmpty(w) ==
  /\ pc[w] = "select"
  /\ cancelled \/ tasks = {}
  /\ pc' = [pc EXCEPT ![w] = "exited"]
  /\ UNCHANGED <<input, cancelled, main, channels, job, cnt, collected, counts, progress,
                 outcome>>

Exit(w) ==
  /\ pc[w] = "select"
  /\ cancelled \/ (tasksClosed /\ tasks = {})
  /\ pc' = [pc EXCEPT ![w] = "exited"]
  /\ UNCHANGED <<input, cancelled, main, channels, job, cnt, collected, counts, progress,
                 outcome>>

\* Candidates are found, scored, ranked and decided, and the counters are
\* advanced for every row, before the rows are sent.
ScoreTask(w) ==
  /\ pc[w] = "score"
  /\ counters' = CountIn(counters, found[job[w]])
  /\ pc' = [pc EXCEPT ![w] = "send"]
  /\ UNCHANGED <<input, cancelled, main, channels, job, cnt, collected, processed, progress,
                 outcome>>

\* resultsChan <- matchedItems
Send(w) ==
  /\ pc[w] = "send"
  /\ Cardinality(queued) < ResultCapacity
  /\ queued' = queued \cup {job[w]}
  /\ job' = [job EXCEPT ![w] = NoTask]
  /\ pc' = [pc EXCEPT ![w] = "count"]
  /\ UNCHANGED <<input, cancelled, main, unfed, tasks, tasksClosed, cnt, resultsClosed,
                 collected, counts, progress, outcome>>

\* cnt := ++processedCount; the worker whose cnt is a multiple of ReportEvery,
\* or the last one, goes on to report.
Count(w) ==
  /\ pc[w] = "count"
  /\ processed' = processed + 1
  /\ cnt' = [cnt EXCEPT ![w] = processed + 1]
  /\ pc' = [pc EXCEPT ![w] =
              IF cnt'[w] % ReportEvery = 0 \/ cnt'[w] = Cardinality(batch)
              THEN "report" ELSE "select"]
  /\ UNCHANGED <<input, cancelled, main, channels, job, collected, counters, progress,
                 outcome>>

\* onProgress with the worker's own cnt and the counters as they are by now.
Report(w) ==
  /\ pc[w] = "report"
  /\ progress' = [status |-> "RUNNING", processed |-> cnt[w], counters |-> counters]
  /\ pc' = [pc EXCEPT ![w] = "select"]
  /\ UNCHANGED <<input, cancelled, main, channels, job, cnt, collected, counts, outcome>>

(* The caller's goroutine. *)

\* for res := range resultsChan
Drain(s) ==
  /\ main = "drain"
  /\ s \in queued
  /\ queued' = queued \ {s}
  /\ collected' = collected \cup {s}
  /\ UNCHANGED <<input, cancelled, main, unfed, tasks, tasksClosed, resultsClosed, workers,
                 counts, progress, outcome>>

\* The final counters are recomputed from the resolved rows.
FinalCounters(rows) ==
  [CountIn(ZeroCounters, rows) EXCEPT !.rows = Cardinality(rows)]

\* A final report that keeps the counters of the workers.
FinishWithRunningCounters ==
  /\ main = "drain" /\ resultsClosed /\ queued = {}
  /\ outcome' = Resolved(RowsOf(found, collected), strategy)
  /\ progress' = [status |-> "COMPLETED", processed |-> processed, counters |-> counters]
  /\ main' = "returned"
  /\ UNCHANGED <<input, cancelled, channels, workers, collected, counts>>

\* A caller that stops draining when its context is done.
FinishOnCancel ==
  /\ main = "drain" /\ (cancelled \/ (resultsClosed /\ queued = {}))
  /\ outcome' = Resolved(RowsOf(found, collected), strategy)
  /\ progress' = [status |-> "COMPLETED", processed |-> processed,
                  counters |-> FinalCounters(outcome')]
  /\ main' = "returned"
  /\ UNCHANGED <<input, cancelled, channels, workers, collected, counts>>

\* resultsChan is closed and empty: resolve the assignments, recompute the
\* counters, report COMPLETED (whether or not the context was done) and return.
Finish ==
  /\ main = "drain" /\ resultsClosed /\ queued = {}
  /\ outcome' = Resolved(RowsOf(found, collected), strategy)
  /\ progress' = [status |-> "COMPLETED", processed |-> processed,
                  counters |-> FinalCounters(outcome')]
  /\ main' = "returned"
  /\ UNCHANGED <<input, cancelled, channels, workers, collected, counts>>

Returned == main = "returned" /\ UNCHANGED vars

WorkerStep(w) ==
  \/ \E s \in Sources : Take(w, s)
  \/ Exit(w)
  \/ ScoreTask(w)
  \/ Send(w)
  \/ Count(w)
  \/ Report(w)

FeederStep == CloseTasks \/ CloseResults \/ \E s \in Sources : Feed(s)

MainStep == ReturnEarly \/ Launch \/ Finish \/ \E s \in Sources : Drain(s)

Next ==
  \/ Cancel
  \/ ReturnEarly
  \/ Launch
  \/ \E s \in Sources : Feed(s)
  \/ CloseTasks
  \/ CloseResults
  \/ \E w \in Workers, s \in Sources : Take(w, s)
  \/ \E w \in Workers : Exit(w) \/ ScoreTask(w) \/ Send(w) \/ Count(w) \/ Report(w)
  \/ \E s \in Sources : Drain(s)
  \/ Finish
  \/ Returned

\* The Go scheduler runs every goroutine that can run; nobody has to cancel.
Fairness ==
  /\ \A w \in Workers : WF_vars(WorkerStep(w))
  /\ WF_vars(FeederStep)
  /\ WF_vars(MainStep)

Spec == Init /\ [][Next]_vars /\ Fairness

----------------------------------------------------------------------------
(* Properties. *)

Counters == [auto : Nat, review : Nat, noMatch : Nat, rows : Nat]

Busy(w) == pc[w] \in {"score", "send"}
Held    == {job[w] : w \in {v \in Workers : Busy(v)}}

\* Every variable holds a value of its kind, and a worker holds a task exactly
\* while it works on one.
TypeOK ==
  /\ strategy \in StrategyInputs /\ batch \in Batches
  /\ found \in [Sources -> SUBSET Row]
  /\ \A s \in Sources : IsFiniteSet(found[s])
  /\ cancelled \in BOOLEAN /\ tasksClosed \in BOOLEAN /\ resultsClosed \in BOOLEAN
  /\ main \in {"start", "drain", "returned"}
  /\ unfed \subseteq batch /\ tasks \subseteq batch
  /\ queued \subseteq batch /\ collected \subseteq batch
  /\ pc \in [Workers -> {"off", "select", "score", "send", "count", "report", "exited"}]
  /\ job \in [Workers -> batch \cup {NoTask}]
  /\ \A w \in Workers : Busy(w) <=> job[w] # NoTask
  /\ cnt \in [Workers -> Nat]
  /\ processed \in Nat
  /\ counters \in Counters
  /\ progress \in [status : {"IDLE", "RUNNING", "COMPLETED"}, processed : Nat,
                   counters : Counters]

\* No task is lost between the goroutines and none is worked on twice: from
\* launch on, every source of the job is in exactly one place, the feeder, the
\* tasks channel, one worker, the results channel or the collected results.
EverySourceInOnePlace ==
  main # "start" /\ batch # {} /\ Dests # {} =>
    /\ batch = unfed \cup tasks \cup Held \cup queued \cup collected
    /\ unfed \cap tasks = {}
    /\ (unfed \cup tasks) \cap (Held \cup queued \cup collected) = {}
    /\ Held \cap (queued \cup collected) = {}
    /\ queued \cap collected = {}
    /\ \A v, w \in Workers : Busy(v) /\ Busy(w) /\ job[v] = job[w] => v = w

\* A job whose context stays alive returns only when it has every source's rows.
CompleteUnlessCancelled ==
  main = "returned" /\ Dests # {} /\ ~cancelled => collected = batch

\* The final report describes the rows that are returned, and its processed
\* count the sources they come from, also when the job was cut short: the last
\* worker's count is never behind what the caller has drained.
FinalReportMatchesOutcome ==
  progress.status = "COMPLETED" =>
    /\ progress.processed = Cardinality(collected)
    /\ progress.counters.rows = Cardinality(outcome)
    /\ progress.counters.auto = Cardinality({r \in outcome : r.status = "AUTO_MATCHED"})
    /\ progress.counters.auto + progress.counters.review + progress.counters.noMatch
         = Cardinality(outcome)

\* handlers.go: "A completed run processed every source by definition".  It does not
\* hold: a job whose context is done reports COMPLETED too.
CompletedProcessedAll ==
  progress.status = "COMPLETED" => progress.processed = Cardinality(batch)

\* The COMPLETED report is the last thing onProgress hears from a job; no
\* worker's RUNNING report can come after it.
NothingAfterFinalReport ==
  [][progress.status = "COMPLETED" => UNCHANGED progress]_vars

\* ExecuteJob returns, cancelled or not: neither the feeder nor a worker is left
\* blocked on a channel that nobody reads.
JobReturns == <>(main = "returned")

\* The pool implements the job it is used as.
Contract == INSTANCE JobContract WITH
  decided  <- queued \cup collected,
  returned <- (main = "returned"),
  outcome  <- outcome

ImplementsContract == Contract!JobSpec
=============================================================================
