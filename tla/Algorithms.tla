------------------------------ MODULE Algorithms ------------------------------
(***************************************************************************)
(* The parts of the program that compute an answer and keep no state: each *)
(* behaviour takes one problem, and the properties compare the code's      *)
(* answer with what the caller is promised.                                *)
(***************************************************************************)
EXTENDS ResultPage, Ingest, Blocking, CalibrationFit

CONSTANTS
  PageProblems,         \* rows and a request for a page of them, by store
  JobProblems,          \* jobs and a request for a page of them, by store
  IngestProblems,       \* two sources to make a batch of, and the row limit
  CandidateProblems,    \* a source, the destinations and how many to keep
  LabelProblems         \* sequences of labels

VARIABLE problem

Problem(kind, of) == [kind |-> kind, of |-> of]

Init == problem = Problem("none", << >>)

Pose(kind, problems) ==
  /\ problem.kind = "none"
  /\ \E p \in problems : problem' = Problem(kind, p)

Next ==
  \/ Pose("page", PageProblems)
  \/ Pose("jobs", JobProblems)
  \/ Pose("ingest", IngestProblems)
  \/ Pose("candidates", CandidateProblems)
  \/ Pose("labels", LabelProblems)

Spec == Init /\ [][Next]_problem

Is(kind) == problem.kind = kind

----------------------------------------------------------------------------
(* postgres_store.go:784-789: a page order that is not total "can cause a  *)
(* row to appear on two pages or on none".  A client that turns the pages  *)
(* sees every row that was counted, once.                                  *)
CountedRowsAreShown ==
  Is("page") => CountedRowsShown(problem.of.backend, problem.of.rows, problem.of.request)

\* In each store's own order, and as the code is: no row is ever on two places of the
\* pages, not even where a page ends early, and every row that was counted is on one
\* when all of them can be scanned.  Each tab's number is that of the rows it shows.
PagesPartitionRows ==
  Is("page") =>
    LET backend == problem.of.backend
        rows    == problem.of.rows
        request == problem.of.request
    IN /\ NoRowTwice(PagesOf(backend, rows, request))
       /\ AllCanBeScanned(backend, rows, request) => CountedRowsShown(backend, rows, request)
       /\ TabsAreCounted(backend, rows, request)

\* Whether the stores agree, of which postgres_store.go:576 says for GetResults: "both
\* backends must agree on order for the same underlying data".  The pages do not: ids
\* and names that a collation does not order by their bytes come in two orders, and
\* names that differ in their case only are ties in memory.
StoresShowTheSame ==
  Is("page") =>
    LET rows == problem.of.rows  request == problem.of.request IN
    Unreadable(rows) = {} /\ (request.rank1Only => \A i \in DOMAIN rows : rows[i].rank > 0) =>
      HandleGetResults("memory", rows, request) = HandleGetResults("postgres", rows, request)

\* postgres_store.go:1193: without a tie-break "a job can appear on two pages" or on
\* none.  The pages show every job; in memory, where ties come in any order, when
\* no two jobs started at the same time.
JobPagesPartitionJobs ==
  Is("jobs") =>
    LET jobs == problem.of.jobs IN
    problem.of.backend = "postgres" \/ (\A j, k \in jobs : j.started = k.started => j = k) =>
      JobPagesShowAll(problem.of.backend, jobs, problem.of.limit)

\* handlers.go:693-701: "pages a connector to exhaustion".  Sources that lost
\* nothing while they were read make a batch with all of their rows up to the
\* limit, in order, and whoever is left out is reported; a request that fails, or
\* whose second source does, makes no batch.
IngestReadsInFull ==
  Is("ingest") =>
    LET request == problem.of.request  max == MaxIngestRecords(problem.of.env) IN
    AnsweredInFull(request, max,
      IF problem.of.handle = "upload" THEN HandleUploadFile(request, max)
      ELSE HandleConnectorIngest(request, max))

\* blocking.go: "bounded top-K selection".  Nobody outside the candidates was hit
\* more often than one of them, and a shared key that is indexed is enough to be
\* a candidate unless k others did as well.
CandidatesAreTheBest ==
  Is("candidates") =>
    BestOf(problem.of.src, problem.of.dests, problem.of.k,
           QueryCandidates(problem.of.src, problem.of.dests, problem.of.k))

\* calibration.go: "Pool Adjacent Violators".  What is installed is the isotonic
\* regression of the labels that were not held out.
IsotonicFitIsRegression ==
  Is("labels") => IsotonicIsRegression(problem.of)

\* calibration.go:226: "fits a Platt scaling model using Newton-Raphson to maximize
\* likelihood".  The fit moves from where it starts when there is anything to learn.
PlattFitLearns ==
  Is("labels") => PlattLearns(problem.of)
=============================================================================
