---------------------------- MODULE PostgresStore ----------------------------
(***************************************************************************)
(* One batch in the PostgreSQL store: the uploads that replace its         *)
(* records, the runs that read them, report progress and save their rows,  *)
(* and the reviewers who decide rows and link records by hand.             *)
(*                                                                         *)
(* Every statement is READ COMMITTED: it sees what was committed when it   *)
(* began, waits for a row another open transaction has changed, and goes   *)
(* on without the row if that transaction deleted it.  A transaction's     *)
(* writes are seen by nobody else before it commits.  A process that dies  *)
(* takes its open transactions with it.                                    *)
(***************************************************************************)
EXTENDS Naturals, FiniteSets

CONSTANTS
  Uploads,      \* calls of SaveDataset, numbered in the order in which they begin
  Runs,         \* calls of runBatchAndPersist
  RowIds,       \* ids a run can give its rows: batch, source and destination
  Outcomes,     \* the sets of row ids a run can end with
  Links,        \* ids of the rows that link two records by hand
  MaxFaults     \* bound on lost progress writes, short copies and crashes together

ASSUME IdsAssumption == RowIds \cap Links = {}
ASSUME OutcomesAssumption == Outcomes \subseteq SUBSET RowIds

Hand     == "hand"
NoUpload == 0
NoRun    == "none"
ASSUME UploadsAssumption == Uploads \subseteq Nat \ {NoUpload}
ASSUME NamesAssumption == NoRun \notin Runs /\ Hand \notin Runs

VARIABLES
  job,        \* the match_jobs row: status, totals and, for the properties, its writer
  records,    \* what match_sources and match_destinations were last filled by
  table,      \* match_results: rows with the id, their writer and whether decided
  holder,     \* the upload whose open transaction has changed the match_jobs row
  begun,      \* how many uploads have begun
  pc,         \* how far each run is
  scored,     \* the uploads a run's sources and destinations are from
  shown,      \* the uploads its snapshots are from
  rows,       \* the row ids it found
  doomed,     \* the committed rows its DELETE saw, and then the ones it locked
  stranded,   \* runs that left their transaction open
  saved,      \* runs whose rows were committed, for the properties
  latest,     \* the latest of them, and its row ids
  raced,      \* runs during whose save another one's was committed
  disturbed,  \* runs during which an upload was committed
  faults,     \* how many lost writes, short copies and crashes there were
  excused     \* whether the status may be old: a crash, or a lost write, since

db      == <<job, records, table>>
upload  == <<holder, begun>>
locals  == <<scored, shown, rows, doomed>>
run     == <<pc, locals, stranded>>
history == <<saved, latest, raced, disturbed>>
trouble == <<faults, excused>>
vars    == <<db, upload, run, history, trouble>>

NoJob  == [status |-> "none", totals |-> NoUpload, by |-> NoRun]
Read   == [sources : Uploads \cup {NoUpload}, destinations : Uploads \cup {NoUpload}]
NotRead == [sources |-> NoUpload, destinations |-> NoUpload]
Row    == [id : RowIds \cup Links, by : Runs \cup {Hand}, decided : BOOLEAN,
           scored : Read, shown : Read, disturbed : BOOLEAN]
HandMade(l) == [id |-> l, by |-> Hand, decided |-> TRUE,
                scored |-> NotRead, shown |-> NotRead, disturbed |-> FALSE]
KeyOf(x) == <<x.id, x.by>>

NoSave == [by |-> NoRun, rows |-> {}]

Init ==
  /\ job = NoJob
  /\ records = NotRead
  /\ table = {}
  /\ holder = NoUpload
  /\ begun = 0
  /\ pc = [r \in Runs |-> "idle"]
  /\ scored = [r \in Runs |-> NotRead]
  /\ shown = [r \in Runs |-> NotRead]
  /\ rows = [r \in Runs |-> {}]
  /\ doomed = [r \in Runs |-> {}]
  /\ stranded = {}
  /\ saved = {}
  /\ latest = NoSave
  /\ raced = {}
  /\ disturbed = {}
  /\ faults = 0
  /\ excused = FALSE

----------------------------------------------------------------------------
(* SaveDataset. *)

\* An upsert that leaves the row of an earlier upload as it is.
KeepTotals(u) ==
  [job EXCEPT !.status = IF @ = "none" THEN "IDLE" ELSE @,
              !.totals = IF @ = NoUpload THEN u ELSE @]

\* INSERT ... ON CONFLICT DO UPDATE of the totals.
UpsertTotals(u) ==
  [status |-> IF job.status = "none" THEN "IDLE" ELSE job.status,
   totals |-> u, by |-> job.by]

\* The upsert comes first and waits for another upload's: from here to the commit
\* the uploads of a batch come one after the other.
BeginUpload(u) ==
  /\ u = begun + 1 /\ holder = NoUpload
  /\ holder' = u
  /\ begun' = u
  /\ UNCHANGED <<db, run, history, trouble>>

UnderWay(r) == pc[r] \notin {"idle", "ended"}

\* runBatchAndPersist returns and its variables are gone; the locks and the rows of a
\* transaction that is still open are not.
Return(r, from) ==
  /\ pc[r] = from
  /\ pc' = [pc EXCEPT ![r] = "ended"]
  /\ scored' = [scored EXCEPT ![r] = NotRead]
  /\ shown' = [shown EXCEPT ![r] = NotRead]
  /\ rows' = [rows EXCEPT ![r] = IF r \in stranded THEN @ ELSE {}]
  /\ disturbed' = disturbed \ {r}
  /\ UNCHANGED <<doomed, stranded, saved, latest, raced>>

\* Both tables are emptied and filled, and the whole is committed.
CommitUpload(u) ==
  /\ holder = u
  /\ job' = UpsertTotals(u)
  /\ records' = [sources |-> u, destinations |-> u]
  /\ disturbed' = disturbed \cup {r \in Runs : UnderWay(r)}
  /\ holder' = NoUpload
  /\ UNCHANGED <<table, begun, run, saved, latest, raced, trouble>>

\* An error anywhere in it, or its 30 seconds are over: the rollback is keyed to
\* the named error.
RollbackUpload(u) ==
  /\ holder = u
  /\ holder' = NoUpload
  /\ UNCHANGED <<db, begun, run, history, trouble>>

----------------------------------------------------------------------------
(* UpdateProgress: an upsert of its own that leaves the totals alone. *)

\* It waits for an upload that holds the row.
WriteProgress(r, status) ==
  /\ holder = NoUpload
  /\ job' = [status |-> status, totals |-> job.totals, by |-> r]
  /\ excused' = FALSE
  /\ faults' = faults

\* An error, or five seconds of waiting, is dropped: "_, _ = s.pool.Exec".
LoseProgress ==
  /\ faults < MaxFaults
  /\ faults' = faults + 1
  /\ excused' = TRUE
  /\ job' = job

UpdateProgress(r, status) == WriteProgress(r, status) \/ LoseProgress

----------------------------------------------------------------------------
(* GetDataset, as runBatchAndPersist and SaveResultsCtx call it: three     *)
(* statements, and no transaction around them.                             *)

Goto(r, from, to) == pc[r] = from /\ pc' = [pc EXCEPT ![r] = to]

\* SELECT 1 FROM match_jobs; without the row the run ends with "not found".
NotFound(r) ==
  /\ job = NoJob
  /\ Return(r, "idle")
  /\ UNCHANGED <<db, upload, trouble>>

\* The row is there, and stays there; then the sources.
ReadSources(r) ==
  /\ job # NoJob
  /\ Goto(r, "idle", "sources")
  /\ scored' = [scored EXCEPT ![r] = [sources |-> records.sources, destinations |-> NoUpload]]
  /\ UNCHANGED <<db, upload, shown, rows, doomed, stranded, history, trouble>>

ReadDestinations(r) ==
  /\ Goto(r, "sources", "matching")
  /\ scored' = [scored EXCEPT ![r] =
                  [sources |-> scored[r].sources, destinations |-> records.destinations]]
  /\ UNCHANGED <<db, upload, shown, rows, doomed, stranded, history, trouble>>

\* A reading that goes on with what it has.
ReadOnAfterError(r) ==
  /\ Goto(r, "sources", "matching")
  /\ UNCHANGED <<db, upload, locals, stranded, history, trouble>>

\* An error in either query or in a row: "not found" rather than half a dataset.
ReadFails(r) ==
  /\ Return(r, "sources")
  /\ UNCHANGED <<db, upload, trouble>>

----------------------------------------------------------------------------
(* ExecuteJob, by what it reports and finds. *)

ReportRunning(r) ==
  /\ Goto(r, "matching", "running")
  /\ UpdateProgress(r, "RUNNING")
  /\ UNCHANGED <<records, table, upload, locals, stranded, history>>

\* The final report, before anything is saved.
Matched(r) ==
  /\ Goto(r, "running", "matched")
  /\ rows' \in {[rows EXCEPT ![r] = found] : found \in Outcomes}
  /\ UpdateProgress(r, "COMPLETED")
  /\ UNCHANGED <<records, table, upload, scored, shown, doomed, stranded, history>>

\* One of the two sides is empty: no row, and no report.
NothingToMatch(r) ==
  /\ Goto(r, "matching", "matched")
  /\ UNCHANGED <<db, upload, locals, stranded, history, trouble>>

----------------------------------------------------------------------------
(* SaveResultsCtx. *)

\* The records are read once more, for the snapshots; not for an empty outcome.
SnapshotSources(r) ==
  /\ rows[r] # {}
  /\ Goto(r, "matched", "snapshot")
  /\ shown' = [shown EXCEPT ![r] = [sources |-> records.sources, destinations |-> NoUpload]]
  /\ UNCHANGED <<db, upload, scored, rows, doomed, stranded, history, trouble>>

SnapshotDestinations(r) ==
  /\ Goto(r, "snapshot", "begin")
  /\ shown' = [shown EXCEPT ![r] =
                 [sources |-> shown[r].sources, destinations |-> records.destinations]]
  /\ UNCHANGED <<db, upload, scored, rows, doomed, stranded, history, trouble>>

\* A dataset that cannot be read is tolerated: the snapshots are null.
NoSnapshot(r) ==
  /\ \/ Goto(r, "snapshot", "begin")
     \/ Goto(r, "matched", "begin")
  /\ shown' = [shown EXCEPT ![r] = NotRead]
  /\ UNCHANGED <<db, upload, scored, rows, doomed, stranded, history, trouble>>

InsideSave == {"delete", "copy", "commit"}

\* Open transactions that have locked rows, and those that have inserted some too.
Locking(o)   == pc[o] \in {"copy", "commit"} \/ o \in stranded
Inserting(o) == pc[o] = "commit" \/ o \in stranded

\* A save of nothing that has nothing to delete.
DeleteUnlessEmpty(r) ==
  /\ Goto(r, "begin", "delete")
  /\ doomed' = [doomed EXCEPT ![r] = IF rows[r] = {} THEN {} ELSE {KeyOf(x) : x \in table}]
  /\ UNCHANGED <<db, upload, scored, shown, rows, stranded, history, trouble>>

\* Begin, the INSERT ... DO NOTHING of a match_jobs row that is there, and the
\* DELETE's snapshot: what is committed now.
StartDelete(r) ==
  /\ Goto(r, "begin", "delete")
  /\ doomed' = [doomed EXCEPT ![r] = {KeyOf(x) : x \in table}]
  /\ UNCHANGED <<db, upload, scored, shown, rows, stranded, history, trouble>>

DeleteWaits(r) == \E o \in Runs \ {r} : Locking(o) /\ doomed[o] \cap doomed[r] # {}

\* A DELETE that is a transaction of its own.
DeleteAtOnce(r) ==
  /\ ~DeleteWaits(r)
  /\ Goto(r, "delete", IF rows[r] = {} THEN "commit" ELSE "copy")
  /\ table' = {x \in table : KeyOf(x) \notin doomed[r]}
  /\ doomed' = [doomed EXCEPT ![r] = {}]
  /\ UNCHANGED <<job, records, upload, scored, shown, rows, stranded, history, trouble>>

\* The DELETE has its rows; those that another save has deleted are gone.
FinishDelete(r) ==
  /\ ~DeleteWaits(r)
  /\ Goto(r, "delete", IF rows[r] = {} THEN "commit" ELSE "copy")
  /\ doomed' = [doomed EXCEPT ![r] = @ \cap {KeyOf(x) : x \in table}]
  /\ UNCHANGED <<db, upload, scored, shown, rows, stranded, history, trouble>>

\* An id that another open transaction has inserted, or deleted.
CopyWaits(r) ==
  \E o \in Runs \ {r} :
    \/ Inserting(o) /\ rows[o] \cap rows[r] # {}
    \/ Locking(o) /\ \E k \in doomed[o] : k[1] \in rows[r]

\* An id that is there already: the primary key is the batch and the id.
Taken(r) == \E x \in table : KeyOf(x) \notin doomed[r] /\ x.id \in rows[r]

CopyRows(r) ==
  /\ ~CopyWaits(r) /\ ~Taken(r)
  /\ Goto(r, "copy", "commit")
  /\ UNCHANGED <<db, upload, locals, stranded, history, trouble>>

\* "CopyFrom inserted %d rows, expected %d" is returned without having been
\* assigned to the err that the deferred rollback looks at.
ShortCopy(r) ==
  /\ ~CopyWaits(r) /\ ~Taken(r)
  /\ Goto(r, "copy", "failed")
  /\ stranded' = stranded \cup {r}
  /\ faults < MaxFaults
  /\ faults' = faults + 1
  /\ UNCHANGED <<db, upload, scored, shown, rows, doomed, history, excused>>

\* An error before the tables are touched only: nothing bounds the waiting.
FailBeforeDelete(r) ==
  /\ Goto(r, "begin", "failed")
  /\ doomed' = [doomed EXCEPT ![r] = {}]
  /\ UNCHANGED <<db, upload, scored, shown, rows, stranded, history, trouble>>

\* The context is done, a duplicate key, or the time that resultsSaveTimeout
\* allows is over: rolled back.
FailSave(r) ==
  /\ pc[r] \in InsideSave \cup {"begin"}
  /\ pc' = [pc EXCEPT ![r] = "failed"]
  /\ doomed' = [doomed EXCEPT ![r] = {}]
  /\ UNCHANGED <<db, upload, scored, shown, rows, stranded, history, trouble>>

Inserted(r) == {[id |-> id, by |-> r, decided |-> FALSE, scored |-> scored[r],
                 shown |-> shown[r], disturbed |-> r \in disturbed] : id \in rows[r]}

CommitSave(r) ==
  /\ Goto(r, "commit", "saved")
  /\ table' = {x \in table : KeyOf(x) \notin doomed[r]} \cup Inserted(r)
  /\ doomed' = [doomed EXCEPT ![r] = {}]
  /\ saved' = saved \cup {r}
  /\ latest' = [by |-> r, rows |-> rows[r]]
  /\ raced' = (raced \cap {r}) \cup {o \in Runs \ {r} : pc[o] \in InsideSave}
  /\ UNCHANGED <<job, records, upload, scored, shown, rows, stranded, disturbed, trouble>>

----------------------------------------------------------------------------
(* The end of runBatchAndPersist. *)

\* A failed save that says no more than the report before it did.
ReportSavedOnly(r) ==
  /\ \/ Return(r, "saved") /\ UpdateProgress(r, "COMPLETED")
     \/ Return(r, "failed") /\ UNCHANGED <<job, trouble>>
  /\ UNCHANGED <<records, table, upload>>

ReportOutcome(r) ==
  /\ \/ Return(r, "saved") /\ UpdateProgress(r, "COMPLETED")
     \/ Return(r, "failed") /\ UpdateProgress(r, "FAILED")
  /\ UNCHANGED <<records, table, upload>>

----------------------------------------------------------------------------
(* The reviewers. *)

Locked(x) == \E o \in Runs : Locking(o) /\ KeyOf(x) \in doomed[o]

RunRows   == {x \in table : x.by # Hand}
Undecided == \A x \in table : ~x.decided   \* bound: one reviewed row in the table

\* match_status is set, and nothing else of the row.
AsDecided(x) == [id |-> x.id, by |-> x.by, decided |-> TRUE,
                 scored |-> x.scored, shown |-> x.shown, disturbed |-> x.disturbed]

\* UpdateMatchStatus; it waits for a save that has locked the row,
\* and then finds the row or answers "match record not found".
UpdateMatchStatus(x) ==
  /\ ~Locked(x) /\ Undecided
  /\ table' = (table \ {x}) \cup {AsDecided(x)}
  /\ UNCHANGED <<job, records, upload, run, history, trouble>>

\* ManualLink: the records are there, as they will be from the first upload on; the
\* INSERT waits for a save that has locked the id, and an id that is taken is an error.
ManualLink(l) ==
  /\ records # NotRead /\ Undecided /\ ~\E x \in table : x.id = l
  /\ table' = table \cup {HandMade(l)}
  /\ UNCHANGED <<job, records, upload, run, history, trouble>>

----------------------------------------------------------------------------
\* The server dies: its transactions are rolled back, its runs and its requests
\* are gone, and nothing marks their job.
Crash ==
  /\ faults < MaxFaults
  /\ faults' = faults + 1
  /\ holder' = NoUpload
  /\ pc' = [r \in Runs |-> IF UnderWay(r) THEN "ended" ELSE pc[r]]
  /\ scored' = [r \in Runs |-> NotRead]
  /\ shown' = [r \in Runs |-> NotRead]
  /\ rows' = [r \in Runs |-> {}]
  /\ doomed' = [r \in Runs |-> {}]
  /\ disturbed' = {}
  /\ stranded' = {}
  /\ excused' = TRUE
  /\ UNCHANGED <<db, begun, saved, latest, raced>>

UploadStep(u) == CommitUpload(u) \/ RollbackUpload(u)

RunStep(r) ==
  \/ ReadDestinations(r) \/ ReadFails(r)
  \/ ReportRunning(r) \/ Matched(r) \/ NothingToMatch(r)
  \/ SnapshotSources(r) \/ SnapshotDestinations(r) \/ NoSnapshot(r)
  \/ StartDelete(r) \/ FinishDelete(r) \/ CopyRows(r) \/ ShortCopy(r)
  \/ FailSave(r) \/ CommitSave(r) \/ ReportOutcome(r)

Next ==
  \/ \E u \in Uploads : BeginUpload(u) \/ UploadStep(u)
  \/ \E r \in Runs : NotFound(r) \/ ReadSources(r) \/ RunStep(r)
  \/ \E x \in RunRows : UpdateMatchStatus(x)
  \/ \E l \in Links : ManualLink(l)
  \/ Crash

\* A statement returns and a transaction ends: every context has a deadline.
Fairness ==
  /\ \A u \in Uploads : WF_vars(UploadStep(u))
  /\ \A r \in Runs : WF_vars(RunStep(r))

Spec == Init /\ [][Next]_vars /\ Fairness

----------------------------------------------------------------------------
Statuses == {"none", "IDLE", "RUNNING", "COMPLETED", "FAILED"}
Stages   == {"idle", "sources", "matching", "running", "matched", "snapshot",
             "begin", "delete", "copy", "commit", "saved", "failed", "ended"}

\* Every variable holds a value of its type.
TypeOK ==
  /\ job \in [status : Statuses, totals : Uploads \cup {NoUpload}, by : Runs \cup {NoRun}]
  /\ records \in Read
  /\ table \subseteq Row
  /\ holder \in Uploads \cup {NoUpload} /\ begun \in Nat
  /\ pc \in [Runs -> Stages]
  /\ scored \in [Runs -> Read] /\ shown \in [Runs -> Read]
  /\ rows \in [Runs -> SUBSET RowIds]
  /\ doomed \in [Runs -> SUBSET ((RowIds \cup Links) \X (Runs \cup {Hand}))]
  /\ stranded \subseteq Runs /\ saved \subseteq Runs
  /\ latest \in [by : Runs \cup {NoRun}, rows : SUBSET RowIds]
  /\ raced \subseteq Runs /\ disturbed \subseteq Runs
  /\ faults \in Nat /\ excused \in BOOLEAN

\* postgres_store.go:159-163: re-uploading "refreshes the counts".  What is stored of a
\* batch, its sources, its destinations and their totals, is of one upload, whichever
\* uploads failed, overlapped runs or met a progress update.
DatasetIsOneUpload ==
  /\ records.sources = job.totals
  /\ records.destinations = job.totals

\* "DELETE + INSERT in ONE transaction": the rows of the latest save are all there until
\* another save is committed, whatever failed, crashed or was decided since.
LastSaveStands ==
  latest.rows = {x.id : x \in {y \in RunRows : y.by = latest.by}}

\* A save that no other one overlapped replaces what was there: no row of an earlier run
\* is left beside its own, an empty outcome included.
UnracedTableIsLastRun ==
  latest.by \notin raced => \A x \in RunRows : x.by = latest.by

\* postgres_store_test.go:171: "Replace with new results - should succeed atomically".
\* Not so for two runs that save at the same time: see UnracedTableIsLastRun.
TableIsOneRun == \A x, y \in RunRows : x.by = y.by

\* The status that a run left behind is the truth about it: not RUNNING, and COMPLETED
\* only if its rows were committed.  A crash or a lost write are the only excuses.
StatusTellsOutcome ==
  ~excused /\ job.by # NoRun /\ ~UnderWay(job.by) =>
    \/ job.status = "FAILED"
    \/ job.status = "COMPLETED" /\ job.by \in saved

\* Rows are positional: a source or destination is found again by its number.  A run
\* during which no upload was committed scored both sides of one upload, never half of
\* one, and its snapshots are of the records it scored or missing.
SnapshotsAreOfScored ==
  \A x \in RunRows :
    ~x.disturbed =>
      /\ x.scored.sources \in Uploads /\ x.scored.destinations = x.scored.sources
      /\ x.shown \in {x.scored, NotRead}

\* Runs end: a transaction that was left open holds its rows for ever, and only its own
\* time budget gets the next save past it.
RunsEnd == <>[](\A r \in Runs : ~UnderWay(r))
=============================================================================
