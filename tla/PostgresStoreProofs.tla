------------------------- MODULE PostgresStoreProofs -------------------------
(***************************************************************************)
(* What is stored of a batch, for any number of uploads, runs and faults.  *)
(* The invariants speak of what a transaction has seen when it began and   *)
(* of what was committed since; only commits change the tables.            *)
(***************************************************************************)
EXTENDS PostgresStore, TLAPS

(***************************************************************************)
(* Types.                                                                  *)
(***************************************************************************)

LEMMA InitType == Init => TypeOK
<1>. SUFFICES ASSUME Init PROVE TypeOK
  OBVIOUS
<1>. USE DEF Init
<1>1. job \in [status : Statuses, totals : Uploads \cup {NoUpload}, by : Runs \cup {NoRun}]
  BY DEF NoJob, Statuses
<1>2. NotRead \in Read
  BY DEF NotRead, Read
<1>3. latest \in [by : Runs \cup {NoRun}, rows : SUBSET RowIds]
  BY DEF NoSave
<1>4. pc \in [Runs -> Stages]
  BY DEF Stages
<1>. QED BY <1>1, <1>2, <1>3, <1>4 DEF TypeOK

\* Reporting progress keeps the types, the totals, and names a run that exists.
LEMMA ReportType ==
  ASSUME TypeOK, NEW r \in Runs, NEW st \in {"RUNNING", "COMPLETED", "FAILED"},
         UpdateProgress(r, st)
  PROVE  /\ job' \in [status : Statuses, totals : Uploads \cup {NoUpload}, by : Runs \cup {NoRun}]
         /\ faults' \in Nat /\ excused' \in BOOLEAN
         /\ job'.totals = job.totals
         /\ \/ excused' = FALSE /\ job'.by = r /\ job'.status = st
            \/ excused' = TRUE /\ job' = job
<1>1. CASE WriteProgress(r, st)
  BY <1>1 DEF TypeOK, WriteProgress, Statuses
<1>2. CASE LoseProgress
  <2>1. faults' \in Nat /\ excused' = TRUE /\ job' = job
    BY <1>2 DEF TypeOK, LoseProgress
  <2>. QED BY <2>1 DEF TypeOK
<1>. QED BY <1>1, <1>2 DEF UpdateProgress

\* What a run has read of the records, also when it is only half of them.
LEMMA ReadType ==
  /\ NotRead \in Read
  /\ \A x, y \in Read : /\ [sources |-> x.sources, destinations |-> NoUpload] \in Read
                       /\ [sources |-> x.sources, destinations |-> y.destinations] \in Read
BY DEF Read, NotRead

\* Deciding a row changes nothing that the invariants ask of it.
LEMMA DecidedRow ==
  ASSUME NEW x \in Row
  PROVE  /\ AsDecided(x) \in Row /\ KeyOf(AsDecided(x)) = KeyOf(x)
         /\ AsDecided(x).id = x.id /\ AsDecided(x).by = x.by
         /\ AsDecided(x).scored = x.scored /\ AsDecided(x).shown = x.shown
         /\ AsDecided(x).disturbed = x.disturbed
BY DEF AsDecided, Row, KeyOf

\* The rows a run inserts carry what it has scored and read.
LEMMA InsertedRows ==
  ASSUME TypeOK, NEW r \in Runs
  PROVE  /\ Inserted(r) \subseteq Row
         /\ \A x \in Inserted(r) : /\ x.by = r /\ x.id \in rows[r]
                                   /\ x.scored = scored[r] /\ x.shown = shown[r]
                                   /\ x.disturbed = (r \in disturbed)
         /\ \A id \in rows[r] : \E x \in Inserted(r) : x.id = id
<1>. DEFINE row(id) == [id |-> id, by |-> r, decided |-> FALSE, scored |-> scored[r],
                        shown |-> shown[r], disturbed |-> r \in disturbed]
<1>1. \A id \in rows[r] : row(id) \in Row
  BY DEF TypeOK, Row
<1>2. Inserted(r) = {row(id) : id \in rows[r]}
  BY DEF Inserted
<1>3. \A id : /\ row(id).id = id /\ row(id).by = r /\ row(id).scored = scored[r]
              /\ row(id).shown = shown[r] /\ row(id).disturbed = (r \in disturbed)
  OBVIOUS
<1>. HIDE DEF row
<1>. QED BY <1>1, <1>2, <1>3

\* A key is an id and a writer.
LEMMA KeyType ==
  ASSUME TypeOK
  PROVE  {KeyOf(x) : x \in table} \in SUBSET ((RowIds \cup Links) \X (Runs \cup {Hand}))
BY DEF TypeOK, Row, KeyOf

\* Every step keeps the types.
LEMMA TypeStep == TypeOK /\ [Next]_vars => TypeOK'
<1>. SUFFICES ASSUME TypeOK, [Next]_vars PROVE TypeOK'
  OBVIOUS
<1>. USE DEF db, upload, locals, run, history, trouble
<1>1. ASSUME NEW u \in Uploads, BeginUpload(u) PROVE TypeOK'
  BY <1>1, UploadsAssumption DEF TypeOK, BeginUpload
<1>2. ASSUME NEW u \in Uploads, CommitUpload(u) PROVE TypeOK'
  BY <1>2 DEF TypeOK, CommitUpload, UpsertTotals, Read, Statuses
<1>3. ASSUME NEW u \in Uploads, RollbackUpload(u) PROVE TypeOK'
  BY <1>3 DEF TypeOK, RollbackUpload
<1>4. ASSUME NEW r \in Runs, NotFound(r) \/ ReadFails(r) PROVE TypeOK'
  BY <1>4, ReadType DEF TypeOK, NotFound, ReadFails, Return, Stages
<1>5. ASSUME NEW r \in Runs, ReadSources(r) \/ ReadDestinations(r) PROVE TypeOK'
  <2>1. records \in Read /\ scored[r] \in Read
    BY DEF TypeOK
  <2>2. /\ [sources |-> records.sources, destinations |-> NoUpload] \in Read
        /\ [sources |-> scored[r].sources, destinations |-> records.destinations] \in Read
    BY <2>1, ReadType
  <2>3. scored' \in [Runs -> Read] /\ pc' \in [Runs -> Stages]
    BY <1>5, <2>2 DEF TypeOK, ReadSources, ReadDestinations, Goto, Stages
  <2>. QED BY <1>5, <2>3 DEF TypeOK, ReadSources, ReadDestinations
<1>6. ASSUME NEW r \in Runs, ReportRunning(r) PROVE TypeOK'
  BY <1>6, ReportType DEF TypeOK, ReportRunning, Goto, Stages
<1>7. ASSUME NEW r \in Runs, Matched(r) PROVE TypeOK'
  <2>1. rows' \in [Runs -> SUBSET RowIds] /\ pc' \in [Runs -> Stages]
    BY <1>7, OutcomesAssumption DEF TypeOK, Matched, Goto, Stages
  <2>. QED BY <1>7, <2>1, ReportType DEF TypeOK, Matched
<1>8. ASSUME NEW r \in Runs, NothingToMatch(r) PROVE TypeOK'
  BY <1>8 DEF TypeOK, NothingToMatch, Goto, Stages
<1>9. ASSUME NEW r \in Runs, SnapshotSources(r) \/ SnapshotDestinations(r) \/ NoSnapshot(r)
      PROVE TypeOK'
  <2>1. records \in Read /\ shown[r] \in Read
    BY DEF TypeOK
  <2>2. /\ [sources |-> records.sources, destinations |-> NoUpload] \in Read
        /\ [sources |-> shown[r].sources, destinations |-> records.destinations] \in Read
        /\ NotRead \in Read
    BY <2>1, ReadType
  <2>3. shown' \in [Runs -> Read] /\ pc' \in [Runs -> Stages]
    BY <1>9, <2>2 DEF TypeOK, SnapshotSources, SnapshotDestinations, NoSnapshot, Goto, Stages
  <2>. QED BY <1>9, <2>3 DEF TypeOK, SnapshotSources, SnapshotDestinations, NoSnapshot
<1>10. ASSUME NEW r \in Runs, StartDelete(r) \/ FinishDelete(r) PROVE TypeOK'
  BY <1>10, KeyType DEF TypeOK, StartDelete, FinishDelete, Goto, Stages
<1>11. ASSUME NEW r \in Runs, CopyRows(r) \/ ShortCopy(r) \/ FailSave(r) PROVE TypeOK'
  BY <1>11 DEF TypeOK, CopyRows, ShortCopy, FailSave, Goto, Stages
<1>12. ASSUME NEW r \in Runs, CommitSave(r) PROVE TypeOK'
  BY <1>12, InsertedRows DEF TypeOK, CommitSave, Goto, Stages
<1>13. ASSUME NEW r \in Runs, ReportOutcome(r) PROVE TypeOK'
  <2>1. PICK from \in Stages : Return(r, from)
    BY <1>13 DEF ReportOutcome, Stages
  <2>2. /\ job' \in [status : Statuses, totals : Uploads \cup {NoUpload}, by : Runs \cup {NoRun}]
        /\ faults' \in Nat /\ excused' \in BOOLEAN
    BY <1>13, ReportType DEF ReportOutcome
  <2>3. /\ pc' \in [Runs -> Stages] /\ scored' \in [Runs -> Read] /\ shown' \in [Runs -> Read]
        /\ rows' \in [Runs -> SUBSET RowIds] /\ disturbed' \subseteq Runs
    BY <2>1, ReadType DEF TypeOK, Return, Stages
  <2>. QED BY <1>13, <2>1, <2>2, <2>3 DEF TypeOK, ReportOutcome, Return
<1>14. ASSUME NEW x \in RunRows, UpdateMatchStatus(x) PROVE TypeOK'
  BY <1>14, DecidedRow DEF TypeOK, UpdateMatchStatus, RunRows
<1>15. ASSUME NEW l \in Links, ManualLink(l) PROVE TypeOK'
  <2>1. HandMade(l) \in Row
    BY ReadType DEF HandMade, Row
  <2>. QED BY <1>15, <2>1 DEF TypeOK, ManualLink
<1>16. CASE Crash
  BY <1>16, ReadType DEF TypeOK, Crash, Stages
<1>17. CASE UNCHANGED vars
  BY <1>17 DEF TypeOK, vars
<1>. QED
  BY <1>1, <1>2, <1>3, <1>4, <1>5, <1>6, <1>7, <1>8, <1>9, <1>10, <1>11, <1>12,
     <1>13, <1>14, <1>15, <1>16, <1>17 DEF Next, UploadStep, RunStep

\* Every variable keeps holding a value of its type, in every behaviour of the store.
THEOREM TypeCorrect == Spec => []TypeOK
<1>. QED BY InitType, TypeStep, PTL DEF Spec

(***************************************************************************)
(* Saves.  A run's rows are in the table only once it has committed them,  *)
(* which it does once; and what a DELETE has seen is all there is as long  *)
(* as nobody else commits.                                                 *)
(***************************************************************************)

\* Rows are a reviewer's or a committed run's, and a run that has committed saves no more.
Owned == /\ \A x \in table : x.by \in saved \cup {Hand}
         /\ \A r \in saved : pc[r] \in {"saved", "ended"}

\* A save that no commit overlapped is about to delete every row of a run.
SeesAll == \A r \in Runs \ raced :
  pc[r] \in InsideSave => \A x \in RunRows : KeyOf(x) \in doomed[r]

SaveInv == Owned /\ SeesAll /\ LastSaveStands /\ UnracedTableIsLastRun

\* A step that is no step of a save, and touches no row.
Aside ==
  /\ UNCHANGED <<table, saved, latest, raced>>
  /\ \A r \in Runs : /\ pc'[r] \in InsideSave => pc[r] \in InsideSave /\ doomed'[r] = doomed[r]
                     /\ pc[r] \in {"saved", "ended"} => pc'[r] \in {"saved", "ended"}

\* All but five actions are such steps.
LEMMA StepsAside ==
  ASSUME TypeOK, [Next]_vars
  PROVE  \/ Aside
         \/ \E r \in Runs : StartDelete(r) \/ FinishDelete(r) \/ CommitSave(r)
         \/ \E x \in RunRows : UpdateMatchStatus(x)
         \/ \E l \in Links : ManualLink(l)
<1>. USE DEF db, upload, locals, run, history, trouble, Aside, InsideSave
<1>1. ASSUME NEW u \in Uploads, BeginUpload(u) \/ CommitUpload(u) \/ RollbackUpload(u) PROVE Aside
  BY <1>1 DEF BeginUpload, CommitUpload, RollbackUpload
<1>2. ASSUME NEW r \in Runs, NotFound(r) \/ ReadFails(r) \/ ReportOutcome(r) PROVE Aside
  BY <1>2 DEF TypeOK, NotFound, ReadFails, ReportOutcome, Return
<1>3. ASSUME NEW r \in Runs, ReadSources(r) \/ ReadDestinations(r) PROVE Aside
  BY <1>3 DEF TypeOK, ReadSources, ReadDestinations, Goto
<1>4. ASSUME NEW r \in Runs, ReportRunning(r) \/ Matched(r) \/ NothingToMatch(r) PROVE Aside
  BY <1>4 DEF TypeOK, ReportRunning, Matched, NothingToMatch, Goto
<1>5. ASSUME NEW r \in Runs, SnapshotSources(r) \/ SnapshotDestinations(r) \/ NoSnapshot(r) PROVE Aside
  BY <1>5 DEF TypeOK, SnapshotSources, SnapshotDestinations, NoSnapshot, Goto
<1>6. ASSUME NEW r \in Runs, CopyRows(r) \/ ShortCopy(r) \/ FailSave(r) PROVE Aside
  BY <1>6 DEF TypeOK, CopyRows, ShortCopy, FailSave, Goto
<1>7. CASE Crash
  BY <1>7 DEF TypeOK, Crash, UnderWay
<1>8. CASE UNCHANGED vars
  BY <1>8 DEF vars
<1>. QED BY <1>1, <1>2, <1>3, <1>4, <1>5, <1>6, <1>7, <1>8 DEF Next, UploadStep, RunStep

\* The reviewers' steps leave the runs' rows where they are.
LEMMA Reviewed ==
  ASSUME TypeOK, (\E x \in RunRows : UpdateMatchStatus(x)) \/ (\E l \in Links : ManualLink(l))
  PROVE  /\ UNCHANGED <<pc, doomed, saved, latest, raced>>
         /\ \A y \in table' : \/ y.by = Hand
                              \/ \E x \in RunRows : /\ KeyOf(y) = KeyOf(x)
                                                    /\ y.by = x.by /\ y.id = x.id
                                                    /\ y.scored = x.scored /\ y.shown = x.shown
                                                    /\ y.disturbed = x.disturbed
         /\ \A x \in RunRows : \E y \in RunRows' : y.by = x.by /\ y.id = x.id
<1>. USE DEF db, run, locals, history
<1>1. ASSUME NEW x \in RunRows, UpdateMatchStatus(x)
      PROVE  /\ UNCHANGED <<pc, doomed, saved, latest, raced>>
             /\ table' = (table \ {x}) \cup {AsDecided(x)}
  BY <1>1 DEF UpdateMatchStatus
<1>2. ASSUME NEW l \in Links, ManualLink(l)
      PROVE  /\ UNCHANGED <<pc, doomed, saved, latest, raced>>
             /\ table' = table \cup {HandMade(l)} /\ HandMade(l).by = Hand
  BY <1>2 DEF ManualLink, HandMade
<1>3. \A x \in RunRows : x \in Row
  BY DEF RunRows, TypeOK
<1>4. CASE \E x \in RunRows : UpdateMatchStatus(x)
  <2>1. PICK x \in RunRows : UpdateMatchStatus(x)
    BY <1>4
  <2>2. /\ KeyOf(AsDecided(x)) = KeyOf(x)
        /\ AsDecided(x).id = x.id /\ AsDecided(x).by = x.by
        /\ AsDecided(x).scored = x.scored /\ AsDecided(x).shown = x.shown
        /\ AsDecided(x).disturbed = x.disturbed
    BY <1>3, DecidedRow
  <2>. QED BY <1>1, <2>1, <2>2 DEF RunRows
<1>5. CASE \E l \in Links : ManualLink(l)
  BY <1>2, <1>5 DEF RunRows
<1>. QED BY <1>4, <1>5

\* Nothing has been saved at first.
LEMMA InitSaves == Init => SaveInv
BY DEF Init, SaveInv, Owned, SeesAll, LastSaveStands, UnracedTableIsLastRun, RunRows,
       InsideSave, NoSave

\* Every step of a save, and of those who change its rows, keeps the invariant.
LEMMA SaveStep == TypeOK /\ SaveInv /\ [Next]_vars => SaveInv'
<1>. SUFFICES ASSUME TypeOK, SaveInv, [Next]_vars PROVE SaveInv'
  OBVIOUS
<1>. USE DEF SaveInv
<1>1. CASE Aside
  <2>1. Owned' /\ SeesAll'
    BY <1>1 DEF Owned, SeesAll, Aside, RunRows, TypeOK
  <2>2. LastSaveStands' /\ UnracedTableIsLastRun'
    BY <1>1 DEF Aside, LastSaveStands, UnracedTableIsLastRun, RunRows
  <2>. QED BY <2>1, <2>2
<1>2. ASSUME NEW r \in Runs, StartDelete(r) \/ FinishDelete(r) PROVE SaveInv'
  <2>. USE DEF db, upload, locals, run, history, trouble
  <2>1. UNCHANGED <<table, saved, latest, raced>>
    BY <1>2 DEF StartDelete, FinishDelete
  <2>2. Owned'
    BY <1>2, <2>1 DEF Owned, TypeOK, StartDelete, FinishDelete, Goto
  <2>3. LastSaveStands' /\ UnracedTableIsLastRun'
    BY <2>1 DEF LastSaveStands, UnracedTableIsLastRun, RunRows
  <2>4. \A o \in Runs \ {r} : pc'[o] = pc[o] /\ doomed'[o] = doomed[o]
    BY <1>2 DEF StartDelete, FinishDelete, Goto, TypeOK
  <2>5. r \notin raced => \A x \in RunRows : KeyOf(x) \in doomed'[r]
    BY <1>2 DEF StartDelete, FinishDelete, Goto, TypeOK, RunRows, SeesAll, InsideSave
  <2>6. SeesAll'
    BY <2>1, <2>4, <2>5 DEF SeesAll, RunRows, InsideSave
  <2>. QED BY <2>2, <2>3, <2>6
<1>3. ASSUME NEW r \in Runs, CommitSave(r) PROVE SaveInv'
  <2>1. /\ pc[r] = "commit" /\ pc' = [pc EXCEPT ![r] = "saved"]
        /\ saved' = saved \cup {r} /\ latest' = [by |-> r, rows |-> rows[r]]
        /\ raced' = (raced \cap {r}) \cup {o \in Runs \ {r} : pc[o] \in InsideSave}
        /\ table' = {x \in table : KeyOf(x) \notin doomed[r]} \cup Inserted(r)
    BY <1>3 DEF CommitSave, Goto
  <2>2. r \notin saved /\ r # Hand
    BY <2>1, NamesAssumption DEF Owned
  <2>3. Owned'
    BY <2>1, InsertedRows DEF Owned, TypeOK
  <2>4. SeesAll'
    BY <2>1 DEF SeesAll, TypeOK, InsideSave
  <2>5. \A x \in table : x.by # r
    BY <2>2 DEF Owned
  <2>6. \A x \in RunRows' : x.by = r <=> x \in Inserted(r)
    BY <2>1, <2>5, InsertedRows DEF RunRows
  <2>7. Inserted(r) \subseteq RunRows'
    BY <2>1, <2>2, InsertedRows DEF RunRows
  <2>8. latest'.rows = {x.id : x \in Inserted(r)}
    BY <2>1, InsertedRows
  <2>9. {y \in RunRows' : y.by = r} = Inserted(r)
    BY <2>6, <2>7
  <2>10. LastSaveStands'
    BY <2>1, <2>8, <2>9 DEF LastSaveStands
  <2>11. r \notin raced => \A x \in RunRows' : x \in Inserted(r)
    BY <2>1 DEF SeesAll, RunRows, InsideSave
  <2>12. UnracedTableIsLastRun'
    BY <2>1, <2>6, <2>11 DEF UnracedTableIsLastRun
  <2>. QED BY <2>3, <2>4, <2>10, <2>12
<1>4. CASE (\E x \in RunRows : UpdateMatchStatus(x)) \/ (\E l \in Links : ManualLink(l))
  <2>1. UNCHANGED <<pc, doomed, saved, latest, raced>>
    BY <1>4, Reviewed
  <2>2. \A y \in RunRows' : \E x \in RunRows : KeyOf(y) = KeyOf(x) /\ y.by = x.by /\ y.id = x.id
    BY <1>4, Reviewed DEF RunRows
  <2>3. \A x \in RunRows : \E y \in RunRows' : y.by = x.by /\ y.id = x.id
    BY <1>4, Reviewed
  <2>4. Owned' /\ SeesAll'
    BY <2>1, <2>2 DEF Owned, SeesAll, RunRows, InsideSave
  <2>5. {x.id : x \in {y \in RunRows : y.by = latest.by}}
          = {x.id : x \in {y \in RunRows' : y.by = latest.by}}
    BY <2>2, <2>3
  <2>6. LastSaveStands' /\ UnracedTableIsLastRun'
    BY <2>1, <2>2, <2>5 DEF LastSaveStands, UnracedTableIsLastRun
  <2>. QED BY <2>4, <2>6
<1>. QED BY <1>1, <1>2, <1>3, <1>4, StepsAside

\* "DELETE + INSERT in ONE transaction" (SaveResultsCtx): the rows of the latest save are
\* all there until the next commit, for any number of runs, failures and reviewers.
THEOREM SavedRowsStand == Spec => []LastSaveStands
<1>1. TypeOK /\ SaveInv /\ [Next]_vars => (TypeOK /\ SaveInv)'
  BY TypeStep, SaveStep
<1>2. SaveInv => LastSaveStands
  BY DEF SaveInv
<1>. QED BY InitType, InitSaves, <1>1, <1>2, PTL DEF Spec

\* A save that no other save overlapped leaves no row of an earlier run behind.
THEOREM UnracedSaveReplaces == Spec => []UnracedTableIsLastRun
<1>1. TypeOK /\ SaveInv /\ [Next]_vars => (TypeOK /\ SaveInv)'
  BY TypeStep, SaveStep
<1>2. SaveInv => UnracedTableIsLastRun
  BY DEF SaveInv
<1>. QED BY InitType, InitSaves, <1>1, <1>2, PTL DEF Spec

(***************************************************************************)
(* Records.  A run that is under way has found an upload, and what it has  *)
(* read is what is stored unless an upload was committed since.            *)
(***************************************************************************)

\* What an undisturbed run has scored, and read again, by how far it is.
ReadSoFar(r) ==
  /\ pc[r] = "sources" => scored[r].sources = records.sources
  /\ pc[r] \notin {"idle", "sources", "ended"} => scored[r] = records
  /\ pc[r] = "snapshot" => shown[r].sources = records.sources
  /\ pc[r] \in InsideSave \cup {"begin"} => shown[r] \in {scored[r], NotRead}

ReadInv == /\ DatasetIsOneUpload
           /\ \A r \in Runs : UnderWay(r) => job.totals \in Uploads
           /\ job # NoJob => job.totals \in Uploads
           /\ \A r \in Runs \ disturbed : ReadSoFar(r)
           /\ SnapshotsAreOfScored

\* A step that leaves what is stored and what was read alone.
NoReading(r) ==
  /\ UNCHANGED <<records, table, disturbed>>
  /\ job'.totals = job.totals /\ (job' # NoJob => job # NoJob \/ UnderWay(r))
  /\ UNCHANGED <<scored, shown>>
  /\ \A o \in Runs \ {r} : pc'[o] = pc[o]
  /\ UnderWay(r) /\ UnderWay(r)'
  /\ pc[r] = "sources" <=> pc'[r] = "sources"
  /\ pc'[r] = "snapshot" => pc[r] = "snapshot"
  /\ pc'[r] \in InsideSave \cup {"begin"} => pc[r] \in InsideSave \cup {"begin"}

LEMMA NoReadingStep ==
  ASSUME TypeOK, ReadInv, NEW r \in Runs, NoReading(r)
  PROVE  ReadInv'
<1>1. DatasetIsOneUpload' /\ SnapshotsAreOfScored'
  BY DEF NoReading, ReadInv, DatasetIsOneUpload, SnapshotsAreOfScored, RunRows
<1>2. /\ \A o \in Runs : UnderWay(o)' => job'.totals \in Uploads
      /\ job' # NoJob => job'.totals \in Uploads
  BY DEF NoReading, ReadInv, UnderWay
<1>3. \A o \in Runs \ disturbed' : ReadSoFar(o)'
  <2>1. \A o \in Runs \ (disturbed \cup {r}) : ReadSoFar(o)'
    BY DEF NoReading, ReadInv, ReadSoFar
  <2>2. r \notin disturbed => ReadSoFar(r)'
    BY DEF NoReading, ReadInv, ReadSoFar, UnderWay
  <2>. QED BY <2>1, <2>2 DEF NoReading
<1>. QED BY <1>1, <1>2, <1>3 DEF ReadInv

\* Two readings of the same upload are the same.
LEMMA SameRead ==
  ASSUME NEW x \in Read, NEW y \in Read
  PROVE  /\ [sources |-> x.sources, destinations |-> y.destinations] \in Read
         /\ x.sources = y.sources => [sources |-> x.sources, destinations |-> y.destinations] = y
BY DEF Read

\* At first nothing is stored and nothing is read.
LEMMA InitRecords == Init => ReadInv
BY DEF Init, ReadInv, DatasetIsOneUpload, SnapshotsAreOfScored, ReadSoFar, UnderWay, NoJob,
       NotRead, RunRows, InsideSave

\* A run returns, and with it what it has read.
LEMMA ReturnStep ==
  ASSUME TypeOK, ReadInv, NEW r \in Runs, NEW from \in Stages, Return(r, from),
         UNCHANGED <<records, table>>, job'.totals = job.totals, job' = job \/ UnderWay(r)
  PROVE  ReadInv'
<1>. USE DEF Return
<1>1. DatasetIsOneUpload' /\ SnapshotsAreOfScored'
  BY DEF ReadInv, DatasetIsOneUpload, SnapshotsAreOfScored, RunRows
<1>2. /\ \A o \in Runs : UnderWay(o)' => job'.totals \in Uploads
      /\ job' # NoJob => job'.totals \in Uploads
  BY DEF ReadInv, UnderWay, TypeOK
<1>3. \A o \in Runs \ disturbed' : ReadSoFar(o)'
  <2>1. ReadSoFar(r)'
    BY DEF ReadSoFar, InsideSave, TypeOK
  <2>2. \A o \in Runs \ (disturbed \cup {r}) : ReadSoFar(o)'
    BY DEF ReadInv, ReadSoFar, TypeOK
  <2>. QED BY <2>1, <2>2
<1>. QED BY <1>1, <1>2, <1>3 DEF ReadInv

\* Every step keeps the records of one upload together.
LEMMA ReadStep == TypeOK /\ ReadInv /\ [Next]_vars => ReadInv'
<1>. SUFFICES ASSUME TypeOK, ReadInv, [Next]_vars PROVE ReadInv'
  OBVIOUS
<1>. USE DEF db, upload, locals, run, history, trouble
<1>1. ASSUME NEW u \in Uploads, BeginUpload(u) \/ RollbackUpload(u) PROVE ReadInv'
  BY <1>1 DEF BeginUpload, RollbackUpload, ReadInv, DatasetIsOneUpload, SnapshotsAreOfScored,
              ReadSoFar, UnderWay, RunRows
<1>2. ASSUME NEW u \in Uploads, CommitUpload(u) PROVE ReadInv'
  <2>1. DatasetIsOneUpload' /\ job'.totals = u
    BY <1>2 DEF CommitUpload, UpsertTotals, DatasetIsOneUpload
  <2>2. SnapshotsAreOfScored'
    BY <1>2 DEF CommitUpload, ReadInv, SnapshotsAreOfScored, RunRows
  <2>3. \A r \in Runs \ disturbed' : pc'[r] \in {"idle", "ended"}
    BY <1>2 DEF CommitUpload, UnderWay
  <2>4. \A r \in Runs \ disturbed' : ReadSoFar(r)'
    BY <2>3 DEF ReadSoFar, InsideSave
  <2>. QED BY <2>1, <2>2, <2>4 DEF ReadInv
<1>3. ASSUME NEW r \in Runs, NotFound(r) \/ ReadFails(r) PROVE ReadInv'
  BY <1>3, ReturnStep DEF NotFound, ReadFails, Stages
<1>4. ASSUME NEW r \in Runs, ReportOutcome(r) PROVE ReadInv'
  <2>1. PICK from \in {"saved", "failed"} : Return(r, from)
    BY <1>4 DEF ReportOutcome
  <2>2. job'.totals = job.totals /\ UNCHANGED <<records, table>>
    BY <1>4, ReportType DEF ReportOutcome
  <2>3. UnderWay(r)
    BY <2>1 DEF Return, UnderWay
  <2>. QED BY <2>1, <2>2, <2>3, ReturnStep DEF Stages
<1>5. ASSUME NEW r \in Runs, ReadSources(r) PROVE ReadInv'
  <2>1. /\ job # NoJob /\ pc' = [pc EXCEPT ![r] = "sources"]
        /\ scored' = [scored EXCEPT ![r] = [sources |-> records.sources, destinations |-> NoUpload]]
        /\ UNCHANGED <<job, records, table, shown, disturbed>>
    BY <1>5 DEF ReadSources, Goto
  <2>2. DatasetIsOneUpload' /\ SnapshotsAreOfScored'
    BY <2>1 DEF ReadInv, DatasetIsOneUpload, SnapshotsAreOfScored, RunRows
  <2>3. ReadSoFar(r)'
    BY <2>1 DEF ReadSoFar, InsideSave, TypeOK
  <2>4. \A o \in Runs \ (disturbed \cup {r}) : ReadSoFar(o)'
    BY <2>1 DEF ReadInv, ReadSoFar, TypeOK
  <2>. QED BY <2>1, <2>2, <2>3, <2>4 DEF ReadInv, UnderWay
<1>6. ASSUME NEW r \in Runs, ReadDestinations(r) PROVE ReadInv'
  <2>1. /\ pc[r] = "sources" /\ pc' = [pc EXCEPT ![r] = "matching"]
        /\ scored' = [scored EXCEPT ![r] = [sources |-> scored[r].sources,
                                            destinations |-> records.destinations]]
        /\ UNCHANGED <<job, records, table, shown, disturbed>>
    BY <1>6 DEF ReadDestinations, Goto
  <2>2. DatasetIsOneUpload' /\ SnapshotsAreOfScored'
    BY <2>1 DEF ReadInv, DatasetIsOneUpload, SnapshotsAreOfScored, RunRows
  <2>3. r \notin disturbed => scored'[r] = records
    BY <2>1, SameRead DEF ReadInv, ReadSoFar, TypeOK
  <2>4. r \notin disturbed => ReadSoFar(r)'
    BY <2>1, <2>3 DEF ReadSoFar, InsideSave, TypeOK
  <2>5. \A o \in Runs \ (disturbed \cup {r}) : ReadSoFar(o)'
    BY <2>1 DEF ReadInv, ReadSoFar, TypeOK
  <2>. QED BY <2>1, <2>2, <2>4, <2>5 DEF ReadInv, UnderWay
<1>7. ASSUME NEW r \in Runs, ReportRunning(r) \/ Matched(r) \/ NothingToMatch(r) PROVE ReadInv'
  <2>1. job'.totals = job.totals
    BY <1>7, ReportType DEF ReportRunning, Matched, NothingToMatch
  <2>2. NoReading(r)
    BY <1>7, <2>1 DEF ReportRunning, Matched, NothingToMatch, NoReading, Goto, UnderWay,
                      InsideSave, TypeOK
  <2>. QED BY <2>2, NoReadingStep
<1>8. ASSUME NEW r \in Runs, SnapshotSources(r) \/ SnapshotDestinations(r) \/ NoSnapshot(r)
      PROVE ReadInv'
  <2>1. /\ \A o \in Runs \ {r} : pc'[o] = pc[o] /\ shown'[o] = shown[o]
        /\ pc[r] \in {"matched", "snapshot"} /\ pc'[r] \in {"snapshot", "begin"}
        /\ UNCHANGED <<job, records, table, scored, disturbed>>
    BY <1>8 DEF SnapshotSources, SnapshotDestinations, NoSnapshot, Goto, TypeOK
  <2>2. DatasetIsOneUpload' /\ SnapshotsAreOfScored'
    BY <2>1 DEF ReadInv, DatasetIsOneUpload, SnapshotsAreOfScored, RunRows
  <2>3. ASSUME r \notin disturbed PROVE ReadSoFar(r)'
    <3>1. scored[r] = records
      BY <2>1, <2>3 DEF ReadInv, ReadSoFar
    <3>2. pc'[r] = "snapshot" => shown'[r].sources = records.sources
      BY <1>8 DEF SnapshotSources, SnapshotDestinations, NoSnapshot, Goto, TypeOK
    <3>3. pc'[r] = "begin" => shown'[r] \in {scored[r], NotRead}
      <4>1. CASE SnapshotDestinations(r)
        <5>1. /\ pc[r] = "snapshot" /\ shown[r] \in Read /\ records \in Read
              /\ shown'[r] = [sources |-> shown[r].sources, destinations |-> records.destinations]
          BY <4>1 DEF SnapshotDestinations, Goto, TypeOK
        <5>. QED BY <5>1, <3>1, <2>3, SameRead DEF ReadInv, ReadSoFar
      <4>2. CASE NoSnapshot(r)
        BY <4>2 DEF NoSnapshot, TypeOK
      <4>3. CASE SnapshotSources(r)
        BY <4>3 DEF SnapshotSources, Goto, TypeOK
      <4>. QED BY <1>8, <4>1, <4>2, <4>3
    <3>. QED BY <2>1, <3>1, <3>2, <3>3 DEF ReadSoFar, InsideSave
  <2>4. \A o \in Runs \ (disturbed \cup {r}) : ReadSoFar(o)'
    BY <2>1 DEF ReadInv, ReadSoFar
  <2>. QED BY <2>1, <2>2, <2>3, <2>4 DEF ReadInv, UnderWay
<1>9. ASSUME NEW r \in Runs,
             StartDelete(r) \/ FinishDelete(r) \/ CopyRows(r) \/ ShortCopy(r) \/ FailSave(r)
      PROVE ReadInv'
  <2>1. NoReading(r)
    BY <1>9 DEF StartDelete, FinishDelete, CopyRows, ShortCopy, FailSave, NoReading, Goto,
                UnderWay, InsideSave, TypeOK
  <2>. QED BY <2>1, NoReadingStep
<1>10. ASSUME NEW r \in Runs, CommitSave(r) PROVE ReadInv'
  <2>1. /\ pc[r] = "commit" /\ pc' = [pc EXCEPT ![r] = "saved"]
        /\ table' = {x \in table : KeyOf(x) \notin doomed[r]} \cup Inserted(r)
        /\ UNCHANGED <<job, records, scored, shown, disturbed>>
    BY <1>10 DEF CommitSave, Goto
  <2>2. DatasetIsOneUpload'
    BY <2>1 DEF ReadInv, DatasetIsOneUpload
  <2>3. r \notin disturbed => /\ scored[r].sources \in Uploads
                              /\ scored[r].destinations = scored[r].sources
                              /\ shown[r] \in {scored[r], NotRead}
    BY <2>1 DEF ReadInv, ReadSoFar, DatasetIsOneUpload, UnderWay, InsideSave
  <2>4. \A x \in RunRows' : x \in RunRows \/ x \in Inserted(r)
    BY <2>1 DEF RunRows
  <2>5. SnapshotsAreOfScored'
    <3>. SUFFICES ASSUME NEW x \in RunRows', ~x.disturbed
                  PROVE  /\ x.scored.sources \in Uploads /\ x.scored.destinations = x.scored.sources
                         /\ x.shown \in {x.scored, NotRead}
      BY DEF SnapshotsAreOfScored
    <3>1. CASE x \in RunRows
      BY <3>1 DEF ReadInv, SnapshotsAreOfScored
    <3>2. CASE x \in Inserted(r)
      <4>1. x.scored = scored[r] /\ x.shown = shown[r] /\ (x.disturbed = (r \in disturbed))
        BY <3>2, InsertedRows
      <4>2. r \notin disturbed
        BY <4>1, Zenon
      <4>. QED BY <2>3, <4>1, <4>2
    <3>. QED BY <2>4, <3>1, <3>2
  <2>6. \A o \in Runs \ disturbed : ReadSoFar(o)'
    BY <2>1 DEF ReadInv, ReadSoFar, InsideSave, TypeOK
  <2>. QED BY <2>1, <2>2, <2>5, <2>6 DEF ReadInv, UnderWay
<1>11. CASE (\E x \in RunRows : UpdateMatchStatus(x)) \/ (\E l \in Links : ManualLink(l))
  <2>1. UNCHANGED <<job, records, pc, scored, shown, disturbed>>
    BY <1>11 DEF UpdateMatchStatus, ManualLink
  <2>2. \A y \in RunRows' : \E x \in RunRows : /\ y.scored = x.scored /\ y.shown = x.shown
                                               /\ y.disturbed = x.disturbed
    BY <1>11, Reviewed DEF RunRows
  <2>3. SnapshotsAreOfScored'
    BY <2>2 DEF ReadInv, SnapshotsAreOfScored
  <2>. QED BY <2>1, <2>3 DEF ReadInv, DatasetIsOneUpload, ReadSoFar, UnderWay
<1>12. CASE Crash
  <2>1. \A r \in Runs : pc'[r] \in {"idle", "ended"}
    BY <1>12 DEF Crash, UnderWay, TypeOK
  <2>2. \A r \in Runs : ReadSoFar(r)' /\ ~UnderWay(r)'
    BY <2>1 DEF ReadSoFar, InsideSave, UnderWay
  <2>3. UNCHANGED <<job, records, table>>
    BY <1>12 DEF Crash
  <2>. QED BY <2>2, <2>3 DEF ReadInv, DatasetIsOneUpload, SnapshotsAreOfScored, RunRows
<1>13. CASE UNCHANGED vars
  BY <1>13 DEF vars, ReadInv, DatasetIsOneUpload, SnapshotsAreOfScored, ReadSoFar, UnderWay, RunRows
<1>. QED
  BY <1>1, <1>2, <1>3, <1>4, <1>5, <1>6, <1>7, <1>8, <1>9, <1>10, <1>11, <1>12, <1>13
     DEF Next, UploadStep, RunStep

\* SaveDataset "refreshes the counts": sources, destinations and totals are of one upload,
\* for any number of uploads, overlapping runs and failures.
THEOREM DatasetStaysWhole == Spec => []DatasetIsOneUpload
<1>1. TypeOK /\ ReadInv /\ [Next]_vars => (TypeOK /\ ReadInv)'
  BY TypeStep, ReadStep
<1>2. ReadInv => DatasetIsOneUpload
  BY DEF ReadInv
<1>. QED BY InitType, InitRecords, <1>1, <1>2, PTL DEF Spec

\* The rows of a run that no upload disturbed are of one upload, and so are their snapshots.
THEOREM UndisturbedRunsReadOneUpload == Spec => []SnapshotsAreOfScored
<1>1. TypeOK /\ ReadInv /\ [Next]_vars => (TypeOK /\ ReadInv)'
  BY TypeStep, ReadStep
<1>2. ReadInv => SnapshotsAreOfScored
  BY DEF ReadInv
<1>. QED BY InitType, InitRecords, <1>1, <1>2, PTL DEF Spec

(***************************************************************************)
(* The status.  It was written by a run that had something to report, and  *)
(* a run that has ended has reported how it ended, or a fault is on record.*)
(***************************************************************************)

StatusInv == /\ \A r \in Runs : pc[r] = "saved" => r \in saved
             /\ \A r \in Runs : job.by = r => pc[r] \notin {"idle", "sources", "matching"}
             /\ StatusTellsOutcome

\* A step that says nothing, and ends no run that has reported.
Silent == /\ job'.by = job.by /\ (job'.status = job.status \/ job.status = "none")
          /\ UNCHANGED excused /\ saved \subseteq saved'
          /\ \A r \in Runs : /\ pc'[r] = "saved" => r \in saved'
                             /\ job.by = r => pc'[r] \notin {"idle", "sources", "matching"}
                             /\ job.by = r => (UnderWay(r) <=> UnderWay(r)')

LEMMA SilentStep ==
  ASSUME TypeOK, StatusInv, Silent
  PROVE  StatusInv'
<1>1. /\ \A r \in Runs : pc'[r] = "saved" => r \in saved'
      /\ \A r \in Runs : job'.by = r => pc'[r] \notin {"idle", "sources", "matching"}
  BY DEF Silent
<1>2. StatusTellsOutcome'
  <2>1. job.by \in Runs \cup {NoRun}
    BY DEF TypeOK
  <2>. QED BY <2>1 DEF Silent, StatusInv, StatusTellsOutcome
<1>. QED BY <1>1, <1>2 DEF StatusInv

\* At first nobody has reported.
LEMMA InitStatus == Init => StatusInv
BY NamesAssumption DEF Init, StatusInv, StatusTellsOutcome, NoJob

\* Every step keeps the status true of the run that wrote it.
LEMMA StatusStep == TypeOK /\ StatusInv /\ [Next]_vars => StatusInv'
<1>. SUFFICES ASSUME TypeOK, StatusInv, [Next]_vars PROVE StatusInv'
  OBVIOUS
<1>. USE DEF db, upload, locals, run, history, trouble
<1>1. ASSUME NEW u \in Uploads, BeginUpload(u) \/ RollbackUpload(u) \/ CommitUpload(u)
      PROVE StatusInv'
  <2>1. Silent
    BY <1>1 DEF BeginUpload, RollbackUpload, CommitUpload, UpsertTotals, Silent, StatusInv, UnderWay
  <2>. QED BY <2>1, SilentStep
<1>2. ASSUME NEW r \in Runs, NotFound(r) \/ ReadFails(r) PROVE StatusInv'
  <2>1. Silent
    BY <1>2 DEF NotFound, ReadFails, Return, Silent, StatusInv, UnderWay, TypeOK
  <2>. QED BY <2>1, SilentStep
<1>3. ASSUME NEW r \in Runs,
             \/ ReadSources(r) \/ ReadDestinations(r) \/ NothingToMatch(r)
             \/ SnapshotSources(r) \/ SnapshotDestinations(r) \/ NoSnapshot(r)
             \/ StartDelete(r) \/ FinishDelete(r) \/ CopyRows(r) \/ ShortCopy(r) \/ FailSave(r)
      PROVE StatusInv'
  <2>1. /\ UNCHANGED <<job, excused, saved>>
        /\ pc' = [pc EXCEPT ![r] = pc'[r]]
        /\ pc'[r] \notin {"idle", "saved", "ended"}
        /\ pc[r] # "ended" /\ pc[r] # "saved"
        /\ pc'[r] \in {"sources", "matching"} => pc[r] \in {"idle", "sources"}
        /\ pc[r] = "idle" => pc'[r] = "sources"
    BY <1>3 DEF ReadSources, ReadDestinations, NothingToMatch, SnapshotSources,
                SnapshotDestinations, NoSnapshot, StartDelete, FinishDelete, CopyRows,
                ShortCopy, FailSave, Goto, InsideSave, TypeOK
  <2>2. Silent
    BY <2>1 DEF Silent, StatusInv, UnderWay, TypeOK
  <2>. QED BY <2>2, SilentStep
<1>4. ASSUME NEW r \in Runs, CommitSave(r) PROVE StatusInv'
  <2>1. Silent
    BY <1>4 DEF CommitSave, Goto, Silent, StatusInv, UnderWay, TypeOK
  <2>. QED BY <2>1, SilentStep
<1>5. ASSUME NEW r \in Runs, ReportRunning(r) \/ Matched(r) PROVE StatusInv'
  <2>1. \/ excused' = FALSE /\ job'.by = r
        \/ excused' = TRUE /\ job' = job
    BY <1>5, ReportType DEF ReportRunning, Matched
  <2>2. /\ pc' = [pc EXCEPT ![r] = pc'[r]] /\ pc'[r] \in {"running", "matched"}
        /\ saved' = saved
    BY <1>5 DEF ReportRunning, Matched, Goto, TypeOK
  <2>3. UnderWay(r)'
    BY <2>2 DEF UnderWay
  <2>4. StatusTellsOutcome'
    BY <2>1, <2>3 DEF StatusTellsOutcome
  <2>. QED BY <2>1, <2>2, <2>4 DEF StatusInv, TypeOK
<1>6. ASSUME NEW r \in Runs, ReportOutcome(r) PROVE StatusInv'
  <2>1. PICK from \in {"saved", "failed"} :
          /\ Return(r, from)
          /\ UpdateProgress(r, IF from = "saved" THEN "COMPLETED" ELSE "FAILED")
    BY <1>6 DEF ReportOutcome
  <2>. DEFINE st == IF from = "saved" THEN "COMPLETED" ELSE "FAILED"
  <2>2. \/ excused' = FALSE /\ job'.by = r /\ job'.status = st
        \/ excused' = TRUE /\ job' = job
    BY <2>1, ReportType
  <2>3. pc' = [pc EXCEPT ![r] = "ended"] /\ pc[r] = from /\ saved' = saved
    BY <2>1 DEF Return
  <2>4. from = "saved" => r \in saved'
    BY <2>3 DEF StatusInv
  <2>5. StatusTellsOutcome'
    BY <2>2, <2>4 DEF StatusTellsOutcome
  <2>. QED BY <2>2, <2>3, <2>5 DEF StatusInv, TypeOK
<1>7. CASE (\E x \in RunRows : UpdateMatchStatus(x)) \/ (\E l \in Links : ManualLink(l))
  <2>1. Silent
    BY <1>7 DEF UpdateMatchStatus, ManualLink, Silent, StatusInv, UnderWay
  <2>. QED BY <2>1, SilentStep
<1>8. CASE Crash
  <2>1. excused' = TRUE /\ UNCHANGED <<job, saved>>
    BY <1>8 DEF Crash
  <2>2. StatusTellsOutcome'
    BY <2>1 DEF StatusTellsOutcome
  <2>. QED BY <1>8, <2>1, <2>2 DEF Crash, StatusInv, UnderWay, TypeOK
<1>9. CASE UNCHANGED vars
  <2>1. Silent
    BY <1>9 DEF vars, Silent, StatusInv, UnderWay
  <2>. QED BY <2>1, SilentStep
<1>. QED
  BY <1>1, <1>2, <1>3, <1>4, <1>5, <1>6, <1>7, <1>8, <1>9 DEF Next, UploadStep, RunStep

\* runBatchAndPersist never leaves the word COMPLETED behind for rows that were not
\* committed, nor RUNNING, unless the server died or a write was lost since.
THEOREM StatusIsTruth == Spec => []StatusTellsOutcome
<1>1. TypeOK /\ StatusInv /\ [Next]_vars => (TypeOK /\ StatusInv)'
  BY TypeStep, StatusStep
<1>2. StatusInv => StatusTellsOutcome
  BY DEF StatusInv
<1>. QED BY InitType, InitStatus, <1>1, <1>2, PTL DEF Spec
=============================================================================
