# Entity matcher: TLA+ models, checks and proofs

This directory holds a formal model of the entity matcher: the Go backend that
reconciles *source* records with *destination* records (`src/backend`) and the
parts of the React page that take part in its protocols (`src/frontend`).
Every definition is translated from the code; `PROJECT.json` maps each one to
its lines, lists every run, the bug each property is known to catch
("mutants"), the hazards of the code, and the theorems.

* [The system](#the-system) - inventory of components
* [The modules](#the-modules) - what models what, and how
* [The runs](#the-runs) - what TLC checks, bounds, fairness
* [What the runs found](#what-the-runs-found)
* [The proofs](#the-proofs)
* [Abstractions, and what is not modelled](#abstractions-and-what-is-not-modelled)
* [Plan](#plan)
* [How to run it](#how-to-run-it)

## The system

A batch is uploaded, a run matches every source against the destinations that
blocking proposes for it, the rows are stored, reviewers confirm or reject
them, every decision is logged, and the log trains a calibrator for later
runs.  A scheduler starts runs too, webhooks tell others how they ended, and a
browser tab follows a run over server-sent events.

| Component | State | Operations | Talks to | What is hard | Correct when |
|---|---|---|---|---|---|
| **Match engine** `matcher/pipeline.go` | config, calibrator; per job: two channels, worker pool, atomic counters | `ExecuteJob` | `onProgress` callback, caller's context | workers race for tasks, report, and are cancelled | no source lost or repeated; it always returns; reports agree with rows |
| **Assignment** `matcher/assignment.go` | - | `ResolveAssignments` (`GREEDY_1_1`, `TOP_1`, `ALL_CANDIDATES`), `IsAutoMatchable` | called by the engine | rows arrive in any order; the decision is made twice, on different data | one to one; loser has a better winner; the documented rule; independent of arrival |
| **Blocking** `matcher/blocking.go` | inverted index, destinations | `NewBlockingIndex`, `GetCandidates` | engine | bounded top-K heap, ties | keeps the K best, deterministically |
| **Scoring and names** `matcher/scorer.go`, `normalizer.go`, `rtgs.go`, `thai_*.go`, `dates.go`, `corpus_stats.go`, `schema.go` | corpus statistics | score a pair | engine, dictionary | data, not control | - |
| **Run orchestration** `api/handlers.go` `runBatchAndPersist`, `HandleRunMatch` | none kept: two runs of one batch may overlap | match, save, report, count, notify | engine, store, webhooks | reports before the save; save may fail | the last word about a run is true |
| **Progress stream** `store/memory_store.go`, `HandleSSEProgress`, `useMatcherStore.js` | `progresses`, `sseClients`, channels; the tab's closure | register, replay, deliver, unregister, `DeleteBatch` | runs, browser | dropped frames, replay against subscription, closed channels, a terminal first frame | no frame missed unnoticed; no double close; a tab finishes and does not finish early |
| **Result store and review** `store/memory_store.go`, `HandleMatchAction`, `HandleManualLink` | `results`, `resultIndex` | save, look up, update, link | reviewers, runs, audit log | lookup, update and log are separate steps; a re-run replaces the rows between them | a decision changes its own row; it is logged |
| **Audit log and observations** `store/audit.go`, `store/calibration.go` | append-only log | `RecordAuditLog`, `computeCalibrationObservations` | review, calibration | the time is taken outside the lock | a pair's label is its latest decision |
| **Calibration** `matcher/calibration.go`, `HandleCalibrationFit` | stored models, one active; the server's calibrator | fit, save, install | audit log, engine | two fits at once; observations and statistics read apart | the installed model is the active one |
| **Scheduler** `matcher/scheduler.go` | config, cron entry, `runInProgress`, `lastBatchID` | `Start`, `Stop`, `UpdateConfig`, `SetLastBatchID`, `triggerReconcile`, `DispatchWebhook` | cron engine, runs, panel, webhook endpoint | firings pile up, entry replaced under a job, retries against deadlines | one scheduled run at a time, never stuck; bounded sending |
| **Dictionary** `matcher/dictionary.go`, `HandleDictionary`, `main.go` | live map, persisted entries, tombstones | set, delete, hydrate at boot | normalizer, store | live change before the write; boot order | what is live survives a restart |
| **Configuration and uploads** `HandleConfig`, `HandleUpload*`, `HandleConnectorIngest` | one `Config`, the datasets | read, merge, write back | engine, scheduler | read-modify-write without a lock | no update is lost |
| **Connectors** `matcher/connector.go`, `fetchAllRecords` | - | paged reads | external databases | page and limit boundaries | every row up to the limit, truncation reported |
| **PostgreSQL store** `store/postgres_store.go`, `schema.sql` | jobs, results, audit, dictionary, models | the same interface over SQL | everything above | transactions, crash inside a run, upserts | a batch's rows are all old or all new; no job runs for ever |
| **Result pages and job lists** `GetResultsPage`, `ListJobs` | - | filter, sort, page | UI | ties, last page | pages partition the sorted rows |
| **Single-page application** `useMatcherStore.js`, `components/` | one store of view state | requests, selection | all handlers | answers that arrive after the user moved on | what is shown belongs to the chosen batch |
| **LLM resolver**, **auth and middleware**, **boot, packaging, mock data** | - | one request each | handlers | - | - |

The hazards, each at its line with the properties that would catch it, are in
`PROJECT.json` under "hazards".  They come from seven places: the worker pool;
the stream of progress frames; the gap between a reviewer's lookup, update and
log entry; the scheduler with its time limits; settings that live both in the
database and in the process; statements of the PostgreSQL store that run without a
transaction, or in one that is read committed; and boundaries: the last page, a
table that ends at a limit, the K-th candidate, the last of two answers.

## The modules

    Decision                     what a row is and when a pair is linked
      |-- GreedyAssignment       the greedy loop itself
      |-- JobContract            what a job promises
      `-- MatchJob               the worker pool; implements JobContract
    ProgressStream               runs, frames, SSE channels, one browser tab
    ReviewStore                  rows, index, reviewers, audit log, labels
    Scheduler                    cron firings, guard, panel, webhooks
    Settings                     configuration, dictionary, calibrator, boots
    PostgresStore                uploads, runs and reviewers over SQL; crashes
    Browse                       a reviewer's tab between two batches
    Algorithms                   one problem per behaviour, posed to:
      |-- ResultPage             result pages, counts, export, job lists
      |-- Ingest                 connectors, paging, making a batch
      |-- Blocking               posting lists, hits, bounded top K
      `-- CalibrationFit         labels, holdout, isotonic and Platt fit
            Sorting              the sorts and filters that these four call

Each `MCx` module gives the constants of `x` their values for TLC; each
`xProofs` module holds the theorems about `x`.  Some definitions say in their
comment that they describe something the code does *not* do ("A send that does
not look at the buffer"): they are the plausible bugs against which each
property is tried, and no specification uses them.

**`Decision`** has no state.  `sc[s][d]` is the engine's score of a pair in
whole percent, below `ReviewThreshold` when it is no candidate.  `RowsFor` is
the body of a worker's task: rank, decide (`IsAutoMatchable` with the default
margin and floor of `NewMatchEngine`, a lower threshold for pairs in two
scripts, the calibrated score when calibration is on), keep the first
`MaxAlternatives`, or emit a `NO_MATCH` row.  `Resolved` is `ResolveAssignments` on a
*set* of rows for the three strategies.

**`GreedyAssignment`** runs `resolveGreedy1to1` as the code does, on sequences:
`Collect` appends one source's rows in arrival order, `Scan` builds
`rank1Items` and re-evaluates them, `Sort` is any stable-or-not rearrangement the
comparison allows, `Claim` walks it with `claimedDestinations`, `Combine`
returns.  `OutcomeIndependentOfArrival` says that the loop computes `Resolved`,
which is why `MatchJob` may use the set form and forget the order of rows.

**`MatchJob`** is `ExecuteJob`.  One action per step of a goroutine:

| code | action |
|---|---|
| early return; channel creation and worker start | `ReturnEarly`, `Launch` |
| feeder: `tasks <- t`, `close(tasks)`, `wg.Wait(); close(resultsChan)` | `Feed`, `CloseTasks`, `CloseResults` |
| worker: `select` on context and tasks; match; send; count; report | `Take`, `Exit`, `ScoreTask`, `Send`, `Count`, `Report` |
| caller: `for res := range resultsChan`; resolve, recount, final report | `Drain`, `Finish` |
| the caller's context | `Cancel` |

A channel is the set of what it holds, with its capacity; `found` fixes at
the start what each source's task yields, so a run of the model is a schedule.

**`JobContract`** is what a caller may rely on: sources are decided one at a
time, a job that is not cancelled decides them all, and the outcome is a
function of the decided ones.  `MatchJob` implements it with
`decided <- queued \cup collected`.

**`ProgressStream`** has runs (`phase`: `spawned`, `matching`, `matched`,
`saved`/`unsaved`, then an end), the store's `progress`, `sseClients` (`listed`)
and their channels, `HandleSSEProgress` per tab (`Register`, `Replay`, `Deliver`,
`Unregister`, `ChannelClosed`) and the tab's closure in `runMatching`
(`OnMessage` with its `firstMessage` and `staleStartedAt`).  A run's frames are
those `MatchJob` allows: RUNNING in any order, then COMPLETED; the report after the
save, or FAILED, follows.  `before` is history: the runs that had ended when
the tab clicked.

**`ReviewStore`** has `rows` and `index` (`results`, `resultIndex`), two handlers
whose calls of the store are separate steps (`LookUp`, `Update`/`Refuse`, `Stamp`,
`RecordAuditLog`; `ManualLink`), the runs that replace the rows (`SaveResults`), and the
label that `computeCalibrationObservations` reads out of the log
(`Observations`).  `epoch`, `shown` and `raced` are history.

**`Scheduler`** has the manager's configuration, cron entry, target and flag;
`Fire`, `Skip`, `Begin`, `NothingToCall`, `End` are one firing of `triggerReconcile`; `Saved`
and `NotSaved` end the run, also one that was posted; `Gate` and `Dispatch` are
`fireWebhooks` and `DispatchWebhook` on a clock of half seconds that is each
run's own.  The three attempts of a dispatch touch nothing that anyone else
sees, so `LoopEnds` computes all their outcomes and `Dispatch` takes one.
`UpdateConfig` writes the whole configuration the panel loaded, status included,
as `SchedulerPanel.jsx` does.  What becomes of a request is told apart from what the client
hears of it: the endpoint may accept it (`accepted`) and its answer come after the client's
timeout or get lost (`unheard`).  `lastEnded`, `panelSaw` (the run that had ended last when
the panel loaded) and `staleSave` are history; how a run ended is read from its
webhooks (`OutcomeOf`), which `runBatchAndPersist` starts for a saved run only.

**`Settings`** has three tables (`config`, `entries`, `active`: the model that
`calibration_models` calls active), what the process holds of them (`live` is
`globalDictionary`, `installed` the server's calibrator) and requests, each of
which is one handler in two steps:

| handler | first step | second step |
|---|---|---|
| `HandleConfig`, PUT; the uploads, with a mapping | `PutConfig`, `Upload`: read, merge, check | `WriteConfig`: the whole configuration |
| `HandleDictionary`, POST | `PostAlias`: live dictionary | `SaveEntry` or `SaveEntryFails`: the row |
| `HandleDictionary`, DELETE | `DeleteEntry` or `DeleteEntryFails`: the tombstone | `DeleteLive` |
| `HandleCalibrationFit` | `SaveModel` or `SaveModelFails` | `Install` |

`Restart(ok)` is `main` in a new process after a stop or a kill at any point: the
requests under way are gone, the seed of `NewCustomDictionary`, the rows and
the tombstones make the dictionary, in that order, and `ok` says which of the three
reads of the boot worked.  `told` is history: what operators were told of an alias,
`Unknown` after an error or when requests on it overlapped (`clashed`).

**`PostgresStore`** is one batch in the database, statement by statement.  A
statement sees what was committed when it began and waits for rows that an open
transaction has changed; the writes of a transaction appear when it commits.

| code | actions |
|---|---|
| `SaveDataset`: upsert of the totals, both tables refilled, commit | `BeginUpload`, `CommitUpload`, `RollbackUpload` |
| `GetDataset`: three statements, no transaction | `NotFound`, `ReadSources`, `ReadDestinations`, `ReadFails` |
| `ExecuteJob`, by its reports and its rows | `ReportRunning`, `Matched`, `NothingToMatch` |
| `SaveResultsCtx`: snapshots of the records; `DELETE`; `COPY`; commit | `SnapshotSources`, `SnapshotDestinations`, `NoSnapshot`; `StartDelete`, `FinishDelete`; `CopyRows`, `ShortCopy`, `FailSave`; `CommitSave` |
| `UpdateProgress`, whose errors are dropped | `WriteProgress`, `LoseProgress` inside `ReportRunning`, `Matched`, `ReportOutcome` |
| `UpdateMatchStatus`, `ManualLink` | the same names |
| the process dies | `Crash` |

`doomed` is what a save's `DELETE` saw when it began and then what it has locked;
`stranded` are runs that returned with their transaction open, as a short copy does.
`saved`, `latest`, `raced` (another save was committed during this one),
`disturbed` (an upload was committed during this run) and `excused` are history.

**`Browse`** is the tab of a reviewer who changes the batch (`SetBatchID`), decides the
row that is shown or links its source (`UpdateMatchAction`, `ManualLink`) and does not
wait.  A request is a record; `Serve` is the server's part, `Refresh` the fetch that
follows, `Answer` the head of an answer, where `fetchSeq` is compared, `Body` what
`await res.json()` brings later, `Status` an answer to `loadProgress`.

**`ResultPage`**: `Normalized` and `PageNumber` are the checks of a request, `MemoryPage` and
`PostgresPage` the two stores' filter, order and window, `HandleGetResults` what the client
gets; `HandleExportCSV` and `HandleListJobs` follow.  Each store has its own order
(`KeyOf`, `IdOf`, `Precedes`): in memory names and references are compared in lower
case and ids by their bytes, in PostgreSQL every text by the database's collation and times
to the microsecond.  A row of the database may hold a note that is NULL, which ends what is
read of a page (`Scanned`).

**`Ingest`**: a source is the sequence of tables that its calls find, since it can change
while it is paged.  `FetchRecords` is each connector's window, with what it
clamps, refuses or leaves out; `Round`, `FetchLoop`, `Probe` are `fetchAllRecords`;
`HandleConnectorIngest` and `HandleUploadFile` make the batch or say why not.

**`Blocking`**: `Posted` says which destinations a key leads to (a key that is too
frequent leads to none), `Hits` weighs the shared keys, `TopK` offers every hit
destination to a heap of K, `QueryCandidates` adds the two fallbacks.

**`CalibrationFit`**: `FitCalibrator` chooses by the number of labels; `FitIsotonic` pools
adjacent violators until none is left, on exact fractions; `FitPlatt` is the first
Newton step from `a = b = 0`, the only point where everything is rational, with
the line search's verdict; `HandleCalibrationFit` holds out every fifth label.

**`Algorithms`** poses these four one problem per behaviour and compares the answer with
a definition of what it should be that shares nothing with the code's way to it.

## The runs

| run | asks | bounds | distinct states |
|---|---|---|---|
| `greedy_assignment` | contested destinations, the decision rule, arrival order | 3 sources, 2 destinations, every table of scores over five levels (three for the third source), every arrival order | 411,750 |
| `match_job` | lost or repeated sources, termination, reports against rows, refinement | 2 workers, 3 sources or none, 2 tables, 3 strategies, a cancellation at any point | 61,266 |
| `progress_stream` | missed frames, double closes, the last word, a tab's end | 2 runs, 1 tab, 1 RUNNING report per run, channels of 2 | 540,446 |
| `review_store` | index, log and rows under overlap and re-run | 2 pairs, 2 handlers, 3 requests, 2 saves | 2,966,291 |
| `scheduler` | one run at a time, recovery, the status on show, bounded webhooks that repeat only what was unheard | 2 runs, one of them anomalous, 1 batch, 2 saves of the panel, answers at once, too late or lost | 602,206 |
| `algorithms` | pages and counts in either store's order, ingest, candidates, fits | pages: tables of at most 3 rows of 5 kinds, names that differ in their case; 3 jobs; ingest: tables of at most 6 rows, growing and shrinking, pages of 2; at most 4 destinations of 6 names; at most 5 labels of 3 scores | 72,456 |
| `postgres_store` | uploads, runs, reviewers, failures and a crash, statement by statement | 2 uploads, 2 runs, 4 row ids, 1 link, 1 reviewed row, 1 fault | 833,108 |
| `settings` | database, process and boot agree on what operators were told | 3 requests of any kind, 2 aliases, 2 names, 3 updates, 2 mappings, 1 restart | 128,549 |

Four more runs (`platt`, `unreadable_link`, `two_runs_in_table`,
`link_of_another_batch`) each check one statement that the repository makes and the
code breaks; see the next section.

**Why the bounds are enough to meet the cases.**
*greedy*: the levels 0, 85, 90, 94 and 100 are one representative of each side
of each threshold (review 70, cross-script 84, automatic 90, margin 5, floor 99);
three sources are needed for a destination contested by two while
the third's arrival reorders them.
*match_job*: with two workers and three tasks a worker can be anywhere while the
other finishes; `ReportEvery = 2` (100 in the code) makes both the periodic and
the last report happen; one table contests a destination and leaves a source
unmatched, the other gives all sources two candidates.
*progress_stream*: two runs are what overlap needs, and an earlier run for the tab
to confuse with its own; a channel of two is full, and drops, after two
frames, which takes eleven in the code.  One tab suffices for
every property: tabs share only `listed`, and no action of one reads another.
*review_store*: a race is two requests on one pair, or one request and a save; a
stale index needs a second save; the third request follows a race.
*scheduler*: the guard is about two firings, and a status can be stale once two runs have
ended one after the other; two saves can replace the entry under a run, and be of a panel
that knew of it or did not; latencies of 0 and 20 half seconds are an answer at once and one
after the client's timeout, in between only the times shift.
*settings*: two requests overlap, a third comes after the boot or meets both;
one alias is in the seed and one is not, since a removed default must stay away and an
added alias must stay; of the updates one is out of range and two are coherent with
the defaults but not with each other, so that a write of an unchecked mixture shows.
*algorithms*: three rows fill a page, part of a second, or leave the last page empty; of the
names two fall together in lower case, and the bytes, the lower case and the collation each
order them differently; of the times two fall into one microsecond;
six rows and pages of two make a table end before, at and after a page and the limits of
three and four; two kinds of keys at the frequency cap and four destinations for one or two
places make ties at the root of the heap; five labels, one of them held out, leave four to
pool more than once, and fewer than three get the Platt fit.
*postgres_store*: two runs race, and an upload replaces what another stored under
them; the outcomes `{a, b}` and `{a, c}` share one id, so that a copy waits, collides or
passes; one fault is a lost write, a transaction left open, or a crash, each
alone enough to break what is claimed.

`CHECK_DEADLOCK FALSE` is set where the system may stop: all runs of a batch over
and the tab closed, the bounded requests used up, the cron engine stopped, the one
problem answered.
`greedy_assignment` and `match_job` check deadlock, with an explicit `Returned`
stutter at the end.

**Fairness.**  Weak fairness per goroutine: the Go scheduler runs every
goroutine that can run.  In `MatchJob` that is each worker, the feeder and the caller;
nobody has to cancel.  In `ProgressStream` it is each run and each handler; a
browser opens the stream it asked for, but no one has to click, delete,
schedule or lose a connection.  In `Scheduler` it is each run and each
`fireWebhooks`: runs end because `JobReturns` holds, attempts because the client has a
timeout; neither the cron engine nor the panel has to do anything.
`ReviewStore` states no liveness.  In `Settings` a handler that has started goes on to
its second step unless the server is killed; no one has to ask for anything.
In `PostgresStore` it is each upload and each run that has begun: every context
has a deadline, so a statement returns and a transaction ends; nobody has to begin.

**What the less obvious properties mean.**
`FinalReportMatchesOutcome` also holds for a job cut short: `processedCount` is bumped
*after* the send, but the results channel closes only after all workers left.
`NothingMissed` depends on registering before the replay.
`LastWordIsTrue` does not promise that the last run to report is the last to
save (two runs may overlap and the code does not prevent it); it promises that
what is said of a run is true of that run.
`StatusIsOfLastRun` holds over any number of saves by a panel that knew of the last run, as
the panel sends the status back; it excuses only a save by a panel that had loaded before
that run ended, and only until the next run ends.  `StatusIsCurrent`, without that excuse,
does not hold.
`RepeatedOnlyUnheard` is not "each event once", which the code does not give: an endpoint that
accepts an event and answers after ten seconds, or whose answer is lost, is sent it again, so that it
can accept it three times.  What holds is that no request follows an acceptance that was heard.
`PromptTabFinishes` has to exclude a tab that lost a frame and a run that ended
without a RUNNING report: both leave a tab loading for ever.
`DecisionsAreLogged` has to allow an entry that names no pair: a row missing at
the lookup and back at the update is changed and logged without its records.
`UnracedLogTellsStory` holds for pairs without overlap only.
`ConfigIsCoherent` holds although updates are lost: every write is of a
configuration that was checked as a whole, or read from a coherent table.
`AcknowledgedSurvives` has to leave out an alias after a 500 (a POST whose row was not
saved stays live until the next boot) and after overlapping requests.
`LastSaveStands` and `UnracedTableIsLastRun` are the two halves of "atomic replacement": the
first holds for every save, the second only for one that no other overlapped.
`SnapshotsAreOfScored` has to leave out runs during which an upload was committed:
`GetDataset` is called twice and is no transaction.
`StatusTellsOutcome` excuses a crash and a lost write: nothing repairs a job that one of them
left RUNNING.
`RunsEnd` is about the transaction that a short copy leaves open: it locks its rows
until the process ends, and the next save gets past it only by its own time limit.
`IngestReadsInFull` claims nothing of a source that lost rows between two pages: pages by
offset cannot be complete then.
`PagesPartitionRows` speaks of each store in its own order and compares no store with the
other (`StoresShowTheSame` does, and does not hold).  That no row is on two places of the
pages it says of every table; that each counted row is on one, of requests whose rows can all be
scanned; see `unreadable_link`.
`EngineUsesActive` likewise leaves out fits that overlap: A saves, B saves,
B installs, A installs leaves B active and A in the engine until the next boot.

## What the runs found

Each of these is a run with `"expect": "violation"` and an entry under
"findings", which quotes the line that says otherwise.

* `platt` - the gradient that `fitPlatt` sums is that of the other sign of the loss:
  its Newton step leads uphill, the line search rejects it, and `a = b = 0` is what
  every fit returns.  Every score is then calibrated to a half.
* `unreadable_link` - a manual link's `decision_note` is NULL and is scanned into a
  string: the page ends at the link although the rows after it are counted, and the
  export answers 404.
* `two_runs_in_table` - two runs whose saves overlap leave the rows of both, so
  that a source has two first-ranked rows, when they chose different pairs.
* `link_of_another_batch` - an answer whose head passed the sequence check, or a link
  made before the switch, puts a row of the old batch beside the new list; a link made
  from it is of another source, since records are numbered alike in every batch.

Some statements that the code also breaks are kept in the modules as properties that no
run checks, each next to the weaker one that holds.  TLC refutes each when the module's
`.cfg` lists it under INVARIANT, or PROPERTY for an action property (the last one when the
`.cfg` says `MaxAlternativesPerSource = 1`):

* `CompletedProcessedAll` of `MatchJob` - a job whose context is done ends as
  COMPLETED with fewer sources processed, and the status handler overwrites the count.
* `StaleFrameIsOld` of `ProgressStream` - a run that ends before the tab's stream is
  registered is replayed as a terminal first frame, which the tab takes for an earlier
  run's: it ignores its own run's end and stays loading.
* `ReversalWins` of `ReviewStore` - two decisions about one pair can be stamped in the
  other order than they were applied; the label is then the reversed decision.
* `AnomalyIsSent` of `Scheduler` - the success event of a hanging endpoint uses up the 30
  seconds it shares with the anomaly event, of which no request is then made.
* `StatusIsCurrent` of `Scheduler` - a panel that had loaded before a run ended saves,
  and `UpdateConfig` takes the older status from it.
* `StoresShowTheSame` of `Algorithms` - "both backends must agree on order for the same underlying
  data", says `postgres_store.go:576` of another query; pages sorted by a text, or tied
  and so sorted by id, come in another order in each store.
* `PartialPutKeepsTheRest` of `Settings` - a PUT of one threshold writes back the whole
  configuration it read: over a change made since, or, after a read that failed, over
  everything with the defaults.
* `DecisionRuleHolds` of `GreedyAssignment` with `MaxAlternativesPerSource = 1` - the
  rank-2 row is not emitted, the second evaluation sees no runner-up, and a genuine tie is
  auto-matched although the README says ties go to review.

## The proofs

TLAPS proves these for every value of the constants that satisfies the
assumptions named in the modules; every leaf is checked.

| module | theorem | states |
|---|---|---|
| `GreedyAssignmentProofs` | `TypeCorrect`, `AssignmentIsOneToOne`, `DemotedOnlyForBetter` | `[]TypeOK`, `[]OneToOne`, `[]LoserHasBetterWinner` |
| `GreedyAssignmentProofs` | `MatchingIsDetermined`, `ArrivalOrderIsImmaterial` | the greedy pass over any ranking links the same rows; `[]OutcomeIndependentOfArrival` |
| `GreedyAssignmentProofs` | `DecisionRule` | `[]DecisionRuleHolds`, if `MaxAlternativesPerSource # 1` and the floor is not below an automatic threshold |
| `MatchJobProofs` | `ResolvedType` | every strategy returns rows, finitely many of finitely many |
| `MatchJobProofs` | `TypeCorrect`, `NoSourceLostOrRepeated`, `UncancelledIsComplete` | `[]TypeOK`, `[]EverySourceInOnePlace`, `[]CompleteUnlessCancelled` |
| `MatchJobProofs` | `SilenceAfterFinalReport` | `NothingAfterFinalReport`, an action property |
| `MatchJobProofs` | `FinalReportIsTrue` | `[]FinalReportMatchesOutcome` |
| `MatchJobProofs` | `PoolImplementsContract` | the pool's steps are steps of `JobContract` or stutter |
| `SchedulerProofs` | `OneRunAtATime`, `FlagIsNeverStuck` | `[]OneScheduledRun`, `[]FlagFollowsRun` |
| `SchedulerProofs` | `TypeCorrect`, `OnlyUnheardIsRepeated`, `WebhooksTakeNotLong`, `StatusStays` | `[]TypeOK`, `[]RepeatedOnlyUnheard`, `[]MailIsBounded`, `[]StatusIsOfLastRun` |
| `ProgressStreamProofs` | `TypeCorrect`, `ListedStaysOpen`, `CaughtUpHasNewest` | `[]TypeOK`, `[]ListedIsOpen`, `[]NothingMissed` |
| `ProgressStreamProofs` | `LastWordStands`, `OldEndStaysIgnored` | `[]LastWordIsTrue`, `[]OldEndIgnored` |
| `ReviewStoreProofs` | `TypeCorrect`, `IndexStaysCurrent`, `EveryDecisionIsLogged` | `[]TypeOK`, `[]IndexIsCurrent`, `[]DecisionsAreLogged` |
| `ReviewStoreProofs` | `OnlyAsked`, `UnracedStory` | `OnlyAskedRowsChange`, an action property; `[]UnracedLogTellsStory` |
| `PostgresStoreProofs` | `TypeCorrect`, `DatasetStaysWhole` | `[]TypeOK`, `[]DatasetIsOneUpload` |
| `PostgresStoreProofs` | `SavedRowsStand`, `UnracedSaveReplaces` | `[]LastSaveStands`, `[]UnracedTableIsLastRun` |
| `PostgresStoreProofs` | `UndisturbedRunsReadOneUpload`, `StatusIsTruth` | `[]SnapshotsAreOfScored`, `[]StatusTellsOutcome` |
| `SettingsProofs` | `TypeCorrect`, `ConfigStaysCoherent` | `[]TypeOK`, `[]ConfigIsCoherent` |
| `SettingsProofs` | `AcknowledgedIsKept`, `ActiveIsInstalled` | `[]AcknowledgedSurvives`, `[]EngineUsesActive` |
| `AlgorithmsProofs` | `BestCandidatesAreFound` | `[]CandidatesAreTheBest`, for every index over finitely many destinations |
| `AlgorithmsProofs` | `PagesArePartition` | `[]PagesPartitionRows`, in either store, for every table of rows with distinct ids whose pages `MaxResultsPage` does not cut off, every lower-casing of texts and every collation that keeps texts apart |
| `AlgorithmsProofs` | `JobPagesArePartition` | `[]JobPagesPartitionJobs`, for every finite set of jobs with distinct ids |
| `AlgorithmsProofs` | `IngestIsInFull` | `[]IngestReadsInFull`, for every request of a finite source, row limit and kind of connector |
| `AlgorithmsProofs` | `IsotonicFitsAreRegressions` | `[]IsotonicFitIsRegression`, for every sequence of labels with integer scores, however many it takes for an isotonic fit |

*Assumptions*: records are positive numbers in finite sets (their order is
the code's order of IDs), thresholds are percentages with a review threshold above zero,
inputs are tables of scores, workers are a finite non-empty set, `ReportEvery` is positive;
runs are finitely many; texts have a place in each order, and the collation gives no two of them the same
(PostgreSQL's default collations are deterministic), while lower case may;
no alias stands for `Absent`, updates are numbers for thresholds, and the default
mapping is a mapping; the names for "no run" and "no pair" name none, the ids of rows that
runs make and of links differ, as their prefixes do, and uploads are numbered from one;
a page of an ingest is no longer than a connector's limit (5,000 and 50,000 in the code).

*Greedy loop.*  One-to-one is not inductive: while the loop runs, the rows not
yet reached still say AUTO_MATCHED.  The invariant (`ClaimOK` in
`GreedyAssignmentProofs`) therefore says that among the rows already visited no
two AUTO_MATCHED ones share a destination and `claimed` holds exactly their
destinations, that the rows ahead still carry the status the rule gives them, and that a
demoted row found its destination taken by an earlier one, which the sort
puts at no lower score; `Rank1OK` and `ScanOK` say that there is one
rank-1 row per source.  `OutInv` carries the same walk to the outcome: what has arrived are
rows of `RowsFor`, what was scanned is in `rank1Items` or `others` once, up to its status, and after
the sort the order is strict, since sources differ; a visited row is then linked if
and only if it qualifies and no earlier one that is linked has its destination, which is what
`Resolved` asks of its matching, and only one set of rows answers to that (`MatchingIsDetermined`).
The decision rule needs both hypotheses: a pair at the floor with no runner-up is linked
whatever the threshold says, and with one alternative per source the second evaluation never
sees a runner-up (see above, `DecisionRuleHolds`).

*Worker pool.*  `IInv` is `TypeOK`, `EverySourceInOnePlace` and `Phases`, which
ties the goroutines together: tasks are closed only when nothing is
unfed, results only when every worker has left, and a worker leaves only
when the context is done or the tasks are closed and empty.  Completeness and
silence follow from `Phases` alone; the refinement needs `EverySourceInOnePlace` to know that
a sent source was not decided before.  The final report needs a count that holds at every
step: `CountInv` says that the processed sources and the workers between their send and their
count are together as many as the sources sent.

*Scheduler.*  The flag and the run that holds it are one fact in two places:
"at most one run is past the guard" and "the flag is set exactly while one is"
need each other.  `MailInv` bounds a dispatch: the first of the two uses at most the
context's time, the second only the delays between its attempts, and within a loop
(`SoundLoop`) every acceptance was unheard until one is heard, which ends the loop.
`StatusInv` carries the status: as long as no stale panel has saved, the manager's status is
that of the run that ended last, and a panel that knows of that run holds the same status, which is why its
save changes nothing.  That a run's end can be read from its webhooks later on needs
that one which has ended is past being saved (`EndedRun`).

*Progress stream.*  `HubInv` adds to `ListedIsOpen` that a tab which has not opened its stream has
no channel yet, so registering opens one that was never closed.  `CaughtUpInv` says
where the newest frame is while a tab has not shown it: last in its channel
(`NewestIsStored`).  `WordInv` needs that a RUNNING frame is of a run that is under way.
`OldEndInv` adds that runs which had ended stay ended, that what arrives in the channel is of
none of them, and that the replay is the first frame.

*Review store.*  The index is rebuilt with the rows and no other step moves a row, so
its invariant needs only the types; that decisions are logged also needs that what was
looked up is the row's own pair (`LookedAtItsPair`), and counts the entries still in a
handler's hands.  `StoryInv` ties the log to the row of a pair that has met no overlap: either its
latest entry says what the row says, or the one handler that changed the row still holds that entry
(`EntryNamesItsPair` keeps it to its pair), and the clock makes it the latest when it is written.

*PostgreSQL store.*  `SaveInv`: every row is of a committed save or made by hand (`Owned`),
and the `DELETE` of a save that no commit overlapped saw every row of a run (`SeesAll`);
this is what fails for a raced save.  `ReadInv`: what a run without a disturbance has
read so far is what is stored (`ReadSoFar`).  `StatusInv`: whoever wrote the status has
got as far as the report says.  Most actions touch none of this; `Aside`, `NoReading` and
`Silent` name what such a step leaves alone, so that each is one line of the proof.

*Settings.*  The three parts meet in no step and have an invariant each.
`CoherentInv` adds that whatever is about to be written is coherent.  `ModelInv` and `AliasInv`
rest on one fact about overlap: a request that has met no other is alone with its
alias, or its model, and what it has done so far determines where the second step
ends; `AliasInv` adds that until then the table still says what
operators know, which is what a kill between the steps needs.

*Algorithms.*  No induction theorem can be instantiated here, so `NatInd`, which takes a set, does
its work, and what a CHOOSE or a recursive function denotes is proved before it is used: `Rounds`
for the code's loops, `SumRecursion` for sums, `InOrderLists` and `ListsUnique` for sorts.  `HoldsTheBest` is the
invariant of the bounded heap: after n destinations it holds k of those that were hit, or all, and
none outside was hit more often; the replaced root is the worst (`RootIsWorst`).  Pages are cut out of one
list (`CutOut`); a place in it is on the page that its quotient names and on no other
(`PlacesOnPages`, `OnePageOnly`), and the list is the same on every request as the order is total
(`ListsUnique`).  The order is total in both stores for different reasons: ids are keys, and the
collation does not merge them; lower case does merge names, and the id decides then.  What a page loses
to a row that cannot be scanned is its end (`ScannedBegins`, `BeginsCut`), which takes rows from the
pages and puts none on two.  `ReadsOn` is the invariant of `fetchAllRecords`: what has been read is the beginning of the
table that the last call saw, as long as the tables of one source only grow.

*Isotonic fit.*  `Cumulated` counts matches and labels up to each score; this is a curve, and the
share of a block is the slope of the chord over it.  `FitIsotonic` keeps blocks that `Cover` the
curve: each is an `Arch`, a piece of the curve that lies nowhere below its chord.  Pooling two
blocks whose shares fall makes one arch of two (`ArchesJoin`).  A pass that pools nothing has met no
block that falls, and any other leaves a shorter list, so the passes end with rising shares
(`PassCovers`, `FitCovers`).  The curve is then nowhere below the line of any block
(`OverEveryLine`), so that no chord that ends with a block is steeper than it and none that begins with
it is less steep (`ChordsOfAnArch`); that is the closed form's maximum of minima (`MinMaxAt`).
Interpolating between shares that rise never swaps two scores (`CalibrateRises`).

The hypotheses on problems (`PageProblemsOver`, `JobProblemsOver`, `IngestProblemsOver`,
`CandidateProblemsOver`, `LabelProblems \subseteq Seq(Labels)`) say of what type a problem is, that ids are keys, and that a client does not ask for more than
`MaxResultsPage` pages; every problem of the run satisfies them.

**Only model-checked.**  Liveness (`JobReturns`, `PromptTabFinishes`, `SchedulerRecovers`,
`RunsEnd`) and the fairness part of the refinement, which need ENABLED.

## Abstractions, and what is not modelled

* Scores are whole percentages; the code has floats in [0, 1].  Properties
  compare scores only, so the levels stand for intervals; rounding is left out.
* `MatchJob` bumps the four counters for a whole task at once; the code bumps them row by row
  with atomics.  A RUNNING report may therefore show a task half counted in
  the code; no property depends on that.
* Tasks and results are sets: the order inside a channel decides only the
  arrival order, over which `GreedyAssignment` quantifies.
* A frame that the SSE handler writes reaches an open tab in the same step; a
  connection that breaks (`ConnectionLost`) closes the tab's side first.
* `DeleteBatch` is exported and tested but no handler calls it; it is modelled
  because it closes channels that handlers also close.
* `SaveFails` can happen with the database store only.
* Two calls of `time.Now()` differ (`clock`); ties would be decided by the
  order of the log.
* Manual links name records of the dataset; others are refused before any change.
* The cron engine and the webhook's endpoint are external: firings at any
  moment while an entry exists, any answer at any time.  Cron expressions are validated
  before `UpdateConfig`, so adding an entry does not fail.
* `Settings` has the PostgreSQL store's semantics (in memory nothing fails and a
  restart forgets everything).  A statement that fails may have taken effect, its
  answer lost after the commit.  `SaveModel` is one transaction; the unique index makes one of
  two that overlap fail, so they are one step each.  Reading observations and
  fitting change nothing and are left out; a model is named after its request.
  Four thresholds stand for all fields of the configuration: the ones that
  the constraints across fields speak of.  Rejected requests end at once.
* `PostgresStore` lets an `INSERT ... DO NOTHING` wait as long as any other statement, so
  some waits are longer than the server's.  At most `MaxFaults` writes are lost, copies
  cut short, or processes killed; at most one row is decided or linked by hand at a time.
  A row's id is that of its pair, since it is made of batch, source and destination.
* In `Browse` every batch has the same record numbers, as uploads give them, and a
  page is known by its batch.  Filters only start further fetches with a new number.
* Sort keys, scores and names are small numbers or model values in `Algorithms`.  A text to sort by is its
  place among all texts in byte order, with the places of its lower-case form and in the collation
  as constants (`Lowered`, `Collated`); a text to search in is the set of terms found in it.  Equal elements that the code's sort or heap leaves in any order are
  left so in the model (jobs in memory that started together); rows have a last
  key that is unique.
* Logs, messages, HTTP details, payload shapes, authentication and layout are left out.

**Seen while modelling, and no property's subject.**  For rank-1 rows only, the database
asks for `rank = 1` and the memory store leaves out `rank > 1`, so that NO_MATCH rows
(rank 0) are in one answer and not in the other.  A MongoDB document that cannot be decoded shortens
its page, and a short page ends `fetchAllRecords`.  An `order_by` that the request gives is
not checked to be total.  A table whose name begins with "select" is refused as a
query.  The column mapping of an ingest stays written when the reading then fails.  The COMPLETED
frame precedes the save: a tab that fetches at once is shown the rows of the run before.

**Not modelled at all**, and why: string similarity, romanization and dates are
computations over floats and text, taken here as an arbitrary table of scores; Newton
steps of Platt's fit after the first leave the rationals; Brier scores and the reliability
diagram are shown and not read back; the LLM resolver is one stateless request with a
fallback; authentication shares no state; `TestConnection`, `ListTables`, drivers, packaging and
generated data are input and output; the page's filters, lists, uploads and rendering
follow no protocol beyond the requests in `Browse`; `RegisterJob` and `SaveDataset` in memory
each replace one entry under one lock.

## Plan

The order put first what decides which records are linked, then how a run is
followed, reviewed and scheduled, then what is stored of it and shown.  All of it is done:
`Decision`, `GreedyAssignment`, `MatchJob` with `JobContract`, `ProgressStream`,
`ReviewStore`, `Scheduler`, `Settings`; then `PostgresStore`, `Algorithms` with its four parts,
`Browse`; proofs for every component that has a state of its own on the server.

What could follow: `PostgresStore` refined to an abstract store under the condition that saves do not
overlap; Platt's fit on intervals; a second tab in `Browse` together with `ReviewStore`.

## How to run it

    tlc -workers 2 -config MCMatchJob.cfg MCMatchJob
    tlapm MatchJobProofs.tla

Every passing run ends within four minutes on two cores.
