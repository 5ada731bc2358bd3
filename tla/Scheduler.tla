----------------------------- MODULE Scheduler -----------------------------
(***************************************************************************)
(* When runs start and who is told of their end: the SchedulerManager with *)
(* its cron entry and its guard against overlapping runs, the settings     *)
(* panel that reads its configuration and writes it back, and the webhooks *)
(* that fireWebhooks and DispatchWebhook send for every run that was       *)
(* saved, a scheduled one or one started by POST /api/match/run.           *)
(*                                                                         *)
(* A run itself is MatchJob's and ProgressStream's: here it ends, saved or *)
(* not, anomalous or not.  Time matters in the webhooks only; each run's   *)
(* goroutine has its own, in half seconds since fireWebhooks began.        *)
(***************************************************************************)
EXTENDS Naturals, FiniteSets, FiniteSetsExt

CONSTANTS
  Runs,        \* runs, scheduled or posted
  NoRun,       \* no run
  Anomalous,   \* those whose results call for the event of an anomaly
  Batches,     \* batches that an upload makes the scheduler's target
  Settings,    \* configurations the panel may save: [enabled, url, onSuccess, onAnomaly]
  MaxSaves,    \* bound: how often the panel saves
  Latencies    \* half seconds an answer of the webhook's endpoint can take

ASSUME RunsAssumption == IsFiniteSet(Runs) /\ NoRun \notin Runs /\ MaxSaves \in Nat
ASSUME SettingsAssumption ==
  Settings \subseteq [enabled : BOOLEAN, url : BOOLEAN, onSuccess : BOOLEAN, onAnomaly : BOOLEAN]
ASSUME LatenciesAssumption == Latencies \subseteq Nat

VARIABLES
  config,         \* Settings and LastRunStatus
  entry,          \* a cron entry exists
  ticking,        \* the cron engine runs
  lastBatch,      \* lastBatchID, or NoBatch
  wired,          \* reconcileFunc is set
  runInProgress,  \* the flag
  pc,             \* how far a run is
  mail,           \* fireWebhooks, for each run
  panel,          \* the configuration that the panel holds
  panelSaves,     \* times it was saved
  lastEnded,      \* history: the scheduled run that ended last, or NoRun
  panelSaw,       \* history: the one that had ended last when the panel loaded
  staleSave       \* history: since it ended, a panel that had loaded before has saved

manager == <<config, entry, ticking, lastBatch, wired, runInProgress>>
desk    == <<panel, panelSaves>>
history == <<lastEnded, panelSaw, staleSave>>
vars    == <<manager, pc, mail, desk, history>>

NoBatch == "none"
NoStatus == ""
DefaultSettings == [enabled |-> FALSE, url |-> TRUE, onSuccess |-> TRUE, onAnomaly |-> TRUE]
WithStatus(s, status) == [settings |-> s, status |-> status]

Events == {"RECONCILIATION_COMPLETED", "ANOMALY_DETECTED"}
NoMail == [at |-> "off", anomalous |-> FALSE, onSuccess |-> FALSE, onAnomaly |-> FALSE,
           elapsed |-> 0, sent |-> {}, accepted |-> [e \in Events |-> 0],
           unheard |-> [e \in Events |-> 0]]

Init ==
  /\ config = WithStatus(DefaultSettings, NoStatus)
  /\ entry = FALSE /\ ticking = FALSE
  /\ lastBatch = NoBatch
  /\ wired = FALSE
  /\ runInProgress = FALSE
  /\ pc = [r \in Runs |-> "off"]
  /\ mail = [r \in Runs |-> NoMail]
  /\ panel = config /\ panelSaves = 0
  /\ lastEnded = NoRun /\ panelSaw = NoRun /\ staleSave = FALSE

----------------------------------------------------------------------------
(* The manager's configuration. *)

\* NewServer wires the manager to runBatchAndPersist.
SetReconcileFunc ==
  /\ ~wired
  /\ wired' = TRUE
  /\ UNCHANGED <<config, entry, ticking, lastBatch, runInProgress, pc, mail, desk, history>>

\* Every upload and every connector ingest ends with it.
SetLastBatchID(b) ==
  /\ lastBatch # b
  /\ lastBatch' = b
  /\ UNCHANGED <<config, entry, ticking, wired, runInProgress, pc, mail, desk, history>>

PanelLoads ==
  /\ <<panel, panelSaw>> # <<config, lastEnded>>
  /\ panel' = config /\ panelSaw' = lastEnded
  /\ UNCHANGED <<manager, pc, mail, panelSaves, lastEnded, staleSave>>

\* A panel that sends only the fields it lets the user change.
UpdateFields(s) ==
  /\ panelSaves < MaxSaves
  /\ panelSaves' = panelSaves + 1
  /\ config' = WithStatus(s, NoStatus)
  /\ panel' = config'
  /\ entry' = s.enabled
  /\ ticking' = (ticking \/ s.enabled)
  /\ staleSave' = (staleSave \/ panelSaw # lastEnded)
  /\ UNCHANGED <<lastBatch, wired, runInProgress, pc, mail, lastEnded, panelSaw>>

\* UpdateConfig removes the old entry and adds one if the schedule is enabled, with
\* what the panel loaded and the user changed: the status of the last run comes
\* back with the rest.  The panel is answered with what it sent, and so knows of no
\* run that it did not know of.
UpdateConfig(s) ==
  /\ panelSaves < MaxSaves
  /\ panelSaves' = panelSaves + 1
  /\ config' = WithStatus(s, panel.status)
  /\ panel' = config'
  /\ entry' = s.enabled
  /\ ticking' = (ticking \/ s.enabled)
  /\ staleSave' = (staleSave \/ panelSaw # lastEnded)
  /\ UNCHANGED <<lastBatch, wired, runInProgress, pc, mail, lastEnded, panelSaw>>

\* The server shuts down; runs under way are not waited for.
Stop ==
  /\ ticking
  /\ ticking' = FALSE
  /\ UNCHANGED <<config, entry, lastBatch, wired, runInProgress, pc, mail, desk, history>>

----------------------------------------------------------------------------
(* Runs. *)

Goto(r, from, to) == pc[r] = from /\ pc' = [pc EXCEPT ![r] = to]

\* The cron engine starts a goroutine of its own for each firing.
Fire(r) ==
  /\ entry /\ ticking
  /\ Goto(r, "off", "fired")
  /\ UNCHANGED <<manager, mail, desk, history>>

\* HandleRunMatch.
Post(r) ==
  /\ Goto(r, "off", "posted")
  /\ UNCHANGED <<manager, mail, desk, history>>

\* A guard that looks at the target only.
MayBeginAnyway == lastBatch # NoBatch
MayBegin == ~runInProgress /\ lastBatch # NoBatch

Skip(r) ==
  /\ ~MayBegin
  /\ Goto(r, "fired", "ended")
  /\ UNCHANGED <<manager, mail, desk, history>>

\* Flag, target and function are taken in one critical section.
Begin(r) ==
  /\ MayBegin
  /\ Goto(r, "fired", IF wired THEN "running" ELSE "unwired")
  /\ runInProgress' = TRUE
  /\ UNCHANGED <<config, entry, ticking, lastBatch, wired, mail, desk, history>>

\* A manager that gives up without clearing its flag.
GiveUpHolding(r) ==
  /\ Goto(r, "unwired", "ended")
  /\ UNCHANGED <<manager, mail, desk, history>>

NothingToCall(r) ==
  /\ Goto(r, "unwired", "ended")
  /\ runInProgress' = FALSE
  /\ UNCHANGED <<config, entry, ticking, lastBatch, wired, mail, desk, history>>

\* runBatchAndPersist saved its results and starts fireWebhooks.
Saved(r) ==
  /\ \/ Goto(r, "running", "saved") \/ Goto(r, "posted", "ended")
  /\ mail' = [mail EXCEPT ![r].at = "gate", ![r].anomalous = (r \in Anomalous)]
  /\ UNCHANGED <<manager, desk, history>>

\* It found no dataset or could not save: no webhook.
NotSaved(r) ==
  /\ \/ Goto(r, "running", "failed") \/ Goto(r, "posted", "ended")
  /\ UNCHANGED <<manager, mail, desk, history>>

\* A run that ends with the word the panel looks for.
EndAsSuccess(r) ==
  /\ pc[r] \in {"saved", "failed"}
  /\ config' = [config EXCEPT !.status = IF pc[r] = "saved" THEN "SUCCESS" ELSE "FAILED"]
  /\ lastEnded' = r /\ staleSave' = FALSE
  /\ runInProgress' = FALSE
  /\ pc' = [pc EXCEPT ![r] = "ended"]
  /\ UNCHANGED <<entry, ticking, lastBatch, wired, mail, desk, panelSaw>>

End(r) ==
  /\ pc[r] \in {"saved", "failed"}
  /\ config' = [config EXCEPT !.status = IF pc[r] = "saved" THEN "COMPLETED" ELSE "FAILED"]
  /\ lastEnded' = r /\ staleSave' = FALSE
  /\ runInProgress' = FALSE
  /\ pc' = [pc EXCEPT ![r] = "ended"]
  /\ UNCHANGED <<entry, ticking, lastBatch, wired, mail, desk, panelSaw>>

----------------------------------------------------------------------------
(* fireWebhooks: the event of success first, then that of an anomaly, both *)
(* under one context of 30 seconds.                                        *)

ContextEnd == 60      \* 30 s
MaxDuration == 60     \* 30 s, for each dispatch
ClientTimeout == 20   \* 10 s
Delay(n) == CASE n = 1 -> 1 [] n = 2 -> 2 [] OTHER -> 0   \* 500 ms, 1 s

MayDispatch(m, e) ==
  IF e = "RECONCILIATION_COMPLETED" THEN m.onSuccess ELSE m.onAnomaly /\ m.anomalous

\* Where fireWebhooks goes when an event is dealt with.
Onwards(m, e) ==
  IF e = "RECONCILIATION_COMPLETED" /\ MayDispatch(m, "ANOMALY_DETECTED")
  THEN "ANOMALY_DETECTED" ELSE "done"
Leave(m, e) == [m EXCEPT !.at = Onwards(m, e)]

\* The flags are read once, the URL now and again by each dispatch.
Gate(r) ==
  /\ mail[r].at = "gate"
  /\ LET s == config.settings
         m == [mail[r] EXCEPT !.onSuccess = s.onSuccess, !.onAnomaly = s.onAnomaly]
     IN mail' = [mail EXCEPT ![r] =
          IF ~s.url THEN [m EXCEPT !.at = "done"]
          ELSE IF m.onSuccess THEN [m EXCEPT !.at = "RECONCILIATION_COMPLETED"]
          ELSE Leave(m, "RECONCILIATION_COMPLETED")]
  /\ UNCHANGED <<manager, pc, desk, history>>

\* What becomes of a request at the endpoint: it is accepted, with 200 to 299, or it is
\* not, and the answer comes after some time or is lost with the connection.
Replies == [after : Latencies, ok : BOOLEAN, lost : BOOLEAN]

\* An attempt that only the client's timeout ends.
CutByClient(t, begun) == t + ClientTimeout

\* When an attempt that starts at t is cut off.
Cut(t, begun) == Min({t + ClientTimeout, ContextEnd, begun + MaxDuration})

\* An answer that comes later than that is not waited for: the endpoint may have
\* accepted what DispatchWebhook takes for a failure.
InTime(l, begun, reply) == l.elapsed + reply.after < Cut(l.elapsed, begun)
Heard(l, begun, reply)  == InTime(l, begun, reply) /\ ~reply.lost
Until(l, begun, reply)  ==
  IF InTime(l, begun, reply) THEN l.elapsed + reply.after ELSE Cut(l.elapsed, begun)

\* accepted counts at the endpoint; unheard counts those of them that came before any
\* whose answer was heard.
AtEndpoint(l, reply, heard) ==
  [l EXCEPT !.sent = TRUE,
            !.accepted = IF reply.ok THEN @ + 1 ELSE @,
            !.unheard = IF reply.ok /\ ~heard /\ l.accepted = @ THEN @ + 1 ELSE @]

\* A loop that goes on after an answer of 200 to 299.
TryAgainAnyway(l, begun, n, reply) ==
  IF l.elapsed >= ContextEnd THEN [l EXCEPT !.elapsed = @ + Delay(n)]
  ELSE [AtEndpoint(l, reply, Heard(l, begun, reply))
          EXCEPT !.elapsed = Until(l, begun, reply) + Delay(n)]

\* The n-th attempt of a dispatch: after the dispatch's deadline there is none, and
\* after the context's the client fails at once and sends nothing.  Only an answer of
\* 200 to 299 that is heard ends the loop.
Try(l, begun, n, reply) ==
  LET heard == Heard(l, begun, reply)
      made  == AtEndpoint(l, reply, heard)
      until == Until(l, begun, reply)
  IN IF l.returned \/ l.elapsed > begun + MaxDuration THEN [l EXCEPT !.returned = TRUE]
     ELSE IF l.elapsed >= ContextEnd THEN [l EXCEPT !.elapsed = @ + Delay(n)]
     ELSE IF heard /\ reply.ok THEN [made EXCEPT !.returned = TRUE, !.elapsed = until]
     ELSE [made EXCEPT !.elapsed = until + Delay(n)]

Tried(ls, begun, n) == {Try(l, begun, n, reply) : l \in ls, reply \in Replies}
LoopStart(begun) ==
  [elapsed |-> begun, sent |-> FALSE, accepted |-> 0, unheard |-> 0, returned |-> FALSE]

\* The ways the loop of three attempts can end that begins at a given time, over all
\* answers of the endpoint.
LoopEnds ==
  [begun \in 0 .. ContextEnd + MaxDuration |->
     Tried(Tried(Tried({LoopStart(begun)}, begun, 1), begun, 2), begun, 3)]

\* A dispatch of e that ended so.
After(m, e, l) == [m EXCEPT !.elapsed = l.elapsed, !.accepted[e] = l.accepted,
                            !.unheard[e] = l.unheard,
                            !.sent = IF l.sent THEN @ \cup {e} ELSE @]

\* DispatchWebhook: with no URL there is nothing to do.  Its attempts touch nothing
\* that others see, and are one step.
Dispatch(r, e) ==
  /\ mail[r].at = e
  /\ \/ /\ ~config.settings.url
        /\ mail' = [mail EXCEPT ![r] = Leave(@, e)]
     \/ /\ config.settings.url
        /\ \E l \in LoopEnds[mail[r].elapsed] :
             mail' = [mail EXCEPT ![r] = Leave(After(@, e, l), e)]
  /\ UNCHANGED <<manager, pc, desk, history>>

----------------------------------------------------------------------------

RunStep(r) ==
  \/ Skip(r)
  \/ Begin(r)
  \/ NothingToCall(r)
  \/ Saved(r)
  \/ NotSaved(r)
  \/ End(r)

MailStep(r) ==
  \/ Gate(r)
  \/ \E e \in Events : Dispatch(r, e)

Next ==
  \/ SetReconcileFunc
  \/ \E b \in Batches : SetLastBatchID(b)
  \/ PanelLoads
  \/ \E s \in Settings : UpdateConfig(s)
  \/ Stop
  \/ \E r \in Runs : Fire(r) \/ Post(r) \/ RunStep(r) \/ MailStep(r)

\* A goroutine that can run does: MatchJob's JobReturns and the attempt's time
\* limit see to it that a run and an attempt come to an end.
Fairness == \A r \in Runs : WF_vars(RunStep(r)) /\ WF_vars(MailStep(r))

Spec == Init /\ [][Next]_vars /\ Fairness

----------------------------------------------------------------------------
(* Properties. *)

Mail ==
  [at : {"off", "gate", "done"} \cup Events, anomalous : BOOLEAN, onSuccess : BOOLEAN,
   onAnomaly : BOOLEAN, elapsed : Nat, sent : SUBSET Events, accepted : [Events -> Nat],
   unheard : [Events -> Nat]]

Outcomes == {NoStatus, "COMPLETED", "FAILED"}
Config == [settings : Settings \cup {DefaultSettings}, status : Outcomes]

\* Every variable holds a value of its kind; the status is empty or how a run ended.
TypeOK ==
  /\ config \in Config /\ panel \in Config
  /\ entry \in BOOLEAN /\ ticking \in BOOLEAN /\ wired \in BOOLEAN
  /\ runInProgress \in BOOLEAN /\ staleSave \in BOOLEAN
  /\ lastBatch \in Batches \cup {NoBatch}
  /\ pc \in [Runs -> {"off", "fired", "posted", "unwired", "running", "saved", "failed",
                      "ended"}]
  /\ mail \in [Runs -> Mail]
  /\ panelSaves \in 0 .. MaxSaves
  /\ lastEnded \in Runs \cup {NoRun} /\ panelSaw \in Runs \cup {NoRun}

Holding == {r \in Runs : pc[r] \in {"unwired", "running", "saved", "failed"}}

\* runInProgress: firings may pile up, and the schedule may be replaced under a run
\* that it started, but at most one scheduled run is ever past the guard.
OneScheduledRun == \A q, r \in Holding : q = r

\* The flag is set exactly while a scheduled run is past the guard: a manager that
\* forgot to clear it would never run anything again.
FlagFollowsRun == runInProgress <=> Holding # {}

\* How a run ended, told by its webhooks: they are started for a run that was saved.
OutcomeOf(r) ==
  IF r = NoRun THEN NoStatus ELSE IF mail[r].at = "off" THEN "FAILED" ELSE "COMPLETED"

\* LastRunStatus says of the scheduled run that ended last whether its results were
\* saved, however often the panel saves: the status that it sends along is that of the
\* run it knew of.  Only a panel that had loaded before that run ended puts back an
\* older status, which stands until the next run ends.
StatusIsOfLastRun == ~staleSave => config.status = OutcomeOf(lastEnded)

\* LastRunStatus is that of the last run whoever saves.  It does not hold: the panel
\* sends the status that it loaded, and UpdateConfig takes it.
StatusIsCurrent == config.status = OutcomeOf(lastEnded)

\* DispatchWebhook returns at the first answer of 200 to 299 that it hears.  So an
\* endpoint accepts an event again only if of all its acceptances before none was
\* heard, the answers being late or lost; then it does, up to three times.
RepeatedOnlyUnheard ==
  \A r \in Runs, e \in Events : mail[r].accepted[e] <= mail[r].unheard[e] + 1

\* One context for both events keeps fireWebhooks short: it ends within 30 seconds
\* and the delays of one dispatch.
MailIsBounded == \A r \in Runs : mail[r].elapsed <= ContextEnd + Delay(1) + Delay(2)

\* "Fired on completion and on anomaly": fireWebhooks does not finish with an
\* anomalous run without having sent the event to the endpoint.  It does not hold: a
\* hanging endpoint costs the success event all of the time that the two share.
AnomalyIsSent ==
  \A r \in Runs :
    mail[r].at = "done" /\ mail[r].onAnomaly /\ mail[r].anomalous
      /\ panelSaves = 0
      => "ANOMALY_DETECTED" \in mail[r].sent

\* Whatever is saved, and however the endpoint answers, the manager is free again
\* after every scheduled run, and fireWebhooks comes to its end.
SchedulerRecovers ==
  /\ runInProgress ~> ~runInProgress
  /\ \A r \in Runs : mail[r].at = "gate" ~> mail[r].at = "done"
=============================================================================
