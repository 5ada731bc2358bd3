--------------------------- MODULE ProgressStream ---------------------------
(***************************************************************************)
(* One batch from the click to the browser tab that follows it: the runs   *)
(* that runBatchAndPersist makes of it, the in-memory store's progress and *)
(* SSE channels, HandleSSEProgress on the server and the tab's runMatching *)
(* on the client.  Nothing stops two runs of the batch from overlapping.   *)
(* Everything the store does happens under its lock, in one step each.     *)
(*                                                                         *)
(* What a run computes is left to MatchJob: here it is the progress frames *)
(* it publishes, in the order MatchJob allows.  A frame's started_at is    *)
(* the run it belongs to.                                                  *)
(***************************************************************************)
EXTENDS Naturals, Sequences, FiniteSets

CONSTANTS
  Runs,         \* runs of the batch
  Tabs,         \* browser tabs; each clicks "run" once and opens one stream
  Reports,      \* the RUNNING reports of a run, numbered
  BufferSize    \* of an SSE channel; 10 in the code

ASSUME RunsAssumption == IsFiniteSet(Runs) /\ IsFiniteSet(Tabs)
ASSUME BoundsAssumption == Reports \subseteq Nat /\ BufferSize \in Nat \ {0}

VARIABLES
  dataset,    \* the batch's records are stored
  phase,      \* how far runBatchAndPersist is, for each run
  left,       \* RUNNING reports a run has still to make
  progress,   \* the stored BatchProgress
  listed,     \* sseClients: tabs whose channel the store sends to
  chan,       \* those channels
  closes,     \* how often a channel was closed
  missed,     \* tabs that a frame was dropped for
  handler,    \* HandleSSEProgress: "off", "registered", "stream" or "ended"
  sent,       \* the last frame a handler wrote to its response
  tab         \* the state of runMatching

store == <<dataset, progress>>
runs  == <<phase, left>>
hub   == <<listed, chan, closes, missed>>
page  == <<handler, sent, tab>>
vars  == <<store, runs, hub, page>>

NoRun   == "none"
ASSUME NoRunAssumption == NoRun \notin Runs
NoFrame == [run |-> NoRun, status |-> "NONE", n |-> 0]
Frame   == [run : Runs, status : {"RUNNING", "COMPLETED", "FAILED"},
            n : Reports \cup {0}]
Final(r, st) == [run |-> r, status |-> st, n |-> 0]
Terminal(p) == p.status \in {"COMPLETED", "FAILED"}

FreshTab == [pc |-> "idle", run |-> NoRun, first |-> TRUE, stale |-> NoRun,
             shown |-> NoFrame, before |-> {}]

Init ==
  /\ dataset \in BOOLEAN
  /\ phase = [r \in Runs |-> "idle"]
  /\ left = [r \in Runs |-> Reports]
  /\ progress = NoFrame
  /\ listed = {}
  /\ chan = [t \in Tabs |-> << >>]
  /\ closes = [t \in Tabs |-> 0]
  /\ missed = {}
  /\ handler = [t \in Tabs |-> "off"]
  /\ sent = [t \in Tabs |-> NoFrame]
  /\ tab = [t \in Tabs |-> FreshTab]

----------------------------------------------------------------------------
(* The store. *)

SaveDataset ==
  /\ ~dataset
  /\ dataset' = TRUE
  /\ UNCHANGED <<progress, runs, hub, page>>

\* UpdateProgress keeps the frame and offers it to every listed channel without
\* waiting: a channel that is full misses it.
UpdateProgress(p) ==
  /\ progress' = p
  /\ chan' = [t \in Tabs |-> IF t \in listed /\ Len(chan[t]) < BufferSize
                             THEN Append(chan[t], p) ELSE chan[t]]
  /\ missed' = missed \cup {t \in listed : Len(chan[t]) >= BufferSize}
  /\ UNCHANGED <<listed, closes>>

\* A DeleteBatch that leaves the closed channels in sseClients.
DeleteAndKeepListed ==
  /\ dataset
  /\ dataset' = FALSE
  /\ progress' = NoFrame
  /\ closes' = [t \in Tabs |-> IF t \in listed THEN closes[t] + 1 ELSE closes[t]]
  /\ UNCHANGED <<listed, chan, missed, runs, page>>

DeleteBatch ==
  /\ dataset
  /\ dataset' = FALSE
  /\ progress' = NoFrame
  /\ closes' = [t \in Tabs |-> IF t \in listed THEN closes[t] + 1 ELSE closes[t]]
  /\ listed' = {}
  /\ UNCHANGED <<chan, missed, runs, page>>

----------------------------------------------------------------------------
(* runBatchAndPersist. *)

Step(r, from, to) == phase[r] = from /\ phase' = [phase EXCEPT ![r] = to]

\* The scheduler's cron entry fires.
Schedule(r) ==
  /\ Step(r, "idle", "spawned")
  /\ UNCHANGED <<store, left, hub, page>>

\* GetDataset; a batch that is not stored ends the run with an error and no frame.
Begin(r) ==
  /\ Step(r, "spawned", IF dataset THEN "matching" ELSE "rejected")
  /\ UNCHANGED <<store, left, hub, page>>

\* A worker reports; workers race, so the reports come in any order.
Report(r, n) ==
  /\ phase[r] = "matching" /\ n \in left[r]
  /\ left' = [left EXCEPT ![r] = @ \ {n}]
  /\ UpdateProgress([run |-> r, status |-> "RUNNING", n |-> n])
  /\ UNCHANGED <<dataset, phase, page>>

\* ExecuteJob's final report: before anything is persisted.
Matched(r) ==
  /\ Step(r, "matching", "matched")
  /\ left[r] = {}
  /\ UpdateProgress(Final(r, "COMPLETED"))
  /\ UNCHANGED <<dataset, left, page>>

\* One of the two sides is empty: ExecuteJob returns without a report.
NothingToMatch(r) ==
  /\ left[r] = Reports
  /\ Step(r, "matching", "matched")
  /\ UNCHANGED <<store, left, hub, page>>

Save(r) ==
  /\ Step(r, "matched", "saved")
  /\ UNCHANGED <<store, left, hub, page>>

\* SaveResultsCtx reports an error, which the database's can.
SaveFails(r) ==
  /\ Step(r, "matched", "unsaved")
  /\ UNCHANGED <<store, left, hub, page>>

\* An error path that returns without telling anyone.
FailSilently(r) ==
  /\ Step(r, "unsaved", "failed")
  /\ UNCHANGED <<store, left, hub, page>>

ReportFailed(r) ==
  /\ Step(r, "unsaved", "failed")
  /\ UpdateProgress(Final(r, "FAILED"))
  /\ UNCHANGED <<dataset, left, page>>

ReportSaved(r) ==
  /\ Step(r, "saved", "done")
  /\ UpdateProgress(Final(r, "COMPLETED"))
  /\ UNCHANGED <<dataset, left, page>>

Ended == {"rejected", "failed", "done"}

----------------------------------------------------------------------------
(* runMatching in the tab, and HandleSSEProgress. *)

\* POST /api/match/run starts a goroutine and answers at once.
Click(t) ==
  /\ tab[t].pc = "idle"
  /\ \E r \in Runs :
       /\ Step(r, "idle", "spawned")
       /\ tab' = [tab EXCEPT ![t].pc = "opening", ![t].run = r,
                             ![t].before = {q \in Runs : phase[q] \in Ended}]
  /\ UNCHANGED <<store, left, hub, handler, sent>>

\* new EventSource(...): the handler begins with RegisterSSEClient.
Register(t) ==
  /\ tab[t].pc = "opening"
  /\ tab' = [tab EXCEPT ![t].pc = "listening"]
  /\ handler' = [handler EXCEPT ![t] = "registered"]
  /\ listed' = listed \cup {t}
  /\ UNCHANGED <<store, runs, chan, closes, missed, sent>>

\* eventSource.onmessage without the check of the first frame.
OnMessageUnchecked(tb, p) ==
  IF tb.pc # "listening" THEN tb
  ELSE [tb EXCEPT !.first = FALSE, !.shown = p,
                  !.pc = IF Terminal(p) THEN "closed" ELSE @]

\* eventSource.onmessage taking whatever the first frame says for an earlier run.
OnMessageSkippingFirst(tb, p) ==
  IF tb.pc # "listening" THEN tb
  ELSE IF tb.first THEN [tb EXCEPT !.first = FALSE, !.stale = p.run]
  ELSE IF tb.stale = p.run THEN tb
  ELSE [tb EXCEPT !.shown = p, !.pc = IF Terminal(p) THEN "closed" ELSE @]

\* eventSource.onmessage: a first frame that is terminal is taken for the end of
\* an earlier run, and every frame of that run is ignored from then on.
OnMessage(tb, p) ==
  IF tb.pc # "listening" THEN tb
  ELSE IF tb.first /\ Terminal(p) THEN [tb EXCEPT !.first = FALSE, !.stale = p.run]
  ELSE IF tb.stale = p.run THEN tb
  ELSE [tb EXCEPT !.first = FALSE, !.shown = p,
                  !.pc = IF Terminal(p) THEN "closed" ELSE @]

\* A handler that starts to stream without the stored frame.
SkipReplay(t) ==
  /\ handler[t] = "registered"
  /\ handler' = [handler EXCEPT ![t] = "stream"]
  /\ UNCHANGED <<store, runs, hub, sent, tab>>

\* The stored progress, if any, is written first.
Replay(t) ==
  /\ handler[t] = "registered"
  /\ handler' = [handler EXCEPT ![t] = "stream"]
  /\ \/ progress = NoFrame /\ UNCHANGED <<sent, tab>>
     \/ /\ progress # NoFrame
        /\ sent' = [sent EXCEPT ![t] = progress]
        /\ tab' = [tab EXCEPT ![t] = OnMessage(@, progress)]
  /\ UNCHANGED <<store, runs, hub>>

Deliver(t) ==
  /\ handler[t] = "stream" /\ chan[t] # << >>
  /\ chan' = [chan EXCEPT ![t] = Tail(@)]
  /\ sent' = [sent EXCEPT ![t] = Head(chan[t])]
  /\ tab' = [tab EXCEPT ![t] = OnMessage(@, Head(chan[t]))]
  /\ UNCHANGED <<store, runs, listed, closes, missed, handler>>

\* The request's context is done: the deferred UnregisterSSEClient removes the
\* channel from the list and closes it, unless DeleteBatch has done so; what was
\* in it is lost.
Unregister(t) ==
  /\ handler[t] = "stream" /\ tab[t].pc = "closed"
  /\ handler' = [handler EXCEPT ![t] = "ended"]
  /\ listed' = listed \ {t}
  /\ closes' = [closes EXCEPT ![t] = IF t \in listed THEN @ + 1 ELSE @]
  /\ chan' = [chan EXCEPT ![t] = << >>]
  /\ UNCHANGED <<store, runs, missed, sent, tab>>

\* The channel is closed and empty: the stream ends, which the tab sees as an
\* error, and the deferred call finds nothing to remove.
ChannelClosed(t) ==
  /\ handler[t] = "stream" /\ chan[t] = << >> /\ closes[t] > 0
  /\ handler' = [handler EXCEPT ![t] = "ended"]
  /\ tab' = [tab EXCEPT ![t].pc = "closed"]
  /\ closes' = [closes EXCEPT ![t] = IF t \in listed THEN @ + 1 ELSE @]
  /\ listed' = listed \ {t}
  /\ UNCHANGED <<store, runs, chan, missed, sent>>

\* eventSource.onerror closes the stream and leaves the loading state.
ConnectionLost(t) ==
  /\ tab[t].pc = "listening"
  /\ tab' = [tab EXCEPT ![t].pc = "closed"]
  /\ UNCHANGED <<store, runs, hub, handler, sent>>

RunStep(r) ==
  \/ Begin(r)
  \/ \E n \in Reports : Report(r, n)
  \/ Matched(r)
  \/ NothingToMatch(r)
  \/ Save(r)
  \/ SaveFails(r)
  \/ ReportFailed(r)
  \/ ReportSaved(r)

StreamStep(t) ==
  \/ Register(t)
  \/ Replay(t)
  \/ Deliver(t)
  \/ Unregister(t)
  \/ ChannelClosed(t)

Next ==
  \/ SaveDataset
  \/ DeleteBatch
  \/ \E r \in Runs :
       \/ Schedule(r)
       \/ Begin(r)
       \/ \E n \in Reports : Report(r, n)
       \/ Matched(r)
       \/ NothingToMatch(r)
       \/ Save(r)
       \/ SaveFails(r)
       \/ ReportFailed(r)
       \/ ReportSaved(r)
  \/ \E t \in Tabs :
       \/ Click(t)
       \/ Register(t)
       \/ Replay(t)
       \/ Deliver(t)
       \/ Unregister(t)
       \/ ChannelClosed(t)
       \/ ConnectionLost(t)

\* Goroutines that can run do, and a browser opens the stream it asked for.
Fairness ==
  /\ \A r \in Runs : WF_vars(RunStep(r))
  /\ \A t \in Tabs : WF_vars(StreamStep(t))

Spec == Init /\ [][Next]_vars /\ Fairness

----------------------------------------------------------------------------
(* Properties. *)

TabState ==
  [pc : {"idle", "opening", "listening", "closed"}, run : Runs \cup {NoRun},
   first : BOOLEAN, stale : Runs \cup {NoRun}, shown : Frame \cup {NoFrame},
   before : SUBSET Runs]

\* Every variable holds a value of its kind; a channel never holds more than its
\* buffer.
TypeOK ==
  /\ dataset \in BOOLEAN
  /\ phase \in [Runs -> {"idle", "spawned", "matching", "matched", "saved", "unsaved"}
                          \cup Ended]
  /\ left \in [Runs -> SUBSET Reports]
  /\ progress \in Frame \cup {NoFrame}
  /\ listed \subseteq Tabs /\ missed \subseteq Tabs
  /\ chan \in [Tabs -> Seq(Frame)]
  /\ \A t \in Tabs : Len(chan[t]) <= BufferSize
  /\ closes \in [Tabs -> Nat]
  /\ handler \in [Tabs -> {"off", "registered", "stream", "ended"}]
  /\ sent \in [Tabs -> Frame \cup {NoFrame}]
  /\ tab \in [Tabs -> TabState]

\* memory_store.go: "no send-on-closed-channel panic".  The store sends to and
\* closes listed channels only, so a listed channel must be open, whichever of
\* UnregisterSSEClient and DeleteBatch comes first.
ListedIsOpen == \A t \in Tabs : closes[t] <= (IF t \in listed THEN 0 ELSE 1)

\* A handler that has caught up with its channel has written the stored frame as
\* its last one, unless a frame was dropped: no update falls between the replay
\* and the stream.
NothingMissed ==
  \A t \in listed :
    handler[t] = "stream" /\ chan[t] = << >> /\ t \notin missed /\ progress # NoFrame
      => sent[t] = progress

\* Of two overlapping runs either may have the last word, but what the last word
\* says of its own run is true: a run that has ended left a frame that says
\* whether its results were saved, and when all runs have ended no frame claims
\* that one is still running.
LastWordIsTrue ==
  /\ \A r \in Runs : progress.run = r =>
       /\ phase[r] = "failed" => progress.status = "FAILED"
       /\ phase[r] = "done" => progress.status = "COMPLETED"
  /\ progress # NoFrame /\ (\A r \in Runs : phase[r] \in Ended \cup {"idle"})
       => Terminal(progress)

\* A tab does not take the end of a run that had ended before its click for the
\* end of its own.
OldEndIgnored ==
  \A t \in Tabs : Terminal(tab[t].shown) => tab[t].shown.run \notin tab[t].before

\* useMatcherStore.js: "a terminal status in the very first frame belongs to the
\* PREVIOUS run".  It does not hold: a fast run can be over before the stream opens.
StaleFrameIsOld ==
  \A t \in Tabs : tab[t].stale # NoRun => tab[t].stale # tab[t].run

Unreported(r) == phase[r] \in {"spawned", "matching"} /\ left[r] = Reports
Quiet(r) == phase[r] \in Ended /\ left[r] = Reports

\* A tab that follows its run before the run's first report leaves the loading
\* state in the end, unless a frame was dropped for it or the run never reported
\* that it was running.
PromptTabFinishes ==
  \A t \in Tabs : \A r \in Runs :
    (handler[t] = "stream" /\ tab[t].run = r /\ Unreported(r))
      ~> (tab[t].pc = "closed" \/ t \in missed \/ Quiet(r))
=============================================================================
