------------------------- MODULE ProgressStreamProofs -------------------------
(***************************************************************************)
(* What is said of a batch's runs and who hears it, for any number of      *)
(* runs and tabs, reports and buffers of any size.                         *)
(***************************************************************************)
EXTENDS ProgressStream, SequenceTheorems, TLAPS

USE DEF store, runs, hub, page

(***************************************************************************)
(* Types.                                                                  *)
(***************************************************************************)

Phases == {"idle", "spawned", "matching", "matched", "saved", "unsaved"} \cup Ended

LEMMA InitType == Init => TypeOK
<1>. SUFFICES ASSUME Init PROVE TypeOK
  OBVIOUS
<1>1. FreshTab \in TabState
  BY DEF FreshTab, TabState
<1>2. chan \in [Tabs -> Seq(Frame)] /\ \A t \in Tabs : Len(chan[t]) <= BufferSize
  BY BoundsAssumption DEF Init
<1>. QED BY <1>1, <1>2 DEF Init, TypeOK

\* A tab that gets a frame: what it shows, and what it never changes.
LEMMA OnMessageType ==
  ASSUME NEW tb \in TabState, NEW p \in Frame
  PROVE  /\ OnMessage(tb, p) \in TabState
         /\ OnMessage(tb, p).before = tb.before
         /\ OnMessage(tb, p).pc \in {tb.pc, "closed"}
         /\ tb.pc # "listening" => OnMessage(tb, p) = tb
         /\ OnMessage(tb, p).shown \in {tb.shown, p}
         /\ tb.first /\ Terminal(p) => OnMessage(tb, p).shown = tb.shown
<1>1. CASE tb.pc # "listening"
  BY <1>1 DEF OnMessage
<1>2. CASE tb.pc = "listening" /\ tb.first /\ Terminal(p)
  <2>1. OnMessage(tb, p) = [tb EXCEPT !.first = FALSE, !.stale = p.run]
    BY <1>2 DEF OnMessage
  <2>. QED BY <1>2, <2>1 DEF TabState, Frame
<1>3. CASE tb.pc = "listening" /\ ~(tb.first /\ Terminal(p)) /\ tb.stale = p.run
  BY <1>3 DEF OnMessage
<1>4. CASE tb.pc = "listening" /\ ~(tb.first /\ Terminal(p)) /\ tb.stale # p.run
  <2>1. OnMessage(tb, p) = [tb EXCEPT !.first = FALSE, !.shown = p,
                                      !.pc = IF Terminal(p) THEN "closed" ELSE @]
    BY <1>4 DEF OnMessage
  <2>. QED BY <1>4, <2>1 DEF TabState
<1>. QED BY <1>1, <1>2, <1>3, <1>4

\* An update reaches every listed channel that has room.
LEMMA UpdateType ==
  ASSUME TypeOK, NEW p \in Frame, UpdateProgress(p)
  PROVE  /\ progress' = p /\ UNCHANGED <<listed, closes>>
         /\ missed \subseteq missed' /\ missed' \subseteq Tabs
         /\ chan' \in [Tabs -> Seq(Frame)]
         /\ \A t \in Tabs :
              /\ Len(chan'[t]) <= BufferSize
              /\ \/ chan'[t] = chan[t] /\ (t \in listed => t \in missed')
                 \/ t \in listed /\ chan'[t] = Append(chan[t], p)
<1>1. \A t \in Tabs : /\ chan[t] \in Seq(Frame) /\ Append(chan[t], p) \in Seq(Frame)
                      /\ Len(chan[t]) \in Nat /\ Len(Append(chan[t], p)) = Len(chan[t]) + 1
  BY AppendProperties, LenProperties DEF TypeOK
<1>2. /\ progress' = p /\ UNCHANGED <<listed, closes>>
      /\ missed' = missed \cup {t \in listed : Len(chan[t]) >= BufferSize}
      /\ chan' = [t \in Tabs |-> IF t \in listed /\ Len(chan[t]) < BufferSize
                                 THEN Append(chan[t], p) ELSE chan[t]]
  BY DEF UpdateProgress
<1>3. chan' \in [Tabs -> Seq(Frame)]
  BY <1>1, <1>2
<1>4. \A t \in Tabs : /\ Len(chan'[t]) <= BufferSize
                      /\ \/ chan'[t] = chan[t] /\ (t \in listed => t \in missed')
                         \/ t \in listed /\ chan'[t] = Append(chan[t], p)
  BY <1>1, <1>2, BoundsAssumption DEF TypeOK
<1>. QED BY <1>2, <1>3, <1>4 DEF TypeOK

\* The frames that runs publish.
LEMMA FrameType ==
  ASSUME NEW r \in Runs
  PROVE  /\ \A n \in Reports : [run |-> r, status |-> "RUNNING", n |-> n] \in Frame
         /\ Final(r, "COMPLETED") \in Frame /\ Final(r, "FAILED") \in Frame
BY DEF Final, Frame

\* A step of a run moves that run alone, from a phase that is not its end.
Speaks(r, p) == UpdateProgress(p) /\ p.run = r /\ p \in Frame
RunMoves(r) ==
  /\ phase' = [phase EXCEPT ![r] = phase'[r]] /\ phase'[r] \in Phases
  /\ phase[r] \notin Ended
  /\ left' \in [Runs -> SUBSET Reports]
  /\ UNCHANGED <<dataset, handler, sent>>

\* What the steps of runs have in common.
LEMMA RunSteps ==
  ASSUME TypeOK, NEW r \in Runs, RunStep(r)
  PROVE  /\ RunMoves(r) /\ UNCHANGED tab
         /\ \/ UNCHANGED <<progress, hub>>
            \/ \E p \in Frame : Speaks(r, p)
<1>. USE FrameType DEF RunMoves, Speaks, Phases, Ended, Step
<1>1. CASE Begin(r)
  BY <1>1 DEF Begin, TypeOK
<1>2. ASSUME NEW n \in Reports, Report(r, n)
      PROVE  /\ RunMoves(r) /\ UNCHANGED tab
             /\ \E p \in Frame : Speaks(r, p)
  BY <1>2 DEF Report, TypeOK
<1>3. CASE Matched(r)
  <2>1. Final(r, "COMPLETED").run = r
    BY DEF Final
  <2>. QED BY <1>3, <2>1 DEF Matched, TypeOK
<1>4. CASE NothingToMatch(r) \/ Save(r) \/ SaveFails(r)
  BY <1>4 DEF NothingToMatch, Save, SaveFails, TypeOK
<1>5. CASE ReportFailed(r) \/ ReportSaved(r)
  <2>1. Final(r, "COMPLETED").run = r /\ Final(r, "FAILED").run = r
    BY DEF Final
  <2>. QED BY <1>5, <2>1 DEF ReportFailed, ReportSaved, TypeOK
<1>. QED BY <1>1, <1>2, <1>3, <1>4, <1>5 DEF RunStep

\* What the steps of a tab and its handler have in common.
LEMMA NextSteps ==
  ASSUME [Next]_vars
  PROVE  \/ SaveDataset \/ DeleteBatch \/ UNCHANGED vars
         \/ \E r \in Runs : Schedule(r) \/ RunStep(r)
         \/ \E t \in Tabs : Click(t) \/ StreamStep(t) \/ ConnectionLost(t)
BY DEF Next, RunStep, StreamStep

\* A tab that only moves on stays a tab.
LEMMA TabMoves ==
  ASSUME TypeOK, NEW t \in Tabs, NEW pc \in {"opening", "listening", "closed"},
         tab' = [tab EXCEPT ![t].pc = pc]
  PROVE  /\ tab' \in [Tabs -> TabState]
         /\ tab'[t] = [tab[t] EXCEPT !.pc = pc]
         /\ \A u \in Tabs : u # t => tab'[u] = tab[u]
<1>1. tab \in [Tabs -> TabState] /\ tab[t] \in TabState
  BY DEF TypeOK
<1>2. [tab[t] EXCEPT !.pc = pc] \in TabState
  BY <1>1 DEF TabState
<1>3. tab' = [tab EXCEPT ![t] = [tab[t] EXCEPT !.pc = pc]]
  OBVIOUS
<1>. DEFINE moved == [tab[t] EXCEPT !.pc = pc]
<1>4. moved \in TabState /\ tab' = [tab EXCEPT ![t] = moved]
  BY <1>2, <1>3
<1>. HIDE DEF moved
<1>5. tab' \in [Tabs -> TabState] /\ tab'[t] = moved /\ \A u \in Tabs : u # t => tab'[u] = tab[u]
  BY <1>1, <1>4
<1>. QED BY <1>5 DEF moved

\* Every step keeps the types.
LEMMA TypeStep == TypeOK /\ [Next]_vars => TypeOK'
<1>. SUFFICES ASSUME TypeOK, [Next]_vars PROVE TypeOK'
  OBVIOUS
<1>1. CASE SaveDataset
  BY <1>1 DEF SaveDataset, TypeOK
<1>2. CASE DeleteBatch
  <2>1. closes' \in [Tabs -> Nat]
    BY <1>2 DEF DeleteBatch, TypeOK
  <2>2. dataset' = FALSE /\ progress' = NoFrame /\ listed' = {}
        /\ UNCHANGED <<chan, missed, runs, page>>
    BY <1>2 DEF DeleteBatch
  <2>. QED BY <2>1, <2>2 DEF TypeOK
<1>3. ASSUME NEW r \in Runs, Schedule(r) PROVE TypeOK'
  BY <1>3 DEF Schedule, Step, TypeOK, Ended
<1>4. ASSUME NEW r \in Runs, RunStep(r) PROVE TypeOK'
  <2>1. /\ RunMoves(r) /\ UNCHANGED tab
        /\ \/ UNCHANGED <<progress, hub>>
           \/ \E p \in Frame : Speaks(r, p)
    BY <1>4, RunSteps
  <2>2. /\ phase' \in [Runs -> Phases] /\ left' \in [Runs -> SUBSET Reports]
        /\ UNCHANGED <<dataset, handler, sent, tab>>
    BY <2>1 DEF RunMoves, TypeOK, Phases
  <2>3. CASE UNCHANGED <<progress, hub>>
    BY <2>2, <2>3 DEF TypeOK, Phases
  <2>4. ASSUME NEW p \in Frame, Speaks(r, p) PROVE TypeOK'
    <3>1. /\ progress' = p /\ UNCHANGED <<listed, closes>> /\ missed' \subseteq Tabs
          /\ chan' \in [Tabs -> Seq(Frame)] /\ \A t \in Tabs : Len(chan'[t]) <= BufferSize
      BY <2>4, UpdateType DEF Speaks
    <3>. QED BY <2>2, <3>1 DEF TypeOK, Phases
  <2>. QED BY <2>1, <2>3, <2>4
<1>5. ASSUME NEW t \in Tabs, Click(t) PROVE TypeOK'
  <2>1. PICK r \in Runs :
          /\ phase' = [phase EXCEPT ![r] = "spawned"]
          /\ tab' = [tab EXCEPT ![t].pc = "opening", ![t].run = r,
                                ![t].before = {q \in Runs : phase[q] \in Ended}]
    BY <1>5 DEF Click, Step
  <2>2. phase' \in [Runs -> Phases]
    BY <2>1 DEF TypeOK, Phases
  <2>3. tab' \in [Tabs -> TabState]
    <3>1. [tab[t] EXCEPT !.pc = "opening", !.run = r,
                         !.before = {q \in Runs : phase[q] \in Ended}] \in TabState
      <4>1. tab[t] \in TabState
        BY DEF TypeOK
      <4>. DEFINE over == {q \in Runs : phase[q] \in Ended}
      <4>2. over \in SUBSET Runs
        OBVIOUS
      <4>. HIDE DEF over
      <4>3. [tab[t] EXCEPT !.pc = "opening", !.run = r, !.before = over] \in TabState
        BY <4>1, <4>2 DEF TabState
      <4>. QED BY <4>3 DEF over
    <3>2. tab' = [tab EXCEPT ![t] = [tab[t] EXCEPT !.pc = "opening", !.run = r,
                                       !.before = {q \in Runs : phase[q] \in Ended}]]
      BY <2>1 DEF TypeOK, TabState
    <3>. QED BY <3>1, <3>2 DEF TypeOK
  <2>. QED BY <1>5, <2>2, <2>3 DEF Click, TypeOK, Phases
<1>6. ASSUME NEW t \in Tabs, Register(t) PROVE TypeOK'
  <2>1. tab' \in [Tabs -> TabState]
    <3>1. tab' = [tab EXCEPT ![t].pc = "listening"]
      BY <1>6 DEF Register
    <3>. QED BY <3>1, TabMoves
  <2>. QED BY <1>6, <2>1 DEF Register, TypeOK
<1>7. ASSUME NEW t \in Tabs, Replay(t) PROVE TypeOK'
  <2>1. CASE progress = NoFrame /\ UNCHANGED <<sent, tab>>
    BY <1>7, <2>1 DEF Replay, TypeOK
  <2>2. CASE progress # NoFrame /\ sent' = [sent EXCEPT ![t] = progress]
             /\ tab' = [tab EXCEPT ![t] = OnMessage(@, progress)]
    <3>1. progress \in Frame /\ OnMessage(tab[t], progress) \in TabState
      BY <2>2, OnMessageType DEF TypeOK
    <3>2. tab' \in [Tabs -> TabState] /\ sent' \in [Tabs -> Frame \cup {NoFrame}]
      BY <2>2, <3>1 DEF TypeOK
    <3>. QED BY <1>7, <3>2 DEF Replay, TypeOK
  <2>. QED BY <1>7, <2>1, <2>2 DEF Replay
<1>8. ASSUME NEW t \in Tabs, Deliver(t) PROVE TypeOK'
  <2>1. /\ chan[t] \in Seq(Frame) /\ Head(chan[t]) \in Frame /\ Tail(chan[t]) \in Seq(Frame)
        /\ Len(Tail(chan[t])) = Len(chan[t]) - 1 /\ Len(chan[t]) \in Nat
    BY <1>8, HeadTailProperties, LenProperties DEF Deliver, TypeOK
  <2>2. OnMessage(tab[t], Head(chan[t])) \in TabState
    BY <2>1, OnMessageType DEF TypeOK
  <2>3. /\ tab' \in [Tabs -> TabState] /\ sent' \in [Tabs -> Frame \cup {NoFrame}]
        /\ chan' \in [Tabs -> Seq(Frame)]
    BY <1>8, <2>1, <2>2 DEF Deliver, TypeOK
  <2>4. \A u \in Tabs : Len(chan'[u]) <= BufferSize
    BY <1>8, <2>1, BoundsAssumption DEF Deliver, TypeOK
  <2>. QED BY <1>8, <2>3, <2>4 DEF Deliver, TypeOK
<1>9. ASSUME NEW t \in Tabs, Unregister(t) PROVE TypeOK'
  <2>1. chan' \in [Tabs -> Seq(Frame)] /\ \A u \in Tabs : Len(chan'[u]) <= BufferSize
    <3>1. chan' = [chan EXCEPT ![t] = << >>] /\ << >> \in Seq(Frame) /\ Len(<< >>) = 0
      BY <1>9 DEF Unregister
    <3>. QED BY <3>1, BoundsAssumption DEF TypeOK
  <2>. QED BY <1>9, <2>1 DEF Unregister, TypeOK
<1>10. ASSUME NEW t \in Tabs, ChannelClosed(t) \/ ConnectionLost(t) PROVE TypeOK'
  <2>1. tab' = [tab EXCEPT ![t].pc = "closed"]
    BY <1>10 DEF ChannelClosed, ConnectionLost
  <2>2. tab' \in [Tabs -> TabState]
    BY <2>1, TabMoves
  <2>3. CASE ChannelClosed(t)
    <3>1. closes' \in [Tabs -> Nat]
      BY <2>3 DEF ChannelClosed, TypeOK
    <3>. QED BY <2>2, <2>3, <3>1 DEF ChannelClosed, TypeOK
  <2>4. CASE ConnectionLost(t)
    BY <2>2, <2>4 DEF ConnectionLost, TypeOK
  <2>. QED BY <1>10, <2>3, <2>4
<1>11. CASE UNCHANGED vars
  BY <1>11 DEF vars, TypeOK
<1>. QED
  BY NextSteps, <1>1, <1>2, <1>3, <1>4, <1>5, <1>6, <1>7, <1>8, <1>9, <1>10, <1>11 DEF StreamStep

\* Every variable keeps holding a value of its kind, and a channel what its buffer takes.
THEOREM TypeCorrect == Spec => []TypeOK
<1>. QED BY InitType, TypeStep, PTL DEF Spec

(***************************************************************************)
(* Channels.  A tab that has not opened its stream has no channel: nothing *)
(* is in it, nobody sends to it and nobody has closed it.                  *)
(***************************************************************************)

NotOpened(t) == tab[t].pc \in {"idle", "opening"}
ChannelIsNew ==
  \A t \in Tabs : NotOpened(t) =>
    t \notin listed /\ closes[t] = 0 /\ chan[t] = << >> /\ handler[t] = "off"
HubInv == TypeOK /\ ListedIsOpen /\ ChannelIsNew

\* Steps of runs leave alone all that HubInv says.
LEMMA UpdateKeepsHub ==
  ASSUME HubInv, NEW p \in Frame, UpdateProgress(p), UNCHANGED <<tab, handler>>
  PROVE  ListedIsOpen' /\ ChannelIsNew'
<1>1. UNCHANGED <<listed, closes>> /\ \A t \in Tabs : chan'[t] = chan[t] \/ t \in listed
  BY UpdateType DEF HubInv
<1>. QED BY <1>1 DEF HubInv, ListedIsOpen, ChannelIsNew, NotOpened

LEMMA HubStep == HubInv /\ [Next]_vars => HubInv'
<1>. SUFFICES ASSUME HubInv, [Next]_vars PROVE ListedIsOpen' /\ ChannelIsNew'
  BY TypeStep DEF HubInv
<1>. USE DEF HubInv, NotOpened
<1>1. CASE SaveDataset \/ UNCHANGED vars \/ \E r \in Runs : Schedule(r)
  BY <1>1 DEF SaveDataset, Schedule, vars, ListedIsOpen, ChannelIsNew
<1>2. CASE DeleteBatch
  <2>1. /\ listed' = {} /\ UNCHANGED <<chan, tab, handler>>
        /\ \A t \in Tabs : closes'[t] = IF t \in listed THEN closes[t] + 1 ELSE closes[t]
    BY <1>2 DEF DeleteBatch
  <2>2. \A t \in Tabs : closes[t] \in Nat
    BY DEF TypeOK
  <2>. QED BY <2>1, <2>2 DEF ListedIsOpen, ChannelIsNew
<1>3. ASSUME NEW r \in Runs, RunStep(r) PROVE ListedIsOpen' /\ ChannelIsNew'
  <2>1. UNCHANGED <<tab, handler>> /\ (UNCHANGED hub \/ \E p \in Frame : UpdateProgress(p))
    BY <1>3, RunSteps DEF RunMoves, Speaks
  <2>2. CASE UNCHANGED hub
    BY <2>1, <2>2 DEF ListedIsOpen, ChannelIsNew
  <2>. QED BY <2>1, <2>2, UpdateKeepsHub
<1>4. ASSUME NEW t \in Tabs, Click(t) PROVE ListedIsOpen' /\ ChannelIsNew'
  <2>1. tab[t].pc = "idle" /\ \A u \in Tabs : u # t => tab'[u] = tab[u]
    BY <1>4 DEF Click, TypeOK
  <2>. QED BY <1>4, <2>1 DEF Click, ListedIsOpen, ChannelIsNew
<1>5. ASSUME NEW t \in Tabs, Register(t) PROVE ListedIsOpen' /\ ChannelIsNew'
  <2>1. tab[t].pc = "opening" /\ tab' = [tab EXCEPT ![t].pc = "listening"]
        /\ handler' = [handler EXCEPT ![t] = "registered"] /\ listed' = listed \cup {t}
        /\ UNCHANGED <<chan, closes>>
    BY <1>5 DEF Register
  <2>2. tab'[t].pc = "listening" /\ \A u \in Tabs : u # t => tab'[u] = tab[u]
    BY <2>1, TabMoves DEF TypeOK, TabState
  <2>. QED BY <2>1, <2>2 DEF ListedIsOpen, ChannelIsNew, TypeOK
<1>6. ASSUME NEW t \in Tabs, Replay(t) PROVE ListedIsOpen' /\ ChannelIsNew'
  <2>1. UNCHANGED hub /\ ~NotOpened(t)
        /\ \A u \in Tabs : u # t => handler'[u] = handler[u] /\ tab'[u] = tab[u]
    <3>1. UNCHANGED hub /\ handler[t] = "registered"
          /\ handler' = [handler EXCEPT ![t] = "stream"]
          /\ (tab' = tab \/ tab' = [tab EXCEPT ![t] = OnMessage(@, progress)])
      BY <1>6 DEF Replay
    <3>. QED BY <3>1 DEF ChannelIsNew, TypeOK
  <2>2. tab'[t].pc \in {tab[t].pc, "closed"}
    BY <1>6, OnMessageType DEF Replay, TypeOK
  <2>. QED BY <2>1, <2>2 DEF ListedIsOpen, ChannelIsNew
<1>7. ASSUME NEW t \in Tabs, Deliver(t) PROVE ListedIsOpen' /\ ChannelIsNew'
  <2>1. UNCHANGED <<listed, closes, handler>> /\ ~NotOpened(t)
        /\ \A u \in Tabs : u # t => chan'[u] = chan[u] /\ tab'[u] = tab[u]
    BY <1>7 DEF Deliver, ChannelIsNew
  <2>2. tab[t] \in TabState /\ Head(chan[t]) \in Frame
        /\ tab'[t] = OnMessage(tab[t], Head(chan[t]))
    BY <1>7, HeadTailProperties DEF Deliver, TypeOK
  <2>3. tab'[t].pc \in {tab[t].pc, "closed"}
    BY <2>2, OnMessageType
  <2>. QED BY <2>1, <2>3 DEF ListedIsOpen, ChannelIsNew
<1>8. ASSUME NEW t \in Tabs, Unregister(t) \/ ChannelClosed(t)
      PROVE  ListedIsOpen' /\ ChannelIsNew'
  <2>1. /\ listed' = listed \ {t} /\ ~NotOpened(t)
        /\ closes' = [closes EXCEPT ![t] = IF t \in listed THEN @ + 1 ELSE @]
        /\ \A u \in Tabs : u # t =>
             chan'[u] = chan[u] /\ handler'[u] = handler[u] /\ tab'[u] = tab[u]
    <3>1. CASE Unregister(t)
      <4>1. /\ handler[t] = "stream" /\ handler' = [handler EXCEPT ![t] = "ended"]
            /\ chan' = [chan EXCEPT ![t] = << >>] /\ UNCHANGED tab
            /\ listed' = listed \ {t}
            /\ closes' = [closes EXCEPT ![t] = IF t \in listed THEN @ + 1 ELSE @]
        BY <3>1 DEF Unregister
      <4>. QED BY <4>1 DEF ChannelIsNew, TypeOK
    <3>2. CASE ChannelClosed(t)
      <4>1. /\ handler[t] = "stream" /\ handler' = [handler EXCEPT ![t] = "ended"]
            /\ tab' = [tab EXCEPT ![t].pc = "closed"] /\ UNCHANGED chan
            /\ listed' = listed \ {t}
            /\ closes' = [closes EXCEPT ![t] = IF t \in listed THEN @ + 1 ELSE @]
        BY <3>2 DEF ChannelClosed
      <4>2. \A u \in Tabs : u # t => tab'[u] = tab[u]
        BY <4>1, TabMoves
      <4>. QED BY <4>1, <4>2 DEF ChannelIsNew, TypeOK
    <3>. QED BY <1>8, <3>1, <3>2
  <2>2. tab'[t].pc = "closed"
    <3>1. CASE ChannelClosed(t)
      <4>1. tab' = [tab EXCEPT ![t].pc = "closed"]
        BY <3>1 DEF ChannelClosed
      <4>. QED BY <4>1, TabMoves DEF TypeOK, TabState
    <3>. QED BY <1>8, <3>1 DEF Unregister
  <2>3. \A u \in Tabs : closes[u] \in Nat
    BY DEF TypeOK
  <2>4. closes'[t] <= 1 /\ \A u \in Tabs : u # t => closes'[u] = closes[u]
    BY <2>1, <2>3 DEF ListedIsOpen, TypeOK
  <2>5. ListedIsOpen'
    BY <2>1, <2>4 DEF ListedIsOpen
  <2>. QED BY <2>1, <2>2, <2>4, <2>5 DEF ChannelIsNew
<1>9. ASSUME NEW t \in Tabs, ConnectionLost(t) PROVE ListedIsOpen' /\ ChannelIsNew'
  <2>1. tab[t].pc = "listening" /\ tab' = [tab EXCEPT ![t].pc = "closed"]
        /\ UNCHANGED <<hub, handler>>
    BY <1>9 DEF ConnectionLost
  <2>2. tab'[t].pc = "closed" /\ \A u \in Tabs : u # t => tab'[u] = tab[u]
    BY <2>1, TabMoves DEF TypeOK, TabState
  <2>. QED BY <2>1, <2>2 DEF ListedIsOpen, ChannelIsNew
<1>. QED
  BY NextSteps, <1>1, <1>2, <1>3, <1>4, <1>5, <1>6, <1>7, <1>8, <1>9 DEF StreamStep

LEMMA HubInit == Init => HubInv
<1>. SUFFICES ASSUME Init PROVE ListedIsOpen /\ ChannelIsNew
  BY InitType DEF HubInv
<1>. QED BY DEF Init, ListedIsOpen, ChannelIsNew, NotOpened

\* A channel that the store would send to or close has not been closed, and none is
\* closed twice: DeleteBatch and UnregisterSSEClient agree on who closes.
THEOREM ListedStaysOpen == Spec => []ListedIsOpen
<1>1. HubInv => ListedIsOpen
  BY DEF HubInv
<1>. QED BY <1>1, HubInit, HubStep, PTL DEF Spec

(***************************************************************************)
(* Catching up.  The newest frame of a channel that missed none is the     *)
(* stored one; once the channel is empty that frame has been written.      *)
(***************************************************************************)

NewestIsStored ==
  \A t \in listed : chan[t] # << >> /\ t \notin missed /\ progress # NoFrame
                      => chan[t][Len(chan[t])] = progress
CaughtUpInv == HubInv /\ NewestIsStored /\ NothingMissed

\* The ends of a sequence.
LEMMA NewestOfAppend ==
  ASSUME NEW q \in Seq(Frame), NEW p \in Frame
  PROVE  Append(q, p) # << >> /\ Append(q, p)[Len(Append(q, p))] = p
<1>1. Len(q) \in Nat /\ Len(Append(q, p)) = Len(q) + 1
      /\ Append(q, p)[Len(q) + 1] = p /\ Append(q, p) \in Seq(Frame)
  BY AppendProperties, LenProperties
<1>2. Len(Append(q, p)) # 0
  BY <1>1
<1>. QED BY <1>1, <1>2, EmptySeq

LEMMA NewestOfTail ==
  ASSUME NEW q \in Seq(Frame), q # << >>
  PROVE  IF Tail(q) = << >> THEN Head(q) = q[Len(q)]
                            ELSE Tail(q)[Len(Tail(q))] = q[Len(q)]
<1>1. /\ Tail(q) \in Seq(Frame) /\ Len(Tail(q)) = Len(q) - 1
      /\ \A i \in 1..Len(Tail(q)) : Tail(q)[i] = q[i + 1]
  BY HeadTailProperties
<1>2. Len(q) \in Nat /\ Head(q) = q[1]
  BY LenProperties, HeadTailProperties
<1>3. Len(q) # 0
  BY EmptySeq
<1>4. CASE Tail(q) = << >>
  <2>1. Len(Tail(q)) = 0
    BY <1>1, <1>4, EmptySeq
  <2>2. Len(q) = 1
    <3>1. \A k, l : k \in Nat /\ l = 0 /\ l = k - 1 => k = 1
      OBVIOUS
    <3>2. Len(Tail(q)) = Len(q) - 1
      BY <1>1
    <3>. QED BY <1>2, <2>1, <3>1, <3>2, Zenon
  <2>. QED BY <1>2, <1>4, <2>2
<1>5. CASE Tail(q) # << >>
  <2>1. Len(Tail(q)) # 0
    BY <1>1, <1>5, EmptySeq
  <2>2. Len(Tail(q)) \in 1..Len(Tail(q)) /\ Len(Tail(q)) + 1 = Len(q)
    BY <1>1, <1>2, <1>3, <2>1
  <2>. QED BY <1>1, <1>5, <2>2
<1>. QED BY <1>4, <1>5

LEMMA UpdateKeepsCaughtUp ==
  ASSUME CaughtUpInv, NEW p \in Frame, UpdateProgress(p), UNCHANGED <<handler, sent>>
  PROVE  NewestIsStored' /\ NothingMissed'
<1>1. /\ progress' = p /\ listed' = listed /\ missed \subseteq missed'
      /\ \A t \in Tabs : \/ chan'[t] = chan[t] /\ (t \in listed => t \in missed')
                         \/ t \in listed /\ chan'[t] = Append(chan[t], p)
  BY UpdateType DEF CaughtUpInv, HubInv
<1>2. \A t \in listed : t \notin missed' => chan'[t] = Append(chan[t], p)
  BY <1>1 DEF CaughtUpInv, HubInv, TypeOK
<1>3. \A t \in listed : /\ Append(chan[t], p) # << >>
                        /\ Append(chan[t], p)[Len(Append(chan[t], p))] = p
  <2>1. \A t \in listed : chan[t] \in Seq(Frame)
    BY DEF CaughtUpInv, HubInv, TypeOK
  <2>. QED BY <2>1, NewestOfAppend
<1>. QED BY <1>1, <1>2, <1>3 DEF NewestIsStored, NothingMissed

LEMMA CaughtUpStep == CaughtUpInv /\ [Next]_vars => CaughtUpInv'
<1>. SUFFICES ASSUME CaughtUpInv, [Next]_vars PROVE NewestIsStored' /\ NothingMissed'
  BY HubStep DEF CaughtUpInv
<1>0. HubInv /\ TypeOK /\ NewestIsStored /\ NothingMissed
  BY DEF CaughtUpInv, HubInv
<1>1. CASE SaveDataset \/ UNCHANGED vars \/ \E r \in Runs : Schedule(r)
  BY <1>0, <1>1 DEF SaveDataset, Schedule, vars, NewestIsStored, NothingMissed
<1>2. CASE DeleteBatch
  BY <1>2 DEF DeleteBatch, NewestIsStored, NothingMissed
<1>3. ASSUME NEW r \in Runs, RunStep(r) PROVE NewestIsStored' /\ NothingMissed'
  <2>1. UNCHANGED <<handler, sent>>
        /\ (UNCHANGED <<progress, hub>> \/ \E p \in Frame : UpdateProgress(p))
    BY <1>0, <1>3, RunSteps DEF RunMoves, Speaks
  <2>2. CASE UNCHANGED <<progress, hub>>
    BY <1>0, <2>1, <2>2 DEF NewestIsStored, NothingMissed
  <2>. QED BY <2>1, <2>2, UpdateKeepsCaughtUp
<1>4. ASSUME NEW t \in Tabs, Click(t) \/ ConnectionLost(t)
      PROVE  NewestIsStored' /\ NothingMissed'
  BY <1>0, <1>4 DEF Click, ConnectionLost, NewestIsStored, NothingMissed
<1>5. ASSUME NEW t \in Tabs, Register(t) PROVE NewestIsStored' /\ NothingMissed'
  <2>1. /\ listed' = listed \cup {t} /\ UNCHANGED <<progress, chan, missed, sent>>
        /\ handler' = [handler EXCEPT ![t] = "registered"] /\ NotOpened(t)
    BY <1>5 DEF Register, NotOpened
  <2>2. chan[t] = << >> /\ t \notin listed
    BY <1>0, <2>1 DEF HubInv, ChannelIsNew
  <2>3. handler'[t] # "stream" /\ \A u \in listed : handler'[u] = handler[u]
    BY <1>0, <2>1, <2>2 DEF TypeOK
  <2>. QED BY <1>0, <2>1, <2>2, <2>3 DEF NewestIsStored, NothingMissed
<1>6. ASSUME NEW t \in Tabs, Replay(t) PROVE NewestIsStored' /\ NothingMissed'
  <2>1. UNCHANGED <<progress, hub>> /\ \A u \in Tabs : u # t =>
          handler'[u] = handler[u] /\ sent'[u] = sent[u]
    <3>1. UNCHANGED <<progress, hub>> /\ handler' = [handler EXCEPT ![t] = "stream"]
          /\ (sent' = sent \/ sent' = [sent EXCEPT ![t] = progress])
      BY <1>6 DEF Replay
    <3>. QED BY <1>0, <3>1 DEF TypeOK
  <2>2. progress # NoFrame => sent'[t] = progress
    BY <1>0, <1>6 DEF Replay, TypeOK
  <2>. QED BY <1>0, <2>1, <2>2 DEF NewestIsStored, NothingMissed, TypeOK
<1>7. ASSUME NEW t \in Tabs, Deliver(t) PROVE NewestIsStored' /\ NothingMissed'
  <2>1. /\ UNCHANGED <<progress, listed, missed, handler>> /\ chan[t] # << >>
        /\ chan' = [chan EXCEPT ![t] = Tail(@)]
        /\ sent' = [sent EXCEPT ![t] = Head(chan[t])] /\ handler[t] = "stream"
    BY <1>7 DEF Deliver
  <2>2. /\ chan'[t] = Tail(chan[t]) /\ sent'[t] = Head(chan[t])
        /\ \A u \in Tabs : u # t => chan'[u] = chan[u] /\ sent'[u] = sent[u]
    BY <1>0, <2>1 DEF TypeOK
  <2>3. chan[t] \in Seq(Frame)
    BY <1>0 DEF TypeOK
  <2>4. chan'[t] # << >> => chan'[t][Len(chan'[t])] = chan[t][Len(chan[t])]
    BY <2>1, <2>2, <2>3, NewestOfTail
  <2>5. chan'[t] = << >> => sent'[t] = chan[t][Len(chan[t])]
    BY <2>1, <2>2, <2>3, NewestOfTail
  <2>. QED BY <1>0, <2>1, <2>2, <2>4, <2>5 DEF NewestIsStored, NothingMissed, TypeOK
<1>8. ASSUME NEW t \in Tabs, Unregister(t) \/ ChannelClosed(t)
      PROVE  NewestIsStored' /\ NothingMissed'
  <2>1. /\ listed' = listed \ {t} /\ UNCHANGED <<progress, missed, sent>>
        /\ (chan' = chan \/ chan' = [chan EXCEPT ![t] = << >>])
        /\ handler' = [handler EXCEPT ![t] = "ended"]
    BY <1>8 DEF Unregister, ChannelClosed
  <2>2. \A u \in listed' : u # t /\ chan'[u] = chan[u] /\ handler'[u] = handler[u]
    BY <1>0, <2>1 DEF TypeOK
  <2>. QED BY <1>0, <2>1, <2>2 DEF NewestIsStored, NothingMissed
<1>. QED
  BY NextSteps, <1>1, <1>2, <1>3, <1>4, <1>5, <1>6, <1>7, <1>8 DEF StreamStep

\* A handler that has caught up has written the newest progress: no update falls
\* between the replay of the stored frame and the stream.
THEOREM CaughtUpHasNewest == Spec => []NothingMissed
<1>1. Init => CaughtUpInv
  BY HubInit DEF Init, CaughtUpInv, NewestIsStored, NothingMissed
<1>2. CaughtUpInv => NothingMissed
  BY DEF CaughtUpInv
<1>. QED BY <1>1, <1>2, CaughtUpStep, PTL DEF Spec

(***************************************************************************)
(* The last word.                                                          *)
(***************************************************************************)

UnderWay == {"matching", "matched", "saved", "unsaved"}
\* A frame that says RUNNING is of a run that is not over.
RunningIsUnderWay == progress.status = "RUNNING" => progress.run \in Runs
                       /\ phase[progress.run] \in UnderWay
WordInv == TypeOK /\ RunningIsUnderWay /\ LastWordIsTrue

\* A run that moves without a word, unless it is into an end that calls for one.
LEMMA SilentStep ==
  ASSUME WordInv, NEW r \in Runs, NEW to, UNCHANGED progress,
         phase' = [phase EXCEPT ![r] = to],
         \/ phase[r] \in {"idle", "spawned"} /\ to \in {"spawned", "matching", "rejected"}
         \/ phase[r] \in {"matching", "matched"} /\ to \in {"matched", "saved", "unsaved"}
  PROVE  RunningIsUnderWay' /\ LastWordIsTrue'
<1>1. phase'[r] = to /\ to \notin {"failed", "done", "idle"}
      /\ \A q \in Runs : q # r => phase'[q] = phase[q]
  BY DEF WordInv, TypeOK
<1>2. RunningIsUnderWay'
  BY <1>1 DEF WordInv, RunningIsUnderWay, UnderWay
<1>3. \A q \in Runs : progress.run = q =>
        /\ phase'[q] = "failed" => progress.status = "FAILED"
        /\ phase'[q] = "done" => progress.status = "COMPLETED"
  BY <1>1 DEF WordInv, LastWordIsTrue
<1>4. progress # NoFrame => Terminal(progress) \/ progress.status = "RUNNING"
  BY DEF WordInv, TypeOK, Frame, Terminal
<1>5. progress.status = "RUNNING" => phase'[progress.run] \notin Ended \cup {"idle"}
      /\ progress.run \in Runs
  BY <1>2 DEF RunningIsUnderWay, UnderWay, Ended
<1>. QED BY <1>2, <1>3, <1>4, <1>5 DEF LastWordIsTrue

\* A run that says RUNNING while it is matching.
LEMMA RunningStep ==
  ASSUME WordInv, NEW r \in Runs, NEW n, UNCHANGED phase, phase[r] = "matching",
         progress' = [run |-> r, status |-> "RUNNING", n |-> n]
  PROVE  RunningIsUnderWay' /\ LastWordIsTrue'
BY DEF WordInv, RunningIsUnderWay, LastWordIsTrue, UnderWay, Ended

\* A run that reports its end, or what it takes for it.
LEMMA FinalStep ==
  ASSUME WordInv, NEW r \in Runs, NEW to, NEW st \in {"COMPLETED", "FAILED"},
         progress' = Final(r, st), phase' = [phase EXCEPT ![r] = to],
         \/ to = "matched"
         \/ to = "done" /\ st = "COMPLETED"
         \/ to = "failed" /\ st = "FAILED"
  PROVE  RunningIsUnderWay' /\ LastWordIsTrue'
<1>1. phase'[r] = to /\ progress'.run = r /\ progress'.status = st
  BY DEF WordInv, TypeOK, Final
<1>. QED BY <1>1 DEF RunningIsUnderWay, LastWordIsTrue, Terminal

LEMMA WordStep == WordInv /\ [Next]_vars => WordInv'
<1>. SUFFICES ASSUME WordInv, [Next]_vars PROVE RunningIsUnderWay' /\ LastWordIsTrue'
  BY TypeStep DEF WordInv
<1>. USE DEF Step
<1>1. CASE UNCHANGED <<progress, phase>>
  BY <1>1 DEF WordInv, RunningIsUnderWay, LastWordIsTrue
<1>2. CASE DeleteBatch
  <2>1. progress' = NoFrame /\ phase' = phase
    BY <1>2 DEF DeleteBatch
  <2>. QED BY <2>1, NoRunAssumption DEF NoFrame, RunningIsUnderWay, LastWordIsTrue
<1>3. ASSUME NEW r \in Runs, Schedule(r) \/ RunStep(r)
      PROVE  RunningIsUnderWay' /\ LastWordIsTrue'
  <2>1. CASE Schedule(r) \/ Begin(r)
    BY <2>1, SilentStep DEF Schedule, Begin
  <2>2. ASSUME NEW n \in Reports, Report(r, n) PROVE RunningIsUnderWay' /\ LastWordIsTrue'
    BY <2>2, RunningStep DEF Report, UpdateProgress
  <2>3. CASE Matched(r) \/ ReportSaved(r)
    BY <2>3, FinalStep DEF Matched, ReportSaved, UpdateProgress
  <2>4. CASE ReportFailed(r)
    BY <2>4, FinalStep DEF ReportFailed, UpdateProgress
  <2>5. CASE NothingToMatch(r) \/ Save(r) \/ SaveFails(r)
    BY <2>5, SilentStep DEF NothingToMatch, Save, SaveFails
  <2>. QED BY <1>3, <2>1, <2>2, <2>3, <2>4, <2>5 DEF RunStep
<1>4. ASSUME NEW t \in Tabs, Click(t) PROVE RunningIsUnderWay' /\ LastWordIsTrue'
  BY <1>4, SilentStep DEF Click
<1>5. SaveDataset => UNCHANGED <<progress, phase>>
  BY DEF SaveDataset
<1>6. ASSUME NEW t \in Tabs, StreamStep(t) \/ ConnectionLost(t) PROVE UNCHANGED <<progress, phase>>
  BY <1>6 DEF StreamStep, Register, Replay, Deliver, Unregister, ChannelClosed, ConnectionLost
<1>7. UNCHANGED vars => UNCHANGED <<progress, phase>>
  BY DEF vars
<1>. QED BY NextSteps, <1>1, <1>2, <1>3, <1>4, <1>5, <1>6, <1>7

\* What the stored progress says of its run is true once that run is over, however
\* runs overlap, and nothing is said to be running when nothing is.
THEOREM LastWordStands == Spec => []LastWordIsTrue
<1>1. Init => WordInv
  BY InitType, NoRunAssumption DEF Init, WordInv, RunningIsUnderWay, LastWordIsTrue, NoFrame
<1>2. WordInv => LastWordIsTrue
  BY DEF WordInv
<1>. QED BY <1>1, <1>2, WordStep, PTL DEF Spec

(***************************************************************************)
(* Ends of earlier runs.  A tab remembers, for the proof, which runs had   *)
(* ended when it was clicked: they say nothing more, so the only frame of  *)
(* theirs a tab can get is the replayed one, which is its first.           *)
(***************************************************************************)

EndsAreOver == \A t \in Tabs : \A q \in tab[t].before : phase[q] \in Ended
ChannelIsNews ==
  \A t \in Tabs : \A i \in 1..Len(chan[t]) : chan[t][i].run \notin tab[t].before
ReplayIsFirst ==
  \A t \in Tabs : /\ NotOpened(t) \/ handler[t] = "registered" => tab[t].first = TRUE
                  /\ NotOpened(t) => tab[t].shown = NoFrame
OldEndInv == HubInv /\ EndsAreOver /\ ChannelIsNews /\ ReplayIsFirst /\ OldEndIgnored
OldEndParts == EndsAreOver /\ ChannelIsNews /\ ReplayIsFirst /\ OldEndIgnored

\* A tab that only moves on, and leaves the new tabs if it was one.
LEMMA MovingOnKeepsOldEnd ==
  ASSUME OldEndInv, NEW t \in Tabs, NEW pc \in {"listening", "closed"},
         tab' = [tab EXCEPT ![t].pc = pc], UNCHANGED phase,
         \A u \in Tabs : chan'[u] = chan[u] \/ chan'[u] = << >>,
         \A u \in Tabs : handler'[u] = "registered" /\ handler[u] # "registered"
                           => NotOpened(u)
  PROVE  OldEndParts'
<1>1. tab'[t] = [tab[t] EXCEPT !.pc = pc] /\ \A u \in Tabs : u # t => tab'[u] = tab[u]
  BY TabMoves DEF OldEndInv, HubInv
<1>2. tab[t] \in TabState
  BY DEF OldEndInv, HubInv, TypeOK
<1>3. tab'[t].before = tab[t].before /\ tab'[t].first = tab[t].first
      /\ tab'[t].shown = tab[t].shown /\ tab'[t].pc = pc
  BY <1>1, <1>2 DEF TabState
<1>4. \A u \in Tabs : tab'[u].before = tab[u].before /\ tab'[u].first = tab[u].first
                      /\ tab'[u].shown = tab[u].shown /\ (NotOpened(u)' => NotOpened(u))
  BY <1>1, <1>3 DEF NotOpened
<1>5. EndsAreOver' /\ OldEndIgnored'
  BY <1>4 DEF OldEndInv, EndsAreOver, OldEndIgnored
<1>6. ChannelIsNews'
  <2>1. \A u \in Tabs : \A i \in 1..Len(chan'[u]) :
          i \in 1..Len(chan[u]) /\ chan'[u][i] = chan[u][i]
    BY EmptySeq
  <2>. QED BY <1>4, <2>1 DEF OldEndInv, ChannelIsNews
<1>7. ReplayIsFirst'
  BY <1>4 DEF OldEndInv, ReplayIsFirst
<1>. QED BY <1>5, <1>6, <1>7 DEF OldEndParts

\* A tab that gets a frame which is its first, or of a run that its click did not know
\* as over.
LEMMA FrameKeepsOldEnd ==
  ASSUME OldEndInv, NEW t \in Tabs, NEW p \in Frame, UNCHANGED phase,
         tab' = [tab EXCEPT ![t] = OnMessage(@, p)],
         tab[t].first = TRUE \/ p.run \notin tab[t].before,
         ~NotOpened(t), handler'[t] # "registered",
         \A u \in Tabs : u # t => handler'[u] = handler[u],
         \A u \in Tabs : \A i \in 1..Len(chan'[u]) :
           \/ i + 1 \in 1..Len(chan[u]) /\ chan'[u][i] = chan[u][i + 1]
           \/ i \in 1..Len(chan[u]) /\ chan'[u][i] = chan[u][i]
  PROVE  OldEndParts'
<1>1. tab[t] \in TabState /\ tab'[t] = OnMessage(tab[t], p)
      /\ \A u \in Tabs : u # t => tab'[u] = tab[u]
  BY DEF OldEndInv, HubInv, TypeOK
<1>2. /\ tab'[t].before = tab[t].before /\ tab'[t].pc \in {tab[t].pc, "closed"}
      /\ tab'[t].shown \in {tab[t].shown, p}
      /\ tab[t].first /\ Terminal(p) => tab'[t].shown = tab[t].shown
  BY <1>1, OnMessageType
<1>3. ~NotOpened(t)' /\ \A u \in Tabs : tab'[u].before = tab[u].before
  BY <1>1, <1>2 DEF NotOpened
<1>4. EndsAreOver' /\ ChannelIsNews'
  BY <1>3 DEF OldEndInv, EndsAreOver, ChannelIsNews
<1>5. ReplayIsFirst'
  BY <1>1, <1>3 DEF OldEndInv, ReplayIsFirst, NotOpened
<1>6. Terminal(tab'[t].shown) => tab'[t].shown.run \notin tab'[t].before
  BY <1>2 DEF OldEndInv, OldEndIgnored
<1>7. OldEndIgnored'
  BY <1>1, <1>6 DEF OldEndInv, OldEndIgnored
<1>. QED BY <1>4, <1>5, <1>7 DEF OldEndParts

LEMMA OldEndStep == OldEndInv /\ [Next]_vars => OldEndInv'
<1>. SUFFICES ASSUME OldEndInv, [Next]_vars PROVE OldEndParts'
  BY HubStep DEF OldEndInv, OldEndParts
<1>0. HubInv /\ TypeOK /\ ChannelIsNew /\ OldEndParts
  BY DEF OldEndInv, OldEndParts, HubInv
<1>1. CASE UNCHANGED <<phase, chan, handler, tab>>
  BY <1>0, <1>1 DEF OldEndParts, EndsAreOver, ChannelIsNews, ReplayIsFirst, OldEndIgnored,
                    NotOpened
<1>2. ASSUME NEW r \in Runs, Schedule(r) \/ RunStep(r) PROVE OldEndParts'
  <2>1. UNCHANGED <<handler, tab>> /\ phase[r] \notin Ended
        /\ phase' = [phase EXCEPT ![r] = phase'[r]]
        /\ (UNCHANGED chan \/ \E p \in Frame : Speaks(r, p))
    <3>1. CASE Schedule(r)
      BY <1>0, <3>1 DEF Schedule, Step, Ended, TypeOK
    <3>2. CASE RunStep(r)
      BY <1>0, <3>2, RunSteps DEF RunMoves
    <3>. QED BY <1>2, <3>1, <3>2
  <2>2. \A u \in Tabs : r \notin tab[u].before
    BY <1>0, <2>1 DEF OldEndParts, EndsAreOver
  <2>3. EndsAreOver'
    BY <1>0, <2>1, <2>2 DEF OldEndParts, EndsAreOver, TypeOK, TabState
  <2>4. ReplayIsFirst' /\ OldEndIgnored'
    BY <1>0, <2>1 DEF OldEndParts, ReplayIsFirst, OldEndIgnored, NotOpened
  <2>5. ChannelIsNews'
    <3>1. CASE UNCHANGED chan
      BY <1>0, <2>1, <3>1 DEF OldEndParts, ChannelIsNews
    <3>2. ASSUME NEW p \in Frame, Speaks(r, p) PROVE ChannelIsNews'
      <4>1. \A u \in Tabs : chan'[u] = chan[u] \/ chan'[u] = Append(chan[u], p)
        BY <1>0, <3>2, UpdateType DEF Speaks
      <4>2. \A u \in Tabs : chan[u] \in Seq(Frame)
        BY <1>0 DEF TypeOK
      <4>3. \A u \in Tabs : \A i \in 1..Len(chan'[u]) :
              \/ i \in 1..Len(chan[u]) /\ chan'[u][i] = chan[u][i]
              \/ chan'[u][i] = p
        BY <4>1, <4>2, AppendProperties, LenProperties
      <4>. QED BY <1>0, <2>1, <2>2, <3>2, <4>3 DEF OldEndParts, ChannelIsNews, Speaks
    <3>. QED BY <2>1, <3>1, <3>2
  <2>. QED BY <2>3, <2>4, <2>5 DEF OldEndParts
<1>3. ASSUME NEW t \in Tabs, Click(t) PROVE OldEndParts'
  <2>. DEFINE Over == {q \in Runs : phase[q] \in Ended}
  <2>1. PICK r \in Runs :
          /\ phase[r] = "idle" /\ phase' = [phase EXCEPT ![r] = "spawned"]
          /\ tab' = [tab EXCEPT ![t].pc = "opening", ![t].run = r, ![t].before = Over]
    BY <1>3 DEF Click, Step
  <2>2. tab' = [tab EXCEPT ![t] = [tab[t] EXCEPT !.pc = "opening", !.run = r, !.before = Over]]
    BY <2>1 DEF TypeOK
  <2>3. /\ tab'[t].before = Over /\ tab'[t].first = tab[t].first
        /\ tab'[t].shown = tab[t].shown
        /\ \A u \in Tabs : u # t => tab'[u] = tab[u]
    BY <1>0, <2>2 DEF TypeOK, TabState
  <2>4. tab[t].pc = "idle" /\ UNCHANGED <<chan, handler>>
    BY <1>3 DEF Click
  <2>5. chan[t] = << >> /\ tab[t].first = TRUE /\ tab[t].shown = NoFrame
    BY <1>0, <2>4 DEF ChannelIsNew, OldEndParts, ReplayIsFirst, NotOpened
  <2>6. \A u \in Tabs : \A q \in tab'[u].before : q \in Runs /\ phase[q] \in Ended
    BY <1>0, <2>3 DEF OldEndParts, EndsAreOver, TypeOK, TabState
  <2>7. EndsAreOver'
    BY <1>0, <2>1, <2>6 DEF EndsAreOver, TypeOK, Ended
  <2>8. ChannelIsNews'
    BY <1>0, <2>3, <2>4, <2>5, EmptySeq DEF OldEndParts, ChannelIsNews
  <2>9. ReplayIsFirst' /\ OldEndIgnored'
    <3>1. ~Terminal(NoFrame)
      BY DEF Terminal, NoFrame
    <3>. QED BY <1>0, <2>3, <2>4, <2>5, <3>1
             DEF OldEndParts, ReplayIsFirst, OldEndIgnored, NotOpened
  <2>. QED BY <2>7, <2>8, <2>9 DEF OldEndParts
<1>4. ASSUME NEW t \in Tabs, Register(t) PROVE OldEndParts'
  <2>1. /\ tab' = [tab EXCEPT ![t].pc = "listening"] /\ UNCHANGED <<phase, chan>>
        /\ NotOpened(t) /\ handler' = [handler EXCEPT ![t] = "registered"]
    BY <1>4 DEF Register, NotOpened
  <2>2. \A u \in Tabs : handler'[u] = "registered" /\ handler[u] # "registered" => NotOpened(u)
    BY <1>0, <2>1 DEF TypeOK
  <2>. QED BY <2>1, <2>2, MovingOnKeepsOldEnd
<1>5. ASSUME NEW t \in Tabs, Replay(t) PROVE OldEndParts'
  <2>1. /\ handler[t] = "registered" /\ handler' = [handler EXCEPT ![t] = "stream"]
        /\ UNCHANGED <<phase, chan>>
        /\ \/ UNCHANGED tab
           \/ progress # NoFrame /\ tab' = [tab EXCEPT ![t] = OnMessage(@, progress)]
    BY <1>5 DEF Replay
  <2>2. /\ handler'[t] # "registered" /\ ~NotOpened(t) /\ tab[t].first = TRUE
        /\ \A u \in Tabs : u # t => handler'[u] = handler[u]
    BY <1>0, <2>1 DEF TypeOK, ChannelIsNew, OldEndParts, ReplayIsFirst
  <2>3. CASE UNCHANGED tab
    BY <1>0, <2>1, <2>2, <2>3 DEF OldEndParts, EndsAreOver, ChannelIsNews, ReplayIsFirst,
                                  OldEndIgnored, NotOpened
  <2>4. CASE progress # NoFrame /\ tab' = [tab EXCEPT ![t] = OnMessage(@, progress)]
    <3>1. progress \in Frame
      BY <1>0, <2>4 DEF TypeOK
    <3>. QED BY <2>1, <2>2, <2>4, <3>1, FrameKeepsOldEnd
  <2>. QED BY <2>1, <2>3, <2>4
<1>6. ASSUME NEW t \in Tabs, Deliver(t) PROVE OldEndParts'
  <2>1. /\ handler[t] = "stream" /\ chan[t] # << >> /\ UNCHANGED <<phase, handler>>
        /\ chan' = [chan EXCEPT ![t] = Tail(@)]
        /\ tab' = [tab EXCEPT ![t] = OnMessage(@, Head(chan[t]))]
    BY <1>6 DEF Deliver
  <2>2. chan[t] \in Seq(Frame) /\ ~NotOpened(t)
    BY <1>0, <2>1 DEF TypeOK, ChannelIsNew
  <2>3. Head(chan[t]) \in Frame /\ Head(chan[t]) = chan[t][1] /\ 1 \in 1..Len(chan[t])
    BY <2>1, <2>2, HeadTailProperties, EmptySeq
  <2>4. Head(chan[t]).run \notin tab[t].before
    BY <1>0, <2>3 DEF OldEndParts, ChannelIsNews
  <2>5. \A i \in 1..Len(Tail(chan[t])) :
          i + 1 \in 1..Len(chan[t]) /\ Tail(chan[t])[i] = chan[t][i + 1]
    BY <2>1, <2>2, HeadTailProperties, EmptySeq
  <2>6. \A u \in Tabs : \A i \in 1..Len(chan'[u]) :
          \/ i + 1 \in 1..Len(chan[u]) /\ chan'[u][i] = chan[u][i + 1]
          \/ i \in 1..Len(chan[u]) /\ chan'[u][i] = chan[u][i]
    <3>1. chan'[t] = Tail(chan[t]) /\ \A u \in Tabs : u # t => chan'[u] = chan[u]
      BY <1>0, <2>1 DEF TypeOK
    <3>. SUFFICES ASSUME NEW u \in Tabs, NEW i \in 1..Len(chan'[u])
                  PROVE  \/ i + 1 \in 1..Len(chan[u]) /\ chan'[u][i] = chan[u][i + 1]
                         \/ i \in 1..Len(chan[u]) /\ chan'[u][i] = chan[u][i]
      OBVIOUS
    <3>2. CASE u = t
      BY <2>5, <3>1, <3>2, Zenon
    <3>3. CASE u # t
      <4>1. chan'[u] = chan[u]
        BY <3>1, <3>3
      <4>. QED BY <4>1
    <3>. QED BY <3>2, <3>3
  <2>. QED BY <2>1, <2>2, <2>3, <2>4, <2>6, FrameKeepsOldEnd
<1>7. ASSUME NEW t \in Tabs, Unregister(t) PROVE OldEndParts'
  <2>1. UNCHANGED <<phase, tab>> /\ chan' = [chan EXCEPT ![t] = << >>]
        /\ handler' = [handler EXCEPT ![t] = "ended"]
    BY <1>7 DEF Unregister
  <2>2. \A u \in Tabs : handler'[u] = "registered" => handler[u] = "registered"
    BY <1>0, <2>1 DEF TypeOK
  <2>3. \A u \in Tabs : \A i \in 1..Len(chan'[u]) :
          i \in 1..Len(chan[u]) /\ chan'[u][i] = chan[u][i]
    BY <1>0, <2>1, EmptySeq DEF TypeOK
  <2>. QED BY <1>0, <2>1, <2>2, <2>3 DEF OldEndParts, EndsAreOver, ChannelIsNews,
                                         ReplayIsFirst, OldEndIgnored, NotOpened
<1>8. ASSUME NEW t \in Tabs, ChannelClosed(t) \/ ConnectionLost(t) PROVE OldEndParts'
  <2>1. tab' = [tab EXCEPT ![t].pc = "closed"] /\ UNCHANGED <<phase, chan>>
        /\ (UNCHANGED handler \/ handler' = [handler EXCEPT ![t] = "ended"])
    BY <1>8 DEF ChannelClosed, ConnectionLost
  <2>2. \A u \in Tabs : handler'[u] = "registered" => handler[u] = "registered"
    BY <1>0, <2>1 DEF TypeOK
  <2>. QED BY <2>1, <2>2, MovingOnKeepsOldEnd
<1>9. SaveDataset \/ DeleteBatch \/ UNCHANGED vars => UNCHANGED <<phase, chan, handler, tab>>
  BY DEF SaveDataset, DeleteBatch, vars
<1>. QED
  BY NextSteps, <1>1, <1>2, <1>3, <1>4, <1>5, <1>6, <1>7, <1>8, <1>9 DEF StreamStep

\* A tab never shows the end of a run that had ended before the click as the end of the
\* run it asked for, whatever overlaps and whatever is dropped.
THEOREM OldEndStaysIgnored == Spec => []OldEndIgnored
<1>1. Init => OldEndInv
  <2>. SUFFICES ASSUME Init PROVE EndsAreOver /\ ChannelIsNews /\ ReplayIsFirst /\ OldEndIgnored
    BY HubInit DEF OldEndInv
  <2>. QED BY EmptySeq DEF Init, FreshTab, NoFrame, Terminal, EndsAreOver, ChannelIsNews,
                           ReplayIsFirst, OldEndIgnored
<1>2. OldEndInv => OldEndIgnored
  BY DEF OldEndInv
<1>. QED BY <1>1, <1>2, OldEndStep, PTL DEF Spec
=============================================================================
