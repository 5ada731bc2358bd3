-------------------------- MODULE SchedulerProofs --------------------------
(***************************************************************************)
(* The scheduler's guard, for any number of runs, batches and saves of the *)
(* panel.  The flag and the run that holds it are one fact in two places:  *)
(* neither "at most one run is past the guard" nor "the flag is set while  *)
(* one is" can be proved without the other, so IInv has both.              *)
(***************************************************************************)
EXTENDS Scheduler, TLAPS

Phases == {"off", "fired", "posted", "unwired", "running", "saved", "failed", "ended"}

IInv ==
  /\ pc \in [Runs -> Phases]
  /\ runInProgress \in BOOLEAN
  /\ OneScheduledRun
  /\ FlagFollowsRun

\* A step that moves no run past the guard or out of it, and leaves the flag.
LEMMA Unmoved ==
  ASSUME IInv, pc' \in [Runs -> Phases], runInProgress' = runInProgress, Holding' = Holding
  PROVE  IInv'
BY DEF IInv, OneScheduledRun, FlagFollowsRun

\* A run that leaves the guard, or fails, clears the flag: it was the only one.
LEMMA Left ==
  ASSUME IInv, NEW r \in Holding, pc' = [pc EXCEPT ![r] = "ended"], runInProgress' = FALSE
  PROVE  IInv'
<1>1. pc' \in [Runs -> Phases]
  BY DEF IInv, Phases
<1>2. Holding' = {}
  BY DEF IInv, OneScheduledRun, Holding
<1>. QED BY <1>1, <1>2 DEF IInv, OneScheduledRun, FlagFollowsRun

\* Init puts every run before the guard and clears the flag.
LEMMA InitIInv == Init => IInv
BY DEF Init, IInv, Phases, OneScheduledRun, FlagFollowsRun, Holding

\* Every step of the manager, the panel, a run and its webhooks keeps the guard.
LEMMA NextIInv == IInv /\ [Next]_vars => IInv'
<1>. SUFFICES ASSUME IInv, [Next]_vars PROVE IInv'
  OBVIOUS
<1>. USE DEF Phases
<1>1. ASSUME UNCHANGED <<pc, runInProgress>> PROVE IInv'
  BY <1>1 DEF IInv, OneScheduledRun, FlagFollowsRun, Holding
<1>2. ASSUME NEW r \in Runs, Fire(r) \/ Post(r) \/ Skip(r) PROVE IInv'
  <2>1. pc' \in [Runs -> Phases] /\ runInProgress' = runInProgress /\ Holding' = Holding
    BY <1>2 DEF IInv, Fire, Post, Skip, Goto, manager, Holding
  <2>. QED BY <2>1, Unmoved
<1>3. ASSUME NEW r \in Runs, Begin(r) PROVE IInv'
  <2>1. pc[r] = "fired" /\ ~runInProgress /\ runInProgress'
    BY <1>3 DEF Begin, MayBegin, Goto
  <2>2. Holding = {}
    BY <2>1 DEF IInv, FlagFollowsRun
  <2>3. pc' \in [Runs -> Phases] /\ Holding' = {r}
    BY <1>3, <2>2 DEF IInv, Begin, Goto, Holding
  <2>. QED BY <1>3, <2>3 DEF IInv, Begin, OneScheduledRun, FlagFollowsRun
<1>4. ASSUME NEW r \in Runs, NothingToCall(r) \/ End(r) PROVE IInv'
  <2>1. r \in Holding /\ pc' = [pc EXCEPT ![r] = "ended"] /\ runInProgress' = FALSE
    BY <1>4 DEF NothingToCall, End, Goto, Holding
  <2>. QED BY <2>1, Left
<1>5. ASSUME NEW r \in Runs, Saved(r) \/ NotSaved(r) PROVE IInv'
  <2>1. pc' \in [Runs -> Phases] /\ runInProgress' = runInProgress /\ Holding' = Holding
    BY <1>5 DEF IInv, Saved, NotSaved, Goto, manager, Holding
  <2>. QED BY <2>1, Unmoved
<1>6. ASSUME NEW r \in Runs, MailStep(r) PROVE IInv'
  <2>1. UNCHANGED <<pc, runInProgress>>
    BY <1>6 DEF MailStep, Gate, Dispatch, manager
  <2>. QED BY <2>1, <1>1
<1>7. ASSUME SetReconcileFunc \/ (\E b \in Batches : SetLastBatchID(b)) \/ PanelLoads
             \/ (\E s \in Settings : UpdateConfig(s)) \/ Stop
      PROVE  IInv'
  <2>1. UNCHANGED <<pc, runInProgress>>
    BY <1>7 DEF SetReconcileFunc, SetLastBatchID, PanelLoads, UpdateConfig, Stop, manager
  <2>. QED BY <2>1, <1>1
<1>8. CASE UNCHANGED vars
  BY <1>8, <1>1 DEF vars, manager
<1>. QED BY <1>2, <1>3, <1>4, <1>5, <1>6, <1>7, <1>8 DEF Next, RunStep

\* The invariant holds throughout.
LEMMA GuardHolds == Spec => []IInv
BY InitIInv, NextIInv, PTL DEF Spec

\* runScheduledJob's guard: at most one scheduled run is ever past it, however often
\* the schedule fires and is replaced.
THEOREM OneRunAtATime == Spec => []OneScheduledRun
<1>1. IInv => OneScheduledRun
  BY DEF IInv
<1>. QED BY <1>1, GuardHolds, PTL

\* runInProgress is set exactly while a scheduled run is past the guard.
THEOREM FlagIsNeverStuck == Spec => []FlagFollowsRun
<1>1. IInv => FlagFollowsRun
  BY DEF IInv
<1>. QED BY <1>1, GuardHolds, PTL

(***************************************************************************)
(* Webhooks.  What an attempt can take, what the three of a dispatch can   *)
(* take, and from that how long fireWebhooks can be under way.             *)
(***************************************************************************)

\* No attempt outlives the client's timeout, the context or the dispatch.
LEMMA CutIsFirst ==
  ASSUME NEW t \in Nat, NEW begun \in Nat
  PROVE  /\ Cut(t, begun) \in Nat
         /\ Cut(t, begun) <= t + ClientTimeout /\ Cut(t, begun) <= ContextEnd
<1>. DEFINE S == {t + ClientTimeout, ContextEnd, begun + MaxDuration}
<1>1. S \subseteq Nat /\ t + ClientTimeout \in S /\ ContextEnd \in S
  BY DEF ClientTimeout, ContextEnd, MaxDuration
<1>2. \E x \in S : \A y \in S : x <= y
  BY DEF ClientTimeout, ContextEnd, MaxDuration
<1>3. Cut(t, begun) \in S /\ \A y \in S : Cut(t, begun) <= y
  BY <1>2 DEF Cut, Min
<1>. QED BY <1>1, <1>3

LoopState ==
  [elapsed : Nat, sent : BOOLEAN, accepted : Nat, unheard : Nat, returned : BOOLEAN]

\* While the loop goes on, no acceptance has been heard; it ends with the one that is.
SoundLoop(l) ==
  /\ l \in LoopState
  /\ l.accepted <= l.unheard + 1
  /\ l.returned = FALSE => l.accepted = l.unheard

\* What the endpoint makes of a request while nothing that it accepted has been heard.
LEMMA RequestMade ==
  ASSUME NEW l \in LoopState, l.accepted = l.unheard, NEW reply \in Replies, NEW heard \in BOOLEAN,
         NEW made, made = AtEndpoint(l, reply, heard)
  PROVE  /\ made \in LoopState /\ made.elapsed = l.elapsed /\ made.returned = l.returned
         /\ made.accepted <= made.unheard + 1
         /\ ~(heard /\ reply.ok) => made.accepted = made.unheard
<1>1. /\ l.elapsed \in Nat /\ l.accepted \in Nat /\ l.unheard \in Nat /\ l.returned \in BOOLEAN
      /\ l = [elapsed |-> l.elapsed, sent |-> l.sent, accepted |-> l.accepted,
              unheard |-> l.unheard, returned |-> l.returned]
  BY DEF LoopState
<1>. DEFINE accepted == IF reply.ok THEN l.accepted + 1 ELSE l.accepted
            unheard == IF reply.ok /\ ~heard /\ l.accepted = l.unheard THEN l.unheard + 1
                       ELSE l.unheard
<1>2. made = [l EXCEPT !.sent = TRUE, !.accepted = accepted, !.unheard = unheard]
  BY DEF AtEndpoint
<1>3. /\ accepted \in Nat /\ unheard \in Nat /\ accepted <= unheard + 1
      /\ ~(heard /\ reply.ok) => accepted = unheard
  BY <1>1
<1>. HIDE DEF accepted, unheard
<1>4. made = [elapsed |-> l.elapsed, sent |-> TRUE, accepted |-> accepted,
              unheard |-> unheard, returned |-> l.returned]
  BY <1>1, <1>2
<1>. QED BY <1>1, <1>3, <1>4 DEF LoopState

LEMMA TrySound ==
  ASSUME NEW l, SoundLoop(l), NEW begun \in Nat, NEW n \in 1 .. 3, NEW reply \in Replies,
         NEW k, k = Try(l, begun, n, reply)
  PROVE  /\ SoundLoop(k)
         /\ k.elapsed <= l.elapsed + ClientTimeout + Delay(n)
         /\ k.elapsed <= l.elapsed + Delay(n) \/ k.elapsed <= ContextEnd + Delay(n)
<1>. DEFINE t == l.elapsed
            cut == Cut(t, begun)
            heard == Heard(l, begun, reply)
            until == Until(l, begun, reply)
            made == AtEndpoint(l, reply, heard)
<1>1. Delay(n) \in Nat /\ ClientTimeout = 20 /\ ContextEnd = 60
  BY DEF Delay, ClientTimeout, ContextEnd
<1>2. l \in LoopState /\ t \in Nat /\ reply.after \in Nat /\ reply.lost \in BOOLEAN
      /\ l.returned \in BOOLEAN
  BY LatenciesAssumption DEF SoundLoop, LoopState, Replies
<1>3. cut \in Nat /\ cut <= t + 20 /\ cut <= 60
  BY <1>1, <1>2, CutIsFirst
<1>4. until \in Nat /\ until <= t + 20 /\ until <= 60
  BY <1>2, <1>3 DEF Until, InTime
<1>a. heard \in BOOLEAN
  BY <1>2, <1>3 DEF Heard, InTime
<1>5. CASE l.returned \/ t > begun + MaxDuration
  <2>1. k = [l EXCEPT !.returned = TRUE]
    BY <1>5 DEF Try
  <2>2. k \in LoopState /\ k.elapsed = t /\ k.accepted = l.accepted /\ k.unheard = l.unheard
        /\ k.returned = TRUE
    BY <1>2, <2>1 DEF LoopState
  <2>. QED BY <1>1, <1>2, <2>2 DEF SoundLoop
<1>6. CASE ~(l.returned \/ t > begun + MaxDuration) /\ t >= ContextEnd
  <2>1. k = [l EXCEPT !.elapsed = t + Delay(n)]
    BY <1>6 DEF Try
  <2>2. k \in LoopState /\ k.elapsed = t + Delay(n) /\ k.accepted = l.accepted
        /\ k.unheard = l.unheard /\ k.returned = l.returned
    BY <1>1, <1>2, <2>1 DEF LoopState
  <2>. QED BY <1>1, <1>2, <2>2 DEF SoundLoop
<1>7. CASE ~(l.returned \/ t > begun + MaxDuration) /\ ~(t >= ContextEnd)
  <2>1. l.accepted = l.unheard
    BY <1>2, <1>7 DEF SoundLoop
  <2>2. /\ made \in LoopState /\ made.elapsed = t /\ made.returned = l.returned
        /\ made.accepted <= made.unheard + 1
        /\ ~(heard /\ reply.ok) => made.accepted = made.unheard
    <3>. HIDE DEF heard
    <3>. QED BY <1>2, <1>a, <2>1, RequestMade
  <2>3. k = IF heard /\ reply.ok THEN [made EXCEPT !.returned = TRUE, !.elapsed = until]
            ELSE [made EXCEPT !.elapsed = until + Delay(n)]
    BY <1>7 DEF Try
  <2>. HIDE DEF made, heard, until, cut
  <2>4. CASE heard /\ reply.ok
    <3>1. k = [made EXCEPT !.returned = TRUE, !.elapsed = until]
      BY <2>3, <2>4
    <3>2. k \in LoopState /\ k.elapsed = until /\ k.accepted = made.accepted
          /\ k.unheard = made.unheard /\ k.returned = TRUE
      BY <1>4, <2>2, <3>1 DEF LoopState
    <3>. QED BY <1>1, <1>2, <1>4, <2>2, <3>2 DEF SoundLoop
  <2>5. CASE ~(heard /\ reply.ok)
    <3>1. k = [made EXCEPT !.elapsed = until + Delay(n)]
      BY <2>3, <2>5
    <3>2. k \in LoopState /\ k.elapsed = until + Delay(n) /\ k.accepted = made.accepted
          /\ k.unheard = made.unheard /\ k.returned = made.returned
      BY <1>1, <1>4, <2>2, <3>1 DEF LoopState
    <3>3. k.accepted = k.unheard /\ k.accepted \in Nat /\ k.unheard \in Nat
      BY <2>2, <2>5, <3>2 DEF LoopState
    <3>. QED BY <1>1, <1>2, <1>4, <3>2, <3>3 DEF SoundLoop
  <2>. QED BY <2>4, <2>5
<1>. QED BY <1>5, <1>6, <1>7

LEMMA TriedIsATry ==
  ASSUME NEW ls, NEW begun, NEW n, NEW k \in Tried(ls, begun, n)
  PROVE  \E l \in ls, reply \in Replies : k = Try(l, begun, n, reply)
BY DEF Tried

\* The first dispatch leaves the context at most used up; a second one adds its delays.
LEMMA LoopIsBounded ==
  ASSUME NEW begun \in 0 .. ContextEnd, NEW l \in LoopEnds[begun]
  PROVE  /\ SoundLoop(l) /\ l.elapsed <= ContextEnd + Delay(1) + Delay(2)
         /\ begun = 0 => l.elapsed <= ContextEnd
<1>0. begun \in Nat /\ begun <= 60 /\ ContextEnd = 60 /\ ClientTimeout = 20
      /\ Delay(1) = 1 /\ Delay(2) = 2 /\ Delay(3) = 0
  BY DEF ContextEnd, ClientTimeout, Delay
<1>. DEFINE l0 == LoopStart(begun)
<1>1. LoopEnds[begun] = Tried(Tried(Tried({l0}, begun, 1), begun, 2), begun, 3)
  BY DEF LoopEnds, ContextEnd, MaxDuration
<1>2. PICK l2 \in Tried(Tried({l0}, begun, 1), begun, 2), p3 \in Replies :
        l = Try(l2, begun, 3, p3)
  BY <1>1, TriedIsATry
<1>3. PICK l1 \in Tried({l0}, begun, 1), p2 \in Replies : l2 = Try(l1, begun, 2, p2)
  BY TriedIsATry
<1>4. PICK p1 \in Replies : l1 = Try(l0, begun, 1, p1)
  BY TriedIsATry
<1>5. SoundLoop(l0) /\ l0.elapsed = begun
  BY <1>0 DEF SoundLoop, LoopState, LoopStart
<1>. HIDE DEF l0
<1>n. 1 \in 1 .. 3 /\ 2 \in 1 .. 3 /\ 3 \in 1 .. 3
  OBVIOUS
<1>6. SoundLoop(l1) /\ l1.elapsed <= begun + 20 + 1 /\ l1.elapsed <= 61
  <2>1. /\ SoundLoop(l1) /\ l1.elapsed <= l0.elapsed + ClientTimeout + Delay(1)
        /\ l1.elapsed <= l0.elapsed + Delay(1) \/ l1.elapsed <= ContextEnd + Delay(1)
    BY <1>0, <1>4, <1>5, <1>n, TrySound, Zenon
  <2>2. l1.elapsed \in Nat
    BY <2>1 DEF SoundLoop, LoopState
  <2>. QED BY <1>0, <1>5, <2>1, <2>2
<1>7. SoundLoop(l2) /\ l2.elapsed <= begun + 43 /\ l2.elapsed <= 63
  <2>1. /\ SoundLoop(l2) /\ l2.elapsed <= l1.elapsed + ClientTimeout + Delay(2)
        /\ l2.elapsed <= l1.elapsed + Delay(2) \/ l2.elapsed <= ContextEnd + Delay(2)
    BY <1>0, <1>3, <1>6, <1>n, TrySound, Zenon
  <2>2. l1.elapsed \in Nat /\ l2.elapsed \in Nat
    BY <1>6, <2>1 DEF SoundLoop, LoopState
  <2>. QED BY <1>0, <1>6, <2>1, <2>2
<1>8. /\ SoundLoop(l)
      /\ l.elapsed <= l2.elapsed + Delay(3) \/ l.elapsed <= ContextEnd + Delay(3)
  BY <1>0, <1>2, <1>7, <1>n, TrySound, Zenon
<1>9. l2.elapsed \in Nat /\ l.elapsed \in Nat
  BY <1>7, <1>8 DEF SoundLoop, LoopState
<1>. QED BY <1>0, <1>7, <1>8, <1>9

(***************************************************************************)
(* The mail of a run.                                                      *)
(***************************************************************************)

SoundMail(m) ==
  /\ m \in Mail
  /\ \A e \in Events : m.accepted[e] <= m.unheard[e] + 1
  /\ m.elapsed <= ContextEnd + Delay(1) + Delay(2)
  /\ m.at \in {"off", "gate", "RECONCILIATION_COMPLETED"} =>
       m.elapsed = 0
  /\ m.at = "ANOMALY_DETECTED" => m.elapsed <= ContextEnd

\* fireWebhooks begins once, when its run has been saved.
MailInv ==
  /\ mail \in [Runs -> Mail] /\ pc \in [Runs -> Phases]
  /\ \A r \in Runs : SoundMail(mail[r])
  /\ \A r \in Runs : pc[r] \notin {"saved", "ended"} => mail[r].at = "off"

\* A run whose mail moves on while its goroutine does not.
LEMMA MailMoves ==
  ASSUME MailInv, NEW r \in Runs, NEW m, SoundMail(m), mail[r].at # "off",
         mail' = [mail EXCEPT ![r] = m], UNCHANGED pc
  PROVE  MailInv'
<1>1. m \in Mail
  BY DEF SoundMail
<1>2. mail' \in [Runs -> Mail] /\ mail'[r] = m
      /\ \A q \in Runs : q # r => mail'[q] = mail[q]
  BY <1>1 DEF MailInv
<1>. QED BY <1>2 DEF MailInv

\* A run that goes on without a word.
LEMMA RunMovesOn ==
  ASSUME MailInv, NEW r \in Runs, NEW ph \in Phases, pc' = [pc EXCEPT ![r] = ph],
         pc[r] \notin {"saved", "ended"} \/ ph \in {"saved", "ended"}, UNCHANGED mail
  PROVE  MailInv'
BY DEF MailInv

LEMMA GateSound ==
  ASSUME MailInv, TypeOK, NEW r \in Runs, Gate(r)
  PROVE  MailInv'
<1>. DEFINE s == config.settings
            m == [mail[r] EXCEPT !.onSuccess = s.onSuccess, !.onAnomaly = s.onAnomaly]
<1>1. s.onSuccess \in BOOLEAN /\ s.onAnomaly \in BOOLEAN
  <2>1. s \in Settings \cup {DefaultSettings}
    BY DEF TypeOK, Config
  <2>2. \A x \in Settings : x.onSuccess \in BOOLEAN /\ x.onAnomaly \in BOOLEAN
    BY SettingsAssumption
  <2>3. DefaultSettings.onSuccess \in BOOLEAN /\ DefaultSettings.onAnomaly \in BOOLEAN
    BY DEF DefaultSettings
  <2>. QED BY <2>1, <2>2, <2>3
<1>2. mail[r] \in Mail /\ mail[r].at = "gate" /\ mail[r].elapsed = 0
      /\ \A e \in Events : mail[r].accepted[e] <= mail[r].unheard[e] + 1
  BY DEF Gate, MailInv, SoundMail
<1>3. m \in Mail /\ m.elapsed = 0 /\ m.accepted = mail[r].accepted /\ m.unheard = mail[r].unheard
  BY <1>1, <1>2 DEF Mail
<1>4. PICK at \in {"done", "RECONCILIATION_COMPLETED", "ANOMALY_DETECTED"} :
        mail' = [mail EXCEPT ![r] = [m EXCEPT !.at = at]]
  BY DEF Gate, Leave, Onwards
<1>. HIDE DEF m
<1>. DEFINE k == [m EXCEPT !.at = at]
<1>5. k \in Mail /\ k.at = at /\ k.elapsed = 0 /\ k.accepted = m.accepted /\ k.unheard = m.unheard
  BY <1>3 DEF Mail, Events
<1>. HIDE DEF k
<1>6. SoundMail(k)
  BY <1>2, <1>3, <1>5 DEF SoundMail, Events, ContextEnd, Delay
<1>7. mail' = [mail EXCEPT ![r] = k] /\ UNCHANGED pc
  BY <1>4 DEF Gate, k
<1>. QED BY <1>2, <1>6, <1>7, MailMoves

LEMMA DispatchSound ==
  ASSUME MailInv, NEW r \in Runs, NEW e \in Events, Dispatch(r, e)
  PROVE  MailInv'
<1>. DEFINE m == mail[r]
            at == Onwards(m, e)
<1>1. m.at = e /\ SoundMail(m) /\ m \in Mail /\ m.at # "off"
  BY DEF Dispatch, MailInv, SoundMail, Events
<1>2. at = "done" \/ (e = "RECONCILIATION_COMPLETED" /\ at = "ANOMALY_DETECTED")
  BY DEF Onwards
<1>3. m.elapsed \in 0 .. ContextEnd /\ (e = "RECONCILIATION_COMPLETED" => m.elapsed = 0)
  BY <1>1 DEF SoundMail, Mail, Events, ContextEnd
<1>. HIDE DEF at
<1>4. CASE mail' = [mail EXCEPT ![r] = Leave(@, e)]
  <2>. DEFINE k == [m EXCEPT !.at = at]
  <2>1. k \in Mail /\ k.at = at /\ k.elapsed = m.elapsed /\ k.accepted = m.accepted
        /\ k.unheard = m.unheard
    BY <1>1, <1>2 DEF Mail, Events
  <2>2. mail' = [mail EXCEPT ![r] = k] /\ UNCHANGED pc
    BY <1>4 DEF Leave, at, Dispatch
  <2>. HIDE DEF k
  <2>3. SoundMail(k)
    BY <1>1, <1>2, <1>3, <2>1 DEF SoundMail, Events
  <2>. QED BY <1>1, <2>2, <2>3, MailMoves
<1>5. ASSUME NEW l \in LoopEnds[m.elapsed],
             mail' = [mail EXCEPT ![r] = Leave(After(m, e, l), e)]
      PROVE  MailInv'
  <2>1. SoundLoop(l) /\ l.elapsed <= ContextEnd + Delay(1) + Delay(2)
        /\ (m.elapsed = 0 => l.elapsed <= ContextEnd)
    BY <1>3, LoopIsBounded
  <2>2. l.elapsed \in Nat /\ l.accepted \in Nat /\ l.unheard \in Nat /\ l.accepted <= l.unheard + 1
    BY <2>1 DEF SoundLoop, LoopState
  <2>. DEFINE sent == IF l.sent THEN m.sent \cup {e} ELSE m.sent
              accepted == [m.accepted EXCEPT ![e] = l.accepted]
              unheard == [m.unheard EXCEPT ![e] = l.unheard]
              j == [m EXCEPT !.elapsed = l.elapsed, !.accepted = accepted, !.unheard = unheard,
                             !.sent = sent]
              at2 == Onwards(j, e)
              k == [j EXCEPT !.at = at2]
  <2>3. /\ sent \in SUBSET Events /\ accepted \in [Events -> Nat] /\ unheard \in [Events -> Nat]
        /\ \A f \in Events : accepted[f] = IF f = e THEN l.accepted ELSE m.accepted[f]
        /\ \A f \in Events : unheard[f] = IF f = e THEN l.unheard ELSE m.unheard[f]
    <3>1. m.sent \in SUBSET Events /\ m.accepted \in [Events -> Nat] /\ m.unheard \in [Events -> Nat]
      BY <1>1 DEF Mail
    <3>2. sent \in SUBSET Events
      BY <3>1
    <3>3. /\ accepted \in [Events -> Nat]
          /\ \A f \in Events : accepted[f] = IF f = e THEN l.accepted ELSE m.accepted[f]
      BY <2>2, <3>1
    <3>4. /\ unheard \in [Events -> Nat]
          /\ \A f \in Events : unheard[f] = IF f = e THEN l.unheard ELSE m.unheard[f]
      BY <2>2, <3>1
    <3>. HIDE DEF sent, accepted, unheard
    <3>. QED BY <3>2, <3>3, <3>4
  <2>. HIDE DEF sent, accepted, unheard
  <2>4. j \in Mail /\ j.elapsed = l.elapsed /\ j.accepted = accepted /\ j.unheard = unheard
    BY <1>1, <2>2, <2>3 DEF Mail
  <2>5. at2 = "done" \/ (e = "RECONCILIATION_COMPLETED" /\ at2 = "ANOMALY_DETECTED")
    BY DEF Onwards
  <2>6. mail' = [mail EXCEPT ![r] = k] /\ UNCHANGED pc
    <3>1. After(m, e, l) = j
      BY <1>1 DEF After, sent, accepted, unheard, Mail
    <3>. HIDE DEF j
    <3>2. mail' = [mail EXCEPT ![r] = Leave(j, e)]
      BY <1>5, <3>1, Zenon
    <3>. QED BY <3>2 DEF Leave, Dispatch
  <2>. HIDE DEF j, at2
  <2>7. k \in Mail /\ k.at = at2 /\ k.elapsed = l.elapsed /\ k.accepted = accepted
        /\ k.unheard = unheard
    BY <2>4, <2>5 DEF Mail, Events
  <2>. HIDE DEF k
  <2>8. SoundMail(k)
    <3>1. \A f \in Events : k.accepted[f] <= k.unheard[f] + 1
      <4>1. \A f \in Events : m.accepted[f] <= m.unheard[f] + 1
        BY <1>1 DEF SoundMail
      <4>. QED BY <2>2, <2>3, <2>7, <4>1
    <3>2. e = "RECONCILIATION_COMPLETED" => l.elapsed <= ContextEnd
      BY <1>1, <2>1 DEF SoundMail
    <3>. QED BY <2>1, <2>5, <2>7, <3>1, <3>2 DEF SoundMail
  <2>. QED BY <1>1, <2>6, <2>8, MailMoves
<1>. QED BY <1>4, <1>5 DEF Dispatch

(***************************************************************************)
(* Types, and what follows from how mail goes on.                          *)
(***************************************************************************)

DeskOK ==
  /\ config \in Config /\ panel \in Config /\ panelSaves \in 0 .. MaxSaves
  /\ entry \in BOOLEAN /\ ticking \in BOOLEAN /\ wired \in BOOLEAN
  /\ runInProgress \in BOOLEAN /\ staleSave \in BOOLEAN
  /\ lastBatch \in Batches \cup {NoBatch}
  /\ lastEnded \in Runs \cup {NoRun} /\ panelSaw \in Runs \cup {NoRun}
TypeInv == TypeOK /\ DeskOK /\ MailInv

LEMMA TypeInit == Init => TypeInv
<1>. SUFFICES ASSUME Init PROVE DeskOK /\ MailInv
  BY DEF TypeInv, TypeOK, DeskOK, MailInv, Phases
<1>1. NoMail \in Mail /\ NoMail.at = "off" /\ NoMail.elapsed = 0
      /\ \A e \in Events : NoMail.accepted[e] = 0 /\ NoMail.unheard[e] = 0
  BY DEF NoMail, Mail
<1>2. SoundMail(NoMail)
  BY <1>1 DEF SoundMail, Events, ContextEnd, Delay
<1>3. MailInv
  BY <1>1, <1>2 DEF Init, MailInv, Phases
<1>4. config \in Config
  BY DEF Init, WithStatus, Config, Outcomes, NoStatus
<1>5. panelSaves \in 0 .. MaxSaves /\ lastBatch \in Batches \cup {NoBatch}
      /\ lastEnded \in Runs \cup {NoRun} /\ panelSaw \in Runs \cup {NoRun} /\ panel \in Config
  <2>1. panelSaves = 0 /\ lastBatch = NoBatch /\ lastEnded = NoRun /\ panelSaw = NoRun
        /\ panel = config
    BY DEF Init
  <2>2. 0 \in 0 .. MaxSaves
    BY RunsAssumption
  <2>. QED BY <1>4, <2>1, <2>2, Zenon
<1>6. entry = FALSE /\ ticking = FALSE /\ wired = FALSE /\ runInProgress = FALSE
      /\ staleSave = FALSE
  BY DEF Init
<1>. QED BY <1>3, <1>4, <1>5, <1>6 DEF DeskOK

LEMMA TypeStep == TypeInv /\ [Next]_vars => TypeInv'
<1>. SUFFICES ASSUME TypeInv, [Next]_vars PROVE DeskOK' /\ MailInv'
  BY DEF TypeInv, TypeOK, DeskOK, MailInv, Phases
<1>0. DeskOK /\ MailInv /\ TypeOK
  BY DEF TypeInv
<1>1. CASE UNCHANGED vars
  BY <1>0, <1>1 DEF vars, manager, desk, history, DeskOK, MailInv, SoundMail
<1>2. CASE SetReconcileFunc \/ (\E b \in Batches : SetLastBatchID(b)) \/ PanelLoads \/ Stop
  <2>1. UNCHANGED <<mail, pc>>
    BY <1>2 DEF SetReconcileFunc, SetLastBatchID, PanelLoads, Stop
  <2>2. ASSUME SetReconcileFunc PROVE DeskOK'
    <3>1. wired' = TRUE /\ UNCHANGED <<config, entry, ticking, lastBatch, runInProgress, desk, history>>
      BY <2>2 DEF SetReconcileFunc
    <3>. QED BY <1>0, <3>1 DEF desk, history, DeskOK
  <2>5. ASSUME Stop PROVE DeskOK'
    <3>1. ticking' = FALSE /\ UNCHANGED <<config, entry, lastBatch, wired, runInProgress, desk, history>>
      BY <2>5 DEF Stop
    <3>. QED BY <1>0, <3>1 DEF desk, history, DeskOK
  <2>3. ASSUME NEW b \in Batches, SetLastBatchID(b) PROVE DeskOK'
    BY <1>0, <2>3 DEF SetLastBatchID, desk, history, DeskOK
  <2>4. ASSUME PanelLoads PROVE DeskOK'
    <3>1. panel' = config /\ panelSaw' = lastEnded
          /\ UNCHANGED <<manager, panelSaves, lastEnded, staleSave>>
      BY <2>4 DEF PanelLoads
    <3>. QED BY <1>0, <3>1 DEF manager, DeskOK
  <2>. QED BY <1>0, <1>2, <2>1, <2>2, <2>3, <2>4, <2>5 DEF MailInv
<1>3. ASSUME NEW s \in Settings, UpdateConfig(s) PROVE DeskOK' /\ MailInv'
  <2>1. panel.status \in Outcomes /\ s.enabled \in BOOLEAN
    BY <1>0, SettingsAssumption DEF DeskOK, Config
  <2>2. config' \in Config
    BY <1>3, <2>1 DEF UpdateConfig, WithStatus, Config
  <2>3. panelSaves' \in 0 .. MaxSaves
    BY <1>0, <1>3, RunsAssumption DEF UpdateConfig, DeskOK
  <2>4. entry' \in BOOLEAN /\ ticking' \in BOOLEAN /\ staleSave' \in BOOLEAN
    BY <1>0, <1>3, <2>1 DEF UpdateConfig, DeskOK
  <2>5. panel' = config' /\ UNCHANGED <<lastBatch, wired, runInProgress, pc, mail, lastEnded, panelSaw>>
    BY <1>3 DEF UpdateConfig
  <2>6. DeskOK'
    BY <1>0, <2>2, <2>3, <2>4, <2>5 DEF DeskOK
  <2>. QED BY <1>0, <2>5, <2>6 DEF MailInv
<1>4. ASSUME NEW r \in Runs, Fire(r) \/ Post(r) \/ Skip(r) \/ Begin(r) \/ NothingToCall(r)
                             \/ NotSaved(r)
      PROVE  DeskOK' /\ MailInv'
  <2>1. DeskOK'
    BY <1>0, <1>4 DEF Fire, Post, Skip, Begin, NothingToCall, NotSaved, manager, desk, history,
                      DeskOK
  <2>2. UNCHANGED mail /\ \E ph \in Phases :
          /\ pc' = [pc EXCEPT ![r] = ph]
          /\ pc[r] \notin {"saved", "ended"}
    BY <1>4 DEF Fire, Post, Skip, Begin, NothingToCall, NotSaved, Goto, Phases
  <2>. QED BY <1>0, <2>1, <2>2, RunMovesOn
<1>5. ASSUME NEW r \in Runs, End(r) PROVE DeskOK' /\ MailInv'
  <2>1. PICK outcome \in {"COMPLETED", "FAILED"} : config' = [config EXCEPT !.status = outcome]
    BY <1>5 DEF End
  <2>2. config' \in Config
    BY <1>0, <2>1 DEF DeskOK, Config, Outcomes
  <2>3. staleSave' = FALSE /\ runInProgress' = FALSE /\ pc' = [pc EXCEPT ![r] = "ended"]
        /\ lastEnded' = r /\ UNCHANGED <<entry, ticking, lastBatch, wired, mail, desk, panelSaw>>
    BY <1>5 DEF End
  <2>4. DeskOK'
    BY <1>0, <2>2, <2>3 DEF DeskOK, desk
  <2>. QED BY <1>0, <2>3, <2>4, RunMovesOn DEF Phases
<1>6. ASSUME NEW r \in Runs, Saved(r)
      PROVE  DeskOK' /\ MailInv'
  <2>1. DeskOK'
    BY <1>0, <1>6 DEF Saved, manager, desk, history, DeskOK
  <2>. DEFINE m == [mail[r] EXCEPT !.at = "gate", !.anomalous = (r \in Anomalous)]
  <2>2. PICK ph \in {"saved", "ended"} : pc' = [pc EXCEPT ![r] = ph]
    BY <1>6 DEF Saved, Goto
  <2>3. mail' = [mail EXCEPT ![r] = m]
    BY <1>6 DEF Saved
  <2>4. SoundMail(mail[r]) /\ mail[r] \in Mail /\ mail[r].at = "off"
    BY <1>0, <1>6 DEF Saved, Goto, MailInv
  <2>5. m \in Mail /\ m.at = "gate" /\ m.elapsed = mail[r].elapsed
        /\ m.accepted = mail[r].accepted /\ m.unheard = mail[r].unheard
    <3>. DEFINE b == r \in Anomalous
    <3>1. b \in BOOLEAN
      OBVIOUS
    <3>2. m = [mail[r] EXCEPT !.at = "gate", !.anomalous = b]
      OBVIOUS
    <3>. HIDE DEF b, m
    <3>. QED BY <2>4, <3>1, <3>2 DEF Mail
  <2>. HIDE DEF m
  <2>6. SoundMail(m)
    BY <2>4, <2>5 DEF SoundMail
  <2>7. /\ mail' \in [Runs -> Mail] /\ mail'[r] = m
        /\ pc' \in [Runs -> Phases] /\ pc'[r] \in {"saved", "ended"}
        /\ \A q \in Runs : q # r => mail'[q] = mail[q] /\ pc'[q] = pc[q]
    BY <1>0, <2>2, <2>3, <2>5 DEF MailInv, Phases
  <2>8. MailInv'
    BY <1>0, <2>6, <2>7 DEF MailInv
  <2>. QED BY <2>1, <2>8
<1>7. ASSUME NEW r \in Runs, MailStep(r) PROVE DeskOK' /\ MailInv'
  <2>1. DeskOK'
    BY <1>0, <1>7 DEF MailStep, Gate, Dispatch, manager, desk, history, DeskOK
  <2>. QED BY <1>0, <1>7, <2>1, GateSound, DispatchSound DEF MailStep
<1>. QED BY <1>1, <1>2, <1>3, <1>4, <1>5, <1>6, <1>7 DEF Next, RunStep

LEMMA TypesHold == Spec => []TypeInv
BY TypeInit, TypeStep, PTL DEF Spec

\* Every variable holds a value of its kind, and the status that the panel shows is
\* empty or one that a run can end with.
THEOREM TypeCorrect == Spec => []TypeOK
<1>1. TypeInv => TypeOK
  BY DEF TypeInv
<1>. QED BY <1>1, TypesHold, PTL

\* DispatchWebhook: however late an endpoint answers, and whatever answers are lost, of its
\* acceptances of one event all but the last went unheard.
THEOREM OnlyUnheardIsRepeated == Spec => []RepeatedOnlyUnheard
<1>1. TypeInv => RepeatedOnlyUnheard
  BY DEF TypeInv, MailInv, SoundMail, RepeatedOnlyUnheard
<1>. QED BY <1>1, TypesHold, PTL

\* Whatever latencies the endpoint has, fireWebhooks is through after the context's 30
\* seconds and the delays between the attempts of one dispatch.
THEOREM WebhooksTakeNotLong == Spec => []MailIsBounded
<1>1. TypeInv => MailIsBounded
  BY DEF TypeInv, MailInv, SoundMail, MailIsBounded
<1>. QED BY <1>1, TypesHold, PTL

(***************************************************************************)
(* The status on show.  That a save keeps it has to be known of the panel  *)
(* too: one that has loaded since the last run ended holds the status that *)
(* the manager holds.  And a run's webhooks tell how it ended only because *)
(* no run that has ended is saved again.                                   *)
(***************************************************************************)

\* A run that ended last has its end behind it, and a panel knows of such runs only.
EndedRun(r) == r \in Runs /\ pc[r] = "ended"

StatusInv ==
  /\ StatusIsOfLastRun
  /\ ~staleSave /\ panelSaw = lastEnded => panel.status = config.status
  /\ lastEnded = NoRun \/ EndedRun(lastEnded)
  /\ panelSaw = NoRun \/ EndedRun(panelSaw)
  /\ \A r \in Runs : pc[r] = "saved" => mail[r].at # "off"

LEMMA InitStatusInv == Init => StatusInv
BY DEF Init, WithStatus, StatusInv, StatusIsOfLastRun, OutcomeOf

\* A step that leaves the panel, the manager's status and every end of a run alone.
LEMMA StatusUntouched ==
  ASSUME StatusInv, UNCHANGED <<config, panel, lastEnded, panelSaw, staleSave>>,
         \A r \in Runs : pc[r] = "ended" => pc'[r] = "ended",
         \A r \in Runs : pc[r] = "ended" => (mail'[r].at = "off" <=> mail[r].at = "off"),
         \A r \in Runs : pc'[r] = "saved" => mail'[r].at # "off"
  PROVE  StatusInv'
<1>1. \A r : EndedRun(r) => EndedRun(r)'
  BY DEF EndedRun
<1>2. OutcomeOf(lastEnded)' = OutcomeOf(lastEnded)
  BY DEF StatusInv, EndedRun, OutcomeOf
<1>. QED BY <1>1, <1>2 DEF StatusInv, StatusIsOfLastRun

\* fireWebhooks goes on to an event or to its end.
LEMMA MailGoesOn ==
  ASSUME NEW r \in Runs, MailStep(r), mail \in [Runs -> Mail]
  PROVE  mail'[r].at # "off" /\ \A q \in Runs : q # r => mail'[q] = mail[q]
<1>1. ASSUME NEW m, NEW at, "at" \in DOMAIN m, mail' = [mail EXCEPT ![r] = [m EXCEPT !.at = at]]
      PROVE  mail'[r].at = at /\ \A q \in Runs : q # r => mail'[q] = mail[q]
  <2>. DEFINE k == [m EXCEPT !.at = at]
  <2>1. k.at = at /\ mail' = [mail EXCEPT ![r] = k]
    BY <1>1
  <2>. HIDE DEF k
  <2>. QED BY <2>1
<1>2. CASE Gate(r)
  BY <1>2 DEF Gate, Leave, Onwards, Mail
<1>3. ASSUME NEW e \in Events, Dispatch(r, e)
      PROVE  mail'[r].at # "off" /\ \A q \in Runs : q # r => mail'[q] = mail[q]
  <2>1. PICK m : "at" \in DOMAIN m /\ mail' = [mail EXCEPT ![r] = Leave(m, e)]
    <3>1. "at" \in DOMAIN mail[r]
      BY DEF Mail
    <3>2. \A l : "at" \in DOMAIN After(mail[r], e, l)
      BY <3>1 DEF After
    <3>. QED BY <1>3, <3>1, <3>2 DEF Dispatch
  <2>2. Onwards(m, e) # "off" /\ mail' = [mail EXCEPT ![r] = [m EXCEPT !.at = Onwards(m, e)]]
    BY <2>1 DEF Leave, Onwards
  <2>. QED BY <1>1, <2>1, <2>2
<1>. QED BY <1>2, <1>3 DEF MailStep

LEMMA StatusStep == TypeInv /\ StatusInv /\ [Next]_vars => StatusInv'
<1>. SUFFICES ASSUME TypeInv, StatusInv, [Next]_vars PROVE StatusInv'
  OBVIOUS
<1>0. /\ config \in Config /\ panel \in Config /\ pc \in [Runs -> Phases] /\ mail \in [Runs -> Mail]
      /\ \A r \in Runs : pc[r] \notin {"saved", "ended"} => mail[r].at = "off"
  BY DEF TypeInv, DeskOK, MailInv
<1>1. CASE UNCHANGED <<config, panel, lastEnded, panelSaw, staleSave, pc, mail>>
  BY <1>1, StatusUntouched DEF StatusInv
<1>2. CASE SetReconcileFunc \/ (\E b \in Batches : SetLastBatchID(b)) \/ Stop \/ UNCHANGED vars
  <2>1. UNCHANGED <<config, panel, lastEnded, panelSaw, staleSave, pc, mail>>
    BY <1>2 DEF SetReconcileFunc, SetLastBatchID, Stop, vars, manager, desk, history
  <2>. QED BY <1>1, <2>1
<1>3. CASE PanelLoads
  <2>1. panel' = config /\ panelSaw' = lastEnded
        /\ UNCHANGED <<config, lastEnded, staleSave, pc, mail>>
    BY <1>3 DEF PanelLoads, manager
  <2>. QED BY <2>1 DEF StatusInv, StatusIsOfLastRun, OutcomeOf, EndedRun
<1>4. ASSUME NEW s \in Settings, UpdateConfig(s) PROVE StatusInv'
  <2>1. /\ config'.status = panel.status /\ panel' = config'
        /\ staleSave' = (staleSave \/ panelSaw # lastEnded)
        /\ UNCHANGED <<lastEnded, panelSaw, pc, mail>>
    BY <1>4 DEF UpdateConfig, WithStatus
  <2>2. ~staleSave' => config'.status = config.status
    BY <2>1 DEF StatusInv
  <2>3. StatusIsOfLastRun'
    BY <2>1, <2>2 DEF StatusInv, StatusIsOfLastRun, OutcomeOf
  <2>. QED BY <2>1, <2>3 DEF StatusInv, EndedRun
<1>5. ASSUME NEW r \in Runs, End(r) PROVE StatusInv'
  <2>1. /\ pc[r] \in {"saved", "failed"} /\ pc' = [pc EXCEPT ![r] = "ended"]
        /\ config' = [config EXCEPT !.status = IF pc[r] = "saved" THEN "COMPLETED" ELSE "FAILED"]
        /\ lastEnded' = r /\ staleSave' = FALSE
        /\ UNCHANGED <<mail, panel, panelSaw>>
    BY <1>5 DEF End, desk
  <2>2. config'.status = IF pc[r] = "saved" THEN "COMPLETED" ELSE "FAILED"
    BY <1>0, <2>1 DEF Config
  <2>3. pc[r] = "saved" <=> mail[r].at # "off"
    BY <1>0, <2>1 DEF StatusInv
  <2>4. StatusIsOfLastRun'
    BY <2>1, <2>2, <2>3, RunsAssumption DEF StatusIsOfLastRun, OutcomeOf
  <2>5. panelSaw' # lastEnded'
    BY <2>1, RunsAssumption DEF StatusInv, EndedRun
  <2>6. pc' \in [Runs -> Phases] /\ pc'[r] = "ended" /\ \A q \in Runs : q # r => pc'[q] = pc[q]
    BY <1>0, <2>1 DEF Phases
  <2>. QED BY <2>1, <2>4, <2>5, <2>6 DEF StatusInv, EndedRun
<1>6. ASSUME NEW r \in Runs, Fire(r) \/ Post(r) \/ Skip(r) \/ Begin(r) \/ NothingToCall(r)
                             \/ NotSaved(r)
      PROVE  StatusInv'
  <2>1. UNCHANGED <<config, panel, lastEnded, panelSaw, staleSave, mail>>
    BY <1>6 DEF Fire, Post, Skip, Begin, NothingToCall, NotSaved, manager, desk, history
  <2>2. PICK ph \in Phases : pc' = [pc EXCEPT ![r] = ph] /\ pc[r] # "ended" /\ ph # "saved"
    BY <1>6 DEF Fire, Post, Skip, Begin, NothingToCall, NotSaved, Goto, Phases
  <2>3. \A q \in Runs : pc'[q] = IF q = r THEN ph ELSE pc[q]
    BY <1>0, <2>2
  <2>. QED BY <2>1, <2>2, <2>3, StatusUntouched DEF StatusInv
<1>7. ASSUME NEW r \in Runs, Saved(r) PROVE StatusInv'
  <2>1. UNCHANGED <<config, panel, lastEnded, panelSaw, staleSave>>
    BY <1>7 DEF Saved, manager, desk, history
  <2>2. PICK ph \in Phases : pc' = [pc EXCEPT ![r] = ph] /\ pc[r] # "ended"
    BY <1>7 DEF Saved, Goto, Phases
  <2>3. \A q \in Runs : q # r => mail'[q] = mail[q] /\ pc'[q] = pc[q]
    BY <1>0, <1>7, <2>2 DEF Saved
  <2>4. mail'[r].at = "gate"
    BY <1>0, <1>7 DEF Saved, Mail
  <2>. QED BY <2>1, <2>2, <2>3, <2>4, StatusUntouched DEF StatusInv
<1>8. ASSUME NEW r \in Runs, MailStep(r) PROVE StatusInv'
  <2>1. UNCHANGED <<config, panel, lastEnded, panelSaw, staleSave, pc>>
    BY <1>8 DEF MailStep, Gate, Dispatch, manager, desk, history
  <2>2. mail[r].at # "off"
    BY <1>8 DEF MailStep, Gate, Dispatch, Events
  <2>3. mail'[r].at # "off" /\ \A q \in Runs : q # r => mail'[q] = mail[q]
    BY <1>0, <1>8, MailGoesOn
  <2>. QED BY <2>1, <2>2, <2>3, StatusUntouched DEF StatusInv
<1>. QED BY <1>2, <1>3, <1>4, <1>5, <1>6, <1>7, <1>8 DEF Next, RunStep

\* LastRunStatus: whatever the panel saves, and however often, the status is that of the
\* scheduled run that ended last, COMPLETED if and only if its results were saved, until a
\* panel saves that had loaded before that run ended.
THEOREM StatusStays == Spec => []StatusIsOfLastRun
<1>1. StatusInv => StatusIsOfLastRun
  BY DEF StatusInv
<1>. QED BY <1>1, InitStatusInv, StatusStep, TypesHold, PTL DEF Spec
=============================================================================
