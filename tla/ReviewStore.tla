---------------------------- MODULE ReviewStore ----------------------------
(***************************************************************************)
(* The rows of one batch and the people who review them: the in-memory     *)
(* store's results and resultIndex, the runs that replace them, the        *)
(* handlers HandleMatchAction and HandleManualLink, the audit log, and the *)
(* labels that computeCalibrationObservations reads out of it.             *)
(*                                                                         *)
(* Each call of the store is one step (it holds the store's lock), and so  *)
(* is each append to the audit log; a handler makes several of them, so    *)
(* handlers interleave with each other and with the runs.                  *)
(***************************************************************************)
EXTENDS Naturals, Sequences, FiniteSets

CONSTANTS
  Pairs,        \* source-destination pairs of the batch's dataset
  NoPair,       \* the empty source and destination of a lookup that failed
  Handlers,     \* requests that can be under way at the same time
  MaxSaves,     \* bound: runs of the batch that are saved
  MaxRequests   \* bound: review requests, over all handlers

ASSUME PairsAssumption == NoPair \notin Pairs
ASSUME BoundsAssumption == MaxSaves \in Nat /\ MaxRequests \in Nat

VARIABLES
  rows,       \* results[batch]: a sequence of rows
  index,      \* resultIndex[batch]: row id -> position
  audit,      \* the audit log
  clock,      \* time.Now()
  handling,   \* the handlers' local state
  saves,      \* runs saved so far
  requests,   \* requests made so far
  shown,      \* history: ids that a reviewer has been shown
  raced       \* history: pairs on which handlers overlapped each other or a save

table == <<rows, index>>
vars  == <<table, audit, clock, handling, saves, requests, shown, raced>>

\* A run's row and a manually linked row of a pair have different ids.
Ids == {"run", "manual"} \X Pairs
PairOf(id) == id[2]
Unset == ""

Actions == {"CONFIRM", "REJECT", "UNLINK"}
Target(action) == IF action = "CONFIRM" THEN "CONFIRMED" ELSE "REJECTED"
Decided == {"CONFIRMED", "REJECTED"}

Row == [id : Ids, status : {"AUTO_MATCHED", "REVIEW_NEEDED"} \cup Decided]

\* epoch is no field of the code's entry: it counts the saves before the decision.
Entry == [pair : Pairs \cup {NoPair}, action : Actions \cup {"OVERRIDE"},
          prev : {Unset, "AUTO_MATCHED", "REVIEW_NEEDED"} \cup Decided,
          new : Decided, epoch : Nat]
Logged == [entry : Entry, time : Nat]

Idle == [pc |-> "idle"]

Init ==
  /\ rows = << >> /\ index = << >>
  /\ audit = << >>
  /\ clock = 0
  /\ handling = [h \in Handlers |-> Idle]
  /\ saves = 0 /\ requests = 0
  /\ shown = {} /\ raced = {}

----------------------------------------------------------------------------
(* The store. *)

IdsOf(rs) == {rs[i].id : i \in DOMAIN rs}
LastAt(rs, id) == CHOOSE i \in DOMAIN rs :
  rs[i].id = id /\ \A j \in DOMAIN rs : rs[j].id = id => j <= i
IndexOf(rs) == [id \in IdsOf(rs) |-> LastAt(rs, id)]

\* The rows a run can return: no id twice, nothing decided by a person.
Outcomes ==
  {rs \in UNION {[1 .. n -> [id : {"run"} \X Pairs, status : {"AUTO_MATCHED", "REVIEW_NEEDED"}]]
                 : n \in 0 .. Cardinality(Pairs)} :
     \A i, j \in DOMAIN rs : rs[i].id = rs[j].id => i = j}

Busy(p) == {h \in Handlers : handling[h].pc # "idle" /\ PairOf(handling[h].id) = p}

\* A save that adds to the old index instead of building a new one.
SaveOverOldIndex(rs) ==
  /\ saves < MaxSaves
  /\ rows' = rs
  /\ index' = [id \in DOMAIN index \cup IdsOf(rs) |->
                 IF id \in IdsOf(rs) THEN LastAt(rs, id) ELSE index[id]]
  /\ saves' = saves + 1
  /\ shown' = shown \cup IdsOf(rs)
  /\ raced' = raced \cup {p \in Pairs : Busy(p) # {}}
  /\ UNCHANGED <<audit, clock, handling, requests>>

SaveResults(rs) ==
  /\ saves < MaxSaves
  /\ rows' = rs
  /\ index' = IndexOf(rs)
  /\ saves' = saves + 1
  /\ shown' = shown \cup IdsOf(rs)
  /\ raced' = raced \cup {p \in Pairs : Busy(p) # {}}
  /\ UNCHANGED <<audit, clock, handling, requests>>

Found(id) == id \in DOMAIN index /\ index[id] \in DOMAIN rows

----------------------------------------------------------------------------
(* HandleMatchAction. *)

Arrive(h, p) ==
  /\ handling[h].pc = "idle"
  /\ requests < MaxRequests
  /\ requests' = requests + 1
  /\ raced' = IF Busy(p) # {} THEN raced \cup {p} ELSE raced

\* GetResultByID, for the audit entry; a row that is not found, because a
\* run has replaced the rows the reviewer was shown, leaves it empty.
LookUp(h, id, action) ==
  /\ id \in shown
  /\ Arrive(h, PairOf(id))
  /\ handling' = [handling EXCEPT ![h] =
       [pc |-> "looked", id |-> id, action |-> action,
        pair |-> IF Found(id) THEN PairOf(id) ELSE NoPair,
        prev |-> IF Found(id) THEN rows[index[id]].status ELSE Unset]]
  /\ UNCHANGED <<table, audit, clock, saves, shown>>

EntryOf(hd, prev, new) ==
  [pair |-> hd.pair, action |-> hd.action, prev |-> prev, new |-> new, epoch |-> saves]

Decide(h, prev) ==
  LET hd == handling[h] IN
  handling' = [handling EXCEPT ![h] =
    [pc |-> "decided", id |-> hd.id, entry |-> EntryOf(hd, prev, Target(hd.action))]]

SetStatus(id, st) == rows' = [rows EXCEPT ![index[id]] = [id |-> @.id, status |-> st]]

\* A handler that logs nothing when its lookup had found nothing.
UpdateUnloggedIfMissed(h) ==
  LET hd == handling[h] IN
  /\ hd.pc = "looked" /\ Found(hd.id)
  /\ SetStatus(hd.id, Target(hd.action))
  /\ IF hd.pair = NoPair THEN handling' = [handling EXCEPT ![h] = Idle] ELSE Decide(h, hd.prev)
  /\ UNCHANGED <<index, audit, clock, saves, requests, shown, raced>>

\* A handler that reads the previous status after it has set the new one.
UpdateBeforeLook(h) ==
  LET hd == handling[h] IN
  /\ hd.pc = "looked" /\ Found(hd.id)
  /\ SetStatus(hd.id, Target(hd.action))
  /\ Decide(h, Target(hd.action))
  /\ UNCHANGED <<index, audit, clock, saves, requests, shown, raced>>

\* UpdateMatchStatus looks the row up again.
Update(h) ==
  LET hd == handling[h] IN
  /\ hd.pc = "looked" /\ Found(hd.id)
  /\ SetStatus(hd.id, Target(hd.action))
  /\ Decide(h, hd.prev)
  /\ UNCHANGED <<index, audit, clock, saves, requests, shown, raced>>

\* The answer is 400, and nothing is logged.
Refuse(h) ==
  /\ handling[h].pc = "looked" /\ ~Found(handling[h].id)
  /\ handling' = [handling EXCEPT ![h] = Idle]
  /\ UNCHANGED <<table, audit, clock, saves, requests, shown, raced>>

----------------------------------------------------------------------------
(* HandleManualLink, for records the dataset has: others are refused.  The *)
(* new row does not look for one of the same pair.                         *)

LinkedRow(p) == [id |-> <<"manual", p>>, status |-> "CONFIRMED"]
LinkEntry(p) ==
  [pair |-> p, action |-> "OVERRIDE", prev |-> Unset, new |-> "CONFIRMED", epoch |-> saves]

\* A link that leaves the index as it is.
LinkUnindexed(h, p) ==
  /\ Arrive(h, p)
  /\ shown' = shown \cup {LinkedRow(p).id}
  /\ rows' = Append(rows, LinkedRow(p))
  /\ handling' = [handling EXCEPT ![h] =
       [pc |-> "decided", id |-> LinkedRow(p).id, entry |-> LinkEntry(p)]]
  /\ UNCHANGED <<index, audit, clock, saves>>

ManualLink(h, p) ==
  /\ Arrive(h, p)
  /\ shown' = shown \cup {LinkedRow(p).id}
  /\ rows' = Append(rows, LinkedRow(p))
  /\ index' = [id \in DOMAIN index \cup {LinkedRow(p).id} |->
                 IF id = LinkedRow(p).id THEN Len(rows) + 1 ELSE index[id]]
  /\ handling' = [handling EXCEPT ![h] =
       [pc |-> "decided", id |-> LinkedRow(p).id, entry |-> LinkEntry(p)]]
  /\ UNCHANGED <<audit, clock, saves>>

----------------------------------------------------------------------------
(* Both handlers end with RecordAuditLog, of an entry that already carries *)
(* the time.                                                               *)

Stamp(h) ==
  LET hd == handling[h] IN
  /\ hd.pc = "decided"
  /\ clock' = clock + 1
  /\ handling' = [handling EXCEPT ![h] =
       [pc |-> "stamped", id |-> hd.id, entry |-> hd.entry, time |-> clock + 1]]
  /\ UNCHANGED <<table, audit, saves, requests, shown, raced>>

RecordAuditLog(h) ==
  LET hd == handling[h] IN
  /\ hd.pc = "stamped"
  /\ audit' = Append(audit, [entry |-> hd.entry, time |-> hd.time])
  /\ handling' = [handling EXCEPT ![h] = Idle]
  /\ UNCHANGED <<table, clock, saves, requests, shown, raced>>

Next ==
  \/ \E rs \in Outcomes : SaveResults(rs)
  \/ \E h \in Handlers :
       \/ \E id \in Ids, action \in Actions : LookUp(h, id, action)
       \/ Update(h)
       \/ Refuse(h)
       \/ \E p \in Pairs : ManualLink(h, p)
       \/ Stamp(h)
       \/ RecordAuditLog(h)

Spec == Init /\ [][Next]_vars

----------------------------------------------------------------------------
(* auditEntryLabel and computeCalibrationObservations: UNLINK carries no   *)
(* label; of a pair's labelled entries the latest counts.                  *)

Labelled(e) == e.entry.action \in {"CONFIRM", "REJECT", "OVERRIDE"}
Latest(es) == CHOOSE e \in es : \A f \in es : f.time <= e.time
LabelledOf(p) == {audit[i] : i \in {j \in DOMAIN audit :
                    audit[j].entry.pair = p /\ Labelled(audit[j])}}
Observations == [p \in {q \in Pairs : LabelledOf(q) # {}} |->
                   Latest(LabelledOf(p)).entry.new = "CONFIRMED"]

----------------------------------------------------------------------------
(* Properties. *)

HandlerState ==
  {Idle}
    \cup [pc : {"looked"}, id : Ids, action : Actions, pair : Pairs \cup {NoPair},
          prev : {Unset, "AUTO_MATCHED", "REVIEW_NEEDED"} \cup Decided]
    \cup [pc : {"decided"}, id : Ids, entry : Entry]
    \cup [pc : {"stamped"}, id : Ids, entry : Entry, time : Nat]

\* Every variable holds a value of its kind, and what a handler knows of a row is
\* about the row it was asked for.
TypeOK ==
  /\ rows \in Seq(Row)
  /\ DOMAIN index \subseteq Ids /\ \A id \in DOMAIN index : index[id] \in Nat
  /\ audit \in Seq(Logged)
  /\ clock \in Nat /\ saves \in 0 .. MaxSaves /\ requests \in 0 .. MaxRequests
  /\ handling \in [Handlers -> HandlerState]
  /\ shown \subseteq Ids /\ raced \subseteq Pairs

\* memory_store.go: "a stale ID landing on a still-valid position would mutate the
\* wrong record".  The index knows the rows that are there, no others, and where
\* an id is there twice the later of them.
IndexIsCurrent ==
  /\ DOMAIN index = IdsOf(rows)
  /\ \A id \in DOMAIN index :
       /\ index[id] \in DOMAIN rows /\ rows[index[id]].id = id
       /\ \A i \in DOMAIN rows : rows[i].id = id => i <= index[id]

\* A row's status changes only by the decision of a request about that row, or
\* because a run has replaced the rows.
OnlyAskedRowsChange ==
  [][saves' = saves =>
       \A i \in DOMAIN rows : rows'[i] # rows[i] =>
         \E h \in Handlers :
           /\ handling[h].pc = "looked" /\ handling[h].id = rows[i].id
           /\ rows'[i] = [id |-> rows[i].id, status |-> Target(handling[h].action)]]_vars

\* No decision without its record: for every row that a person decided since the
\* last save there is an entry in the audit log, or a handler about to append it.
\* The entry names the row's pair, or no pair at all when the row was missing at
\* the handler's lookup and back at its update.
DecisionsAreLogged ==
  LET entries == {audit[i].entry : i \in DOMAIN audit}
                   \cup {handling[h].entry :
                           h \in {g \in Handlers : handling[g].pc \in {"decided", "stamped"}}}
  IN \A i \in DOMAIN rows : rows[i].status \in Decided =>
       \E e \in entries : /\ e.epoch = saves /\ e.new = rows[i].status
                          /\ e.pair \in {PairOf(rows[i].id), NoPair}

RowsOfPair(p) == {i \in DOMAIN rows : PairOf(rows[i].id) = p}
Current(p) == {audit[i] : i \in {j \in DOMAIN audit :
                 audit[j].entry.pair = p /\ audit[j].entry.epoch = saves}}

\* Where requests about a pair came one after the other, its log tells the story
\* of its row: each entry starts from the status the one before it set, and the
\* latest one says what the row says.
UnracedLogTellsStory ==
  \A p \in Pairs \ raced : Busy(p) = {} /\ Cardinality(RowsOfPair(p)) = 1 =>
    /\ \A e, f \in Current(p) :
         e.time < f.time /\ ~(\E g \in Current(p) : e.time < g.time /\ g.time < f.time)
           => f.entry.prev = e.entry.new
    /\ Current(p) # {} =>
         \A i \in RowsOfPair(p) : Latest(Current(p)).entry.new = rows[i].status

\* store/calibration.go: "a later reversal (e.g. CONFIRM then REJECT) overrides the
\* earlier one".  A pair that was never unlinked is labelled by the decision that
\* its row ended with, if every entry names its pair.
\* It does not hold: the timestamp is taken after the update, outside the lock, so of
\* two handlers the one whose status stands may carry the earlier time.
ReversalWins ==
  \A p \in Pairs :
    Busy(p) = {} /\ Cardinality(RowsOfPair(p)) = 1 /\ Current(p) # {}
      /\ (\A i \in DOMAIN audit : audit[i].entry.pair # NoPair)
      /\ (\A e \in Current(p) : e.entry.action # "UNLINK")
    => \A i \in RowsOfPair(p) :
         rows[i].status \in Decided => Observations[p] = (rows[i].status = "CONFIRMED")
=============================================================================
