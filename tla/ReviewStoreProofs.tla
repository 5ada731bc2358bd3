-------------------------- MODULE ReviewStoreProofs --------------------------
(***************************************************************************)
(* The rows of a batch, their index and their log, for any number of       *)
(* reviewers, requests and runs.                                           *)
(***************************************************************************)
EXTENDS ReviewStore, SequenceTheorems, FiniteSetTheorems, TLAPS

(***************************************************************************)
(* Types.                                                                  *)
(***************************************************************************)

Statuses == {"AUTO_MATCHED", "REVIEW_NEEDED"} \cup Decided

\* What a handler's state holds follows from its pc.
LEMMA StateOf ==
  ASSUME NEW x \in HandlerState
  PROVE  /\ x.pc \in {"idle", "looked", "decided", "stamped"}
         /\ x.pc = "looked" => /\ x.id \in Ids /\ x.action \in Actions
                               /\ x.pair \in Pairs \cup {NoPair} /\ x.prev \in Statuses \cup {Unset}
         /\ x.pc = "decided" => x.id \in Ids /\ x.entry \in Entry
         /\ x.pc = "stamped" => x.id \in Ids /\ x.entry \in Entry /\ x.time \in Nat
BY DEF HandlerState, Idle, Statuses

\* An id names a pair of the dataset.
LEMMA PairType == \A id \in Ids : PairOf(id) \in Pairs
BY DEF Ids, PairOf

\* What runs return are rows that nobody has decided, no id twice.
LEMMA OutcomeType ==
  ASSUME NEW rs \in Outcomes
  PROVE  /\ rs \in Seq(Row)
         /\ \A i \in DOMAIN rs : rs[i].status \notin Decided
         /\ \A i, j \in DOMAIN rs : rs[i].id = rs[j].id => i = j
<1>. DEFINE Plain == [id : {"run"} \X Pairs, status : {"AUTO_MATCHED", "REVIEW_NEEDED"}]
<1>1. PICK n \in 0 .. Cardinality(Pairs) : rs \in [1 .. n -> Plain]
  BY DEF Outcomes
<1>2. \A row \in Plain : row \in Row /\ row.status \notin Decided
  BY DEF Row, Ids, Decided
<1>3. n \in Nat /\ rs \in [1 .. n -> Row]
  BY <1>1, <1>2
<1>4. rs \in Seq(Row)
  BY <1>3, SeqDef
<1>5. \A i \in DOMAIN rs : rs[i].status \notin Decided
  BY <1>1, <1>2
<1>. QED BY <1>4, <1>5 DEF Outcomes

\* The index of a run's rows has the position of each.
LEMMA LastIs ==
  ASSUME NEW rs \in Outcomes, NEW id \in IdsOf(rs)
  PROVE  /\ LastAt(rs, id) \in DOMAIN rs /\ LastAt(rs, id) \in Nat
         /\ rs[LastAt(rs, id)].id = id
         /\ \A j \in DOMAIN rs : rs[j].id = id => j <= LastAt(rs, id)
<1>1. PICK i \in DOMAIN rs : rs[i].id = id
  BY DEF IdsOf
<1>2. DOMAIN rs = 1 .. Len(rs) /\ Len(rs) \in Nat
  BY OutcomeType, LenProperties
<1>3. \A j \in DOMAIN rs : rs[j].id = id => j <= i
  BY <1>1, <1>2, OutcomeType
<1>4. /\ LastAt(rs, id) \in DOMAIN rs /\ rs[LastAt(rs, id)].id = id
      /\ \A j \in DOMAIN rs : rs[j].id = id => j <= LastAt(rs, id)
  BY <1>1, <1>3 DEF LastAt
<1>. QED BY <1>2, <1>4

\* A decided status is written over a row's, and nothing else of it.
LEMMA SetStatusType ==
  ASSUME rows \in Seq(Row), NEW id, Found(id), NEW st \in Decided, SetStatus(id, st)
  PROVE  /\ rows' \in Seq(Row) /\ DOMAIN rows' = DOMAIN rows
         /\ \A i \in DOMAIN rows : IF i = index[id]
                                   THEN rows'[i] = [id |-> rows[i].id, status |-> st]
                                   ELSE rows'[i] = rows[i]
<1>. DEFINE row == [id |-> rows[index[id]].id, status |-> st]
<1>1. index[id] \in 1 .. Len(rows) /\ rows' = [rows EXCEPT ![index[id]] = row]
  BY DEF Found, SetStatus
<1>2. row \in Row
  BY <1>1, ElementOfSeq DEF Row
<1>. HIDE DEF row
<1>3. /\ rows' \in Seq(Row) /\ Len(rows') = Len(rows)
      /\ \A i \in 1 .. Len(rows) : rows'[i] = IF i = index[id] THEN row ELSE rows[i]
  BY <1>1, <1>2, ExceptSeq
<1>4. DOMAIN rows' = DOMAIN rows
  BY <1>3
<1>. QED BY <1>3, <1>4 DEF row

\* A linked row is a row, and comes last.
LEMMA LinkType ==
  ASSUME rows \in Seq(Row), NEW p \in Pairs, rows' = Append(rows, LinkedRow(p))
  PROVE  /\ LinkedRow(p) \in Row /\ rows' \in Seq(Row)
         /\ DOMAIN rows' = 1 .. (Len(rows) + 1) /\ DOMAIN rows = 1 .. Len(rows) /\ Len(rows) \in Nat
         /\ \A i \in DOMAIN rows : rows'[i] = rows[i]
         /\ rows'[Len(rows) + 1] = LinkedRow(p)
<1>1. LinkedRow(p) \in Row
  BY DEF LinkedRow, Row, Ids, Decided
<1>2. /\ rows' \in Seq(Row) /\ Len(rows') = Len(rows) + 1
      /\ \A i \in 1 .. Len(rows) : rows'[i] = rows[i]
      /\ rows'[Len(rows) + 1] = LinkedRow(p)
  BY <1>1, AppendProperties
<1>. QED BY <1>1, <1>2, LenProperties

\* The entries that handlers make are entries.
LEMMA EntryType ==
  ASSUME TypeOK
  PROVE  /\ \A h \in Handlers : handling[h].pc = "looked" =>
               \A prev \in Statuses \cup {Unset} :
                 EntryOf(handling[h], prev, Target(handling[h].action)) \in Entry
         /\ \A p \in Pairs : LinkEntry(p) \in Entry
<1>1. \A st : st \in Decided => st \in Statuses
  BY DEF Statuses
<1>2. ASSUME NEW h \in Handlers, handling[h].pc = "looked", NEW prev \in Statuses \cup {Unset}
      PROVE  EntryOf(handling[h], prev, Target(handling[h].action)) \in Entry
  <2>1. handling[h].action \in Actions /\ handling[h].pair \in Pairs \cup {NoPair}
    BY <1>2, StateOf DEF TypeOK
  <2>2. saves \in Nat
    BY DEF TypeOK
  <2>. QED BY <2>1, <2>2 DEF EntryOf, Entry, Target, Decided, Statuses
<1>3. ASSUME NEW p \in Pairs PROVE LinkEntry(p) \in Entry
  BY DEF LinkEntry, Entry, TypeOK, Decided
<1>. QED BY <1>2, <1>3

LEMMA InitType == Init => TypeOK
<1>. SUFFICES ASSUME Init PROVE TypeOK
  OBVIOUS
<1>1. rows \in Seq(Row) /\ audit \in Seq(Logged)
  BY DEF Init
<1>2. handling \in [Handlers -> HandlerState]
  BY DEF Init, HandlerState
<1>. QED BY <1>1, <1>2, BoundsAssumption DEF Init, TypeOK

\* A request is counted, and may have met another.
LEMMA ArriveType ==
  ASSUME TypeOK, NEW h \in Handlers, NEW p \in Pairs, Arrive(h, p)
  PROVE  requests' \in 0 .. MaxRequests /\ raced' \subseteq Pairs /\ handling[h].pc = "idle"
BY BoundsAssumption DEF TypeOK, Arrive

\* Every step keeps the types.
LEMMA TypeStep == TypeOK /\ [Next]_vars => TypeOK'
<1>. SUFFICES ASSUME TypeOK, [Next]_vars PROVE TypeOK'
  OBVIOUS
<1>. USE DEF table
<1>1. ASSUME NEW rs \in Outcomes, SaveResults(rs) PROVE TypeOK'
  <2>1. IdsOf(rs) \subseteq Ids
    <3>1. DOMAIN rs = 1 .. Len(rs) /\ \A i \in DOMAIN rs : rs[i] \in Row
      BY OutcomeType, ElementOfSeq, LenProperties
    <3>. QED BY <3>1 DEF IdsOf, Row
  <2>2. DOMAIN index' \subseteq Ids /\ \A id \in DOMAIN index' : index'[id] \in Nat
    BY <1>1, <2>1, LastIs DEF SaveResults, IndexOf
  <2>3. saves' \in 0 .. MaxSaves /\ raced' \subseteq Pairs
    BY <1>1, BoundsAssumption DEF TypeOK, SaveResults
  <2>4. rows' \in Seq(Row) /\ shown' \subseteq Ids
    BY <1>1, <2>1, OutcomeType DEF TypeOK, SaveResults
  <2>. QED BY <1>1, <2>2, <2>3, <2>4 DEF TypeOK, SaveResults
<1>2. ASSUME NEW h \in Handlers, NEW id \in Ids, NEW action \in Actions, LookUp(h, id, action)
      PROVE TypeOK'
  <2>. DEFINE st == [pc |-> "looked", id |-> id, action |-> action,
                     pair |-> IF Found(id) THEN PairOf(id) ELSE NoPair,
                     prev |-> IF Found(id) THEN rows[index[id]].status ELSE Unset]
  <2>1. Found(id) => rows[index[id]].status \in Statuses
    <3>1. rows \in Seq(Row) /\ (Found(id) => index[id] \in 1 .. Len(rows))
      BY LenProperties DEF Found, TypeOK
    <3>2. Found(id) => rows[index[id]] \in Row
      BY <3>1, ElementOfSeq
    <3>. QED BY <3>2 DEF Row, Statuses
  <2>2. st \in HandlerState
    BY <2>1, PairType DEF HandlerState, Statuses
  <2>3. handling' = [handling EXCEPT ![h] = st]
    BY <1>2 DEF LookUp
  <2>. HIDE DEF st
  <2>4. handling' \in [Handlers -> HandlerState]
    BY <2>2, <2>3 DEF TypeOK
  <2>5. requests' \in 0 .. MaxRequests /\ raced' \subseteq Pairs
    BY <1>2, ArriveType, PairType DEF LookUp
  <2>. QED BY <1>2, <2>4, <2>5 DEF TypeOK, LookUp
<1>3. ASSUME NEW h \in Handlers, Update(h) PROVE TypeOK'
  <2>. DEFINE hd == handling[h]
              e == EntryOf(hd, hd.prev, Target(hd.action))
  <2>1. /\ hd.pc = "looked" /\ Found(hd.id) /\ SetStatus(hd.id, Target(hd.action))
        /\ handling' = [handling EXCEPT ![h] = [pc |-> "decided", id |-> hd.id, entry |-> e]]
        /\ UNCHANGED <<index, audit, clock, saves, requests, shown, raced>>
    BY <1>3 DEF Update, Decide
  <2>2. hd.id \in Ids /\ e \in Entry /\ Target(hd.action) \in Decided
    BY <2>1, StateOf, EntryType DEF TypeOK, Target, Decided
  <2>3. rows' \in Seq(Row)
    BY <2>1, <2>2, SetStatusType DEF TypeOK
  <2>. HIDE DEF hd, e
  <2>4. [pc |-> "decided", id |-> hd.id, entry |-> e] \in HandlerState
    BY <2>2 DEF HandlerState
  <2>5. handling' \in [Handlers -> HandlerState]
    BY <2>1, <2>4 DEF TypeOK
  <2>. QED BY <2>1, <2>3, <2>5 DEF TypeOK
<1>4. ASSUME NEW h \in Handlers, Refuse(h) PROVE TypeOK'
  <2>1. handling' \in [Handlers -> HandlerState]
    BY <1>4 DEF TypeOK, Refuse, HandlerState
  <2>. QED BY <1>4, <2>1 DEF TypeOK, Refuse
<1>5. ASSUME NEW h \in Handlers, NEW p \in Pairs, ManualLink(h, p) PROVE TypeOK'
  <2>1. rows' = Append(rows, LinkedRow(p)) /\ rows \in Seq(Row)
    BY <1>5 DEF ManualLink, TypeOK
  <2>2. LinkedRow(p).id \in Ids /\ rows' \in Seq(Row) /\ Len(rows) \in Nat
    BY <2>1, LinkType DEF Row
  <2>3. DOMAIN index' \subseteq Ids /\ \A id \in DOMAIN index' : index'[id] \in Nat
    BY <1>5, <2>2 DEF ManualLink, TypeOK
  <2>4. [pc |-> "decided", id |-> LinkedRow(p).id, entry |-> LinkEntry(p)] \in HandlerState
    BY <2>2, EntryType DEF HandlerState
  <2>5. handling' \in [Handlers -> HandlerState]
    BY <1>5, <2>4 DEF ManualLink, TypeOK
  <2>6. requests' \in 0 .. MaxRequests /\ raced' \subseteq Pairs /\ shown' \subseteq Ids
    BY <1>5, <2>2, ArriveType DEF ManualLink, TypeOK
  <2>. QED BY <1>5, <2>2, <2>3, <2>5, <2>6 DEF TypeOK, ManualLink
<1>6. ASSUME NEW h \in Handlers, Stamp(h) PROVE TypeOK'
  <2>. DEFINE st == [pc |-> "stamped", id |-> handling[h].id, entry |-> handling[h].entry,
                     time |-> clock + 1]
  <2>1. handling[h].id \in Ids /\ handling[h].entry \in Entry /\ clock + 1 \in Nat
    BY <1>6, StateOf DEF Stamp, TypeOK
  <2>2. st \in HandlerState
    BY <2>1 DEF HandlerState
  <2>3. handling' = [handling EXCEPT ![h] = st] /\ clock' = clock + 1
    BY <1>6 DEF Stamp
  <2>. HIDE DEF st
  <2>4. handling' \in [Handlers -> HandlerState]
    BY <2>2, <2>3 DEF TypeOK
  <2>. QED BY <1>6, <2>1, <2>3, <2>4 DEF TypeOK, Stamp
<1>7. ASSUME NEW h \in Handlers, RecordAuditLog(h) PROVE TypeOK'
  <2>. DEFINE logged == [entry |-> handling[h].entry, time |-> handling[h].time]
  <2>1. handling[h].entry \in Entry /\ handling[h].time \in Nat
    BY <1>7, StateOf DEF RecordAuditLog, TypeOK
  <2>2. logged \in Logged /\ audit' = Append(audit, logged)
    BY <1>7, <2>1 DEF Logged, RecordAuditLog
  <2>. HIDE DEF logged
  <2>3. audit' \in Seq(Logged)
    BY <2>2, AppendProperties DEF TypeOK
  <2>4. handling' \in [Handlers -> HandlerState]
    BY <1>7 DEF RecordAuditLog, TypeOK, HandlerState
  <2>. QED BY <1>7, <2>3, <2>4 DEF TypeOK, RecordAuditLog
<1>8. CASE UNCHANGED vars
  BY <1>8 DEF TypeOK, vars
<1>. QED BY <1>1, <1>2, <1>3, <1>4, <1>5, <1>6, <1>7, <1>8 DEF Next

\* Every variable keeps holding a value of its kind.
THEOREM TypeCorrect == Spec => []TypeOK
<1>. QED BY InitType, TypeStep, PTL DEF Spec

(***************************************************************************)
(* The index.                                                              *)
(***************************************************************************)

LEMMA InitIndex == Init => IndexIsCurrent
BY DEF Init, IndexIsCurrent, IdsOf

\* A step that changes neither rows nor index.
LEMMA IndexStays == IndexIsCurrent /\ UNCHANGED table => IndexIsCurrent'
BY DEF table, IndexIsCurrent, IdsOf

\* Saving builds the index anew, deciding keeps the ids, and linking adds the last row.
LEMMA IndexStep == TypeOK /\ IndexIsCurrent /\ [Next]_vars => IndexIsCurrent'
<1>. SUFFICES ASSUME TypeOK, IndexIsCurrent, [Next]_vars PROVE IndexIsCurrent'
  OBVIOUS
<1>1. ASSUME NEW rs \in Outcomes, SaveResults(rs) PROVE IndexIsCurrent'
  <2>1. rows' = rs /\ index' = [id \in IdsOf(rs) |-> LastAt(rs, id)]
    BY <1>1 DEF SaveResults, IndexOf
  <2>. QED BY <2>1, LastIs DEF IndexIsCurrent, IdsOf
<1>2. ASSUME NEW h \in Handlers, Update(h) PROVE IndexIsCurrent'
  <2>. DEFINE id == handling[h].id
              st == Target(handling[h].action)
  <2>1. Found(id) /\ SetStatus(id, st) /\ index' = index /\ st \in Decided
    BY <1>2 DEF Update, Target, Decided
  <2>2. DOMAIN rows' = DOMAIN rows /\ \A i \in DOMAIN rows : rows'[i].id = rows[i].id
    <3>1. rows \in Seq(Row)
      BY DEF TypeOK
    <3>. HIDE DEF id, st
    <3>2. /\ DOMAIN rows' = DOMAIN rows
          /\ \A i \in DOMAIN rows : IF i = index[id]
                                    THEN rows'[i] = [id |-> rows[i].id, status |-> st]
                                    ELSE rows'[i] = rows[i]
      BY <2>1, <3>1, SetStatusType
    <3>. QED BY <3>2
  <2>3. IdsOf(rows') = IdsOf(rows)
    BY <2>2 DEF IdsOf
  <2>. QED BY <2>1, <2>2, <2>3 DEF IndexIsCurrent
<1>3. ASSUME NEW h \in Handlers, NEW p \in Pairs, ManualLink(h, p) PROVE IndexIsCurrent'
  <2>1. /\ rows' = Append(rows, LinkedRow(p))
        /\ index' = [id \in DOMAIN index \cup {LinkedRow(p).id} |->
                       IF id = LinkedRow(p).id THEN Len(rows) + 1 ELSE index[id]]
    BY <1>3 DEF ManualLink
  <2>2. /\ DOMAIN rows' = 1 .. (Len(rows) + 1) /\ DOMAIN rows = 1 .. Len(rows) /\ Len(rows) \in Nat
        /\ \A i \in DOMAIN rows : rows'[i] = rows[i]
        /\ rows'[Len(rows) + 1] = LinkedRow(p)
    BY <2>1, LinkType DEF TypeOK
  <2>. DEFINE new == LinkedRow(p).id
  <2>3. IdsOf(rows') = IdsOf(rows) \cup {new}
    BY <2>2 DEF IdsOf
  <2>4. DOMAIN index' = IdsOf(rows')
    BY <2>1, <2>3 DEF IndexIsCurrent
  <2>5. ASSUME NEW id \in DOMAIN index'
        PROVE  /\ index'[id] \in DOMAIN rows' /\ rows'[index'[id]].id = id
               /\ \A i \in DOMAIN rows' : rows'[i].id = id => i <= index'[id]
    <3>1. CASE id = new
      BY <2>1, <2>2, <3>1
    <3>2. CASE id # new
      <4>1. /\ index'[id] = index[id] /\ index[id] \in DOMAIN rows /\ rows[index[id]].id = id
            /\ \A i \in DOMAIN rows : rows[i].id = id => i <= index[id]
        BY <2>1, <3>2 DEF IndexIsCurrent
      <4>. QED BY <2>2, <3>2, <4>1
    <3>. QED BY <3>1, <3>2
  <2>. QED BY <2>4, <2>5 DEF IndexIsCurrent
<1>4. CASE UNCHANGED table
  BY <1>4, IndexStays
<1>. QED
  BY <1>1, <1>2, <1>3, <1>4 DEF Next, LookUp, Refuse, Stamp, RecordAuditLog, vars

\* memory_store.go: "a stale ID landing on a still-valid position would mutate the wrong
\* record".  The index always knows the rows that are there, and no others.
THEOREM IndexStaysCurrent == Spec => []IndexIsCurrent
<1>1. TypeOK /\ IndexIsCurrent /\ [Next]_vars => (TypeOK /\ IndexIsCurrent)'
  BY TypeStep, IndexStep
<1>. QED BY InitType, InitIndex, <1>1, PTL DEF Spec

(***************************************************************************)
(* Decisions reach the row they are about, and the log.                    *)
(***************************************************************************)

\* Deciding changes the row that was asked for.
LEMMA UpdateAsked ==
  ASSUME TypeOK, IndexIsCurrent, NEW h \in Handlers, Update(h)
  PROVE  /\ DOMAIN rows' = DOMAIN rows
         /\ \A i \in DOMAIN rows : rows'[i] # rows[i] =>
              /\ handling[h].pc = "looked" /\ handling[h].id = rows[i].id
              /\ rows'[i] = [id |-> rows[i].id, status |-> Target(handling[h].action)]
<1>. DEFINE id == handling[h].id
            st == Target(handling[h].action)
<1>1. handling[h].pc = "looked" /\ Found(id) /\ SetStatus(id, st) /\ st \in Decided
  BY DEF Update, Target, Decided
<1>2. rows[index[id]].id = id
  BY <1>1 DEF Found, IndexIsCurrent
<1>. QED BY <1>1, <1>2, SetStatusType DEF TypeOK

LEMMA AskedStep ==
  ASSUME TypeOK, IndexIsCurrent, [Next]_vars, saves' = saves, NEW i \in DOMAIN rows,
         rows'[i] # rows[i]
  PROVE  \E h \in Handlers :
           /\ handling[h].pc = "looked" /\ handling[h].id = rows[i].id
           /\ rows'[i] = [id |-> rows[i].id, status |-> Target(handling[h].action)]
<1>1. ASSUME NEW rs \in Outcomes, SaveResults(rs) PROVE FALSE
  BY <1>1 DEF SaveResults, TypeOK
<1>2. ASSUME NEW h \in Handlers, NEW p \in Pairs, ManualLink(h, p) PROVE FALSE
  BY <1>2, LinkType DEF ManualLink, TypeOK
<1>3. CASE UNCHANGED rows
  BY <1>3
<1>. QED
  BY <1>1, <1>2, <1>3, UpdateAsked
     DEF Next, LookUp, Refuse, Stamp, RecordAuditLog, vars, table

\* A stored row changes by the decision of a request about that very row, or with a run.
THEOREM OnlyAsked == Spec => OnlyAskedRowsChange
<1>1. TypeOK /\ IndexIsCurrent /\ [Next]_vars => (TypeOK /\ IndexIsCurrent)'
  BY TypeStep, IndexStep
<1>2. TypeOK /\ IndexIsCurrent /\ [Next]_vars =>
        [saves' = saves =>
           \A i \in DOMAIN rows : rows'[i] # rows[i] =>
             \E h \in Handlers :
               /\ handling[h].pc = "looked" /\ handling[h].id = rows[i].id
               /\ rows'[i] = [id |-> rows[i].id, status |-> Target(handling[h].action)]]_vars
  BY AskedStep
<1>. QED BY InitType, InitIndex, <1>1, <1>2, PTL DEF Spec, OnlyAskedRowsChange

\* The entries of the log, and those that handlers are about to append.
Pending == {h \in Handlers : handling[h].pc \in {"decided", "stamped"}}
Entries == {audit[i].entry : i \in DOMAIN audit} \cup {handling[h].entry : h \in Pending}

\* What was looked up is the pair of the row that was asked for, or nothing.
LookedAtItsPair == \A h \in Handlers :
  handling[h].pc = "looked" => handling[h].pair \in {PairOf(handling[h].id), NoPair}

LogInv == LookedAtItsPair /\ DecisionsAreLogged

LEMMA InitLog == Init => LogInv
BY DEF Init, LogInv, LookedAtItsPair, DecisionsAreLogged, Idle

\* The log only grows, and an entry on its way arrives there.
LEMMA EntriesStay ==
  ASSUME TypeOK, [Next]_vars
  PROVE  Entries \subseteq Entries'
<1>. USE DEF Entries, Pending
<1>1. ASSUME UNCHANGED audit, NEW h \in Handlers, h \notin Pending,
             \A g \in Handlers \ {h} : handling'[g] = handling[g]
      PROVE  Entries \subseteq Entries'
  BY <1>1
<1>2. ASSUME NEW h \in Handlers,
             \/ (\E id \in Ids, action \in Actions : LookUp(h, id, action))
             \/ Update(h) \/ Refuse(h) \/ (\E p \in Pairs : ManualLink(h, p))
      PROVE  Entries \subseteq Entries'
  <2>1. UNCHANGED audit /\ handling[h].pc \in {"idle", "looked"}
    BY <1>2 DEF LookUp, Update, Refuse, ManualLink, Arrive
  <2>2. \A g \in Handlers \ {h} : handling'[g] = handling[g]
    BY <1>2 DEF LookUp, Update, Decide, Refuse, ManualLink, TypeOK
  <2>. QED BY <1>1, <2>1, <2>2
<1>3. ASSUME NEW h \in Handlers, Stamp(h) PROVE Entries \subseteq Entries'
  <2>1. /\ UNCHANGED audit /\ handling[h].pc = "decided"
        /\ handling'[h].pc = "stamped" /\ handling'[h].entry = handling[h].entry
        /\ \A g \in Handlers \ {h} : handling'[g] = handling[g]
    BY <1>3 DEF Stamp, TypeOK
  <2>. QED BY <2>1
<1>4. ASSUME NEW h \in Handlers, RecordAuditLog(h) PROVE Entries \subseteq Entries'
  <2>. DEFINE logged == [entry |-> handling[h].entry, time |-> handling[h].time]
  <2>1. handling[h].entry \in Entry /\ handling[h].time \in Nat
    BY <1>4, StateOf DEF RecordAuditLog, TypeOK
  <2>2. logged \in Logged /\ audit' = Append(audit, logged) /\ logged.entry = handling[h].entry
    BY <1>4, <2>1 DEF Logged, RecordAuditLog
  <2>. HIDE DEF logged
  <2>3. /\ audit \in Seq(Logged) /\ audit' \in Seq(Logged) /\ Len(audit') = Len(audit) + 1
        /\ \A i \in 1 .. Len(audit) : audit'[i] = audit[i]
        /\ audit'[Len(audit) + 1] = logged
    BY <2>2, AppendProperties DEF TypeOK
  <2>4. DOMAIN audit = 1 .. Len(audit) /\ DOMAIN audit' = 1 .. (Len(audit) + 1) /\ Len(audit) \in Nat
    BY <2>3, LenProperties
  <2>5. {audit[i].entry : i \in DOMAIN audit} \cup {handling[h].entry}
          \subseteq {audit'[i].entry : i \in DOMAIN audit'}
    BY <2>2, <2>3, <2>4
  <2>6. \A g \in Handlers \ {h} : handling'[g] = handling[g]
    BY <1>4 DEF RecordAuditLog, TypeOK
  <2>. QED BY <2>5, <2>6
<1>5. ASSUME UNCHANGED <<audit, handling>> PROVE Entries \subseteq Entries'
  BY <1>5
<1>. QED BY <1>2, <1>3, <1>4, <1>5 DEF Next, SaveResults, vars

\* A handler's lookup, and nothing else, says what pair its entry will name.
LEMMA LookedStep == TypeOK /\ LookedAtItsPair /\ [Next]_vars => LookedAtItsPair'
<1>. SUFFICES ASSUME TypeOK, LookedAtItsPair, [Next]_vars PROVE LookedAtItsPair'
  OBVIOUS
<1>1. ASSUME NEW h \in Handlers, NEW id \in Ids, NEW action \in Actions, LookUp(h, id, action)
      PROVE LookedAtItsPair'
  <2>1. /\ handling'[h].id = id /\ handling'[h].pair \in {PairOf(id), NoPair}
        /\ \A g \in Handlers \ {h} : handling'[g] = handling[g]
    BY <1>1 DEF LookUp, TypeOK
  <2>. QED BY <2>1 DEF LookedAtItsPair
<1>2. ASSUME NEW h \in Handlers,
             Update(h) \/ Refuse(h) \/ (\E p \in Pairs : ManualLink(h, p)) \/ Stamp(h)
             \/ RecordAuditLog(h)
      PROVE LookedAtItsPair'
  <2>1. /\ handling'[h].pc # "looked"
        /\ \A g \in Handlers \ {h} : handling'[g] = handling[g]
    <3>1. CASE Update(h)
      BY <3>1 DEF Update, Decide, TypeOK
    <3>2. CASE Refuse(h) \/ RecordAuditLog(h)
      BY <3>2 DEF Refuse, RecordAuditLog, Idle, TypeOK
    <3>3. CASE \E p \in Pairs : ManualLink(h, p)
      BY <3>3 DEF ManualLink, TypeOK
    <3>4. CASE Stamp(h)
      BY <3>4 DEF Stamp, TypeOK
    <3>. QED BY <1>2, <3>1, <3>2, <3>3, <3>4
  <2>. QED BY <2>1 DEF LookedAtItsPair
<1>3. CASE UNCHANGED handling
  BY <1>3 DEF LookedAtItsPair
<1>. QED BY <1>1, <1>2, <1>3 DEF Next, SaveResults, vars

\* A row whose status and whose save are the same has its entry still.
LEMMA LoggedStep == TypeOK /\ IndexIsCurrent /\ LogInv /\ [Next]_vars => DecisionsAreLogged'
<1>. SUFFICES ASSUME TypeOK, IndexIsCurrent, LogInv, [Next]_vars PROVE DecisionsAreLogged'
  OBVIOUS
<1>. DEFINE Logs(e, row) == /\ e.epoch = saves /\ e.new = row.status
                            /\ e.pair \in {PairOf(row.id), NoPair}
<1>1. \A i \in DOMAIN rows : rows[i].status \in Decided => \E e \in Entries : Logs(e, rows[i])
  BY DEF LogInv, DecisionsAreLogged, Entries, Pending
<1>2. ASSUME UNCHANGED saves,
             \A i \in DOMAIN rows' : rows'[i].status \in Decided =>
               \/ i \in DOMAIN rows /\ rows'[i] = rows[i]
               \/ \E e \in Entries' : Logs(e, rows'[i])
      PROVE  DecisionsAreLogged'
  <2>1. \A i \in DOMAIN rows' : rows'[i].status \in Decided => \E e \in Entries' : Logs(e, rows'[i])
    BY <1>1, <1>2, EntriesStay
  <2>. QED BY <1>2, <2>1 DEF DecisionsAreLogged, Entries, Pending
<1>3. ASSUME NEW rs \in Outcomes, SaveResults(rs) PROVE DecisionsAreLogged'
  BY <1>3, OutcomeType DEF SaveResults, DecisionsAreLogged
<1>4. ASSUME NEW h \in Handlers, Update(h) PROVE DecisionsAreLogged'
  <2>. DEFINE hd == handling[h]
              e == EntryOf(hd, hd.prev, Target(hd.action))
  <2>1. /\ hd.pc = "looked" /\ UNCHANGED saves
        /\ handling' = [handling EXCEPT ![h] = [pc |-> "decided", id |-> hd.id, entry |-> e]]
    BY <1>4 DEF Update, Decide
  <2>2. e.epoch = saves /\ e.new = Target(hd.action) /\ e.pair \in {PairOf(hd.id), NoPair}
    BY <2>1 DEF EntryOf, LogInv, LookedAtItsPair
  <2>3. e \in Entries'
    <3>. HIDE DEF e, hd
    <3>1. handling'[h].pc = "decided" /\ handling'[h].entry = e
      BY <2>1 DEF TypeOK
    <3>. QED BY <3>1 DEF Entries, Pending
  <2>4. \A i \in DOMAIN rows' : rows'[i] # rows[i] =>
          /\ hd.id = rows[i].id /\ rows'[i] = [id |-> rows[i].id, status |-> Target(hd.action)]
    BY <1>4, UpdateAsked
  <2>5. DOMAIN rows' = DOMAIN rows
    BY <1>4, UpdateAsked
  <2>. HIDE DEF e, hd
  <2>6. \A i \in DOMAIN rows' : rows'[i] = rows[i] \/ Logs(e, rows'[i])
    BY <2>2, <2>4
  <2>. HIDE DEF Logs
  <2>. QED BY <1>2, <2>1, <2>3, <2>5, <2>6
<1>5. ASSUME NEW h \in Handlers, NEW p \in Pairs, ManualLink(h, p) PROVE DecisionsAreLogged'
  <2>1. /\ rows' = Append(rows, LinkedRow(p)) /\ UNCHANGED saves
        /\ handling' = [handling EXCEPT ![h] =
             [pc |-> "decided", id |-> LinkedRow(p).id, entry |-> LinkEntry(p)]]
    BY <1>5 DEF ManualLink
  <2>2. /\ DOMAIN rows' = 1 .. (Len(rows) + 1) /\ DOMAIN rows = 1 .. Len(rows) /\ Len(rows) \in Nat
        /\ \A i \in DOMAIN rows : rows'[i] = rows[i]
        /\ rows'[Len(rows) + 1] = LinkedRow(p)
    BY <2>1, LinkType DEF TypeOK
  <2>3. LinkEntry(p) \in Entries'
    <3>1. handling'[h].pc = "decided" /\ handling'[h].entry = LinkEntry(p)
      BY <2>1 DEF TypeOK
    <3>. QED BY <3>1 DEF Entries, Pending
  <2>4. Logs(LinkEntry(p), LinkedRow(p))
    BY DEF LinkEntry, LinkedRow, PairOf
  <2>. HIDE DEF Logs
  <2>. QED BY <1>2, <2>1, <2>2, <2>3, <2>4
<1>6. CASE UNCHANGED <<rows, saves>>
  BY <1>2, <1>6
<1>. QED
  BY <1>3, <1>4, <1>5, <1>6 DEF Next, LookUp, Refuse, Stamp, RecordAuditLog, vars, table

\* No decision without its record: of every row decided since the last save there is an
\* entry in the log, or a handler about to append one, whoever else decides or saves.
THEOREM EveryDecisionIsLogged == Spec => []DecisionsAreLogged
<1>. DEFINE IInv == TypeOK /\ IndexIsCurrent /\ LogInv
<1>1. Init => IInv
  BY InitType, InitIndex, InitLog
<1>2. IInv /\ [Next]_vars => IInv'
  BY TypeStep, IndexStep, LookedStep, LoggedStep DEF LogInv
<1>3. IInv => DecisionsAreLogged
  BY DEF LogInv
<1>. QED BY <1>1, <1>2, <1>3, PTL DEF Spec

----------------------------------------------------------------------------
(* The log of a pair. *)

\* The entries of the log that name the pair, in this batch or an earlier run.
AuditOf(p) == {audit[i] : i \in {j \in DOMAIN audit : audit[j].entry.pair = p}}

\* The latest entry since the last save, if there is one, set this status.
LastSays(p, st) ==
  Current(p) # {} => \E e \in Current(p) : /\ \A f \in Current(p) : f.time <= e.time
                                           /\ e.entry.new = st

\* Each entry starts from the status the one before it set.
Chain(p) ==
  \A e, f \in Current(p) :
    e.time < f.time /\ ~(\E g \in Current(p) : e.time < g.time /\ g.time < f.time)
      => f.entry.prev = e.entry.new

\* No two entries of the pair carry one time, and the next will carry a later one.
TimesOK(p) ==
  /\ \A e \in AuditOf(p) : e.time <= clock /\ e.entry.epoch <= saves
  /\ \A e, f \in AuditOf(p) : e.time = f.time => e = f
  /\ \A h \in Busy(p) : handling[h].pc = "stamped" =>
       /\ handling[h].time <= clock
       /\ \A e \in AuditOf(p) : e.time < handling[h].time

\* The one request on the pair knows its row as it is, or has decided it.
RequestOK(p) ==
  /\ \A h, g \in Busy(p) : h = g
  /\ \A h \in Busy(p) :
       /\ handling[h].pc = "looked" =>
            IF Found(handling[h].id)
            THEN handling[h].pair = p /\ handling[h].prev = rows[index[handling[h].id]].status
            ELSE handling[h].pair = NoPair
       /\ handling[h].pc \in {"decided", "stamped"} =>
            handling[h].entry.pair = p /\ handling[h].entry.epoch = saves

\* While the pair has one row, its log leads to the row's status: the last step
\* is the latest entry, or the one a request is about to append.
StoryOK(p) ==
  /\ RowsOfPair(p) = {} => /\ Current(p) = {}
                           /\ \A h \in Busy(p) : handling[h].pc = "looked"
  /\ \A i \in DOMAIN rows : RowsOfPair(p) = {i} =>
       /\ Chain(p)
       /\ \A h \in Busy(p) : handling[h].pc \in {"decided", "stamped"} =>
            LastSays(p, handling[h].entry.prev) /\ handling[h].entry.new = rows[i].status
       /\ (\A h \in Busy(p) : handling[h].pc = "looked") => LastSays(p, rows[i].status)

StoryInv == \A p \in Pairs \ raced : TimesOK(p) /\ RequestOK(p) /\ StoryOK(p)

PairOK(p) == TimesOK(p) /\ RequestOK(p) /\ StoryOK(p)

\* What a step leaves alone of a pair: its rows and what the index says of them.
SameRows(p) ==
  /\ (RowsOfPair(p))' = RowsOfPair(p)
  /\ \A i \in RowsOfPair(p) : rows'[i] = rows[i]
  /\ \A id \in Ids : PairOf(id) = p =>
       /\ (Found(id))' <=> Found(id)
       /\ Found(id) => rows'[index'[id]] = rows[index[id]]

\* The current entries of a pair are those of its entries that the last save's epoch has.
LEMMA CurrentIs ==
  ASSUME NEW p
  PROVE  /\ Current(p) = {e \in AuditOf(p) : e.entry.epoch = saves}
         /\ (Current(p))' = {e \in (AuditOf(p))' : e.entry.epoch = saves'}
<1>1. Current(p) = {e \in AuditOf(p) : e.entry.epoch = saves}
  BY DEF Current, AuditOf
<1>2. (Current(p))' = {e \in (AuditOf(p))' : e.entry.epoch = saves'}
  BY DEF Current, AuditOf
<1>. QED BY <1>1, <1>2

\* A step of a request on another pair.
LEMMA OtherPair ==
  ASSUME TypeOK, NEW p \in Pairs, PairOK(p), NEW h \in Handlers,
         \A g \in Handlers \ {h} : handling'[g] = handling[g],
         h \notin Busy(p), h \notin (Busy(p))',
         UNCHANGED saves, clock' \in Nat, clock' >= clock,
         (AuditOf(p))' = AuditOf(p), SameRows(p)
  PROVE  (PairOK(p))'
<1>1. (Busy(p))' = Busy(p) /\ \A g \in Busy(p) : g # h /\ handling'[g] = handling[g]
  BY DEF Busy
<1>2. (Current(p))' = Current(p)
  BY CurrentIs
<1>3. \A e \in AuditOf(p) : e.time \in Nat
  <2>1. \A i \in DOMAIN audit : audit[i] \in Logged
    BY ElementOfSeq, LenProperties DEF TypeOK
  <2>. QED BY <2>1 DEF AuditOf, Logged
<1>4. (TimesOK(p))'
  <2>1. clock \in Nat
    BY DEF TypeOK
  <2>2. \A e \in (AuditOf(p))' : e.time <= clock' /\ e.entry.epoch <= saves'
    BY <1>3, <2>1 DEF PairOK, TimesOK
  <2>3. \A g \in Busy(p) : handling[g].pc = "stamped" => handling[g].time \in Nat
    BY StateOf DEF TypeOK, Busy
  <2>4. \A g \in Busy(p) : handling'[g].pc = "stamped" =>
          /\ handling'[g].time <= clock'
          /\ \A e \in (AuditOf(p))' : e.time < handling'[g].time
    BY <1>1, <2>1, <2>3 DEF PairOK, TimesOK
  <2>. QED BY <1>1, <2>2, <2>4 DEF PairOK, TimesOK
<1>5. (RequestOK(p))'
  <2>1. \A g \in Busy(p) : handling[g].id \in Ids /\ PairOf(handling[g].id) = p
    BY StateOf DEF TypeOK, Busy
  <2>2. ASSUME NEW g \in Busy(p), handling[g].pc = "looked"
        PROVE  (IF Found(handling[g].id)
                THEN handling[g].pair = p /\ handling[g].prev = rows[index[handling[g].id]].status
                ELSE handling[g].pair = NoPair)'
    <3>. DEFINE id == handling[g].id
    <3>1. /\ id \in Ids /\ PairOf(id) = p /\ handling'[g] = handling[g]
          /\ IF Found(id)
             THEN handling[g].pair = p /\ handling[g].prev = rows[index[id]].status
             ELSE handling[g].pair = NoPair
      BY <1>1, <2>1, <2>2 DEF PairOK, RequestOK
    <3>2. /\ id \in DOMAIN index' /\ index'[id] \in DOMAIN rows' <=> Found(id)
          /\ Found(id) => rows'[index'[id]] = rows[index[id]]
      BY <3>1 DEF SameRows, Found
    <3>. QED BY <3>1, <3>2 DEF Found
  <2>. QED BY <1>1, <2>2 DEF PairOK, RequestOK
<1>6. (StoryOK(p))'
  <2>1. ASSUME NEW i, RowsOfPair(p) = {i}
        PROVE  rows'[i] = rows[i] /\ i \in DOMAIN rows
    BY <2>1 DEF SameRows, RowsOfPair
  <2>2. (RowsOfPair(p))' = RowsOfPair(p)
    BY DEF SameRows
  <2>. QED BY <1>1, <1>2, <2>1, <2>2 DEF PairOK, StoryOK, Chain, LastSays
<1>. QED BY <1>4, <1>5, <1>6 DEF PairOK

\* A step that leaves the rows alone leaves those of a pair.
LEMMA SameTable ==
  ASSUME UNCHANGED table, NEW p
  PROVE  SameRows(p)
BY DEF table, SameRows, RowsOfPair, Found

\* A step that leaves the log alone leaves the entries of a pair.
LEMMA SameAudit ==
  ASSUME UNCHANGED audit, NEW p
  PROVE  (AuditOf(p))' = AuditOf(p)
BY DEF AuditOf

\* Who is busy with a pair after a step of one handler.
LEMMA BusyAfter ==
  ASSUME TypeOK, TypeOK', NEW h \in Handlers, NEW p \in Pairs,
         \A g \in Handlers \ {h} : handling'[g] = handling[g]
  PROVE  /\ h \in (Busy(p))' <=> handling'[h].pc # "idle" /\ PairOf(handling'[h].id) = p
         /\ h \in Busy(p) <=> handling[h].pc # "idle" /\ PairOf(handling[h].id) = p
         /\ \A g \in Handlers \ {h} : g \in (Busy(p))' <=> g \in Busy(p)
         /\ Busy(p) \subseteq Handlers /\ (Busy(p))' \subseteq Handlers
BY DEF Busy

\* A request begins: it meets no other on its pair, or the pair is raced from now on.
LEMMA StoryLookUp ==
  ASSUME TypeOK, TypeOK', IndexIsCurrent, StoryInv,
         NEW h \in Handlers, NEW id \in Ids, NEW action \in Actions, LookUp(h, id, action),
         NEW p \in Pairs \ raced'
  PROVE  (PairOK(p))'
<1>1. /\ handling[h].pc = "idle" /\ p \notin raced /\ p \in Pairs
      /\ UNCHANGED <<table, audit, clock, saves>>
      /\ PairOf(id) = p => Busy(p) = {}
  BY DEF LookUp, Arrive
<1>2. PairOK(p)
  BY <1>1 DEF StoryInv, PairOK
<1>3. /\ \A g \in Handlers \ {h} : handling'[g] = handling[g]
      /\ handling'[h].pc = "looked" /\ handling'[h].id = id
      /\ handling'[h].pair = IF Found(id) THEN PairOf(id) ELSE NoPair
      /\ handling'[h].prev = IF Found(id) THEN rows[index[id]].status ELSE Unset
  BY DEF LookUp, TypeOK
<1>4. h \notin Busy(p)
  BY <1>1 DEF Busy
<1>5. CASE PairOf(id) # p
  <2>1. h \notin (Busy(p))'
    BY <1>3, <1>5 DEF Busy
  <2>2. clock' \in Nat /\ clock' >= clock
    BY <1>1 DEF TypeOK
  <2>. QED BY <1>1, <1>2, <1>3, <1>4, <2>1, <2>2, OtherPair, SameTable, SameAudit
<1>6. CASE PairOf(id) = p
  <2>1. Busy(p) = {} /\ (Busy(p))' = {h}
    BY <1>1, <1>3, <1>6 DEF Busy
  <2>2. (AuditOf(p))' = AuditOf(p) /\ (Current(p))' = Current(p)
    BY <1>1, SameAudit, CurrentIs
  <2>3. (TimesOK(p))'
    BY <1>1, <1>2, <1>3, <2>1, <2>2 DEF PairOK, TimesOK
  <2>4. (RequestOK(p))'
    BY <1>1, <1>3, <1>6, <2>1 DEF RequestOK, Found, table
  <2>5. (StoryOK(p))'
    <3>1. (RowsOfPair(p))' = RowsOfPair(p) /\ rows' = rows
      BY <1>1 DEF RowsOfPair, table
    <3>. QED BY <1>2, <1>3, <2>1, <2>2, <3>1 DEF PairOK, StoryOK, Chain, LastSays
  <2>. QED BY <2>3, <2>4, <2>5 DEF PairOK
<1>. QED BY <1>5, <1>6

\* A refused request leaves the row as it is.
LEMMA StoryRefuse ==
  ASSUME TypeOK, TypeOK', StoryInv, NEW h \in Handlers, Refuse(h), NEW p \in Pairs \ raced'
  PROVE  (PairOK(p))'
<1>1. /\ handling[h].pc = "looked" /\ p \notin raced /\ p \in Pairs
      /\ UNCHANGED <<table, audit, clock, saves>>
  BY DEF Refuse
<1>2. PairOK(p)
  BY <1>1 DEF StoryInv, PairOK
<1>3. /\ \A g \in Handlers \ {h} : handling'[g] = handling[g]
      /\ handling'[h].pc = "idle"
  BY DEF Refuse, TypeOK, Idle
<1>4. h \notin (Busy(p))'
  BY <1>3 DEF Busy
<1>5. CASE h \notin Busy(p)
  <2>2. clock' \in Nat /\ clock' >= clock
    BY <1>1 DEF TypeOK
  <2>. QED BY <1>1, <1>2, <1>3, <1>4, <1>5, <2>2, OtherPair, SameTable, SameAudit
<1>6. CASE h \in Busy(p)
  <2>1. Busy(p) = {h} /\ (Busy(p))' = {}
    <3>1. Busy(p) = {h}
      BY <1>2, <1>6 DEF PairOK, RequestOK
    <3>. QED BY <1>3, <1>4, <3>1 DEF Busy
  <2>2. (AuditOf(p))' = AuditOf(p) /\ (Current(p))' = Current(p)
    BY <1>1, SameAudit, CurrentIs
  <2>3. (TimesOK(p))'
    BY <1>1, <1>2, <2>1, <2>2 DEF PairOK, TimesOK
  <2>4. (RequestOK(p))'
    BY <2>1 DEF RequestOK
  <2>5. (StoryOK(p))'
    <3>1. (RowsOfPair(p))' = RowsOfPair(p) /\ rows' = rows
      BY <1>1 DEF RowsOfPair, table
    <3>. QED BY <1>1, <1>2, <2>1, <2>2, <3>1 DEF PairOK, StoryOK, Chain, LastSays
  <2>. QED BY <2>3, <2>4, <2>5 DEF PairOK
<1>. QED BY <1>5, <1>6

\* A decision starts from the status that was looked up, which is still the row's.
LEMMA StoryUpdate ==
  ASSUME TypeOK, TypeOK', IndexIsCurrent, StoryInv,
         NEW h \in Handlers, Update(h), NEW p \in Pairs \ raced'
  PROVE  (PairOK(p))'
<1>. DEFINE hd == handling[h]
            st == Target(hd.action)
            e  == EntryOf(hd, hd.prev, st)
<1>1. /\ hd.pc = "looked" /\ p \notin raced /\ p \in Pairs
      /\ Found(hd.id) /\ SetStatus(hd.id, st) /\ st \in Decided
      /\ UNCHANGED <<index, audit, clock, saves>>
      /\ handling' = [handling EXCEPT ![h] = [pc |-> "decided", id |-> hd.id, entry |-> e]]
  BY DEF Update, Decide, Target, Decided
<1>2. PairOK(p)
  BY <1>1 DEF StoryInv, PairOK
<1>3. /\ \A g \in Handlers \ {h} : handling'[g] = handling[g]
      /\ handling'[h].pc = "decided" /\ handling'[h].id = hd.id /\ handling'[h].entry = e
  BY <1>1 DEF TypeOK
<1>4. /\ e.pair = hd.pair /\ e.prev = hd.prev /\ e.new = st /\ e.epoch = saves
  BY DEF EntryOf
<1>5. /\ index[hd.id] \in DOMAIN rows /\ rows[index[hd.id]].id = hd.id
      /\ hd.id \in Ids
  BY <1>1, StateOf DEF Found, IndexIsCurrent, TypeOK
<1>. HIDE DEF st, e
<1>6. /\ DOMAIN rows' = DOMAIN rows
      /\ \A i \in DOMAIN rows : rows'[i].id = rows[i].id
      /\ \A i \in DOMAIN rows : i # index[hd.id] => rows'[i] = rows[i]
      /\ rows'[index[hd.id]].status = st
  <2>1. /\ DOMAIN rows' = DOMAIN rows
        /\ \A i \in DOMAIN rows : IF i = index[hd.id]
                                  THEN rows'[i] = [id |-> rows[i].id, status |-> st]
                                  ELSE rows'[i] = rows[i]
    BY <1>1, SetStatusType DEF TypeOK
  <2>. QED BY <1>5, <2>1
<1>. HIDE DEF hd
<1>7. (RowsOfPair(p))' = RowsOfPair(p)
  BY <1>6 DEF RowsOfPair
<1>8. (AuditOf(p))' = AuditOf(p) /\ (Current(p))' = Current(p)
  BY <1>1, SameAudit, CurrentIs
<1>9. /\ h \in Busy(p) <=> PairOf(hd.id) = p
      /\ h \in (Busy(p))' <=> PairOf(hd.id) = p
  BY <1>1, <1>3 DEF Busy, hd
<1>10. CASE PairOf(hd.id) # p
  <2>1. index[hd.id] \notin RowsOfPair(p)
    BY <1>5, <1>10 DEF RowsOfPair
  <2>2. \A i \in RowsOfPair(p) : rows'[i] = rows[i]
    BY <1>6, <2>1 DEF RowsOfPair
  <2>3. ASSUME NEW id \in Ids, PairOf(id) = p
        PROVE  /\ (Found(id))' <=> Found(id)
               /\ Found(id) => rows'[index'[id]] = rows[index[id]]
    <3>1. (Found(id))' <=> Found(id)
      BY <1>1, <1>6 DEF Found
    <3>2. Found(id) => index[id] \in RowsOfPair(p)
      BY <2>3 DEF Found, IndexIsCurrent, RowsOfPair
    <3>. QED BY <1>1, <2>2, <3>1, <3>2
  <2>4. SameRows(p)
    BY <1>7, <2>2, <2>3 DEF SameRows
  <2>5. clock' \in Nat /\ clock' >= clock
    BY <1>1 DEF TypeOK
  <2>. QED BY <1>1, <1>2, <1>3, <1>8, <1>9, <1>10, <2>4, <2>5, OtherPair
<1>11. CASE PairOf(hd.id) = p
  <2>1. Busy(p) = {h} /\ (Busy(p))' = {h}
    <3>1. Busy(p) = {h}
      BY <1>2, <1>9, <1>11 DEF PairOK, RequestOK
    <3>. QED BY <1>3, <1>9, <1>11, <3>1 DEF Busy
  <2>2. hd.pair = p /\ hd.prev = rows[index[hd.id]].status
    BY <1>1, <1>2, <2>1 DEF PairOK, RequestOK, hd
  <2>3. index[hd.id] \in RowsOfPair(p)
    BY <1>5, <1>11 DEF RowsOfPair
  <2>4. (TimesOK(p))'
    BY <1>1, <1>2, <1>3, <1>8, <2>1 DEF PairOK, TimesOK
  <2>5. (RequestOK(p))'
    BY <1>1, <1>3, <1>4, <2>1, <2>2 DEF RequestOK
  <2>6. (StoryOK(p))'
    <3>1. ASSUME NEW i, RowsOfPair(p) = {i}
          PROVE  /\ i = index[hd.id] /\ Chain(p) /\ LastSays(p, hd.prev)
                 /\ i \in DOMAIN rows
      <4>1. i = index[hd.id]
        BY <2>3, <3>1
      <4>2. Chain(p) /\ LastSays(p, rows[i].status)
        BY <1>1, <1>2, <1>5, <2>1, <3>1, <4>1 DEF PairOK, StoryOK, hd
      <4>. QED BY <1>5, <2>2, <4>1, <4>2
    <3>2. (RowsOfPair(p))' # {}
      BY <1>7, <2>3
    <3>3. ASSUME NEW i \in DOMAIN rows', (RowsOfPair(p))' = {i}
          PROVE  /\ (Chain(p))'
                 /\ (LastSays(p, handling[h].entry.prev))'
                 /\ handling'[h].entry.new = rows'[i].status
      <4>1. /\ i = index[hd.id] /\ Chain(p) /\ LastSays(p, hd.prev)
        BY <1>7, <3>1, <3>3
      <4>2. (Chain(p))'
        BY <1>8, <4>1 DEF Chain
      <4>3. (LastSays(p, handling[h].entry.prev))'
        BY <1>3, <1>4, <1>8, <4>1 DEF LastSays
      <4>. QED BY <1>3, <1>4, <1>6, <4>1, <4>2, <4>3
    <3>. QED BY <1>3, <2>1, <3>2, <3>3 DEF StoryOK
  <2>. QED BY <2>4, <2>5, <2>6 DEF PairOK
<1>. QED BY <1>10, <1>11

\* A link is the first decision about a pair without a row, or adds a second row.
LEMMA StoryLink ==
  ASSUME TypeOK, TypeOK', IndexIsCurrent, StoryInv,
         NEW h \in Handlers, NEW q \in Pairs, ManualLink(h, q), NEW p \in Pairs \ raced'
  PROVE  (PairOK(p))'
<1>1. /\ handling[h].pc = "idle" /\ p \notin raced /\ p \in Pairs
      /\ rows' = Append(rows, LinkedRow(q))
      /\ index' = [id \in DOMAIN index \cup {LinkedRow(q).id} |->
                     IF id = LinkedRow(q).id THEN Len(rows) + 1 ELSE index[id]]
      /\ UNCHANGED <<audit, clock, saves>>
      /\ q = p => Busy(p) = {}
  BY DEF ManualLink, Arrive
<1>2. PairOK(p)
  BY <1>1 DEF StoryInv, PairOK
<1>3. /\ \A g \in Handlers \ {h} : handling'[g] = handling[g]
      /\ handling'[h].pc = "decided" /\ handling'[h].id = LinkedRow(q).id
      /\ handling'[h].entry = LinkEntry(q)
  BY DEF ManualLink, TypeOK
<1>4. /\ DOMAIN rows' = 1 .. (Len(rows) + 1) /\ DOMAIN rows = 1 .. Len(rows) /\ Len(rows) \in Nat
      /\ \A i \in DOMAIN rows : rows'[i] = rows[i]
      /\ rows'[Len(rows) + 1] = LinkedRow(q)
  BY <1>1, LinkType DEF TypeOK
<1>5. PairOf(LinkedRow(q).id) = q /\ LinkedRow(q).status = "CONFIRMED"
  BY DEF LinkedRow, PairOf
<1>6. h \notin Busy(p)
  BY <1>1 DEF Busy
<1>7. (AuditOf(p))' = AuditOf(p) /\ (Current(p))' = Current(p)
  BY <1>1, SameAudit, CurrentIs
<1>8. CASE q # p
  <2>1. h \notin (Busy(p))'
    BY <1>3, <1>5, <1>8 DEF Busy
  <2>2. (RowsOfPair(p))' = RowsOfPair(p) /\ \A i \in RowsOfPair(p) : rows'[i] = rows[i]
    BY <1>4, <1>5, <1>8 DEF RowsOfPair
  <2>3. ASSUME NEW id \in Ids, PairOf(id) = p
        PROVE  /\ (Found(id))' <=> Found(id)
               /\ Found(id) => rows'[index'[id]] = rows[index[id]]
    <3>1. id # LinkedRow(q).id
      BY <1>5, <1>8, <2>3
    <3>2. id \in DOMAIN index' <=> id \in DOMAIN index
      BY <1>1, <3>1
    <3>3. id \in DOMAIN index => index'[id] = index[id] /\ index[id] \in DOMAIN rows
      BY <1>1, <3>1 DEF IndexIsCurrent
    <3>4. DOMAIN rows \subseteq DOMAIN rows'
      BY <1>4
    <3>. QED BY <1>4, <3>2, <3>3, <3>4 DEF Found
  <2>4. SameRows(p)
    BY <2>2, <2>3 DEF SameRows
  <2>5. clock' \in Nat /\ clock' >= clock
    BY <1>1 DEF TypeOK
  <2>. QED BY <1>1, <1>2, <1>3, <1>6, <1>7, <2>1, <2>4, <2>5, OtherPair
<1>9. CASE q = p
  <2>1. Busy(p) = {} /\ (Busy(p))' = {h}
    BY <1>1, <1>3, <1>5, <1>9 DEF Busy
  <2>2. (TimesOK(p))'
    BY <1>1, <1>2, <1>3, <1>7, <2>1 DEF PairOK, TimesOK
  <2>3. (RequestOK(p))'
    BY <1>1, <1>3, <1>9, <2>1 DEF RequestOK, LinkEntry
  <2>4. (RowsOfPair(p))' = RowsOfPair(p) \cup {Len(rows) + 1} /\ Len(rows) + 1 \notin RowsOfPair(p)
    BY <1>4, <1>5, <1>9 DEF RowsOfPair
  <2>5. (StoryOK(p))'
    <3>1. ASSUME NEW i \in DOMAIN rows', (RowsOfPair(p))' = {i}
          PROVE  Current(p) = {} /\ rows'[i].status = "CONFIRMED"
      <4>1. RowsOfPair(p) = {} /\ i = Len(rows) + 1
        BY <2>4, <3>1
      <4>2. Current(p) = {}
        BY <1>2, <4>1 DEF PairOK, StoryOK
      <4>. QED BY <1>4, <1>5, <4>1, <4>2
    <3>2. (RowsOfPair(p))' # {}
      BY <2>4
    <3>3. handling'[h].entry.new = "CONFIRMED"
      BY <1>3 DEF LinkEntry
    <3>. QED BY <1>3, <1>7, <2>1, <3>1, <3>2, <3>3 DEF StoryOK, Chain, LastSays
  <2>. QED BY <2>2, <2>3, <2>5 DEF PairOK
<1>. QED BY <1>8, <1>9

\* The time is taken: it is later than that of every entry.
LEMMA StoryStamp ==
  ASSUME TypeOK, TypeOK', StoryInv, NEW h \in Handlers, Stamp(h), NEW p \in Pairs \ raced'
  PROVE  (PairOK(p))'
<1>1. /\ handling[h].pc = "decided" /\ p \notin raced /\ p \in Pairs
      /\ clock' = clock + 1 /\ clock \in Nat
      /\ UNCHANGED <<table, audit, saves>>
  BY DEF Stamp, TypeOK
<1>2. PairOK(p)
  BY <1>1 DEF StoryInv, PairOK
<1>3. /\ \A g \in Handlers \ {h} : handling'[g] = handling[g]
      /\ handling'[h].pc = "stamped" /\ handling'[h].id = handling[h].id
      /\ handling'[h].entry = handling[h].entry /\ handling'[h].time = clock + 1
  BY DEF Stamp, TypeOK
<1>4. h \in Busy(p) <=> h \in (Busy(p))'
  BY <1>1, <1>3 DEF Busy
<1>5. (AuditOf(p))' = AuditOf(p) /\ (Current(p))' = Current(p)
  BY <1>1, SameAudit, CurrentIs
<1>6. CASE h \notin Busy(p)
  <2>1. clock' \in Nat /\ clock' >= clock
    BY <1>1
  <2>. QED BY <1>1, <1>2, <1>3, <1>4, <1>5, <1>6, <2>1, OtherPair, SameTable
<1>7. CASE h \in Busy(p)
  <2>1. Busy(p) = {h} /\ (Busy(p))' = {h}
    <3>1. Busy(p) = {h}
      BY <1>2, <1>7 DEF PairOK, RequestOK
    <3>. QED BY <1>3, <1>4, <3>1 DEF Busy
  <2>2. \A e \in AuditOf(p) : e.time \in Nat
    <3>1. \A i \in DOMAIN audit : audit[i] \in Logged
      BY ElementOfSeq, LenProperties DEF TypeOK
    <3>. QED BY <3>1 DEF AuditOf, Logged
  <2>3. \A e \in AuditOf(p) : e.time <= clock /\ e.time <= clock' /\ e.time < clock + 1
    BY <1>1, <1>2, <2>2 DEF PairOK, TimesOK
  <2>4. (TimesOK(p))'
    BY <1>1, <1>2, <1>3, <1>5, <2>1, <2>3 DEF PairOK, TimesOK
  <2>5. (RequestOK(p))'
    BY <1>1, <1>2, <1>3, <2>1 DEF PairOK, RequestOK
  <2>6. (StoryOK(p))'
    <3>1. (RowsOfPair(p))' = RowsOfPair(p) /\ rows' = rows
      BY <1>1 DEF RowsOfPair, table
    <3>2. RowsOfPair(p) # {}
      BY <1>1, <1>2, <2>1 DEF PairOK, StoryOK
    <3>3. ASSUME NEW i \in DOMAIN rows, RowsOfPair(p) = {i}
          PROVE  /\ Chain(p) /\ LastSays(p, handling[h].entry.prev)
                 /\ handling[h].entry.new = rows[i].status
      BY <1>1, <1>2, <2>1, <3>3 DEF PairOK, StoryOK
    <3>. QED BY <1>3, <1>5, <2>1, <3>1, <3>2, <3>3 DEF StoryOK, Chain, LastSays
  <2>. QED BY <2>4, <2>5, <2>6 DEF PairOK
<1>. QED BY <1>6, <1>7

\* The entry a request will append names the pair it is about, or none.
EntryNamesItsPair == \A h \in Handlers :
  handling[h].pc \in {"decided", "stamped"} =>
    handling[h].entry.pair \in {PairOf(handling[h].id), NoPair}

\* A decision names what was looked up; a link names its own pair; a stamp changes no entry.
LEMMA NamesStep ==
  TypeOK /\ LookedAtItsPair /\ EntryNamesItsPair /\ [Next]_vars => EntryNamesItsPair'
<1>. SUFFICES ASSUME TypeOK, LookedAtItsPair, EntryNamesItsPair, [Next]_vars
              PROVE  EntryNamesItsPair'
  OBVIOUS
<1>1. ASSUME NEW h \in Handlers,
             \/ \E id \in Ids, action \in Actions : LookUp(h, id, action)
             \/ Refuse(h) \/ RecordAuditLog(h)
      PROVE  EntryNamesItsPair'
  <2>1. /\ handling'[h].pc \notin {"decided", "stamped"}
        /\ \A g \in Handlers \ {h} : handling'[g] = handling[g]
    BY <1>1 DEF LookUp, Refuse, RecordAuditLog, Idle, TypeOK
  <2>. QED BY <2>1 DEF EntryNamesItsPair
<1>2. ASSUME NEW h \in Handlers, Update(h) PROVE EntryNamesItsPair'
  <2>1. handling[h].pair \in {PairOf(handling[h].id), NoPair}
    BY <1>2 DEF LookedAtItsPair, Update
  <2>2. /\ handling'[h].id = handling[h].id /\ handling'[h].entry.pair = handling[h].pair
        /\ \A g \in Handlers \ {h} : handling'[g] = handling[g]
    BY <1>2 DEF Update, Decide, EntryOf, TypeOK
  <2>. QED BY <2>1, <2>2 DEF EntryNamesItsPair
<1>3. ASSUME NEW h \in Handlers, NEW p \in Pairs, ManualLink(h, p) PROVE EntryNamesItsPair'
  <2>1. /\ handling'[h].id = <<"manual", p>> /\ handling'[h].entry.pair = p
        /\ \A g \in Handlers \ {h} : handling'[g] = handling[g]
    BY <1>3 DEF ManualLink, LinkedRow, LinkEntry, TypeOK
  <2>. QED BY <2>1 DEF EntryNamesItsPair, PairOf
<1>4. ASSUME NEW h \in Handlers, Stamp(h) PROVE EntryNamesItsPair'
  <2>1. /\ handling[h].pc = "decided"
        /\ handling'[h].id = handling[h].id /\ handling'[h].entry = handling[h].entry
        /\ \A g \in Handlers \ {h} : handling'[g] = handling[g]
    BY <1>4 DEF Stamp, TypeOK
  <2>. QED BY <2>1 DEF EntryNamesItsPair
<1>5. CASE UNCHANGED handling
  BY <1>5 DEF EntryNamesItsPair
<1>. QED BY <1>1, <1>2, <1>3, <1>4, <1>5 DEF Next, SaveResults, vars

\* The entry is appended: it becomes the latest of its pair.
LEMMA StoryRecord ==
  ASSUME TypeOK, TypeOK', StoryInv, EntryNamesItsPair,
         NEW h \in Handlers, RecordAuditLog(h), NEW p \in Pairs \ raced'
  PROVE  (PairOK(p))'
<1>. DEFINE logged == [entry |-> handling[h].entry, time |-> handling[h].time]
<1>1. /\ handling[h].pc = "stamped" /\ p \notin raced /\ p \in Pairs
      /\ audit' = Append(audit, logged)
      /\ UNCHANGED <<table, clock, saves>>
  BY DEF RecordAuditLog
<1>2. PairOK(p)
  BY <1>1 DEF StoryInv, PairOK
<1>3. /\ \A g \in Handlers \ {h} : handling'[g] = handling[g]
      /\ handling'[h].pc = "idle"
  BY DEF RecordAuditLog, TypeOK, Idle
<1>4. h \notin (Busy(p))'
  BY <1>3 DEF Busy
<1>5. logged.entry = handling[h].entry /\ logged.time = handling[h].time /\ logged \in Logged
      /\ handling[h].entry.pair \in Pairs \cup {NoPair}
  <2>1. handling[h].entry \in Entry /\ handling[h].time \in Nat
    BY <1>1, StateOf DEF TypeOK
  <2>. QED BY <2>1 DEF Logged, Entry
<1>. HIDE DEF logged
<1>6. /\ DOMAIN audit = 1 .. Len(audit) /\ DOMAIN audit' = 1 .. (Len(audit) + 1) /\ Len(audit) \in Nat
      /\ \A i \in DOMAIN audit : audit'[i] = audit[i]
      /\ audit'[Len(audit) + 1] = logged
  <2>1. /\ audit \in Seq(Logged) /\ audit' \in Seq(Logged) /\ Len(audit') = Len(audit) + 1
        /\ \A i \in 1 .. Len(audit) : audit'[i] = audit[i]
        /\ audit'[Len(audit) + 1] = logged
    BY <1>1, <1>5, AppendProperties DEF TypeOK
  <2>. QED BY <2>1, LenProperties
<1>7. (AuditOf(p))' = IF logged.entry.pair = p THEN AuditOf(p) \cup {logged} ELSE AuditOf(p)
  <2>1. ASSUME NEW x
        PROVE  x \in (AuditOf(p))' <=> x \in AuditOf(p) \/ (x = logged /\ logged.entry.pair = p)
    BY <1>6 DEF AuditOf
  <2>. QED BY <2>1
<1>8. CASE h \notin Busy(p)
  <2>1. logged.entry.pair # p
    <3>1. handling[h].entry.pair \in {PairOf(handling[h].id), NoPair}
      BY <1>1 DEF EntryNamesItsPair
    <3>2. PairOf(handling[h].id) # p
      BY <1>1, <1>8 DEF Busy
    <3>. QED BY <1>1, <1>5, <3>1, <3>2, PairsAssumption
  <2>2. clock' \in Nat /\ clock' >= clock
    BY <1>1 DEF TypeOK
  <2>. QED BY <1>1, <1>2, <1>3, <1>4, <1>7, <1>8, <2>1, <2>2, OtherPair, SameTable
<1>9. CASE h \in Busy(p)
  <2>1. Busy(p) = {h} /\ (Busy(p))' = {}
    <3>1. Busy(p) = {h}
      BY <1>2, <1>9 DEF PairOK, RequestOK
    <3>. QED BY <1>3, <1>4, <3>1 DEF Busy
  <2>2. logged.entry.pair = p /\ logged.entry.epoch = saves
    BY <1>1, <1>2, <1>5, <2>1 DEF PairOK, RequestOK
  <2>3. (AuditOf(p))' = AuditOf(p) \cup {logged} /\ (Current(p))' = Current(p) \cup {logged}
    <3>1. (AuditOf(p))' = AuditOf(p) \cup {logged}
      BY <1>7, <2>2
    <3>. QED BY <1>1, <2>2, <3>1, CurrentIs
  <2>4. /\ logged.time <= clock /\ logged.time \in Nat /\ saves \in Nat
        /\ \A e \in AuditOf(p) : e.time < logged.time /\ e.time \in Nat /\ e.time # logged.time
    <3>1. /\ logged.time <= clock /\ \A e \in AuditOf(p) : e.time < logged.time
      BY <1>1, <1>2, <1>5, <2>1 DEF PairOK, TimesOK
    <3>2. \A i \in DOMAIN audit : audit[i] \in Logged
      BY ElementOfSeq, LenProperties DEF TypeOK
    <3>3. \A e \in AuditOf(p) : e.time \in Nat
      BY <3>2 DEF AuditOf, Logged
    <3>4. logged.time \in Nat /\ saves \in Nat
      BY <1>5 DEF Logged, TypeOK
    <3>. QED BY <3>1, <3>3, <3>4
  <2>5. (TimesOK(p))'
    <3>1. \A e \in (AuditOf(p))' : e.time <= clock' /\ e.entry.epoch <= saves'
      BY <1>1, <1>2, <2>2, <2>3, <2>4 DEF PairOK, TimesOK
    <3>2. \A e, f \in (AuditOf(p))' : e.time = f.time => e = f
      BY <1>2, <2>3, <2>4 DEF PairOK, TimesOK
    <3>. QED BY <2>1, <3>1, <3>2 DEF TimesOK
  <2>6. (RequestOK(p))'
    BY <2>1 DEF RequestOK
  <2>7. (StoryOK(p))'
    <3>1. (RowsOfPair(p))' = RowsOfPair(p) /\ rows' = rows
      BY <1>1 DEF RowsOfPair, table
    <3>2. RowsOfPair(p) # {}
      BY <1>1, <1>2, <2>1 DEF PairOK, StoryOK
    <3>3. ASSUME NEW i \in DOMAIN rows, RowsOfPair(p) = {i}
          PROVE  (Chain(p))' /\ (LastSays(p, rows[i].status))'
      <4>1. /\ Chain(p) /\ LastSays(p, logged.entry.prev)
            /\ logged.entry.new = rows[i].status
        BY <1>1, <1>2, <1>5, <2>1, <3>3 DEF PairOK, StoryOK
      <4>2. \A e \in Current(p) : e \in AuditOf(p)
        BY CurrentIs
      <4>3. ASSUME NEW e \in Current(p),
                   ~(\E g \in Current(p) : e.time < g.time /\ g.time < logged.time)
            PROVE  logged.entry.prev = e.entry.new
        <5>1. PICK last \in Current(p) : /\ \A f \in Current(p) : f.time <= last.time
                                         /\ last.entry.new = logged.entry.prev
          BY <4>1, <4>3 DEF LastSays
        <5>2. last.time = e.time
          BY <2>4, <4>2, <4>3, <5>1
        <5>3. last = e
          BY <1>2, <4>2, <5>2 DEF PairOK, TimesOK
        <5>. QED BY <5>1, <5>3
      <4>4. (Chain(p))'
        <5>. SUFFICES ASSUME NEW e \in Current(p) \cup {logged}, NEW f \in Current(p) \cup {logged},
                             e.time < f.time,
                             ~(\E g \in Current(p) \cup {logged} : e.time < g.time /\ g.time < f.time)
                      PROVE  f.entry.prev = e.entry.new
          BY <2>3 DEF Chain
        <5>1. e \in Current(p)
          BY <2>4, <4>2
        <5>2. CASE f = logged
          BY <4>3, <5>1, <5>2
        <5>3. CASE f \in Current(p)
          BY <4>1, <5>1, <5>3 DEF Chain
        <5>. QED BY <5>2, <5>3
      <4>5. (LastSays(p, rows[i].status))'
        <5>1. logged \in (Current(p))' /\ \A f \in (Current(p))' : f.time <= logged.time
          BY <2>3, <2>4, <4>2
        <5>. QED BY <3>1, <4>1, <5>1 DEF LastSays
      <4>. QED BY <4>4, <4>5
    <3>. QED BY <2>1, <3>1, <3>2, <3>3 DEF StoryOK
  <2>. QED BY <2>5, <2>6, <2>7 DEF PairOK
<1>. QED BY <1>8, <1>9

\* A run's rows begin a new story for a pair that nobody is busy with.
LEMMA StorySave ==
  ASSUME TypeOK, TypeOK', StoryInv, NEW rs \in Outcomes, SaveResults(rs), NEW p \in Pairs \ raced'
  PROVE  (PairOK(p))'
<1>1. /\ p \notin raced /\ p \in Pairs /\ Busy(p) = {}
      /\ saves' = saves + 1 /\ saves \in Nat
      /\ UNCHANGED <<audit, clock, handling>>
  BY DEF SaveResults, TypeOK
<1>2. PairOK(p)
  BY <1>1 DEF StoryInv, PairOK
<1>3. (Busy(p))' = {} /\ (AuditOf(p))' = AuditOf(p)
  BY <1>1, SameAudit DEF Busy
<1>4. \A e \in AuditOf(p) : e.entry.epoch \in Nat
  <2>1. \A i \in DOMAIN audit : audit[i] \in Logged
    BY ElementOfSeq, LenProperties DEF TypeOK
  <2>. QED BY <2>1 DEF AuditOf, Logged, Entry
<1>5. \A e \in AuditOf(p) : e.entry.epoch <= saves /\ e.entry.epoch # saves + 1
                            /\ e.entry.epoch <= saves + 1
  BY <1>1, <1>2, <1>4 DEF PairOK, TimesOK
<1>6. (Current(p))' = {}
  BY <1>1, <1>3, <1>5, CurrentIs
<1>7. (TimesOK(p))'
  BY <1>1, <1>2, <1>3, <1>5 DEF PairOK, TimesOK
<1>8. (RequestOK(p))' /\ (StoryOK(p))'
  BY <1>3, <1>6 DEF RequestOK, StoryOK, Chain, LastSays
<1>. QED BY <1>7, <1>8 DEF PairOK

LEMMA InitStory == Init => StoryInv
<1>. SUFFICES ASSUME Init, NEW p \in Pairs PROVE TimesOK(p) /\ RequestOK(p) /\ StoryOK(p)
  BY DEF StoryInv
<1>1. Busy(p) = {} /\ AuditOf(p) = {}
  BY DEF Init, Busy, Idle, AuditOf
<1>2. Current(p) = {}
  BY <1>1, CurrentIs
<1>. QED BY <1>1, <1>2 DEF TimesOK, RequestOK, StoryOK, Chain, LastSays

LEMMA StoryStep ==
  TypeOK /\ TypeOK' /\ IndexIsCurrent /\ EntryNamesItsPair /\ StoryInv /\ [Next]_vars => StoryInv'
<1>. SUFFICES ASSUME TypeOK, TypeOK', IndexIsCurrent, EntryNamesItsPair, StoryInv, [Next]_vars,
                     NEW p \in Pairs \ raced'
              PROVE  (PairOK(p))'
  BY DEF StoryInv, PairOK
<1>1. CASE UNCHANGED vars
  <2>1. p \in Pairs \ raced /\ PairOK(p)
    BY <1>1 DEF vars, StoryInv, PairOK
  <2>2. (Busy(p))' = Busy(p) /\ (AuditOf(p))' = AuditOf(p) /\ (Current(p))' = Current(p)
        /\ (RowsOfPair(p))' = RowsOfPair(p)
    BY <1>1 DEF vars, table, Busy, AuditOf, Current, RowsOfPair
  <2>3. (TimesOK(p))' /\ (RequestOK(p))'
    BY <1>1, <2>1, <2>2 DEF vars, table, PairOK, TimesOK, RequestOK, Found
  <2>4. (StoryOK(p))'
    BY <1>1, <2>1, <2>2 DEF vars, table, PairOK, StoryOK, Chain, LastSays
  <2>. QED BY <2>3, <2>4 DEF PairOK
<1>. QED
  BY <1>1, StoryLookUp, StoryRefuse, StoryUpdate, StoryLink, StoryStamp, StoryRecord, StorySave
     DEF Next

\* Where requests about a pair came one after the other, its log tells the story of its
\* row: each entry starts where the one before it ended, and the latest is what the row says.
THEOREM UnracedStory == Spec => []UnracedLogTellsStory
<1>. DEFINE IInv == TypeOK /\ IndexIsCurrent /\ LookedAtItsPair /\ EntryNamesItsPair /\ StoryInv
<1>1. Init => IInv
  <2>1. Init => EntryNamesItsPair
    BY DEF Init, EntryNamesItsPair, Idle
  <2>. QED BY <2>1, InitType, InitIndex, InitLog, InitStory DEF LogInv
<1>2. IInv /\ [Next]_vars => IInv'
  BY TypeStep, IndexStep, LookedStep, NamesStep, StoryStep
<1>3. IInv => UnracedLogTellsStory
  <2>. SUFFICES ASSUME IInv, NEW p \in Pairs \ raced,
                       Busy(p) = {}, Cardinality(RowsOfPair(p)) = 1
                PROVE  /\ Chain(p)
                       /\ Current(p) # {} =>
                            \A i \in RowsOfPair(p) : Latest(Current(p)).entry.new = rows[i].status
    BY DEF UnracedLogTellsStory, Chain
  <2>1. PICK i : RowsOfPair(p) = {i}
    <3>1. IsFiniteSet(DOMAIN rows)
      BY LenProperties, FS_Interval DEF TypeOK
    <3>2. IsFiniteSet(RowsOfPair(p))
      BY <3>1, FS_Subset DEF RowsOfPair
    <3>. QED BY <3>2, FS_Singleton
  <2>2. i \in DOMAIN rows
    BY <2>1 DEF RowsOfPair
  <2>3. Chain(p) /\ LastSays(p, rows[i].status)
    BY <2>1, <2>2 DEF StoryInv, StoryOK
  <2>4. ASSUME Current(p) # {}
        PROVE  Latest(Current(p)).entry.new = rows[i].status
    <3>1. PICK last \in Current(p) : /\ \A f \in Current(p) : f.time <= last.time
                                     /\ last.entry.new = rows[i].status
      BY <2>3, <2>4 DEF LastSays
    <3>. DEFINE l == Latest(Current(p))
    <3>2. l \in Current(p) /\ \A f \in Current(p) : f.time <= l.time
      BY <3>1 DEF Latest
    <3>. HIDE DEF l
    <3>3. l \in AuditOf(p) /\ last \in AuditOf(p)
      BY <3>1, <3>2, CurrentIs
    <3>4. l.time \in Nat /\ last.time \in Nat
      <4>1. \A x \in DOMAIN audit : audit[x] \in Logged
        BY ElementOfSeq, LenProperties DEF TypeOK
      <4>. QED BY <3>3, <4>1 DEF AuditOf, Logged
    <3>5. l.time = last.time
      BY <3>1, <3>2, <3>4
    <3>6. l = last
      BY <3>3, <3>5 DEF StoryInv, TimesOK
    <3>. QED BY <3>1, <3>6 DEF l
  <2>. QED BY <2>1, <2>3, <2>4
<1>. QED BY <1>1, <1>2, <1>3, PTL DEF Spec
=============================================================================
