--------------------------- MODULE SettingsProofs ---------------------------
(***************************************************************************)
(* What is stored, live and installed, for any number of requests, aliases *)
(* and restarts.  The three parts of the settings meet in no step, so each *)
(* has an invariant of its own: CoherentInv, ModelInv and AliasInv.  The   *)
(* last two need to know that a request that overlapped no other was alone *)
(* with its alias, or its model, all the time.                             *)
(***************************************************************************)
EXTENDS Settings, TLAPS

USE DEF Reads

(***************************************************************************)
(* Types.                                                                  *)
(***************************************************************************)

\* What a request's state holds follows from its pc.
LEMMA StateOf ==
  ASSUME NEW x \in ReqState
  PROVE  /\ x.pc = "writing" => /\ x.config \in Config /\ x.update \in Updates \cup {NoUpdate}
                                /\ x.mapping \in Mappings \cup {Keep}
         /\ x.pc = "posting" => x.alias \in Aliases /\ x.to \in Canonicals
         /\ x.pc = "deleting" => x.alias \in Aliases
         /\ x.pc = "new" <=> x = New
         /\ x.pc = "fitted" <=> x = [pc |-> "fitted"]
         /\ x.pc \in {"new", "done", "writing", "posting", "deleting", "fitted"}
BY DEF ReqState, New, Done

\* The defaults are percentages, and meet the constraints.
LEMMA Defaults == DefaultConfig \in Config /\ Coherent(DefaultConfig.thresholds)
<1>1. DefaultThresholds \in [Fields -> Percent]
  BY DEF DefaultThresholds, Fields, Percent
<1>2. Coherent(DefaultThresholds)
  BY DEF Coherent, DefaultThresholds, Fields
<1>. QED BY <1>1, <1>2, ConfigAssumption DEF DefaultConfig, Config

\* A request that passed the range check turns percentages into percentages.
LEMMA MergedType ==
  ASSUME NEW t \in [Fields -> Percent], NEW u \in Updates, InRange(u)
  PROVE  Merged(t, u) \in [Fields -> Percent]
BY DEF Merged, InRange

\* A handler that is about to write holds a whole configuration.
LEMMA WritingType ==
  ASSUME NEW t \in [Fields -> Percent], NEW stored \in Mappings,
         NEW u \in Updates \cup {NoUpdate}, NEW m \in Mappings \cup {Keep}
  PROVE  LET w == Writing(t, stored, u, m) IN
         w \in ReqState /\ w.pc = "writing" /\ w.config.thresholds = t
BY DEF Writing, ReqState, Config

\* What PutConfig and Upload make of a request.
LEMMA Accepted ==
  ASSUME TypeOK, NEW r \in Requests, NEW m \in Mappings \cup {Keep},
         (\E u \in Updates : PutConfig(r, u, m)) \/ (m # Keep /\ Upload(r, m))
  PROVE  \E st \in ReqState :
           /\ Start(r, st)
           /\ \/ st = Done
              \/ /\ st.pc = "writing"
                 /\ ConfigIsCoherent => Coherent(st.config.thresholds)
           /\ UNCHANGED <<tables, process, restarts, history>>
<1>1. \A read \in Readings : /\ read.thresholds \in [Fields -> Percent]
                             /\ read.mapping \in Mappings
                             /\ ConfigIsCoherent => Coherent(read.thresholds)
  BY Defaults DEF Readings, TypeOK, ConfigIsCoherent, Config
<1>2. CASE \E u \in Updates : PutConfig(r, u, m)
  <2>1. PICK u \in Updates, read \in Readings :
          LET t == Merged(read.thresholds, u) IN
          /\ Start(r, IF InRange(u) /\ Coherent(t)
                      THEN Writing(t, read.mapping, u, m) ELSE Done)
          /\ UNCHANGED <<tables, process, restarts, history>>
    BY <1>2 DEF PutConfig
  <2>. DEFINE t == Merged(read.thresholds, u)
  <2>2. CASE InRange(u) /\ Coherent(t)
    <3>1. t \in [Fields -> Percent]
      BY <1>1, <2>2, MergedType
    <3>. HIDE DEF t
    <3>. DEFINE w == Writing(t, read.mapping, u, m)
    <3>2. w \in ReqState /\ w.pc = "writing" /\ w.config.thresholds = t
      BY <1>1, <3>1, WritingType
    <3>3. Start(r, w) /\ UNCHANGED <<tables, process, restarts, history>>
      BY <2>1, <2>2 DEF t
    <3>. HIDE DEF w
    <3>. QED BY <2>2, <3>2, <3>3
  <2>3. CASE ~(InRange(u) /\ Coherent(t))
    <3>1. Start(r, Done) /\ UNCHANGED <<tables, process, restarts, history>>
      BY <2>1, <2>3
    <3>. QED BY <3>1 DEF ReqState
  <2>. QED BY <2>2, <2>3
<1>3. CASE m # Keep /\ Upload(r, m)
  <2>1. PICK read \in Readings :
          /\ Start(r, Writing(read.thresholds, read.mapping, NoUpdate, m))
          /\ UNCHANGED <<tables, process, restarts, history>>
    BY <1>3 DEF Upload
  <2>. DEFINE w == Writing(read.thresholds, read.mapping, NoUpdate, m)
  <2>2. w \in ReqState /\ w.pc = "writing" /\ w.config.thresholds = read.thresholds
    <3>1. /\ read.thresholds \in [Fields -> Percent] /\ read.mapping \in Mappings
          /\ NoUpdate \in Updates \cup {NoUpdate}
      BY <1>1
    <3>. QED BY <3>1, WritingType
  <2>. HIDE DEF w
  <2>3. Start(r, w)
    BY <2>1 DEF w
  <2>. QED BY <1>1, <2>1, <2>2, <2>3
<1>. QED BY <1>2, <1>3

\* A server with an empty database has variables of the right kinds.
LEMMA InitType == Init => TypeOK
<1>. SUFFICES ASSUME Init PROVE TypeOK
  OBVIOUS
<1>1. config \in Config
  BY Defaults DEF Init
<1>2. entries \in [Aliases -> [to : Names, deleted : BOOLEAN]]
  BY DEF Init, NoRow, Names
<1>3. live \in [Aliases -> Names] /\ told \in [Aliases -> Names \cup {Unknown}]
  BY AliasesAssumption DEF Init, Names
<1>4. req \in [Requests -> ReqState]
  BY DEF Init, ReqState
<1>5. active \in Models /\ installed \in Models /\ restarts \in 0 .. MaxRestarts
  BY ConfigAssumption DEF Init, Models
<1>6. booted \subseteq Reads /\ clashed \subseteq Requests /\ modelKnown \in BOOLEAN
  BY DEF Init
<1>. QED BY <1>1, <1>2, <1>3, <1>4, <1>5, <1>6 DEF TypeOK

\* Every action of a handler, and a boot, assign values of the right kind.
LEMMA NextType == TypeOK /\ [Next]_vars => TypeOK'
<1>. SUFFICES ASSUME TypeOK, [Next]_vars PROVE TypeOK'
  OBVIOUS
<1>. USE DEF tables, process, history
<1>0. New \in ReqState /\ Done \in ReqState /\ [pc |-> "fitted"] \in ReqState
  BY DEF ReqState
<1>1. ASSUME NEW r \in Requests, NEW m \in Mappings \cup {Keep},
             (\E u \in Updates : PutConfig(r, u, m)) \/ (m # Keep /\ Upload(r, m))
      PROVE  TypeOK'
  <2>1. PICK st \in ReqState : Start(r, st) /\ UNCHANGED <<tables, process, restarts, history>>
    BY <1>1, Accepted
  <2>. QED BY <2>1 DEF TypeOK, Start
<1>2. ASSUME NEW r \in Requests, WriteConfig(r) PROVE TypeOK'
  <2>1. req[r].config \in Config
    BY <1>2, StateOf DEF TypeOK, WriteConfig
  <2>. QED BY <1>0, <1>2, <2>1 DEF TypeOK, WriteConfig, Finish
<1>3. ASSUME NEW r \in Requests, NEW a \in Aliases, NEW c \in Canonicals, PostAlias(r, a, c)
      PROVE  TypeOK'
  <2>1. [pc |-> "posting", alias |-> a, to |-> c] \in ReqState
    BY DEF ReqState
  <2>2. clashed' \subseteq Requests
    BY <1>3 DEF TypeOK, PostAlias, Meet, On
  <2>. QED BY <1>3, <2>1, <2>2 DEF TypeOK, PostAlias, Start, Names
<1>4. ASSUME NEW r \in Requests, SaveEntry(r) \/ SaveEntryFails(r) PROVE TypeOK'
  <2>1. req[r].alias \in Aliases /\ req[r].to \in Canonicals
    BY <1>4, StateOf DEF TypeOK, SaveEntry, SaveEntryFails
  <2>2. RowFor(req[r].alias, req[r].to) \in [to : Names, deleted : BOOLEAN]
    BY <2>1 DEF RowFor, Names
  <2>3. entries' \in [Aliases -> [to : Names, deleted : BOOLEAN]]
    BY <1>4, <2>1, <2>2 DEF TypeOK, SaveEntry, SaveEntryFails
  <2>4. told' \in [Aliases -> Names \cup {Unknown}]
    BY <1>4, <2>1 DEF TypeOK, SaveEntry, SaveEntryFails, Tell, Names
  <2>. QED BY <1>0, <1>4, <2>3, <2>4 DEF TypeOK, SaveEntry, SaveEntryFails, Finish
<1>5. ASSUME NEW r \in Requests, NEW a \in Aliases, DeleteEntry(r, a) \/ DeleteEntryFails(r, a)
      PROVE  TypeOK'
  <2>1. [pc |-> "deleting", alias |-> a] \in ReqState
    BY DEF ReqState
  <2>2. Tombstone(a) \in [to : Names, deleted : BOOLEAN]
    BY DEF TypeOK, Tombstone
  <2>3. entries' \in [Aliases -> [to : Names, deleted : BOOLEAN]]
    BY <1>5, <2>2 DEF TypeOK, DeleteEntry, DeleteEntryFails
  <2>4. clashed' \subseteq Requests
    BY <1>5 DEF TypeOK, DeleteEntry, DeleteEntryFails, Meet, On
  <2>. QED BY <1>0, <1>5, <2>1, <2>3, <2>4 DEF TypeOK, DeleteEntry, DeleteEntryFails, Start
<1>6. ASSUME NEW r \in Requests, DeleteLive(r) PROVE TypeOK'
  <2>1. req[r].alias \in Aliases
    BY <1>6, StateOf DEF TypeOK, DeleteLive
  <2>. QED BY <1>0, <1>6, <2>1 DEF TypeOK, DeleteLive, Tell, Finish, Names
<1>7. ASSUME NEW r \in Requests, SaveModel(r) \/ SaveModelFails(r) PROVE TypeOK'
  <2>1. clashed' \subseteq Requests
    BY <1>7 DEF TypeOK, SaveModel, SaveModelFails, Meet, Fits
  <2>2. modelKnown' \in BOOLEAN /\ active' \in Models
    BY <1>7 DEF TypeOK, SaveModel, SaveModelFails, Models
  <2>. QED BY <1>0, <1>7, <2>1, <2>2 DEF TypeOK, SaveModel, SaveModelFails, Start
<1>8. ASSUME NEW r \in Requests, Install(r) PROVE TypeOK'
  BY <1>0, <1>8 DEF TypeOK, Install, Finish, Models
<1>9. ASSUME NEW ok \in SUBSET Reads, Restart(ok) PROVE TypeOK'
  <2>1. \A a \in Aliases : OnBoot(a, ok) \in Names
    BY AliasesAssumption DEF OnBoot, TypeOK, Names
  <2>2. req' \in [Requests -> ReqState]
    BY <1>0, <1>9 DEF Restart
  <2>3. restarts' \in 0 .. MaxRestarts
    BY <1>9, ConfigAssumption DEF Restart, TypeOK
  <2>. QED BY <1>9, <2>1, <2>2, <2>3 DEF TypeOK, Restart, Models
<1>10. ASSUME UNCHANGED vars PROVE TypeOK'
  BY <1>10 DEF TypeOK, vars
<1>. QED BY <1>1, <1>2, <1>3, <1>4, <1>5, <1>6, <1>7, <1>8, <1>9, <1>10, ConfigAssumption DEF Next

\* The kinds of all variables; in particular every stored threshold is a percentage,
\* whatever PUT /api/config is sent.
THEOREM TypeCorrect == Spec => []TypeOK
BY InitType, NextType, PTL DEF Spec

(***************************************************************************)
(* The configuration: whatever is about to be written was checked as a     *)
(* whole, or was read and is coherent because what is stored always is.    *)
(***************************************************************************)

CoherentInv ==
  /\ ConfigIsCoherent
  /\ \A r \in Requests : req[r].pc = "writing" => Coherent(req[r].config.thresholds)

\* The defaults are coherent and no request is under way.
LEMMA InitCoherent == Init => CoherentInv
BY Defaults DEF Init, CoherentInv, ConfigIsCoherent, New

\* A step that leaves the table alone and starts no writing.
LEMMA NotWriting ==
  ASSUME CoherentInv, config' = config,
         \A r \in Requests : req'[r] = req[r] \/ req'[r].pc # "writing"
  PROVE  CoherentInv'
BY DEF CoherentInv, ConfigIsCoherent, Coherent

\* Requests are checked before they write, and write what was checked.
LEMMA NextCoherent == TypeOK /\ CoherentInv /\ [Next]_vars => CoherentInv'
<1>. SUFFICES ASSUME TypeOK, CoherentInv, [Next]_vars PROVE CoherentInv'
  OBVIOUS
<1>. USE DEF tables, process, history
<1>1. ASSUME NEW r \in Requests, NEW m \in Mappings \cup {Keep},
             (\E u \in Updates : PutConfig(r, u, m)) \/ (m # Keep /\ Upload(r, m))
      PROVE  CoherentInv'
  <2>1. PICK st \in ReqState :
          /\ Start(r, st) /\ UNCHANGED <<tables, process, restarts, history>>
          /\ st = Done \/ Coherent(st.config.thresholds)
    BY <1>1, Accepted DEF CoherentInv
  <2>2. CASE st = Done
    BY <2>1, <2>2, NotWriting DEF Start, Done, TypeOK
  <2>3. CASE Coherent(st.config.thresholds)
    <3>1. \A q \in Requests : req'[q] = IF q = r THEN st ELSE req[q]
      BY <2>1 DEF Start, TypeOK
    <3>. QED BY <2>1, <2>3, <3>1 DEF CoherentInv, ConfigIsCoherent, Coherent
  <2>. QED BY <2>1, <2>2, <2>3
<1>2. ASSUME NEW r \in Requests, WriteConfig(r) PROVE CoherentInv'
  <2>1. config' = config \/ config' = req[r].config
    BY <1>2 DEF WriteConfig
  <2>2. ConfigIsCoherent'
    BY <1>2, <2>1 DEF WriteConfig, CoherentInv, ConfigIsCoherent, Coherent
  <2>3. \A q \in Requests : req'[q] = req[q] \/ req'[q].pc # "writing"
    BY <1>2 DEF WriteConfig, Finish, Done, TypeOK
  <2>. QED BY <2>2, <2>3 DEF CoherentInv, Coherent
<1>3. ASSUME config' = config,
             \E r \in Requests : \E st : st.pc # "writing" /\ req' = [req EXCEPT ![r] = st]
      PROVE  CoherentInv'
  BY <1>3, NotWriting DEF TypeOK
<1>4. ASSUME NEW r \in Requests, NEW a \in Aliases, NEW c \in Canonicals, PostAlias(r, a, c)
      PROVE  CoherentInv'
  <2>. DEFINE st == [pc |-> "posting", alias |-> a, to |-> c]
  <2>1. st.pc # "writing"
    OBVIOUS
  <2>2. config' = config /\ req' = [req EXCEPT ![r] = st]
    BY <1>4 DEF PostAlias, Start
  <2>. QED BY <1>3, <2>1, <2>2
<1>5. ASSUME NEW r \in Requests, NEW a \in Aliases, DeleteEntry(r, a) PROVE CoherentInv'
  <2>. DEFINE st == [pc |-> "deleting", alias |-> a]
  <2>1. st.pc # "writing"
    OBVIOUS
  <2>2. config' = config /\ req' = [req EXCEPT ![r] = st]
    BY <1>5 DEF DeleteEntry, Start
  <2>. QED BY <1>3, <2>1, <2>2
<1>6. ASSUME NEW r \in Requests, SaveModel(r) PROVE CoherentInv'
  <2>. DEFINE st == [pc |-> "fitted"]
  <2>1. st.pc # "writing"
    OBVIOUS
  <2>2. config' = config /\ req' = [req EXCEPT ![r] = st]
    BY <1>6 DEF SaveModel, Start
  <2>. QED BY <1>3, <2>1, <2>2
<1>7. ASSUME NEW r \in Requests,
             \/ SaveEntry(r) \/ SaveEntryFails(r) \/ DeleteLive(r)
             \/ \E a \in Aliases : DeleteEntryFails(r, a)
             \/ SaveModelFails(r) \/ Install(r)
      PROVE  CoherentInv'
  <2>1. config' = config /\ req' = [req EXCEPT ![r] = Done]
    BY <1>7 DEF SaveEntry, SaveEntryFails, DeleteLive, DeleteEntryFails, SaveModelFails,
                Install, Start, Finish
  <2>2. Done.pc # "writing"
    BY DEF Done
  <2>. QED BY <1>3, <2>1, <2>2
<1>8. ASSUME NEW ok \in SUBSET Reads, Restart(ok) PROVE CoherentInv'
  BY <1>8, NotWriting DEF Restart, New, Done
<1>9. CASE UNCHANGED vars
  BY <1>9, NotWriting DEF vars
<1>. QED BY <1>1, <1>2, <1>4, <1>5, <1>6, <1>7, <1>8, <1>9, ConfigAssumption DEF Next

\* The constraints across thresholds hold of what is stored, for any number of
\* requests that read, check and write in any order, and reads that fail.
THEOREM ConfigStaysCoherent == Spec => []ConfigIsCoherent
<1>1. CoherentInv => ConfigIsCoherent
  BY DEF CoherentInv
<1>. QED BY InitType, NextType, InitCoherent, NextCoherent, <1>1, PTL DEF Spec

(***************************************************************************)
(* The calibrator.  A fit that has met no other is the only one under way, *)
(* and its model is the active one.                                        *)
(***************************************************************************)

\* A request can only have met others once it has started.
NewIsAlone == \A r \in clashed : req[r].pc # "new"

ModelInv ==
  /\ NewIsAlone
  /\ \A r \in Fits \ clashed : Fits = {r} /\ active = r
  /\ modelKnown => Fits \cap clashed = {}
  /\ EngineUsesActive

\* Nothing is stored or installed.
LEMMA InitModel == Init => ModelInv
BY DEF Init, ModelInv, NewIsAlone, Fits, New, EngineUsesActive

\* A step of a request that is no fit.
LEMMA NoFit ==
  ASSUME ModelInv, UNCHANGED <<active, installed, modelKnown>>, Fits' = Fits,
         clashed \subseteq clashed', clashed' \cap Fits = clashed \cap Fits, NewIsAlone'
  PROVE  ModelInv'
BY DEF ModelInv, EngineUsesActive

\* Fits that overlap are marked before either installs its model.
LEMMA NextModel == TypeOK /\ ModelInv /\ [Next]_vars => ModelInv'
<1>. SUFFICES ASSUME TypeOK, ModelInv, [Next]_vars PROVE ModelInv'
  OBVIOUS
<1>. USE DEF tables, process, history
<1>. req \in [Requests -> ReqState] /\ clashed \subseteq Requests
  BY DEF TypeOK
<1>1. ASSUME NEW r \in Requests, NEW m \in Mappings \cup {Keep},
             (\E u \in Updates : PutConfig(r, u, m)) \/ (m # Keep /\ Upload(r, m))
      PROVE  ModelInv'
  <2>1. PICK st \in ReqState :
          /\ Start(r, st) /\ UNCHANGED <<tables, process, restarts, history>>
          /\ st = Done \/ st.pc = "writing"
    BY <1>1, Accepted
  <2>2. Fits' = Fits /\ NewIsAlone'
    BY <2>1 DEF Start, Fits, Done, New, ModelInv, NewIsAlone
  <2>. QED BY <2>1, <2>2, NoFit
<1>2. ASSUME NEW r \in Requests,
             WriteConfig(r) \/ SaveEntry(r) \/ SaveEntryFails(r) \/ DeleteLive(r)
      PROVE  ModelInv'
  <2>1. req[r].pc \notin {"new", "fitted"} /\ req' = [req EXCEPT ![r] = Done]
    BY <1>2 DEF WriteConfig, SaveEntry, SaveEntryFails, DeleteLive, Finish
  <2>2. UNCHANGED <<active, installed, modelKnown, clashed>>
    BY <1>2 DEF WriteConfig, SaveEntry, SaveEntryFails, DeleteLive
  <2>3. Fits' = Fits /\ NewIsAlone'
    BY <2>1, <2>2 DEF Fits, Done, ModelInv, NewIsAlone
  <2>. QED BY <2>2, <2>3, NoFit
<1>3. ASSUME NEW r \in Requests, NEW a \in Aliases,
             \/ \E c \in Canonicals : PostAlias(r, a, c)
             \/ DeleteEntry(r, a) \/ DeleteEntryFails(r, a)
      PROVE  ModelInv'
  <2>1. /\ req[r] = New /\ req'[r].pc \in {"posting", "deleting", "done"}
        /\ \A q \in Requests \ {r} : req'[q] = req[q]
    BY <1>3 DEF PostAlias, DeleteEntry, DeleteEntryFails, Start, Done
  <2>2. UNCHANGED <<active, installed, modelKnown>> /\ Meet(r, On(a))
    BY <1>3 DEF PostAlias, DeleteEntry, DeleteEntryFails
  <2>3. clashed \subseteq clashed' /\ clashed' \subseteq clashed \cup On(a) \cup {r}
    BY <2>2 DEF Meet
  <2>4. Fits' = Fits /\ r \notin Fits /\ On(a) \cap Fits = {}
    BY <2>1 DEF Fits, New, On
  <2>5. NewIsAlone'
    BY <2>1, <2>3 DEF NewIsAlone, ModelInv, On
  <2>. QED BY <2>2, <2>3, <2>4, <2>5, NoFit
<1>4. ASSUME NEW r \in Requests, SaveModel(r) PROVE ModelInv'
  <2>1. r \notin clashed /\ r \notin Fits /\ Fits' = Fits \cup {r}
    BY <1>4 DEF SaveModel, Start, New, Fits, ModelInv, NewIsAlone
  <2>2. NewIsAlone'
    BY <1>4 DEF SaveModel, Start, Meet, ModelInv, NewIsAlone, Fits
  <2>3. CASE Fits = {}
    BY <1>4, <2>1, <2>2, <2>3 DEF SaveModel, Meet, ModelInv, EngineUsesActive
  <2>4. CASE Fits # {}
    BY <1>4, <2>1, <2>2, <2>4 DEF SaveModel, Meet, ModelInv, EngineUsesActive
  <2>. QED BY <2>3, <2>4
<1>5. ASSUME NEW r \in Requests, SaveModelFails(r) PROVE ModelInv'
  <2>1. Fits' = Fits /\ r \notin Fits /\ modelKnown' = FALSE
    BY <1>5 DEF SaveModelFails, Start, New, Done, Fits
  <2>2. NewIsAlone'
    BY <1>5 DEF SaveModelFails, Start, Done, Meet, ModelInv, NewIsAlone, Fits
  <2>3. Fits \subseteq clashed'
    BY <1>5 DEF SaveModelFails, Meet
  <2>. QED BY <2>1, <2>2, <2>3 DEF ModelInv, EngineUsesActive
<1>6. ASSUME NEW r \in Requests, Install(r) PROVE ModelInv'
  <2>1. r \in Fits /\ Fits' = Fits \ {r} /\ installed' = r /\ UNCHANGED <<active, clashed>>
    BY <1>6 DEF Install, Finish, Done, Fits
  <2>2. NewIsAlone'
    BY <1>6 DEF Install, Finish, Done, ModelInv, NewIsAlone
  <2>3. modelKnown' => r \notin clashed
    BY <1>6, <2>1 DEF Install, ModelInv
  <2>. QED BY <2>1, <2>2, <2>3 DEF ModelInv, EngineUsesActive
<1>7. ASSUME NEW ok \in SUBSET Reads, Restart(ok) PROVE ModelInv'
  <2>1. Fits' = {} /\ clashed' = clashed
    BY <1>7 DEF Restart, Fits, New, Done
  <2>2. NewIsAlone'
    BY <1>7 DEF Restart, New, Done, ModelInv, NewIsAlone
  <2>3. modelKnown' => installed' = active'
    BY <1>7 DEF Restart
  <2>. QED BY <2>1, <2>2, <2>3 DEF ModelInv, EngineUsesActive
<1>8. CASE UNCHANGED vars
  BY <1>8 DEF vars, ModelInv, NewIsAlone, Fits, EngineUsesActive
<1>. QED BY <1>1, <1>2, <1>3, <1>4, <1>5, <1>6, <1>7, <1>8, ConfigAssumption DEF Next

\* The engine uses the model that the database calls active, for any number of fits,
\* failures and boots, while no fit is under way and none has overlapped or failed
\* since the model became known.
THEOREM ActiveIsInstalled == Spec => []EngineUsesActive
<1>1. ModelInv => EngineUsesActive
  BY DEF ModelInv
<1>. QED BY InitType, NextType, InitModel, NextModel, <1>1, PTL DEF Spec

(***************************************************************************)
(* The dictionary.  A request that is alone with its alias has brought the *)
(* live dictionary (POST) or the table (DELETE) where it will bring the    *)
(* other, and until then the table says what operators know.  Requests     *)
(* that met on an alias leave it unknown.                                  *)
(***************************************************************************)

Remembered(a) == told[a] = Unknown \/ OnBoot(a, Reads) = told[a]

Settled(a) ==
  On(a) = {} => /\ Remembered(a)
                /\ told[a] # Unknown /\ {"entries", "deleted"} \subseteq booted
                     => live[a] = told[a]

UnderWay(a) ==
  \A r \in On(a) \ clashed :
    /\ On(a) = {r}
    /\ req[r].pc = "posting" => live[a] = req[r].to /\ Remembered(a)
    /\ req[r].pc = "deleting" => entries[a].deleted

AliasInv == NewIsAlone /\ \A a \in Aliases : Settled(a) /\ UnderWay(a)

\* The dictionary is the seed, and every alias is what the seed makes of it.
LEMMA InitAlias == Init => AliasInv
<1>. SUFFICES ASSUME Init PROVE AliasInv
  OBVIOUS
<1>1. \A a \in Aliases : On(a) = {}
  BY DEF Init, On, New
<1>2. \A a \in Aliases : OnBoot(a, Reads) = Seed[a]
  BY DEF Init, OnBoot, NoRow
<1>. QED BY <1>1, <1>2 DEF Init, AliasInv, NewIsAlone, Settled, UnderWay, Remembered

\* A step that concerns another alias, or none.
LEMMA Elsewhere ==
  ASSUME NEW b, Settled(b), UnderWay(b), On(b)' = On(b),
         clashed' \cap On(b) = clashed \cap On(b), \A r \in On(b) : req'[r] = req[r],
         entries'[b] = entries[b], live'[b] = live[b], told'[b] = told[b], booted' = booted
  PROVE  Settled(b)' /\ UnderWay(b)'
<1>1. OnBoot(b, Reads)' = OnBoot(b, Reads)
  BY DEF OnBoot
<1>. QED BY <1>1 DEF Settled, UnderWay, Remembered

\* A step that concerns no alias.
LEMMA NoAlias ==
  ASSUME AliasInv, UNCHANGED <<entries, live, told, booted>>, NewIsAlone',
         \A a \in Aliases : /\ On(a)' = On(a) /\ clashed' \cap On(a) = clashed \cap On(a)
                            /\ \A r \in On(a) : req'[r] = req[r]
  PROVE  AliasInv'
BY Elsewhere DEF AliasInv

\* Requests on an alias that overlap are marked before either tells what became of it.
LEMMA NextAlias == TypeOK /\ AliasInv /\ [Next]_vars => AliasInv'
<1>. SUFFICES ASSUME TypeOK, AliasInv, [Next]_vars PROVE AliasInv'
  OBVIOUS
<1>. USE DEF tables, process, history
<1>. /\ req \in [Requests -> ReqState] /\ clashed \subseteq Requests
     /\ live \in [Aliases -> Names] /\ told \in [Aliases -> Names \cup {Unknown}]
     /\ entries \in [Aliases -> [to : Names, deleted : BOOLEAN]]
  BY DEF TypeOK
<1>0. \A a, b \in Aliases : a # b => On(a) \cap On(b) = {}
  BY DEF On
<1>1. ASSUME NEW r \in Requests, NEW m \in Mappings \cup {Keep},
             (\E u \in Updates : PutConfig(r, u, m)) \/ (m # Keep /\ Upload(r, m))
      PROVE  AliasInv'
  <2>1. PICK st \in ReqState :
          /\ Start(r, st) /\ UNCHANGED <<tables, process, restarts, history>>
          /\ st = Done \/ st.pc = "writing"
    BY <1>1, Accepted
  <2>2. NewIsAlone' /\ \A a \in Aliases : On(a)' = On(a) /\ r \notin On(a)
    BY <2>1 DEF Start, On, Done, New, AliasInv, NewIsAlone
  <2>3. \A q \in Requests \ {r} : req'[q] = req[q]
    BY <2>1 DEF Start
  <2>. QED BY <2>1, <2>2, <2>3, NoAlias DEF On
<1>2. ASSUME NEW r \in Requests, WriteConfig(r) \/ Install(r) PROVE AliasInv'
  <2>1. /\ req[r].pc \notin {"new", "posting", "deleting"} /\ req' = [req EXCEPT ![r] = Done]
        /\ UNCHANGED <<entries, live, told, booted, clashed>>
    BY <1>2 DEF WriteConfig, Install, Finish
  <2>2. NewIsAlone' /\ \A a \in Aliases : On(a)' = On(a) /\ r \notin On(a)
    BY <2>1 DEF On, Done, AliasInv, NewIsAlone
  <2>. QED BY <2>1, <2>2, NoAlias DEF On
<1>3. ASSUME NEW r \in Requests, SaveModel(r) \/ SaveModelFails(r) PROVE AliasInv'
  <2>1. /\ req[r] = New /\ req'[r].pc \in {"fitted", "done"}
        /\ \A q \in Requests \ {r} : req'[q] = req[q]
        /\ UNCHANGED <<entries, live, told, booted>> /\ Meet(r, Fits)
    BY <1>3 DEF SaveModel, SaveModelFails, Start, Done
  <2>2. NewIsAlone'
    BY <2>1 DEF Meet, Fits, AliasInv, NewIsAlone
  <2>3. \A a \in Aliases : On(a)' = On(a) /\ r \notin On(a) /\ Fits \cap On(a) = {}
    <3>1. \A a \in Aliases : r \notin On(a) /\ Fits \cap On(a) = {}
      BY <2>1 DEF On, New, Fits
    <3>2. \A a \in Aliases : On(a)' = On(a)
      BY <2>1 DEF On, New
    <3>. QED BY <3>1, <3>2
  <2>4. clashed \subseteq clashed' /\ clashed' \subseteq clashed \cup Fits \cup {r}
    BY <2>1 DEF Meet
  <2>5. \A a \in Aliases : clashed' \cap On(a) = clashed \cap On(a)
    BY <2>3, <2>4
  <2>6. \A a \in Aliases : \A q \in On(a) : req'[q] = req[q]
    BY <2>1, <2>3 DEF On
  <2>. QED BY <2>1, <2>2, <2>3, <2>5, <2>6, NoAlias
<1>4. ASSUME NEW r \in Requests, NEW a \in Aliases, NEW c \in Canonicals, PostAlias(r, a, c)
      PROVE  AliasInv'
  <2>1. /\ req[r] = New /\ req'[r] = [pc |-> "posting", alias |-> a, to |-> c]
        /\ \A q \in Requests \ {r} : req'[q] = req[q]
        /\ live' = [live EXCEPT ![a] = c] /\ Meet(r, On(a))
        /\ UNCHANGED <<entries, told, booted>>
    BY <1>4 DEF PostAlias, Start
  <2>2. /\ On(a)' = On(a) \cup {r} /\ r \notin clashed
        /\ \A b \in Aliases : r \notin On(b)
        /\ \A b \in Aliases \ {a} : On(b)' = On(b)
    BY <2>1 DEF On, New, AliasInv, NewIsAlone
  <2>3. NewIsAlone'
    BY <2>1 DEF Meet, On, AliasInv, NewIsAlone
  <2>4. ASSUME NEW b \in Aliases \ {a} PROVE Settled(b)' /\ UnderWay(b)'
    <3>1. clashed' \cap On(b) = clashed \cap On(b)
      BY <1>0, <2>1, <2>2 DEF Meet
    <3>2. \A q \in On(b) : req'[q] = req[q]
      BY <2>1, <2>2 DEF On
    <3>. QED BY <2>1, <2>2, <3>1, <3>2, Elsewhere DEF AliasInv
  <2>5. CASE On(a) = {}
    <3>1. OnBoot(a, Reads)' = OnBoot(a, Reads) /\ Remembered(a)
      BY <2>1, <2>5 DEF AliasInv, Settled, OnBoot
    <3>2. Remembered(a)' /\ live'[a] = c
      BY <2>1, <3>1 DEF Remembered
    <3>3. On(a)' = {r} /\ req'[r].pc = "posting" /\ req'[r].to = c
      BY <2>1, <2>2, <2>5
    <3>4. Settled(a)' /\ UnderWay(a)'
      BY <3>2, <3>3 DEF Settled, UnderWay
    <3>. QED BY <2>3, <2>4, <3>4 DEF AliasInv
  <2>6. CASE On(a) # {}
    <3>1. On(a)' \subseteq clashed'
      BY <2>1, <2>2, <2>6 DEF Meet
    <3>. QED BY <2>2, <2>3, <2>4, <3>1 DEF AliasInv, Settled, UnderWay
  <2>. QED BY <2>5, <2>6
<1>5. ASSUME NEW r \in Requests, NEW a \in Aliases, DeleteEntry(r, a) PROVE AliasInv'
  <2>1. /\ req[r] = New /\ req'[r] = [pc |-> "deleting", alias |-> a]
        /\ \A q \in Requests \ {r} : req'[q] = req[q]
        /\ entries' = [entries EXCEPT ![a] = Tombstone(a)] /\ Meet(r, On(a))
        /\ UNCHANGED <<live, told, booted>>
    BY <1>5 DEF DeleteEntry, Start
  <2>2. /\ On(a)' = On(a) \cup {r} /\ r \notin clashed
        /\ \A b \in Aliases : r \notin On(b)
        /\ \A b \in Aliases \ {a} : On(b)' = On(b)
    BY <2>1 DEF On, New, AliasInv, NewIsAlone
  <2>3. NewIsAlone'
    BY <2>1 DEF Meet, On, AliasInv, NewIsAlone
  <2>4. ASSUME NEW b \in Aliases \ {a} PROVE Settled(b)' /\ UnderWay(b)'
    <3>1. clashed' \cap On(b) = clashed \cap On(b)
      BY <1>0, <2>1, <2>2 DEF Meet
    <3>2. \A q \in On(b) : req'[q] = req[q]
      BY <2>1, <2>2 DEF On
    <3>. QED BY <2>1, <2>2, <3>1, <3>2, Elsewhere DEF AliasInv
  <2>5. CASE On(a) = {}
    <3>1. entries'[a].deleted
      BY <2>1 DEF Tombstone
    <3>2. On(a)' = {r} /\ req'[r].pc = "deleting"
      BY <2>1, <2>2, <2>5
    <3>3. Settled(a)' /\ UnderWay(a)'
      BY <3>1, <3>2 DEF Settled, UnderWay
    <3>. QED BY <2>3, <2>4, <3>3 DEF AliasInv
  <2>6. CASE On(a) # {}
    <3>1. On(a)' \subseteq clashed'
      BY <2>1, <2>2, <2>6 DEF Meet
    <3>. QED BY <2>2, <2>3, <2>4, <3>1 DEF AliasInv, Settled, UnderWay
  <2>. QED BY <2>5, <2>6
<1>6. ASSUME NEW r \in Requests, NEW a \in Aliases, DeleteEntryFails(r, a) PROVE AliasInv'
  <2>1. /\ req[r] = New /\ req' = [req EXCEPT ![r] = Done] /\ Meet(r, On(a))
        /\ told' = [told EXCEPT ![a] = Unknown]
        /\ \A b \in Aliases \ {a} : entries'[b] = entries[b]
        /\ UNCHANGED <<live, booted>>
    BY <1>6 DEF DeleteEntryFails, Start
  <2>2. \A b \in Aliases : On(b)' = On(b) /\ r \notin On(b)
    BY <2>1 DEF On, New, Done
  <2>3. NewIsAlone'
    BY <2>1 DEF Meet, On, Done, AliasInv, NewIsAlone
  <2>4. ASSUME NEW b \in Aliases \ {a} PROVE Settled(b)' /\ UnderWay(b)'
    <3>1. clashed' \cap On(b) = clashed \cap On(b)
      BY <1>0, <2>1, <2>2 DEF Meet
    <3>2. \A q \in On(b) : req'[q] = req[q]
      BY <2>1, <2>2 DEF On
    <3>. QED BY <2>1, <2>2, <3>1, <3>2, Elsewhere DEF AliasInv
  <2>5. On(a)' \subseteq clashed' /\ told'[a] = Unknown
    BY <2>1, <2>2 DEF Meet
  <2>. QED BY <2>3, <2>4, <2>5 DEF AliasInv, Settled, UnderWay, Remembered
<1>7. ASSUME NEW r \in Requests, SaveEntry(r) \/ SaveEntryFails(r) \/ DeleteLive(r)
      PROVE  AliasInv'
  <2>0. req[r].alias \in Aliases
    BY <1>7, StateOf DEF SaveEntry, SaveEntryFails, DeleteLive
  <2>1. PICK a \in Aliases :
          /\ a = req[r].alias
          /\ req[r].pc \in {"posting", "deleting"} /\ req' = [req EXCEPT ![r] = Done]
          /\ UNCHANGED <<booted, clashed>>
          /\ \A b \in Aliases \ {a} : /\ entries'[b] = entries[b] /\ live'[b] = live[b]
                                      /\ told'[b] = told[b]
    BY <1>7, <2>0 DEF SaveEntry, SaveEntryFails, DeleteLive, Finish, Tell
  <2>2. /\ On(a)' = On(a) \ {r} /\ r \in On(a)
        /\ \A b \in Aliases \ {a} : On(b)' = On(b) /\ r \notin On(b)
    BY <2>1 DEF On, Done
  <2>3. NewIsAlone'
    BY <2>1 DEF Done, AliasInv, NewIsAlone
  <2>4. ASSUME NEW b \in Aliases \ {a} PROVE Settled(b)' /\ UnderWay(b)'
    <3>1. \A q \in On(b) : req'[q] = req[q]
      BY <2>1, <2>2 DEF On
    <3>. QED BY <2>1, <2>2, <2>4, <3>1, Elsewhere DEF AliasInv
  <2>5. UnderWay(a)'
    <3>1. On(a)' \subseteq clashed'
      BY <2>1, <2>2 DEF AliasInv, UnderWay
    <3>. QED BY <3>1 DEF UnderWay
  <2>6. CASE r \in clashed \/ SaveEntryFails(r)
    <3>1. told'[a] = Unknown
      BY <1>7, <2>1, <2>6 DEF SaveEntry, SaveEntryFails, DeleteLive, Tell
    <3>2. Settled(a)'
      BY <3>1 DEF Settled, Remembered
    <3>. QED BY <2>3, <2>4, <2>5, <3>2 DEF AliasInv
  <2>7. CASE r \notin clashed /\ SaveEntry(r)
    <3>1. /\ entries'[a] = [to |-> req[r].to, deleted |-> FALSE] /\ told'[a] = req[r].to
          /\ req[r].pc = "posting" /\ live' = live
      BY <2>1, <2>7 DEF SaveEntry, Tell, RowFor
    <3>2. req[r].to # Absent /\ live[a] = req[r].to
      BY <2>1, <2>2, <2>7, <3>1, StateOf, AliasesAssumption DEF AliasInv, UnderWay
    <3>3. OnBoot(a, Reads)' = req[r].to
      <4>1. entries'[a].deleted = FALSE /\ entries'[a].to = req[r].to /\ entries'[a] # NoRow
        BY <3>1, <3>2 DEF NoRow
      <4>. QED BY <4>1 DEF OnBoot
    <3>4. Settled(a)'
      BY <3>1, <3>2, <3>3 DEF Settled, Remembered
    <3>. QED BY <2>3, <2>4, <2>5, <3>4 DEF AliasInv
  <2>8. CASE r \notin clashed /\ DeleteLive(r)
    <3>1. /\ live'[a] = Absent /\ told'[a] = Absent /\ entries' = entries
          /\ req[r].pc = "deleting"
      BY <2>1, <2>8 DEF DeleteLive, Tell
    <3>2. entries[a].deleted
      BY <2>1, <2>2, <2>8, <3>1 DEF AliasInv, UnderWay
    <3>3. OnBoot(a, Reads)' = Absent
      BY <3>1, <3>2 DEF OnBoot
    <3>4. Settled(a)'
      BY <3>1, <3>3 DEF Settled, Remembered
    <3>. QED BY <2>3, <2>4, <2>5, <3>4 DEF AliasInv
  <2>. QED BY <1>7, <2>6, <2>7, <2>8
<1>8. ASSUME NEW ok \in SUBSET Reads, Restart(ok) PROVE AliasInv'
  <2>1. NewIsAlone' /\ \A a \in Aliases : On(a)' = {}
    BY <1>8 DEF Restart, New, Done, On, AliasInv, NewIsAlone
  <2>2. ASSUME NEW a \in Aliases PROVE Settled(a)'
    <3>1. OnBoot(a, Reads)' = OnBoot(a, Reads)
      BY <1>8 DEF Restart, OnBoot
    <3>2. told'[a] # Unknown => told'[a] = told[a] /\ Remembered(a)
      BY <1>8 DEF Restart, AliasInv, Settled, UnderWay, On, Remembered
    <3>3. {"entries", "deleted"} \subseteq booted' => live'[a] = OnBoot(a, Reads)
      BY <1>8 DEF Restart, OnBoot
    <3>. QED BY <3>1, <3>2, <3>3 DEF Settled, Remembered
  <2>. QED BY <2>1, <2>2 DEF AliasInv, UnderWay
<1>9. CASE UNCHANGED vars
  <2>1. UNCHANGED <<entries, live, told, booted, clashed, req>>
    BY <1>9 DEF vars
  <2>2. NewIsAlone' /\ \A a \in Aliases : On(a)' = On(a)
    BY <2>1 DEF On, AliasInv, NewIsAlone
  <2>. QED BY <2>1, <2>2, NoAlias
<1>. QED BY <1>1, <1>2, <1>3, <1>4, <1>5, <1>6, <1>7, <1>8, <1>9, ConfigAssumption DEF Next

\* What an operator was told of an alias is what the next boot makes of it, and what
\* the server uses, for any number of aliases, requests, failures and boots.
THEOREM AcknowledgedIsKept == Spec => []AcknowledgedSurvives
<1>1. AliasInv => AcknowledgedSurvives
  BY DEF AliasInv, Settled, Remembered, AcknowledgedSurvives
<1>. QED BY InitType, NextType, InitAlias, NextAlias, <1>1, PTL DEF Spec
=============================================================================
