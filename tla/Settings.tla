------------------------------ MODULE Settings ------------------------------
(***************************************************************************)
(* What the operators set, in the database and in the running process: the *)
(* matching configuration (HandleConfig and the uploads), the dictionary   *)
(* of aliases (HandleDictionary, the global dictionary and its table) and  *)
(* the calibrator (HandleCalibrationFit and the active model), with a      *)
(* server that is killed and boots again at any moment.                    *)
(*                                                                         *)
(* Each statement of the database and each call under a lock is one step;  *)
(* a handler makes several.  A statement that fails may have taken effect  *)
(* all the same: its answer can be lost after the commit.                  *)
(***************************************************************************)
EXTENDS Integers

CONSTANTS
  Requests,      \* requests, each made at most once
  Aliases,       \* aliases, as normalized
  Canonicals,    \* names that an alias can stand for
  Absent,        \* for an alias that stands for nothing
  Seed,          \* what NewCustomDictionary makes of each alias
  Mappings,      \* column mappings
  DefaultMapping,
  Updates,       \* thresholds that a PUT may bring: functions on some Fields
  Keep,          \* a request without a column mapping
  MaxRestarts    \* bound: restarts

Fields == {"auto", "review", "cross", "cap"}
Percent == 0 .. 100

ASSUME AliasesAssumption ==
  /\ Absent \notin Canonicals
  /\ Seed \in [Aliases -> Canonicals \cup {Absent}]
ASSUME ConfigAssumption ==
  /\ DefaultMapping \in Mappings /\ Keep \notin Mappings
  /\ \A u \in Updates : DOMAIN u \subseteq Fields /\ \A f \in DOMAIN u : u[f] \in Int
  /\ MaxRestarts \in Nat

VARIABLES
  config, entries, active,   \* tables config, dictionary_entries, calibration_models
  live, installed,           \* globalDictionary; Server.calibrator
  req,                       \* the handlers' local state
  restarts,
  told,                      \* history: what operators know of each alias
  booted,                    \* history: the reads of the last boot that worked
  clashed,                   \* history: requests that overlapped one on the same thing
  modelKnown                 \* history: no fit has clashed or failed since

tables  == <<config, entries, active>>
process == <<live, installed>>
history == <<told, booted, clashed, modelKnown>>
vars    == <<tables, process, req, restarts, history>>

DefaultThresholds ==
  [f \in Fields |-> CASE f = "auto" -> 90 [] f = "review" -> 70
                      [] f = "cross" -> 84 [] f = "cap" -> 85]
NoUpdate      == << >>   \* of an upload: it brings no threshold
DefaultConfig == [thresholds |-> DefaultThresholds, mapping |-> DefaultMapping]

NoModel == "none"
Unknown == "unknown"
NoRow   == [to |-> Absent, deleted |-> FALSE]
New     == [pc |-> "new"]
Done    == [pc |-> "done"]
Reads   == {"model", "entries", "deleted"}

Init ==
  /\ config = DefaultConfig
  /\ entries = [a \in Aliases |-> NoRow]
  /\ active = NoModel
  /\ live = Seed
  /\ installed = NoModel
  /\ req = [r \in Requests |-> New]
  /\ restarts = 0
  /\ told = Seed /\ booted = Reads /\ clashed = {} /\ modelKnown = TRUE

Start(r, st) == req[r] = New /\ req' = [req EXCEPT ![r] = st]
Finish(r)    == req' = [req EXCEPT ![r] = Done]
----------------------------------------------------------------------------
(* The configuration: read, change, write back. *)

InRange(u) == \A f \in DOMAIN u : u[f] \in Percent

Merged(t, u) == [f \in Fields |-> IF f \in DOMAIN u THEN u[f] ELSE t[f]]

\* The constraints across fields; a zero switches cap and cross off.
Coherent(t) ==
  /\ t["review"] <= t["auto"]
  /\ t["cap"] > 0 => t["cap"] < t["auto"]
  /\ t["cross"] # 0 => t["review"] <= t["cross"] /\ t["cross"] <= t["auto"]

\* GetConfig answers with the defaults when the row cannot be read.
Readings == {config, DefaultConfig}

Writing(t, stored, u, m) ==
  [pc |-> "writing", update |-> u, mapping |-> m,
   config |-> [thresholds |-> t, mapping |-> IF m = Keep THEN stored ELSE m]]

PutConfig(r, u, m) ==
  /\ \E read \in Readings :
       LET t == Merged(read.thresholds, u) IN
       Start(r, IF InRange(u) /\ Coherent(t)
                THEN Writing(t, read.mapping, u, m) ELSE Done)
  /\ UNCHANGED <<tables, process, restarts, history>>

\* HandleUpload, HandleUploadFile and HandleConnectorIngest, with a mapping.
Upload(r, m) ==
  /\ \E read \in Readings : Start(r, Writing(read.thresholds, read.mapping, NoUpdate, m))
  /\ UNCHANGED <<tables, process, restarts, history>>

\* A write that applies the request to what is stored by then.
WriteMergedAgain(r) ==
  /\ req[r].pc = "writing"
  /\ config' = [thresholds |-> Merged(config.thresholds, req[r].update),
                mapping |-> req[r].config.mapping]
  /\ Finish(r)
  /\ UNCHANGED <<entries, active, process, restarts, history>>

\* UpdateConfig writes the whole configuration, and drops its error: the answer is
\* a success either way.
WriteConfig(r) ==
  /\ req[r].pc = "writing"
  /\ config' \in {config, req[r].config}
  /\ Finish(r)
  /\ UNCHANGED <<entries, active, process, restarts, history>>
----------------------------------------------------------------------------
(* The dictionary. *)

On(a)   == {r \in Requests : req[r].pc \in {"posting", "deleting"} /\ req[r].alias = a}
Meet(r, others) == clashed' = IF others = {} THEN clashed ELSE clashed \cup others \cup {r}
\* What the operators know when a request on an alias ends.
Tell(r, a, what) == told' = [told EXCEPT ![a] = IF r \in clashed THEN Unknown ELSE what]

\* POST: the live dictionary first.
PostAlias(r, a, c) ==
  /\ Start(r, [pc |-> "posting", alias |-> a, to |-> c])
  /\ live' = [live EXCEPT ![a] = c]
  /\ Meet(r, On(a))
  /\ UNCHANGED <<tables, installed, restarts, told, booted, modelKnown>>

\* An upsert that does not revive a deleted row.
RowStillDeleted(a, c) == [to |-> c, deleted |-> entries[a].deleted]
RowFor(a, c) == [to |-> c, deleted |-> FALSE]

SaveEntry(r) ==
  /\ req[r].pc = "posting"
  /\ entries' = [entries EXCEPT ![req[r].alias] = RowFor(req[r].alias, req[r].to)]
  /\ Tell(r, req[r].alias, req[r].to)
  /\ Finish(r)
  /\ UNCHANGED <<config, active, process, restarts, booted, clashed, modelKnown>>

\* The answer is 500; the alias stays in the live dictionary.
SaveEntryFails(r) ==
  /\ req[r].pc = "posting"
  /\ \/ UNCHANGED entries
     \/ entries' = [entries EXCEPT ![req[r].alias] = RowFor(req[r].alias, req[r].to)]
  /\ Tell(r, req[r].alias, Unknown)
  /\ Finish(r)
  /\ UNCHANGED <<config, active, process, restarts, booted, clashed, modelKnown>>

Tombstone(a) == [to |-> entries[a].to, deleted |-> TRUE]

\* DELETE: the table first.
DeleteEntry(r, a) ==
  /\ Start(r, [pc |-> "deleting", alias |-> a])
  /\ entries' = [entries EXCEPT ![a] = Tombstone(a)]
  /\ Meet(r, On(a))
  /\ UNCHANGED <<config, active, process, restarts, told, booted, modelKnown>>

DeleteEntryFails(r, a) ==
  /\ Start(r, Done)
  /\ \/ UNCHANGED entries
     \/ entries' = [entries EXCEPT ![a] = Tombstone(a)]
  /\ told' = [told EXCEPT ![a] = Unknown]
  /\ Meet(r, On(a))
  /\ UNCHANGED <<config, active, process, restarts, booted, modelKnown>>

DeleteLive(r) ==
  /\ req[r].pc = "deleting"
  /\ live' = [live EXCEPT ![req[r].alias] = Absent]
  /\ Tell(r, req[r].alias, Absent)
  /\ Finish(r)
  /\ UNCHANGED <<tables, installed, restarts, booted, clashed, modelKnown>>
----------------------------------------------------------------------------
(* The calibrator.  A fit is named after its request; reading the          *)
(* observations and fitting change nothing.  The table's unique index      *)
(* keeps one model active.                                                 *)

Fits == {r \in Requests : req[r].pc = "fitted"}

SaveModel(r) ==
  /\ Start(r, [pc |-> "fitted"])
  /\ active' = r
  /\ modelKnown' = (modelKnown /\ Fits = {})
  /\ Meet(r, Fits)
  /\ UNCHANGED <<config, entries, process, restarts, told, booted>>

SaveModelFails(r) ==
  /\ Start(r, Done)
  /\ active' \in {active, r}
  /\ modelKnown' = FALSE
  /\ Meet(r, Fits)
  /\ UNCHANGED <<config, entries, process, restarts, told, booted>>

\* A fit that leaves the engine to the next boot.
InstallLater(r) ==
  /\ req[r].pc = "fitted"
  /\ modelKnown' = (modelKnown \/ r \notin clashed)
  /\ Finish(r)
  /\ UNCHANGED <<tables, process, restarts, told, booted, clashed>>

Install(r) ==
  /\ req[r].pc = "fitted"
  /\ installed' = r
  /\ modelKnown' = (modelKnown \/ r \notin clashed)
  /\ Finish(r)
  /\ UNCHANGED <<tables, live, restarts, told, booted, clashed>>
----------------------------------------------------------------------------
(* main: a new process, of a server that was stopped or killed.  A read    *)
(* that fails is logged, and the server starts without what it would have  *)
(* brought.                                                                *)

OnBoot(a, ok) ==
  IF entries[a].deleted THEN IF "deleted" \in ok THEN Absent ELSE Seed[a]
  ELSE IF entries[a] # NoRow /\ "entries" \in ok THEN entries[a].to
  ELSE Seed[a]

Restart(ok) ==
  /\ restarts < MaxRestarts
  /\ restarts' = restarts + 1
  /\ live' = [a \in Aliases |-> OnBoot(a, ok)]
  /\ installed' = IF "model" \in ok THEN active ELSE NoModel
  /\ req' = [r \in Requests |-> IF req[r] = New THEN New ELSE Done]
  /\ told' = [a \in Aliases |-> IF \E r \in On(a) : r \in clashed \/ req[r].pc = "deleting"
                                THEN Unknown ELSE told[a]]
  /\ booted' = ok
  /\ modelKnown' = ("model" \in ok)
  /\ UNCHANGED <<tables, clashed>>

RequestStep(r) ==
  \/ WriteConfig(r)
  \/ SaveEntry(r)
  \/ SaveEntryFails(r)
  \/ DeleteLive(r)
  \/ Install(r)

Next ==
  \/ \E r \in Requests :
       \/ \E u \in Updates, m \in Mappings \cup {Keep} : PutConfig(r, u, m)
       \/ \E m \in Mappings : Upload(r, m)
       \/ WriteConfig(r)
       \/ \E a \in Aliases, c \in Canonicals : PostAlias(r, a, c)
       \/ SaveEntry(r)
       \/ SaveEntryFails(r)
       \/ \E a \in Aliases : DeleteEntry(r, a) \/ DeleteEntryFails(r, a)
       \/ DeleteLive(r)
       \/ SaveModel(r)
       \/ SaveModelFails(r)
       \/ Install(r)
  \/ \E ok \in SUBSET Reads : Restart(ok)

\* A handler's goroutine goes on; nothing has to be requested or restarted.
Fairness == \A r \in Requests : WF_vars(RequestStep(r))

Spec == Init /\ [][Next]_vars /\ Fairness
----------------------------------------------------------------------------
(* Properties. *)

Config == [thresholds : [Fields -> Percent], mapping : Mappings]
Names  == Canonicals \cup {Absent}
Models == Requests \cup {NoModel}

ReqState ==
  {New, Done}
    \cup [pc : {"writing"}, config : Config, update : Updates \cup {NoUpdate},
          mapping : Mappings \cup {Keep}]
    \cup [pc : {"posting"}, alias : Aliases, to : Canonicals]
    \cup [pc : {"deleting"}, alias : Aliases]
    \cup [pc : {"fitted"}]

\* Every variable holds a value of its kind; a threshold is a percentage, whatever
\* a request asks for.
TypeOK ==
  /\ config \in Config
  /\ entries \in [Aliases -> [to : Names, deleted : BOOLEAN]]
  /\ active \in Models /\ installed \in Models
  /\ live \in [Aliases -> Names]
  /\ req \in [Requests -> ReqState]
  /\ restarts \in 0 .. MaxRestarts
  /\ told \in [Aliases -> Names \cup {Unknown}]
  /\ booted \subseteq Reads /\ clashed \subseteq Requests /\ modelKnown \in BOOLEAN

\* validateAndMergeConfig's constraints across fields hold of what is stored,
\* although every request is checked against a configuration that may be stale,
\* or the defaults, by the time it is written.
ConfigIsCoherent == Coherent(config.thresholds)

\* handlers.go: an alias must not be one that "appears saved but silently vanishes
\* on restart", nor a removed default one that comes back.  What an operator was
\* told of an alias is what the next boot makes of it, and what the running server
\* uses, unless its own boot could not read the table or requests overlapped.
AcknowledgedSurvives ==
  \A a \in Aliases : told[a] # Unknown /\ On(a) = {} =>
    /\ OnBoot(a, Reads) = told[a]
    /\ {"entries", "deleted"} \subseteq booted => live[a] = told[a]

\* store/calibration.go: Active "tracks which single model is currently wired into
\* the matching engine".  It does while no fit is under way, and since none has
\* failed or overlapped another.
EngineUsesActive == modelKnown /\ Fits = {} => installed = active

\* BACKLOG F1: "Partial PUT /api/config preserves unspecified fields".  What a PUT
\* changes of the stored configuration is what it brought.  It does not hold: two PUTs
\* overlap, or the read before the write fails and is answered with the defaults.
PartialPutKeepsTheRest ==
  [][\A r \in Requests :
       WriteConfig(r) /\ req[r].update # NoUpdate =>
         /\ \A f \in Fields \ DOMAIN req[r].update :
              config'.thresholds[f] = config.thresholds[f]
         /\ req[r].mapping = Keep => config'.mapping = config.mapping]_vars
=============================================================================
