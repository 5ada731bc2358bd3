---------------------------- MODULE JobContract -----------------------------
(***************************************************************************)
(* What a matching job promises its caller, with no workers, channels or   *)
(* counters: sources are decided one at a time, each at most once; a job   *)
(* that is not cancelled, and has a destination at all, ends with every    *)
(* source decided; and the rows it returns are the assignment computed     *)
(* from the decided sources alone.                                         *)
(***************************************************************************)
EXTENDS Decision

VARIABLES
  found,       \* the rows that matching a source yields
  strategy,    \* the assignment strategy of the engine
  batch,       \* the sources of the job
  cancelled,   \* the caller's context is done
  decided,     \* sources whose rows have been sent
  returned,    \* ExecuteJob has returned
  outcome      \* the rows it returned, {} until then

jobVars == <<found, strategy, batch, cancelled, decided, returned, outcome>>

JobInit ==
  /\ cancelled = FALSE
  /\ decided = {}
  /\ returned = FALSE
  /\ outcome = {}

Decide(s) ==
  /\ ~returned
  /\ s \in batch \ decided
  /\ decided' = decided \cup {s}
  /\ UNCHANGED <<found, strategy, batch, cancelled, returned, outcome>>

CancelJob ==
  /\ ~cancelled
  /\ cancelled' = TRUE
  /\ UNCHANGED <<found, strategy, batch, decided, returned, outcome>>

Return ==
  /\ ~returned
  /\ decided = batch \/ cancelled \/ Dests = {}
  /\ returned' = TRUE
  /\ outcome' = Resolved(RowsOf(found, decided), strategy)
  /\ UNCHANGED <<found, strategy, batch, cancelled, decided>>

JobNext ==
  \/ \E s \in Sources : Decide(s)
  \/ CancelJob
  \/ Return

JobSpec ==
  /\ JobInit /\ [][JobNext]_jobVars
  /\ WF_jobVars(Return \/ \E s \in Sources : Decide(s))
=============================================================================
