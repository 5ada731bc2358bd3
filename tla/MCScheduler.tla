---------------------------- MODULE MCScheduler ----------------------------
(***************************************************************************)
(* Two runs, one batch and a panel that saves twice.  An answer comes at   *)
(* once or never: half seconds in between move the attempts, not the order *)
(* of events.                                                              *)
(***************************************************************************)
EXTENDS Scheduler

On  == [enabled |-> TRUE, url |-> TRUE, onSuccess |-> FALSE, onAnomaly |-> TRUE]
Off == [enabled |-> FALSE, url |-> FALSE, onSuccess |-> TRUE, onAnomaly |-> TRUE]
MCSettings == {On, Off}
=============================================================================
