-------------------------- MODULE MCProgressStream --------------------------
(***************************************************************************)
(* One tab and two runs of the batch, one of which the tab or the          *)
(* scheduler may start at any moment, with channels of two frames.         *)
(***************************************************************************)
EXTENDS ProgressStream
=============================================================================
