----------------------------- MODULE MCBackend -----------------------------
(***************************************************************************)
(* Instantiates Backend for TLC with three blocks: enough for the monitor  *)
(* and filter to be still at work when a signal arrives at any point.      *)
(***************************************************************************)
EXTENDS Backend

MCNumBlocks == 3
=============================================================================
