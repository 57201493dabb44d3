---------------------------- MODULE MCGapTasks ----------------------------
(* Small instances of GapTasks for TLC. *)
EXTENDS GapTasks

=============================================================================
