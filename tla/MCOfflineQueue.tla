-------------------------- MODULE MCOfflineQueue --------------------------
(* Small instances of OfflineQueue for TLC. *)
EXTENDS OfflineQueue

=============================================================================
