---------------------------- MODULE MCManagerWeb ----------------------------
(* A small instance of ManagerWeb for TLC. *)
EXTENDS ManagerWeb

CONSTANTS north, boss
Home == [m \in {boss} |-> north]

=============================================================================
