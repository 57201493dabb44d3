------------------------------ MODULE MCCamera ------------------------------
(* A small instance of Camera for TLC. *)
EXTENDS Camera

=============================================================================
