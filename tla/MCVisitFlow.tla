---------------------------- MODULE MCVisitFlow ----------------------------
(* A small instance of VisitFlow for TLC. *)
EXTENDS VisitFlow, TLC

\* Nothing tells one shelf, or one shop, from another.
Symmetry == Permutations(Shelves) \cup Permutations(Shops)

=============================================================================
