------------------------- MODULE MCCapturePipeline -------------------------
(* Small visits for TLC: one or two BEFORE photographs, one or two AFTER.   *)
EXTENDS CapturePipeline, TLC

CONSTANTS b1, b2, a1, a2

MCPhaseOf == [p \in Photos |-> IF p \in {b1, b2} THEN "BEFORE" ELSE "AFTER"]

MCShotAt == [p \in Photos |-> CASE p = b1 -> 1 [] p = b2 -> 2 [] p = a1 -> 3 [] p = a2 -> 4]

\* Rows, workers and handlers are told apart by nothing: sound for the runs
\* that check safety.
MCSymmetry == UNION {Permutations(S) : S \in {Captures, Jobs, Workers, Committers, Closers}}

=============================================================================
