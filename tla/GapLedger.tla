----------------------------- MODULE GapLedger -----------------------------
(***************************************************************************)
(* What the verification of gaps promises, one decision and one report at  *)
(* a time.                                                                 *)
(*                                                                         *)
(* A gap the model found is PENDING until a rep confirms or rejects it.    *)
(* Work exists for a gap exactly while it is confirmed: confirming opens   *)
(* it, rejecting takes it away, and only the rep's own reports move it     *)
(* between OPEN, FIXED and BLOCKED: confirming again never resets it.      *)
(* Once supply chain has been asked for a gap it stays asked, and the gap  *)
(* stays confirmed.                                                        *)
(***************************************************************************)

CONSTANT Findings   \* the gaps of one visit

VARIABLES verdict, work, asked

gaps == <<verdict, work, asked>>

GapInit == /\ verdict = [f \in Findings |-> "PENDING"]
           /\ work = [f \in Findings |-> "NONE"]
           /\ asked = {}

Confirm(f) == /\ verdict[f] # "CONFIRMED"
              /\ verdict' = [verdict EXCEPT ![f] = "CONFIRMED"]
              /\ work' = [work EXCEPT ![f] = "OPEN"]
              /\ UNCHANGED asked

Reject(f) == /\ f \notin asked
             /\ verdict' = [verdict EXCEPT ![f] = "REJECTED"]
             /\ work' = [work EXCEPT ![f] = "NONE"]
             /\ UNCHANGED asked

\* A report, or what two reports sent at once leave of each other.
Report(f, s) == /\ verdict[f] = "CONFIRMED"
                /\ work' = [work EXCEPT ![f] = s]
                /\ asked' \in {asked, asked \cup {f}}
                /\ UNCHANGED verdict

GapNext == \E f \in Findings : \/ Confirm(f)
                               \/ Reject(f)
                               \/ \E s \in {"OPEN", "FIXED", "BLOCKED"} : Report(f, s)

GapSpec == GapInit /\ [][GapNext]_gaps
=============================================================================
