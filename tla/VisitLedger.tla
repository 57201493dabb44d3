---------------------------- MODULE VisitLedger ----------------------------
(***************************************************************************)
(* What the photo pipeline promises the people who read a visit.           *)
(*                                                                         *)
(* A visit has an append-only list of readings (one per analysed photo),   *)
(* a BEFORE figure, an AFTER figure and a closed flag.  A figure is the    *)
(* number of the reading it was taken from, 0 standing for "no figure      *)
(* yet".  Every figure can be traced to a reading of the right phase, a    *)
(* BEFORE reading never leaves the visit without a BEFORE figure, and no   *)
(* figure is ever withdrawn.  How photos reach the model, how often they   *)
(* are analysed and what fails on the way is not visible here.             *)
(***************************************************************************)
EXTENDS Naturals, Sequences

CONSTANTS Photos,   \* the photographs of one visit
          PhaseOf   \* BEFORE or AFTER, for each photograph

VARIABLES readings, before, after, closed

ledger == <<readings, before, after, closed>>

ReadingsOf(phase) == {i \in 1..Len(readings) : PhaseOf[readings[i]] = phase}

LedgerInit == /\ readings = <<>>
              /\ before = 0
              /\ after = 0
              /\ closed = FALSE

\* A photograph has been analysed.  The first BEFORE reading becomes the
\* BEFORE figure; the promise leaves open whether a later one may replace it.
Record(p) == LET reading == Len(readings) + 1 IN
  /\ readings' = Append(readings, p)
  /\ IF PhaseOf[p] = "BEFORE"
     THEN /\ before' \in {before, reading}
          /\ before' # 0
     ELSE before' = before
  /\ UNCHANGED <<after, closed>>

\* The rep checks out, or asks again for the figure of a visit already closed.
Close == /\ closed' = TRUE
         /\ after' \in {after} \cup ReadingsOf("AFTER")
         /\ UNCHANGED <<readings, before>>

LedgerNext == Close \/ \E p \in Photos : Record(p)

LedgerSpec == LedgerInit /\ [][LedgerNext]_ledger
=============================================================================
