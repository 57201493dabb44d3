SPECIFICATION Spec

CONSTANTS
  Findings = {f1}
  Tasks = {t1, t2}
  RejectReasons = {r1}
  BlockedReasons = {out, refused}
  OutOfBackstock = out
  Verifiers = {v1, v2}
  Patchers = {p1, p2}
  MaxRequests = 5
  None = None

INVARIANTS
  TypeOK
  TaskIffConfirmed
  SupplyAskedOnce
  AskedStaysConfirmed
  AuditTellsHistory
  ReasonsFit

PROPERTIES
  FirstCompletionKept
  ImplementsGapLedger
  EveryRequestAnswered

CHECK_DEADLOCK FALSE
