SPECIFICATION Spec

CONSTANTS
  Findings = {f1}
  Tasks = {t1}
  RejectReasons = {r1}
  BlockedReasons = {out}
  OutOfBackstock = out
  Verifiers = {v1}
  Patchers = {p1}
  MaxRequests = 3
  None = None

PROPERTY
  CorrectionLeavesNoWork

CHECK_DEADLOCK FALSE
