SPECIFICATION Spec

CONSTANTS
  Findings = {f1}
  Tasks = {t1}
  RejectReasons = {r1}
  BlockedReasons = {out}
  OutOfBackstock = out
  Verifiers = {v1}
  Patchers = {p1, p2}
  MaxRequests = 3
  None = None

PROPERTY
  FirstStampStands

CHECK_DEADLOCK FALSE
