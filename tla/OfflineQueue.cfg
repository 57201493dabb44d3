SPECIFICATION Spec

CONSTANTS
  Gaps = {gap}
  Chores = {task}
  Photos = {photo}
  Closings = {}
  MaxTaps = 2
  MaxPresses = 1
  MaxFaults = 1
  MaxOutages = 1

INVARIANTS
  TypeOK
  ShownIsKept
  DoneMeansServed
  OneCapturePerQueuedPhoto

PROPERTIES
  StoredOverNeverSent
  UnsentNeverDropped
  DrainEnds

CHECK_DEADLOCK FALSE
