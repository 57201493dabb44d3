SPECIFICATION Spec

CONSTANTS
  Gaps = {gap}
  Chores = {}
  Photos = {}
  Closings = {}
  MaxTaps = 2
  MaxPresses = 1
  MaxFaults = 1
  MaxOutages = 1

PROPERTY
  StaleVerdictNeverSent

CHECK_DEADLOCK FALSE
