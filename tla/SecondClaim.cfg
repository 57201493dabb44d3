SPECIFICATION Spec

CONSTANTS
  Gaps = {}
  Chores = {}
  Photos = {photo}
  Closings = {}
  MaxTaps = 2
  MaxPresses = 1
  MaxFaults = 0
  MaxOutages = 3

INVARIANT
  ClaimIsReused

CHECK_DEADLOCK FALSE
