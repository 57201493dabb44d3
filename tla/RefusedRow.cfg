SPECIFICATION Spec

CONSTANTS
  Gaps = {gap}
  Chores = {}
  Photos = {}
  Closings = {}
  MaxTaps = 2
  MaxPresses = 1
  MaxFaults = 1
  MaxOutages = 1

PROPERTY
  RollBackTellsTruth

CHECK_DEADLOCK FALSE
