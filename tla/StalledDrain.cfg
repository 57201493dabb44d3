SPECIFICATION Spec

CONSTANTS
  Gaps = {}
  Chores = {}
  Photos = {photo}
  Closings = {}
  MaxTaps = 1
  MaxPresses = 1
  MaxFaults = 1
  MaxOutages = 1

PROPERTY
  NoneBlocksTheRest

CHECK_DEADLOCK FALSE
