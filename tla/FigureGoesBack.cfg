SPECIFICATION Spec

CONSTANTS
  b1 = b1
  b2 = b2
  a1 = a1
  a2 = a2
  Photos = {a1, a2}
  PhaseOf <- MCPhaseOf
  ShotAt <- MCShotAt
  Captures = {c1, c2}
  Jobs = {j1, j2}
  Workers = {w1}
  Committers = {h1}
  Closers = {k1, k2}
  MaxRetries = 1
  MaxCheckouts = 2
  MaxFaults = 0
  None = None

PROPERTY
  LaterPhotoWins
