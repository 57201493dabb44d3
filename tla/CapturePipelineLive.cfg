SPECIFICATION Spec

CONSTANTS
  b1 = b1
  b2 = b2
  a1 = a1
  a2 = a2
  Photos = {b1, a1}
  PhaseOf <- MCPhaseOf
  ShotAt <- MCShotAt
  Captures = {c1, c2}
  Jobs = {j1, j2}
  Workers = {w1, w2}
  Committers = {h1, h2}
  Closers = {k1}
  MaxRetries = 1
  MaxCheckouts = 0
  MaxFaults = 1
  None = None

PROPERTY
  JobSettles
