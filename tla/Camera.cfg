SPECIFICATION Spec

CONSTANT MaxEvents = 7

INVARIANTS
  TypeOK
  NoStrayStream
  ShutStaysShut

PROPERTIES
  DeadViewfinderEnds

CHECK_DEADLOCK FALSE
