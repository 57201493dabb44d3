SPECIFICATION Spec

CONSTANTS
  Shops = {shopA, shopB}
  Shelves = {chilled, snacks}
  NoShop = NoShop
  NoShelf = NoShelf
  MaxVisits = 2
  MaxShots = 2
  MaxSlips = 1
  MaxLeft = 2
  MaxPolls = 1

INVARIANTS
  TypeOK
  NothingOfAnotherVisit
  AnalysisOfStagedPhoto
  UploadedAsPhotographed
  ClosedMeansClosed
  WaitersAreServed

PROPERTIES
  SummaryNeverGoesBack

SYMMETRY Symmetry

CHECK_DEADLOCK FALSE
