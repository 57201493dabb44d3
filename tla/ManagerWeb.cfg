SPECIFICATION Spec

CONSTANTS
  boss = boss
  north = north
  Reps = {rep}
  Managers = {boss}
  Areas = {north, east}
  NoArea = NoArea
  Captures = {photo, other}
  NoCapture = NoCapture
  HomeArea <- Home
  MaxLogins = 2
  MaxClicks = 3
  MaxFaults = 2

INVARIANTS
  TypeOK
  ShowsWhatWasAsked

PROPERTY SessionLostOnlyToAnother

CHECK_DEADLOCK FALSE
