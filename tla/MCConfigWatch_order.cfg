\* An older configuration is installed last.
SPECIFICATION WatchSpec
CONSTANTS
  Gen <- ThreeGens
  FirstGen = 1
  MayDisable <- NoneOff
  None = none
  Edits = 3
  MaxClock = 3
INVARIANT NewestStays
CHECK_DEADLOCK FALSE
