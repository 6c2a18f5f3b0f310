\* One change of the file, and a reload whose health rebuild fails after the handler swap.
SPECIFICATION WatchSpec
CONSTANTS
  Gen <- TwoGens
  FirstGen = 1
  MayDisable <- NoneOff
  None = none
  Edits = 1
  MaxClock = 2
INVARIANT ServingStaysOpen
CHECK_DEADLOCK FALSE
