\* Two users over every cache, and two checks over each.
SPECIFICATION Spec
CONSTANTS
  Client = {1, 2}
  Tile <- Tiles
  Probe <- TheProbe
  Setups <- AllSetups
  None = none
INVARIANTS
  HitIsOwn
  ReadyIsEarned
PROPERTIES
  LivesForAWhile
CHECK_DEADLOCK FALSE
