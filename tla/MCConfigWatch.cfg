\* Three changes of the file and up to two reloads, the second with or without health checks.
SPECIFICATION WatchSpec
CONSTANTS
  Gen <- ThreeGens
  FirstGen = 1
  MayDisable <- LastOff
  None = none
  Edits = 3
  MaxClock = 3
INVARIANTS
  PortIsFree
  NoStrayHealth
  NewestIsRead
PROPERTIES
  DrainingSticks
  ReloadEnds
  ShutdownFinishes
CHECK_DEADLOCK FALSE
