\* Children of composite_mvt that fail without an image.
SPECIFICATION LiveSpec
CONSTANTS
  r1 = r1
  r2 = r2
  Req <- TwoReqs
  Width = 2
  Kinds = {"composite"}
  Leaves = {"remote"}
  Modes = {"always"}
  MaxClock = 2
  None = none
PROPERTIES
  RequestsReturn
CHECK_DEADLOCK FALSE
