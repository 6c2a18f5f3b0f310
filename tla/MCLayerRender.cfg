\* Two requests for one tile, two cache tiers, one slot for a background write.
SPECIFICATION LiveSpec
CONSTANTS
  r1 = r1
  r2 = r2
  t1 = t1
  Req <- TwoReqs
  Tile <- OneTile
  Tiers = 2
  Slots = 1
  MaxToken = 3
  None = none
INVARIANTS
  RetryIsNewer
  SlotsAreWrites
PROPERTIES
  ContextMovesOn
  RequestsReturn
