\* Two requests through every kind of nesting provider with two children of any kind.
SPECIFICATION LiveSpec
CONSTANTS
  r1 = r1
  r2 = r2
  Req <- TwoReqs
  Width = 2
  Kinds = {"blend", "composite", "fallback", "crop", "filter"}
  Leaves = {"static", "remote", "custom"}
  Modes = {"always", "unless-error", "unless-fallback"}
  MaxClock = 2
  None = none
INVARIANTS
  WholeTile
  SkipIsKept
  ErrorsAreNotCached
PROPERTIES
  ReusedIsFresh
  ReturnsUnlessStranded
CHECK_DEADLOCK FALSE
