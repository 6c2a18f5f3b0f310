\* An expression with two alternatives.
SPECIFICATION Spec
CONSTANTS
  Name <- Names
  Config <- TwoLayers
  MaxRefDepth = 3
  Char <- Chars
  Env <- TheEnv
  Ctx <- TheCtx
  Coord <- TheCoord
INVARIANT
  ValidatedInFull
CHECK_DEADLOCK FALSE
