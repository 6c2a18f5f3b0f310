\* LayerNames' instance; boxes of all kinds up to zoom 2 over up to five threads, tests of up to three layers.
SPECIFICATION CommandsSpec
CONSTANTS
  Name <- Names
  Config <- AllConfigs
  MaxRefDepth = 3
  Char <- Chars
  Env <- TheEnv
  Ctx <- TheCtx
  Coord <- TheCoord
  Half = 4
  MaxZoom = 2
  TileLimit = 12
  RequestLimit = 15
  MaxExitCode = 1
  StatusWidth = 2
  SeedOptions <- Seeds
  TestOptions <- Tests
  CommandConfig <- CommandConfigs
INVARIANTS
  NameIsInstance
  UrlIsFilled
  RefsBounded
  ChainsOfIDsEnd
  ZeroMeansAll
CHECK_DEADLOCK FALSE
