\* One request, two concurrent reloads; no symmetry, which is unsound for liveness.
SPECIFICATION LiveSpec
CONSTANTS
  g1 = g1
  g2 = g2
  g3 = g3
  r1 = r1
  Gen <- ThreeGens
  FirstGen = g1
  Req <- OneReq
  Shutdown = shutdown
  None = none
INVARIANTS
  NoCloseInUse
  DrainedAtExit
PROPERTIES
  RetiredIsReleased
  ShutdownEnds
  ImplementsLifetime
