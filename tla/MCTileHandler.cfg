\* Two requests, two tokens, every authentication module.
SPECIFICATION LiveSpec
CONSTANTS
  r1 = r1
  r2 = r2
  a = a
  b = b
  t1 = t1
  t2 = t2
  la = la
  lb = lb
  Req <- TwoReqs
  Offer <- TheOffers
  Token <- Tokens
  KeySets <- TheKeySets
  Layer = {a, b}
  Settings <- TheSettings
  Lock = {la}
  MaxTime = 2
  MaxExpiration = 2
  Tile = {t1, t2}
  Ask <- Asks
  SkipCache = {a}
  SkipAnalytics = {b}
  AlwaysOK = FALSE
  None = none
INVARIANTS
  GrantIsTheTokens
  ServedIsAllowed
  OneValidation
PROPERTIES
  NoExpiredPass
  EveryoneAnswered
