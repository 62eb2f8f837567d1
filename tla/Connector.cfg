SPECIFICATION FairSpec
CONSTANTS
  p1 = p1
  p2 = p2
  NoProc = NoProc
  h1 = h1
  h2 = h2
  Own = Own
  Procs = {p1, p2}
  Hosts = {h1, h2}
  Configs <- SomeConfigs
  MaxCalls = 3
  MaxVersion = 2
  MaxRotations = 1
  MaxCookies = 2
  MaxSets = 1
  MaxMoves = 1
INVARIANTS
  CallbackAlone
  RetryWithNews
  CookieOnce
  RefreshSuffices
  NothingLeaks
  StaleCacheHarmless
PROPERTIES
  ConnectEnds
CHECK_DEADLOCK FALSE
