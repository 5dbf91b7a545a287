\* Two commands, or one and an edit; pages of two.  The operator may stop.
SPECIFICATION Spec
CONSTANTS
  da = da  dc = dc  n1 = n1  n2 = n2  v1 = v1  v2 = v2
  Domain = {da, dc}
  Name = {n1, n2}
  Value = {v1, v2}
  TTL = {0, 6}
  Cloudflare = {dc}
  DefaultTTL <- MCDefaultTTL
  Hosted = {da, dc}
  PageSize = 2
  Files <- MCFiles
  Zones <- MCZones
  MaxAttempts = 2
  MaxId = 6
  MaxTurns = 2
  None = None
INVARIANTS
  TypeOK
  QuietMeansServed
  RepeatIsQuiet
  RemovesOnlyUnconfigured
  PullTakesOver
  EnsureAddsOne
CHECK_DEADLOCK FALSE
