\* Two servers and a business service that moves between them, with a second
\* operator planning in the same directory.
SPECIFICATION FairSpec
CONSTANTS
  b1 = b1  g1 = g1  v1 = v1  v2 = v2  z1 = z1
  Biz = {b1}
  Infra = {}
  Server = {v1, v2}
  Zone = {z1}
  zoneOf <- MCZoneOf
  Opaque = {}
  Comp = {c1, c2}
  Side = {e1}
  Route = {}
  Unset = Unset  NoRoute = NoRoute  None = None  Bare = Bare  MadeDir = MadeDir
  Scopes <- ServerScopes
  ConfigDirIsCwd = TRUE
  Shared = TRUE
  MaxEdits = 1
  MaxRuns = 2
  MaxStops = 1
INVARIANTS
  RunsWhatWasAssigned
PROPERTIES
  ScopeIsRespected
  ConfirmedRunEnds
CHECK_DEADLOCK FALSE
