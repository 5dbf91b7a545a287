\* One gateway, deployed for the first time.
SPECIFICATION Spec
CONSTANTS
  b1 = b1  g1 = g1  v1 = v1  v2 = v2  z1 = z1
  Biz = {}
  Infra = {g1}
  Server = {v1}
  Zone = {z1}
  zoneOf <- MCZoneOf
  Opaque = {}
  Comp = {c1, c2}
  Side = {e1, e2}
  Route = {r1}
  Unset = Unset  NoRoute = NoRoute  None = None  Bare = Bare  MadeDir = MadeDir
  Scopes <- WholeScope
  ConfigDirIsCwd = TRUE
  Shared = FALSE
  MaxEdits = 0
  MaxRuns = 2
  MaxStops = 0
INVARIANTS
  SyncedBeforeStart
CHECK_DEADLOCK FALSE
