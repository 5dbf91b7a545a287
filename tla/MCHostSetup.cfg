CONSTANTS
  p1 = p1
  p2 = p2
  web = web
  db = db
  None = None
  Process <- MCProcess
  Server <- MCServer
  zone <- MCzone
  tools <- MCtools
  apt <- MCapt
  networks <- MCnetworks
  DefaultNetwork = "yamlops"
  Registry <- MCRegistry
  registries <- MCregistries
  Configured = {"hub", "mirror"}
  Resolvable = {"hub", "mirror"}
  TakenFor <- MCTakenFor
  First <- MCFirst
  extra <- MCextra
  MaxRuns = 2
  MaxFailures = 2
  MaxByHand = 1
SPECIFICATION Spec
INVARIANTS TypeOK OriginalKept HalfWrittenIsRestored NetworksAreThereOrReported SyncedChecksOut
SYMMETRY Symmetry
CHECK_DEADLOCK FALSE
