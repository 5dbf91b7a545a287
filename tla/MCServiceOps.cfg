CONSTANTS
  z = z
  v1 = v1
  v2 = v2
  api = api
  moved = moved
  gate = gate
  shell = shell
  None = None
  Zone = {z}
  Server = {v1, v2}
  zone <- MCzone
  Service <- MCService
  name <- MCname
  kind <- MCkind
  server <- MCserver
  Config <- MCConfig
  Resource = {"api", "gate", "eu-api", "notes"}
  Prefixed = {"api", "gate", "eu-api"}
  foreign <- MCforeign
  Command = {shell}
  MaxLoads = 2
  MaxJobs = 2
  MaxChanges = 1
  MaxFailures = 1
SPECIFICATION Spec
INVARIANTS TypeOK ParentsShowChildren ActsOnWhatWasShown
PROPERTIES CleanupSparesServices
CHECK_DEADLOCK FALSE
