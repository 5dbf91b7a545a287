CONSTANTS
  z = z
  v1 = v1
  v2 = v2
  api = api
  moved = moved
  gate = gate
  shell = shell
  None = None
  Zone = {z}
  Server = {v1, v2}
  zone <- MCzone
  Service <- MCService
  name <- MCname
  kind <- MCkind
  server <- MCserver
  Config <- MCConfig
  Resource = {"api", "gate", "eu-api", "notes"}
  Prefixed = {"api", "gate", "eu-api"}
  foreign <- MCforeign
  Command = {shell}
  MaxLoads = 1
  MaxJobs = 1
  MaxChanges = 0
  MaxFailures = 0
SPECIFICATION Spec
INVARIANT CleansTheNamedServer
CHECK_DEADLOCK FALSE
