-------------------------------- MODULE Deploy --------------------------------
(***************************************************************************)
(* One operator running "yamlops apply" again and again against a set of   *)
(* hosts, while the YAML configuration is edited, remote commands fail,    *)
(* the command is interrupted, and containers stop.                        *)
(*                                                                         *)
(* A run loads the configuration, generates the deployment files, observes *)
(* the hosts service by service, plans, asks for confirmation, generates   *)
(* the files again and carries the changes out one by one; a service       *)
(* change is a sequence of remote commands, each of which may fail with or *)
(* without its effect.  A second operator may plan in the same directory,  *)
(* and so empty it and write it at any time.                               *)
(*                                                                         *)
(* What a service says is split by where it ends up: "comp" is what is     *)
(* rendered into the compose file, "side" what is rendered into the file   *)
(* next to it (the .env file of a business service, the gateway's own      *)
(* settings in gateway.yml), "route" what a business service contributes   *)
(* to the gateway.yml of the gateways on its server.                       *)
(***************************************************************************)
EXTENDS Planner

CONSTANTS
  Biz,             \* names of business services
  Infra,           \* names of infra services (of type gateway)
  Server,          \* names of servers
  Zone,            \* names of zones
  zoneOf,          \* zoneOf[v]: the zone of server v
  Opaque,          \* services with a field the state fetcher does not restore
  Comp, Side, Route,
  NoRoute,         \* a business service without a gateway route
  None,            \* "absent": no file, no container, no entry, no change
  Bare,            \* the fetched spec of a service whose compose file differs
  MadeDir,         \* a directory in the place of gateway.yml
  Scopes,          \* the scopes the operator uses
  ConfigDirIsCwd,  \* the command is run in its --config directory
  Shared,          \* another operator plans in the same working directory
  MaxEdits, MaxRuns, MaxStops   \* bounds of a model-checking run

Svc == Biz \cup Infra
Entry == [server : Server, comp : Comp, side : Side, route : Route \cup {NoRoute}]
GateFile == [own : Side, routes : SUBSET (Biz \X Route)]
SideFile == Side \cup GateFile
LocalFiles == [comp : Comp, side : SideFile]
Remote == SideFile \cup {None, MadeDir}
Running == [comp : Comp, side : Remote]
Instance == [dir : BOOLEAN, comp : Comp \cup {None}, side : Remote,
             run : Running \cup {None}]
\* The plan of a run holds no "delete": the fetcher looks up the entries of the
\* configuration only, so DeleteServiceRemote is not reached from here.
ServiceChange == [type : {"update", "create"},
                  entity : {"service", "infra_service"},
                  name : Svc, server : Server]

ASSUME NamesAssumption ==
  /\ Biz \cap Infra = {}
  /\ Opaque \subseteq Svc
  /\ zoneOf \in [Server -> Zone]
  /\ None \notin Entry \cup LocalFiles \cup SideFile \cup Running \cup Comp
                 \cup ServiceChange \cup {"ok", "failed"}
  /\ Bare \notin Entry
  /\ MadeDir \notin SideFile \cup {None}
  /\ NoRoute \notin Route
  /\ Scopes \subseteq [domain : {Unset}, zone : Zone \cup {Unset},
                       server : Server \cup {Unset}, service : Svc \cup {Unset},
                       services : {{}}, infraServices : {{}},
                       forceDeploy : {FALSE}, dnsOnly : {FALSE}]
  /\ ConfigDirIsCwd \in BOOLEAN /\ Shared \in BOOLEAN
  /\ MaxEdits \in Nat /\ MaxRuns \in Nat /\ MaxStops \in Nat

VARIABLES
  cfg,       \* the YAML files: the entry of every service
  local,     \* local[v][s]: the files of s in the directory of server v, in the
             \* deployments directory under the working directory
  host,      \* host[v][s]: the remote directory and container of s on v
  saved,     \* the state file: the configuration saved by the last run
  step,      \* where the run is
  snap,      \* the configuration the run loaded
  scope,     \* the scope of the run
  left,      \* the services whose files it has still to write, or which it has
             \* still to observe
  seen,      \* the services found on their hosts
  same,      \* those whose compose file there equals the local one
  plan,      \* the service changes of its plan
  todo,      \* the changes not yet begun
  cur,       \* the change being carried out
  results,   \* the result of every change of the run
  failed,    \* some change of the run failed
  other,     \* the second operator: where its "yamlops plan" is, the configuration
             \* that it has loaded, and the services still to write
  assigned,  \* history: <<server, name, comp>> of every entry there ever was
  edits, runs, stops   \* counters for the bounds

disk  == <<cfg, local, host, saved>>
observed == <<left, seen, same>>
runState == <<step, snap, scope, observed, plan, todo, cur, results, failed>>
count == <<assigned, edits, runs, stops>>
vars  == <<disk, runState, other, count>>

EntriesOf(s) == {e \in Entry : s \in Infra => e.route = NoRoute}
Present(c) == {s \in Svc : c[s] # None}
Empty == [s \in Svc |-> None]
NoFiles == [v \in Server |-> [s \in Svc |-> None]]
Idle == [step |-> "idle", cfg |-> Empty, left |-> {}]
NoResults == [s \in Svc |-> None]
NoInstance == [dir |-> FALSE, comp |-> None, side |-> None, run |-> None]

-----------------------------------------------------------------------------
(* Generated files.                                                        *)

\* The routes the gateways of server v are given: one for every business
\* service of that server that has a route.
HostRoutes(c, v) ==
  {<<b, c[b].route>> : b \in {x \in Biz : /\ c[x] # None
                                          /\ c[x].server = v
                                          /\ c[x].route # NoRoute}}

SideOf(c, s) ==
  IF s \in Infra
    THEN [own |-> c[s].side, routes |-> HostRoutes(c, c[s].server)]
    ELSE c[s].side

FilesOf(c, s) == [comp |-> c[s].comp, side |-> SideOf(c, s)]

\* What Generate leaves when nobody else writes: the files of every service, in
\* the directory of its server.
Generate(c) ==
  [v \in Server |-> [s \in Svc |->
     IF c[s] # None /\ c[s].server = v THEN FilesOf(c, s) ELSE None]]

\* It first empties the output directory, and then writes the files of one
\* service after another, of the business services first.  The two files of a
\* service are written in one step: no step of a run reads them both.
WriteFor(c, s) == local' = [local EXCEPT ![c[s].server] = [@ EXCEPT ![s] = FilesOf(c, s)]]
InTurn(s, rest) == s \in rest /\ (s \in Infra => rest \subseteq Infra)

\* A mutant of Found: in the directory of any server.
FoundAnywhere(files, v, s) ==
  IF \E w \in Server : files[w][s] # None
    THEN files[CHOOSE w \in Server : files[w][s] # None][s] ELSE None

\* What the fetcher and the handlers find for service s of server v: they look
\* in the configuration directory, the generator wrote under the working one.
Found(files, v, s) == IF ConfigDirIsCwd THEN files[v][s] ELSE None

-----------------------------------------------------------------------------
(* The observed state and the plan.                                        *)

\* A service exists if its compose project or its directory does.
Exists(v, s) == host[v][s].dir \/ host[v][s].run # None

\* The compose file of the host and the local one are read and compared.  A file
\* that is not there or cannot be read is taken to be empty, and not the same.
SameCompose(c, s) ==
  LET found == Found(local, c[s].server, s) IN
  found # None /\ host[c[s].server][s].comp = found.comp

\* A mutant of FetchedSpec: what exists is as configured.
FetchedIfExists(c, equal, s) == c[s]

\* When they are the same the fetcher copies the entry of the configuration, less
\* the fields it does not know.
FetchedSpec(c, equal, s) == IF s \in equal \ Opaque THEN c[s] ELSE Bare

\* A mutant of Fetch: what the configuration no longer has is found, too.
FetchLeftovers(c, existing, equal, kind) ==
  [s \in {x \in kind : \E v \in Server : Exists(v, x)} |->
     [server |-> CHOOSE v \in Server : Exists(v, s), spec |-> Bare]]

Fetch(c, existing, equal, kind) ==
  [s \in kind \cap Present(c) \cap existing |->
     [server |-> c[s].server, spec |-> FetchedSpec(c, equal, s)]]

ConfigMap(c, kind) ==
  [s \in kind \cap Present(c) |-> [server |-> c[s].server, spec |-> c[s]]]

Servers == [v \in Server |-> [zone |-> zoneOf[v]]]

PlanChanges(c, existing, equal, sc) ==
  LET Map(kind) == ConfigMap(c, kind)
      State(kind) == Fetch(c, existing, equal, kind)
  IN  ServicePlan(Map(Biz), State(Biz), Servers, sc)
      \cup InfraPlan(Map(Infra), State(Infra), Servers, sc)

Covers(sc, c, s) ==
  LET v == c[s].server IN
  IF s \in Biz THEN Matches(sc, zoneOf[v], v, s, Unset)
               ELSE MatchesInfra(sc, zoneOf[v], v, s)
-----------------------------------------------------------------------------
Init ==
  /\ cfg \in {c \in [Svc -> Entry \cup {None}] :
                \A s \in Present(c) : c[s] \in EntriesOf(s)}
  /\ assigned = {<<cfg[s].server, s, cfg[s].comp>> : s \in Present(cfg)}
  /\ local = NoFiles
  /\ host = [v \in Server |-> [s \in Svc |-> NoInstance]]
  /\ saved = Empty
  /\ step = "idle"
  /\ snap = Empty
  /\ scope = EmptyScope
  /\ left = {} /\ seen = {} /\ same = {}
  /\ other = Idle
  /\ plan = {} /\ todo = {} /\ cur = None
  /\ results = NoResults
  /\ failed = FALSE
  /\ edits = 0 /\ runs = 0 /\ stops = 0

(* The environment. *)

EditConfig(s, entry) ==
  /\ edits < MaxEdits
  /\ cfg' = [cfg EXCEPT ![s] = entry]
  /\ edits' = edits + 1
  /\ assigned' = IF entry = None THEN assigned
                 ELSE assigned \cup {<<entry.server, s, entry.comp>>}
  /\ UNCHANGED <<local, host, saved, runState, other, runs, stops>>

\* A container exits and stays down, or "service stop" stops it.
ContainerStops(v, s) ==
  /\ stops < MaxStops
  /\ host[v][s].run # None
  /\ host' = [host EXCEPT ![v][s].run = None]
  /\ stops' = stops + 1
  /\ UNCHANGED <<cfg, local, saved, runState, other, assigned, edits, runs>>

(* "yamlops plan" of a second operator in the same directory. *)

UnchangedButOther == UNCHANGED <<cfg, host, saved, runState, count>>

\* It loads the configuration as it is now.
OtherLoads ==
  /\ Shared /\ other.step = "idle"
  /\ other' = [step |-> "clean", cfg |-> cfg, left |-> {}]
  /\ UNCHANGED local /\ UnchangedButOther

OtherCleans ==
  /\ Shared /\ other.step = "clean"
  /\ other' = [other EXCEPT !.step = "write", !.left = Present(other.cfg)]
  /\ local' = NoFiles /\ UnchangedButOther

OtherWrites(s) ==
  /\ Shared /\ other.step = "write" /\ InTurn(s, other.left)
  /\ other' = [other EXCEPT !.left = @ \ {s}]
  /\ WriteFor(other.cfg, s) /\ UnchangedButOther

\* It has written all files, was interrupted, or could not write because the
\* directory was removed meanwhile.  What it plans is of no consequence.
OtherStops ==
  /\ Shared /\ other.step # "idle"
  /\ other' = Idle
  /\ UNCHANGED local /\ UnchangedButOther

(* A run up to the confirmation (Workflow.Plan). *)

Load(sc) ==
  /\ step = "idle" /\ runs < MaxRuns
  /\ runs' = runs + 1
  /\ snap' = cfg
  /\ scope' = sc
  /\ plan' = {} /\ todo' = {} /\ cur' = None
  /\ results' = NoResults
  /\ failed' = FALSE
  /\ step' = "clean"
  /\ UNCHANGED <<disk, observed, other, assigned, edits, stops>>

UnchangedButFiles ==
  UNCHANGED <<cfg, host, saved, snap, scope, seen, same, plan, todo, cur, results, failed,
              other, count>>

\* GenerateDeployments, before the hosts are observed and again after the
\* confirmation.
CleanOutput ==
  /\ \/ step = "clean" /\ step' = "write"
     \/ step = "reclean" /\ step' = "rewrite"
  /\ local' = NoFiles
  /\ left' = Present(snap)
  /\ UnchangedButFiles

WriteFiles(s) ==
  /\ step \in {"write", "rewrite"} /\ InTurn(s, left)
  /\ left' = left \ {s}
  /\ WriteFor(snap, s)
  /\ UNCHANGED step /\ UnchangedButFiles

Generated ==
  /\ left = {}
  /\ \/ step = "write" /\ step' = "observe" /\ left' = Present(snap)
     \/ step = "rewrite" /\ step' = "next" /\ UNCHANGED left
  /\ UNCHANGED local /\ UnchangedButFiles

\* A service is not seen when its server does not answer or a lookup fails; its
\* compose file is not the same when it cannot be read.  On a server the business
\* services are looked up first.
Observe(s) ==
  /\ step = "observe" /\ s \in left
  /\ s \in Infra => \A t \in left \cap Biz : snap[t].server # snap[s].server
  /\ left' = left \ {s}
  /\ \/ UNCHANGED <<seen, same>>
     \/ /\ Exists(snap[s].server, s)
        /\ seen' = seen \cup {s}
        /\ \/ UNCHANGED same
           \/ SameCompose(snap, s) /\ same' = same \cup {s}
  /\ UNCHANGED <<disk, step, snap, scope, plan, todo, cur, results, failed, other, count>>

MakePlan ==
  /\ step = "observe" /\ left = {}
  /\ plan' = PlanChanges(snap, seen, same, scope)
  /\ seen' = {} /\ same' = {}
  /\ step' = "planned"
  /\ UNCHANGED <<disk, snap, scope, left, todo, cur, results, failed, other, count>>

\* "No changes to apply", "Cancelled", or the command was "plan".
Decline ==
  /\ step = "planned"
  /\ step' = "idle"
  /\ UNCHANGED <<disk, snap, scope, observed, plan, todo, cur, results, failed,
                 other, count>>

\* The changes of the other kinds of entity come first in a plan; here only
\* whether there are any and whether one failed matters.
Confirm(others) ==
  /\ step = "planned"
  /\ plan # {} \/ others # "none"
  /\ todo' = plan
  /\ failed' = (others = "failed")
  /\ step' = "reclean"
  /\ UNCHANGED <<disk, snap, scope, observed, plan, cur, results, other, count>>

(* Carrying out the change cur. *)

At(ch) == host[ch.server][ch.name]
Files(ch) == Found(local, ch.server, ch.name)
SetHost(ch, inst) ==
  host' = [host EXCEPT ![ch.server] = [@ EXCEPT ![ch.name] = inst]]

Fail(ch) ==
  /\ results' = [results EXCEPT ![ch.name] = "failed"]
  /\ failed' = TRUE
  /\ cur' = None
  /\ step' = "next"

Succeed(ch) ==
  /\ results' = [results EXCEPT ![ch.name] = "ok"]
  /\ cur' = None
  /\ step' = "next"
  /\ UNCHANGED failed

\* An infra service has a hook that runs once its compose file is deployed.
AfterCompose(ch) ==
  IF ch.entity = "service" THEN Succeed(ch)
    ELSE step' = "gate" /\ UNCHANGED <<cur, results, failed>>

BeginKeepsChange(ch) ==
  /\ step = "next"
  /\ ch \in todo
  /\ cur' = ch
  /\ step' = "prepare"
  /\ UNCHANGED <<disk, snap, scope, observed, plan, todo, results, failed, other, count>>

\* Business services come before infra services, otherwise in any order (the
\* planner ranges over maps).
Begin(ch) ==
  /\ step = "next"
  /\ ch \in todo
  /\ ch.entity = "infra_service" =>
       \A next \in todo : next.entity = "infra_service"
  /\ todo' = todo \ {ch}
  /\ cur' = ch
  /\ step' = "prepare"
  /\ UNCHANGED <<disk, snap, scope, observed, plan, results, failed, other, count>>

\* A connection to the server, volumes, networks and the directory of the
\* service.  A step that fails may leave the directory behind.
Prepare(ch) ==
  /\ step = "prepare" /\ cur = ch
  /\ \/ /\ SetHost(ch, [At(ch) EXCEPT !.dir = TRUE])
        /\ step' = "check"
        /\ UNCHANGED <<cur, results, failed>>
     \/ /\ \E made \in {At(ch).dir, TRUE} :
             SetHost(ch, [At(ch) EXCEPT !.dir = made])
        /\ Fail(ch)
  /\ UNCHANGED <<cfg, local, saved, snap, scope, observed, plan, todo, other, count>>

CheckSkipsRunning(ch) ==
  /\ step = "check" /\ cur = ch
  /\ IF Files(ch) = None \/ At(ch).run # None
       THEN AfterCompose(ch)
       ELSE step' = "compose" /\ UNCHANGED <<cur, results, failed>>
  /\ UNCHANGED <<disk, snap, scope, observed, plan, todo, other, count>>

\* A compose file that is not there is not deployed, and that is no failure.
\* Whether "ps" lists a container chooses between two commands with the same
\* outcomes (see Up) and need not be remembered.
CheckFile(ch) ==
  /\ step = "check" /\ cur = ch
  /\ IF Files(ch) = None
       THEN AfterCompose(ch)
       ELSE step' = "compose" /\ UNCHANGED <<cur, results, failed>>
  /\ UNCHANGED <<disk, snap, scope, observed, plan, todo, other, count>>

\* An upload moves a temporary file into place and then sets owner and mode, so
\* it can fail after the file is in place.
SyncCompose(ch) ==
  /\ step = "compose" /\ cur = ch
  /\ \/ /\ Files(ch) # None
        /\ SetHost(ch, [At(ch) EXCEPT !.comp = Files(ch).comp])
        /\ step' = IF ch.entity = "service" THEN "env" ELSE "up"
        /\ UNCHANGED <<cur, results, failed>>
     \/ /\ \/ UNCHANGED host
           \/ /\ Files(ch) # None
              /\ SetHost(ch, [At(ch) EXCEPT !.comp = Files(ch).comp])
        /\ Fail(ch)
  /\ UNCHANGED <<cfg, local, saved, snap, scope, observed, plan, todo, other, count>>

SyncEnv(ch) ==
  /\ step = "env" /\ cur = ch
  /\ \/ /\ IF Files(ch) = None THEN UNCHANGED host
             ELSE SetHost(ch, [At(ch) EXCEPT !.side = Files(ch).side])
        /\ step' = "up"
        /\ UNCHANGED <<cur, results, failed>>
     \/ /\ Files(ch) # None
        /\ \/ UNCHANGED host
           \/ SetHost(ch, [At(ch) EXCEPT !.side = Files(ch).side])
        /\ Fail(ch)
  /\ UNCHANGED <<cfg, local, saved, snap, scope, observed, plan, todo, other, count>>

\* What a container of the service finds when it mounts the file next to the
\* compose file: Docker makes a directory of a mounted path that is not there.
Mounted(ch) ==
  IF ch.entity = "infra_service" /\ At(ch).side = None THEN MadeDir
                                                       ELSE At(ch).side

\* "up -d --force-recreate", or "up -d" and a restart when "ps" listed nothing.
\* Both end with a container made from the files as they are, and both may fail
\* before the old one is removed, after that, or after the new one is started.
Up(ch) ==
  LET new == [comp |-> At(ch).comp, side |-> Mounted(ch)] IN
  /\ step = "up" /\ cur = ch
  /\ \/ /\ SetHost(ch, [At(ch) EXCEPT !.side = Mounted(ch), !.run = new])
        /\ AfterCompose(ch)
     \/ /\ \E side \in {At(ch).side, Mounted(ch)},
             kept \in {At(ch).run, new, None} :
             /\ kept = new => side = Mounted(ch)
             /\ SetHost(ch, [At(ch) EXCEPT !.side = side, !.run = kept])
        /\ Fail(ch)
  /\ UNCHANGED <<cfg, local, saved, snap, scope, observed, plan, todo, other, count>>

\* The gateway's configuration file is uploaded after its container is up.  If
\* there is a directory of that name, the file is moved into it.
Uploaded(ch) == IF At(ch).side = MadeDir THEN MadeDir ELSE Files(ch).side

SyncGate(ch) ==
  /\ step = "gate" /\ cur = ch
  /\ \/ /\ IF Files(ch) = None THEN UNCHANGED host
             ELSE SetHost(ch, [At(ch) EXCEPT !.side = Uploaded(ch)])
        /\ Succeed(ch)
     \/ /\ Files(ch) # None
        /\ \/ UNCHANGED host
           \/ SetHost(ch, [At(ch) EXCEPT !.side = Uploaded(ch)])
        /\ Fail(ch)
  /\ UNCHANGED <<cfg, local, saved, snap, scope, observed, plan, todo, other, count>>

FinishAlwaysSaves ==
  /\ step = "next" /\ todo = {}
  /\ saved' \in {snap, saved}
  /\ step' = "idle"
  /\ UNCHANGED <<cfg, local, host, snap, scope, observed, plan, todo, cur, results,
                 failed, other, count>>

\* With every change tried, the state is saved unless one failed; a save that
\* fails is a warning.
Finish ==
  /\ step = "next" /\ todo = {}
  /\ \/ failed /\ UNCHANGED saved
     \/ ~failed /\ saved' \in {snap, saved}
  /\ step' = "idle"
  /\ UNCHANGED <<cfg, local, host, snap, scope, observed, plan, todo, cur, results,
                 failed, other, count>>

\* The command is interrupted, or it cannot generate because the second operator
\* has removed the directory; nothing of the run is kept.
Interrupt ==
  /\ step # "idle"
  /\ step' = "idle"
  /\ todo' = {} /\ cur' = None
  /\ left' = {} /\ seen' = {} /\ same' = {}
  /\ UNCHANGED <<disk, snap, scope, plan, results, failed, other, count>>

Carry(ch) ==
  \/ Prepare(ch) \/ CheckFile(ch) \/ SyncCompose(ch) \/ SyncEnv(ch)
  \/ Up(ch) \/ SyncGate(ch)

Environment ==
  \/ \E s \in Svc : \E entry \in EntriesOf(s) \cup {None} : EditConfig(s, entry)
  \/ \E v \in Server, s \in Svc : ContainerStops(v, s)
  \/ OtherLoads \/ OtherCleans \/ (\E s \in Svc : OtherWrites(s)) \/ OtherStops

Next ==
  \/ Environment
  \/ \E sc \in Scopes : Load(sc)
  \/ CleanOutput \/ (\E s \in Svc : WriteFiles(s)) \/ Generated
  \/ (\E s \in Svc : Observe(s)) \/ MakePlan
  \/ Decline
  \/ \E others \in {"none", "ok", "failed"} : Confirm(others)
  \/ \E ch \in ServiceChange : Begin(ch)
  \/ \E ch \in ServiceChange : Carry(ch)
  \/ Finish
  \/ Interrupt

Spec == Init /\ [][Next]_vars

\* The program goes on by itself between remote commands.  Nothing is assumed of
\* the commands: the SSH client sets them no deadline.
Local ==
  \/ CleanOutput \/ (\E s \in Svc : WriteFiles(s)) \/ Generated
  \/ Finish \/ \E ch \in ServiceChange : Begin(ch) \/ CheckFile(ch)
FairSpec == Spec /\ WF_vars(Local)
-----------------------------------------------------------------------------
(* Properties. *)

Planning == {"idle", "clean", "write", "observe", "planned", "reclean", "rewrite"}

\* The variables have their types; in particular a plan holds no deletion, the
\* change being carried out is one of the plan, and it is not still to do.
TypeOK ==
  /\ cfg \in [Svc -> Entry \cup {None}]
  /\ snap \in [Svc -> Entry \cup {None}]
  /\ saved \in [Svc -> Entry \cup {None}]
  /\ local \in [Server -> [Svc -> LocalFiles \cup {None}]]
  /\ host \in [Server -> [Svc -> Instance]]
  /\ step \in Planning \cup {"next", "prepare", "check", "compose", "env", "up", "gate"}
  /\ left \subseteq Present(snap) /\ same \subseteq seen /\ seen \subseteq Present(snap) \ left
  /\ other \in [step : {"idle", "clean", "write"}, cfg : [Svc -> Entry \cup {None}],
               left : SUBSET Svc]
  /\ other.left \subseteq Present(other.cfg)
  /\ plan \subseteq ServiceChange
  /\ todo \subseteq plan
  /\ cur \in plan \cup {None}
  /\ (step \in Planning \cup {"next"}) <=> (cur = None)
  /\ results \in [Svc -> {"ok", "failed", None}]
  /\ failed \in BOOLEAN
  /\ assigned \subseteq Server \X Svc \X Comp
  /\ edits \in 0..MaxEdits /\ runs \in 0..MaxRuns /\ stops \in 0..MaxStops

Planned(s) == \E ch \in plan : ch.name = s

\* Quiet(s): the run saw service s in its scope and planned nothing for it.
Quiet(s) == snap[s] # None /\ Covers(scope, snap, s) /\ ~Planned(s)

\* The other operator and a configuration directory elsewhere are left out.
Exclusive == ConfigDirIsCwd /\ ~Shared

\* When a plan proposes nothing for a service in scope, and nobody else writes the
\* deployments directory, the compose file the host has for it is the one generated
\* from the loaded configuration, whatever failed or was interrupted before and
\* whichever lookups failed in this run (state_fetcher.go: hashes compared, a lookup
\* that fails leaves its service unobserved; differ_servers.go: an unobserved service
\* is created).
QuietMeansUploaded ==
  ~Shared /\ step \notin {"idle", "clean", "write", "observe"} =>
    \A s \in Svc : Quiet(s) => host[snap[s].server][s].comp = snap[s].comp

\* After a change was reported successful, no container made from an older
\* compose file, or for a business service from an older .env file, is left
\* running in its place (DeployComposeFile: upload first, then recreate).
SuccessReplacesContainer ==
  Exclusive =>
    \A s \in Svc : results[s] = "ok" =>
      LET up == host[snap[s].server][s].run IN
      up # None => /\ up.comp = snap[s].comp
                   /\ s \in Biz => up.side = snap[s].side

\* The state file is only replaced by a configuration whose services in the
\* scope of the run all have their compose file on their host
\* (apply.go: no save after a failed change).
SaveMeansUploaded ==
  [][(Exclusive /\ saved' # saved) =>
       \A s \in Present(saved') :
         Covers(scope, saved', s) =>
           host[saved'[s].server][s].comp = saved'[s].comp]_vars

\* What runs on a server was configured for that server at some time, even when
\* another operator regenerates the files during the run: the handlers look for
\* deployments/<server>/<name>, not for the name alone (GetComposeFilePath).
RunsWhatWasAssigned ==
  \A v \in Server, s \in Svc :
    host[v][s].run # None => <<v, s, host[v][s].run.comp>> \in assigned

\* A server the scope excludes is not touched by the run (Scope.Matches and
\* MatchesInfra both look at zone and server).
ScopeIsRespected ==
  [][\A v \in Server :
       (step # "idle" /\ host'[v] # host[v] /\ stops' = stops) =>
         Passes(scope.server, v) /\ Passes(scope.zone, zoneOf[v])]_vars

\* A confirmed run comes to its end if no remote command hangs for ever: every
\* change is begun once and none is tried again (Executor.Apply).
ConfirmedRunEnds ==
  []<>(cur = None) => (step = "reclean" ~> step = "idle")

-----------------------------------------------------------------------------
(* What the documentation says and the code does not do. *)

\* README.md:735 calls UPDATE the change of a resource that exists with a
\* configuration that differs: a service planned for nothing would then have
\* its .env or gateway.yml up to date, too.
DifferenceIsPlanned ==
  step = "planned" =>
    \A s \in Svc :
      Quiet(s) => host[snap[s].server][s].side = SideOf(snap, s)

\* The same line, with a second operator in the directory: what is planned for
\* nothing has the compose file of the loaded configuration.  Between the generation
\* of one run and its comparisons the other may write its own files.
UpdateIsPlanned ==
  step = "planned" =>
    \A s \in Svc : Quiet(s) => host[snap[s].server][s].comp = snap[s].comp

\* docs/cli-reference.md:554 has the files of a new service synchronised and its
\* containers started, also with the --config directory of :10 and :64: what was
\* reported successful has its compose file on the host.  The files are generated
\* under the working directory (planner.go:62) and looked for in the other.
SuccessIsUploaded ==
  ~Shared =>
    \A s \in Svc : results[s] = "ok" =>
      host[snap[s].server][s].comp = snap[s].comp

\* docs/cli-reference.md:554-555 has the files of a service synchronised before
\* its containers are started or recreated: what a deployment that succeeded
\* left running has the service's own settings.
SyncedBeforeStart ==
  Exclusive =>
    \A s \in Svc : results[s] = "ok" =>
      LET up == host[snap[s].server][s].run IN
      up # None => up.side = SideOf(snap, s)
=============================================================================
