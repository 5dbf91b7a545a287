# A TLA+ model of yamlops

yamlops turns a directory of YAML files into changes of servers: it renders
Docker Compose files, compares them with what the servers have, and carries out
the difference over SSH and against DNS providers. This directory holds TLA+
modules of its core, TLC configurations that check them on small instances, and
proofs checked by TLAPS of theorems about them. Paths below are relative to
`src/internal/` unless they start with `docs/` or `README.md`, which are in
`src/`.

## Inventory

| Component | State it keeps | Operations | Talks to | What is hard | What makes it correct |
|---|---|---|---|---|---|
| scope, differs, planner (`domain/valueobject/scope.go`, `domain/service/differ*.go`, `application/plan`) | none: a plan is computed | `Matches`, `MatchesInfra`, `Plan*`, `Plan` | configuration, observed state | scopes that overlap, moved and removed entities, keys that collide | a repeated plan is the rest of the first; a whole run leaves nothing; server runs share the work out |
| apply workflow (`interfaces/cli/apply.go`, `application/orchestrator/workflow.go`, `application/usecase/change_executor.go`) | the run: plan, results; the deployments directory; the state file | load, generate, observe, plan, confirm, generate, execute, save | all below | failures and kills between steps, edits meanwhile, two runs in one directory | no change means deployed; success means replaced; a save after failures never |
| state fetcher (`application/orchestrator/state_fetcher.go`) | none | `Fetch` | hosts, deployments directory | lookups that fail, hosts that do not answer | never takes a service for up to date by mistake |
| service handlers (`application/handler`) | files and containers on hosts | deploy, delete, restart | SSH client | each remote command may fail with its effect | see workflow |
| deployment generator (`application/deployment`) | the deployments directory | `Generate` | file system | removes what others read | files under the server they are for |
| state file store (`infrastructure/state`) | `.state.<env>.yaml`, its lock and temporary file | `Save`, `Load` | file system, other processes | crashes, concurrent savers | an atomic register |
| SSH pool (`application/usecase/ssh_pool.go`) | map of connections under an RWMutex | `Get`, `CloseAll`, `Size` | SSH client | check and act under two locks, dial inside the lock | one connection per host and user, none lost, every call returns |
| SSH client (`infrastructure/ssh`) | a connection, `known_hosts` | `Run`, `Upload*` | hosts | no deadline on commands; three commands in one upload | - |
| DNS handler, providers, commands (`application/handler/dns_handler.go`, `infrastructure/dns`, `interfaces/cli/dns*.go`) | records at a provider, `dns.yaml` | create, update, delete, list, ensure; plan, apply, pull | provider APIs, retry | lost answers, several records of one name, names that are stored in full, listings of which only the first page is read | no more records than wanted; an update hits a record the configuration is about; a pull makes the file what is listed |
| retry (`domain/retry`) | attempt and delay | `Do` | clocks, contexts | bounds, cancellation | at most `MaxAttempts`, lasting errors at once |
| terminal UI (`interfaces/cli/tui*.go`) | the model of bubbletea: view, trees, ticks, running actions | key and message handlers | workflow, executor, hosts | answers that arrive in another view; ticks left over; state replaced between two steps | one apply at a time, of the plan that was confirmed; results of the run that is shown |
| service and cleanup commands (`interfaces/cli/service_cmd.go`, `clean.go`) | - | deploy, stop, restart, cleanup | hosts | prefixes that match other environments, empty selections, what is deployed after the scan | only what is shown as selected is touched, all of it is reported on |
| configuration and validation (`infrastructure/persistence`, `domain/service/validator.go`, `domain/entity`) | the loaded configuration | load, validate, resolve | file system | conflicts that are not looked for | references resolve, ports and hosts are unique |
| server environment (`environment`, `interfaces/cli/server_cmd.go`, `env.go`) | apt sources and their backups, networks, registry logins on a host | check, sync, setup | SSH client | rollback after a failed upload; two users' logins; two syncs of one host | the old sources are back; a sync that succeeds is seen by the check |
| registry and network managers (`infrastructure/registry`, `network`) | logins, networks | `EnsureLoggedIn`, `Ensure` | SSH client | look, then create | idempotent |
| YAML generators, logging, views | - | formatting | - | - | out of scope |

## Modules

| Module | Models | State and actions |
|---|---|---|
| `Planner` | scope, differs, `Planner.Plan` | operators only. A configuration or state is a record of maps; what an entity says beyond the fields the planner looks at is one value that the `*Equals` functions compare |
| `Reconcile` | plans against a world in which a change has its effect | `CarryOut` (one change), `RunAgain` (plan anew, any scope) |
| `Deploy` | `yamlops apply` with fetcher, generator, executor, service handlers and hosts; uses `Planner` | see below |
| `StateFile` | `FileStore` | one action per system call of `Save` and `Load`, and `Crash` |
| `StateRegister` | what the store promises: a register on which a call takes effect once, or not at all | `StateFile` implements it by the mapping in `Register` |
| `SSHPool` | the pool | one action per lock operation, look, dial and close |
| `DNSRecords` | `dns plan`, `dns apply`, `dns pull`, the DNS plan and pulls of the terminal UI, `EnsureRecord` under `retry` | see below |
| `TerminalUI` | the views, keys, background commands and messages of `interfaces/cli/tui*.go` | see below |
| `ServiceOps` | the service tree and the orphan list of the terminal UI, `service stop`, `service restart`, `service cleanup`, `clean` | see below |
| `ServiceDeploy` | `service deploy`; uses `Planner` | `MakePlan`, `Confirm`, `CarryOut` |
| `HostSetup` | `env check`, `env sync`, `server setup` and the same from the terminal UI | see below |
| `MC*` | instances for TLC | |
| `*Proofs` | theorems | |

Operators whose names say what a mistake would do (`FetchedIfExists`,
`NoRecheck`, `LockAnyway`, `NeverDeletes`, ...) stand before the definition they
are a wrong version of. Nothing uses them; each shows that a property fails when
the definition after it is replaced.

### Deploy

A service's configuration has three parts, by where they end up: `comp` in the
compose file, `side` in the file beside it (`.env`, or the gateway's settings in
`gateway.yml`), `route` in the `gateway.yml` of the gateways on its server.
`local` is the deployments directory, `host[v][s]` the directory, files and
container of service `s` on server `v`. A container remembers the files it was
made from.

| Step of the code | Action |
|---|---|
| `Workflow.Plan`: load | `Load(sc)` |
| `GenerateDeployments`, in `Workflow.Plan` and again after the confirmation: empty the directory, write service by service | `CleanOutput`, `WriteFiles(s)`, `Generated` |
| `StateFetcher.Fetch`, service by service, each lookup of which may fail; the local file is read when its service is compared | `Observe(s)` |
| `Planner.Plan` on what was seen | `MakePlan` |
| "No changes", "Cancelled", `yamlops plan` | `Decline` |
| confirmation, and the changes of other entities | `Confirm(others)` |
| the loop of `ChangeExecutor.Apply` | `Begin(ch)`; business services first, otherwise in any order, because the differs range over maps |
| connection, volumes, networks, directory | `Prepare` |
| `os.Stat` of the compose file | `CheckFile`; a file that is not there is a success without a deployment |
| upload of compose file, `.env` | `SyncCompose`, `SyncEnv`; an upload may fail after `mv` |
| `docker compose up` | `Up`; the two branches that `ps` chooses between have the same outcomes, so its answer is not a variable. A failure leaves the old container, none, or the new one |
| post-deploy hook of a gateway | `SyncGate` |
| `hasErrors`, `SaveState` | `Finish` |
| a second `yamlops plan` in the same directory, between any two steps of the first | `OtherLoads`, `OtherCleans`, `OtherWrites(s)`, `OtherStops` |
| the world | `EditConfig`, `ContainerStops`, `Interrupt` |

Abstractions: hashes are the contents they are taken of (the code uses a 32-bit
FNV hash, so two files could have one hash); the two files of a service are
written in one step, since no step reads them both; a generation that fails is
`Interrupt`; of a service's lookups only their outcome counts, whether it was seen
and whether its compose file was the same; changes of DNS records and servers are the verdict `others`; a missing mounted path
becomes a directory (`MadeDir`), which is what Docker does with the short form
of a bind mount. `NamesAssumption` has business and infra services with
disjoint names: the validator does not enforce it, and two services of one name
would share a directory.

### DNSRecords

A record's name stands for its name and type. A zone is a set of entries with
identifiers; what `ListRecords` answers is `Listings`: all of a Cloudflare zone,
with full names, and the first page of the others. A provider call is done,
refused, or done with its answer lost (`Outcome`).

| Code | Action |
|---|---|
| `dns plan`, `dns apply` (the state has no records, so all are creates) | `DNSPlan` |
| `generatePlanAsync`, `fetchDNSState` | `GeneratePlan`, `GeneratePlanOfAll` |
| confirmation | `Confirm`, or `Abandon` |
| `CreateRecord`, `UpdateRecord`, `DeleteRecord` of the handler: the latter two list, match and act | `CreateRecord`; `ListRecords` then `ActOnRecord` |
| `runDNSPull*`, `fetch*DiffsAsync` | `PullRecords`, `PullDomains`, `FetchRecordDiffs`, `FetchDomainDiffs` |
| saving of what is selected | `SaveSelected`, `SaveSelectedDiffs` |
| `EnsureRecord` with `retry.Do` | `EnsureRecord`, `EnsureList`, `EnsureWrite`, `EnsureStops` |
| others | `EditFile`, `EditZone`; `Reload` is the interface's refresh |

### TerminalUI

What a view lists is left open here; the module has which view is shown, the
spinner that locks the keys, the configuration, the plan, the differences of a
pull, and `jobs`: the commands whose message has not been handled. A key is
`Move`, `Escape`, `Cancel`, `Tick`, `Command`, `Refresh`, `ConfirmApply`,
`SavePull` or `Quit`; a message is `Result`, `ApplyTick` or `ApplyCompletes`, and
`ApplyBegins` is the moment an apply reads the plan. `Panic` and `Draw` are the
places where a missing configuration is dereferenced: bubbletea then ends the
program. `hasty` marks what voids some properties: the operator gave a command
before the first configuration was there or while an apply that was left runs.

### ServiceOps

`containers`, `up` and `dirs` are what the servers have. An actor is the
terminal UI or a command; `phase`, `basis` (the configuration it works with),
`found` (orphans), `visits` (connections to make) and `here` (what is left to do
over the open one) are its place in the code. `asked` is what the marks, the ticks
or the flags of the command line name, `targets` what the code made of them and
shows for confirmation, `touched` and `answers` what was done and reported. For a
command the first two are not the same: `Named` follows the documentation of the
flags, `CollectTargetServices` the code.

| Code | Action |
|---|---|
| `handleSpace`, `handleSelectCurrent`, `handleSelectAll` | `Space`, `SelectCurrent`, `SelectAll` |
| ticks of the orphan list | `Tick` |
| `fetchServiceStatusAsync`, `scanOrphanServicesAsync`, refresh | `OpenServices`, `OpenCleanup`, `Refresh` |
| `service stop`, `restart`; `service cleanup`, `clean` | `RunService`; `RunCleanup` |
| listing the orphans of a server | `ScanServer`, `ScanFails`, `ScanDone` |
| confirmation | `Ask`, `Confirm`, `Back`; `Approve` for commands |
| dialling; one remote command; the end of the loop | `Connect`; `Run`; `Finish` |
| others | `EditConfig`, `DeployElsewhere` |

A server's containers and directories are listed in one step. Names of services
are taken to be distinct (`ServiceAssumption`). The stop and restart views are
opened over the tree of services.

### HostSetup

`sources` and `backups` are `/etc/apt/sources.list` and its `.bak` files, `root`
and `user` the registries root and the SSH user are logged in to. A run takes its
servers in turn: `Begin`, `Connect`, then for a check `CheckHost`,
`CheckRegistries`, `Checked`, and for a sync `Backup`, `Upload`, `Rollback`,
`Update`, `ListNetworks`, `CreateNetwork`, `NetworksDone`, `SyncRegistry`,
`SyncDone`. A backup's file name has the time to the second, so `Copied` either
makes a new backup or overwrites the last one; `overwritten` is the set of servers
where other contents were lost in this way. The administrator (`EditSources`,
`LogInByHand`) edits no sources while a sync replaces them.

## Runs

| Run | Instance | Shows |
|---|---|---|
| `reconcile` | worlds that vary entities without a server, and worlds that vary services on two servers in two zones; nine scopes, force and DNS-only among them | `ReplanIsRest`, `WholeRunConverges`, `ServerRunsPartition` |
| `deploy_gateway` | one server, one business service with a route, one gateway, two values of each part; 2 runs, 1 edit | `QuietMeansUploaded`, `SuccessReplacesContainer`, `SaveMeansUploaded` |
| `deploy_shared` | two servers, one service that may move; second operator, who writes file by file; server scope; 2 runs, 1 edit, 1 stop | `RunsWhatWasAssigned`, `ScopeIsRespected`, `ConfirmedRunEnds` |
| `state_file` | two processes, two values | `RenamesItsOwn`, `LockIsReleased`, `IsARegister` |
| `ssh_pool` | two callers, three entries of two hosts, three connections | `NothingLeaks`, `OneConnectionPerHost`, `CallsReturn` |
| `dns` | a domain whose provider lists pages of two relative names and one at Cloudflare, three files, three initial zones, ttl given or not; two commands or a command and an edit | `QuietMeansServed`, `RepeatIsQuiet`, `RemovesOnlyUnconfigured`, `PullTakesOver`, `EnsureAddsOne` |
| `tui` | two commands beside the first load, two confirmed applies, plans of up to two changes | `OneAtATime`, `OnlyConfirmedIsApplied`, `ShownIsMeant`, `AlwaysAnswers` |
| `service_ops` | two servers, an edit, one way or the other, that moves a service to the empty one and drops a gateway, a container of another environment and a directory by hand; the terminal UI and one command | `ParentsShowChildren`, `ActsOnWhatWasShown`, `CleanupSparesServices` |
| `host_setup` | two servers, one without Docker and with a template that does not exist, two registries of which one's URL is part of the other's; two runs | `OriginalKept`, `HalfWrittenIsRestored`, `NetworksAreThereOrReported`, `SyncedChecksOut` |
| `deploy_edited` | finds `DifferenceIsPlanned` violated | see Findings |
| `deploy_mounted` | finds `SyncedBeforeStart` violated | see Findings |
| `service_deploy` | finds `DeploysTheServices` violated | see Findings |

Bounds. `MaxRuns` = 2: what one run leaves behind matters to the next one only
through the hosts, and every state a first run can leave them in is reached;
`MaxEdits` = 1 edit at any point, before, between or during the runs, gives the
configuration of the second run any value; `MaxStops` = 1 container stops.
`deploy_gateway` leaves stops to `deploy_shared`, where the second operator
plans as often as it likes. Two processes are enough for
every pair of steps in `StateFile` to interleave; three connections let a closed
one be replaced while its user still holds it. In `dns`, two turns are a plan and a repeated one, or
an edit at any point of a command; `MaxId` = 6 and pages of two let a page be
full and overflow. In `tui`, two jobs beside the load let one message be late
while another command runs, and two applies let the ticks of one meet the
other. In `service_ops`, `MaxLoads` = 2 lists each server twice, two jobs are the
terminal UI beside a command or one after another, and one edit or deployment
falls anywhere between a scan and a removal; one command fails. There
`CleanupSparesServices` holds a removal against the configuration its cleanup has
loaded; that this may be out of date is what `MCServiceOpsStale.cfg` shows, with an edit
and a deployment. In `host_setup`
two failed commands are an upload and its rollback; its two runs are
interchangeable, and only invariants are checked there, so symmetry is sound.
The proofs need none of these bounds. `CHECK_DEADLOCK FALSE` stands where the
bounds run out or the operator may stop; elsewhere deadlock is checked.

Fairness. `Deploy` and `SSHPool` assume it only of what the program does by
itself: no fairness of a remote command or a dial, because the SSH client sets
no deadline beyond the TCP connection. So `ConfirmedRunEnds` and `CallsReturn`
say what holds when none hangs for ever. `SF` in `SSHPool` is that of
`sync.RWMutex`, which starves neither side. `StateFile` assumes that a process
that has the lock goes on or dies: its steps are local file operations.
`TerminalUI` assumes only `Background`: every goroutine bubbletea has started
sends its message and every timer fires. The operator owes nothing. That a
remote command comes to an end is part of this assumption; one that hangs keeps
the interface locked.

## Findings

- `deploy_edited`: `README.md:735` calls UPDATE the change of a resource whose
  configuration differs. Only compose files are compared
  (`application/orchestrator/state_fetcher.go:128`). TLC's shortest trace has no
  edit at all: the upload of the compose file fails after `mv`, the `.env` file
  is never uploaded, and the next plan has nothing to do.
- `deploy_mounted`: `docs/cli-reference.md:554` has the files synchronised before
  the container starts. `gateway.yml` is uploaded by the hook after it
  (`application/handler/infra_service_handler.go:119`), although the compose file
  mounts it (`application/deployment/compose_infra.go:76`).
- `service_deploy`: `docs/cli-reference.md:527` has `service deploy` deploy all
  services, and `:533` the business service named. Without `--infra` the list of
  names is one empty name (`interfaces/cli/service_cmd.go:94`), which limits the
  scope to infrastructure services of no name: nothing is planned.

More disagreements have a configuration of their own beside the runs. Each checks
one property, stated from the document, and TLC finds it violated in seconds (`tlc
-config MCDeployRaced.cfg MCDeploy`; the module's name is the first part of the
configuration's).

- `MCDeployRaced.cfg` (`UpdateIsPlanned`): `README.md:735` again. A run compares the
  hosts with whatever the deployments directory holds when it reads it
  (`state_fetcher.go:122`). Another plan that loaded an older configuration can
  empty and rewrite the directory in between; the host then equals its file, and the
  change is planned for nothing.
- `MCDeployElsewhere.cfg` (`SuccessIsUploaded`): `--config`
  (`docs/cli-reference.md:10`, `:64`) may name another directory than the working
  one. The files are generated under the working directory
  (`application/plan/planner.go:62`) and looked for under the other
  (`application/handler/service_common.go:95`); one that is not there is skipped
  (`:116`), and the deployment is a success (against `:554`).
- `MCDNSRecordsValues.cfg` (`EveryValueIsServed`): `docs/system-design.md:1002` and
  the validator (`domain/service/validator.go:239`) allow records that differ in
  their value alone. The differ keys them by domain, type and name
  (`domain/service/differ_records.go:12`): of two only the last is ever planned for.
- `MCDNSRecordsCreate.cfg` (`CreatesTheAbsent`): `README.md:734` calls CREATE the
  change of a resource that does not exist. `dns plan` and `dns apply`
  (`interfaces/cli/dns.go:94`, `:115`) never list the provider's records and create
  all of the configuration; the terminal interface takes a listing that failed for
  an empty one (`interfaces/cli/tui_tree.go:328`).
- `MCHostSetupLogin.cfg` (`SyncedIsLoggedIn`): `docs/cli-reference.md:280` has `env
  sync` log the server in to its registries. It passes over those the SSH user is
  logged in to (`environment/syncer.go:184`), the check reads root's logins
  (`environment/checker.go:194`).
- `MCServiceOpsNamed.cfg` (`ActsOnTheNamed`): `service stop --biz x` and `service
  restart --biz x` (`docs/cli-reference.md:570`, `:601`) also take all
  infrastructure services, since each flag is tested on its own kind only
  (`interfaces/cli/service_cmd.go:330`).
- `MCServiceOpsServer.cfg` (`CleansTheNamedServer`): `service cleanup --server`
  (`docs/cli-reference.md:629`) removes the orphans of every server: the scan is not
  given the flag (`interfaces/cli/service_cmd.go:259`).
- `MCServiceOpsStale.cfg` (`RemovesOrphans`): a cleanup removes what is not in the
  configuration (`docs/cli-reference.md:645`), but looks at the configuration as it
  was before the scan: a service added and deployed before the confirmation is
  removed.

Further differences between documents and code that were met while modelling:
`service deploy` carries out its whole plan, its filters only decide what is shown,
and does not recreate a service that has not changed; registries are never handed to
the handlers (`application/usecase/change_executor.go:124`), so the automatic login
of `docs/system-design.md:262` does not take place; `env sync` does not install
Docker (against `docs/cli-reference.md:277`); the sources it uploads for `tencent`
are not recognised by the check (`environment/checker.go:222`).

Weaknesses that no document speaks of, and that the properties leave out by name:
two backups of one second are one file, so two syncs of a server can lose the
administrator's package sources (`overwritten` in `OriginalKept`); with two backups
the rollback copies nothing (`HalfWrittenIsRestored` asks for one); an operator who
leaves the view of a running apply can have its result, its ticks or a plan that
arrives meanwhile meet the next apply (`hasty` in `OneAtATime`,
`OnlyConfirmedIsApplied` and `ShownIsMeant`).

## Proofs

All theorems are of the form `Spec => []P` (or a refinement), for all sets of
services, servers, processes, callers, records and worlds, under the `ASSUME`s of
the modules only: names of different kinds are distinct, bounds are naturals, and
what is configured or listed at first has the shape the loader or a provider
gives it (`WorldsAssumption`, `FilesAssumption`, `ZonesAssumption`). No proof
needs a bound on the number of runs, edits, commands or entries to be small.

- `DeployProofs`. `TypeCorrect` by `TypeInv` = `TypeOK` with `ComposeThere`: a
  container is started only when a compose file is there, without which a
  running container's type could not be kept. `QuietPlanIsTrue`
  (`QuietMeansUploaded`), while nobody else writes the deployments directory:
  `Fresh` says that the directory holds the files of the loaded configuration, as
  far as they are written and all of them when the hosts are observed; `Compared` that what was seen to be the same is on
  its host, step by step of the observation (`ComparedStep`); `PlanIs` what a plan
  is for any configuration and any failed lookups, from `FetchIs`, `ServicePlanIs`
  and `InfraPlanIs`; `CarryTouches` that a command touches only the service of its change, which
  is planned, hence not quiet. `OnlyAssignedRuns` (`RunsWhatWasAssigned`) by
  `AssignedInv`, which adds the loaded configuration, the files on disk and the
  files on hosts to what runs. `RunStaysInScope` (`ScopeIsRespected`) because
  every server of a plan passes the filters (`PlanInScope`).
  `SuccessIsNew` (`SuccessReplacesContainer`) and
  `SavedIsThere` (`SaveMeansUploaded`) by `RunInv`, in three parts: `Books`, where
  each change of the plan is (to do, being carried out, or with a result);
  `Fresh`; `Content`,
  what the commands of the current change have put on its host so far
  (`SoFar`), and what a success left there (`Uploads`). None is enough alone: a
  later change could undo a success unless a service has one change at most,
  and a command uploads the right file only while nobody else writes it.
  `SavedIsThere` needs `QuietMeansUploaded` as well, for the services the run
  left alone.
- `StateFileProofs`. `TypeCorrect`, `SavesItsOwn`, and `FileIsRegister`: every
  step of the store is a step of `StateRegister` or a stutter. The invariant says
  who holds the lock and what the temporary file then holds.
- `SSHPoolProofs`. `TypeCorrect` (mutual exclusion of the lock is part of it),
  `PoolKeepsAll` (`NothingLeaks`), `OnePerHost` (`OneConnectionPerHost`).
- `HostSetupProofs`. `TypeCorrect`, `SourcesAreKept` (`OriginalKept`) and
  `HalfWrittenIsPutBack` (`HalfWrittenIsRestored`), on the servers where no backup
  was overwritten. The latter two are not inductive: `BackedUp` says that a run about to replace the sources has a backup
  of what the administrator left, and `HalfWritten` that half-written sources
  have a rollback ahead of them, or behind them a second failure or a second
  backup. `SyncIsWhatACheckSees` (`SyncedChecksOut`): `SoFarSoGood` says of every
  step of a sync what the steps before it have left on the server, `Alone` that a
  server that is going to count as synced has nobody else at work on it, and
  `Located` where a run stands among its servers. `NetworksAreAccountedFor`
  (`NetworksAreThereOrReported`) needs no such thing: networks are never removed,
  so it holds with any number of runs on one server.
- `ServiceOpsProofs`. `SelectionIsShown` (`ParentsShowChildren`): a key breaks the
  relation at most at the parent of its node (`BelowShows`), and following once
  at the parent and once at its parent repairs it (`ParentsFollow`), because a
  tree has three levels. `ServicesAreSpared` (`CleanupSparesServices`): `CleanInv`
  carries the fact that an orphan is none of the services of the actor's `basis`
  from the list (`ScanFindsOrphans`) through positions and ticks
  (`ItemsAreOrphans`) and connections (`VisitsToOrphans`) to the command that
  removes it. `TypeCorrect`, and `ActsAsShown` (`ActsOnWhatWasShown`) by two facts
  about every actor: `Account`, that each task that was shown is at
  hand, ahead in a visit, or answered for; and `Stage`, in which phases of which
  operation nothing has been asked yet. The list shown is one concatenation and
  the ticks are looked up by sums, server by server: `ListedIs` says that both
  count alike, from which `TickedVisitsAre` has it that the visits are to the items
  that were ticked and to no others, and `MarkedVisitsAre` and `TargetVisitsAre`
  the same of services.
- `ReconcileProofs`. The differs are one operator for services and one for
  everything else, and `RepeatableRun` (`ReplanIsRest`) rests on one fact about
  each (`ChangesRest`): carrying out a change of a plan takes that change out of
  the plan made anew and touches no other, because a plan has one change of an
  entity at most and what a change does to the state is seen by its own name
  alone. `WholeRun` (`WholeRunConverges`) follows: with nothing left to plan in
  the empty scope the state is what is desired, kind by kind.
  `ServersShareTheWork` (`ServerRunsPartition`): the filters let a change through
  for exactly one server, the old one of what is deleted.
- `TerminalUIProofs`. `TypeCorrect`, `OneThing` (`OneAtATime`),
  `AppliesWhatWasConfirmed` (`OnlyConfirmedIsApplied`), `ShowsWhatWasMeant`
  (`ShownIsMeant`). `Patient` says, for an operator who waits, which jobs and
  ticks go with which view and whose plan they hold; `Ended` that a program which
  has panicked or was quit works on nothing.
- `DNSRecordsProofs`. `QuietIsServed` (`QuietMeansServed`) by `Seen`, what a
  plan's listing was, and `Fresh`, that nothing has changed since.
  `OnlyUnconfiguredGoes` (`RemovesOnlyUnconfigured`) adds that names stay while
  they are planned to (`NamesStay`) and that what a handler has looked up is of
  the name of its change (`Found`). `ApplyIsEnough` (`RepeatIsQuiet`) by `Course`,
  what is true of each record before, while and after its change is carried out.
  `EnsuresTheRecord` (`EnsureAddsOne`) bounds the entries of each attempt by the
  answers lost so far. `PullMakesTrue` (`PullTakesOver`) by `PullSeen` and
  `TakenOver`. What a pull saves is the concatenation of one short sequence per
  listed or kept record, whose members are known only by induction on their
  number; the induction theorems of the library take an operator, so
  `SetInduction` has it for a set of numbers instead, from the well-foundedness
  of `<` on the naturals, and `FlattenMembers` says what such a concatenation
  has. `ServiceOpsProofs` uses the same for its lists and sums.

Two properties of `DNSRecords` were wider than the code keeps them, outside the
sizes that are model-checked, and their proofs did not go through until they
were corrected. `RepeatIsQuiet` asked that the names fit the first page before
the run; but what a run creates first can push what it is still to update off
the page, where the update does not find it and makes it a second time, so the
names before and those configured have to fit together. `PullTakesOver` did not
exclude a provider that has one value of a name twice, and took the list of
domains for all of them where it is a page.

Only model-checked: the liveness properties (`ConfirmedRunEnds`, `LockIsReleased`,
`CallsReturn`, `AlwaysAnswers`), because liveness under fairness is beyond the
prover. The properties of the findings are not theorems, because the code violates
them; that is the only kind `ServiceDeploy` has, so it has no proof module.

## Not modelled

- Configuration and validation: one pass over loaded files, without state or
  order. What the models need of it is in their `ASSUME`s; `NamesAssumption` and
  `ServiceAssumption` ask for distinct names, which the validator does not
  enforce.
- The generators of YAML, logging and the drawing of views: text.
- Apply workflow: `DeleteServiceRemote` (a plan made from the fetched state never
  holds a deletion, see `README.md:736`), the restart handler, the SSL type of
  infra service, registry logins (a failing `Prepare` covers them),
  `Planner.LoadState` and `SaveState`, which no command calls.
- `FileStore` values are opaque: `Save` writes no records of its own and `Load`
  derives them from the domains, which is where `SaveState` takes them from.
- SSH client: known hosts, `StreamRun`, `NewClientWithRetry` (unused; it would not
  retry, since the error it looks at has lost its cause).
- The pool hands out a connection that broke until `CloseAll`: a failing command
  in `Deploy`. File contents are compared by a 32-bit hash: collisions are left
  out.
- DNS: the batch helpers (unused), the values of a record type, the lengths of
  the delays of a retry.
- `server_handler.go` and the registry manager, which no path reaches with
  anything to do.
- Terminal UI: cursors, scrolling, drawing; the stop and restart views over the
  DNS tree; that an old error message hides the result of a scan is a transition
  (`OrphansScanned`), what it hides of a list is not.

## Plan

1. Done: all modules above; theorems for every safety property of the passing runs.
2. Next, proofs: that a plan of `ServiceDeploy` deploys the services once its filter
   has no empty name; the refinement of a second abstract specification, that of
   a deployment as one step on its host.
