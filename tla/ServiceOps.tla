----------------------------- MODULE ServiceOps -----------------------------
(***************************************************************************)
(* Stopping, restarting and cleaning up what runs on the servers: by the   *)
(* terminal interface, where services are marked in a tree of zones,       *)
(* servers and services and orphans are ticked in a list, and by the       *)
(* commands "service stop", "service restart", "service cleanup" and       *)
(* "clean".  Each first works out what to do, on which server, and then    *)
(* goes from server to server; every connection and every remote command   *)
(* may fail, the latter with or without its effect.  Meanwhile others edit *)
(* the configuration and deploy its services.                              *)
(***************************************************************************)
EXTENDS Naturals, Sequences, FiniteSets, SequencesExt

CONSTANTS
  Zone,
  Server,
  zone,         \* zone[v]: the zone of server v
  Service,      \* a service on a server, as some configuration has it
  name,         \* name[s]: its name, also that of its container and directory
  kind,         \* kind[s]: "biz" or "infra"
  server,       \* server[s]: its server
  Config,       \* the configurations there may be
  Resource,     \* the names of containers and directories
  Prefixed,     \* those that begin with yo-<env>-, be it that of a longer <env>
  foreign,      \* <<v, what, r>>: the containers and directories from elsewhere
  Command,      \* the commands that may run at the same time
  MaxLoads,     \* bound: times the interface has loaded the configuration
  MaxJobs,      \* bound: operations begun
  MaxChanges,   \* bound: edits of the configuration and deployments by others
  MaxFailures,  \* bound: connections and commands that fail
  None

Tui == "tui"
Actor == {Tui} \cup Command

\* The names of the services of a configuration are taken to be different, and
\* None of them is the name of something else.
ASSUME ServiceAssumption ==
  /\ zone \in [Server -> Zone]
  /\ name \in [Service -> Prefixed] /\ kind \in [Service -> {"biz", "infra"}]
  /\ server \in [Service -> Server]
  /\ IsFiniteSet(Server) /\ IsFiniteSet(Resource) /\ Prefixed \subseteq Resource
  /\ foreign \subseteq Server \X {"container", "dir"} \X Resource
  /\ Config \subseteq SUBSET Service
  /\ \A c \in Config : \A s, t \in c : name[s] = name[t] => s = t
  /\ Zone \cap Server = {} /\ Zone \cap Service = {} /\ Server \cap Service = {}
  /\ None \notin Zone \cup Server \cup Service \cup {"stop", "restart", "cleanup", "clean"}
  /\ Tui \notin Command
  /\ MaxLoads \in Nat \ {0} /\ {MaxJobs, MaxChanges, MaxFailures} \subseteq Nat

VARIABLES
  config,      \* the services of the configuration on disk
  containers, up, dirs,  \* <<v, r>>: the containers of server v, those of them
                         \* that run, and the directories under the base directory
  loaded,      \* the configuration the interface has loaded
  loads,       \* how often, and so how often each server is in ServerList
  marked,      \* the nodes of the tree that are selected
  ticked,      \* the positions of the list of orphans that are selected
  op,          \* op[a]: "stop", "restart", "cleanup" or "clean"
  phase,       \* phase[a]: what actor a is at
  basis,       \* basis[a]: the configuration that a works out its tasks with
  toScan,      \* toScan[a]: the servers whose orphans are still to be found, in order
  found,       \* found[a]: the orphans found, server by server
  visits,      \* visits[a]: the connections still to be made
  here,        \* here[a]: the tasks of the connection that is open
  asked,       \* asked[a]: the tasks that the operator's marks, ticks or flags name
  targets,     \* targets[a]: the tasks that the program has selected and shown
  touched,     \* touched[a]: the tasks that were carried out
  answers,     \* answers[a]: the tasks that were reported on, with how
  jobs, changes, failures

hosts == <<containers, up, dirs>>
screen == <<loaded, loads, marked>>
plan == <<op, basis, toScan, found, ticked>>
work == <<visits, here, asked, targets, touched, answers>>
vars == <<config, hosts, screen, plan, phase, work, jobs, changes, failures>>

\* A task: what is to be done with which name on which server.
Task == Server \X {"service", "container", "dir"} \X Resource
Names(c) == {name[s] : s \in c}
At(s) == <<server[s], name[s]>>
ServiceTask(s) == <<server[s], "service", name[s]>>

-----------------------------------------------------------------------------
(* The tree.                                                                *)

Nodes(c) == Zone \cup Server \cup c
Parent(n) == CASE n \in Service -> server[n] [] n \in Server -> zone[n] [] OTHER -> None
Children(n, c) == {m \in Nodes(c) : Parent(m) = n}
Below(n, c) ==
  {n} \cup Children(n, c) \cup UNION {Children(m, c) : m \in Children(n, c)}

SelectRecursive(m, n, selected, c) == IF selected THEN m \cup Below(n, c) ELSE m \ Below(n, c)

\* A node with children is selected when all of them are.
Follows(m, n, c) == IF Children(n, c) \subseteq m THEN m \cup {n} ELSE m \ {n}

\* A mutant of UpdateParentSelection: it stops at the parent.
UpdateOneParent(m, n, c) == IF Parent(n) = None THEN m ELSE Follows(m, Parent(n), c)

UpdateParentSelection(m, n, c) ==
  LET p == Parent(n)
      once == Follows(m, p, c) IN
  IF p = None THEN m
  ELSE IF Parent(p) = None THEN once ELSE Follows(once, Parent(p), c)

SelectedLeaves(m, c) == {n \in m : Children(n, c) = {}}
MarkedServices == SelectedLeaves(marked, loaded) \cap Service

Selecting == phase[Tui] = "select"
UnchangedButMarks == UNCHANGED <<config, hosts, loaded, loads, plan, phase, work, jobs,
                                 changes, failures>>

\* Space: only at a node without children, which may be an empty server.
Space(n) ==
  /\ Selecting /\ Children(n, loaded) = {}
  /\ marked' = UpdateParentSelection(
       IF n \in marked THEN marked \ {n} ELSE marked \cup {n}, n, loaded)
  /\ UnchangedButMarks

SelectCurrent(n, selected) ==
  /\ Selecting
  /\ marked' = UpdateParentSelection(SelectRecursive(marked, n, selected, loaded), n, loaded)
  /\ UnchangedButMarks

SelectAll(selected) ==
  /\ Selecting
  /\ marked' = IF selected THEN Nodes(loaded) ELSE {}
  /\ UnchangedButMarks
-----------------------------------------------------------------------------
(* Orphans: what carries the prefix and is no service's.                    *)

IsOrphan(r, c) == r \in Prefixed /\ r \notin Names(c)

\* What may be asked to be removed from some servers.
Orphans(servers, c) ==
  {t \in servers \X {"container", "dir"} \X Resource : IsOrphan(t[3], c)}

\* A mutant of OrphansAt: the infrastructure services are forgotten.
OrphansAtBiz(v, c) ==
  [server |-> v,
   containers |-> SetToSeq({r \in Resource : <<v, r>> \in containers
                              /\ IsOrphan(r, {s \in c : kind[s] = "biz"})}),
   dirs |-> SetToSeq({r \in Resource : <<v, r>> \in dirs
                        /\ IsOrphan(r, {s \in c : kind[s] = "biz"})})]

OrphansAt(v, c) ==
  [server |-> v,
   containers |-> SetToSeq({r \in Resource : <<v, r>> \in containers /\ IsOrphan(r, c)}),
   dirs |-> SetToSeq({r \in Resource : <<v, r>> \in dirs /\ IsOrphan(r, c)})]

Size(result) == Len(result.containers) + Len(result.dirs)

\* A mutant of StartIndex: the directories are not counted.
StartIndexOfContainers(results, i) ==
  LET start[j \in 1..(Len(results) + 1)] ==
        IF j = 1 THEN 0 ELSE start[j - 1] + Len(results[j - 1].containers)
  IN start[i]

\* Where the items of a server begin in the list of all.
StartIndex(results, i) ==
  LET start[j \in 1..(Len(results) + 1)] ==
        IF j = 1 THEN 0 ELSE start[j - 1] + Size(results[j - 1])
  IN start[i]
CountItems(results) == StartIndex(results, Len(results) + 1)

\* A mutant of AllTicked: one more than there are.
AllTickedAndOne(results) == 0..CountItems(results)

\* The list is shown with every item selected.
AllTicked(results) == 0..(CountItems(results) - 1)

ItemOf(result, k) ==
  IF k < Len(result.containers)
    THEN <<result.server, "container", result.containers[k + 1]>>
    ELSE <<result.server, "dir", result.dirs[k + 1 - Len(result.containers)]>>
Items(result) == {ItemOf(result, k) : k \in 0..(Size(result) - 1)}

\* The list as it is shown: one item after another.
Listed(results) ==
  FlattenSeq([i \in DOMAIN results |->
               [k \in 1..Size(results[i]) |-> ItemOf(results[i], k - 1)]])

\* The items of a server that are ticked.
TickedItems(i) ==
  {ItemOf(found[Tui][i], k) :
     k \in {j \in 0..(Size(found[Tui][i]) - 1) : StartIndex(found[Tui], i) + j \in ticked}}
-----------------------------------------------------------------------------
(* A visit: the tasks of one connection, and the items that are reported as *)
(* failed when it cannot be made.                                           *)

Visit(tasks, items) == [tasks |-> tasks, items |-> items]

\* The terminal interface adds the servers to ServerList each time it loads.
ServerList(k) ==
  LET list == SetToSeq(Server) IN
  [i \in 1..(k * Len(list)) |-> list[((i - 1) % Len(list)) + 1]]

\* It takes the marked services server by server, as often as ServerList has it.
MarkedVisits ==
  LET marks(v) == {ServiceTask(s) : s \in {t \in MarkedServices : server[t] = v}}
      visit(v) == IF marks(v) = {} THEN <<>> ELSE <<Visit(marks(v), marks(v))>>
      list == ServerList(loads) IN
  FlattenSeq([i \in DOMAIN list |-> visit(list[i])])

TickedVisits ==
  [i \in DOMAIN found[Tui] |-> Visit(TickedItems(i), Items(found[Tui][i]))]

\* A command connects once for each service, and once for each server that has
\* orphans.
TargetVisits(tasks) == SetToSeq({Visit({t}, {t}) : t \in tasks})
OrphanVisits(results) ==
  [i \in DOMAIN results |-> Visit(Items(results[i]), Items(results[i]))]

\* --biz leaves the infrastructure services in, and --infra the others.
CollectTargetServices(c, filters) ==
  {s \in c : /\ filters.server \in {None, server[s]}
             /\ kind[s] = "biz" => filters.biz \in {None, name[s]}
             /\ kind[s] = "infra" => filters.infra \in {None, name[s]}}

\* What the flags name: without --biz and --infra every service, with them only
\* those they say (docs/cli-reference.md:570,602).
Named(c, filters) ==
  {s \in c : /\ filters.server \in {None, server[s]}
             /\ \/ filters.biz = None /\ filters.infra = None
                \/ kind[s] = "biz" /\ name[s] = filters.biz
                \/ kind[s] = "infra" /\ name[s] = filters.infra}
Filters == [server : Server \cup {None},
            biz : Names({s \in Service : kind[s] = "biz"}) \cup {None},
            infra : Names({s \in Service : kind[s] = "infra"}) \cup {None}]
-----------------------------------------------------------------------------
Foreign(what) == {<<x[1], x[3]>> : x \in {y \in foreign : y[2] = what}}

Init ==
  /\ config \in Config
  /\ containers = Foreign("container") \cup {At(s) : s \in config}
  /\ up = containers
  /\ dirs = Foreign("dir") \cup {At(s) : s \in config}
  /\ loaded = config /\ loads = 1 /\ marked = {} /\ ticked = {}
  /\ op = [a \in Actor |-> None] /\ phase = [a \in Actor |-> "idle"]
  /\ basis = [a \in Actor |-> {}] /\ toScan = [a \in Actor |-> <<>>]
  /\ found = [a \in Actor |-> <<>>] /\ visits = [a \in Actor |-> <<>>]
  /\ here = [a \in Actor |-> {}]
  /\ asked = [a \in Actor |-> {}] /\ targets = [a \in Actor |-> {}]
  /\ touched = [a \in Actor |-> {}] /\ answers = [a \in Actor |-> {}]
  /\ jobs = 0 /\ changes = 0 /\ failures = 0

\* Others.
EditConfig ==
  /\ changes < MaxChanges /\ changes' = changes + 1
  /\ config' \in Config \ {config}
  /\ UNCHANGED <<hosts, screen, plan, phase, work, jobs, failures>>

DeployElsewhere(s) ==
  /\ s \in config /\ At(s) \notin up \cap dirs
  /\ changes < MaxChanges /\ changes' = changes + 1
  /\ containers' = containers \cup {At(s)} /\ up' = up \cup {At(s)}
  /\ dirs' = dirs \cup {At(s)}
  /\ UNCHANGED <<config, screen, plan, phase, work, jobs, failures>>

Fails(o) == failures' = failures + (IF o = "done" THEN 0 ELSE 1) /\ failures' <= MaxFailures
Starts(a) == phase[a] = "idle" /\ jobs < MaxJobs /\ jobs' = jobs + 1
Goto(a, p) == phase' = [phase EXCEPT ![a] = p]
-----------------------------------------------------------------------------
(* The terminal interface.  While it is at work it takes no key.            *)

\* "r" in any view: the trees are built anew, and the list of orphans stays.
Refresh ==
  /\ phase[Tui] \notin {"scan", "work"} /\ loads < MaxLoads
  /\ loaded' = config /\ loads' = loads + 1 /\ marked' = {}
  /\ UNCHANGED <<config, hosts, plan, phase, work, jobs, changes, failures>>

\* The states of the services are fetched and the tree is built anew.
OpenServices(o) ==
  /\ Starts(Tui) /\ Goto(Tui, "select")
  /\ op' = [op EXCEPT ![Tui] = o] /\ marked' = {}
  /\ UNCHANGED <<config, hosts, loaded, loads, basis, toScan, found, ticked, work,
                 changes, failures>>

OpenCleanup ==
  /\ Starts(Tui) /\ Goto(Tui, "scan")
  /\ op' = [op EXCEPT ![Tui] = "cleanup"] /\ basis' = [basis EXCEPT ![Tui] = loaded]
  /\ toScan' = [toScan EXCEPT ![Tui] = ServerList(loads)]
  /\ UNCHANGED <<config, hosts, screen, found, ticked, work, changes, failures>>

\* Even of an empty list the first position can be ticked.
Tick(k) ==
  /\ phase[Tui] = "list" /\ k \in {0} \cup 0..(CountItems(found[Tui]) - 1)
  /\ ticked' = IF k \in ticked THEN ticked \ {k} ELSE ticked \cup {k}
  /\ UNCHANGED <<config, hosts, screen, op, basis, toScan, found, phase, work, jobs,
                 changes, failures>>

Ask ==
  /\ \/ Selecting /\ SelectedLeaves(marked, loaded) # {}
     \/ phase[Tui] = "list" /\ ticked # {}
  /\ Goto(Tui, "confirm")
  /\ UNCHANGED <<config, hosts, screen, plan, work, jobs, changes, failures>>

Confirm ==
  /\ phase[Tui] = "confirm" /\ Goto(Tui, "work")
  /\ IF op[Tui] = "cleanup"
       THEN LET list == Listed(found[Tui]) IN
            /\ targets' = [targets EXCEPT ![Tui] =
                 {list[k + 1] : k \in ticked \cap 0..(Len(list) - 1)}]
            /\ visits' = [visits EXCEPT ![Tui] = TickedVisits]
       ELSE /\ targets' = [targets EXCEPT ![Tui] = {ServiceTask(s) : s \in MarkedServices}]
            /\ visits' = [visits EXCEPT ![Tui] = MarkedVisits]
  /\ asked' = [asked EXCEPT ![Tui] = targets'[Tui]]
  /\ UNCHANGED <<config, hosts, screen, plan, here, touched, answers, jobs, changes, failures>>

Back ==
  /\ phase[Tui] = "confirm"
  /\ Goto(Tui, IF op[Tui] = "cleanup" THEN "list" ELSE "select")
  /\ UNCHANGED <<config, hosts, screen, plan, work, jobs, changes, failures>>
-----------------------------------------------------------------------------
(* The commands.  One without services or orphans ends at once.             *)

RunService(a) ==
  /\ a \in Command /\ Starts(a) /\ Goto(a, "confirm")
  /\ \E o \in {"stop", "restart"}, filters \in Filters :
       LET tasks == {ServiceTask(s) : s \in CollectTargetServices(config, filters)} IN
       /\ tasks # {}
       /\ op' = [op EXCEPT ![a] = o]
       /\ asked' = [asked EXCEPT ![a] = {ServiceTask(s) : s \in Named(config, filters)}]
       /\ targets' = [targets EXCEPT ![a] = tasks]
       /\ visits' = [visits EXCEPT ![a] = TargetVisits(tasks)]
  /\ basis' = [basis EXCEPT ![a] = config]
  /\ UNCHANGED <<config, hosts, screen, toScan, found, ticked, here, touched, answers,
                 changes, failures>>

\* "service cleanup" has a flag --server, which is not looked at again; "clean"
\* has none.
RunCleanup(a) ==
  /\ a \in Command /\ Starts(a) /\ Goto(a, "scan")
  /\ \E request \in {<<"clean", Server>>} \cup
                     {"cleanup"} \X ({Server} \cup {{v} : v \in Server}) :
       /\ op' = [op EXCEPT ![a] = request[1]]
       /\ asked' = [asked EXCEPT ![a] = Orphans(request[2], config)]
  /\ basis' = [basis EXCEPT ![a] = config]
  /\ toScan' = [toScan EXCEPT ![a] = ServerList(1)]
  /\ UNCHANGED <<config, hosts, screen, found, ticked, visits, here, targets, touched,
                 answers, changes, failures>>

Approve(a) ==
  /\ a \in Command /\ phase[a] = "confirm" /\ Goto(a, "work")
  /\ UNCHANGED <<config, hosts, screen, plan, work, jobs, changes, failures>>
-----------------------------------------------------------------------------
(* The scan.  One server that cannot be scanned ends it, but not "clean",    *)
(* which removes what it finds on a server before it scans the next.         *)

ScanServer(a) ==
  /\ phase[a] = "scan" /\ toScan[a] # <<>>
  /\ LET result == OrphansAt(Head(toScan[a]), basis[a]) IN
     IF Size(result) = 0
       THEN UNCHANGED <<found, phase, targets, visits>>
       ELSE IF op[a] = "cleanup"
       THEN /\ found' = [found EXCEPT ![a] = Append(@, result)]
            /\ UNCHANGED <<phase, targets, visits>>
       ELSE /\ targets' = [targets EXCEPT ![a] = @ \cup Items(result)]
            /\ visits' = [visits EXCEPT ![a] = OrphanVisits(<<result>>)]
            /\ Goto(a, "work") /\ UNCHANGED found
  /\ toScan' = [toScan EXCEPT ![a] = Tail(@)]
  /\ UNCHANGED <<config, hosts, screen, op, basis, ticked, here, asked, touched, answers,
                 jobs, changes, failures>>

ScanFails(a) ==
  /\ phase[a] = "scan" /\ toScan[a] # <<>> /\ Fails("refused")
  /\ IF op[a] = "clean"
       THEN toScan' = [toScan EXCEPT ![a] = Tail(@)] /\ UNCHANGED <<found, phase, op>>
       ELSE /\ toScan' = [toScan EXCEPT ![a] = <<>>] /\ found' = [found EXCEPT ![a] = <<>>]
            /\ Goto(a, "idle") /\ op' = [op EXCEPT ![a] = None]
  /\ UNCHANGED <<config, hosts, screen, basis, ticked, work, jobs, changes>>

ScanDone(a) ==
  /\ phase[a] = "scan" /\ toScan[a] = <<>>
  /\ IF a = Tui
       THEN /\ Goto(a, "list") /\ ticked' = AllTicked(found[a])
            /\ UNCHANGED <<targets, visits>>
       ELSE /\ Goto(a, IF found[a] = <<>> THEN "over" ELSE "confirm")
            /\ targets' = [targets EXCEPT ![a] = @ \cup Range(Listed(found[a]))]
            /\ visits' = [visits EXCEPT ![a] = OrphanVisits(found[a])] /\ UNCHANGED ticked
  /\ UNCHANGED <<config, hosts, screen, op, basis, toScan, found, here, asked, touched,
                 answers, jobs, changes, failures>>
-----------------------------------------------------------------------------
(* The work.                                                                *)

\* A mutant of Connect: what could not be reached is not reported.
ConnectQuietly(a) ==
  /\ phase[a] = "work" /\ here[a] = {}
  /\ visits[a] # <<>> /\ visits' = [visits EXCEPT ![a] = Tail(@)]
  /\ \E o \in {"done", "refused"} :
       /\ Fails(o)
       /\ here' = [here EXCEPT ![a] = IF o = "done" THEN Head(visits[a]).tasks ELSE {}]
  /\ UNCHANGED <<config, hosts, screen, plan, phase, asked, targets, touched, answers,
                 jobs, changes>>

Connect(a) ==
  /\ phase[a] = "work" /\ here[a] = {}
  /\ visits[a] # <<>> /\ visits' = [visits EXCEPT ![a] = Tail(@)]
  /\ \E o \in {"done", "refused"} :
       /\ Fails(o)
       /\ here' = [here EXCEPT ![a] = IF o = "done" THEN Head(visits[a]).tasks ELSE {}]
       /\ answers' = [answers EXCEPT ![a] = @ \cup
            IF o = "done" THEN {} ELSE Head(visits[a]).items \X {"failed"}]
  /\ UNCHANGED <<config, hosts, screen, plan, phase, asked, targets, touched, jobs, changes>>

\* What the commands on the servers do, when they do it, containers first.  docker compose needs
\* the file in the directory, and restarts what had been stopped as well.
Perform(o, t) ==
  LET x == <<t[1], t[3]>> IN
  CASE o = "stop" -> up' = up \ {x} /\ UNCHANGED <<containers, dirs>>
    [] o = "restart" -> up' = up \cup ({x} \cap containers) /\ UNCHANGED <<containers, dirs>>
    [] o \in {"cleanup", "clean"} /\ t[2] = "container" ->
         containers' = containers \ {x} /\ up' = up \ {x} /\ UNCHANGED dirs
    [] o \in {"cleanup", "clean"} /\ t[2] = "dir" ->
         dirs' = dirs \ {x} /\ UNCHANGED <<containers, up>>
Possible(o, t) == o \in {"stop", "restart"} => <<t[1], t[3]>> \in dirs

Run(a) ==
  /\ phase[a] = "work"
  /\ \E t \in here[a], o \in {"done", "refused", "lost"} :
       /\ t[2] = "dir" => \A u \in here[a] : u[2] = "dir"
       /\ here' = [here EXCEPT ![a] = @ \ {t}]
       /\ answers' = [answers EXCEPT ![a] =
            @ \cup {<<t, IF o = "done" THEN "ok" ELSE "failed">>}]
       /\ IF Possible(op[a], t) THEN Fails(o) ELSE o = "refused" /\ UNCHANGED failures
       /\ IF o = "refused"
            THEN UNCHANGED <<hosts, touched>>
            ELSE Perform(op[a], t) /\ touched' = [touched EXCEPT ![a] = @ \cup {t}]
  /\ UNCHANGED <<config, screen, plan, phase, visits, asked, targets, jobs, changes>>

Finish(a) ==
  /\ phase[a] = "work" /\ visits[a] = <<>> /\ here[a] = {}
  /\ Goto(a, IF op[a] = "clean" THEN "scan" ELSE "over")
  /\ UNCHANGED <<config, hosts, screen, plan, work, jobs, changes, failures>>

\* The results have been read, or a view or command has been left.
Leave(a) ==
  /\ phase[a] \in {"over"} \cup (IF a = Tui THEN {"select", "list"} ELSE {"confirm"})
  /\ Goto(a, "idle")
  /\ op' = [op EXCEPT ![a] = None] /\ found' = [found EXCEPT ![a] = <<>>]
  /\ ticked' = IF a = Tui THEN {} ELSE ticked
  /\ visits' = [visits EXCEPT ![a] = <<>>]
  /\ asked' = [asked EXCEPT ![a] = {}] /\ targets' = [targets EXCEPT ![a] = {}]
  /\ touched' = [touched EXCEPT ![a] = {}] /\ answers' = [answers EXCEPT ![a] = {}]
  /\ basis' = [basis EXCEPT ![a] = {}]
  /\ UNCHANGED <<config, hosts, screen, toScan, here, jobs, changes, failures>>
-----------------------------------------------------------------------------
Mark ==
  \/ \E n \in Nodes(loaded) : Space(n)
  \/ \E n \in Nodes(loaded), selected \in BOOLEAN : SelectCurrent(n, selected)
  \/ \E selected \in BOOLEAN : SelectAll(selected)

Key ==
  \/ Mark \/ Refresh \/ (\E o \in {"stop", "restart"} : OpenServices(o)) \/ OpenCleanup
  \/ (\E k \in {0} \cup 0..(CountItems(found[Tui]) - 1) : Tick(k))
  \/ Ask \/ Confirm \/ Back

Step(a) ==
  \/ RunService(a) \/ RunCleanup(a) \/ Approve(a)
  \/ ScanServer(a) \/ ScanFails(a) \/ ScanDone(a)
  \/ Connect(a) \/ Run(a) \/ Finish(a) \/ Leave(a)

Next ==
  \/ Key
  \/ \E a \in Actor : Step(a)
  \/ EditConfig \/ \E s \in Service : DeployElsewhere(s)

Spec == Init /\ [][Next]_vars
-----------------------------------------------------------------------------
\* The types of the variables: what is ticked is in the list, and what is to be
\* done of a visit is among what it reports.
TypeOK ==
  /\ config \in Config /\ loaded \in Config /\ loads \in 1..MaxLoads
  /\ up \subseteq containers /\ containers \cup dirs \subseteq Server \X Resource
  /\ marked \subseteq Nodes(loaded)
  /\ ticked \subseteq {0} \cup 0..(CountItems(found[Tui]) - 1)
  /\ op \in [Actor -> {None, "stop", "restart", "cleanup", "clean"}]
  /\ phase \in [Actor -> {"idle", "select", "scan", "list", "confirm", "work", "over"}]
  /\ \A a \in Actor :
       /\ basis[a] \in Config \cup {{}}
       /\ Range(toScan[a]) \subseteq Server
       /\ \A i \in DOMAIN found[a] : Size(found[a][i]) > 0
       /\ \A v \in Range(visits[a]) : v.tasks \subseteq v.items /\ v.items \subseteq Task
       /\ here[a] \cup asked[a] \cup targets[a] \cup touched[a] \subseteq Task
       /\ answers[a] \subseteq Task \X {"ok", "failed"}
  /\ jobs \in 0..MaxJobs /\ changes \in 0..MaxChanges /\ failures \in 0..MaxFailures

\* A node with children is shown as selected exactly when all its children are,
\* after any sequence of keys (tui_model.go, UpdateParentSelection).
ParentsShowChildren ==
  \A n \in Nodes(loaded) :
    Children(n, loaded) # {} => (n \in marked <=> Children(n, loaded) \subseteq marked)

\* Only what was shown as selected is carried out; when an operation is over each
\* of its tasks has been reported on, and what was reported as a success has been
\* carried out (tui_stop.go, tui_cleanup.go, service_cmd.go).  What is shown is what
\* the marks or ticks name, for "stop" and "restart" no less than the flags name,
\* and for "clean" nothing but orphans.
ActsOnWhatWasShown ==
  \A a \in Actor :
    /\ touched[a] \subseteq targets[a]
    /\ \A x \in answers[a] : x[2] = "ok" => x[1] \in touched[a]
    /\ phase[a] = "over" => targets[a] \subseteq {x[1] : x \in answers[a]}
    /\ op[a] \in {"stop", "restart"} => asked[a] \subseteq targets[a]
    /\ a = Tui \/ op[a] = "clean" => touched[a] \subseteq asked[a]

\* What docs/cli-reference.md:570-571 says of "service stop --biz", and :601-602 of
\* "service restart --biz": only the service that is named is stopped or restarted.
ActsOnTheNamed ==
  \A a \in Actor : op[a] \in {"stop", "restart"} => touched[a] \subseteq asked[a]

\* What docs/cli-reference.md:629 says of "service cleanup --server": only the
\* orphans of that server are removed.
CleansTheNamedServer ==
  \A a \in Actor : op[a] = "cleanup" => touched[a] \subseteq asked[a]

\* What a step removes is an orphan of the configuration that a cleanup at work has
\* looked for orphans with: it carries the prefix, and no service of that
\* configuration has its name (scanOrphanServicesAsync, scanOrphanResourcesCLI,
\* runClean).
SparesServices ==
  \A x \in (containers \ containers') \cup (dirs \ dirs') :
    \E a \in Actor : /\ op[a] \in {"cleanup", "clean"} /\ phase[a] = "work"
                    /\ IsOrphan(x[2], basis[a])
\* Every step does so.
CleanupSparesServices == [][SparesServices]_vars

\* What docs/cli-reference.md:645-646 says a cleanup removes: nothing that is in the
\* configuration.
RemovesOrphans ==
  [][\A s \in config : At(s) \notin (containers \ containers') \cup (dirs \ dirs')]_vars
=============================================================================
