------------------------------ MODULE HostSetup ------------------------------
(***************************************************************************)
(* The environment of the servers: "env check", "env sync", "server setup" *)
(* and the same operations of the terminal interface.  A run takes the     *)
(* servers one after another; on each a check only reads, and a sync       *)
(* replaces the package sources, makes the Docker networks and logs in to  *)
(* the registries, remote command by remote command, each of which may     *)
(* fail with or without its effect.                                        *)
(***************************************************************************)
EXTENDS Naturals, Sequences, FiniteSets

CONSTANTS
  Process,      \* the runs that may be under way at the same time
  Server,
  zone,         \* zone[v]: the zone of server v
  tools,        \* tools[v]: what server v has of "sudo", "docker", "compose"
                \* and "docker-compose"; "sudo" is sudo without a password
  apt,          \* apt[v]: environment.apt_source of server v, or None
  networks,     \* networks[v]: the networks of server v
  DefaultNetwork,  \* yamlops-<env>
  Registry,     \* the registries servers refer to
  registries,   \* registries[v]: environment.registries of server v
  Configured,   \* the registries the configuration has
  Resolvable,   \* those of them whose credentials can be resolved
  TakenFor,     \* <<r, s>>: the URL of r is part of the host that a login to s
                \* is kept under, so that it is taken for a login to r
  First,        \* First[v]: the package sources server v has without a sync
  extra,        \* extra[v]: what the files of sources.list.d hold
  MaxRuns,      \* bound: runs begun
  MaxFailures,  \* bound: commands that fail
  MaxByHand,    \* bound: what the administrator does
  None

Template == {"tuna", "aliyun", "tencent"}
Sources == Template \cup {"official", "tencentyun", "partial"}

ASSUME ConfigurationAssumption ==
  /\ apt \in [Server -> Template \cup {"official", "other", None}]
  /\ registries \in [Server -> SUBSET Registry]
  /\ First \in [Server -> SUBSET (Sources \ {"partial"})]
  /\ None \notin Template \cup {"official", "other"} /\ None \notin Server
  /\ {MaxRuns, MaxFailures, MaxByHand} \subseteq Nat

VARIABLES
  sources,   \* sources[v]: what /etc/apt/sources.list of server v holds
  backups,   \* backups[v]: the contents of the files sources.list.bak.*
  nets,      \* nets[v]: the Docker networks
  root, user,  \* root[v], user[v]: the registries that root and the SSH user
               \* are logged in to
  todo,      \* todo[p]: the servers that run p has not taken yet
  kind,      \* kind[p]: "check", "sync" or "setup", which does both
  at, pc,    \* at[p], pc[p]: the server and the step of run p
  left,      \* left[p]: the networks or registries of this step still to come
  item,      \* item[p]: the network about to be made
  failed,    \* failed[p]: the items of this sync that failed
  report,    \* report[p]: the items of this check that were not found well
  runs, failures, byHand,
  original,  \* original[v]: the sources as the administrator left them
  disturbed, \* the runs whose server another sync, or the administrator, has
             \* been at as well
  synced,    \* the servers whose last sync failed in nothing and was alone
  overwritten  \* the servers where a backup was overwritten with other contents

host == <<sources, backups, nets, root, user>>
result == <<failed, report>>
history == <<original, disturbed, synced, overwritten, byHand>>
vars == <<host, todo, kind, at, pc, left, item, result, runs, failures, history>>

Wanted(v) == IF networks[v] = {} THEN {DefaultNetwork} ELSE networks[v]

Init ==
  /\ sources \in {c \in [Server -> Sources] : \A v \in Server : c[v] \in First[v]}
  /\ backups = [v \in Server |-> <<>>]
  /\ nets = [v \in Server |-> {}]
  /\ root = [v \in Server |-> {}] /\ user = [v \in Server |-> {}]
  /\ todo = [p \in Process |-> {}] /\ kind = [p \in Process |-> "check"]
  /\ at = [p \in Process |-> None] /\ pc = [p \in Process |-> "next"]
  /\ left = [p \in Process |-> {}] /\ item = [p \in Process |-> None]
  /\ failed = [p \in Process |-> {}] /\ report = [p \in Process |-> {}]
  /\ runs = 0 /\ failures = 0 /\ byHand = 0
  /\ original = sources /\ disturbed = {} /\ synced = {} /\ overwritten = {}
-----------------------------------------------------------------------------
(* The administrator, as far as it concerns the syncs.  Nobody edits the      *)
(* sources while they are replaced.                                           *)

Busy(v) == \E p \in Process : at[p] = v /\ pc[p] \in {"upload", "rollback", "update"}

EditSources(v) ==
  /\ apt[v] \in Template /\ ~Busy(v)
  /\ byHand < MaxByHand /\ byHand' = byHand + 1
  /\ \E c \in First[v] \ {sources[v]} :
       sources' = [sources EXCEPT ![v] = c] /\ original' = [original EXCEPT ![v] = c]
  /\ disturbed' = disturbed \cup {p \in Process : at[p] = v}
  /\ synced' = synced \ {v}
  /\ UNCHANGED <<backups, nets, root, user, todo, kind, at, pc, left, item, result,
                 runs, failures, overwritten>>

LogInByHand(v, r) ==
  /\ registries[v] # {} /\ r \notin user[v]
  /\ byHand < MaxByHand /\ byHand' = byHand + 1
  /\ user' = [user EXCEPT ![v] = @ \cup {r}]
  /\ UNCHANGED <<sources, backups, nets, root, todo, kind, at, pc, left, item, result,
                 runs, failures, original, disturbed, synced, overwritten>>
-----------------------------------------------------------------------------
(* Remote commands and the steps of a run.                                  *)

\* A command is carried out, refused, or carried out without an answer.  It is
\* refused where what it calls is missing.  "lost" counts the commands before
\* it that failed and were not asked whether they had.
Outcome == {"done", "refused", "lost"}
Happened(o) == o # "refused"
AnswersAfter(lost, v, needs, o) ==
  /\ IF needs \subseteq tools[v]
       THEN failures' = failures + lost + (IF o = "done" THEN 0 ELSE 1)
       ELSE o = "refused" /\ failures' = failures + lost
  /\ failures' <= MaxFailures
Answers(v, needs, o) == AnswersAfter(0, v, needs, o)

Goto(p, step) == pc' = [pc EXCEPT ![p] = step]
At(p, step) == pc[p] = step /\ at[p] # None
Expect(p, items) == left' = [left EXCEPT ![p] = items]
Fails(p, items) == failed' = [failed EXCEPT ![p] = @ \cup items]
Missing(p, items) == report' = [report EXCEPT ![p] = @ \cup items]

\* The servers that are left by a filter by name or zone, or by none.
Filtered == {Server} \cup {{v} : v \in Server}
                     \cup {{w \in Server : zone[w] = zone[v]} : v \in Server}

EnvRequests == {"check", "sync"} \X Filtered
ServerRequests == {"check", "sync", "setup"} \X Filtered
\* In the terminal interface any of the servers can be marked.
MarkedRequests == {"check", "sync", "setup"} \X (SUBSET Server \ {{}})

Begin(p) ==
  /\ at[p] = None /\ todo[p] = {} /\ runs < MaxRuns
  /\ runs' = runs + 1
  /\ \E request \in EnvRequests \cup ServerRequests \cup MarkedRequests :
       /\ kind' = [kind EXCEPT ![p] = request[1]]
       /\ todo' = [todo EXCEPT ![p] = request[2]]
  /\ UNCHANGED <<host, at, pc, left, item, result, failures, history>>

\* The other syncs that are at v.
Others(p, v) == {q \in Process \ {p} : at[q] = v /\ kind[q] # "check"}

\* A server that cannot be reached, or has an unknown key, is passed over.
Connect(p) ==
  /\ at[p] = None
  /\ \E v \in todo[p] :
       /\ todo' = [todo EXCEPT ![p] = @ \ {v}]
       /\ \/ /\ at' = [at EXCEPT ![p] = v]
             /\ Goto(p, IF kind[p] = "sync" THEN "backup" ELSE "host")
             /\ failures' = failures
             /\ disturbed' = IF kind[p] = "check" THEN disturbed
                 ELSE (disturbed \ {p}) \cup Others(p, v)
                        \cup {q \in {p} : Others(p, v) # {}}
             /\ synced' = IF kind[p] = "check" THEN synced ELSE synced \ {v}
          \/ /\ failures' = failures + 1 /\ failures' <= MaxFailures
             /\ UNCHANGED <<at, pc, disturbed, synced>>
  /\ UNCHANGED <<host, kind, result, left, item, runs, original, overwritten, byHand>>
-----------------------------------------------------------------------------
(* Check.                                                                   *)

\* Of the mirrors whose names occur the first that is looked for.  The
\* template of "tencent" has a name that is not looked for.
Detected(contents) ==
  IF "tuna" \in contents THEN "tuna"
  ELSE IF "aliyun" \in contents THEN "aliyun"
  ELSE IF "tencentyun" \in contents THEN "tencent"
  ELSE IF "official" \in contents THEN "official" ELSE "unknown"

\* Any of the two forms of Compose will do.
CheckTools(v) ==
  LET has == tools[v] IN
  ({"sudo", "docker"} \ has)
    \cup {t \in {"compose"} : {"compose", "docker-compose"} \cap has = {}}

CheckAPTSource(v, seen) ==
  IF apt[v] = None \/ Detected(seen) = apt[v] THEN {} ELSE {"apt"}

\* What cannot be read is not found well.
CheckHost(p) ==
  /\ At(p, "host")
  /\ LET v == at[p] IN
     /\ \E o \in {"done", "refused"} :
          /\ Answers(v, {}, o)
          /\ Missing(p, CheckTools(v) \cup
               CheckAPTSource(v, IF o = "done" THEN {sources[v], extra[v]} ELSE {}))
     /\ Expect(p, registries[v])
  /\ Goto(p, "logins")
  /\ UNCHANGED <<host, todo, kind, at, item, failed, runs, history>>

\* Whether one of the logins in a config.json is taken for one to r.
IsRegistryLoggedIn(r, logins) == \E s \in logins : <<r, s>> \in TakenFor

\* What is read of the logins: one that cannot be read is taken to be empty.
Reads(v, needs, logins, seen) ==
  \E o \in {"done", "refused"} :
    Answers(v, needs, o) /\ seen = (IF o = "done" THEN logins ELSE {})

\* The check looks at the logins of root.
CheckRegistries(p) ==
  /\ At(p, "logins")
  /\ \E r \in left[p] :
       /\ \E seen \in {{}, root[at[p]]} :
            /\ Reads(at[p], {"sudo"}, root[at[p]], seen)
            /\ Missing(p, IF r \in Configured /\ IsRegistryLoggedIn(r, seen)
                            THEN {} ELSE {r})
       /\ Expect(p, left[p] \ {r})
  /\ UNCHANGED <<host, todo, kind, at, pc, item, failed, runs, history>>

Checked(p) ==
  /\ At(p, "logins") /\ left[p] = {}
  /\ IF kind[p] = "setup"
       THEN Goto(p, "backup") /\ UNCHANGED at
       ELSE Goto(p, "next") /\ at' = [at EXCEPT ![p] = None]
  /\ report' = [report EXCEPT ![p] = {}]
  /\ UNCHANGED <<host, todo, kind, left, item, failed, runs, failures, history>>
-----------------------------------------------------------------------------
(* Sync.                                                                    *)

\* Sources that are official, or not named, are left alone; a name without a
\* template fails.
NoTemplate(p) ==
  /\ apt[at[p]] \notin Template
  /\ Fails(p, IF apt[at[p]] = "other" THEN {"apt"} ELSE {})
  /\ Goto(p, "networks")
  /\ UNCHANGED <<backups, overwritten, failures>>

\* sources.list.bak.<second>: a copy that is made in the second of the one before
\* it takes its place.
Copied(v) ==
  \/ /\ backups' = [backups EXCEPT ![v] = Append(@, sources[v])]
     /\ UNCHANGED overwritten
  \/ /\ backups[v] # <<>>
     /\ backups' = [backups EXCEPT ![v][Len(backups[v])] = sources[v]]
     /\ overwritten' = overwritten \cup
          {w \in {v} : backups[v][Len(backups[v])] # sources[v]}

\* A mutant of Backup: a name without a template is taken for one with.
BackupBlindly(p) ==
  /\ At(p, "backup")
  /\ \/ apt[at[p]] \in {None, "official"} /\ NoTemplate(p)
     \/ /\ apt[at[p]] \notin {None, "official"}
        /\ Answers(at[p], {"sudo"}, "done")
        /\ Copied(at[p])
        /\ Goto(p, "upload") /\ UNCHANGED failed
  /\ Expect(p, Wanted(at[p]))
  /\ UNCHANGED <<sources, nets, root, user, todo, kind, at, item, report, runs,
                 original, disturbed, synced, byHand>>

\* A mutant of Backup: the sources are replaced although the copy failed.
BackupOrNot(p) ==
  /\ At(p, "backup")
  /\ \/ NoTemplate(p)
     \/ /\ apt[at[p]] \in Template
        /\ \E o \in Outcome :
             /\ Answers(at[p], {"sudo"}, o)
             /\ IF Happened(o) THEN Copied(at[p]) ELSE UNCHANGED <<backups, overwritten>>
        /\ Goto(p, "upload") /\ UNCHANGED failed
  /\ Expect(p, Wanted(at[p]))
  /\ UNCHANGED <<sources, nets, root, user, todo, kind, at, item, report, runs,
                 original, disturbed, synced, byHand>>

\* Every sync makes a backup; without one the sources are left alone.
Backup(p) ==
  /\ At(p, "backup")
  /\ \/ NoTemplate(p)
     \/ /\ apt[at[p]] \in Template
        /\ \E o \in Outcome :
             /\ Answers(at[p], {"sudo"}, o)
             /\ IF Happened(o) THEN Copied(at[p]) ELSE UNCHANGED <<backups, overwritten>>
             /\ IF o = "done"
                  THEN Goto(p, "upload") /\ UNCHANGED failed
                  ELSE Goto(p, "networks") /\ Fails(p, {"apt"})
  /\ Expect(p, Wanted(at[p]))
  /\ UNCHANGED <<sources, nets, root, user, todo, kind, at, item, report, runs,
                 original, disturbed, synced, byHand>>

\* What a failed upload leaves: the move may have come to nothing, half way or
\* to its end.
AfterFailedUpload(v) == {sources[v], "partial", apt[v]}

\* A mutant of Upload: a failed one is not followed by a rollback.
UploadAnyway(p) ==
  /\ At(p, "upload")
  /\ LET v == at[p] IN
     \/ /\ Answers(v, {"sudo"}, "done")
        /\ sources' = [sources EXCEPT ![v] = apt[v]]
        /\ Goto(p, "update") /\ UNCHANGED failed
     \/ /\ Answers(v, {"sudo"}, "refused")
        /\ \E c \in AfterFailedUpload(v) : sources' = [sources EXCEPT ![v] = c]
        /\ Goto(p, "networks") /\ Fails(p, {"apt"})
  /\ UNCHANGED <<backups, nets, root, user, todo, kind, at, left, item, report, runs,
                 history>>

Upload(p) ==
  /\ At(p, "upload")
  /\ LET v == at[p] IN
     \/ /\ Answers(v, {"sudo"}, "done")
        /\ sources' = [sources EXCEPT ![v] = apt[v]]
        /\ Goto(p, "update") /\ UNCHANGED failed
     \/ /\ Answers(v, {"sudo"}, "refused")
        /\ \E c \in AfterFailedUpload(v) : sources' = [sources EXCEPT ![v] = c]
        /\ Goto(p, "rollback") /\ Fails(p, {"apt"})
  /\ UNCHANGED <<backups, nets, root, user, todo, kind, at, left, item, report, runs,
                 history>>

\* cp sources.list.bak.* sources.list: of more than one backup cp makes nothing,
\* and what it answers is not looked at.
Rollback(p) ==
  /\ At(p, "rollback")
  /\ LET v == at[p] IN
     \E o \in Outcome :
       /\ Answers(v, {"sudo"}, o)
       /\ sources' = IF Happened(o) /\ Len(backups[v]) = 1
                       THEN [sources EXCEPT ![v] = backups[v][1]] ELSE sources
  /\ Goto(p, "networks")
  /\ UNCHANGED <<backups, nets, root, user, todo, kind, at, left, item, result, runs,
                 history>>

\* Sources that apt-get update fails with stay.
Update(p) ==
  /\ At(p, "update")
  /\ \E o \in {"done", "refused"} :
       Answers(at[p], {"sudo"}, o) /\ Fails(p, IF o = "done" THEN {} ELSE {"apt"})
  /\ Goto(p, "networks")
  /\ UNCHANGED <<host, todo, kind, at, left, item, report, runs, history>>

\* A network is looked for in a list ...
ListNetworks(p) ==
  /\ At(p, "networks")
  /\ \E n \in left[p], o \in {"done", "refused"} :
       /\ Answers(at[p], {"sudo", "docker"}, o)
       /\ Expect(p, left[p] \ {n})
       /\ IF o = "done" /\ n \notin nets[at[p]]
            THEN Goto(p, "create") /\ item' = [item EXCEPT ![p] = n] /\ UNCHANGED failed
            ELSE UNCHANGED <<pc, item>> /\ Fails(p, IF o = "done" THEN {} ELSE {n})
  /\ UNCHANGED <<host, todo, kind, at, report, runs, history>>

\* A mutant of CreateNetwork: its answer is not looked at.
CreateAndHope(p) ==
  /\ At(p, "create")
  /\ LET v == at[p] IN
     \E o \in Outcome :
       /\ Answers(v, {"sudo", "docker"}, o)
       /\ nets' = IF Happened(o) THEN [nets EXCEPT ![v] = @ \cup {item[p]}] ELSE nets
  /\ Goto(p, "networks") /\ item' = [item EXCEPT ![p] = None]
  /\ UNCHANGED <<sources, backups, root, user, todo, kind, at, left, result, runs, history>>

\* ... and made when it was not there; docker refuses a name that another run
\* has taken since.
CreateNetwork(p) ==
  /\ At(p, "create")
  /\ LET v == at[p]
         n == item[p] IN
     \/ /\ n \in nets[v] /\ Fails(p, {n}) /\ UNCHANGED <<nets, failures>>
     \/ /\ n \notin nets[v]
        /\ \E o \in Outcome :
             /\ Answers(v, {"sudo", "docker"}, o)
             /\ nets' = IF Happened(o) THEN [nets EXCEPT ![v] = @ \cup {n}] ELSE nets
             /\ Fails(p, IF o = "done" THEN {} ELSE {n})
  /\ Goto(p, "networks") /\ item' = [item EXCEPT ![p] = None]
  /\ UNCHANGED <<sources, backups, root, user, todo, kind, at, left, report, runs, history>>

NetworksDone(p) ==
  /\ At(p, "networks") /\ left[p] = {}
  /\ Expect(p, registries[at[p]]) /\ Goto(p, "registries")
  /\ UNCHANGED <<host, todo, kind, at, item, result, runs, failures, history>>

\* The sync looks at the logins of the SSH user, taking him for not logged in
\* when they cannot be read, and logs root in.
SyncRegistry(p) ==
  /\ At(p, "registries")
  /\ LET v == at[p] IN
     \E r \in left[p], unread \in {0, 1} :
       LET loggedIn == unread = 0 /\ IsRegistryLoggedIn(r, user[v]) IN
       /\ Expect(p, left[p] \ {r})
       /\ \/ /\ r \notin Configured \/ (r \notin Resolvable /\ ~loggedIn)
             /\ Fails(p, {r}) /\ UNCHANGED <<root, failures>>
          \/ /\ r \in Configured /\ loggedIn
             /\ UNCHANGED <<root, failed, failures>>
          \/ /\ r \in Configured \cap Resolvable /\ ~loggedIn
             /\ \E o \in Outcome :
                  /\ AnswersAfter(unread, v, {"sudo", "docker"}, o)
                  /\ root' = IF Happened(o) THEN [root EXCEPT ![v] = @ \cup {r}] ELSE root
                  /\ Fails(p, IF o = "done" THEN {} ELSE {r})
  /\ UNCHANGED <<sources, backups, nets, user, todo, kind, at, pc, item, report, runs,
                 history>>

SyncDone(p) ==
  /\ At(p, "registries") /\ left[p] = {}
  /\ at' = [at EXCEPT ![p] = None] /\ Goto(p, "next")
  /\ synced' = IF failed[p] = {} /\ p \notin disturbed THEN synced \cup {at[p]} ELSE synced
  /\ disturbed' = disturbed \ {p} /\ failed' = [failed EXCEPT ![p] = {}]
  /\ UNCHANGED <<host, todo, kind, left, item, report, runs, failures, original,
                 overwritten, byHand>>
-----------------------------------------------------------------------------
Step(p) ==
  \/ Begin(p) \/ Connect(p)
  \/ CheckHost(p) \/ CheckRegistries(p) \/ Checked(p)
  \/ Backup(p) \/ Upload(p) \/ Rollback(p) \/ Update(p)
  \/ ListNetworks(p) \/ CreateNetwork(p) \/ NetworksDone(p)
  \/ SyncRegistry(p) \/ SyncDone(p)

Next ==
  \/ \E p \in Process : Step(p)
  \/ \E v \in Server : EditSources(v)
  \/ \E v \in Server, r \in Registry : LogInByHand(v, r)

Spec == Init /\ [][Next]_vars
-----------------------------------------------------------------------------
Steps == {"next", "host", "logins", "backup", "upload", "rollback",
          "update", "networks", "create", "registries"}
Network == UNION {Wanted(v) : v \in Server}

\* The types of the variables.
TypeOK ==
  /\ sources \in [Server -> Sources] /\ backups \in [Server -> Seq(Sources)]
  /\ nets \in [Server -> SUBSET Network]
  /\ root \in [Server -> SUBSET Registry] /\ user \in [Server -> SUBSET Registry]
  /\ todo \in [Process -> SUBSET Server]
  /\ kind \in [Process -> {"check", "sync", "setup"}]
  /\ at \in [Process -> Server \cup {None}] /\ pc \in [Process -> Steps]
  /\ left \in [Process -> SUBSET (Network \cup Registry)]
  /\ item \in [Process -> Network \cup {None}]
  /\ failed \in [Process -> SUBSET ({"apt"} \cup Network \cup Registry)]
  /\ report \in [Process -> SUBSET ({"sudo", "docker", "compose", "apt"} \cup Registry)]
  /\ \A p \in Process :
       pc[p] \in {"upload", "rollback", "update"} => apt[at[p]] \in Template
  /\ runs \in 0..MaxRuns /\ failures \in 0..MaxFailures /\ byHand \in 0..MaxByHand
  /\ original \in [Server -> Sources]
  /\ disturbed \subseteq Process /\ synced \subseteq Server /\ overwritten \subseteq Server

\* The sources as the administrator left them are lost only where a backup was
\* overwritten by a second one of the same second: anywhere else the server
\* still has them, or one of its backups does, wherever the syncs that have
\* been there failed (syncer.go, SyncAPTSource).
OriginalKept ==
  \A v \in Server \ overwritten :
    sources[v] = original[v] \/ \E i \in DOMAIN backups[v] : backups[v][i] = original[v]

\* Sources that an upload left half written are put back, where there is one
\* backup, never overwritten, and not a second command has failed
\* (syncer.go:89-91).
HalfWrittenIsRestored ==
  \A v \in Server \ overwritten :
    sources[v] = "partial" /\ ~Busy(v) /\ Len(backups[v]) = 1 => failures >= 2

\* A run that is done with the networks of a server has found or made each of
\* them, or will report it as failed, also when another run makes the same
\* networks between its list and its create (network/manager.go, Ensure).
NetworksAreThereOrReported ==
  \A p \in Process :
    pc[p] = "registries" => Wanted(at[p]) \subseteq nets[at[p]] \cup failed[p]

\* What a sync of a server that nobody else was at has reported as a success is
\* there, as far as a check would see it: the package sources, unless they are
\* those of "tencent" or shadowed by others, the networks, and the logins,
\* unless the SSH user had one (syncer.go against checker.go).
SyncedChecksOut ==
  \A v \in synced :
    /\ {"sudo", "docker"} \subseteq tools[v]
    /\ apt[v] # "other"
    /\ apt[v] \in Template => sources[v] = apt[v]
    /\ apt[v] \in {"tuna", "aliyun"} /\ extra[v] \notin Template
         => Detected({sources[v], extra[v]}) = apt[v]
    /\ Wanted(v) \subseteq nets[v]
    /\ \A r \in registries[v] :
         /\ r \in Configured
         /\ <<r, r>> \in TakenFor
              => IsRegistryLoggedIn(r, root[v]) \/ IsRegistryLoggedIn(r, user[v])

\* What docs/cli-reference.md:280 lists among what "env sync" does: after a sync
\* that reported no failure the server is logged in to its registries, as "env
\* check" sees it, which reads the logins of root.
SyncedIsLoggedIn ==
  \A v \in synced, r \in Registry :
    r \in registries[v] /\ <<r, r>> \in TakenFor => IsRegistryLoggedIn(r, root[v])
=============================================================================
