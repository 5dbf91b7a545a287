----------------------------- MODULE DeployProofs -----------------------------
(***************************************************************************)
(* Theorems about Deploy, for every set of services, servers and contents. *)
(* Those about what a run reports and saves keep two books: where every    *)
(* change of the plan is (to do, being carried out, or done with a         *)
(* result), and what the commands of the current change have put on its    *)
(* host so far.                                                            *)
(***************************************************************************)
EXTENDS Deploy, TLAPS

Configs == [Svc -> Entry \cup {None}]

-----------------------------------------------------------------------------
(* What the operators of Deploy return. *)

LocalType == [Server -> [Svc -> LocalFiles \cup {None}]]

\* The files of a service of a well-formed configuration are well-formed, and
\* there is a directory for them.
LEMMA FilesOfIs ==
  ASSUME NEW c \in Configs, NEW s \in Svc, c[s] # None
  PROVE  /\ c[s] \in Entry /\ c[s].server \in Server /\ c[s].comp \in Comp
         /\ FilesOf(c, s) \in LocalFiles
         /\ FilesOf(c, s).comp = c[s].comp /\ FilesOf(c, s).side = SideOf(c, s)
<1>1. c[s] \in Entry
  BY DEF Configs
<1>2. HostRoutes(c, c[s].server) \subseteq Biz \X Route
  <2> SUFFICES ASSUME NEW b \in Biz, c[b] # None, c[b].route # NoRoute
               PROVE  c[b].route \in Route
    BY DEF HostRoutes
  <2> c[b] \in Entry
    BY DEF Configs, Svc
  <2> QED
    BY DEF Entry
<1>3. SideOf(c, s) \in SideFile
  BY <1>1, <1>2 DEF SideOf, SideFile, GateFile, Entry
<1> QED
  BY <1>1, <1>3 DEF FilesOf, LocalFiles, Entry

\* Writing the files of one service puts them where they belong and changes
\* nothing else.
LEMMA WriteForIs ==
  ASSUME local \in LocalType, NEW c \in Configs, NEW s \in Present(c), WriteFor(c, s)
  PROVE  /\ local' \in LocalType
         /\ \A v \in Server, x \in Svc :
              local'[v][x] = IF v = c[s].server /\ x = s THEN FilesOf(c, s)
                                                         ELSE local[v][x]
<1>1. s \in Svc /\ c[s].server \in Server /\ FilesOf(c, s) \in LocalFiles
  BY FilesOfIs DEF Present
<1> QED
  BY <1>1 DEF WriteFor, LocalType

\* What is found for a service are its files in the directory of the server.
LEMMA FoundIs ==
  ASSUME NEW files \in LocalType,
         NEW v \in Server, NEW s \in Svc, Found(files, v, s) # None
  PROVE  /\ Found(files, v, s) = files[v][s]
         /\ files[v][s] \in LocalFiles
         /\ ConfigDirIsCwd
BY DEF Found, LocalType

\* A generation that nobody disturbed gives every service of the configuration
\* its own files.
LEMMA FoundFresh ==
  ASSUME NEW c \in Configs, NEW s \in Svc, c[s] # None, ConfigDirIsCwd
  PROVE  LET found == Found(Generate(c), c[s].server, s) IN
         /\ found # None
         /\ found.comp = c[s].comp
         /\ found.side = SideOf(c, s)
<1>1. c[s].server \in Server /\ FilesOf(c, s) \in LocalFiles
  BY FilesOfIs
<1>2. Generate(c)[c[s].server][s] = FilesOf(c, s)
  BY <1>1 DEF Generate
<1>3. FilesOf(c, s) # None
  BY <1>1, NamesAssumption
<1> QED
  BY <1>2, <1>3, FilesOfIs DEF Found

-----------------------------------------------------------------------------
(* The plan. *)

\* What the fetcher observes of the services of one kind.
LEMMA FetchIs ==
  ASSUME NEW c \in Configs, NEW existing, NEW equal, NEW kind \in SUBSET Svc
  PROVE  LET state == Fetch(c, existing, equal, kind) IN
         /\ DOMAIN state \subseteq kind \cap Present(c)
         /\ \A s \in DOMAIN state :
              /\ state[s].server = c[s].server
              /\ state[s].spec = FetchedSpec(c, equal, s)
BY DEF Fetch

\* The business part of a plan: a change for a service of the configuration, on
\* its server; and no change for one in scope only if it is as configured.
LEMMA ServicePlanIs ==
  ASSUME NEW c \in Configs, NEW existing, NEW alike, NEW sc \in Scopes
  PROVE  LET state == Fetch(c, existing, alike, Biz)
             P == ServicePlan(ConfigMap(c, Biz), state, Servers, sc)
         IN  /\ \A ch \in P : \E s \in Biz \cap Present(c) :
                  /\ Covers(sc, c, s)
                  /\ \/ s \in DOMAIN state
                        /\ ch = Change("update", "service", s, c[s].server)
                     \/ s \notin DOMAIN state
                        /\ ch = Change("create", "service", s, c[s].server)
             /\ \A s \in Biz \cap Present(c) :
                  Covers(sc, c, s) =>
                    \/ \E ch \in P : ch.name = s
                    \/ s \in DOMAIN state /\ state[s] = ConfigMap(c, Biz)[s]
<1> DEFINE state == Fetch(c, existing, alike, Biz)
           map == ConfigMap(c, Biz)
           P == ServicePlan(map, state, Servers, sc)
           InScope(v, n) == Matches(sc, ZoneOf(Servers, v), v, n, Unset)
           chosen == {n \in DOMAIN map : InScope(map[n].server, n)}
           known == chosen \cap DOMAIN state
           equal == {n \in known : state[n] = map[n]}
<1>1. /\ sc.services = {} /\ sc.infraServices = {}
      /\ sc.forceDeploy = FALSE /\ sc.dnsOnly = FALSE
  BY NamesAssumption
<1>2. /\ DOMAIN map = Biz \cap Present(c)
      /\ \A s \in Biz \cap Present(c) : map[s].server = c[s].server
  BY DEF ConfigMap
<1>3. /\ DOMAIN state \subseteq Biz \cap Present(c)
      /\ \A s \in DOMAIN state : state[s].server = c[s].server
  BY FetchIs DEF Svc
<1>4. P = {Change("update", "service", n, state[n].server) : n \in known \ equal}
          \cup {Change("create", "service", n, map[n].server) :
                   n \in chosen \ DOMAIN state}
  BY <1>1, <1>2, <1>3
  DEF ServicePlan, PlansServices, HasAnyServiceSelection, ServiceChanges
<1>5. ASSUME NEW s \in Biz \cap Present(c)
      PROVE  Covers(sc, c, s) <=> InScope(map[s].server, s)
  <2>1. c[s].server \in Server /\ s \in Biz
    BY DEF Present, Configs, Entry, Svc
  <2>2. ZoneOf(Servers, c[s].server) = zoneOf[c[s].server]
    BY <2>1 DEF ZoneOf, Servers
  <2> QED
    BY <1>2, <2>1, <2>2 DEF Covers
<1>6. \A n \in chosen : n \in Biz \cap Present(c) /\ Covers(sc, c, n)
  BY <1>2, <1>5
<1>7. ASSUME NEW ch \in P
      PROVE  \E s \in Biz \cap Present(c) :
               /\ Covers(sc, c, s)
               /\ \/ s \in DOMAIN state
                     /\ ch = Change("update", "service", s, c[s].server)
                  \/ s \notin DOMAIN state
                     /\ ch = Change("create", "service", s, c[s].server)
  BY <1>2, <1>3, <1>4, <1>6, <1>7
<1>8. ASSUME NEW s \in Biz \cap Present(c), Covers(sc, c, s)
      PROVE  \/ \E ch \in P : ch.name = s
             \/ s \in DOMAIN state /\ state[s] = map[s]
  <2>1. s \in chosen
    BY <1>2, <1>5, <1>8
  <2>2. CASE s \notin DOMAIN state
    <3> DEFINE ch == Change("create", "service", s, map[s].server)
    <3> ch \in P /\ ch.name = s
      BY <1>4, <2>1, <2>2 DEF Change
    <3> QED
      OBVIOUS
  <2>3. CASE s \in DOMAIN state /\ state[s] # map[s]
    <3> DEFINE ch == Change("update", "service", s, state[s].server)
    <3> ch \in P /\ ch.name = s
      BY <1>4, <2>1, <2>3 DEF Change
    <3> QED
      OBVIOUS
  <2> QED
    BY <2>2, <2>3
<1> QED
  BY <1>7, <1>8

\* The infra part of a plan, likewise.
LEMMA InfraPlanIs ==
  ASSUME NEW c \in Configs, NEW existing, NEW alike, NEW sc \in Scopes
  PROVE  LET state == Fetch(c, existing, alike, Infra)
             P == InfraPlan(ConfigMap(c, Infra), state, Servers, sc)
         IN  /\ \A ch \in P : \E s \in Infra \cap Present(c) :
                  /\ Covers(sc, c, s)
                  /\ \/ s \in DOMAIN state
                        /\ ch = Change("update", "infra_service", s, c[s].server)
                     \/ s \notin DOMAIN state
                        /\ ch = Change("create", "infra_service", s, c[s].server)
             /\ \A s \in Infra \cap Present(c) :
                  Covers(sc, c, s) =>
                    \/ \E ch \in P : ch.name = s
                    \/ s \in DOMAIN state /\ state[s] = ConfigMap(c, Infra)[s]
<1> DEFINE state == Fetch(c, existing, alike, Infra)
           map == ConfigMap(c, Infra)
           P == InfraPlan(map, state, Servers, sc)
           InScope(v, n) == MatchesInfra(sc, ZoneOf(Servers, v), v, n)
           chosen == {n \in DOMAIN map : InScope(map[n].server, n)}
           known == chosen \cap DOMAIN state
           equal == {n \in known : state[n] = map[n]}
<1>1. /\ sc.services = {} /\ sc.infraServices = {}
      /\ sc.forceDeploy = FALSE /\ sc.dnsOnly = FALSE
  BY NamesAssumption
<1>2. /\ DOMAIN map = Infra \cap Present(c)
      /\ \A s \in Infra \cap Present(c) : map[s].server = c[s].server
  BY DEF ConfigMap
<1>3. /\ DOMAIN state \subseteq Infra \cap Present(c)
      /\ \A s \in DOMAIN state : state[s].server = c[s].server
  BY FetchIs DEF Svc
<1>4. P = {Change("update", "infra_service", n, state[n].server) :
                n \in known \ equal}
          \cup {Change("create", "infra_service", n, map[n].server) :
                   n \in chosen \ DOMAIN state}
  BY <1>1, <1>2, <1>3
  DEF InfraPlan, PlansInfraServices, HasAnyServiceSelection, ServiceChanges
<1>5. ASSUME NEW s \in Infra \cap Present(c)
      PROVE  Covers(sc, c, s) <=> InScope(map[s].server, s)
  <2>1. c[s].server \in Server /\ s \notin Biz
    BY NamesAssumption DEF Present, Configs, Entry, Svc
  <2>2. ZoneOf(Servers, c[s].server) = zoneOf[c[s].server]
    BY <2>1 DEF ZoneOf, Servers
  <2> QED
    BY <1>2, <2>1, <2>2 DEF Covers
<1>6. \A n \in chosen : n \in Infra \cap Present(c) /\ Covers(sc, c, n)
  BY <1>2, <1>5
<1>7. ASSUME NEW ch \in P
      PROVE  \E s \in Infra \cap Present(c) :
               /\ Covers(sc, c, s)
               /\ \/ s \in DOMAIN state
                     /\ ch = Change("update", "infra_service", s, c[s].server)
                  \/ s \notin DOMAIN state
                     /\ ch = Change("create", "infra_service", s, c[s].server)
  BY <1>2, <1>3, <1>4, <1>6, <1>7
<1>8. ASSUME NEW s \in Infra \cap Present(c), Covers(sc, c, s)
      PROVE  \/ \E ch \in P : ch.name = s
             \/ s \in DOMAIN state /\ state[s] = map[s]
  <2>1. s \in chosen
    BY <1>2, <1>5, <1>8
  <2>2. CASE s \notin DOMAIN state
    <3> DEFINE ch == Change("create", "infra_service", s, map[s].server)
    <3> ch \in P /\ ch.name = s
      BY <1>4, <2>1, <2>2 DEF Change
    <3> QED
      OBVIOUS
  <2>3. CASE s \in DOMAIN state /\ state[s] # map[s]
    <3> DEFINE ch == Change("update", "infra_service", s, state[s].server)
    <3> ch \in P /\ ch.name = s
      BY <1>4, <2>1, <2>3 DEF Change
    <3> QED
      OBVIOUS
  <2> QED
    BY <2>2, <2>3
<1> QED
  BY <1>7, <1>8

\* Every change of a plan is sound: it is about a service of the configuration
\* in scope, on its server, of the right kind; a service has at most one; and a service in
\* scope without one was compared and its compose file found equal.
LEMMA PlanIs ==
  ASSUME NEW c \in Configs, NEW existing, NEW equal, NEW sc \in Scopes
  PROVE  LET P == PlanChanges(c, existing, equal, sc) IN
         /\ P \subseteq ServiceChange
         /\ \A ch \in P : /\ c[ch.name] # None
                          /\ Covers(sc, c, ch.name)
                          /\ ch.server = c[ch.name].server
                          /\ ch.entity = "service" <=> ch.name \in Biz
         /\ \A a, b \in P : a.name = b.name => a = b
         /\ \A s \in Present(c) : Covers(sc, c, s) =>
              (\E ch \in P : ch.name = s) \/ s \in equal
<1> DEFINE bizState == Fetch(c, existing, equal, Biz)
           infraState == Fetch(c, existing, equal, Infra)
           B == ServicePlan(ConfigMap(c, Biz), bizState, Servers, sc)
           I == InfraPlan(ConfigMap(c, Infra), infraState, Servers, sc)
           From(ch, s, entity, state) ==
             /\ Covers(sc, c, s)
             /\ \/ s \in DOMAIN state
                   /\ ch = Change("update", entity, s, c[s].server)
                \/ s \notin DOMAIN state
                   /\ ch = Change("create", entity, s, c[s].server)
           P == PlanChanges(c, existing, equal, sc)
<1> P = B \cup I
  BY DEF PlanChanges
<1>1. \A s \in Present(c) : s \in Svc /\ c[s] # None /\ c[s] \in Entry
                              /\ c[s].server \in Server
  BY DEF Present, Configs, Entry
<1>2. \A ch \in B : \E s \in Biz \cap Present(c) : From(ch, s, "service", bizState)
  BY ServicePlanIs
<1>3. \A ch \in I : \E s \in Infra \cap Present(c) :
                     From(ch, s, "infra_service", infraState)
  BY InfraPlanIs
<1> HIDE DEF B, I, bizState, infraState
<1>4. ASSUME NEW ch \in P
      PROVE  /\ ch \in ServiceChange
             /\ c[ch.name] # None
             /\ Covers(sc, c, ch.name)
             /\ ch.server = c[ch.name].server
             /\ ch.entity = "service" <=> ch.name \in Biz
  BY <1>1, <1>2, <1>3, NamesAssumption DEF Change, ServiceChange, Svc
<1>5. ASSUME NEW a \in P, NEW b \in P, a.name = b.name
      PROVE  a = b
  BY <1>2, <1>3, <1>5, NamesAssumption DEF Change
<1>6. ASSUME NEW s \in Present(c), Covers(sc, c, s), ~\E ch \in P : ch.name = s
      PROVE  s \in equal
  <2>1. CASE s \in Biz
    <3>1. s \in DOMAIN bizState /\ bizState[s] = ConfigMap(c, Biz)[s]
      BY <1>6, <2>1, ServicePlanIs DEF B, bizState
    <3>2. FetchedSpec(c, equal, s) = c[s]
      BY <3>1, <2>1, FetchIs DEF bizState, ConfigMap, Svc
    <3> QED
      BY <1>1, <3>2, NamesAssumption DEF FetchedSpec
  <2>2. CASE s \in Infra
    <3>1. s \in DOMAIN infraState /\ infraState[s] = ConfigMap(c, Infra)[s]
      BY <1>6, <2>2, InfraPlanIs DEF I, infraState
    <3>2. FetchedSpec(c, equal, s) = c[s]
      BY <3>1, <2>2, FetchIs DEF infraState, ConfigMap, Svc
    <3> QED
      BY <1>1, <3>2, NamesAssumption DEF FetchedSpec
  <2> QED
    BY <1>1, <2>1, <2>2 DEF Svc
<1> QED
  BY <1>4, <1>5, <1>6
-----------------------------------------------------------------------------
(* Types. *)

HostType == [Server -> [Svc -> Instance]]

\* A container is started from a compose file that is there.
ComposeThere ==
  step \in {"env", "up"} => host[cur.server][cur.name].comp # None

\* What has still to be written or observed and what was seen
\* are empty outside of these steps, nothing is to do before a plan is confirmed,
\* and a run has one of the scopes.
Between ==
  /\ step \notin {"write", "rewrite", "observe"} => left = {}
  /\ step # "observe" => seen = {}
  /\ step \in {"idle", "clean", "write", "observe", "planned"} => todo = {}
  /\ step # "idle" => scope \in Scopes

TypeInv == TypeOK /\ Between /\ ComposeThere

LEMMA SetHostIs ==
  ASSUME host \in HostType, NEW ch \in ServiceChange, NEW inst \in Instance,
         SetHost(ch, inst)
  PROVE  /\ host' \in HostType
         /\ host'[ch.server][ch.name] = inst
         /\ \A v \in Server, s \in Svc :
              (v # ch.server \/ s # ch.name) => host'[v][s] = host[v][s]
BY DEF SetHost, HostType, ServiceChange

\* A command of a change leaves well-formed hosts and touches no service but
\* its own.
LEMMA CarryTouches ==
  ASSUME TypeInv, NEW ch \in ServiceChange, Carry(ch)
  PROVE  /\ cur = ch /\ step \notin Planning \cup {"next"}
         /\ host' \in HostType
         /\ \A v \in Server, s \in Svc :
              (v # ch.server \/ s # ch.name) => host'[v][s] = host[v][s]
<1> DEFINE Result == /\ cur = ch /\ step \notin Planning \cup {"next"}
                     /\ host' \in HostType
                     /\ \A v \in Server, s \in Svc :
                          (v # ch.server \/ s # ch.name) =>
                            host'[v][s] = host[v][s]
<1> USE DEF Planning
<1>1. host \in HostType /\ local \in LocalType
  BY DEF TypeInv, TypeOK, HostType, LocalType
<1>2. At(ch) \in Instance
  BY <1>1 DEF At, HostType, ServiceChange
<1>3. Files(ch) # None => /\ Files(ch).comp \in Comp
                          /\ Files(ch).side \in SideFile
  <2> ch.server \in Server /\ ch.name \in Svc
    BY DEF ServiceChange
  <2> QED
    BY <1>1, FoundIs DEF Files, LocalFiles
<1>4. CASE Prepare(ch)
  <2>1. PICK made \in BOOLEAN : SetHost(ch, [At(ch) EXCEPT !.dir = made])
    BY <1>2, <1>4 DEF Prepare, Instance
  <2>2. [At(ch) EXCEPT !.dir = made] \in Instance
    BY <1>2 DEF Instance
  <2> QED
    BY <1>1, <1>4, <2>1, <2>2, SetHostIs DEF Prepare
<1>5. CASE CheckFile(ch)
  BY <1>1, <1>5 DEF CheckFile, disk
<1>6. CASE SyncCompose(ch)
  <2>1. CASE UNCHANGED host
    BY <1>1, <1>6, <2>1 DEF SyncCompose
  <2>2. CASE Files(ch) # None /\ SetHost(ch, [At(ch) EXCEPT !.comp = Files(ch).comp])
    <3>1. [At(ch) EXCEPT !.comp = Files(ch).comp] \in Instance
      BY <1>2, <1>3, <2>2 DEF Instance
    <3> QED
      BY <1>1, <1>6, <2>2, <3>1, SetHostIs DEF SyncCompose
  <2> QED
    BY <1>6, <2>1, <2>2 DEF SyncCompose
<1>7. CASE SyncEnv(ch) \/ SyncGate(ch)
  <2>1. CASE UNCHANGED host
    BY <1>1, <1>7, <2>1 DEF SyncEnv, SyncGate
  <2>2. CASE ~UNCHANGED host
    <3>1. PICK side \in Remote : SetHost(ch, [At(ch) EXCEPT !.side = side])
      BY <1>3, <1>7, <2>2 DEF SyncEnv, SyncGate, Uploaded, Remote
    <3>2. [At(ch) EXCEPT !.side = side] \in Instance
      BY <1>2 DEF Instance
    <3> QED
      BY <1>1, <1>7, <3>1, <3>2, SetHostIs DEF SyncEnv, SyncGate
  <2> QED
    BY <2>1, <2>2
<1>8. CASE Up(ch)
  <2>1. At(ch).comp \in Comp
    BY <1>2, <1>8 DEF Up, TypeInv, ComposeThere, At, Instance
  <2>2. Mounted(ch) \in Remote /\ At(ch).side \in Remote
    BY <1>2 DEF Instance, Mounted, Remote
  <2>3. [comp |-> At(ch).comp, side |-> Mounted(ch)] \in Running
    BY <2>1, <2>2 DEF Running
  <2>4. PICK side \in Remote, kept \in Running \cup {None} :
          SetHost(ch, [At(ch) EXCEPT !.side = side, !.run = kept])
    BY <1>2, <1>8, <2>2, <2>3 DEF Up, Instance
  <2>5. [At(ch) EXCEPT !.side = side, !.run = kept] \in Instance
    BY <1>2 DEF Instance
  <2> QED
    BY <1>1, <1>8, <2>4, <2>5, SetHostIs DEF Up
<1> QED
  BY <1>4, <1>5, <1>6, <1>7, <1>8 DEF Carry
\* The conjuncts of TypeOK that a command of a change does not hand on unread.
LEMMA CarryType ==
  ASSUME TypeInv, NEW ch \in ServiceChange, Carry(ch)
  PROVE  TypeInv'
<1>1. /\ cur = ch /\ step \notin Planning \cup {"next"}
      /\ host' \in HostType
  BY CarryTouches
<1>2. UNCHANGED <<cfg, local, saved, snap, scope, observed, plan, todo, other, count>>
  BY DEF Carry, Prepare, CheckFile, SyncCompose, SyncEnv, Up, SyncGate,
      AfterCompose, disk
<1>3. \/ cur' = None /\ step' = "next"
      \/ cur' = cur /\ step' \in {"check", "compose", "env", "up", "gate"}
  BY DEF Carry, Prepare, CheckFile, SyncCompose, SyncEnv, Up, SyncGate, AfterCompose,
         Fail, Succeed
<1>4. \/ UNCHANGED results
      \/ \E r \in {"ok", "failed"} : results' = [results EXCEPT ![ch.name] = r]
  BY DEF Carry, Prepare, CheckFile, SyncCompose, SyncEnv, Up, SyncGate, AfterCompose,
         Fail, Succeed
<1>5. failed' \in BOOLEAN
  BY DEF Carry, Prepare, CheckFile, SyncCompose, SyncEnv, Up, SyncGate, AfterCompose,
         Fail, Succeed, TypeInv, TypeOK
<1>6. results' \in [Svc -> {"ok", "failed", None}]
  BY <1>4 DEF TypeInv, TypeOK
<1>7. (step' \in Planning \cup {"next"}) <=> (cur' = None)
  BY <1>1, <1>3, NamesAssumption DEF Planning
<1>8. TypeOK' /\ Between'
  <2>1. UNCHANGED <<left, seen, same>>
    BY <1>2 DEF observed
  <2>2. TypeOK'
    BY <1>1, <1>2, <1>3, <1>5, <1>6, <1>7, <2>1 DEF TypeInv, TypeOK, HostType, count
  <2>3. Between'
    BY <1>1, <1>2, <1>3, <2>1 DEF TypeInv, Between, Planning
  <2> QED
    BY <2>2, <2>3
<1>9. ComposeThere'
  <2> SUFFICES ASSUME step' \in {"env", "up"}
               PROVE  host'[ch.server][ch.name].comp # None
    BY <1>1, <1>3 DEF ComposeThere
  <2>1. At(ch) \in Instance /\ host \in HostType /\ local \in LocalType
    BY DEF TypeInv, TypeOK, At, ServiceChange, HostType, LocalType
  <2>2. CASE SyncCompose(ch)
    <3>1. Files(ch).comp \in Comp
      BY <2>1, <2>2, FoundIs
      DEF SyncCompose, Fail, Files, ServiceChange, LocalFiles
    <3>2. [At(ch) EXCEPT !.comp = Files(ch).comp] \in Instance
      BY <2>1, <3>1 DEF Instance
    <3>3. SetHost(ch, [At(ch) EXCEPT !.comp = Files(ch).comp])
      BY <2>2 DEF SyncCompose, Fail
    <3> QED
      BY <2>1, <3>1, <3>2, <3>3, SetHostIs, NamesAssumption DEF Instance
  <2>3. CASE SyncEnv(ch)
    <3>1. host'[ch.server][ch.name].comp = At(ch).comp
      <4>1. CASE UNCHANGED host
        BY <4>1 DEF At
      <4>2. CASE ~UNCHANGED host
        <5>1. /\ Files(ch) # None
              /\ SetHost(ch, [At(ch) EXCEPT !.side = Files(ch).side])
          BY <2>3, <4>2 DEF SyncEnv
        <5>2. Files(ch).side \in SideFile
          BY <2>1, <5>1, FoundIs DEF Files, ServiceChange, LocalFiles
        <5>3. [At(ch) EXCEPT !.side = Files(ch).side] \in Instance
          BY <2>1, <5>2 DEF Instance, Remote
        <5> QED
          BY <2>1, <5>1, <5>3, SetHostIs DEF Instance
      <4> QED
        BY <4>1, <4>2
    <3> QED
      BY <1>1, <2>3, <3>1 DEF SyncEnv, TypeInv, ComposeThere, At
  <2> QED
    BY <2>2, <2>3 DEF Carry, Prepare, CheckFile, Up, SyncGate, AfterCompose,
    Fail, Succeed
<1> QED
  BY <1>8, <1>9 DEF TypeInv

LEMMA TypeInit == Init => TypeInv
<1> SUFFICES ASSUME Init PROVE TypeInv
  OBVIOUS
<1>1. NoInstance \in Instance
  BY DEF NoInstance, Instance, Remote
<1>2. assigned \subseteq Server \X Svc \X Comp
  <2> SUFFICES ASSUME NEW s \in Svc, cfg[s] # None
               PROVE  cfg[s].server \in Server /\ cfg[s].comp \in Comp
    BY DEF Init, Present
  <2> cfg[s] \in Entry
    BY DEF Init
  <2> QED
    BY DEF Entry
<1>3. /\ cfg \in [Svc -> Entry \cup {None}]
      /\ local \in [Server -> [Svc -> LocalFiles \cup {None}]]
      /\ snap \in [Svc -> Entry \cup {None}]
      /\ other \in [step : {"idle", "clean", "write"}, cfg : [Svc -> Entry \cup {None}],
                    left : SUBSET Svc]
      /\ other.left \subseteq Present(other.cfg)
      /\ saved \in [Svc -> Entry \cup {None}]
      /\ results \in [Svc -> {"ok", "failed", None}]
  BY DEF Init, Empty, NoFiles, Idle, NoResults
<1>4. host \in [Server -> [Svc -> Instance]]
  BY <1>1 DEF Init
<1>5. edits \in 0..MaxEdits /\ runs \in 0..MaxRuns /\ stops \in 0..MaxStops
  BY NamesAssumption DEF Init
<1>6. ComposeThere /\ Between
  BY DEF Init, ComposeThere, Between
<1> QED
  BY <1>2, <1>3, <1>4, <1>5, <1>6 DEF Init, TypeInv, TypeOK, Planning

LEMMA TypeStep == TypeInv /\ [Next]_vars => TypeInv'
<1> SUFFICES ASSUME TypeInv, [Next]_vars PROVE TypeInv'
  OBVIOUS
<1> USE DEF TypeInv, ComposeThere, Between, Planning
<1> local \in LocalType /\ cfg \in Configs /\ snap \in Configs /\ other.cfg \in Configs
  BY DEF TypeOK, LocalType, Configs
<1>1. ASSUME NEW s \in Svc, NEW entry \in EntriesOf(s) \cup {None},
             EditConfig(s, entry)
      PROVE  TypeInv'
  <2>1. entry \in Entry \cup {None}
    BY DEF EntriesOf
  <2>2. entry # None => entry.server \in Server /\ entry.comp \in Comp
    BY <2>1 DEF Entry
  <2>3. cfg' \in [Svc -> Entry \cup {None}]
    BY <1>1, <2>1 DEF EditConfig, TypeOK
  <2>4. assigned' \subseteq Server \X Svc \X Comp
    BY <1>1, <2>2 DEF EditConfig, TypeOK
  <2> QED
    BY <1>1, <2>3, <2>4, NamesAssumption DEF EditConfig, TypeOK, runState, observed
<1>2. ASSUME NEW v \in Server, NEW s \in Svc, ContainerStops(v, s)
      PROVE  TypeInv'
  <2>1. host[v][s] \in Instance
    BY DEF TypeOK
  <2>2. [host[v][s] EXCEPT !.run = None] \in Instance
    BY <2>1 DEF Instance
  <2>3. host' = [host EXCEPT ![v] = [host[v] EXCEPT ![s] = [host[v][s] EXCEPT !.run = None]]]
    BY <1>2 DEF ContainerStops
  <2>4. host' \in HostType
    BY <2>2, <2>3 DEF TypeOK, HostType
  <2>5. cur # None => host'[cur.server][cur.name].comp
                        = host[cur.server][cur.name].comp
    BY <2>1, <2>3 DEF TypeOK, ServiceChange, Instance
  <2> QED
    BY <1>2, <2>4, <2>5, NamesAssumption
    DEF ContainerStops, TypeOK, HostType, runState, observed
<1>3. CASE OtherLoads \/ OtherCleans \/ OtherStops \/ \E s \in Svc : OtherWrites(s)
  <2>1. UNCHANGED <<cfg, host, saved, runState, count>>
    BY <1>3 DEF OtherLoads, OtherCleans, OtherStops, OtherWrites, UnchangedButOther
  <2>2. local' \in LocalType
    <3>1. CASE UNCHANGED local \/ OtherCleans
      BY <3>1 DEF OtherCleans, NoFiles, LocalType
    <3>2. ASSUME NEW s \in Svc, OtherWrites(s) PROVE local' \in LocalType
      <4> s \in Present(other.cfg)
        BY <3>2 DEF OtherWrites, InTurn, TypeOK
      <4> QED
        BY <3>2, WriteForIs DEF OtherWrites
    <3> QED
      BY <1>3, <3>1, <3>2 DEF OtherLoads, OtherStops
  <2>3. /\ other' \in [step : {"idle", "clean", "write"}, cfg : Configs, left : SUBSET Svc]
        /\ other'.left \subseteq Present(other'.cfg)
    <3>1. /\ other \in [step : {"idle", "clean", "write"}, cfg : Configs, left : SUBSET Svc]
          /\ other.left \subseteq Present(other.cfg)
      BY DEF TypeOK, Configs
    <3>2. CASE OtherLoads
      BY <3>2 DEF OtherLoads
    <3>3. CASE OtherCleans
      BY <3>1, <3>3 DEF OtherCleans, Present
    <3>4. CASE OtherStops
      BY <3>4 DEF OtherStops, Idle, Empty, Configs
    <3>5. CASE \E s \in Svc : OtherWrites(s)
      BY <3>1, <3>5 DEF OtherWrites
    <3> QED
      BY <1>3, <3>2, <3>3, <3>4, <3>5
  <2> QED
    BY <2>1, <2>2, <2>3 DEF TypeOK, LocalType, Configs, runState, observed, count
<1>4. ASSUME NEW sc \in Scopes, Load(sc)
      PROVE  TypeInv'
  <2>1. runs' \in 0..MaxRuns
    BY <1>4, NamesAssumption DEF Load, TypeOK
  <2> QED
    BY <1>4, <2>1 DEF Load, TypeOK, NoResults, disk, observed
<1>5. CASE CleanOutput
  <2>1. local' \in LocalType /\ left' = Present(snap)
    BY <1>5 DEF CleanOutput, NoFiles, LocalType
  <2> QED
    BY <1>5, <2>1 DEF CleanOutput, UnchangedButFiles, TypeOK, LocalType, count
<1>6. ASSUME NEW s \in Svc, WriteFiles(s)
      PROVE  TypeInv'
  <2>1. s \in Present(snap)
    BY <1>6 DEF WriteFiles, InTurn, TypeOK
  <2>2. local' \in LocalType
    BY <1>6, <2>1, WriteForIs DEF WriteFiles
  <2> QED
    BY <1>6, <2>2 DEF WriteFiles, UnchangedButFiles, TypeOK, LocalType, count
<1>7. CASE Generated
  BY <1>7 DEF Generated, UnchangedButFiles, TypeOK, count
<1>8. ASSUME NEW s \in Svc, Observe(s)
      PROVE  TypeInv'
  BY <1>8 DEF Observe, TypeOK, disk, count
<1>9. CASE MakePlan
  <2>1. plan' \subseteq ServiceChange
    <3>1. plan' = PlanChanges(snap, seen, same, scope) /\ scope \in Scopes
      BY <1>9 DEF MakePlan, TypeOK
    <3> QED
      BY <3>1, PlanIs
  <2> QED
    BY <1>9, <2>1 DEF MakePlan, TypeOK, disk, count
<1>10. CASE Decline
  BY <1>10 DEF Decline, TypeOK, disk, observed, count
<1>11. ASSUME NEW others \in {"none", "ok", "failed"}, Confirm(others)
      PROVE  TypeInv'
  BY <1>11 DEF Confirm, TypeOK, disk, observed, count
<1>12. ASSUME NEW ch \in ServiceChange, Begin(ch)
      PROVE  TypeInv'
  BY <1>12, NamesAssumption DEF Begin, Fail, TypeOK, disk, observed, count
<1>13. ASSUME NEW ch \in ServiceChange, Carry(ch)
      PROVE  TypeInv'
  BY <1>13, CarryType
<1>14. CASE Finish
  BY <1>14 DEF Finish, TypeOK, observed, count
<1>15. CASE Interrupt
  BY <1>15 DEF Interrupt, TypeOK, disk, count
<1>16. CASE UNCHANGED vars
  BY <1>16 DEF vars, runState, observed, disk, count, TypeOK
<1> QED
  BY <1>1, <1>2, <1>3, <1>4, <1>5, <1>6, <1>7, <1>8, <1>9, <1>10, <1>11, <1>12, <1>13,
     <1>14, <1>15, <1>16
  DEF Next, Environment

\* Every variable keeps its type, and a container is only ever started from a
\* compose file.
THEOREM TypeCorrect == Spec => []TypeOK
<1>1. TypeInv => TypeOK
  BY DEF TypeInv
<1> QED
  BY <1>1, TypeInit, TypeStep, PTL DEF Spec
-----------------------------------------------------------------------------
(* The files of a run that has the directory to itself. *)

\* The directory once all services but those of rest are written.
Written(c, rest) ==
  [v \in Server |-> [s \in Svc |->
     IF c[s] # None /\ c[s].server = v /\ s \notin rest THEN FilesOf(c, s) ELSE None]]

\* The directory of a run with nobody else in it: as far as written while it is
\* written, and that of the loaded configuration from then on.
Fresh ==
  ~Shared =>
    /\ step \in {"write", "rewrite"} => local = Written(snap, left)
    /\ step \notin {"idle", "clean", "write", "reclean", "rewrite"} =>
         local = Generate(snap)

LEMMA FreshStep == TypeInv /\ Fresh /\ [Next]_vars => Fresh'
<1> SUFFICES ASSUME TypeInv, Fresh, [Next]_vars, ~Shared PROVE Fresh'
  BY DEF Fresh
<1> local \in LocalType /\ snap \in Configs
  BY DEF TypeInv, TypeOK, LocalType, Configs
<1>1. CASE UNCHANGED <<local, snap, left, step>>
  BY <1>1 DEF Fresh
<1>2. CASE /\ UNCHANGED <<local, snap>>
           /\ step \notin {"idle", "clean", "write", "reclean", "rewrite"}
           /\ step' \notin {"write", "rewrite"}
  BY <1>2 DEF Fresh
<1>3. CASE step' \in {"idle", "clean", "reclean"}
  BY <1>3 DEF Fresh
<1>4. CASE CleanOutput
  <2>1. Written(snap, Present(snap)) = NoFiles
    BY DEF Written, NoFiles, Present
  <2> QED
    BY <1>4, <2>1 DEF CleanOutput, UnchangedButFiles, Fresh
<1>5. ASSUME NEW s \in Svc, WriteFiles(s)
      PROVE  Fresh'
  <2>1. /\ step \in {"write", "rewrite"} /\ UNCHANGED <<step, snap>>
        /\ s \in Present(snap) /\ left' = left \ {s} /\ s \in left
        /\ local = Written(snap, left)
    BY <1>5 DEF WriteFiles, InTurn, UnchangedButFiles, Fresh, TypeInv, TypeOK
  <2>2. /\ local' \in LocalType
        /\ \A v \in Server, x \in Svc :
             local'[v][x] = IF v = snap[s].server /\ x = s THEN FilesOf(snap, s)
                                                           ELSE local[v][x]
    BY <1>5, <2>1, WriteForIs DEF WriteFiles
  <2>3. ASSUME NEW v \in Server, NEW x \in Svc
        PROVE  local'[v][x] = Written(snap, left')[v][x]
    <3>1. CASE x = s /\ v = snap[s].server
      BY <2>1, <2>2, <3>1 DEF Written, Present
    <3>2. CASE x = s /\ v # snap[s].server
      BY <2>1, <2>2, <3>2 DEF Written
    <3>3. CASE x # s
      BY <2>1, <2>2, <3>3 DEF Written
    <3> QED
      BY <3>1, <3>2, <3>3
  <2>4. local' = Written(snap, left')
    <3>1. \A v \in Server : local'[v] = Written(snap, left')[v]
      <4> TAKE v \in Server
      <4>1. local'[v] \in [Svc -> LocalFiles \cup {None}]
        BY <2>2 DEF LocalType
      <4>2. Written(snap, left')[v] =
              [x \in Svc |-> IF snap[x] # None /\ snap[x].server = v /\ x \notin left'
                               THEN FilesOf(snap, x) ELSE None]
        BY DEF Written
      <4> QED
        BY <2>3, <4>1, <4>2
    <3> QED
      BY <2>2, <3>1 DEF LocalType, Written
  <2> QED
    BY <2>1, <2>4 DEF Fresh
<1>6. CASE Generated
  <2>1. Written(snap, {}) = Generate(snap)
    BY DEF Written, Generate
  <2> QED
    BY <1>6, <2>1 DEF Generated, UnchangedButFiles, Fresh
<1>7. ASSUME NEW ch \in ServiceChange, Carry(ch)
      PROVE  Fresh'
  <2>1. UNCHANGED <<local, snap>> /\ step \notin Planning
    BY <1>7, CarryTouches
    DEF Carry, Prepare, CheckFile, SyncCompose, SyncEnv, Up, SyncGate, AfterCompose, disk
  <2>2. step' \notin {"write", "rewrite"}
    BY <1>7 DEF Carry, Prepare, CheckFile, SyncCompose, SyncEnv, Up, SyncGate,
        AfterCompose, Fail, Succeed
  <2> QED
    BY <1>2, <2>1, <2>2 DEF Planning
<1>8. ASSUME NEW s \in Svc, Observe(s)
      PROVE  Fresh'
  BY <1>2, <1>8 DEF Observe, disk
<1>9. CASE MakePlan \/ \E ch \in ServiceChange : Begin(ch)
  BY <1>2, <1>9 DEF MakePlan, Begin, disk
<1>10. CASE \/ \E sc \in Scopes : Load(sc)
            \/ \E others \in {"none", "ok", "failed"} : Confirm(others)
            \/ Decline \/ Finish \/ Interrupt
  BY <1>3, <1>10 DEF Load, Confirm, Decline, Finish, Interrupt
<1>11. CASE Environment \/ UNCHANGED vars
  BY <1>1, <1>11
  DEF Environment, EditConfig, ContainerStops, OtherLoads, OtherCleans, OtherWrites,
      OtherStops, vars, runState, disk, observed
<1> QED
  BY <1>4, <1>5, <1>6, <1>7, <1>8, <1>9, <1>10, <1>11 DEF Next

-----------------------------------------------------------------------------
(* A plan that proposes nothing for a service can be believed. *)

\* What was compared and found the same has the compose file of the loaded
\* configuration on its host.
Compared == ~Shared => \A s \in same : host[snap[s].server][s].comp = snap[s].comp

\* What stops leaves its compose file behind.
LEMMA StopKeepsFiles ==
  ASSUME TypeInv, NEW v \in Server, NEW x \in Svc, ContainerStops(v, x)
  PROVE  /\ host' \in HostType
         /\ \A w \in Server, s \in Svc :
              /\ host'[w][s].comp = host[w][s].comp
              /\ host'[w][s].side = host[w][s].side
              /\ host'[w][s].run \in {None, host[w][s].run}
<1>1. host[v][x] \in Instance
  BY DEF TypeInv, TypeOK
<1>2. host' = [host EXCEPT ![v] =
                [host[v] EXCEPT ![x] = [host[v][x] EXCEPT !.run = None]]]
  BY DEF ContainerStops
<1> QED
  BY <1>1, <1>2 DEF TypeInv, TypeOK, HostType, Instance

LEMMA ComparedStep == TypeInv /\ Fresh /\ Compared /\ [Next]_vars => Compared'
<1> SUFFICES ASSUME TypeInv, Fresh, Compared, [Next]_vars, ~Shared,
                    NEW s \in same'
             PROVE  (host[snap[s].server][s].comp = snap[s].comp)'
  BY DEF Compared
<1>0. /\ step # "observe" => same = {}
      /\ \A x \in same : x \in Svc /\ snap[x] # None /\ snap[x].server \in Server
      /\ snap \in Configs
  BY DEF TypeInv, TypeOK, Between, Present, Configs, Entry
<1>1. CASE UNCHANGED <<same, snap, host>>
  BY <1>1 DEF Compared
<1>2. CASE step # "observe" /\ UNCHANGED same
  BY <1>0, <1>2
<1>3. ASSUME NEW v \in Server, NEW x \in Svc, ContainerStops(v, x)
      PROVE  (host[snap[s].server][s].comp = snap[s].comp)'
  BY <1>0, <1>3, StopKeepsFiles DEF ContainerStops, runState, observed, Compared
<1>4. ASSUME NEW x \in Svc, Observe(x)
      PROVE  (host[snap[s].server][s].comp = snap[s].comp)'
  <2>1. UNCHANGED <<host, snap>> /\ step = "observe"
    BY <1>4 DEF Observe, disk
  <2>2. CASE s \in same
    BY <2>1, <2>2 DEF Compared
  <2>3. CASE s \notin same
    <3>1. s = x /\ SameCompose(snap, s) /\ s \in Present(snap)
      BY <1>4, <2>3 DEF Observe, TypeInv, TypeOK
    <3>2. local = Generate(snap)
      BY <2>1 DEF Fresh
    <3>3. /\ Found(local, snap[s].server, s) # None
          /\ host[snap[s].server][s].comp = Found(local, snap[s].server, s).comp
      BY <3>1 DEF SameCompose
    <3>4. ConfigDirIsCwd
      BY <3>3 DEF Found
    <3>5. Found(local, snap[s].server, s).comp = snap[s].comp
      BY <1>0, <3>1, <3>2, <3>4, FoundFresh DEF Present
    <3> QED
      BY <2>1, <3>3, <3>5
  <2> QED
    BY <2>2, <2>3
<1>5. CASE MakePlan \/ Interrupt
  BY <1>5 DEF MakePlan, Interrupt
<1>6. ASSUME NEW ch \in ServiceChange, Carry(ch)
      PROVE  (host[snap[s].server][s].comp = snap[s].comp)'
  <2>1. step # "observe"
    BY <1>6, CarryTouches DEF Planning
  <2>2. UNCHANGED same
    BY <1>6 DEF Carry, Prepare, CheckFile, SyncCompose, SyncEnv, Up, SyncGate,
        AfterCompose, observed
  <2> QED
    BY <1>2, <2>1, <2>2
<1>7. CASE \/ \E sc \in Scopes : Load(sc)
           \/ CleanOutput \/ (\E x \in Svc : WriteFiles(x)) \/ Generated
           \/ \E others \in {"none", "ok", "failed"} : Confirm(others)
           \/ \E ch \in ServiceChange : Begin(ch)
           \/ Decline \/ Finish
  BY <1>2, <1>7
  DEF Load, CleanOutput, WriteFiles, Generated, Confirm, Begin, Decline, Finish,
      UnchangedButFiles, observed
<1>8. CASE \/ \E x \in Svc : \E entry \in EntriesOf(x) \cup {None} : EditConfig(x, entry)
           \/ OtherLoads \/ OtherCleans \/ (\E x \in Svc : OtherWrites(x)) \/ OtherStops
           \/ UNCHANGED vars
  BY <1>1, <1>8
  DEF EditConfig, OtherLoads, OtherCleans, OtherWrites, OtherStops, UnchangedButOther,
      vars, runState, disk, observed
<1> QED
  BY <1>3, <1>4, <1>5, <1>6, <1>7, <1>8 DEF Next, Environment

LEMMA QuietStep ==
  TypeInv /\ Compared /\ QuietMeansUploaded /\ [Next]_vars => QuietMeansUploaded'
<1> SUFFICES ASSUME TypeInv, Compared, QuietMeansUploaded, [Next]_vars, ~Shared,
                    step' \notin {"idle", "clean", "write", "observe"},
                    NEW s \in Svc, Quiet(s)'
             PROVE  (host[snap[s].server][s].comp = snap[s].comp)'
  BY DEF QuietMeansUploaded
<1> DEFINE Settled == step \notin {"idle", "clean", "write", "observe"}
<1>1. CASE UNCHANGED <<snap, scope, plan, host>> /\ Settled
  BY <1>1 DEF QuietMeansUploaded, Quiet, Planned
<1>2. ASSUME NEW v \in Server, NEW x \in Svc, ContainerStops(v, x)
      PROVE  (host[snap[s].server][s].comp = snap[s].comp)'
  <2>1. UNCHANGED <<snap, scope, plan, step>>
    BY <1>2 DEF ContainerStops, runState
  <2>2. Quiet(s)
    BY <2>1 DEF Quiet, Planned
  <2>3. snap[s].server \in Server
    BY <2>2 DEF Quiet, TypeInv, TypeOK, Entry
  <2>4. host'[snap[s].server][s].comp = host[snap[s].server][s].comp
    BY <1>2, <2>3, StopKeepsFiles
  <2> QED
    BY <2>1, <2>2, <2>4 DEF QuietMeansUploaded
<1>3. CASE MakePlan
  <2>1. /\ plan' = PlanChanges(snap, seen, same, scope)
        /\ UNCHANGED <<snap, scope, host>>
        /\ snap \in Configs /\ scope \in Scopes
    BY <1>3 DEF MakePlan, TypeInv, TypeOK, Between, Configs, disk
  <2>2. s \in Present(snap) /\ Covers(scope, snap, s) /\ ~\E ch \in plan' : ch.name = s
    BY <2>1 DEF Quiet, Planned, Present
  <2>3. s \in same
    BY <2>1, <2>2, PlanIs
  <2> QED
    BY <2>1, <2>3 DEF Compared
<1>4. ASSUME NEW ch \in ServiceChange, Carry(ch)
      PROVE  (host[snap[s].server][s].comp = snap[s].comp)'
  <2>1. UNCHANGED <<snap, scope, plan>>
    BY <1>4 DEF Carry, Prepare, CheckFile, SyncCompose, SyncEnv, Up, SyncGate, AfterCompose,
                disk
  <2>2. Quiet(s) /\ Settled
    BY <1>4, <2>1, CarryTouches DEF Quiet, Planned, Planning
  <2>3. ch.name # s
    BY <1>4, <2>2, CarryTouches, NamesAssumption
    DEF Quiet, Planned, TypeInv, TypeOK
  <2>4. snap[s].server \in Server
    BY <2>2 DEF Quiet, TypeInv, TypeOK, Entry
  <2> QED
    BY <1>4, <2>1, <2>2, <2>3, <2>4, CarryTouches DEF QuietMeansUploaded
<1>5. CASE CleanOutput \/ (\E x \in Svc : WriteFiles(x)) \/ Generated
  <2>1. UNCHANGED <<snap, scope, plan, host>>
    BY <1>5 DEF CleanOutput, WriteFiles, Generated, UnchangedButFiles
  <2>2. Settled
    BY <1>5 DEF CleanOutput, WriteFiles, Generated
  <2> QED
    BY <1>1, <2>1, <2>2
<1>6. CASE \/ \E others \in {"none", "ok", "failed"} : Confirm(others)
           \/ \E ch \in ServiceChange : Begin(ch)
  BY <1>1, <1>6 DEF Confirm, Begin, disk
<1>7. CASE \/ \E x \in Svc : \E entry \in EntriesOf(x) \cup {None} : EditConfig(x, entry)
           \/ OtherLoads \/ OtherCleans \/ (\E x \in Svc : OtherWrites(x)) \/ OtherStops
           \/ UNCHANGED vars
  BY <1>1, <1>7
  DEF EditConfig, OtherLoads, OtherCleans, OtherWrites, OtherStops, UnchangedButOther,
      vars, runState, disk
<1>8. CASE \/ \E sc \in Scopes : Load(sc)
           \/ \E x \in Svc : Observe(x)
           \/ Decline \/ Finish \/ Interrupt
  BY <1>8 DEF Load, Observe, Decline, Finish, Interrupt
<1> QED
  BY <1>2, <1>3, <1>4, <1>5, <1>6, <1>7, <1>8 DEF Next, Environment

\* When nobody else writes the deployments directory, a plan that proposes nothing
\* for a service in its scope means that the host has its compose file, after any
\* history of failures and interruptions.  With a second operator it need not: the
\* comparison then may be with files of the other's configuration.
THEOREM QuietPlanIsTrue == Spec => []QuietMeansUploaded
<1>1. Init => Fresh /\ Compared /\ QuietMeansUploaded
  BY DEF Init, Fresh, Compared, QuietMeansUploaded
<1> QED
  BY <1>1, TypeInit, TypeStep, FreshStep, ComparedStep, QuietStep, PTL DEF Spec

-----------------------------------------------------------------------------
(* What runs was assigned. *)

\* The entries of a configuration are assigned.
Assigns(c) == \A s \in Svc : c[s] # None => <<c[s].server, s, c[s].comp>> \in assigned

\* All that is on its way to a host, and all that is there, was assigned.
AssignedInv ==
  /\ Assigns(cfg) /\ Assigns(snap) /\ Assigns(other.cfg)
  /\ \A v \in Server, s \in Svc :
       /\ local[v][s] # None => <<v, s, local[v][s].comp>> \in assigned
       /\ host[v][s].comp # None => <<v, s, host[v][s].comp>> \in assigned
       /\ host[v][s].run # None => <<v, s, host[v][s].run.comp>> \in assigned

\* Writing the files of a service of an assigned configuration.
LEMMA WriteAssigned ==
  ASSUME TypeInv, AssignedInv, NEW c \in Configs, Assigns(c), NEW x \in Present(c),
         WriteFor(c, x), NEW v \in Server, NEW s \in Svc, local'[v][s] # None
  PROVE  <<v, s, local'[v][s].comp>> \in assigned
<1>1. x \in Svc /\ c[x] # None /\ local \in LocalType
  BY DEF Present, TypeInv, TypeOK, LocalType
<1>2. FilesOf(c, x).comp = c[x].comp
  BY <1>1, FilesOfIs
<1>3. local'[v][s] = IF v = c[x].server /\ s = x THEN FilesOf(c, x) ELSE local[v][s]
  BY <1>1, WriteForIs
<1> QED
  BY <1>1, <1>2, <1>3 DEF AssignedInv, Assigns

\* The command of a change starts from what is on the host or in the files.
LEMMA CarryAssigned ==
  ASSUME TypeInv, AssignedInv, NEW ch \in ServiceChange, Carry(ch)
  PROVE  LET new == host'[ch.server][ch.name] IN
         /\ new.comp # None => <<ch.server, ch.name, new.comp>> \in assigned
         /\ new.run # None => <<ch.server, ch.name, new.run.comp>> \in assigned
<1> DEFINE new == host'[ch.server][ch.name]
<1>1. /\ host \in HostType /\ ch.server \in Server /\ ch.name \in Svc
      /\ At(ch) \in Instance /\ At(ch) = host[ch.server][ch.name]
      /\ local \in LocalType
  BY DEF TypeInv, TypeOK, HostType, LocalType, ServiceChange, At
<1>2. /\ At(ch).comp # None => <<ch.server, ch.name, At(ch).comp>> \in assigned
      /\ At(ch).run # None => <<ch.server, ch.name, At(ch).run.comp>> \in assigned
  BY <1>1 DEF AssignedInv
<1>3. Files(ch) # None =>
        /\ Files(ch).comp \in Comp /\ Files(ch).side \in SideFile
        /\ <<ch.server, ch.name, Files(ch).comp>> \in assigned
  <2> SUFFICES ASSUME Files(ch) # None
               PROVE  /\ Files(ch).comp \in Comp /\ Files(ch).side \in SideFile
                      /\ <<ch.server, ch.name, Files(ch).comp>> \in assigned
    OBVIOUS
  <2>1. /\ Files(ch) = local[ch.server][ch.name]
        /\ local[ch.server][ch.name] \in LocalFiles
    BY <1>1, FoundIs DEF Files
  <2>2. <<ch.server, ch.name, local[ch.server][ch.name].comp>> \in assigned
    BY <1>1, <2>1 DEF AssignedInv
  <2> QED
    BY <2>1, <2>2 DEF LocalFiles
<1>4. CASE UNCHANGED host
  BY <1>1, <1>2, <1>4
<1>5. ASSUME NEW inst \in Instance, SetHost(ch, inst), inst.run = At(ch).run,
             \/ inst.comp = At(ch).comp
             \/ Files(ch) # None /\ inst.comp = Files(ch).comp
      PROVE  /\ new.comp # None => <<ch.server, ch.name, new.comp>> \in assigned
             /\ new.run # None => <<ch.server, ch.name, new.run.comp>> \in assigned
  <2>1. new = inst
    BY <1>1, <1>5, SetHostIs
  <2> QED
    BY <1>2, <1>3, <1>5, <2>1
<1>6. CASE Prepare(ch)
  <2>1. PICK made \in BOOLEAN : SetHost(ch, [At(ch) EXCEPT !.dir = made])
    BY <1>1, <1>6 DEF Prepare, Instance
  <2>2. /\ [At(ch) EXCEPT !.dir = made] \in Instance
        /\ [At(ch) EXCEPT !.dir = made].run = At(ch).run
        /\ [At(ch) EXCEPT !.dir = made].comp = At(ch).comp
    BY <1>1 DEF Instance
  <2> QED
    BY <1>5, <2>1, <2>2
<1>7. CASE SyncCompose(ch) /\ ~UNCHANGED host
  <2>1. Files(ch) # None /\ SetHost(ch, [At(ch) EXCEPT !.comp = Files(ch).comp])
    BY <1>7 DEF SyncCompose
  <2>2. /\ [At(ch) EXCEPT !.comp = Files(ch).comp] \in Instance
        /\ [At(ch) EXCEPT !.comp = Files(ch).comp].run = At(ch).run
        /\ [At(ch) EXCEPT !.comp = Files(ch).comp].comp = Files(ch).comp
    BY <1>1, <1>3, <2>1 DEF Instance
  <2> QED
    BY <1>5, <2>1, <2>2
<1>8. CASE (SyncEnv(ch) \/ SyncGate(ch)) /\ ~UNCHANGED host
  <2>1. PICK side \in Remote : SetHost(ch, [At(ch) EXCEPT !.side = side])
    BY <1>3, <1>8 DEF SyncEnv, SyncGate, Uploaded, Remote
  <2>2. /\ [At(ch) EXCEPT !.side = side] \in Instance
        /\ [At(ch) EXCEPT !.side = side].run = At(ch).run
        /\ [At(ch) EXCEPT !.side = side].comp = At(ch).comp
    BY <1>1 DEF Instance
  <2> QED
    BY <1>5, <2>1, <2>2
<1>9. CASE Up(ch)
  <2> DEFINE started == [comp |-> At(ch).comp, side |-> Mounted(ch)]
  <2>1. Mounted(ch) \in Remote /\ At(ch).side \in Remote
    BY <1>1 DEF Instance, Mounted, Remote
  <2>2. At(ch).comp # None /\ started \in Running
    BY <1>1, <1>9, <2>1 DEF Up, TypeInv, ComposeThere, At, Instance, Running
  <2>3. PICK side \in Remote, kept \in {At(ch).run, started, None} :
          SetHost(ch, [At(ch) EXCEPT !.side = side, !.run = kept])
    BY <1>9, <2>1 DEF Up
  <2>4. /\ [At(ch) EXCEPT !.side = side, !.run = kept] \in Instance
        /\ [At(ch) EXCEPT !.side = side, !.run = kept].run = kept
        /\ [At(ch) EXCEPT !.side = side, !.run = kept].comp = At(ch).comp
    BY <1>1, <2>2 DEF Instance
  <2>5. new.run = kept /\ new.comp = At(ch).comp
    BY <1>1, <2>3, <2>4, SetHostIs
  <2> QED
    BY <1>2, <2>2, <2>5
<1> QED
  BY <1>4, <1>6, <1>7, <1>8, <1>9 DEF Carry, CheckFile, disk
LEMMA AssignedStep == TypeInv /\ AssignedInv /\ [Next]_vars => AssignedInv'
<1> SUFFICES ASSUME TypeInv, AssignedInv, [Next]_vars PROVE AssignedInv'
  OBVIOUS
<1>0. /\ cfg \in Configs /\ snap \in Configs /\ other.cfg \in Configs
      /\ local \in LocalType
  BY DEF TypeInv, TypeOK, Configs, LocalType
<1>1. ASSUME UNCHANGED <<cfg, host, assigned>>, snap' \in {snap, cfg},
             other'.cfg \in {other.cfg, cfg, Empty},
             \/ local' \in {local, NoFiles}
             \/ \E s \in Present(snap) : WriteFor(snap, s)
             \/ \E s \in Present(other.cfg) : WriteFor(other.cfg, s)
      PROVE  AssignedInv'
  <2>1. Assigns(cfg)' /\ Assigns(snap)' /\ Assigns(other.cfg)'
    BY <1>1 DEF AssignedInv, Assigns, Empty
  <2>2. ASSUME NEW v \in Server, NEW s \in Svc, local'[v][s] # None
        PROVE  <<v, s, local'[v][s].comp>> \in assigned
    <3>1. CASE local' \in {local, NoFiles}
      <4>1. local'[v][s] = local[v][s]
        BY <2>2, <3>1 DEF NoFiles
      <4> QED
        BY <2>2, <4>1 DEF AssignedInv
    <3>2. ASSUME NEW c \in {snap, other.cfg}, NEW x \in Present(c), WriteFor(c, x)
          PROVE  <<v, s, local'[v][s].comp>> \in assigned
      <4> c \in Configs /\ Assigns(c)
        BY <1>0 DEF AssignedInv
      <4> QED
        BY <2>2, <3>2, WriteAssigned
    <3> QED
      BY <1>1, <3>1, <3>2
  <2> QED
    BY <1>1, <2>1, <2>2 DEF AssignedInv
<1>2. ASSUME NEW s \in Svc, NEW entry \in EntriesOf(s) \cup {None},
             EditConfig(s, entry)
      PROVE  AssignedInv'
  <2>1. /\ cfg' = [cfg EXCEPT ![s] = entry]
        /\ assigned \subseteq assigned'
        /\ entry # None => <<entry.server, s, entry.comp>> \in assigned'
        /\ UNCHANGED <<local, host, snap, other>>
    BY <1>2 DEF EditConfig, runState
  <2>2. Assigns(cfg)' /\ Assigns(snap)' /\ Assigns(other.cfg)'
    BY <1>0, <2>1 DEF AssignedInv, Assigns, Configs
  <2> QED
    BY <2>1, <2>2 DEF AssignedInv
<1>3. ASSUME NEW v \in Server, NEW s \in Svc, ContainerStops(v, s)
      PROVE  AssignedInv'
  <2>1. UNCHANGED <<cfg, local, snap, other, assigned>>
    BY <1>3 DEF ContainerStops, runState
  <2>2. ASSUME NEW w \in Server, NEW x \in Svc
        PROVE  LET new == host'[w][x] IN
               /\ new.comp # None => <<w, x, new.comp>> \in assigned
               /\ new.run # None => <<w, x, new.run.comp>> \in assigned
    <3>1. /\ host'[w][x].comp = host[w][x].comp
          /\ host'[w][x].run \in {None, host[w][x].run}
      BY <1>3, StopKeepsFiles
    <3> QED
      BY <3>1 DEF AssignedInv
  <2> QED
    BY <2>1, <2>2 DEF AssignedInv, Assigns
<1>4. ASSUME NEW sc \in Scopes, Load(sc)
      PROVE  AssignedInv'
  BY <1>1, <1>4 DEF Load, disk
<1>5. CASE CleanOutput \/ Generated
  BY <1>1, <1>5 DEF CleanOutput, Generated, UnchangedButFiles, count
<1>6. ASSUME NEW s \in Svc, WriteFiles(s)
      PROVE  AssignedInv'
  <2> s \in Present(snap)
    BY <1>6 DEF WriteFiles, InTurn, TypeInv, TypeOK
  <2> QED
    BY <1>1, <1>6 DEF WriteFiles, UnchangedButFiles, count
<1>7. ASSUME NEW ch \in ServiceChange, Carry(ch)
      PROVE  AssignedInv'
  <2>1. UNCHANGED <<cfg, snap, local, other, assigned>>
    BY <1>7 DEF Carry, Prepare, CheckFile, SyncCompose, SyncEnv, Up, SyncGate, AfterCompose,
                disk, count
  <2>2. ASSUME NEW v \in Server, NEW s \in Svc
        PROVE  LET new == host'[v][s] IN
               /\ new.comp # None => <<v, s, new.comp>> \in assigned
               /\ new.run # None => <<v, s, new.run.comp>> \in assigned
    <3>1. CASE v = ch.server /\ s = ch.name
      BY <1>7, <3>1, CarryAssigned
    <3>2. CASE v # ch.server \/ s # ch.name
      BY <1>7, <3>2, CarryTouches DEF AssignedInv
    <3> QED
      BY <3>1, <3>2
  <2> QED
    BY <2>1, <2>2 DEF AssignedInv, Assigns
<1>8. CASE OtherLoads \/ OtherCleans \/ OtherStops
  <2>1. other'.cfg \in {other.cfg, cfg, Empty} /\ local' \in {local, NoFiles}
    <3>1. CASE OtherLoads
      BY <3>1 DEF OtherLoads
    <3>2. CASE OtherCleans
      <4> other \in [step : {"idle", "clean", "write"}, cfg : Configs, left : SUBSET Svc]
        BY DEF TypeInv, TypeOK, Configs
      <4> QED
        BY <3>2 DEF OtherCleans
    <3>3. CASE OtherStops
      BY <3>3 DEF OtherStops, Idle
    <3> QED
      BY <1>8, <3>1, <3>2, <3>3
  <2>2. UNCHANGED <<cfg, host, snap, assigned>>
    BY <1>8 DEF OtherLoads, OtherCleans, OtherStops, UnchangedButOther, runState, count
  <2> QED
    BY <1>1, <2>1, <2>2
<1>9. ASSUME NEW s \in Svc, OtherWrites(s)
      PROVE  AssignedInv'
  <2>1. s \in Present(other.cfg) /\ other'.cfg = other.cfg
    BY <1>9 DEF OtherWrites, InTurn, TypeInv, TypeOK
  <2> QED
    BY <1>1, <1>9, <2>1 DEF OtherWrites, UnchangedButOther, runState, count
<1>10. CASE \/ \E s \in Svc : Observe(s)
            \/ \E others \in {"none", "ok", "failed"} : Confirm(others)
            \/ \E ch \in ServiceChange : Begin(ch)
            \/ MakePlan \/ Decline \/ Finish \/ Interrupt \/ UNCHANGED vars
  BY <1>1, <1>10
  DEF Observe, MakePlan, Confirm, Begin, Decline, Finish, Interrupt, vars, runState, disk,
      count
<1> QED
  BY <1>2, <1>3, <1>4, <1>5, <1>6, <1>7, <1>8, <1>9, <1>10 DEF Next, Environment

\* No container runs on a server it was never configured for, even when someone
\* else regenerates the files while a run carries its changes out.
THEOREM OnlyAssignedRuns == Spec => []RunsWhatWasAssigned
<1>1. Init => AssignedInv
  <2> SUFFICES ASSUME Init PROVE AssignedInv
    OBVIOUS
  <2>1. \A s \in Svc : cfg[s] # None => <<cfg[s].server, s, cfg[s].comp>> \in assigned
    BY DEF Init, Present
  <2> QED
    BY <2>1 DEF Init, AssignedInv, Assigns, Empty, NoFiles, Idle, NoInstance
<1>2. AssignedInv => RunsWhatWasAssigned
  BY DEF AssignedInv, RunsWhatWasAssigned
<1> QED
  BY <1>1, <1>2, TypeInit, TypeStep, AssignedStep, PTL DEF Spec

-----------------------------------------------------------------------------
(* A run stays in its scope. *)

\* The servers of a plan pass the server and zone filters of its scope.
PlanInScope ==
  \A ch \in plan : Passes(scope.server, ch.server)
                   /\ Passes(scope.zone, zoneOf[ch.server])

LEMMA PlanInScopeStep == TypeInv /\ PlanInScope /\ [Next]_vars => PlanInScope'
<1> SUFFICES ASSUME TypeInv, PlanInScope, [Next]_vars PROVE PlanInScope'
  OBVIOUS
<1>1. CASE UNCHANGED <<plan, scope>>
  BY <1>1 DEF PlanInScope
<1>2. CASE MakePlan
  <2>1. /\ plan' = PlanChanges(snap, seen, same, scope)
        /\ scope' = scope /\ scope \in Scopes /\ snap \in Configs
    BY <1>2 DEF MakePlan, TypeInv, TypeOK, Between, Configs
  <2>2. \A ch \in plan' : /\ Covers(scope, snap, ch.name)
                          /\ ch.server = snap[ch.name].server
    BY <2>1, PlanIs
  <2> QED
    BY <2>1, <2>2 DEF PlanInScope, Covers, Matches, MatchesInfra
<1>3. CASE \E sc \in Scopes : Load(sc)
  BY <1>3 DEF Load, PlanInScope
<1>4. \/ UNCHANGED <<plan, scope>>
      \/ MakePlan
      \/ \E sc \in Scopes : Load(sc)
  BY DEF Next, Environment, EditConfig, ContainerStops, OtherLoads, OtherCleans,
         OtherWrites, OtherStops, UnchangedButOther, CleanOutput, WriteFiles, Generated,
         UnchangedButFiles, Observe, Decline, Confirm, Begin, Carry, Prepare, CheckFile,
         SyncCompose, SyncEnv, Up, SyncGate, Finish, Interrupt, runState, vars
<1> QED
  BY <1>1, <1>2, <1>3, <1>4

\* A step of a run changes no host outside its scope.
LEMMA ScopeStep ==
  ASSUME TypeInv, PlanInScope, [Next]_vars,
         NEW v \in Server, host'[v] # host[v], stops' = stops
  PROVE  Passes(scope.server, v) /\ Passes(scope.zone, zoneOf[v])
<1>1. PICK ch \in ServiceChange : Carry(ch)
  <2>1. ~\E w \in Server, s \in Svc : ContainerStops(w, s)
    BY DEF ContainerStops, TypeInv, TypeOK
  <2>2. host' # host
    OBVIOUS
  <2> QED
    BY <2>1, <2>2
    DEF Next, Environment, EditConfig, OtherLoads, OtherCleans, OtherWrites, OtherStops,
        UnchangedButOther, Load, CleanOutput, WriteFiles, Generated, UnchangedButFiles,
        Observe, MakePlan, Decline, Confirm, Begin, Finish, Interrupt, disk, vars
<1>2. /\ cur = ch /\ ch \in plan
      /\ host \in HostType /\ host' \in HostType
      /\ \A w \in Server, s \in Svc :
           (w # ch.server \/ s # ch.name) => host'[w][s] = host[w][s]
  BY <1>1, CarryTouches, NamesAssumption DEF TypeInv, TypeOK, HostType
<1>3. v = ch.server
  <2> SUFFICES ASSUME v # ch.server PROVE host'[v] = host[v]
    OBVIOUS
  <2> host'[v] \in [Svc -> Instance] /\ host[v] \in [Svc -> Instance]
    BY <1>2 DEF HostType
  <2> \A s \in Svc : host'[v][s] = host[v][s]
    BY <1>2
  <2> QED
    OBVIOUS
<1> QED
  BY <1>2, <1>3 DEF PlanInScope

\* A run touches no server that its scope excludes, for every scope of a zone,
\* a server and a service.
THEOREM RunStaysInScope == Spec => ScopeIsRespected
<1>1. Init => PlanInScope
  BY DEF Init, PlanInScope
<1>2. TypeInv /\ PlanInScope /\ [Next]_vars =>
        [\A v \in Server :
           (step # "idle" /\ host'[v] # host[v] /\ stops' = stops) =>
             Passes(scope.server, v) /\ Passes(scope.zone, zoneOf[v])]_vars
  BY ScopeStep
<1> QED
  BY <1>1, <1>2, TypeInit, TypeStep, PlanInScopeStep, PTL
  DEF Spec, ScopeIsRespected

-----------------------------------------------------------------------------
(* Where the changes of a plan are. *)

\* A change is about a service of the loaded configuration, on its server, of
\* the right kind; a service has at most one.
SoundPlan ==
  /\ \A ch \in plan : /\ snap[ch.name] # None
                      /\ ch.server = snap[ch.name].server
                      /\ ch.entity = "service" <=> ch.name \in Biz
  /\ \A a, b \in plan : a.name = b.name => a = b

\* A change that is to do or being carried out has no result yet, every other
\* change of a confirmed plan has one, and a failure is remembered.
Pending ==
  /\ cur \notin todo
  /\ \A ch \in plan : (ch \in todo \/ ch = cur) => results[ch.name] = None

Accounted ==
  /\ step \in {"clean", "write", "observe", "planned", "reclean", "rewrite"} =>
       results = NoResults
  /\ step \notin {"idle", "clean", "write", "observe", "planned"} =>
       \A ch \in plan : ch \in todo \/ ch = cur \/ results[ch.name] # None
  /\ \A s \in Svc : results[s] = "failed" => failed

Books == SoundPlan /\ Pending /\ Accounted

\* What a command of a change does to the books.
LEMMA CarryBooks ==
  ASSUME TypeInv, NEW ch \in ServiceChange, Carry(ch)
  PROVE  /\ cur = ch /\ ch \in plan /\ step \notin Planning \cup {"next"}
         /\ UNCHANGED <<cfg, local, saved, snap, scope, plan, todo, other>>
         /\ \/ /\ UNCHANGED <<cur, results, failed>>
               /\ step' \in {"check", "compose", "env", "up", "gate"}
            \/ /\ cur' = None /\ step' = "next"
               /\ results' = [results EXCEPT ![ch.name] = "ok"]
               /\ UNCHANGED failed
            \/ /\ cur' = None /\ step' = "next"
               /\ results' = [results EXCEPT ![ch.name] = "failed"]
               /\ failed' = TRUE
<1>1. cur = ch /\ step \notin Planning \cup {"next"}
  BY CarryTouches
<1>2. ch \in plan
  BY <1>1, NamesAssumption DEF TypeInv, TypeOK
<1> QED
  BY <1>1, <1>2
  DEF Carry, Prepare, CheckFile, SyncCompose, SyncEnv, Up, SyncGate,
      AfterCompose, Fail, Succeed, disk

LEMMA BooksStep == TypeInv /\ Books /\ [Next]_vars => Books'
<1> SUFFICES ASSUME TypeInv, Books, [Next]_vars PROVE Books'
  OBVIOUS
<1>0. /\ None \notin plan /\ \A ch \in plan : ch.name \in Svc
      /\ todo \subseteq plan /\ cur \in plan \cup {None}
  BY NamesAssumption DEF TypeInv, TypeOK, ServiceChange
<1>1. CASE UNCHANGED <<step, snap, plan, todo, cur, results, failed>>
  BY <1>1 DEF Books, SoundPlan, Pending, Accounted
<1>2. ASSUME NEW sc \in Scopes, Load(sc)
      PROVE  Books'
  BY <1>2, <1>0, NamesAssumption
  DEF Load, Books, SoundPlan, Pending, Accounted, NoResults
<1>3. CASE CleanOutput \/ Generated \/ \E s \in Svc : WriteFiles(s)
  <2>1. UNCHANGED <<snap, plan, todo, cur, results, failed>>
    BY <1>3 DEF CleanOutput, WriteFiles, Generated, UnchangedButFiles
  <2>2. \/ step \in {"clean", "write"} /\ step' \in {"write", "observe"}
        \/ step \in {"reclean", "rewrite"} /\ step' \in {"rewrite", "next"}
    BY <1>3 DEF CleanOutput, WriteFiles, Generated
  <2> QED
    BY <2>1, <2>2 DEF Books, SoundPlan, Pending, Accounted
<1>4. ASSUME NEW s \in Svc, Observe(s)
      PROVE  Books'
  BY <1>1, <1>4 DEF Observe
<1>5. CASE MakePlan
  <2>1. /\ plan' = PlanChanges(snap, seen, same, scope)
        /\ scope \in Scopes /\ snap \in Configs
        /\ UNCHANGED <<snap, todo, cur, results, failed>>
        /\ todo = {} /\ cur = None /\ results = NoResults
        /\ step' = "planned"
    BY <1>5 DEF MakePlan, TypeInv, TypeOK, Between, Configs, Planning, Books, Accounted
  <2>2. SoundPlan'
    BY <2>1, PlanIs DEF SoundPlan
  <2>3. plan' \subseteq ServiceChange
    BY <2>1, PlanIs
  <2>4. Pending' /\ Accounted'
    BY <2>1, <2>3, NamesAssumption DEF Pending, Accounted, NoResults, ServiceChange
  <2> QED
    BY <2>2, <2>4 DEF Books
<1>6. ASSUME NEW others \in {"none", "ok", "failed"}, Confirm(others)
      PROVE  Books'
  <2>1. /\ UNCHANGED <<snap, plan, cur, results>>
        /\ todo' = plan /\ step' = "reclean" /\ results = NoResults /\ cur = None
    BY <1>6 DEF Confirm, Books, Accounted, TypeInv, TypeOK, Planning
  <2>2. SoundPlan' /\ Pending'
    BY <1>0, <2>1 DEF Books, SoundPlan, Pending, NoResults
  <2>3. Accounted'
    BY <2>1, NamesAssumption DEF Accounted, NoResults
  <2> QED
    BY <2>2, <2>3 DEF Books
<1>7. ASSUME NEW ch \in ServiceChange, Begin(ch)
      PROVE  Books'
  <2>1. /\ UNCHANGED <<snap, plan, results, failed>>
        /\ step = "next" /\ step' = "prepare"
        /\ ch \in todo /\ todo' = todo \ {ch} /\ cur' = ch /\ cur = None
    BY <1>7 DEF Begin, TypeInv, TypeOK, Planning
  <2>2. None \notin plan
    BY NamesAssumption DEF TypeInv, TypeOK
  <2> QED
    BY <2>1, <2>2 DEF Books, SoundPlan, Pending, Accounted
<1>8. ASSUME NEW ch \in ServiceChange, Carry(ch)
      PROVE  Books'
  <2>1. /\ cur = ch /\ ch \in plan /\ UNCHANGED <<snap, plan, todo>>
        /\ step \notin {"idle", "clean", "write", "observe", "planned"}
    BY <1>8, CarryBooks DEF Planning
  <2>2. CASE UNCHANGED <<cur, results, failed>> /\
               step' \in {"check", "compose", "env", "up", "gate"}
    BY <2>1, <2>2 DEF Books, SoundPlan, Pending, Accounted
  <2>3. ASSUME NEW r \in {"ok", "failed"}, cur' = None, step' = "next",
               results' = [results EXCEPT ![ch.name] = r],
               r = "failed" => failed', failed => failed'
        PROVE  Books'
    <3>1. /\ todo \subseteq plan /\ None \notin plan
          /\ results \in [Svc -> {"ok", "failed", None}]
          /\ \A c \in plan : c.name \in Svc
      BY NamesAssumption DEF TypeInv, TypeOK, ServiceChange
    <3>2. \A c \in plan : results'[c.name] =
                            IF c = ch THEN r ELSE results[c.name]
      BY <2>1, <2>3, <3>1 DEF Books, SoundPlan
    <3>3. r # None
      BY NamesAssumption
    <3>4. SoundPlan' /\ Pending'
      BY <2>1, <2>3, <3>1, <3>2 DEF Books, SoundPlan, Pending
    <3>5. Accounted'
      BY <2>1, <2>3, <3>1, <3>2, <3>3 DEF Books, Accounted
    <3> QED
      BY <3>4, <3>5 DEF Books
  <2>4. CASE /\ cur' = None /\ step' = "next" /\ UNCHANGED failed
             /\ results' = [results EXCEPT ![ch.name] = "ok"]
    BY <2>3, <2>4
  <2>5. CASE /\ cur' = None /\ step' = "next" /\ failed' = TRUE
             /\ results' = [results EXCEPT ![ch.name] = "failed"]
    BY <2>3, <2>5
  <2> QED
    BY <1>8, <2>2, <2>4, <2>5, CarryBooks
<1>9. CASE Decline \/ Finish \/ Interrupt
  <2>1. /\ UNCHANGED <<snap, plan, results, failed>> /\ step' = "idle"
        /\ todo' \subseteq todo /\ cur' \in {cur, None}
        /\ cur' = None => None \notin todo'
    BY <1>9, NamesAssumption
    DEF Decline, Finish, Interrupt, TypeInv, TypeOK
  <2>2. None \notin plan
    BY NamesAssumption DEF TypeInv, TypeOK
  <2>3. SoundPlan' /\ Pending'
    BY <2>1, <2>2 DEF Books, SoundPlan, Pending
  <2>4. Accounted'
    BY <2>1 DEF Books, Accounted
  <2> QED
    BY <2>3, <2>4 DEF Books
<1>10. CASE Environment \/ UNCHANGED vars
  BY <1>1, <1>10
  DEF Environment, EditConfig, ContainerStops, OtherLoads, OtherCleans, OtherWrites,
      OtherStops, UnchangedButOther, vars, runState
<1> QED
  BY <1>2, <1>3, <1>4, <1>5, <1>6, <1>7, <1>8, <1>9, <1>10 DEF Next

-----------------------------------------------------------------------------
(* What the commands have put on the hosts. *)

\* The change being carried out has on its host what its commands put there.
SoFar ==
  Exclusive /\ cur # None =>
    LET here == host[cur.server][cur.name]
        want == snap[cur.name]
    IN  /\ step \in {"env", "up", "gate"} => here.comp = want.comp
        /\ step = "up" /\ cur.name \in Biz => here.side = want.side
        /\ step = "gate" => /\ cur.name \notin Biz
                            /\ here.run # None => here.run.comp = want.comp

\* A change with the result "ok" has its compose file there.
Uploads ==
  Exclusive =>
    \A s \in Svc : results[s] = "ok" =>
      snap[s] # None /\ host[snap[s].server][s].comp = snap[s].comp

Content == SoFar /\ Uploads /\ SuccessReplacesContainer

\* The files a command finds are those of its change.
LEMMA CarryFinds ==
  ASSUME TypeInv, Books, Fresh, Exclusive, NEW ch \in ServiceChange, Carry(ch)
  PROVE  /\ snap[ch.name] # None /\ ch.server = snap[ch.name].server
         /\ ch.entity = "service" <=> ch.name \in Biz
         /\ Files(ch) # None
         /\ Files(ch).comp = snap[ch.name].comp
         /\ ch.name \in Biz => Files(ch).side = snap[ch.name].side
<1>1. /\ ch \in plan /\ ch.name \in Svc /\ snap \in Configs
      /\ step \notin Planning \cup {"next"}
  BY CarryBooks DEF TypeInv, TypeOK, Configs, ServiceChange
<1>2. /\ snap[ch.name] # None /\ ch.server = snap[ch.name].server
      /\ ch.entity = "service" <=> ch.name \in Biz
  BY <1>1 DEF Books, SoundPlan
<1>3. local = Generate(snap) /\ ConfigDirIsCwd
  BY <1>1 DEF Fresh, Exclusive, Planning
<1>4. /\ Files(ch) # None
      /\ Files(ch).comp = snap[ch.name].comp
      /\ Files(ch).side = SideOf(snap, ch.name)
  BY <1>1, <1>2, <1>3, FoundFresh DEF Files
<1>5. ch.name \in Biz => SideOf(snap, ch.name) = snap[ch.name].side
  BY NamesAssumption DEF SideOf
<1> QED
  BY <1>2, <1>4, <1>5

\* What is there after a command, and after the last one when it succeeds.
LEMMA CarryContent ==
  ASSUME TypeInv, Books, Fresh, SoFar, Exclusive,
         NEW ch \in ServiceChange, Carry(ch)
  PROVE  LET here == host'[ch.server][ch.name]
             want == snap[ch.name]
         IN  /\ step' \in {"env", "up", "gate"} => here.comp = want.comp
             /\ step' = "up" /\ ch.name \in Biz => here.side = want.side
             /\ step' = "gate" => /\ ch.name \notin Biz
                                  /\ here.run # None => here.run.comp = want.comp
             /\ results'[ch.name] = "ok" =>
                  /\ here.comp = want.comp
                  /\ here.run # None =>
                       /\ here.run.comp = want.comp
                       /\ ch.name \in Biz => here.run.side = want.side
<1> DEFINE here == host'[ch.server][ch.name]
           want == snap[ch.name]
           Goal == /\ step' \in {"env", "up", "gate"} => here.comp = want.comp
                   /\ step' = "up" /\ ch.name \in Biz => here.side = want.side
                   /\ step' = "gate" =>
                        /\ ch.name \notin Biz
                        /\ here.run # None => here.run.comp = want.comp
                   /\ results'[ch.name] = "ok" =>
                        /\ here.comp = want.comp
                        /\ here.run # None =>
                             /\ here.run.comp = want.comp
                             /\ ch.name \in Biz => here.run.side = want.side
<1>1. /\ host \in HostType /\ ch.server \in Server /\ ch.name \in Svc
      /\ At(ch) \in Instance /\ At(ch) = host[ch.server][ch.name]
      /\ local \in LocalType
      /\ results \in [Svc -> {"ok", "failed", None}]
  BY DEF TypeInv, TypeOK, HostType, LocalType, ServiceChange, At
<1>2. /\ Files(ch) # None /\ Files(ch).comp = want.comp
      /\ ch.name \in Biz => Files(ch).side = want.side
      /\ ch.entity = "service" <=> ch.name \in Biz
  BY CarryFinds
<1>3. Files(ch).comp \in Comp /\ Files(ch).side \in SideFile
  BY <1>1, <1>2, FoundIs DEF Files, LocalFiles
<1>4. cur = ch /\ ch \in plan /\ results[ch.name] = None /\ None # "ok"
  BY CarryBooks, NamesAssumption DEF Books, Pending
<1>5. /\ step \in {"env", "up", "gate"} => At(ch).comp = want.comp
      /\ step = "up" /\ ch.name \in Biz => At(ch).side = want.side
      /\ step = "gate" => /\ ch.name \notin Biz
                          /\ At(ch).run # None => At(ch).run.comp = want.comp
  BY <1>1, <1>4, NamesAssumption DEF SoFar
<1>6. ASSUME Fail(ch) PROVE Goal
  BY <1>1, <1>6 DEF Fail
<1>7. CASE Prepare(ch)
  BY <1>4, <1>6, <1>7 DEF Prepare
<1>8. CASE CheckFile(ch)
  BY <1>2, <1>4, <1>8 DEF CheckFile
<1>9. CASE SyncCompose(ch) /\ ~Fail(ch)
  <2> DEFINE inst == [At(ch) EXCEPT !.comp = Files(ch).comp]
  <2>1. SetHost(ch, inst) /\ step' \in {"env", "up"} /\ UNCHANGED results
        /\ (step' = "env" <=> ch.entity = "service")
    BY <1>9 DEF SyncCompose
  <2>2. inst \in Instance /\ inst.comp = Files(ch).comp
    BY <1>1, <1>3 DEF Instance
  <2>3. here.comp = want.comp
    BY <1>1, <1>2, <2>1, <2>2, SetHostIs
  <2> QED
    BY <1>2, <1>4, <2>1, <2>3
<1>10. CASE SyncEnv(ch) /\ ~Fail(ch)
  <2> DEFINE inst == [At(ch) EXCEPT !.side = Files(ch).side]
  <2>1. SetHost(ch, inst) /\ step = "env" /\ step' = "up" /\ UNCHANGED results
    BY <1>2, <1>10 DEF SyncEnv
  <2>2. inst \in Instance /\ inst.comp = At(ch).comp /\ inst.side = Files(ch).side
    BY <1>1, <1>3 DEF Instance, Remote
  <2>3. here = inst
    BY <1>1, <2>1, <2>2, SetHostIs
  <2> QED
    BY <1>2, <1>4, <1>5, <2>1, <2>2, <2>3
<1>11. CASE Up(ch) /\ ~Fail(ch)
  <2> DEFINE new == [comp |-> At(ch).comp, side |-> Mounted(ch)]
             inst == [At(ch) EXCEPT !.side = Mounted(ch), !.run = new]
  <2>1. SetHost(ch, inst) /\ AfterCompose(ch) /\ step = "up"
    BY <1>11 DEF Up
  <2>2. Mounted(ch) \in Remote /\ At(ch).comp \in Comp
    BY <1>1, <1>2, <1>3, <1>5, <2>1 DEF Instance, Mounted, Remote
  <2>3. inst \in Instance /\ inst.comp = At(ch).comp /\ inst.run = new
    BY <1>1, <2>2 DEF Instance, Running
  <2>4. here = inst
    BY <1>1, <2>1, <2>3, SetHostIs
  <2>5. ch.name \in Biz => Mounted(ch) = want.side
    BY <1>2, <1>5, <2>1 DEF Mounted
  <2> QED
    BY <1>2, <1>4, <1>5, <2>1, <2>3, <2>4, <2>5 DEF AfterCompose, Succeed
<1>12. CASE SyncGate(ch) /\ ~Fail(ch)
  <2> DEFINE inst == [At(ch) EXCEPT !.side = Uploaded(ch)]
  <2>1. SetHost(ch, inst) /\ step = "gate" /\ step' = "next"
    BY <1>2, <1>12 DEF SyncGate, Succeed
  <2>2. /\ inst \in Instance /\ inst.comp = At(ch).comp /\ inst.run = At(ch).run
    BY <1>1, <1>3 DEF Instance, Remote, Uploaded
  <2>3. here = inst
    BY <1>1, <2>1, <2>2, SetHostIs
  <2> QED
    BY <1>5, <2>1, <2>2, <2>3
<1> QED
  BY <1>6, <1>7, <1>8, <1>9, <1>10, <1>11, <1>12 DEF Carry

LEMMA ContentStep ==
  TypeInv /\ Books /\ Fresh /\ Content /\ [Next]_vars => Content'
<1> SUFFICES ASSUME TypeInv, Books, Fresh, Content, [Next]_vars, Exclusive
             PROVE  Content'
  BY DEF Content, SoFar, Uploads, SuccessReplacesContainer, Exclusive
<1>1. CASE UNCHANGED <<host, snap, results>> /\ cur' = None
  BY <1>1 DEF Content, SoFar, Uploads, SuccessReplacesContainer
<1>2. CASE UNCHANGED <<host, snap, results, cur, step>>
  BY <1>2 DEF Content, SoFar, Uploads, SuccessReplacesContainer
<1>3. ASSUME NEW sc \in Scopes, Load(sc)
      PROVE  Content'
  <2>1. results' = NoResults /\ cur' = None /\ None # "ok"
    BY <1>3, NamesAssumption DEF Load
  <2> QED
    BY <2>1 DEF Content, SoFar, Uploads, SuccessReplacesContainer, NoResults
<1>4. ASSUME NEW ch \in ServiceChange, Begin(ch)
      PROVE  Content'
  <2>1. UNCHANGED <<host, snap, results>> /\ step' = "prepare"
    BY <1>4 DEF Begin, disk
  <2> QED
    BY <2>1 DEF Content, SoFar, Uploads, SuccessReplacesContainer
<1>5. ASSUME NEW v \in Server, NEW x \in Svc, ContainerStops(v, x)
      PROVE  Content'
  <2>1. UNCHANGED <<snap, results, cur, step>>
    BY <1>5 DEF ContainerStops, runState
  <2>2. ASSUME NEW w \in Server, NEW s \in Svc
        PROVE  /\ host'[w][s].comp = host[w][s].comp
               /\ host'[w][s].side = host[w][s].side
               /\ host'[w][s].run \in {None, host[w][s].run}
    BY <1>5, StopKeepsFiles
  <2>3. \A s \in Svc : snap[s] # None => snap[s].server \in Server
    BY DEF TypeInv, TypeOK, Entry
  <2>4. cur # None => cur.server \in Server /\ cur.name \in Svc
    BY DEF TypeInv, TypeOK, ServiceChange
  <2>5. SoFar'
    BY <2>1, <2>2, <2>4 DEF Content, SoFar
  <2>6. Uploads'
    BY <2>1, <2>2, <2>3 DEF Content, Uploads
  <2>7. SuccessReplacesContainer'
    BY <2>1, <2>2, <2>3 DEF Content, Uploads, SuccessReplacesContainer
  <2> QED
    BY <2>5, <2>6, <2>7 DEF Content
<1>6. ASSUME NEW ch \in ServiceChange, Carry(ch)
      PROVE  Content'
  <2> DEFINE here == host'[ch.server][ch.name]
             want == snap[ch.name]
  <2>1. /\ step' \in {"env", "up", "gate"} => here.comp = want.comp
        /\ step' = "up" /\ ch.name \in Biz => here.side = want.side
        /\ step' = "gate" => /\ ch.name \notin Biz
                             /\ here.run # None => here.run.comp = want.comp
        /\ results'[ch.name] = "ok" =>
             /\ here.comp = want.comp
             /\ here.run # None =>
                  /\ here.run.comp = want.comp
                  /\ ch.name \in Biz => here.run.side = want.side
    BY <1>6, CarryContent DEF Content
  <2>2. /\ cur' \in {ch, None}
        /\ UNCHANGED snap
        /\ snap[ch.name] # None /\ ch.server = snap[ch.name].server
    BY <1>6, CarryBooks, CarryFinds
  <2>3. \A s \in Svc \ {ch.name} :
          results'[s] = results[s] /\ \A v \in Server : host'[v][s] = host[v][s]
    <3>1. \A s \in Svc \ {ch.name} : results'[s] = results[s]
      <4>1. \/ UNCHANGED results
            \/ \E r \in {"ok", "failed"} : results' = [results EXCEPT ![ch.name] = r]
        BY <1>6, CarryBooks
      <4>2. results \in [Svc -> {"ok", "failed", None}]
        BY DEF TypeInv, TypeOK
      <4> QED
        BY <4>1, <4>2
    <3>2. \A v \in Server, s \in Svc :
            s # ch.name => host'[v][s] = host[v][s]
      BY <1>6, CarryTouches
    <3> QED
      BY <3>1, <3>2
  <2>4. \A s \in Svc : snap[s] # None => snap[s].server \in Server
    BY DEF TypeInv, TypeOK, Entry
  <2>5. SoFar'
    BY <2>1, <2>2 DEF SoFar
  <2>6. Uploads'
    <3> SUFFICES ASSUME NEW s \in Svc, results'[s] = "ok"
                 PROVE  snap[s] # None /\ host'[snap[s].server][s].comp = snap[s].comp
      BY <2>2 DEF Uploads
    <3>1. CASE s = ch.name
      BY <2>1, <2>2, <3>1
    <3>2. CASE s # ch.name
      BY <2>3, <2>4, <3>2 DEF Content, Uploads
    <3> QED
      BY <3>1, <3>2
  <2>7. SuccessReplacesContainer'
    <3> SUFFICES ASSUME NEW s \in Svc, results'[s] = "ok",
                        host'[snap[s].server][s].run # None
                 PROVE  LET up == host'[snap[s].server][s].run IN
                        /\ up.comp = snap[s].comp
                        /\ s \in Biz => up.side = snap[s].side
      BY <2>2 DEF SuccessReplacesContainer
    <3>1. CASE s = ch.name
      BY <2>1, <2>2, <3>1
    <3>2. CASE s # ch.name
      BY <2>3, <2>4, <3>2 DEF Content, Uploads, SuccessReplacesContainer
    <3> QED
      BY <3>1, <3>2
  <2> QED
    BY <2>5, <2>6, <2>7 DEF Content
<1>7. CASE Environment /\ ~\E v \in Server, s \in Svc : ContainerStops(v, s)
  BY <1>2, <1>7
  DEF Environment, EditConfig, OtherLoads, OtherCleans, OtherWrites, OtherStops,
      UnchangedButOther, runState
<1>8. CASE \/ CleanOutput \/ Generated \/ (\E s \in Svc : WriteFiles(s) \/ Observe(s))
           \/ MakePlan \/ Decline \/ Finish
           \/ \E others \in {"none", "ok", "failed"} : Confirm(others)
  <2>1. UNCHANGED <<host, snap, results, cur>>
    BY <1>8
    DEF CleanOutput, WriteFiles, Generated, UnchangedButFiles, Observe, MakePlan, Decline,
        Finish, Confirm, disk
  <2>2. step \in Planning \cup {"next"}
    BY <1>8
    DEF CleanOutput, WriteFiles, Generated, Observe, MakePlan, Decline, Finish, Confirm,
        Planning
  <2>3. cur = None
    BY <2>2 DEF TypeInv, TypeOK
  <2> QED
    BY <1>1, <2>1, <2>3
<1>9. CASE Interrupt
  BY <1>1, <1>9 DEF Interrupt, disk
<1>10. CASE UNCHANGED vars
  BY <1>2, <1>10 DEF vars, disk, runState
<1> QED
  BY <1>3, <1>4, <1>5, <1>6, <1>7, <1>8, <1>9, <1>10 DEF Next, Environment

-----------------------------------------------------------------------------
(* The theorems. *)

RunInv == Books /\ Fresh /\ Compared /\ Content

LEMMA RunInit == Init => RunInv
<1> SUFFICES ASSUME Init PROVE RunInv
  OBVIOUS
<1>1. None # "ok" /\ None # "failed"
  BY NamesAssumption
<1> QED
  BY <1>1
  DEF Init, RunInv, Books, SoundPlan, Pending, Accounted, Fresh, Compared, Content, SoFar,
      Uploads, SuccessReplacesContainer, NoResults

LEMMA RunStep == TypeInv /\ RunInv /\ [Next]_vars => RunInv'
BY BooksStep, FreshStep, ComparedStep, ContentStep DEF RunInv

\* A change reported successful leaves no container made from older files in its
\* place, whichever changes follow it and whatever is edited meanwhile.
THEOREM SuccessIsNew == Spec => []SuccessReplacesContainer
<1>1. RunInv => SuccessReplacesContainer
  BY DEF RunInv, Content
<1> QED
  BY <1>1, TypeInit, TypeStep, RunInit, RunStep, PTL DEF Spec

\* Only the end of a run without a failure replaces the state file, and then
\* every service in its scope was left alone with its file in place or has been
\* carried out with success.
LEMMA SaveStep ==
  ASSUME TypeInv, QuietMeansUploaded, RunInv, [Next]_vars,
         Exclusive, saved' # saved, NEW s \in Present(saved'),
         Covers(scope, saved', s)
  PROVE  host[saved'[s].server][s].comp = saved'[s].comp
<1>1. Finish /\ saved' = snap /\ ~failed
  BY DEF Next, Environment, EditConfig, ContainerStops, OtherLoads, OtherCleans,
         OtherWrites, OtherStops, UnchangedButOther, Load, CleanOutput, WriteFiles,
         Generated, UnchangedButFiles, Observe, MakePlan, Decline, Confirm, Begin, Carry,
         Prepare, CheckFile, SyncCompose, SyncEnv, Up, SyncGate, Finish, Interrupt, disk,
         vars
<1>2. /\ step = "next" /\ todo = {} /\ cur = None
      /\ s \in Svc /\ snap[s] # None /\ Covers(scope, snap, s)
  BY <1>1 DEF Finish, Present, TypeInv, TypeOK, Planning
<1>3. CASE Quiet(s)
  BY <1>1, <1>2, <1>3 DEF QuietMeansUploaded, Exclusive
<1>4. CASE ~Quiet(s)
  <2>1. PICK ch \in plan : ch.name = s
    BY <1>2, <1>4 DEF Quiet, Planned
  <2>2. None \notin plan /\ results[s] \in {"ok", "failed", None}
    BY <1>2, NamesAssumption DEF TypeInv, TypeOK
  <2>3. results[s] = "ok"
    BY <1>1, <1>2, <2>1, <2>2 DEF RunInv, Books, Accounted
  <2> QED
    BY <1>1, <1>2, <2>3 DEF RunInv, Content, Uploads
<1> QED
  BY <1>3, <1>4

\* The state file never claims a compose file that its host does not have, for
\* the services in the scope of the run that saved it.
THEOREM SavedIsThere == Spec => SaveMeansUploaded
<1>1. Init => QuietMeansUploaded
  BY DEF Init, QuietMeansUploaded
<1>2. TypeInv /\ QuietMeansUploaded /\ RunInv /\ [Next]_vars =>
        [(Exclusive /\ saved' # saved) =>
           \A s \in Present(saved') :
             Covers(scope, saved', s) =>
               host[saved'[s].server][s].comp = saved'[s].comp]_vars
  BY SaveStep
<1>3. RunInv => Compared
  BY DEF RunInv
<1> QED
  BY <1>1, <1>2, <1>3, TypeInit, TypeStep, QuietStep, RunInit, RunStep, PTL
  DEF Spec, SaveMeansUploaded
=============================================================================
