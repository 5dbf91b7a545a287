---------------------------- MODULE ReconcileProofs ----------------------------
(***************************************************************************)
(* What the planner promises of every configuration, every state and every *)
(* scope: a plan is what is left to do, and nothing else.  The plan is     *)
(* taken apart into the changes of each kind of entity, which look at the  *)
(* map of their own kind only.                                             *)
(***************************************************************************)
EXTENDS Reconcile, TLAPS

ServiceKinds == {"services", "infraServices"}

EntityOf(kind) ==
  CASE kind = "isps"          -> "isp"
    [] kind = "zones"         -> "zone"
    [] kind = "domains"       -> "domain"
    [] kind = "records"       -> "dns_record"
    [] kind = "servers"       -> "server"
    [] kind = "services"      -> "service"
    [] kind = "infraServices" -> "infra_service"

\* Whether an entity is in scope, m being the map of its kind in the state.
ZoneNow(c, m, n) ==
  IF n \in DOMAIN c.servers
    THEN IF c.servers[n].zone \in DOMAIN c.zones THEN c.servers[n].zone ELSE Unset
    ELSE m[n].zone
Home(kind, c, m, n) == IF n \in DOMAIN c[kind] THEN c[kind][n].server ELSE m[n].server

InScopeOf(kind, c, m, sc, n) ==
  CASE kind \in {"isps", "domains"} -> Matches(sc, Unset, Unset, Unset, Unset)
    [] kind = "zones"    -> Matches(sc, n, Unset, Unset, Unset)
    [] kind = "records"  -> RecordInScope(sc, n)
    [] kind = "servers"  -> Matches(sc, ZoneNow(c, m, n), n, Unset, Unset)
    [] kind = "services" ->
         Matches(sc, ZoneOf(c.servers, Home(kind, c, m, n)), Home(kind, c, m, n), n, Unset)
    [] kind = "infraServices" ->
         MatchesInfra(sc, ZoneOf(c.servers, Home(kind, c, m, n)), Home(kind, c, m, n), n)

Planned(kind, sc) ==
  CASE kind = "services"      -> PlansServices(sc)
    [] kind = "infraServices" -> PlansInfraServices(sc)
    [] OTHER                  -> ~HasAnyServiceSelection(sc)

\* The entities a run may change.
Chosen(kind, c, m, sc) ==
  {n \in DOMAIN Desired(c)[kind] \cup DOMAIN m :
     Planned(kind, sc) /\ InScopeOf(kind, c, m, sc, n)}

\* The changes of one kind among the entities chosen.
Changes(kind, want, m, chosen, force) ==
  IF kind \in ServiceKinds
    THEN ServiceChanges(EntityOf(kind), want, m, chosen \cap DOMAIN want,
                        (chosen \cap DOMAIN m) \ DOMAIN want, force)
    ELSE SimpleChanges(EntityOf(kind), want, m, chosen)

Part(kind, c, m, sc) ==
  Changes(kind, Desired(c)[kind], m, Chosen(kind, c, m, sc), sc.forceDeploy)
-----------------------------------------------------------------------------
LEMMA ChangeFields ==
  ASSUME NEW t, NEW e, NEW n, NEW v
  PROVE  /\ Change(t, e, n, v).type = t /\ Change(t, e, n, v).entity = e
         /\ Change(t, e, n, v).name = n /\ Change(t, e, n, v).server = v
BY DEF Change

\* A change of an entity without a server.
IsSimple(ch, e, want, m, chosen) ==
  /\ ch = Change(ch.type, e, ch.name, Unset) /\ ch.entity = e
  /\ ch.name \in chosen
  /\ \/ ch.type = "delete" /\ ch.name \in DOMAIN m \ DOMAIN want
     \/ ch.type = "update" /\ ch.name \in DOMAIN m \cap DOMAIN want
          /\ m[ch.name] # want[ch.name]
     \/ ch.type = "create" /\ ch.name \in DOMAIN want \ DOMAIN m

LEMMA Simple ==
  ASSUME NEW e, NEW want, NEW m, NEW chosen, NEW ch
  PROVE  ch \in SimpleChanges(e, want, m, chosen) <=> IsSimple(ch, e, want, m, chosen)
<1> DEFINE of(t, n) == Change(t, e, n, Unset)
<1>1. ch \in SimpleChanges(e, want, m, chosen) <=>
        \E n \in chosen :
          \/ ch = of("delete", n) /\ n \in DOMAIN m \ DOMAIN want
          \/ ch = of("update", n) /\ n \in DOMAIN m \cap DOMAIN want /\ m[n] # want[n]
          \/ ch = of("create", n) /\ n \in DOMAIN want \ DOMAIN m
  BY DEF SimpleChanges
<1>2. \A t, n : of(t, n).type = t /\ of(t, n).entity = e /\ of(t, n).name = n
  BY ChangeFields
<1>3. IsSimple(ch, e, want, m, chosen) <=>
        /\ ch = of(ch.type, ch.name) /\ ch.entity = e /\ ch.name \in chosen
        /\ \/ ch.type = "delete" /\ ch.name \in DOMAIN m \ DOMAIN want
           \/ ch.type = "update" /\ ch.name \in DOMAIN m \cap DOMAIN want
                /\ m[ch.name] # want[ch.name]
           \/ ch.type = "create" /\ ch.name \in DOMAIN want \ DOMAIN m
  BY DEF IsSimple
<1> HIDE DEF of
<1> QED
  BY <1>1, <1>2, <1>3

\* A change of a service, which has the server it is carried out on.
IsService(ch, e, want, m, chosen, gone, force) ==
  /\ ch = Change(ch.type, e, ch.name, ch.server) /\ ch.entity = e
  /\ \/ ch.type = "delete" /\ ch.name \in gone /\ ch.server = m[ch.name].server
     \/ /\ ch.type = "update" /\ ch.name \in chosen \cap DOMAIN m
        /\ m[ch.name] # want[ch.name] /\ ch.server = m[ch.name].server
     \/ /\ ch.type = "create" /\ ch.name \in chosen \cap DOMAIN m
        /\ m[ch.name] = want[ch.name] /\ force /\ ch.server = m[ch.name].server
     \/ ch.type = "create" /\ ch.name \in chosen \ DOMAIN m /\ ch.server = want[ch.name].server

LEMMA Service ==
  ASSUME NEW e, NEW want, NEW m, NEW chosen, NEW gone, NEW force, NEW ch
  PROVE  ch \in ServiceChanges(e, want, m, chosen, gone, force) <=>
           IsService(ch, e, want, m, chosen, gone, force)
<1> DEFINE of(t, n, v) == Change(t, e, n, v)
<1>1. ch \in ServiceChanges(e, want, m, chosen, gone, force) <=>
        \/ \E n \in gone : ch = of("delete", n, m[n].server)
        \/ \E n \in chosen \cap DOMAIN m :
             m[n] # want[n] /\ ch = of("update", n, m[n].server)
        \/ \E n \in chosen \cap DOMAIN m :
             m[n] = want[n] /\ force /\ ch = of("create", n, m[n].server)
        \/ \E n \in chosen \ DOMAIN m : ch = of("create", n, want[n].server)
  BY DEF ServiceChanges
<1>2. \A t, n, v : /\ of(t, n, v).type = t /\ of(t, n, v).entity = e
                   /\ of(t, n, v).name = n /\ of(t, n, v).server = v
  BY ChangeFields
<1>3. IsService(ch, e, want, m, chosen, gone, force) <=>
        /\ ch = of(ch.type, ch.name, ch.server) /\ ch.entity = e
        /\ \/ ch.type = "delete" /\ ch.name \in gone /\ ch.server = m[ch.name].server
           \/ /\ ch.type = "update" /\ ch.name \in chosen \cap DOMAIN m
              /\ m[ch.name] # want[ch.name] /\ ch.server = m[ch.name].server
           \/ /\ ch.type = "create" /\ ch.name \in chosen \cap DOMAIN m
              /\ m[ch.name] = want[ch.name] /\ force /\ ch.server = m[ch.name].server
           \/ /\ ch.type = "create" /\ ch.name \in chosen \ DOMAIN m
              /\ ch.server = want[ch.name].server
  BY DEF IsService
<1> HIDE DEF of
<1> QED
  BY <1>1, <1>2, <1>3
-----------------------------------------------------------------------------
(* The changes of one kind. *)

\* What makes d one of them: no two are of one entity.
IsChange(d, kind, want, m, chosen, force) ==
  /\ d = Change(d.type, EntityOf(kind), d.name, d.server)
  /\ d.entity = EntityOf(kind) /\ d.name \in chosen
  /\ d.server = IF kind \notin ServiceKinds THEN Unset
                ELSE IF d.name \in DOMAIN m THEN m[d.name].server ELSE want[d.name].server
  /\ \/ d.type = "delete" /\ d.name \in DOMAIN m \ DOMAIN want
     \/ d.type = "update" /\ d.name \in DOMAIN m \cap DOMAIN want
          /\ m[d.name] # want[d.name]
     \/ d.type = "create" /\ d.name \in DOMAIN m \cap DOMAIN want
          /\ m[d.name] = want[d.name] /\ force /\ kind \in ServiceKinds
     \/ d.type = "create" /\ d.name \in DOMAIN want \ DOMAIN m

LEMMA ChangesAre ==
  ASSUME NEW kind, NEW want, NEW m, NEW chosen, NEW force, NEW d
  PROVE  d \in Changes(kind, want, m, chosen, force) <=>
           IsChange(d, kind, want, m, chosen, force)
<1>1. CASE kind \in ServiceKinds
  <2>1. d \in Changes(kind, want, m, chosen, force) <=>
          IsService(d, EntityOf(kind), want, m, chosen \cap DOMAIN want,
                    (chosen \cap DOMAIN m) \ DOMAIN want, force)
    BY <1>1, Service DEF Changes
  <2> QED
    BY <1>1, <2>1 DEF IsService, IsChange
<1>2. CASE kind \notin ServiceKinds
  <2>1. d \in Changes(kind, want, m, chosen, force) <=>
          IsSimple(d, EntityOf(kind), want, m, chosen)
    BY <1>2, Simple DEF Changes
  <2>2. ASSUME IsSimple(d, EntityOf(kind), want, m, chosen) PROVE d.server = Unset
    BY <2>2, ChangeFields DEF IsSimple
  <2> QED
    BY <1>2, <2>1, <2>2 DEF IsSimple, IsChange
<1> QED
  BY <1>1, <1>2

\* A map after one of its entities was changed as the configuration wants it.
After(want, m, ch) ==
  IF ch.type = "delete" THEN Drop(m, ch.name) ELSE Put(m, ch.name, want[ch.name])

LEMMA AfterHas ==
  ASSUME NEW want, NEW m, NEW ch
  PROVE  /\ IsMap(After(want, m, ch))
         /\ ch.type = "delete" => DOMAIN After(want, m, ch) = DOMAIN m \ {ch.name}
         /\ ch.type # "delete" => DOMAIN After(want, m, ch) = DOMAIN m \cup {ch.name}
<1>1. CASE ch.type = "delete"
  BY <1>1 DEF After, Drop, IsMap
<1>2. CASE ch.type # "delete"
  BY <1>2 DEF After, Put, IsMap
<1> QED
  BY <1>1, <1>2

LEMMA AfterAt ==
  ASSUME NEW want, NEW m, NEW ch, NEW n
  PROVE  /\ n \in DOMAIN m /\ n # ch.name => After(want, m, ch)[n] = m[n]
         /\ n = ch.name /\ ch.type # "delete" => After(want, m, ch)[n] = want[n]
<1>1. CASE ch.type = "delete"
  BY <1>1 DEF After, Drop
<1>2. CASE ch.type # "delete"
  BY <1>2 DEF After, Put
<1> QED
  BY <1>1, <1>2

\* Once one of the changes is carried out the others are left, and no new one.
LEMMA ChangesRest ==
  ASSUME NEW kind, NEW want, NEW m, NEW chosen, NEW left, NEW force, ~force,
         NEW ch \in Changes(kind, want, m, chosen, force),
         \A n \in (DOMAIN want \cup DOMAIN m) \ {ch.name} : n \in left <=> n \in chosen
  PROVE  Changes(kind, want, After(want, m, ch), left, force) =
           Changes(kind, want, m, chosen, force) \ {ch}
<1> DEFINE t == After(want, m, ch)
<1>1. IsChange(ch, kind, want, m, chosen, force)
  BY ChangesAre
<1>2. /\ ch.type = "delete" => DOMAIN t = DOMAIN m \ {ch.name}
      /\ ch.type # "delete" => DOMAIN t = DOMAIN m \cup {ch.name}
  BY AfterHas
<1>3. \A n : /\ n \in DOMAIN m /\ n # ch.name => t[n] = m[n]
             /\ n = ch.name /\ ch.type # "delete" => t[n] = want[n]
  BY AfterAt
<1> HIDE DEF t
<1> SUFFICES ASSUME NEW d
             PROVE  IsChange(d, kind, want, t, left, force) <=>
                      IsChange(d, kind, want, m, chosen, force) /\ d # ch
  BY ChangesAre DEF t
<1>4. CASE d.name = ch.name
  <2>1. ~IsChange(d, kind, want, t, left, force)
    BY <1>1, <1>2, <1>4, <1>3 DEF IsChange
  <2>2. IsChange(d, kind, want, m, chosen, force) => d = ch
    BY <1>1, <1>4 DEF IsChange
  <2> QED
    BY <2>1, <2>2
<1>5. CASE d.name # ch.name
  BY <1>1, <1>2, <1>5, <1>3 DEF IsChange
<1> QED
  BY <1>4, <1>5

\* Where no entity of the two maps is changed although all are chosen, the maps are
\* the same.
LEMMA NothingToChange ==
  ASSUME NEW kind, NEW want, NEW m, NEW chosen, NEW force, IsMap(want), IsMap(m),
         DOMAIN want \cup DOMAIN m \subseteq chosen,
         Changes(kind, want, m, chosen, force) = {}
  PROVE  m = want
<1> DEFINE of(t, n) ==
      Change(t, EntityOf(kind), n,
             IF kind \notin ServiceKinds THEN Unset
             ELSE IF n \in DOMAIN m THEN m[n].server ELSE want[n].server)
<1>1. \A t, n : ~IsChange(of(t, n), kind, want, m, chosen, force)
  BY ChangesAre
<1>2. \A t, n : /\ of(t, n) = Change(of(t, n).type, EntityOf(kind), of(t, n).name,
                                    of(t, n).server)
               /\ of(t, n).type = t /\ of(t, n).name = n
               /\ of(t, n).entity = EntityOf(kind)
               /\ of(t, n).server =
                    IF kind \notin ServiceKinds THEN Unset
                    ELSE IF n \in DOMAIN m THEN m[n].server ELSE want[n].server
  BY ChangeFields
<1> HIDE DEF of
<1>3. DOMAIN m \subseteq DOMAIN want
  <2> SUFFICES ASSUME NEW n \in DOMAIN m \ DOMAIN want PROVE FALSE
    OBVIOUS
  <2>1. ~IsChange(of("delete", n), kind, want, m, chosen, force)
    BY <1>1
  <2> QED
    BY <2>1, <1>2 DEF IsChange
<1>4. DOMAIN want \subseteq DOMAIN m
  <2> SUFFICES ASSUME NEW n \in DOMAIN want \ DOMAIN m PROVE FALSE
    OBVIOUS
  <2>1. ~IsChange(of("create", n), kind, want, m, chosen, force)
    BY <1>1
  <2> QED
    BY <2>1, <1>2 DEF IsChange
<1>5. ASSUME NEW n \in DOMAIN want PROVE m[n] = want[n]
  <2>1. ~IsChange(of("update", n), kind, want, m, chosen, force)
    BY <1>1
  <2> QED
    BY <2>1, <1>2, <1>4 DEF IsChange
<1> QED
  BY <1>3, <1>4, <1>5 DEF IsMap

\* The changes of fewer entities are those of the changes that name one of them.
LEMMA ChangesOfFewer ==
  ASSUME NEW kind, NEW want, NEW m, NEW chosen, NEW fewer, NEW force, fewer \subseteq chosen
  PROVE  Changes(kind, want, m, fewer, force) =
           {d \in Changes(kind, want, m, chosen, force) : d.name \in fewer}
<1> SUFFICES ASSUME NEW d
             PROVE  IsChange(d, kind, want, m, fewer, force) <=>
                      IsChange(d, kind, want, m, chosen, force) /\ d.name \in fewer
  BY ChangesAre
<1> QED
  BY DEF IsChange
-----------------------------------------------------------------------------
(* The plan and its parts. *)

LEMMA Entities ==
  /\ \A kind \in Kinds : KindOf(EntityOf(kind)) = kind
  /\ \A kind \in Kinds :
       EntityOf(kind) \in {"server", "service", "infra_service"} <=>
         kind \in ServiceKinds \cup {"servers"}
BY DEF Kinds, KindOf, EntityOf, ServiceKinds

LEMMA DesiredIs ==
  ASSUME NEW c, IsState(c)
  PROVE  /\ IsState(Desired(c))
         /\ Desired(c)["records"] = RecordMap(c.records)
         /\ \A kind \in Kinds \ {"records"} : Desired(c)[kind] = c[kind]
<1>1. IsMap(RecordMap(c.records))
  BY DEF IsMap, RecordMap
<1> QED
  BY <1>1 DEF IsState, IsMap, Desired, Kinds

\* The changes of a kind that is not planned.
LEMMA NothingPlanned ==
  ASSUME NEW kind, NEW c, NEW m, NEW sc, ~Planned(kind, sc)
  PROVE  Part(kind, c, m, sc) = {}
<1>1. Chosen(kind, c, m, sc) = {}
  BY DEF Chosen
<1> QED
  BY <1>1, ChangesAre DEF Part, IsChange

\* What Plan asks of the kinds whose changes have no server.
SimplePlan(c, st, sc) ==
  SimpleChanges("isp", c.isps, st.isps,
    {n \in DOMAIN c.isps \cup DOMAIN st.isps : Matches(sc, Unset, Unset, Unset, Unset)})
  \cup SimpleChanges("zone", c.zones, st.zones,
    {n \in DOMAIN c.zones \cup DOMAIN st.zones : Matches(sc, n, Unset, Unset, Unset)})
  \cup SimpleChanges("domain", c.domains, st.domains,
    {n \in DOMAIN c.domains \cup DOMAIN st.domains :
       Matches(sc, Unset, Unset, Unset, Unset)})
  \cup SimpleChanges("dns_record", RecordMap(c.records), st.records,
    {k \in DOMAIN RecordMap(c.records) \cup DOMAIN st.records : RecordInScope(sc, k)})
  \cup SimpleChanges("server", c.servers, st.servers,
    {n \in DOMAIN c.servers \cup DOMAIN st.servers : ServerInScope(c, st, sc, n)})

LEMMA SimpleParts ==
  ASSUME NEW c, NEW st, NEW sc, IsState(c), IsState(st), ~HasAnyServiceSelection(sc)
  PROVE  Part("isps", c, st.isps, sc) \cup Part("zones", c, st.zones, sc)
         \cup Part("domains", c, st.domains, sc) \cup Part("records", c, st.records, sc)
         \cup Part("servers", c, st.servers, sc) = SimplePlan(c, st, sc)
<1> USE DesiredIs DEF Part, Changes, Chosen, Planned, InScopeOf, EntityOf, ServiceKinds, Kinds
<1>1. Part("isps", c, st.isps, sc) =
        SimpleChanges("isp", c.isps, st.isps,
          {n \in DOMAIN c.isps \cup DOMAIN st.isps : Matches(sc, Unset, Unset, Unset, Unset)})
  OBVIOUS
<1>2. Part("zones", c, st.zones, sc) =
        SimpleChanges("zone", c.zones, st.zones,
          {n \in DOMAIN c.zones \cup DOMAIN st.zones : Matches(sc, n, Unset, Unset, Unset)})
  OBVIOUS
<1>3. Part("domains", c, st.domains, sc) =
        SimpleChanges("domain", c.domains, st.domains,
          {n \in DOMAIN c.domains \cup DOMAIN st.domains :
             Matches(sc, Unset, Unset, Unset, Unset)})
  OBVIOUS
<1>4. Part("records", c, st.records, sc) =
        SimpleChanges("dns_record", RecordMap(c.records), st.records,
          {k \in DOMAIN RecordMap(c.records) \cup DOMAIN st.records : RecordInScope(sc, k)})
  OBVIOUS
<1>5. Part("servers", c, st.servers, sc) =
        SimpleChanges("server", c.servers, st.servers,
          {n \in DOMAIN c.servers \cup DOMAIN st.servers : ServerInScope(c, st, sc, n)})
  BY DEF ServerInScope, ZoneNow
<1> QED
  BY <1>1, <1>2, <1>3, <1>4, <1>5, Zenon DEF SimplePlan

\* The parts of the services: a service is in scope by the server it is at home on.
LEMMA ServicePart ==
  ASSUME NEW c, NEW st, NEW sc, IsState(c), IsState(st)
  PROVE  Part("services", c, st.services, sc) =
           ServicePlan(c.services, st.services, c.servers, sc)
<1> DEFINE chosen == Chosen("services", c, st.services, sc)
           now == {n \in DOMAIN c.services :
                    Matches(sc, ZoneOf(c.servers, c.services[n].server), c.services[n].server, n, Unset)}
           gone == {n \in DOMAIN st.services \ DOMAIN c.services :
                    Matches(sc, ZoneOf(c.servers, st.services[n].server), st.services[n].server, n, Unset)}
<1>1. Desired(c)["services"] = c.services
  BY DesiredIs DEF Kinds
<1>2. CASE PlansServices(sc)
  <2>1. chosen \cap DOMAIN c.services = now
    BY <1>1, <1>2 DEF Chosen, Planned, InScopeOf, Home
  <2>2. (chosen \cap DOMAIN st.services) \ DOMAIN c.services = gone
    BY <1>1, <1>2 DEF Chosen, Planned, InScopeOf, Home
  <2>3. ServicePlan(c.services, st.services, c.servers, sc) =
          ServiceChanges("service", c.services, st.services, now, gone, sc.forceDeploy)
    BY <1>2 DEF ServicePlan
  <2>4. Part("services", c, st.services, sc) =
          ServiceChanges("service", c.services, st.services, chosen \cap DOMAIN c.services,
            (chosen \cap DOMAIN st.services) \ DOMAIN c.services, sc.forceDeploy)
    BY <1>1 DEF Part, Changes, ServiceKinds, EntityOf
  <2> QED
    BY <2>1, <2>2, <2>3, <2>4
<1>3. CASE ~PlansServices(sc)
  <2>1. Part("services", c, st.services, sc) = {}
    BY <1>3, NothingPlanned DEF Planned
  <2> QED
    BY <1>3, <2>1 DEF ServicePlan
<1> QED
  BY <1>2, <1>3

LEMMA InfraPart ==
  ASSUME NEW c, NEW st, NEW sc, IsState(c), IsState(st)
  PROVE  Part("infraServices", c, st.infraServices, sc) =
           InfraPlan(c.infraServices, st.infraServices, c.servers, sc)
<1> DEFINE chosen == Chosen("infraServices", c, st.infraServices, sc)
           now == {n \in DOMAIN c.infraServices :
                    MatchesInfra(sc, ZoneOf(c.servers, c.infraServices[n].server), c.infraServices[n].server, n)}
           gone == {n \in DOMAIN st.infraServices \ DOMAIN c.infraServices :
                    MatchesInfra(sc, ZoneOf(c.servers, st.infraServices[n].server), st.infraServices[n].server, n)}
<1>1. Desired(c)["infraServices"] = c.infraServices
  BY DesiredIs DEF Kinds
<1>2. CASE PlansInfraServices(sc)
  <2>1. chosen \cap DOMAIN c.infraServices = now
    BY <1>1, <1>2 DEF Chosen, Planned, InScopeOf, Home
  <2>2. (chosen \cap DOMAIN st.infraServices) \ DOMAIN c.infraServices = gone
    BY <1>1, <1>2 DEF Chosen, Planned, InScopeOf, Home
  <2>3. InfraPlan(c.infraServices, st.infraServices, c.servers, sc) =
          ServiceChanges("infra_service", c.infraServices, st.infraServices, now, gone, sc.forceDeploy)
    BY <1>2 DEF InfraPlan
  <2>4. Part("infraServices", c, st.infraServices, sc) =
          ServiceChanges("infra_service", c.infraServices, st.infraServices, chosen \cap DOMAIN c.infraServices,
            (chosen \cap DOMAIN st.infraServices) \ DOMAIN c.infraServices, sc.forceDeploy)
    BY <1>1 DEF Part, Changes, ServiceKinds, EntityOf
  <2> QED
    BY <2>1, <2>2, <2>3, <2>4
<1>3. CASE ~PlansInfraServices(sc)
  <2>1. Part("infraServices", c, st.infraServices, sc) = {}
    BY <1>3, NothingPlanned DEF Planned
  <2> QED
    BY <1>3, <2>1 DEF InfraPlan
<1> QED
  BY <1>2, <1>3

LEMMA PlanParts ==
  ASSUME NEW c, NEW st, NEW sc, IsState(c), IsState(st)
  PROVE  Plan(c, st, sc) = UNION {Part(kind, c, st[kind], sc) : kind \in Kinds}
<1>1. UNION {Part(kind, c, st[kind], sc) : kind \in Kinds} =
        Part("isps", c, st.isps, sc) \cup Part("zones", c, st.zones, sc)
        \cup Part("domains", c, st.domains, sc) \cup Part("records", c, st.records, sc)
        \cup Part("servers", c, st.servers, sc) \cup Part("services", c, st.services, sc)
        \cup Part("infraServices", c, st.infraServices, sc)
  BY DEF Kinds
<1>2. CASE HasAnyServiceSelection(sc)
  <2>1. /\ Part("isps", c, st.isps, sc) = {} /\ Part("zones", c, st.zones, sc) = {}
        /\ Part("domains", c, st.domains, sc) = {} /\ Part("records", c, st.records, sc) = {}
        /\ Part("servers", c, st.servers, sc) = {}
    BY <1>2, NothingPlanned DEF Planned
  <2> QED
    BY <1>1, <1>2, <2>1, ServicePart, InfraPart DEF Plan
<1>3. CASE ~HasAnyServiceSelection(sc)
  <2>1. Plan(c, st, sc) =
          SimplePlan(c, st, sc)
          \cup ServicePlan(c.services, st.services, c.servers, sc)
          \cup InfraPlan(c.infraServices, st.infraServices, c.servers, sc)
    BY <1>3, Zenon DEF Plan, SimplePlan
  <2> QED
    BY <1>1, <1>3, <2>1, SimpleParts, ServicePart, InfraPart
<1> QED
  BY <1>2, <1>3

\* A change is of the kind whose part it is in.
LEMMA KindsOfChanges ==
  ASSUME NEW c, NEW m, NEW sc, NEW kind \in Kinds, NEW ch \in Part(kind, c, m, sc)
  PROVE  ch.entity = EntityOf(kind) /\ KindOf(ch.entity) = kind
BY ChangesAre, Entities DEF Part, IsChange

\* What a change does to a state.
LEMMA EffectIs ==
  ASSUME NEW c, NEW st, IsState(st), NEW ch, NEW kind \in Kinds, KindOf(ch.entity) = kind
  PROVE  /\ IsState(Effect(c, st, ch))
         /\ Effect(c, st, ch)[kind] = After(Desired(c)[kind], st[kind], ch)
         /\ \A other \in Kinds \ {kind} : Effect(c, st, ch)[other] = st[other]
<1>1. Effect(c, st, ch) = [st EXCEPT ![kind] = After(Desired(c)[kind], st[kind], ch)]
  BY DEF Effect, After, IsState
<1>2. IsMap(After(Desired(c)[kind], st[kind], ch))
  BY AfterHas
<1> DEFINE t == After(Desired(c)[kind], st[kind], ch)
<1> HIDE DEF t
<1>3. st = [k \in Kinds |-> st[k]] /\ \A k \in Kinds : IsMap(st[k])
  BY DEF IsState, IsMap
<1>4. Effect(c, st, ch) = [k \in Kinds |-> IF k = kind THEN t ELSE st[k]]
  BY <1>1, <1>3 DEF t
<1>5. IsMap(t)
  BY <1>2 DEF t
<1>6. /\ DOMAIN Effect(c, st, ch) = Kinds /\ Effect(c, st, ch)[kind] = t
      /\ \A k \in Kinds \ {kind} : Effect(c, st, ch)[k] = st[k]
  BY <1>4
<1>7. IsMap(Effect(c, st, ch))
  BY <1>4 DEF IsMap
<1>8. \A k \in Kinds : IsMap(Effect(c, st, ch)[k])
  BY <1>3, <1>5, <1>6
<1> QED
  BY <1>6, <1>7, <1>8 DEF IsState, t

\* Whether an entity is in scope does not depend on the others.
LEMMA ScopeOfOne ==
  ASSUME NEW c, IsState(c), NEW kind \in Kinds, NEW m, NEW t, NEW sc, NEW n,
         n \in DOMAIN Desired(c)[kind] \/ t[n] = m[n]
  PROVE  InScopeOf(kind, c, t, sc, n) <=> InScopeOf(kind, c, m, sc, n)
<1>1. CASE kind \in ServiceKinds
  <2>1. Home(kind, c, t, n) = Home(kind, c, m, n)
    BY <1>1, DesiredIs DEF Home, ServiceKinds, Kinds
  <2> QED
    BY <1>1, <2>1 DEF InScopeOf, ServiceKinds
<1>2. CASE kind = "servers"
  <2>1. ZoneNow(c, t, n) = ZoneNow(c, m, n)
    BY <1>2, DesiredIs DEF ZoneNow, Kinds
  <2> QED
    BY <1>2, <2>1 DEF InScopeOf
<1>3. CASE kind \notin ServiceKinds \cup {"servers"}
  BY <1>3 DEF InScopeOf, ServiceKinds, Kinds
<1> QED
  BY <1>1, <1>2, <1>3

\* The part of a kind, once one of its changes is carried out, is the rest of it: no
\* other entity comes into scope or leaves it.
LEMMA PartRest ==
  ASSUME NEW c, IsState(c), NEW m, NEW sc, ~sc.forceDeploy, NEW kind \in Kinds,
         NEW ch \in Part(kind, c, m, sc)
  PROVE  Part(kind, c, After(Desired(c)[kind], m, ch), sc) = Part(kind, c, m, sc) \ {ch}
<1> DEFINE want == Desired(c)[kind]
           t == After(want, m, ch)
<1>1. /\ ch.type = "delete" => DOMAIN t = DOMAIN m \ {ch.name}
      /\ ch.type # "delete" => DOMAIN t = DOMAIN m \cup {ch.name}
  BY AfterHas
<1>2. \A n : n \in DOMAIN m /\ n # ch.name => t[n] = m[n]
  BY AfterAt
<1> HIDE DEF want, t
<1>3. ASSUME NEW n \in DOMAIN want \cup DOMAIN m, n # ch.name
      PROVE  InScopeOf(kind, c, t, sc, n) <=> InScopeOf(kind, c, m, sc, n)
  BY <1>2, <1>3, ScopeOfOne DEF want
<1>4. ASSUME NEW n \in (DOMAIN want \cup DOMAIN m) \ {ch.name}
      PROVE  n \in Chosen(kind, c, t, sc) <=> n \in Chosen(kind, c, m, sc)
  BY <1>1, <1>3, <1>4 DEF Chosen, want
<1> QED
  BY <1>4, ChangesRest DEF Part, want, t

\* Carrying out one change of a plan leaves the rest of the plan to be done.
LEMMA PlanRest ==
  ASSUME NEW c, NEW st, NEW sc, IsState(c), IsState(st), ~sc.forceDeploy,
         NEW ch \in Plan(c, st, sc)
  PROVE  Plan(c, Effect(c, st, ch), sc) = Plan(c, st, sc) \ {ch}
<1> DEFINE new == Effect(c, st, ch)
<1> PICK kind \in Kinds : ch \in Part(kind, c, st[kind], sc)
  BY PlanParts
<1>1. KindOf(ch.entity) = kind
  BY KindsOfChanges
<1>2. /\ IsState(new) /\ new[kind] = After(Desired(c)[kind], st[kind], ch)
      /\ \A other \in Kinds \ {kind} : new[other] = st[other]
  BY <1>1, EffectIs
<1> HIDE DEF new
<1>3. ASSUME NEW other \in Kinds
      PROVE  Part(other, c, new[other], sc) = Part(other, c, st[other], sc) \ {ch}
  <2>1. CASE other = kind
    BY <1>2, <2>1, PartRest
  <2>2. CASE other # kind
    BY <1>1, <1>2, <2>2, KindsOfChanges
  <2> QED
    BY <2>1, <2>2
<1>4. \A d : d \in Plan(c, new, sc) <=> \E other \in Kinds : d \in Part(other, c, new[other], sc)
  BY <1>2, PlanParts
<1>5. \A d : d \in Plan(c, st, sc) <=> \E other \in Kinds : d \in Part(other, c, st[other], sc)
  BY PlanParts
<1>6. Plan(c, new, sc) = Plan(c, st, sc) \ {ch}
  BY <1>3, <1>4, <1>5
<1> QED
  BY <1>6 DEF new

\* A change has a type and a kind, and what is not deleted is in the configuration.
Sensible(c, ch) ==
  /\ ch.type \in {"create", "update", "delete"} /\ KindOf(ch.entity) \in Kinds
  /\ ch.type # "delete" => ch.name \in DOMAIN Desired(c)[KindOf(ch.entity)]

\* No plan has two changes of one entity.
LEMMA OneChangeEach ==
  ASSUME NEW c, NEW st, NEW sc, IsState(c), IsState(st)
  PROVE  /\ \A ch \in Plan(c, st, sc) : Sensible(c, ch)
         /\ \A a, b \in Plan(c, st, sc) : a.entity = b.entity /\ a.name = b.name => a = b
<1>1. ASSUME NEW ch \in Plan(c, st, sc)
      PROVE  \E kind \in Kinds :
               /\ ch \in Part(kind, c, st[kind], sc) /\ KindOf(ch.entity) = kind
               /\ IsChange(ch, kind, Desired(c)[kind], st[kind],
                           Chosen(kind, c, st[kind], sc), sc.forceDeploy)
  BY PlanParts, KindsOfChanges, ChangesAre DEF Part
<1>2. ASSUME NEW ch \in Plan(c, st, sc) PROVE Sensible(c, ch)
  BY <1>1 DEF IsChange, Sensible
<1>3. ASSUME NEW a \in Plan(c, st, sc), NEW b \in Plan(c, st, sc),
             a.entity = b.entity, a.name = b.name
      PROVE  a = b
  <2> PICK kind \in Kinds :
         /\ IsChange(a, kind, Desired(c)[kind], st[kind],
                     Chosen(kind, c, st[kind], sc), sc.forceDeploy)
         /\ IsChange(b, kind, Desired(c)[kind], st[kind],
                     Chosen(kind, c, st[kind], sc), sc.forceDeploy)
    BY <1>1, <1>3
  <2> QED
    BY <1>3 DEF IsChange
<1> QED
  BY <1>2, <1>3

\* Of the whole configuration everything is chosen.
LEMMA AllChosen ==
  ASSUME NEW c, NEW m, NEW kind \in Kinds
  PROVE  Chosen(kind, c, m, EmptyScope) = DOMAIN Desired(c)[kind] \cup DOMAIN m
<1>1. /\ EmptyScope.zone = Unset /\ EmptyScope.server = Unset /\ EmptyScope.service = Unset
      /\ EmptyScope.domain = Unset /\ EmptyScope.services = {}
      /\ EmptyScope.infraServices = {} /\ EmptyScope.dnsOnly = FALSE
  BY DEF EmptyScope
<1>2. Planned(kind, EmptyScope)
  BY <1>1 DEF Planned, PlansServices, PlansInfraServices, HasAnyServiceSelection
<1>3. \A n : InScopeOf(kind, c, m, EmptyScope, n)
  BY <1>1 DEF InScopeOf, RecordInScope, Matches, MatchesInfra, Passes, Kinds
<1> QED
  BY <1>2, <1>3 DEF Chosen

LEMMA NothingLeft ==
  ASSUME NEW c, NEW st, IsState(c), IsState(st), Plan(c, st, EmptyScope) = {}
  PROVE  st = Desired(c)
<1>1. ASSUME NEW kind \in Kinds PROVE st[kind] = Desired(c)[kind]
  <2>1. Part(kind, c, st[kind], EmptyScope) = {}
    BY PlanParts
  <2>2. IsMap(st[kind]) /\ IsMap(Desired(c)[kind])
    BY DesiredIs DEF IsState
  <2> QED
    BY <2>1, <2>2, AllChosen, NothingToChange DEF Part
<1>2. /\ st = [kind \in Kinds |-> st[kind]]
      /\ Desired(c) = [kind \in Kinds |-> Desired(c)[kind]]
  BY DesiredIs DEF IsState, IsMap
<1> QED
  BY <1>1, <1>2
-----------------------------------------------------------------------------
(* Runs of one server each. *)

OnServer(v) == [EmptyScope EXCEPT !.server = v]
HostKinds == ServiceKinds \cup {"servers"}

\* The server whose run an entity is in.
Place(kind, c, m, n) == IF kind = "servers" THEN n ELSE Home(kind, c, m, n)

LEMMA ChosenOnServer ==
  ASSUME NEW c, NEW m, NEW kind \in Kinds, NEW v, v # Unset
  PROVE  Chosen(kind, c, m, OnServer(v)) =
           {n \in Chosen(kind, c, m, EmptyScope) :
              kind \in HostKinds /\ Place(kind, c, m, n) = v}
<1>1. /\ OnServer(v).zone = Unset /\ OnServer(v).server = v /\ OnServer(v).service = Unset
      /\ OnServer(v).domain = Unset /\ OnServer(v).services = {}
      /\ OnServer(v).infraServices = {} /\ OnServer(v).dnsOnly = FALSE
  BY DEF OnServer, EmptyScope
<1>2. Planned(kind, OnServer(v))
  BY <1>1 DEF Planned, PlansServices, PlansInfraServices, HasAnyServiceSelection
<1>3. \A n : InScopeOf(kind, c, m, OnServer(v), n) <=>
              kind \in HostKinds /\ Place(kind, c, m, n) = v
  BY <1>1 DEF InScopeOf, RecordInScope, Matches, MatchesInfra, Passes, Kinds, HostKinds,
     ServiceKinds, Place
<1> QED
  BY <1>2, <1>3, AllChosen DEF Chosen

LEMMA PartOnServer ==
  ASSUME NEW c, NEW m, NEW kind \in Kinds, NEW v, v # Unset
  PROVE  Part(kind, c, m, OnServer(v)) =
           {d \in Part(kind, c, m, EmptyScope) :
              kind \in HostKinds /\ Place(kind, c, m, d.name) = v}
<1> DEFINE all == Chosen(kind, c, m, EmptyScope)
           fewer == Chosen(kind, c, m, OnServer(v))
           force == EmptyScope.forceDeploy
<1>1. OnServer(v).forceDeploy = force
  BY DEF OnServer, EmptyScope
<1>2. fewer = {n \in all : kind \in HostKinds /\ Place(kind, c, m, n) = v}
  BY ChosenOnServer
<1> HIDE DEF all, fewer, force
<1>3. Changes(kind, Desired(c)[kind], m, fewer, force) =
        {d \in Changes(kind, Desired(c)[kind], m, all, force) : d.name \in fewer}
  BY <1>2, ChangesOfFewer
<1>4. \A d \in Changes(kind, Desired(c)[kind], m, all, force) : d.name \in all
  BY ChangesAre DEF IsChange
<1> QED
  BY <1>1, <1>2, <1>3, <1>4 DEF Part, all, fewer, force

LEMMA ServersAre ==
  ASSUME NEW c, NEW st, NEW v
  PROVE  v \in ServersOf(c, st) <=>
           \/ v \in DOMAIN c.servers \cup DOMAIN st.servers
           \/ \E kind \in ServiceKinds :
                \/ \E n \in DOMAIN c[kind] : v = c[kind][n].server
                \/ \E n \in DOMAIN st[kind] : v = st[kind][n].server
BY DEF ServersOf, ServiceKinds

\* The server of a change that is limited to one is a server somebody names.
LEMMA PlacesAreServers ==
  ASSUME NEW c, NEW st, IsState(c), IsState(st), NEW kind \in HostKinds,
         NEW d \in Part(kind, c, st[kind], EmptyScope)
  PROVE  Place(kind, c, st[kind], d.name) \in ServersOf(c, st)
<1>1. Desired(c)[kind] = c[kind] /\ kind \in Kinds
  BY DesiredIs DEF HostKinds, ServiceKinds, Kinds
<1>2. d.name \in DOMAIN c[kind] \cup DOMAIN st[kind]
  BY <1>1, ChangesAre, AllChosen DEF Part, IsChange
<1>3. CASE kind = "servers"
  BY <1>2, <1>3, ServersAre DEF Place
<1>4. CASE kind \in ServiceKinds
  BY <1>2, <1>4, ServersAre DEF Place, Home, ServiceKinds
<1> QED
  BY <1>3, <1>4 DEF HostKinds
-----------------------------------------------------------------------------
IInv ==
  /\ TypeOK
  /\ IsState(cfg) /\ IsState(state) /\ Unset \notin ServersOf(cfg, state)
  /\ \A ch \in plan : Sensible(cfg, ch)
  /\ ReplanIsRest

\* What is so of a plan just made.
LEMMA FreshPlan ==
  ASSUME NEW c, NEW st, NEW sc, NEW changes, IsState(c), IsState(st),
         changes = Plan(c, st, sc)
  PROVE  /\ \A ch \in changes : Sensible(c, ch)
         /\ \A ch \in changes : ch.type \in {"create", "update", "delete"}
         /\ \A a, b \in changes : (a.entity = b.entity /\ a.name = b.name) => a = b
BY OneChangeEach DEF Sensible

LEMMA Initially == Init => IInv
<1> SUFFICES ASSUME Init PROVE IInv
  OBVIOUS
<1>1. /\ cfg \in {w.cfg : w \in Worlds} /\ IsState(cfg) /\ IsState(state)
      /\ Unset \notin ServersOf(cfg, state)
  BY WorldsAssumption DEF Init
<1>2. scope \in Scopes /\ plan = Plan(cfg, state, scope) /\ done = {}
  BY DEF Init
<1>3. DOMAIN state = Kinds
  BY <1>1 DEF IsState
<1>4. /\ \A ch \in plan : Sensible(cfg, ch)
      /\ \A ch \in plan : ch.type \in {"create", "update", "delete"}
      /\ \A a, b \in plan : (a.entity = b.entity /\ a.name = b.name) => a = b
  BY <1>1, <1>2, FreshPlan
<1>5. TypeOK
  BY <1>1, <1>2, <1>3, <1>4 DEF TypeOK
<1> QED
  BY <1>1, <1>2, <1>4, <1>5 DEF IInv, ReplanIsRest

\* No change brings a server nobody named.
LEMMA ServersStay ==
  ASSUME NEW c, NEW st, IsState(c), IsState(st), NEW ch, Sensible(c, ch)
  PROVE  ServersOf(c, Effect(c, st, ch)) \subseteq ServersOf(c, st)
<1> DEFINE new == Effect(c, st, ch)
           kind == KindOf(ch.entity)
           want == Desired(c)[kind]
<1>1. kind \in Kinds /\ (ch.type # "delete" => ch.name \in DOMAIN want)
  BY DEF Sensible
<1>2. /\ new[kind] = After(want, st[kind], ch)
      /\ \A other \in Kinds \ {kind} : new[other] = st[other]
  BY <1>1, EffectIs
<1>3. kind # "records" => want = c[kind]
  BY <1>1, DesiredIs
<1> HIDE DEF new, kind, want
<1>4. /\ ch.type = "delete" => DOMAIN After(want, st[kind], ch) = DOMAIN st[kind] \ {ch.name}
      /\ ch.type # "delete" =>
           DOMAIN After(want, st[kind], ch) = DOMAIN st[kind] \cup {ch.name}
  BY AfterHas
<1>5. \A n : /\ n \in DOMAIN st[kind] /\ n # ch.name => After(want, st[kind], ch)[n] = st[kind][n]
             /\ n = ch.name /\ ch.type # "delete" => After(want, st[kind], ch)[n] = want[n]
  BY AfterAt
<1>6. ASSUME NEW k \in HostKinds, NEW n \in DOMAIN new[k]
      PROVE  \/ n \in DOMAIN st[k] /\ new[k][n] = st[k][n]
             \/ n \in DOMAIN c[k] /\ new[k][n] = c[k][n]
  <2>1. k \in Kinds /\ k # "records"
    BY DEF HostKinds, ServiceKinds, Kinds
  <2>2. CASE k = kind
    BY <1>1, <1>2, <1>3, <1>4, <1>5, <2>1, <2>2
  <2>3. CASE k # kind
    BY <1>2, <2>1, <2>3
  <2> QED
    BY <2>2, <2>3
<1>7. ASSUME NEW v \in ServersOf(c, new) PROVE v \in ServersOf(c, st)
  <2>1. CASE v \in DOMAIN c.servers
    BY <2>1, ServersAre
  <2>2. CASE v \in DOMAIN new.servers
    <3>1. v \in DOMAIN st["servers"] \/ v \in DOMAIN c["servers"]
      BY <1>6, <2>2 DEF HostKinds
    <3> QED
      BY <3>1, ServersAre
  <2>3. ASSUME NEW k \in ServiceKinds, NEW n \in DOMAIN c[k], v = c[k][n].server
        PROVE  v \in ServersOf(c, st)
    BY <2>3, ServersAre
  <2>4. ASSUME NEW k \in ServiceKinds, NEW n \in DOMAIN new[k], v = new[k][n].server
        PROVE  v \in ServersOf(c, st)
    <3>1. \/ n \in DOMAIN st[k] /\ v = st[k][n].server
          \/ n \in DOMAIN c[k] /\ v = c[k][n].server
      BY <1>6, <2>4 DEF HostKinds
    <3> QED
      BY <3>1, ServersAre
  <2> QED
    BY <2>1, <2>2, <2>3, <2>4, ServersAre
<1> QED
  BY <1>7 DEF new

LEMMA CarryOutStep == ASSUME IInv, NEW ch \in plan, CarryOut(ch) PROVE IInv'
<1>1. /\ ch \in plan \ done /\ state' = Effect(cfg, state, ch) /\ done' = done \cup {ch}
      /\ UNCHANGED <<cfg, scope, plan>>
  BY DEF CarryOut
<1>2. /\ IsState(cfg) /\ IsState(state) /\ Sensible(cfg, ch)
      /\ Unset \notin ServersOf(cfg, state)
  BY DEF IInv
<1>3. IsState(state')
  BY <1>1, <1>2, EffectIs DEF Sensible
<1>4. Unset \notin ServersOf(cfg, state)'
  BY <1>1, <1>2, ServersStay
<1>5. TypeOK'
  BY <1>1, <1>3 DEF IInv, TypeOK, IsState
<1>6. ReplanIsRest'
  <2> SUFFICES ASSUME ~scope.forceDeploy PROVE Plan(cfg, state', scope) = plan \ done'
    BY <1>1 DEF ReplanIsRest
  <2>1. Plan(cfg, state, scope) = plan \ done
    BY DEF IInv, ReplanIsRest
  <2>2. Plan(cfg, Effect(cfg, state, ch), scope) = Plan(cfg, state, scope) \ {ch}
    BY <1>1, <1>2, <2>1, PlanRest
  <2> QED
    BY <1>1, <2>1, <2>2
<1>7. \A d \in plan' : Sensible(cfg', d)
  BY <1>1 DEF IInv
<1> QED
  BY <1>1, <1>2, <1>3, <1>4, <1>5, <1>6, <1>7 DEF IInv

LEMMA RunAgainStep == ASSUME IInv, NEW sc \in Scopes, RunAgain(sc) PROVE IInv'
<1>1. /\ scope' = sc /\ plan' = Plan(cfg, state, sc) /\ done' = {}
      /\ UNCHANGED <<cfg, state>>
  BY DEF RunAgain
<1>2. IsState(cfg) /\ IsState(state)
  BY DEF IInv
<1>3. /\ \A ch \in plan' : Sensible(cfg, ch)
      /\ \A ch \in plan' : ch.type \in {"create", "update", "delete"}
      /\ \A a, b \in plan' : (a.entity = b.entity /\ a.name = b.name) => a = b
  BY <1>1, <1>2, FreshPlan
<1>4. TypeOK'
  BY <1>1, <1>3 DEF IInv, TypeOK
<1> QED
  BY <1>1, <1>3, <1>4 DEF IInv, ReplanIsRest

LEMMA Inductive == IInv /\ [Next]_vars => IInv'
<1> SUFFICES ASSUME IInv, [Next]_vars PROVE IInv'
  OBVIOUS
<1>1. ASSUME NEW ch \in plan, CarryOut(ch) PROVE IInv'
  BY <1>1, CarryOutStep
<1>2. ASSUME NEW sc \in Scopes, RunAgain(sc) PROVE IInv'
  BY <1>2, RunAgainStep
<1>3. CASE UNCHANGED vars
  BY <1>3 DEF vars, IInv, TypeOK, ReplanIsRest
<1> QED
  BY <1>1, <1>2, <1>3 DEF Next

LEMMA Always == Spec => []IInv
BY Initially, Inductive, PTL DEF Spec

\* Whatever the configuration, the state and the scope, a plan names each entity at
\* most once, in the map of its own kind.
THEOREM TypeCorrect == Spec => []TypeOK
<1>1. IInv => TypeOK
  BY DEF IInv
<1> QED
  BY <1>1, Always, PTL

\* A run that stopped anywhere can be repeated: planning again proposes exactly what
\* is left, since carrying out one change brings no other entity into scope or out.
THEOREM RepeatableRun == Spec => []ReplanIsRest
<1>1. IInv => ReplanIsRest
  BY DEF IInv
<1> QED
  BY <1>1, Always, PTL

\* A whole run of the whole configuration makes the state the configuration.
THEOREM WholeRun == Spec => []WholeRunConverges
<1>1. IInv => WholeRunConverges
  <2> SUFFICES ASSUME IInv, scope = EmptyScope, done = plan PROVE state = Desired(cfg)
    BY DEF WholeRunConverges
  <2>1. ~scope.forceDeploy
    BY DEF EmptyScope
  <2>2. Plan(cfg, state, EmptyScope) = {}
    BY <2>1 DEF IInv, ReplanIsRest
  <2> QED
    BY <2>2, NothingLeft DEF IInv
<1> QED
  BY <1>1, Always, PTL

\* Runs limited to one server each share out the changes of servers and services,
\* every one to exactly one of them.
THEOREM ServersShareTheWork == Spec => []ServerRunsPartition
<1>1. IInv => ServerRunsPartition
  <2> SUFFICES ASSUME IInv PROVE ServerRunsPartition
    OBVIOUS
  <2> DEFINE all == Plan(cfg, state, EmptyScope)
             part(v) == Plan(cfg, state, OnServer(v))
             servers == ServersOf(cfg, state)
             in(kind, d) == d \in Part(kind, cfg, state[kind], EmptyScope)
             place(kind, d) == Place(kind, cfg, state[kind], d.name)
  <2>1. IsState(cfg) /\ IsState(state) /\ Unset \notin servers
    BY DEF IInv
  <2>2. \A d : d \in all <=> \E kind \in Kinds : in(kind, d)
    BY <2>1, PlanParts
  <2>3. ASSUME NEW v \in servers, NEW d
        PROVE  d \in part(v) <=> \E kind \in HostKinds : in(kind, d) /\ place(kind, d) = v
    <3>1. v # Unset
      BY <2>1
    <3>2. d \in part(v) <=> \E kind \in Kinds : d \in Part(kind, cfg, state[kind], OnServer(v))
      BY <2>1, PlanParts
    <3>3. \A kind \in Kinds : d \in Part(kind, cfg, state[kind], OnServer(v)) <=>
                                in(kind, d) /\ kind \in HostKinds /\ place(kind, d) = v
      BY <3>1, PartOnServer
    <3>4. HostKinds \subseteq Kinds
      BY DEF HostKinds, ServiceKinds, Kinds
    <3> HIDE DEF part, in, place
    <3> QED
      BY <3>2, <3>3, <3>4
  <2>4. ASSUME NEW kind \in Kinds, NEW d, in(kind, d)
        PROVE  /\ KindOf(d.entity) = kind
               /\ d.entity \in {"server", "service", "infra_service"} <=> kind \in HostKinds
    BY <2>4, KindsOfChanges, Entities DEF HostKinds
  <2>5. ASSUME NEW kind \in HostKinds, NEW d, in(kind, d) PROVE place(kind, d) \in servers
    BY <2>1, <2>5, PlacesAreServers
  <2>6. HostKinds \subseteq Kinds
    BY DEF HostKinds, ServiceKinds, Kinds
  <2> HIDE DEF all, part, servers, in, place
  <2>7. ASSUME NEW d
        PROVE  d \in OnServers(all) <=> \E v \in servers : d \in part(v)
    BY <2>2, <2>3, <2>4, <2>5, <2>6 DEF OnServers
  <2>8. ASSUME NEW v \in servers, NEW w \in servers, v # w PROVE part(v) \cap part(w) = {}
    BY <2>3, <2>4, <2>6, <2>8
  <2>9. OnServers(all) = UNION {part(v) : v \in servers}
    BY <2>7
  <2> QED
    BY <2>8, <2>9 DEF ServerRunsPartition, all, part, servers, OnServer
<1> QED
  BY <1>1, Always, PTL
=============================================================================
