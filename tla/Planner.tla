------------------------------- MODULE Planner -------------------------------
(***************************************************************************)
(* The planner of yamlops as operators: the scope a command selects, and   *)
(* the changes that lead from an observed deployment state to the          *)
(* configuration.  A configuration or a state is a record of maps, one per *)
(* kind of entity; a map is a function whose domain is the set of names it *)
(* holds.  What an entity says beyond the fields the planner looks at is   *)
(* abstracted to one value, "spec", which the *Equals functions compare.   *)
(***************************************************************************)
EXTENDS Integers, Sequences, FiniteSets

CONSTANT Unset   \* the empty string: a filter not given, a field left empty

\* A scope as NewScope().With...() builds it: four single-name filters, two
\* lists of names and two switches.
Scope(Domain, Zone, Server, Service) ==
  [domain : Domain \cup {Unset}, zone : Zone \cup {Unset},
   server : Server \cup {Unset}, service : Service \cup {Unset},
   services : SUBSET Service, infraServices : SUBSET Service,
   forceDeploy : BOOLEAN, dnsOnly : BOOLEAN]

EmptyScope ==
  [domain |-> Unset, zone |-> Unset, server |-> Unset, service |-> Unset,
   services |-> {}, infraServices |-> {},
   forceDeploy |-> FALSE, dnsOnly |-> FALSE]

Passes(filter, value) == filter = Unset \/ filter = value

MatchesAnyServer(scope, zone, server, service, domain) ==
  /\ Passes(scope.zone, zone)
  /\ Passes(scope.service, service)
  /\ scope.services # {} => service \in scope.services
  /\ Passes(scope.domain, domain)

Matches(scope, zone, server, service, domain) ==
  /\ Passes(scope.zone, zone)
  /\ Passes(scope.server, server)
  /\ Passes(scope.service, service)
  /\ scope.services # {} => service \in scope.services
  /\ Passes(scope.domain, domain)

\* An infra service is selected by zone, server and the infra list only: the
\* service and domain filters are not looked at.
MatchesInfra(scope, zone, server, infra) ==
  /\ Passes(scope.zone, zone)
  /\ Passes(scope.server, server)
  /\ scope.infraServices # {} => infra \in scope.infraServices

HasAnyServiceSelection(scope) ==
  scope.services # {} \/ scope.infraServices # {}

PlansServices(scope) ==
  \/ scope.services # {}
  \/ ~HasAnyServiceSelection(scope) /\ ~scope.dnsOnly

PlansInfraServices(scope) ==
  \/ scope.infraServices # {}
  \/ ~HasAnyServiceSelection(scope) /\ ~scope.dnsOnly

-----------------------------------------------------------------------------
(* Changes.  "server" is the host a change is carried out on; only service *)
(* changes have one.                                                       *)

Change(type, entity, name, server) ==
  [type |-> type, entity |-> entity, name |-> name, server |-> server]

UpdatesAlways(entity, cfg, state, inScope) ==
  {Change("delete", entity, n, Unset) :
      n \in inScope \cap (DOMAIN state \ DOMAIN cfg)}
  \cup {Change("update", entity, n, Unset) :
      n \in inScope \cap DOMAIN cfg \cap DOMAIN state}
  \cup {Change("create", entity, n, Unset) :
      n \in inScope \cap (DOMAIN cfg \ DOMAIN state)}

NeverDeletes(entity, cfg, state, inScope) ==
  {Change("update", entity, n, Unset) :
      n \in {m \in inScope \cap DOMAIN cfg \cap DOMAIN state :
                state[m] # cfg[m]}}
  \cup {Change("create", entity, n, Unset) :
      n \in inScope \cap (DOMAIN cfg \ DOMAIN state)}

\* The generic differ: delete what only the state has, update what differs,
\* create what only the configuration has, each if the name is in scope.
SimpleChanges(entity, cfg, state, inScope) ==
  {Change("delete", entity, n, Unset) :
      n \in inScope \cap (DOMAIN state \ DOMAIN cfg)}
  \cup {Change("update", entity, n, Unset) :
      n \in {m \in inScope \cap DOMAIN cfg \cap DOMAIN state :
                state[m] # cfg[m]}}
  \cup {Change("create", entity, n, Unset) :
      n \in inScope \cap (DOMAIN cfg \ DOMAIN state)}

ZoneOf(servers, server) ==
  IF server \in DOMAIN servers THEN servers[server].zone ELSE Unset

RecreatesMoved(entity, cfg, state, chosen, gone, force) ==
  LET known  == chosen \cap DOMAIN state
      moved  == {n \in known : state[n].server # cfg[n].server}
      equal  == {n \in known : state[n] = cfg[n]}
  IN  {Change("delete", entity, n, state[n].server) : n \in gone \cup moved}
      \cup {Change("update", entity, n, state[n].server) :
               n \in known \ (equal \cup moved)}
      \cup {Change("create", entity, n, cfg[n].server) :
               n \in (chosen \ DOMAIN state) \cup moved
                        \cup {m \in equal : force}}

\* The changes for the configured services "chosen" and for "gone", which only
\* the state has.  A service change runs on the server of its old state when it
\* has one.
ServiceChanges(entity, cfg, state, chosen, gone, force) ==
  LET known == chosen \cap DOMAIN state
      equal == {n \in known : state[n] = cfg[n]}
  IN  {Change("delete", entity, n, state[n].server) : n \in gone}
      \cup {Change("update", entity, n, state[n].server) : n \in known \ equal}
      \cup {Change("create", entity, n, state[n].server) :
               n \in {m \in equal : force}}
      \cup {Change("create", entity, n, cfg[n].server) :
               n \in chosen \ DOMAIN state}

\* A configured service is in scope by the server it is configured on, one that
\* only the state has by the server it is on there.
ServicePlan(cfg, state, servers, scope) ==
  LET InScope(v, n) == Matches(scope, ZoneOf(servers, v), v, n, Unset) IN
  IF PlansServices(scope)
    THEN ServiceChanges("service", cfg, state,
           {n \in DOMAIN cfg : InScope(cfg[n].server, n)},
           {n \in DOMAIN state \ DOMAIN cfg : InScope(state[n].server, n)},
           scope.forceDeploy)
    ELSE {}

InfraPlan(cfg, state, servers, scope) ==
  LET InScope(v, n) == MatchesInfra(scope, ZoneOf(servers, v), v, n) IN
  IF PlansInfraServices(scope)
    THEN ServiceChanges("infra_service", cfg, state,
           {n \in DOMAIN cfg : InScope(cfg[n].server, n)},
           {n \in DOMAIN state \ DOMAIN cfg : InScope(state[n].server, n)},
           scope.forceDeploy)
    ELSE {}

\* The records of the configuration, keyed by domain, type and name: of two
\* records with one key the later one is kept.
RecordKey(r) == <<r.domain, r.type, r.name>>
RecordMap(records) ==
  LET at(k) == {i \in DOMAIN records : RecordKey(records[i]) = k} IN
  [k \in {RecordKey(records[i]) : i \in DOMAIN records} |->
     records[CHOOSE i \in at(k) : \A j \in at(k) : j <= i]]

\* A server of the configuration is in the zone its zone entry names, if the
\* entry exists; one that only the state has is in the zone the state says.
ServerInScope(cfg, state, scope, n) ==
  LET zone == IF n \in DOMAIN cfg.servers
                THEN IF cfg.servers[n].zone \in DOMAIN cfg.zones
                       THEN cfg.servers[n].zone ELSE Unset
                ELSE state.servers[n].zone
  IN  Matches(scope, zone, n, Unset, Unset)

RecordInScope(scope, key) == Matches(scope, Unset, Unset, Unset, key[1])

Plan(cfg, state, scope) ==
  LET Known(kind) == DOMAIN cfg[kind] \cup DOMAIN state[kind]
      records == RecordMap(cfg.records)
  IN
  (IF HasAnyServiceSelection(scope) THEN {} ELSE
     SimpleChanges("isp", cfg.isps, state.isps,
       {n \in Known("isps") : Matches(scope, Unset, Unset, Unset, Unset)})
     \cup SimpleChanges("zone", cfg.zones, state.zones,
       {n \in Known("zones") : Matches(scope, n, Unset, Unset, Unset)})
     \cup SimpleChanges("domain", cfg.domains, state.domains,
       {n \in Known("domains") : Matches(scope, Unset, Unset, Unset, Unset)})
     \cup SimpleChanges("dns_record", records, state.records,
       {k \in DOMAIN records \cup DOMAIN state.records : RecordInScope(scope, k)})
     \cup SimpleChanges("server", cfg.servers, state.servers,
       {n \in Known("servers") : ServerInScope(cfg, state, scope, n)}))
  \cup ServicePlan(cfg.services, state.services, cfg.servers, scope)
  \cup InfraPlan(cfg.infraServices, state.infraServices, cfg.servers, scope)
=============================================================================
