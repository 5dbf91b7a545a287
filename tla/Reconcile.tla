------------------------------ MODULE Reconcile ------------------------------
(***************************************************************************)
(* The planner over all kinds of entity, against a world that carries      *)
(* changes out one at a time and may stop at any of them.  Here a change   *)
(* that is carried out has exactly the effect its entity asks for; what    *)
(* becomes of a service change on a host is the subject of Deploy.         *)
(***************************************************************************)
EXTENDS Planner

CONSTANTS
  Worlds,    \* the configurations and the deployment states a run may find
  Scopes     \* the scopes a user may ask for

VARIABLES
  cfg,     \* the configuration of the run
  state,   \* the deployment state
  scope,   \* the scope of the run
  plan,    \* its plan
  done     \* the changes carried out so far

vars == <<cfg, state, scope, plan, done>>

Kinds == {"isps", "zones", "domains", "records", "servers", "services",
          "infraServices"}

IsMap(f) == f = [n \in DOMAIN f |-> f[n]]
IsState(st) == IsMap(st) /\ DOMAIN st = Kinds /\ \A kind \in Kinds : IsMap(st[kind])

\* The servers a configuration and a state name.
ServersOf(c, st) ==
  DOMAIN c.servers \cup DOMAIN st.servers
  \cup {e.server : e \in UNION {{map[n] : n \in DOMAIN map} :
          map \in {c.services, c.infraServices, st.services, st.infraServices}}}

\* Validate() refuses a server without a name and a service without a server.
ASSUME WorldsAssumption ==
  \A w \in Worlds :
    IsState(w.cfg) /\ IsState(w.state) /\ Unset \notin ServersOf(w.cfg, w.state)

\* The map of a state an entity of a change lives in.
KindOf(entity) ==
  CASE entity = "isp"           -> "isps"
    [] entity = "zone"          -> "zones"
    [] entity = "domain"        -> "domains"
    [] entity = "dns_record"    -> "records"
    [] entity = "server"        -> "servers"
    [] entity = "service"       -> "services"
    [] entity = "infra_service" -> "infraServices"

\* The configuration as a state: what SaveState writes.
Desired(c) == [c EXCEPT !.records = RecordMap(c.records)]

Drop(map, name) == [n \in DOMAIN map \ {name} |-> map[n]]
Put(map, name, entity) ==
  [n \in DOMAIN map \cup {name} |-> IF n = name THEN entity ELSE map[n]]

Effect(c, st, ch) ==
  LET kind == KindOf(ch.entity) IN
  [st EXCEPT ![kind] =
     IF ch.type = "delete" THEN Drop(@, ch.name)
     ELSE Put(@, ch.name, Desired(c)[kind][ch.name])]

Init ==
  /\ \E w \in Worlds : cfg = w.cfg /\ state = w.state
  /\ scope \in Scopes
  /\ plan = Plan(cfg, state, scope)
  /\ done = {}

CarryOut(ch) ==
  /\ ch \in plan \ done
  /\ state' = Effect(cfg, state, ch)
  /\ done' = done \cup {ch}
  /\ UNCHANGED <<cfg, scope, plan>>

\* The command is run again, with the same or another scope.
RunAgain(sc) ==
  /\ scope' = sc
  /\ plan' = Plan(cfg, state, sc)
  /\ done' = {}
  /\ UNCHANGED <<cfg, state>>

Next == (\E ch \in plan : CarryOut(ch)) \/ (\E sc \in Scopes : RunAgain(sc))

Spec == Init /\ [][Next]_vars

-----------------------------------------------------------------------------
\* A change names its entity in its own map, and no entity has two changes.
TypeOK ==
  /\ cfg \in {w.cfg : w \in Worlds} /\ scope \in Scopes /\ done \subseteq plan
  /\ DOMAIN state = Kinds
  /\ \A ch \in plan : ch.type \in {"create", "update", "delete"}
  /\ \A a, b \in plan : (a.entity = b.entity /\ a.name = b.name) => a = b

\* A run stopped half way can be repeated: planning again proposes exactly the
\* changes not yet carried out, no new one and none of those done
\* (the differs compare with the state as it is, planner.go).
ReplanIsRest ==
  ~scope.forceDeploy => Plan(cfg, state, scope) = plan \ done

\* A whole run of the whole configuration leaves nothing that differs and
\* nothing that the configuration no longer has.
WholeRunConverges ==
  (scope = EmptyScope /\ done = plan) => state = Desired(cfg)

\* Runs limited to one server each share the whole work out among them: every
\* change of a server or service is in the plan of exactly one server
\* (the server filter of Scope.Matches and MatchesInfra, and the server each
\* differ asks it about, the old one of what is deleted).
OnServers(changes) ==
  {ch \in changes : ch.entity \in {"server", "service", "infra_service"}}
ServerRunsPartition ==
  LET part(v) == Plan(cfg, state, [EmptyScope EXCEPT !.server = v]) IN
  /\ OnServers(Plan(cfg, state, EmptyScope))
       = UNION {part(v) : v \in ServersOf(cfg, state)}
  /\ \A v, w \in ServersOf(cfg, state) : v # w => part(v) \cap part(w) = {}
=============================================================================
