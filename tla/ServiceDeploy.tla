---------------------------- MODULE ServiceDeploy ----------------------------
(***************************************************************************)
(* The command "service deploy": its filters become a scope, the plan of   *)
(* the scope is reduced to what the filters name, shown, confirmed and     *)
(* carried out.  A change that is carried out has the effect its entity    *)
(* asks for, as in Reconcile; Deploy has what becomes of it on a host.     *)
(***************************************************************************)
EXTENDS Planner

CONSTANTS
  Worlds,    \* the configurations and the deployment states a run may find
  Filters    \* [server, biz, infra]: names, or Unset when not given; infra is the
             \* set of names of the list, {} when not given

VARIABLES
  cfg, state,
  filters,   \* of the run
  phase,     \* "start", "confirm", "work" or "over"
  todo,      \* the changes of the plan not yet tried
  failed     \* some change failed

vars == <<cfg, state, filters, phase, todo, failed>>

\* strings.Split of the empty string is a list with one empty string.
InfraList(names) == IF names = {} THEN {Unset} ELSE names

DeployScope(f) ==
  [EmptyScope EXCEPT !.server = f.server, !.service = f.biz,
                     !.infraServices = InfraList(f.infra)]

\* The server of a service change is where the configuration has the service,
\* or the state when the configuration has it no more.
ServerOfChange(ch) ==
  LET kind == IF ch.entity = "service" THEN "services" ELSE "infraServices" IN
  IF ch.name \in DOMAIN cfg[kind] THEN cfg[kind][ch.name].server
                                  ELSE state[kind][ch.name].server

Target(changes, f) ==
  {ch \in changes : /\ ch.entity \in {"service", "infra_service"}
                    /\ Passes(f.server, ServerOfChange(ch))
                    /\ f.biz # Unset => ch.entity = "service"
                    /\ f.infra # {} => ch.entity = "infra_service"}

Init ==
  /\ \E w \in Worlds : cfg = w.cfg /\ state = w.state
  /\ filters \in Filters
  /\ phase = "start" /\ todo = {} /\ failed = FALSE

\* What is carried out is the plan, not what was shown of it.
MakePlan ==
  LET plan == Plan(cfg, state, DeployScope(filters)) IN
  /\ phase = "start" /\ todo' = plan
  /\ phase' = IF Target(plan, filters) = {} THEN "over" ELSE "confirm"
  /\ UNCHANGED <<cfg, state, filters, failed>>

Confirm ==
  /\ phase = "confirm" /\ phase' = "work"
  /\ UNCHANGED <<cfg, state, filters, todo, failed>>

Effect(ch) ==
  LET kind == IF ch.entity = "service" THEN "services" ELSE "infraServices"
      names == IF ch.type = "delete" THEN DOMAIN state[kind] \ {ch.name}
               ELSE DOMAIN state[kind] \cup {ch.name} IN
  [state EXCEPT ![kind] =
     [n \in names |-> IF n = ch.name THEN cfg[kind][n] ELSE state[kind][n]]]

CarryOut(ch) ==
  /\ phase = "work" /\ todo' = todo \ {ch}
  /\ phase' = IF todo' = {} THEN "over" ELSE "work"
  /\ \/ state' = Effect(ch) /\ UNCHANGED failed
     \/ failed' = TRUE /\ UNCHANGED state
  /\ UNCHANGED <<cfg, filters>>

Next == MakePlan \/ Confirm \/ \E ch \in todo : CarryOut(ch)

\* The command goes on by itself, but for the answer of its user.
Spec == Init /\ [][Next]_vars
-----------------------------------------------------------------------------
\* A command that has ended without a failure has deployed the business services
\* that its filters name, all of them when no filter is given
\* (docs/cli-reference.md, service deploy).
DeploysTheServices ==
  phase = "over" /\ ~failed /\ filters.infra = {} =>
    \A n \in DOMAIN cfg.services :
      /\ Passes(filters.server, cfg.services[n].server)
      /\ Passes(filters.biz, n)
      => n \in DOMAIN state.services
=============================================================================
