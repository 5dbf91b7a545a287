--------------------------- MODULE MCServiceDeploy ---------------------------
(***************************************************************************)
(* A business service and a gateway on one server, of which any are        *)
(* deployed already, and every combination of the filters.                 *)
(***************************************************************************)
EXTENDS ServiceDeploy

CONSTANTS v, b, g, x

Nothing == [n \in {} |-> x]
On(n) == [k \in {n} |-> [server |-> v, spec |-> x]]
Entities(services, infra) ==
  [isps |-> Nothing, zones |-> Nothing, domains |-> Nothing, records |-> <<>>,
   servers |-> Nothing, services |-> services, infraServices |-> infra]
MCWorlds ==
  [cfg : {Entities(On(b), On(g))},
   state : {[Entities(s, i) EXCEPT !.records = Nothing] :
              s \in {Nothing, On(b)}, i \in {Nothing, On(g)}}]
MCFilters == [server : {Unset, v}, biz : {Unset, b}, infra : {{}, {g}}]
=============================================================================
