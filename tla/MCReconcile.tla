----------------------------- MODULE MCReconcile -----------------------------
(***************************************************************************)
(* An instance of Reconcile: one zone besides the one of every server, two *)
(* servers, a business and an infra service, records that share a key.     *)
(***************************************************************************)
EXTENDS Reconcile

CONSTANTS i1, d1, z1, z2, v1, v2, b1, b2, g1, x, y

Partial(Name, Entity) == UNION {[N -> Entity] : N \in SUBSET Name}
None == [n \in {} |-> x]

Named(spec) == [spec : spec]
On(server, spec) == [server : server, spec : spec]
A(spec) == [domain |-> d1, type |-> "A", name |-> "www", spec |-> spec]

Servers == [n \in {v1, v2} |-> IF n = v1 THEN [zone |-> z1, spec |-> x]
                                        ELSE [zone |-> z2, spec |-> x]]
BothZones == [n \in {z1, z2} |-> [spec |-> x]]

\* Entities without a server vary while the services are fixed, and the other
\* way round.
Flat(isps, records) ==
  [isps : isps, zones : Partial({z1}, Named({x, y})),
   domains : Partial({d1}, Named({x})), records : records,
   servers : {None, [n \in {v1} |-> Servers[v1]]},
   services : {None}, infraServices : {None}]
Deployed(records) ==
  [isps : {None}, zones : {BothZones}, domains : {None}, records : records,
   servers : {Servers},
   services : {None, [n \in {b2} |-> [server |-> v1, spec |-> x]]}
              \cup Partial({b1}, On({v1, v2}, {x, y})),
   infraServices : Partial({g1}, On({v1, v2}, {x}))]

Lists == {<<>>, <<A(x)>>, <<A(x), A(y)>>}
MCWorlds ==
  [cfg : Flat({None}, Lists),
   state : Flat(Partial({i1}, Named({x})), {RecordMap(l) : l \in Lists})]
  \cup [cfg : Deployed({<<>>}), state : Deployed({None})]

MCScopes ==
  {EmptyScope,
   [EmptyScope EXCEPT !.server = v1], [EmptyScope EXCEPT !.zone = z1],
   [EmptyScope EXCEPT !.domain = d1], [EmptyScope EXCEPT !.service = b1],
   [EmptyScope EXCEPT !.dnsOnly = TRUE],
   [EmptyScope EXCEPT !.forceDeploy = TRUE],
   [EmptyScope EXCEPT !.services = {b1}],
   [EmptyScope EXCEPT !.infraServices = {g1}, !.server = v2]}
=============================================================================
