------------------------------ MODULE MCDeploy ------------------------------
(***************************************************************************)
(* Instances of Deploy for TLC.                                            *)
(***************************************************************************)
EXTENDS Deploy

CONSTANTS b1, g1, v1, v2, z1

MCZoneOf == [v \in Server |-> z1]

\* Everything, and the services of one server.
WholeScope == {EmptyScope}
ServerScopes == {EmptyScope, [EmptyScope EXCEPT !.server = v1]}
=============================================================================
