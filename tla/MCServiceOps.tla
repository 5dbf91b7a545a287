---------------------------- MODULE MCServiceOps ----------------------------
(***************************************************************************)
(* Two servers in one zone.  The configuration is edited, one way or the    *)
(* other: "api" moves to the second server, and "gate" goes.  Either way    *)
(* one server has no service.  The second server also has a container of    *)
(* the environment <env>-eu, and the first a directory that somebody has    *)
(* put there.                                                               *)
(***************************************************************************)
EXTENDS ServiceOps

CONSTANTS z, v1, v2, api, moved, gate, shell

MCzone == [v \in {v1, v2} |-> z]
MCService == {api, moved, gate}
MCname == [s \in MCService |-> IF s = gate THEN "gate" ELSE "api"]
MCkind == [s \in MCService |-> IF s = gate THEN "infra" ELSE "biz"]
MCserver == [s \in MCService |-> IF s = moved THEN v2 ELSE v1]
MCConfig == {{api, gate}, {moved}}
MCConfigWhole == {{api, gate}}
MCforeign == {<<v2, "container", "eu-api">>, <<v1, "dir", "notes">>}
=============================================================================
