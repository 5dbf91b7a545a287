---------------------------- MODULE MCHostSetup ----------------------------
(***************************************************************************)
(* Two servers, of which one has neither Docker nor a template.  The        *)
(* registry "mirror" is behind a host whose name contains that of "hub".    *)
(***************************************************************************)
EXTENDS HostSetup, TLC

CONSTANTS p1, p2, web, db

MCProcess == {p1, p2}
MCServer == {web, db}
MCzone == [v \in MCServer |-> "z1"]
MCtools == [v \in MCServer |-> IF v = db THEN {"sudo", "docker-compose"}
                               ELSE {"sudo", "docker", "compose"}]
MCapt == [v \in MCServer |-> IF v = web THEN "aliyun" ELSE "other"]
MCFirst == [v \in MCServer |-> IF v = web THEN {"official", "tuna"} ELSE {"official"}]
MCnetworks == [v \in MCServer |-> IF v = web THEN {"front"} ELSE {}]
MCRegistry == {"hub", "mirror"}
MCregistries == [v \in MCServer |-> IF v = web THEN {"hub"} ELSE {}]
MCTakenFor == {<<"hub", "hub">>, <<"hub", "mirror">>, <<"mirror", "mirror">>}
MCextra == [v \in MCServer |-> "official"]
Symmetry == Permutations(MCProcess)
=============================================================================
