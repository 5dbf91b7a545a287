------------------------------ MODULE MCSSHPool ------------------------------
(***************************************************************************)
(* An instance of SSHPool: server entries i1 and i2 name the same host and *)
(* user (their passwords may differ), i3 another one.                      *)
(***************************************************************************)
EXTENDS SSHPool

CONSTANTS i1, i2, i3, h1, h2

MCKeyOf == [i \in Info |-> IF i = i3 THEN h2 ELSE h1]
=============================================================================
