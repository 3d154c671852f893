------------------------------ MODULE MCPaxos ------------------------------
(* Three nodes, two of which propose, each a value of its own. *)
EXTENDS PaxosGroup, TLC

CONSTANTS v1, v2

MCGroup == <<1, 2, 3>>
MCWants == 1 :> v1 @@ 2 :> v2
=============================================================================
