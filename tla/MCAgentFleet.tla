---------------------------- MODULE MCAgentFleet ----------------------------
(***************************************************************************)
(* The fleet for model checking: one agent, over HTTP or gRPC, and the     *)
(* gRPC server, on one certificate directory.                              *)
(***************************************************************************)
EXTENDS AgentFleet

CONSTANTS a1, server, serverId, clientId

MCProc == {a1, server}

MCIdentityOf == [p \in MCProc |-> IF p = server THEN serverId ELSE clientId]
=============================================================================
