----------------------------- MODULE MCExecutor -----------------------------
(***************************************************************************)
(* Executor for TLC.                                                       *)
(***************************************************************************)
EXTENDS Executor

AllDrifts == {"agentExits", "agentUnknown", "agentUnhardened", "agentLost",
              "relayExits", "relayUnknown", "gatewayRestarts"}

=============================================================================
