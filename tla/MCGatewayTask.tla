---------------------------- MODULE MCGatewayTask ----------------------------
(* Constants for model checking GatewayTask.                               *)
EXTENDS GatewayTask, TLC

CONSTANTS ta, tb, tc, acme, g1, h1, h2, r1, r2

(* Requests in flight are interchangeable.                                 *)
HandlerSymmetry == Permutations(Handler)

MCCall(task, permit, kind) ==
    [task |-> task, tenant |-> acme, grant |-> g1, workload |-> "w1", authority |-> "k1",
     permit |-> permit, kind |-> kind, target |-> None, targetRun |-> None,
     scope |-> None, scopePermit |-> "", context |-> <<>>]

TaskA == MCCall(ta, "pa", "lifecycle_task")
TaskB == MCCall(tb, "pb", "lifecycle_task")
StopA == [TaskB EXCEPT !.target = ta, !.targetRun = r1]
AttemptInA == [MCCall(tc, "", "inference_attempt") EXCEPT !.scope = ta, !.scopePermit = "pa"]

(* One task signed under two permits, a stop of the run it may be accepted *)
(* as, signed under one of them, and an inference attempt in its scope,    *)
(* which uses the ledger without serviceTaskMutationMu.                    *)
AllCalls == {TaskA, MCCall(ta, "pb", "lifecycle_task"), StopA, AttemptInA}

Never == [g \in {g1} |-> 0]
Once == [g \in {g1} |-> 1]
TaskQuota == [t \in {acme} |-> 6]
=============================================================================
