------------------------- MODULE MCGatewayConnector -------------------------
(* Constants for model checking GatewayConnector.                          *)
EXTENDS GatewayConnector, TLC

CONSTANTS ta, tb, acme, g1, h1, h2

(* Requests in flight are interchangeable.                                 *)
HandlerSymmetry == Permutations(Handler)

MCCall(task, grant, context) ==
    [task |-> task, tenant |-> acme, grant |-> grant, workload |-> "w1",
     authority |-> "k1", permit |-> "p1", kind |-> "connector_call", target |-> None,
     targetRun |-> None, scope |-> None, scopePermit |-> "", context |-> context]

(* The heads a grant can reach with two tasks and at most six lines.       *)
Heads == {<<>>} \cup {<<i>> : i \in 1..6} \cup {<<i, j>> : i, j \in 1..6}

(* Two tasks of one grant whose permits bind the response history.         *)
ContextCalls == {MCCall(t, g1, head) : t \in {ta, tb}, head \in Heads}

(* A denial and both calls do not fit together.                            *)
ContextQuota == [t \in {acme} |-> 4]
Never == [g \in {g1} |-> 0]
Once == [g \in {g1} |-> 1]
Twice == [g \in {g1} |-> 2]

=============================================================================
