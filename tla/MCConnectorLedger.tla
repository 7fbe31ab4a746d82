------------------------- MODULE MCConnectorLedger -------------------------
(* Constants for model checking ConnectorLedger.                           *)
EXTENDS ConnectorLedger, TLC

CONSTANTS ta, tb, ts, ti, tk, tc, acme, apex, g1, g2, r1, r2

MCCall(task, tenant, grant, kind) ==
    [task |-> task, tenant |-> tenant, grant |-> grant, workload |-> "w1",
     authority |-> "k1", permit |-> "p1", kind |-> kind, target |-> None,
     targetRun |-> None, scope |-> None, scopePermit |-> "", context |-> <<>>]

(* Two service tasks of one grant, the first also presented for a later    *)
(* generation of the workload (another grant), a stop of the first task,   *)
(* inference attempts, one of them scoped to that task, and a connector    *)
(* call with its denials.                                                  *)
HistoryCalls ==
    LET a == MCCall(ta, acme, g1, "lifecycle_task")
        i == MCCall(ti, acme, g1, "inference_attempt")
    IN  { a,
          [a EXCEPT !.grant = g2, !.workload = "w2"],
          MCCall(tb, acme, g1, "lifecycle_task"),
          [MCCall(ts, acme, g1, "lifecycle_task") EXCEPT !.target = ta, !.targetRun = r1],
          [i EXCEPT !.scope = ta, !.scopePermit = "p1"],
          [i EXCEPT !.task = tk],
          MCCall(tc, apex, g1, "connector_call") }

HistoryQuota == [t \in {acme, apex} |-> IF t = acme THEN 8 ELSE 1]

=============================================================================
