------------------------------ MODULE MCRecords ------------------------------
(* Transactions and directories for Control's log; receipts and scenarios for the
   executor's evidence log and Control's witness of it.  A scenario moves one. *)
EXTENDS ControlLog, EvidenceWitness

-------------------------------------------------------------------------------
(* Control's log. *)
Rec(tenants, node, project, task, fields, data) ==
    [tenants |-> tenants, node |-> node, project |-> project, task |-> task,
     fields |-> fields, live |-> TRUE, data |-> data]
Upsert(ref, rec) == [op |-> "upsert", ref |-> ref, rec |-> rec]
Delete(ref) == [op |-> "delete", ref |-> ref, rec |-> None]
Revoke(id) == [op |-> "revoke", ref |-> <<"node", id>>, rec |-> None]

Tenant == Upsert(<<"tenant", "a">>, Rec({}, None, None, None, {}, {}))
Node == Upsert(<<"node", "n">>, Rec({"a"}, None, None, None, {"evidence"}, {}))
Token == Upsert(<<"credential", "c">>, Rec({"a"}, "n", None, None, {}, {}))
Event(id, task, at) == Upsert(<<"event", id>>, Rec({"a"}, "n", None, task, {}, at))
Pool == Upsert(<<"pool", "p">>, Rec({"a"}, None, None, None, {}, {}))

\* "join" and "event" are written today; "old" and "evict" come from a release
\* that knew events and pools, and no projections.
MCTransactions ==
    [join |-> [mutations |-> <<Tenant, Node, Token>>, version |-> 23, size |-> 2],
     event |-> [mutations |-> <<Event("e", "u", 3)>>, version |-> 23, size |-> 2],
     drop |-> [mutations |-> <<Delete(<<"event", "e">>), Revoke("n")>>, version |-> 23, size |-> 2],
     old |-> [mutations |-> <<Event("x", "t", 2), Pool>>, version |-> 17, size |-> 2],
     evict |-> [mutations |-> <<Delete(<<"event", "x">>)>>, version |-> 17, size |-> 2]]

Joined ==
    (<<"tenant", "a">> :> Tenant.rec) @@ (<<"node", "n">> :> Node.rec)
        @@ (<<"event", "y">> :> Event("y", "t", 1).rec)
Projected == (<<"projection", "t">> :> [Event("y", "t", 1).rec EXCEPT !.data = [seen |-> {"y"}, at |-> 1]]) @@ Joined

Snapshot1 == [gen |-> 1, hist |-> <<>>, payload |-> [version |-> 17, records |-> Joined]]
Header1 == NewHeader(1, <<>>)
Legacy(frames, torn) ==
    [files |-> (CURRENT :> Manifest(Snapshot1, Header1)) @@ (<<"snapshot", 1>> :> Snapshot1)
               @@ (<<"wal", 1>> :> Wal(Header1, frames, torn, Len(frames))),
     base |-> Projected]
Frames(names) == [k \in DOMAIN names |-> Frame(SubSeq(names, 1, k - 1), names[k])]

NoDisk == [files |-> <<>>, base |-> None]
MCDisks ==
    {NoDisk, [files |-> <<>>, base |-> emptyState],
     Legacy(Frames(<<"old", "evict">>), 1), Legacy(Frames(<<"old">>), 0)}

\* Failing writes and syncs with the process killed at any point, or power losses
\* of a machine whose syncs succeed.
MCFaultModels == {{"write", "sync", "kill"}, {"write", "power"}}

MCLimit == [k \in Kinds |-> 2]
MCPerTenant == [[k \in Kinds |-> 2] EXCEPT !["projection"] = 1]

-------------------------------------------------------------------------------
(* Evidence. *)
E(type, run, grant, hash) == [type |-> type, run |-> run, caps |-> "k", grant |-> grant, hash |-> hash]
MCEvents ==
    [beginA |-> E("begin", "r", "a", "h"), beginB |-> E("begin", "r", "b", "h"),
     checkA |-> E("checkpoint", "r", "a", "d"), checkB |-> E("checkpoint", "r", "b", "d"),
     started |-> E("start", "r", "workload", Unset), undone |-> E("compensate", "r", "workload", Unset),
     stopped |-> E("stop", "r", "workload", Unset), purged |-> E("purge", "s", "state", Unset),
     other |-> E("allow", "r", "workload", Unset)]
CaptureTarget == [run |-> "r", grant |-> "a", hash |-> "h"]

Scenario(events, after, log, creds, late, captures, now, kinds, most) ==
    [events |-> events, after |-> after, log |-> log, creds |-> creds, late |-> late, captures |-> captures,
     now |-> now, kinds |-> kinds, faults |-> most, target |-> CaptureTarget]

\* Every append and failure of the log alone; an older file put back under two
\* credentials; a capture; failing processes and machines under one credential.
Lifecycle == DOMAIN MCEvents \ {"other"}
LogCase ==
    Scenario(Lifecycle, Lifecycle, 4, {}, 0, {}, 1,
             {"write", "sync", "kill"}, 1)
RestoreCase == Scenario({"other"}, {"stopped"}, 2, {1, 2}, 1, {}, 1, {"restore"}, 1)
CaptureCase == Scenario({"beginA", "checkA", "stopped"}, {"checkA"}, 3, {1}, 1, {"k"}, 2, {"capacity"}, 1)
ProcessCase ==
    Scenario({"other"}, {"other"}, 2, {1}, 1, {}, 2,
             {"kill", "sync", "write", "lost", "timeout", "control"}, 2)
PowerCase == Scenario({"other"}, {"other"}, 3, {1}, 1, {}, 1, {"power", "timeout"}, 2)
NoEvidence == Scenario({}, {}, 0, {}, 0, {}, 1, {}, 0)
MCCases == {NoEvidence, LogCase, RestoreCase, CaptureCase, ProcessCase, PowerCase}

-------------------------------------------------------------------------------
LogMoves == evCase = NoEvidence

MCInit ==
    /\ Init /\ EvInit(MCCases)
    /\ LogMoves <=> base # None
    /\ ~LogMoves => "power" \in faults.kinds
MCNext ==
    \/ LogMoves /\ Next /\ UNCHANGED evVars
    \/ ~LogMoves /\ EvNext /\ UNCHANGED vars
MCSpec == MCInit /\ [][MCNext]_<<vars, evVars>>
===============================================================================
