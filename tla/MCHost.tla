------------------------------- MODULE MCHost -------------------------------
(* Scenarios for what runs on a node beside the lifecycle of workloads: the supervisor
   with its uplink and rate limiter, the storage worker, Gateway's routes, and signed
   admission.  A scenario moves one of them; the others stay parked. *)
EXTENDS SupervisorUplink, RateLimiter, StateStorage, GatewayRoutes, Admission

-------------------------------------------------------------------------------
(* The supervisor: concurrent clients, failing writes, restarts with reused process
   identifiers, the uplink under an unreliable control plane; the rate limiter. *)
Cfg == [flag |-> 0, env |-> 0, max |-> 2, readable |-> TRUE, inbound |-> "loopback", uplink |-> FALSE,
        root |-> FALSE, ackRoot |-> FALSE, ackPublic |-> FALSE]
Base == [exec |-> TRUE, clients |-> {"a", "b"}, calls |-> 3, ids |-> {"x"}, specs |-> {"command"},
         kinds |-> {"provision", "start", "stop", "hibernate", "destroy"}, batch |-> <<>>,
         commands |-> <<>>, depth |-> 2, config |-> Cfg, edits |-> {}, faults |-> <<>>]

\* Three callers race on one instance.
RaceCase == [Base EXCEPT !.faults = [crash |-> 1]]
\* Writes of the state file fail.
WriteCase == [Base EXCEPT !.faults = [persist |-> 1, crash |-> 1]]
\* Restarts, and identifiers taken by others.
RestartCase == [Base EXCEPT !.clients = {"a"}, !.calls = 4, !.faults = [kill |-> 1, crash |-> 1, stranger |-> 1, spawn |-> 1]]
\* The capacity cap, its reload and refused specs, through a batch too.
CapCase == [Base EXCEPT !.exec = FALSE, !.clients = {"a", "batch"}, !.ids = {"x", "y"}, !.calls = 2,
                        !.specs = {"opaque", "malformed"},
                        !.batch = <<[kind |-> "provision", id |-> "x", gen |-> 0, spec |-> "opaque"],
                                    [kind |-> "destroy", ref |-> 1],
                                    [kind |-> "provision", id |-> "x", gen |-> 0, spec |-> "opaque"]>>,
                        !.edits = {0, 1}, !.config.max = 1, !.faults = [edit |-> 1, kill |-> 1]]
\* Commands of two generations; starts that precede their provision.
MCCommandOf ==
    [p1 |-> [kind |-> "provision", id |-> "x", gen |-> 1, spec |-> "opaque", node |-> "self"],
     p2 |-> [kind |-> "provision", id |-> "x", gen |-> 2, spec |-> "opaque", node |-> "self"],
     s1 |-> [kind |-> "start", id |-> "x", gen |-> 1, spec |-> "opaque", node |-> "self"],
     d1 |-> [kind |-> "destroy", id |-> "x", gen |-> 1, spec |-> "opaque", node |-> "self"],
     pc |-> [kind |-> "provision", id |-> "x", gen |-> 1, spec |-> "command", node |-> "self"],
     h1 |-> [kind |-> "hibernate", id |-> "x", gen |-> 1, spec |-> "command", node |-> "self"],
     t1 |-> [kind |-> "stop", id |-> "x", gen |-> 1, spec |-> "command", node |-> "self"],
     pn |-> [kind |-> "provision", id |-> "x", gen |-> 1, spec |-> "scalar", node |-> "self"],
     f1 |-> [kind |-> "start", id |-> "x", gen |-> 1, spec |-> "opaque", node |-> "other"]]
UplinkBase == [Base EXCEPT !.clients = {"a"}, !.calls = 1, !.kinds = {"provision", "stop", "destroy"},
                           !.specs = {"opaque"}, !.config.uplink = TRUE, !.exec = FALSE]
FenceCase == [UplinkBase EXCEPT !.commands = <<"s1", "p1", "p2", "d1">>, !.faults = [lease |-> 1, report |-> 1]]
ExecCase == [UplinkBase EXCEPT !.commands = <<"pn", "s1", "pc", "h1", "t1">>, !.exec = TRUE, !.depth = 3,
                               !.kinds = {"start", "destroy"}, !.faults = [crash |-> 1, persist |-> 1]]
LossCase == [UplinkBase EXCEPT !.commands = <<"p1", "f1">>,
                               !.faults = [kill |-> 1, poll |-> 1, revoke |-> 1, wrongfile |-> 1]]
\* No instances.
NoInstances == [Base EXCEPT !.clients = {}]
MCCases == {RaceCase, WriteCase, RestartCase, CapCase, FenceCase, ExecCase, LossCase, NoInstances}

Rl == [ratePerTick |-> 1, burst |-> 2, idleAfter |-> 1, sweepEvery |-> 2, maxSources |-> 2]
NoSources == [Rl EXCEPT !.maxSources = 0]
MCRlCases == {NoSources, Rl, [Rl EXCEPT !.ratePerTick = 2, !.burst = 3, !.idleAfter = 3, !.maxSources = 1]}

-------------------------------------------------------------------------------
(* Persistent state. *)
SourceDef == [s \in {"s1"} |-> "a"]
StCase == [foreign |-> {}, admitted |-> {"a"}, maxGen |-> 2, faults |-> 2]
NoState == [StCase EXCEPT !.admitted = {}, !.maxGen = 0, !.faults = 0]
StCasesDef ==
    {NoState, StCase, [StCase EXCEPT !.admitted = {}, !.maxGen = 1],
     [StCase EXCEPT !.foreign = {"b"}, !.maxGen = 1]}

-------------------------------------------------------------------------------
(* Gateway routes: a grant with inference and egress, a second of the same tenant
   with egress only, one of another tenant with a connector and tasks. *)
GrantedDef ==
    [g1 |-> [tenant |-> "t1", inference |-> {"m"}, egress |-> <<"e">>, connectors |-> {}, service |-> ""],
     g2 |-> [tenant |-> "t1", inference |-> {}, egress |-> <<"f", "e">>, connectors |-> {}, service |-> ""],
     g3 |-> [tenant |-> "t2", inference |-> {}, egress |-> <<"e">>, connectors |-> {"k"}, service |-> "s"]]

To(host, exceptions) == [host |-> host, ports |-> {443}, exceptions |-> exceptions]

RtBase ==
    [routes |-> <<[id |-> "m", policy |-> "p1", cap |-> 1, file |-> "mkey"]>>,
     egress |-> <<[id |-> "e", destinations |-> <<To(<<"*", "org">>, {})>>, cap |-> 1],
                  [id |-> "f", destinations |-> <<To(<<"db">>, {"private"})>>, cap |-> 1]>>,
     connectors |-> <<[id |-> "k", policy |-> "p1", cap |-> 1, file |-> "kkey"]>>,
     operations |-> {[service |-> "s", id |-> "run", path |-> "/run"]},
     own |-> {"token"}, audit |-> TRUE, budgets |-> {<<"t2", 1>>}, token |-> "x"]

Wider == [RtBase EXCEPT !.routes[1].policy = "p2", !.egress[1].cap = 2]
NoEgress == [RtBase EXCEPT !.egress = <<>>]
OtherService == [RtBase EXCEPT !.connectors[1].policy = "p2", !.operations = {[service |-> "s", id |-> "run", path |-> "/go"]}]
SharedKey == [RtBase EXCEPT !.connectors[1].file = "mkey"]
Rebudgeted == [RtBase EXCEPT !.budgets = {<<"t2", 2>>}]
Keys == [mkey |-> "one", kkey |-> "one"]
NewKeys == [mkey |-> "two", kkey |-> "two"]

Web(mode) == [mode |-> mode, host |-> <<"api", "org">>, port |-> 443]
Apex == [mode |-> "http", host |-> <<"org">>, port |-> 443]

RouteConfigsDef ==
    [base |-> RtBase, wider |-> Wider, closed |-> NoEgress, other |-> OtherService, shared |-> SharedKey, rebudgeted |-> Rebudgeted]
KeyFilesDef == [keys |-> Keys, newkeys |-> NewKeys]

RtCase(configs, grants, reqs, asks, left, revokes, until) ==
    [disk |-> <<"base", "keys">>, configs |-> configs, files |-> {"keys", "newkeys"}, grants |-> grants,
     calls |-> reqs, asks |-> asks, left |-> left, revokes |-> revokes, until |-> until]
Left(edits, faults, crashes) == [edits |-> edits, faults |-> faults, crashes |-> crashes]

RtCasesDef ==
    [none |-> RtCase({}, {}, {}, {}, Left(0, 0, 0), 0, 0),
     reload |-> RtCase({"base", "wider", "closed"}, {"g1"}, {"r1"}, {Web("http")}, Left(1, 1, 1), 1, 1),
     pins |-> RtCase({"base", "other", "shared", "rebudgeted"}, {"g3"}, {}, {}, Left(2, 1, 1), 1, 1),
     slots |-> RtCase({"base", "wider", "other"}, {"g1"}, {"r1", "r2"}, {Web("http")}, Left(1, 0, 0), 1, 1),
     tunnels |-> RtCase({"base"}, {"g1"}, {"r1", "r2"}, {Web("connect")}, Left(0, 1, 0), 1, 1),
     denials |-> RtCase({"base"}, {"g1", "g2"}, {"r1"}, {Apex}, Left(0, 0, 0), 1, 3)]

-------------------------------------------------------------------------------
(* Signed admission.  Tenant t has two action keys and needs both; u none.  A policy
   is rotated: p2 takes "start" from tenant key k and revokes publisher b; p3 leaves no
   tenant; bad asks for more approvers of a connector than it names. *)
Size(n) == [memory |-> n]
Publisher(out) ==
    [revoked |-> out, profiles |-> {"std"}, repositories |-> {"r"}, manifests |-> {}, artifacts |-> {}, ceiling |-> Size(3)]
NoEffects == [mode |-> "none", min |-> 0, context |-> FALSE, keys |-> <<>>]
Approval(public, to) == [public |-> public, connectors |-> to]
TwoOf(first, second) ==
    [mode |-> "optional", min |-> 2, context |-> FALSE, keys |-> [a1 |-> Approval("A", first), a2 |-> Approval("B", second)]]
TenantOf(effects, ops) ==
    [publishers |-> {"a", "b"}, ceiling |-> Size(2), artifacts |-> {}, routes |-> {}, aliases |-> {}, services |-> {"s"},
     egress |-> {"e"}, connectors |-> {"c", "d"}, commandKeys |-> [k |-> ops],
     taskKeys |-> <<>>, effects |-> effects]
All == {"admit", "renew", "start", "stop", "destroy"}
SiteOf(epoch, out, tenants) ==
    [epoch |-> epoch, publishers |-> [a |-> Publisher(FALSE), b |-> Publisher(out)],
     cleanupKeys |-> [janitor |-> {"stop", "destroy"}], tenants |-> tenants]
SitePoliciesDef ==
    [p1 |-> SiteOf(1, FALSE, [t |-> TenantOf(TwoOf({"c", "d"}, {"c", "d"}), All), u |-> TenantOf(NoEffects, All)]),
     p2 |-> SiteOf(2, TRUE, [t |-> TenantOf(TwoOf({"c", "d"}, {"c", "d"}), All \ {"start"})]),
     p3 |-> SiteOf(3, TRUE, <<>>),
     bad |-> SiteOf(2, FALSE, [t |-> TenantOf(TwoOf({"c", "d"}, {"c"}), All)])]
CapsuleOf(publisher) ==
    [signer |-> publisher, publisher |-> publisher, profile |-> "std", repository |-> "r", manifest |-> "m",
     artifacts |-> {}, command |-> "x", state |-> "any", service |-> "", resources |-> Size(2),
     capabilities |-> {"connector", "egress", "state"}, expires |-> 0]
CapsulesDef == [ca |-> CapsuleOf("a"), cb |-> CapsuleOf("b")]
IntentOf(capsule, instance, generation, caps, mode) ==
    [tenant |-> "t", node |-> "n", instance |-> instance, lineage |-> "l", generation |-> generation, capsule |-> capsule,
     resources |-> Size(2), capabilities |-> caps, state |-> IF "state" \in caps THEN "new" ELSE "none", route |-> "",
     alias |-> "", service |-> "", egress |-> {}, connectors |-> IF "connector" \in caps THEN {"c", "d"} ELSE {}, mode |-> mode]
Lone == IntentOf("cb", "i", 1, {"state"}, "standard")
Acting == IntentOf("ca", "i", 2, {"connector"}, "authorized")
Sharing == IntentOf("ca", "j", 1, {"state"}, "standard")
DelegationOf(ops) ==
    [signer |-> "k", tenant |-> "t", controller |-> "ctl", operations |-> ops, nodes |-> {"n"},
     instances |-> [i |-> [lineage |-> "l", min |-> 1, max |-> 2]], claim |-> 1,
     template |-> [capsule |-> IF "admit" \in ops THEN "ca" ELSE "", resources |-> Size(2), capabilities |-> {"connector"},
                   state |-> "none", route |-> "", alias |-> "", service |-> "", egress |-> {}, connectors |-> {"c", "d"},
                   mode |-> "authorized",
                   placement |-> [isolation |-> "", assurance |-> "", labels |-> {}, tolerations |-> {}]],
     issued |-> 0, expires |-> 3]
DelegationsDef == [d |-> DelegationOf({"admit", "stop"}), ds |-> DelegationOf({"admit", "start"})]
CommandFor(signer, kind, intent, generation, delegation) ==
    [signer |-> signer, kind |-> kind, tenant |-> "t", node |-> "n", instance |-> "i", claim |-> 1,
     generation |-> generation, issued |-> 0, expires |-> 3, delegation |-> delegation, context |-> delegation,
     capsule |-> intent.capsule, intent |-> intent, lease |-> 2]
SignedCommandsDef ==
    [admit1 |-> CommandFor("k", "admit", Lone, 1, ""), admit2 |-> CommandFor("ctl", "admit", Acting, 2, "d"),
     start |-> CommandFor("ctl", "start", Acting, 2, "ds"), startk |-> CommandFor("k", "start", Lone, 1, ""),
     stop |-> CommandFor("ctl", "stop", Acting, 2, "d"), beyond |-> CommandFor("ctl", "destroy", Acting, 2, "d"),
     clean1 |-> CommandFor("janitor", "destroy", Lone, 1, ""), clean2 |-> CommandFor("janitor", "destroy", Acting, 2, ""),
     renew |-> [CommandFor("k", "renew", Lone, 1, "") EXCEPT !.lease = 2],
     renew2 |-> [CommandFor("k", "renew", Lone, 1, "") EXCEPT !.lease = 3]]
HostRequestsDef == {[capsule |-> "ca", intent |-> Sharing]}
AuthoritiesDef ==
    LET Key(public) == [public |-> public, tenant |-> "t"] IN [c \in {"c", "d"} |-> [a1 |-> Key("A"), a2 |-> Key("B")]]
RegistryDef == [std |-> [state |-> "any", command |-> "", service |-> ""]]
SchedulingDef == [isolation |-> "vm", assurance |-> "", labels |-> {}, taints |-> {}]

-------------------------------------------------------------------------------
Moving == <<svCase # NoInstances, rlCase # NoSources, setting # NoState, rtCase # "none">>
AdMoving == \A k \in DOMAIN Moving : ~Moving[k]

MCInit ==
    /\ SvInit /\ RlInit /\ StInit /\ RtInit /\ AdInit
    /\ Cardinality({k \in DOMAIN Moving : Moving[k]}) <= 1
MCNext ==
    \/ Moving[1] /\ SvNext /\ UNCHANGED <<rlVars, stVars, rtVars, adVars>>
    \/ Moving[2] /\ RlNext /\ UNCHANGED <<svVars, stVars, rtVars, adVars>>
    \/ Moving[3] /\ StNext /\ UNCHANGED <<svVars, rlVars, rtVars, adVars>>
    \/ Moving[4] /\ RtNext /\ UNCHANGED <<svVars, rlVars, stVars, adVars>>
    \/ AdMoving /\ AdNext /\ UNCHANGED <<svVars, rlVars, stVars, rtVars>>
MCSpec ==
    /\ MCInit /\ [][MCNext]_<<svVars, rlVars, stVars, rtVars, adVars>>
    /\ StFairness
===============================================================================
