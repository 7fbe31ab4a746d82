------------------------------- MODULE MCFleet -------------------------------
(* Small fleets for the control plane: deployments and their reconciler, the
   operators' decisions and node pools, identities, and the paged views.  Each
   scenario moves one of them; the others stay parked. *)
EXTENDS DeploymentReconciler, ControlFleet, ControlIdentity, ControlOperations, TLC

CONSTANTS n1, n2

-------------------------------------------------------------------------------
(* Deployments. *)
Service == [replicas |-> 1, budget |-> 1, stateful |-> FALSE, leased |-> FALSE, source |-> None]
LeasedService == [Service EXCEPT !.leased = TRUE]
Pair == [Service EXCEPT !.replicas = 2]
StatefulService == [Service EXCEPT !.stateful = TRUE]
ForkOfN1 == [StatefulService EXCEPT !.source = n1]

Fleet(deps, room, kinds, max) == [deps |-> deps, room |-> room, events |-> kinds, maxEvents |-> max]

NoFleet == Fleet(<<>>, 0, {}, 0)
SafetyFleets == {
    NoFleet,
    Fleet(<<LeasedService>>, 2, {"lose", "silent", "exit", "remove", "fail"}, 3),
    Fleet(<<LeasedService>>, 2, {"apply", "drain", "remove", "expire", "renew"}, 3),
    Fleet(<<Pair>>, 2, {"apply", "drain", "cancel", "pause", "freeze"}, 3),
    Fleet(<<Service, Service>>, 1, {"cordon", "uncordon", "freeze"}, 2),
    Fleet(<<ForkOfN1>>, 1, {"forkDue", "fail", "expire", "renew", "prune", "remove"}, 3),
    Fleet(<<StatefulService>>, 1, {"apply", "drain", "abort", "quarantine", "unquarantine"}, 3)}

-------------------------------------------------------------------------------
(* Decisions and pools. *)
Quiet == [ops |-> {"o1"}, targets |-> {}, pools |-> {}, nodes |-> {}, work |-> {}, values |-> {}, specs |-> {},
          observed |-> {}, modes |-> {}, drains |-> {}, tenant |-> <<>>, tenants |-> <<>>, size |-> <<>>,
          rank |-> <<>>, validity |-> 0, end |-> 3, statements |-> 0]
DecideCase == [Quiet EXCEPT !.ops = {"o1", "o2"}, !.values = {0, 2}, !.end = 1, !.work = {"w1"}, !.nodes = {"n1"},
    !.targets = {<<"freeze", "site">>, <<"quota", "t1">>, <<"snapshot", "t1", "s1">>},
    !.tenant = [w \in {"w1"} |-> "t1"], !.size = [w \in {"w1"} |-> 2],
    !.tenants = [n \in {"n1"} |-> {"t1"}], !.rank = [n \in {"n1"} |-> 1]]
Spec1 == [tenants |-> {"t1"}, arch |-> "", desired |-> 0, key |-> "k", public |-> 1]
PoolCase == [Quiet EXCEPT !.pools = {"p1"}, !.end = 5, !.nodes = {"n1"}, !.validity = 3, !.statements = 2,
    !.specs = {Spec1, [Spec1 EXCEPT !.tenants = {"t1", "t2"}], [Spec1 EXCEPT !.desired = 1]},
    !.observed = {[label |-> "p1", arch |-> "a", meas |-> 1], [label |-> "p1", arch |-> "a", meas |-> 2]},
    !.tenants = [n \in {"n1"} |-> {"t1", "t2"}], !.rank = [n \in {"n1"} |-> 1]]
ScaleCase == [Quiet EXCEPT !.pools = {"p1"}, !.nodes = {"n1", "n2"}, !.work = {"w1"},
    !.specs = {[Spec1 EXCEPT !.key = "", !.public = 0], [Spec1 EXCEPT !.key = "", !.public = 0, !.desired = 1]},
    !.observed = {[label |-> "p1", arch |-> "a", meas |-> 1]},
    !.modes = {"schedulable", "cordoned"}, !.drains = {"", "active", "completed"},
    !.tenant = [w \in {"w1"} |-> "t1"], !.size = [w \in {"w1"} |-> 1],
    !.tenants = [n \in {"n1", "n2"} |-> {"t1"}], !.rank = [n \in {"n1", "n2"} |-> IF n = "n1" THEN 1 ELSE 2]]
FleetCases == {Quiet, DecideCase, PoolCase, ScaleCase}

-------------------------------------------------------------------------------
(* Identities. *)
Base == [start |-> {"t1"}, tenants |-> {"t1"}, ops |-> {"o1"}, reqs |-> {"r1"}, nodes |-> {"n1"},
         scopes |-> {{"t1"}}, lives |-> {1}, rids |-> {1}, keys |-> {1}]
AdminCase == [Base EXCEPT !.start = {}, !.nodes = {}, !.tenants = {"t1", "t2"}, !.ops = {"o1", "o2"}]
EnrollCase == [Base EXCEPT !.lives = {2}, !.rids = {1, 2}]
TwoNodes == [Base EXCEPT !.nodes = {"n1", "n2"}, !.ops = {}, !.reqs = {"r1", "r2"}]
TwoKeys == [Base EXCEPT !.keys = {1, 2}, !.ops = {}, !.reqs = {"r1", "r2"}]
NoIdentities == [Base EXCEPT !.tenants = {}, !.ops = {}, !.reqs = {}, !.nodes = {}]
IdentityCases == {NoIdentities, AdminCase, EnrollCase, TwoNodes, TwoKeys}

-------------------------------------------------------------------------------
(* Views. *)
Bare == [tenants |-> 2, scopes |-> {0, 1}, lists |-> {}, cmds |-> {}, nodes |-> {}, creds |-> {}, quota |-> {},
         tenant |-> <<>>, host |-> <<>>, runtime |-> <<>>, reports |-> <<>>, statuses |-> {"unknown", "running"},
         serves |-> <<>>, holds |-> <<>>, quotaTenant |-> 1, ceiling |-> 2, changes |-> 3,
         siteLimit |-> [r \in {1, 2, 4} |-> 4], tenantLimit |-> [r \in {1, 2, 4} |-> 3]]
CommandCase == [Bare EXCEPT !.lists = {"commands", "agents"}, !.cmds = 1..3, !.changes = 5,
    !.tenant = <<1, 2, 1>>, !.host = <<2, 1, 1>>, !.runtime = <<1, 1, 2>>, !.reports = <<"running", "stopped", "running">>]
NodeCase == [Bare EXCEPT !.lists = {"timeline"}, !.scopes = {0}, !.nodes = 1..2, !.serves = <<{1, 2}, {1}>>, !.changes = 3,
    !.siteLimit = [r \in {1, 2, 4} |-> 40], !.tenantLimit = [r \in {1, 2, 4} |-> 40]]
AccessCase == [Bare EXCEPT !.lists = {"credentials", "timeline"}, !.creds = 1..4, !.holds = <<{1}, {1, 2}, {2}, {1}>>, !.scopes = {1}, !.changes = 4]
QuotaCase == [Bare EXCEPT !.lists = {"attention"}, !.quota = {1, 2}, !.cmds = 1..3, !.changes = 5, !.scopes = {1},
    !.tenant = <<1, 1, 1>>, !.host = <<1, 1, 1>>, !.runtime = <<1, 1, 1>>, !.reports = <<"running", "running", "running">>]
PressureCase == [QuotaCase EXCEPT !.changes = 3, !.nodes = {1}, !.serves = <<{1}>>, !.cmds = {1}, !.scopes = {0}]
OperationsCases == {Bare, CommandCase, NodeCase, AccessCase, PressureCase}

-------------------------------------------------------------------------------
Moving == <<fleet # NoFleet, flCase # Quiet, idCase # NoIdentities, opCase # Bare>>

MCInit ==
    /\ Init /\ FlInit /\ IdInit /\ OpInit
    /\ Cardinality({k \in DOMAIN Moving : Moving[k]}) = 1
MCNext ==
    \/ Moving[1] /\ Next /\ UNCHANGED <<flVars, idVars, opVars>>
    \/ Moving[2] /\ FlNext /\ UNCHANGED <<vars, idVars, opVars>>
    \/ Moving[3] /\ IdNext /\ UNCHANGED <<vars, flVars, opVars>>
    \/ Moving[4] /\ OpNext /\ UNCHANGED <<vars, flVars, idVars>>
MCSpec == MCInit /\ [][MCNext]_<<vars, flVars, idVars, opVars>>
===============================================================================
