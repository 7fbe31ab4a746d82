---------------------------- MODULE ControlFleet ----------------------------
(* Site policy in Control that operators change by optimistic revision: freezes,
   snapshot quarantines, tenant quotas and node pools (internal/controlstore), and
   the signed memberships (internal/poolmembership) that make a node count in a
   pool.  An operator acts on a record it read earlier; others act in between. *)
EXTENDS Integers, FiniteSets, FiniteSetsExt

CONSTANTS
    FlCases,        \* scenarios: operators, targets, pools, nodes and inputs
    FlStale,        \* age at which a scheduling observation no longer counts
    FlMaxPools,     \* MaxNodePools
    FlMaxQuarantines, \* MaxSnapshotQuarantinesPerTenant
    FlMaxInt,       \* the largest int64
    FlMaxRevision   \* bound on the revisions of one record

VARIABLES
    flCase,      \* the scenario
    flNow,       \* Control's clock
    flDecisions, \* per target: revision (0: no record) and value (0: off)
    flSeen,      \* what each operator last read and still intends to act on
    flPools,     \* pool records; revision 0: no pool
    flNodes,     \* what Control retains of each node
    flWork,      \* workloads: the node, the phase and the requested resources
    flSigned     \* membership statements the pool authorities signed
flVars == <<flCase, flNow, flDecisions, flSeen, flPools, flNodes, flWork, flSigned>>

Absent == [rev |-> 0, val |-> 0, at |-> 0]
NoPool == [rev |-> 0, gen |-> 0, created |-> 0, updated |-> 0,
           spec |-> [tenants |-> {}, arch |-> "", desired |-> 0, key |-> "", public |-> 0]]
NothingSeen == [target |-> <<"none">>, rev |-> 0, stamp |-> Absent]
NoMembership == [pool |-> "", gen |-> 0, created |-> 0, tenants |-> {}, arch |-> "", key |-> "",
                 public |-> 0, meas |-> 0, node |-> "", issued |-> 0, until |-> 0]
UnseenNode == [active |-> TRUE, at |-> 0, label |-> "", arch |-> "", meas |-> 0, member |-> NoMembership,
               mode |-> "schedulable", drain |-> ""]

FlInit ==
    /\ flCase \in FlCases
    /\ flNow = 1
    /\ flDecisions = [t \in flCase.targets |-> Absent]
    /\ flSeen = [op \in flCase.ops |-> NothingSeen]
    /\ flPools = [p \in flCase.pools |-> NoPool]
    /\ flNodes = [n \in flCase.nodes |-> UnseenNode]
    /\ flWork = [w \in flCase.work |-> [node |-> "", phase |-> "pending"]]
    /\ flSigned = {}

---------------------------------------------------------------------------
(* Optimistic decisions. *)

Pool(p) == flPools[p]
Exists(p) == Pool(p).rev > 0

\* The reads: InspectOperationalFreeze, InspectSnapshotQuarantine,
\* InspectTenantResourceQuota and GetNodePool.  A stamp tells apart what was read
\* from any other content the record ever has.
Inspect(op, t) ==
    /\ flSeen' = [flSeen EXCEPT ![op] =
         IF t[1] = "pool" THEN [target |-> t, rev |-> Pool(t[2]).rev, stamp |-> Pool(t[2])]
         ELSE [target |-> t, rev |-> flDecisions[t].rev, stamp |-> flDecisions[t]]]
    /\ flSeen' # flSeen
    /\ UNCHANGED <<flCase, flNow, flDecisions, flPools, flNodes, flWork, flSigned>>

Decides(cur, expected, want) ==
    /\ cur.rev = expected
    /\ cur.rev > 0 => cur.at <= flNow
    /\ want # cur.val
Decide(op, t, want, allowed) ==
    LET cur == flDecisions[t]
    IN /\ flSeen[op].target = t
       /\ cur.rev < FlMaxRevision
       /\ flDecisions' = IF Decides(cur, flSeen[op].rev, want) /\ allowed
                         THEN [flDecisions EXCEPT ![t] = [rev |-> cur.rev + 1, val |-> want, at |-> flNow]]
                         ELSE flDecisions
       /\ flSeen' = [flSeen EXCEPT ![op] = NothingSeen]
       /\ UNCHANGED <<flCase, flNow, flPools, flNodes, flWork, flSigned>>

ChangeOperationalFreeze(op, t, reason) == t[1] = "freeze" /\ Decide(op, t, reason, TRUE)
ChangeSnapshotQuarantine(op, t, reason) ==
    LET held == {u \in flCase.targets : u[1] = "snapshot" /\ u[2] = t[2] /\ flDecisions[u].rev > 0}
    IN t[1] = "snapshot" /\ Decide(op, t, reason, flDecisions[t].rev > 0 \/ Cardinality(held) < FlMaxQuarantines)
ChangeTenantResourceQuota(op, t, limit) == t[1] = "quota" /\ Decide(op, t, limit, TRUE)

\* effectiveOperationalFreeze: the site's freeze before the tenant's.
Frozen(tenant) == \E t \in flCase.targets : t[1] = "freeze" /\ t[2] \in {"site", tenant} /\ flDecisions[t].val # 0

\* tenantRequestedResourceUsage; a sum past int64 counts as over any quota.
Reserves(w) == flWork[w].phase \notin {"pending", "removed"}
Usage(tenant) ==
    MapThenSumSet(LAMBDA w : flCase.size[w], {w \in flCase.work : flCase.tenant[w] = tenant /\ Reserves(w)})
exceedsSchedulingCapacity(used, add, maximum) == used > FlMaxInt \/ add > maximum \/ used > maximum - add
Quota(tenant) == flDecisions[<<"quota", tenant>>]
checkTenantResourceQuota(w) ==
    LET tenant == flCase.tenant[w]
    IN <<"quota", tenant>> \in flCase.targets /\ Quota(tenant).val > 0
         => ~exceedsSchedulingCapacity(Usage(tenant), flCase.size[w], Quota(tenant).val)

\* The admit and the removal of a workload, as far as policy decides them; the
\* placement itself is Deployments' EnqueueDeploymentCommand.
Admit(w, n) ==
    /\ flWork[w].phase = "pending"
    /\ ~Frozen(flCase.tenant[w])
    /\ flNodes[n].active /\ flNodes[n].mode = "schedulable"
    /\ checkTenantResourceQuota(w)
    /\ flWork' = [flWork EXCEPT ![w] = [node |-> n, phase |-> "admitted"]]
    /\ UNCHANGED <<flCase, flNow, flDecisions, flSeen, flPools, flNodes, flSigned>>
Removed(w) ==
    /\ flWork[w].phase = "admitted"
    /\ flWork' = [flWork EXCEPT ![w].phase = "removed"]
    /\ UNCHANGED <<flCase, flNow, flDecisions, flSeen, flPools, flNodes, flSigned>>

---------------------------------------------------------------------------
(* Node pools. *)

FaultySameMembershipSpec(a, b) == a.arch = b.arch /\ a.key = b.key /\ a.public = b.public
sameNodePoolMembershipSpec(a, b) ==
    a.arch = b.arch /\ a.key = b.key /\ a.public = b.public /\ a.tenants = b.tenants

\* What ApplyNodePool retains: a new pool starts again at revision and generation
\* one; an update keeps its creation time and advances the generation only with
\* the fields that memberships are signed for.
AppliedPool(cur, spec) ==
    IF cur.rev = 0 THEN [rev |-> 1, gen |-> 1, created |-> flNow, updated |-> flNow, spec |-> spec]
    ELSE [rev |-> cur.rev + 1, created |-> cur.created, updated |-> flNow, spec |-> spec,
          gen |-> IF sameNodePoolMembershipSpec(cur.spec, spec) THEN cur.gen ELSE cur.gen + 1]
Applies(cur, expected, spec) ==
    /\ cur.rev = expected
    /\ cur.rev = 0 => Cardinality({p \in flCase.pools : Exists(p)}) < FlMaxPools
    /\ cur.rev > 0 => cur.updated <= flNow /\ cur.spec # spec
ApplyNodePool(op, p, spec) ==
    /\ flSeen[op].target = <<"pool", p>>
    /\ Pool(p).rev < FlMaxRevision
    /\ flPools' = IF Applies(Pool(p), flSeen[op].rev, spec)
                  THEN [flPools EXCEPT ![p] = AppliedPool(Pool(p), spec)] ELSE flPools
    /\ flSeen' = [flSeen EXCEPT ![op] = NothingSeen]
    /\ flNow' = flNow + 1 \* two creations never share an instant
    /\ UNCHANGED <<flCase, flDecisions, flNodes, flWork, flSigned>>
\* The memberships bound to the pool stay with their nodes.
DeleteNodePool(op, p) ==
    /\ flSeen[op].target = <<"pool", p>> /\ flSeen[op].rev > 0
    /\ flPools' = IF Pool(p).rev = flSeen[op].rev THEN [flPools EXCEPT ![p] = NoPool] ELSE flPools
    /\ flSeen' = [flSeen EXCEPT ![op] = NothingSeen]
    /\ UNCHANGED <<flCase, flNow, flDecisions, flNodes, flWork, flSigned>>

\* The pool's authority signs a statement for a node from the pool and the
\* observation it is shown (cmd/stewardctl membership-issue).
SignMembership(p, n) ==
    /\ Exists(p) /\ Pool(p).spec.key # "" /\ flNodes[n].at > 0
    /\ flSigned' = flSigned \cup
         {[pool |-> p, gen |-> Pool(p).gen, created |-> Pool(p).created, tenants |-> Pool(p).spec.tenants,
           arch |-> Pool(p).spec.arch, key |-> Pool(p).spec.key, public |-> Pool(p).spec.public,
           meas |-> flNodes[n].meas, node |-> n, issued |-> flNow, until |-> flNow + flCase.validity]}
    /\ Cardinality(flSigned') <= flCase.statements
    /\ UNCHANGED <<flCase, flNow, flDecisions, flSeen, flPools, flNodes, flWork>>

\* poolmembership.Verify under the pool's current key.
Verified(s) == s.key = Pool(s.pool).spec.key /\ s.public = Pool(s.pool).spec.public /\ s.issued <= flNow /\ flNow < s.until
sameNodePoolMembershipLineage(a, b) == a.pool = b.pool /\ a.gen = b.gen /\ a.created = b.created /\ a.key = b.key
Bindable(s, node) ==
    /\ Exists(s.pool) /\ Pool(s.pool).spec.key # "" /\ Verified(s)
    /\ s.gen = Pool(s.pool).gen /\ s.created = Pool(s.pool).created
    /\ s.arch = Pool(s.pool).spec.arch /\ s.tenants = Pool(s.pool).spec.tenants
    /\ s.tenants \subseteq flCase.tenants[s.node]
    /\ node.active /\ node.at > 0 /\ node.meas = s.meas
    /\ node.member # s
    /\ sameNodePoolMembershipLineage(node.member, s) => s.issued > node.member.issued
BindNodePoolMembership(s) ==
    /\ Bindable(s, flNodes[s.node])
    /\ flNodes' = [flNodes EXCEPT ![s.node].member = s]
    /\ UNCHANGED <<flCase, flNow, flDecisions, flSeen, flPools, flWork, flSigned>>

\* ObserveNodeScheduling: at most one observation each interval.
ObserveNodeScheduling(n, obs) ==
    /\ flNodes[n].active
    /\ flNodes[n].at < flNow
    /\ flNodes' = [flNodes EXCEPT ![n].at = flNow, ![n].label = obs.label, ![n].arch = obs.arch, ![n].meas = obs.meas]
    /\ UNCHANGED <<flCase, flNow, flDecisions, flSeen, flPools, flWork, flSigned>>

\* nodeAdvertisesPool, nodePoolMembershipEligible and nodePoolNodeReady.
nodeAdvertisesPool(n, p) ==
    /\ flNodes[n].active /\ flNodes[n].at > 0 /\ flNodes[n].label = p
    /\ Pool(p).spec.arch \in {"", flNodes[n].arch}
    /\ Pool(p).spec.tenants \subseteq flCase.tenants[n]
nodePoolMembershipEligible(n, p) ==
    LET m == flNodes[n].member
    IN Pool(p).spec.key # "" =>
          /\ m.pool = p /\ m.gen = Pool(p).gen /\ m.key = Pool(p).spec.key
          /\ Pool(p).spec.arch \in {"", m.arch}
          /\ flNow < m.until
          /\ flNodes[n].meas = m.meas
nodePoolNodeReady(n) ==
    flNow < flNodes[n].at + FlStale /\ flNodes[n].mode = "schedulable" /\ flNodes[n].drain \in {"", "cancelled"}
Eligible(p) == {n \in flCase.nodes : Exists(p) /\ nodeAdvertisesPool(n, p) /\ nodePoolMembershipEligible(n, p)}
Ready(p) == {n \in Eligible(p) : nodePoolNodeReady(n)}

\* nodePoolStatusLocked: the drained nodes without work, no more than the surplus.
nodeHasAssignedWorkload(n) == \E w \in flCase.work : flWork[w].node = n /\ flWork[w].phase # "removed"
FaultySurplus(p) == Cardinality(Eligible(p))
Surplus(p) == Max({0, Cardinality(Eligible(p)) - Pool(p).spec.desired})
ScaleInCandidates(p) ==
    LET drained == {n \in Eligible(p) : flNodes[n].drain = "completed" /\ ~nodeHasAssignedWorkload(n)}
    IN {n \in drained : Cardinality({m \in drained : flCase.rank[m] < flCase.rank[n]}) < Surplus(p)}
\* NodePoolStatus.Validate, which the client runs on every answer.
statusValid(p) ==
    /\ Ready(p) \subseteq Eligible(p)
    /\ \A n \in ScaleInCandidates(p) : flNodes[n].drain = "completed" /\ n \notin Ready(p)
ScaleOutNeeded(p) == Max({0, Pool(p).spec.desired - Cardinality(Eligible(p))})

\* Placement and drain decisions (Deployments): a drain cordons the node, and
\* completes once nothing is assigned to it.
ChangePlacement(n, mode, drain) ==
    /\ flNodes[n].active
    /\ drain # "" => mode = "cordoned"
    /\ drain = "completed" => flNodes[n].drain = "active" /\ ~nodeHasAssignedWorkload(n)
    /\ flNodes' = [flNodes EXCEPT ![n].mode = mode, ![n].drain = drain]
    /\ flNodes' # flNodes
    /\ UNCHANGED <<flCase, flNow, flDecisions, flSeen, flPools, flWork, flSigned>>

\* The provider loop of docs/guides/node-pools.md: a machine is deleted, and its
\* node revoked, only while the pool's status lists it.
DeleteMachine(p, n) ==
    /\ n \in ScaleInCandidates(p)
    /\ statusValid(p)
    /\ ScaleOutNeeded(p) = 0
    /\ flNodes' = [flNodes EXCEPT ![n].active = FALSE]
    /\ UNCHANGED <<flCase, flNow, flDecisions, flSeen, flPools, flWork, flSigned>>

FlTick == flNow < flCase.end /\ flNow' = flNow + 1 /\ UNCHANGED <<flCase, flDecisions, flSeen, flPools, flNodes, flWork, flSigned>>

\* The HTTP handlers of internal/controlplane.
freezeRequest == \E op \in flCase.ops, t \in flCase.targets, v \in flCase.values : ChangeOperationalFreeze(op, t, v)
quarantineRequest == \E op \in flCase.ops, t \in flCase.targets, v \in flCase.values : ChangeSnapshotQuarantine(op, t, v)
quotaRequest == \E op \in flCase.ops, t \in flCase.targets, v \in flCase.values : ChangeTenantResourceQuota(op, t, v)
nodePoolRequest ==
    \E op \in flCase.ops, p \in flCase.pools :
        DeleteNodePool(op, p) \/ (flNow < flCase.end /\ \E spec \in flCase.specs : ApplyNodePool(op, p, spec))
poolMembershipRequest == \E s \in flSigned : BindNodePoolMembership(s)
schedulingRequest == \E n \in flCase.nodes, obs \in flCase.observed : ObserveNodeScheduling(n, obs)
placementRequest == \E n \in flCase.nodes, mode \in flCase.modes, drain \in flCase.drains : ChangePlacement(n, mode, drain)

FlNext ==
    \/ \E op \in flCase.ops, t \in flCase.targets \cup ({"pool"} \X flCase.pools) : Inspect(op, t)
    \/ freezeRequest \/ quarantineRequest \/ quotaRequest \/ nodePoolRequest
    \/ poolMembershipRequest \/ schedulingRequest \/ placementRequest
    \/ \E w \in flCase.work : Removed(w) \/ \E n \in flCase.nodes : Admit(w, n)
    \/ \E p \in flCase.pools, n \in flCase.nodes : SignMembership(p, n) \/ DeleteMachine(p, n)
    \/ FlTick
FlSpec == FlInit /\ [][FlNext]_flVars

---------------------------------------------------------------------------
(* Properties. *)

\* Scale-in never costs wanted capacity or work: deleting the listed machines, one
\* after the other and with everything else moving, takes no node that holds work
\* and leaves the pool its desired eligible nodes (nodePoolStatusLocked).
ScaleInKeepsCapacity ==
    [][\A n \in flCase.nodes : flNodes[n].active /\ ~flNodes'[n].active =>
          /\ ~nodeHasAssignedWorkload(n)
          /\ \A p \in flCase.pools : n \in Eligible(p) => Cardinality(Eligible(p)) > Pool(p).spec.desired]_flVars
===============================================================================
