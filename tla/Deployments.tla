---------------------------- MODULE Deployments ----------------------------
(***************************************************************************)
(* Control's deployment records and what its store does to them            *)
(* (controlstore/deployments.go, deployment_reconcile.go,                  *)
(* deployment_drain.go, deployment_rollout.go, node_drain.go,              *)
(* node_placement.go, scheduling.go).  Every store call runs under one     *)
(* mutex, so it is one step; the operators below are the bodies of those   *)
(* calls after their revision check, and DeploymentReconciler drives them. *)
(*                                                                         *)
(* A cursor <<d, i>> is instance i of deployment d.  Time is counted down: *)
(* a lease holds the ticks left until its expiry, and stops counting Skew  *)
(* ticks after it, where nothing distinguishes it any more.  Revisions are *)
(* not kept: what matters of one is whether it changed since the           *)
(* reconciler's snapshot, which the reconciler module records.             *)
(***************************************************************************)
EXTENDS Integers, FiniteSets

CONSTANTS
    None,
    Nodes,
    Fleets,      \* the fleets considered; see FleetsAssumption
    Span,        \* instance generations one delegation allows
    MaxVersion,  \* bound: how often a deployment is applied
    MaxForksPerSnapshot,
    LeaseDuration, RenewBefore, Skew

VARIABLES
    fleet,   \* the fleet of this behaviour; never changes
    dep,     \* per deployment: version, desired state, rollout, expiries
    inst,    \* per cursor: the DeploymentInstance
    cmd,     \* per cursor: the command record its CommandID names, or None
    node,    \* per node: placement mode, drain, and whether its last
             \* poll is recent enough
    frozen   \* the tenant's, or the site's, operational freeze

\* A fleet gives each deployment its number of replicas, its disruption
\* budget, whether its delegation grants a state volume and workload leases,
\* and for a fork the node of its source; and the room of a node.
ASSUME FleetsAssumption ==
    /\ \A f \in Fleets :
          /\ f.room \in Nat
          /\ \A d \in DOMAIN f.deps :
                LET s == f.deps[d] IN
                /\ s.replicas \in Nat \ {0} /\ s.budget \in 0 .. s.replicas
                /\ s.stateful \in BOOLEAN /\ s.leased \in BOOLEAN
                /\ s.source # None => s.source \in Nodes /\ s.stateful /\ s.replicas = 1
    /\ Span \in Nat \ {0} /\ MaxVersion \in Nat \ {0}
    /\ RenewBefore \in Nat /\ RenewBefore < LeaseDuration
    /\ Skew \in Nat \ {0} /\ MaxForksPerSnapshot \in Nat \ {0}

Deployments == DOMAIN fleet.deps
Replicas(d) == fleet.deps[d].replicas
MaxUnavailable(d) == fleet.deps[d].budget
Stateful(d) == fleet.deps[d].stateful
Leased(d) == fleet.deps[d].leased
ForkSource(d) == fleet.deps[d].source
Fork(d) == ForkSource(d) # None

CursorsOf(d) == {d} \X (1 .. Replicas(d))
Cursors == UNION {CursorsOf(d) : d \in Deployments}

storeVars == <<fleet, dep, inst, cmd, node, frozen>>

MinGen(v) == (v - 1) * Span + 1
MaxGen(v) == v * Span
Pending(v) ==
    [gen |-> MinGen(v), phase |-> "pending", node |-> None, op |-> None,
     lease |-> None, drain |-> None, stage |-> None, intent |-> FALSE, last |-> None]

StoreInit ==
    /\ fleet \in Fleets
    /\ dep = [d \in Deployments |->
                [version |-> 0, desired |-> "absent", rollout |-> "none",
                 due |-> FALSE, expired |-> {}]]
    /\ inst = [c \in Cursors |-> [Pending(1) EXCEPT !.phase = "removed"]]
    /\ cmd = [c \in Cursors |-> None]
    /\ node = [n \in Nodes |-> [mode |-> "schedulable", drain |-> "none", heard |-> TRUE]]
    /\ frozen = FALSE

-----------------------------------------------------------------------------
(* The questions the store asks of its records. *)

\* The version whose delegation owns an instance during a rollout: the source
\* until the destroy of the old runtime was proved, then the target.
DeploymentAuthorityForInstance(c) ==
    LET D == dep[c[1]]
        target == IF inst[c].stage = None THEN inst[c].gen >= MinGen(D.version)
                                          ELSE inst[c].stage = "deploying"
    IN  IF D.rollout = "none" \/ target THEN D.version ELSE D.version - 1

deploymentOperationPhase(op) ==
    CASE op = "admit" -> "admitting"
      [] op = "start" -> "starting"
      [] op = "stop" -> "stopping"
      [] op = "destroy" -> "destroying"
      [] op = "clone-state" -> "cloning"
      [] op = "purge" -> "purging"

deploymentSuccessfulPhase(d, op) ==
    CASE op = "admit" -> "starting"
      [] op = "start" -> "running"
      [] op = "stop" -> "destroying"
      [] op = "destroy" -> IF Fork(d) /\ dep[d].desired = "absent"
                           THEN "purging" ELSE "removed"
      [] op = "clone-state" -> "cloned"
      [] op = "purge" -> "removed"

deploymentCommandInFlight(x) ==
    /\ x.op # None
    /\ IF x.op = "renew" THEN x.phase \in {"starting", "running"}
                         ELSE x.phase = deploymentOperationPhase(x.op)

\* The instance is being taken off its node by a rollout or a drain.
Leaving(c) == \/ inst[c].stage = "draining"
              \/ inst[c].drain # None /\ inst[c].node = inst[c].drain

deploymentTransitionAllowed(c, op) ==
    LET x == inst[c]
        stopping == \/ x.phase \in {"running", "starting"} /\ op = "stop"
                    \/ x.phase = "destroying" /\ op = "destroy"
    IN  IF dep[c[1]].desired = "running"
        THEN IF Leaving(c) THEN stopping
             ELSE \/ x.phase = "pending" /\ op = (IF Fork(c[1]) THEN "clone-state" ELSE "admit")
                  \/ x.phase = "cloned" /\ Fork(c[1]) /\ op = "admit"
                  \/ x.phase = "starting" /\ op \in {"renew", "start"}
                  \/ x.phase = "running" /\ op = "renew"
        ELSE \/ x.phase = "failed" /\ x.op \in {"renew", "start"} /\ op = "stop"
             \/ stopping
             \/ x.phase \in {"purging", "cloned"} /\ op = "purge"

\* Mutant: an instance counts once it has stopped, not once it is chosen.
FaultyUnavailable(d) ==
    Cardinality({c \in CursorsOf(d) : inst[c].phase # "running"})

deploymentUnavailableInstances(d) ==
    Cardinality({c \in CursorsOf(d) :
                   inst[c].drain # None \/ inst[c].stage # None \/ inst[c].phase # "running"})

deploymentRolloutComplete(d, after) ==
    \A c \in CursorsOf(d) :
       /\ after[c].gen \in MinGen(dep[d].version) .. MaxGen(dep[d].version)
       /\ after[c].phase = "running" /\ after[c].stage = None

deploymentFullyRemoved(d) ==
    \A c \in CursorsOf(d) : inst[c].phase = "removed" /\ inst[c].drain = None

\* Reservations count instances that hold an intent and are not removed.
deploymentSchedulingUsage(n) ==
    Cardinality({c \in Cursors : /\ inst[c].node = n /\ inst[c].intent
                                 /\ inst[c].phase # "removed"})

\* CheckNodeScheduling against a node record and a reservation count.
CheckNodeScheduling(view, used) ==
    /\ view.mode = "schedulable"
    /\ view.heard
    /\ used < fleet.room

nodeDrainHasWork(n) ==
    \E c \in Cursors : \/ inst[c].drain = n
                       \/ inst[c].node = n /\ inst[c].phase # "removed"

failedDeploymentInstanceOnNode(n) ==
    \E c \in Cursors : inst[c].node = n /\ inst[c].phase = "failed"

-----------------------------------------------------------------------------
(* What the store writes. *)

\* Mutant: the replacement keeps its generation.
FaultyRestarted(x, gen, n) ==
    [x EXCEPT !.node = n, !.phase = "pending", !.op = None,
              !.lease = None, !.intent = FALSE, !.last = None]

\* The reset shared by the three replacements: a new generation, no command,
\* no lease and no reservation.
Restarted(x, gen, n) ==
    [x EXCEPT !.gen = gen, !.node = n, !.phase = "pending", !.op = None,
              !.lease = None, !.intent = FALSE, !.last = None]

\* failDeploymentInstanceDrainLocked: a failed move fails the drain it served.
FailedDrain(x) ==
    IF x.drain # None /\ node[x.drain].drain = "active"
    THEN [node EXCEPT ![x.drain].drain = "failed"]
    ELSE node

ExpireDeploymentFork(d) ==
    /\ dep' = [dep EXCEPT ![d].desired = "absent"]
    /\ UNCHANGED <<fleet, inst, cmd, node, frozen>>

RecordDeploymentBlocked(c, reason) ==
    /\ inst[c].phase \notin {"failed", "removed"}
    /\ inst[c].last # reason
    /\ inst' = [inst EXCEPT ![c].last = reason]
    /\ UNCHANGED <<fleet, dep, cmd, node, frozen>>

\* The retained outcome that lets a removal stop a failed instance: a rejected
\* renewal, or any failed start.
cleanupAllowed(c) ==
    /\ dep[c[1]].desired = "absent"
    /\ cmd[c] # None /\ cmd[c].state = "terminal" /\ cmd[c].op = inst[c].op
    /\ \/ inst[c].op = "renew" /\ cmd[c].status = "rejected"
       \/ inst[c].op = "start" /\ cmd[c].status # "done"

\* The checks EnqueueDeploymentCommand repeats under the mutex.
schedulableNow(op, n) ==
    op = "admit" => CheckNodeScheduling(node[n], deploymentSchedulingUsage(n))

\* The instance and the command that one transaction retains.
Enqueued(c, op, n) ==
    /\ inst' = [inst EXCEPT ![c] =
                  [@ EXCEPT !.node = n, !.op = op, !.last = None,
                            !.lease = IF op = "renew" THEN LeaseDuration ELSE @,
                            !.intent = @ \/ op = "admit",
                            !.phase = IF op = "renew" THEN @ ELSE deploymentOperationPhase(op)]]
    /\ cmd' = [cmd EXCEPT ![c] =
                 [op |-> op, gen |-> inst[c].gen, node |-> n, state |-> "pending",
                  lease |-> IF op = "renew" THEN LeaseDuration ELSE None,
                  status |-> None, stopped |-> FALSE]]
    /\ UNCHANGED <<fleet, dep, node, frozen>>

EnqueueDeploymentCommand(c, op, n) ==
    /\ ~frozen
    /\ deploymentTransitionAllowed(c, op)
    /\ inst[c].node \in {None, n}
    /\ inst[c].phase = "failed" => cleanupAllowed(c)
    /\ schedulableNow(op, n)
    /\ Enqueued(c, op, n)

\* The record a successful report leaves.
Succeeded(c) ==
    LET x == inst[c] op == inst[c].op running == dep[c[1]].desired = "running" IN
    [x EXCEPT !.last = None,
              !.op = IF op = "renew" THEN None ELSE @,
              !.phase = IF op = "renew"
                        THEN IF cmd[c].stopped /\ running THEN "starting" ELSE @
                        ELSE deploymentSuccessfulPhase(c[1], op),
              !.drain = IF \/ op = "start" /\ x.node # @
                           \/ op = "destroy" /\ ~running
                        THEN None ELSE @,
              !.stage = IF op = "start" /\ @ = "deploying" THEN None ELSE @]

\* A successful command is not asked for again once it is folded in.
ObserveDeploymentCommand(c) ==
    /\ deploymentCommandInFlight(inst[c])
    /\ cmd[c] # None => cmd[c].state = "terminal"
    /\ LET done == cmd[c] # None /\ cmd[c].status = "done"
           x == IF done THEN Succeeded(c)
                        ELSE [inst[c] EXCEPT !.phase = "failed", !.drain = None, !.last = "report"]
           after == [inst EXCEPT ![c] = x]
       IN  /\ inst' = after
           /\ dep' = IF dep[c[1]].rollout # "none" /\ deploymentRolloutComplete(c[1], after)
                     THEN [dep EXCEPT ![c[1]].rollout = "none"] ELSE dep
           /\ node' = IF done THEN node ELSE FailedDrain(inst[c])
           /\ cmd' = IF done THEN [cmd EXCEPT ![c] = None] ELSE cmd
    /\ UNCHANGED <<fleet, frozen>>

RemovePendingDeploymentInstance(c) ==
    /\ dep[c[1]].desired = "absent"
    /\ inst[c].phase = "pending" /\ inst[c].op = None /\ inst[c].node = None
    /\ inst' = [inst EXCEPT ![c].phase = "removed", ![c].drain = None]
    /\ UNCHANGED <<fleet, dep, cmd, node, frozen>>

RemoveRejectedAdmissionInstance(c) ==
    /\ dep[c[1]].desired = "absent"
    /\ inst[c].phase = "failed" /\ inst[c].op = "admit"
    /\ cmd[c] # None /\ cmd[c].state = "terminal" /\ cmd[c].status = "rejected"
    /\ inst' = [inst EXCEPT ![c].phase = "removed", ![c].drain = None]
    /\ UNCHANGED <<fleet, dep, cmd, node, frozen>>

\* Mutant: the node's clock is taken for Control's.
FaultyLeaseOutlived(x) == x.lease # None /\ x.lease <= 0

\* The old node can have accepted no lease later than this one.
leaseOutlived(x) == x.lease # None /\ x.lease <= -Skew

ReplaceDeploymentInstance(c) ==
    /\ dep[c[1]].desired = "running"
    /\ inst[c].node # None /\ inst[c].phase \in {"starting", "running"}
    /\ leaseOutlived(inst[c])
    /\ ~Stateful(c[1]) /\ Leased(c[1])
    /\ dep[c[1]].version \notin dep[c[1]].expired
    /\ inst[c].gen < MaxGen(dep[c[1]].version)
    /\ inst' = [inst EXCEPT ![c] = Restarted(@, @.gen + 1, None)]
    /\ cmd' = [cmd EXCEPT ![c] = None]
    /\ UNCHANGED <<fleet, dep, node, frozen>>

BeginDeploymentInstanceDrain(c) ==
    /\ dep[c[1]].desired = "running" /\ dep[c[1]].rollout = "none"
    /\ inst[c].stage = None /\ inst[c].drain = None
    /\ inst[c].phase = "running" /\ ~deploymentCommandInFlight(inst[c])
    /\ inst[c].node # None /\ node[inst[c].node].drain = "active"
    /\ ~Stateful(c[1])
    /\ inst[c].gen < MaxGen(dep[c[1]].version)
    /\ deploymentUnavailableInstances(c[1]) < MaxUnavailable(c[1])
    /\ inst' = [inst EXCEPT ![c].drain = inst[c].node, ![c].last = None]
    /\ UNCHANGED <<fleet, dep, cmd, node, frozen>>

ReplaceDrainedDeploymentInstance(c) ==
    /\ dep[c[1]].desired = "running"
    /\ inst[c].drain # None /\ inst[c].node = inst[c].drain /\ inst[c].phase = "removed"
    /\ inst[c].gen < MaxGen(dep[c[1]].version)
    /\ inst' = [inst EXCEPT ![c] = Restarted(@, @.gen + 1, None)]
    /\ cmd' = [cmd EXCEPT ![c] = None]
    /\ UNCHANGED <<fleet, dep, node, frozen>>

CompleteRemovedDeploymentInstanceDrain(c) ==
    /\ dep[c[1]].desired = "absent"
    /\ inst[c].phase = "removed" /\ inst[c].drain # None
    /\ inst' = [inst EXCEPT ![c].drain = None]
    /\ UNCHANGED <<fleet, dep, cmd, node, frozen>>

BeginDeploymentInstanceRollout(c) ==
    /\ dep[c[1]].desired = "running" /\ dep[c[1]].rollout = "active"
    /\ inst[c].stage = None /\ inst[c].drain = None
    /\ inst[c].node # None /\ inst[c].phase = "running"
    /\ ~deploymentCommandInFlight(inst[c])
    /\ DeploymentAuthorityForInstance(c) # dep[c[1]].version
    /\ node[inst[c].node].drain # "active"
    /\ deploymentUnavailableInstances(c[1]) < MaxUnavailable(c[1])
    /\ inst' = [inst EXCEPT ![c].stage = "draining", ![c].last = None]
    /\ UNCHANGED <<fleet, dep, cmd, node, frozen>>

\* The node is kept, so that a state volume stays local.
AdvanceDeploymentInstanceRollout(c) ==
    /\ dep[c[1]].desired = "running" /\ dep[c[1]].rollout # "none"
    /\ inst[c].stage = "draining" /\ inst[c].phase = "removed" /\ inst[c].node # None
    /\ inst' = [inst EXCEPT ![c] = [Restarted(@, MinGen(dep[c[1]].version), @.node)
                                      EXCEPT !.stage = "deploying"]]
    /\ cmd' = [cmd EXCEPT ![c] = None]
    /\ UNCHANGED <<fleet, dep, node, frozen>>

CompleteFinishedNodeDrains ==
    /\ node' = [n \in Nodes |->
                  IF node[n].drain # "active" THEN node[n]
                  ELSE IF failedDeploymentInstanceOnNode(n) THEN [node[n] EXCEPT !.drain = "failed"]
                  ELSE IF nodeDrainHasWork(n) THEN node[n]
                  ELSE [node[n] EXCEPT !.drain = "completed"]]
    /\ UNCHANGED <<fleet, dep, inst, cmd, frozen>>

-----------------------------------------------------------------------------
(* What operators and time do to the same records. *)

deploymentCanStartRollout(d) ==
    /\ dep[d].rollout = "none" /\ dep[d].desired = "running"
    /\ dep[d].version \notin dep[d].expired
    /\ \A c \in CursorsOf(d) :
          /\ inst[c].phase = "running" /\ inst[c].node # None
          /\ ~deploymentCommandInFlight(inst[c])
          /\ inst[c].drain = None /\ inst[c].stage = None
          /\ node[inst[c].node].mode = "schedulable"
          /\ node[inst[c].node].drain # "active"

\* Forks that are not fully removed count against their snapshot's ceiling.
snapshotHasRoom(d) ==
    Fork(d) => Cardinality({e \in Deployments \ {d} :
                              /\ ForkSource(e) = ForkSource(d)
                              /\ dep[e].version > 0 /\ ~deploymentFullyRemoved(e)})
                  < MaxForksPerSnapshot

\* The first apply, or an apply after full removal.
createDeployment(d) ==
    /\ deploymentFullyRemoved(d)
    /\ LET v == dep[d].version + 1 IN
       /\ dep' = [dep EXCEPT ![d] = [@ EXCEPT !.version = v, !.desired = "running",
                                              !.rollout = "none", !.due = FALSE]]
       /\ inst' = [c \in Cursors |-> IF c[1] = d THEN Pending(v) ELSE inst[c]]
       /\ cmd' = [c \in Cursors |-> IF c[1] = d THEN None ELSE cmd[c]]

\* The source's authority is kept beside the target's; a fork is never rolled
\* out.
startRollout(d) ==
    /\ ~deploymentFullyRemoved(d) /\ ~Fork(d) /\ deploymentCanStartRollout(d)
    /\ dep' = [dep EXCEPT ![d] = [@ EXCEPT !.version = @ + 1, !.rollout = "active"]]
    /\ UNCHANGED <<inst, cmd>>

ApplyDeployment(d) ==
    /\ dep[d].version < MaxVersion
    /\ snapshotHasRoom(d)
    /\ createDeployment(d) \/ startRollout(d)
    /\ UNCHANGED <<fleet, node, frozen>>

\* The same generation applied again with a delegation that expires later.
RenewDelegation(d) ==
    /\ dep[d].desired = "running" /\ dep[d].rollout = "none"
    /\ dep[d].version \in dep[d].expired
    /\ dep' = [dep EXCEPT ![d].expired = @ \ {dep[d].version}]
    /\ inst' = [c \in Cursors |-> IF c[1] = d /\ inst[c].last = "expired"
                                  THEN [inst[c] EXCEPT !.last = None] ELSE inst[c]]
    /\ UNCHANGED <<fleet, cmd, node, frozen>>

\* The API only ever asks for "absent".
SetDeploymentDesiredState(d) ==
    /\ dep[d].desired = "running"
    /\ dep' = [dep EXCEPT ![d].desired = "absent"]
    /\ UNCHANGED <<fleet, inst, cmd, node, frozen>>

SetDeploymentRolloutPaused(d) ==
    /\ dep[d].desired = "running" /\ dep[d].rollout # "none"
    /\ dep' = [dep EXCEPT ![d].rollout = IF @ = "active" THEN "paused" ELSE "active"]
    /\ UNCHANGED <<fleet, inst, cmd, node, frozen>>

deploymentRolloutOnNode(n) ==
    \E c \in Cursors : /\ dep[c[1]].rollout # "none"
                       /\ inst[c].node = n /\ inst[c].phase # "removed"

unresolvedDeploymentInstanceOnNode(n) ==
    \E c \in Cursors : inst[c].node = n /\ inst[c].phase \notin {"running", "removed"}

StartNodeDrain(n) ==
    /\ node[n].mode # "quarantined" /\ node[n].drain # "active"
    /\ \A c \in Cursors : inst[c].drain # n
    /\ ~deploymentRolloutOnNode(n)
    /\ ~unresolvedDeploymentInstanceOnNode(n)
    /\ node' = [node EXCEPT ![n].mode = "cordoned", ![n].drain = "active"]
    /\ UNCHANGED <<fleet, dep, inst, cmd, frozen>>

CancelNodeDrain(n) ==
    /\ node[n].drain = "active"
    /\ node' = [node EXCEPT ![n].drain = "cancelled"]
    /\ UNCHANGED <<fleet, dep, inst, cmd, frozen>>

\* placementTransition, with the exceptions for an active drain.
ChangeNodePlacement(n, action) ==
    /\ \/ action = "cordon" /\ node[n].mode = "schedulable"
          /\ node' = [node EXCEPT ![n].mode = "cordoned"]
       \/ action = "quarantine" /\ node[n].mode # "quarantined"
          /\ node' = [node EXCEPT ![n].mode = "quarantined"]
       \/ action = "uncordon" /\ node[n].mode = "cordoned" /\ node[n].drain # "active"
          /\ node' = [node EXCEPT ![n].mode = "schedulable"]
       \/ action = "unquarantine" /\ node[n].mode = "quarantined"
          /\ node' = [node EXCEPT ![n].mode = IF node[n].drain = "active"
                                              THEN "cordoned" ELSE "schedulable"]
    /\ UNCHANGED <<fleet, dep, inst, cmd, frozen>>

SetOperationalFreeze ==
    /\ frozen' = ~frozen
    /\ UNCHANGED <<fleet, dep, inst, cmd, node>>

\* A rejected admission that was folded into its cursor is not protected from
\* pruning (terminalCommandSafeToPrune, deploymentCommandPruningCursors).
PruneCommand(c) ==
    /\ cmd[c] # None /\ cmd[c].status = "rejected"
    /\ ~deploymentCommandInFlight(inst[c])
    /\ ~(inst[c].phase = "failed" /\ inst[c].op \in {"renew", "start"})
    /\ cmd' = [cmd EXCEPT ![c] = None]
    /\ UNCHANGED <<fleet, dep, inst, node, frozen>>
=============================================================================
