------------------------ MODULE DeploymentReconciler ------------------------
(***************************************************************************)
(* Control's reconciliation loop (controlreconcile/reconciler.go) over the *)
(* deployment store, with the nodes that carry out its commands.           *)
(*                                                                         *)
(* A pass takes one snapshot of deployments, nodes and freezes and walks   *)
(* the instances in order; operators, node polls, reports and time go on   *)
(* between any two of its store calls.  Every store call compares the      *)
(* deployment's revision with the snapshot's, so the pass acts only on     *)
(* deployments that have not changed since (plan.fresh), whose records it  *)
(* reads as they are; nodes, reservations and the freeze it reads from the *)
(* snapshot, however old.                                                  *)
(*                                                                         *)
(* The nodes are Executor and its uplink seen from Control: a delivered    *)
(* command takes effect at most once and is then reported (ExecutorUplink  *)
(* and Executor have the details); a leased workload is off at the latest  *)
(* when the node's clock, at most Skew behind Control's, reaches the       *)
(* expiry of the lease.                                                    *)
(***************************************************************************)
EXTENDS Deployments

VARIABLES
    plan,     \* the pass under way, or None
    runtime,  \* per node and cursor: the workload on the node, or None
    volume,   \* per cursor: the fork's cloned state volume exists
    inbox,    \* per node: deliveries not yet reported
    lost,     \* nodes that will never be heard of again
    events    \* operator actions and faults so far

vars == <<fleet, dep, inst, cmd, node, frozen, plan, runtime, volume, inbox, lost, events>>
nodeVars == <<runtime, volume, inbox>>

Init ==
    /\ StoreInit
    /\ plan = None
    /\ runtime = [n \in Nodes |-> [c \in Cursors |-> None]]
    /\ volume = [c \in Cursors |-> FALSE]
    /\ inbox = [n \in Nodes |-> {}]
    /\ lost = {}
    /\ events = 0

-----------------------------------------------------------------------------
(* The pass. *)

SnapshotDeploymentFleet ==
    /\ plan = None
    /\ plan' = [fresh |-> {d \in Deployments : dep[d].version > 0}, at |-> <<1, 1>>,
                nodes |-> node, frozen |-> frozen,
                used |-> [n \in Nodes |-> deploymentSchedulingUsage(n)]]
    /\ UNCHANGED <<storeVars, nodeVars, lost, events>>

At(c) == plan # None /\ plan.at = c /\ c[1] \in plan.fresh

\* A deployment that changed since the snapshot is a conflict: no store call
\* for it can succeed, and the pass goes on to the next one.
Conflict ==
    /\ plan # None /\ plan.at[1] \in Deployments /\ plan.at[1] \notin plan.fresh
    /\ plan' = [plan EXCEPT !.at = <<plan.at[1] + 1, 1>>]
    /\ UNCHANGED <<storeVars, nodeVars, lost, events>>

\* One change ends the pass for its deployment; no change moves to the next
\* instance.
Changed(c) ==
    plan' = [plan EXCEPT !.at = <<c[1] + 1, 1>>, !.fresh = @ \ {c[1]}]
Unchanged(c) ==
    plan' = IF c[2] < Replicas(c[1]) THEN [plan EXCEPT !.at = <<c[1], c[2] + 1>>]
            ELSE [plan EXCEPT !.at = <<c[1] + 1, 1>>, !.fresh = @ \ {c[1]}]

nodeAvailableForAssignment(n) ==
    plan.nodes[n].mode # "quarantined" /\ plan.nodes[n].heard

\* The nodes selectNode may return.  Among several candidates the ranking by
\* spread, labels, local image and load decides; any of them may win here.
selectNode(c, pinned) ==
    IF pinned # None THEN {n \in {pinned} : nodeAvailableForAssignment(n)}
    ELSE {n \in Nodes : /\ CheckNodeScheduling(plan.nodes[n], plan.used[n])
                        /\ Fork(c[1]) => n = ForkSource(c[1])}

workloadLeaseNeedsRenewal(c) ==
    Leased(c[1]) /\ (inst[c].lease = None \/ inst[c].lease <= RenewBefore)

nextOperation(c) ==
    LET x == inst[c] running == dep[c[1]].desired = "running" IN
    CASE running /\ Leaving(c) /\ x.phase \in {"running", "starting"} -> "stop"
      [] running /\ Leaving(c) /\ x.phase = "destroying" -> "destroy"
      [] running /\ Leaving(c) -> None
      [] running /\ x.phase = "pending" -> IF Fork(c[1]) THEN "clone-state" ELSE "admit"
      [] running /\ x.phase = "cloned" -> "admit"
      [] running /\ x.phase = "starting" -> IF workloadLeaseNeedsRenewal(c) THEN "renew" ELSE "start"
      [] running /\ x.phase = "running" /\ workloadLeaseNeedsRenewal(c) -> "renew"
      [] ~running /\ x.phase = "failed" /\ x.op \in {"renew", "start"} -> "stop"
      [] ~running /\ x.phase \in {"running", "starting"} -> "stop"
      [] ~running /\ x.phase = "destroying" -> "destroy"
      [] ~running /\ x.phase \in {"purging", "cloned"} -> "purge"
      [] OTHER -> None

blocked(reason) == <<"blocked", reason>>

\* What becomes of an instance whose node is unavailable.
recoverUnavailableInstance(c) ==
    IF ~Leased(c[1]) \/ inst[c].lease = None THEN blocked("node")
    ELSE IF dep[c[1]].version \in dep[c[1]].expired THEN blocked("expired")
    ELSE IF ~leaseOutlived(inst[c]) THEN blocked("lease")
    ELSE IF Stateful(c[1]) THEN blocked("state")
    ELSE IF inst[c].gen >= MaxGen(dep[c[1]].version) THEN blocked("generation")
    ELSE <<"replace", None>>

\* A command is signed under the delegation that owns the instance, and only
\* while that delegation is valid.
signCommand(c, op) ==
    IF DeploymentAuthorityForInstance(c) \in dep[c[1]].expired THEN blocked("expired")
    ELSE <<"send", op>>

\* The command path: the freeze, the node, then the signature.
sendCommand(c, op) ==
    IF op = None THEN <<"nothing", None>>
    ELSE IF plan.frozen THEN blocked("freeze")
    ELSE IF selectNode(c, inst[c].node) = {}
         THEN blocked(IF inst[c].node = None THEN "placement" ELSE "node")
    ELSE signCommand(c, op)

\* An instance without a command under way, on a node that can be reached: a
\* rollout or a drain takes hold of it, or the next command is due.
advanceInstance(c, running, source) ==
    LET x == inst[c]
        D == dep[c[1]]
        expired == DeploymentAuthorityForInstance(c) \in D.expired
        settled == running /\ x.drain = None /\ x.stage = None /\ x.phase = "running"
    IN  IF source /\ x.stage = "draining" /\ expired THEN blocked("expired")
        ELSE IF running /\ D.rollout = "active" /\ source /\ x.stage = None /\ x.phase = "running"
             THEN IF expired THEN blocked("expired") ELSE <<"beginRollout", None>>
        ELSE IF settled /\ plan.nodes[x.node].drain = "active"
             THEN IF selectNode(c, None) = {} THEN blocked("placement") ELSE <<"beginDrain", None>>
        ELSE IF settled /\ ~workloadLeaseNeedsRenewal(c) THEN <<"nothing", None>>
        ELSE IF ~running /\ x.phase = "pending" /\ x.op = None /\ x.node = None
             THEN <<"removePending", None>>
        ELSE sendCommand(c, nextOperation(c))

\* The order of reconcileInstance's tests, and what each leads to.
reconcileInstance(c) ==
    LET x == inst[c]
        D == dep[c[1]]
        running == D.desired = "running"
        source == D.rollout # "none" /\ DeploymentAuthorityForInstance(c) # D.version
    IN  IF running /\ D.due THEN <<"expireFork", None>>
        ELSE IF running /\ D.rollout # "none" /\ x.stage = "draining" /\ x.phase = "removed"
             THEN <<"advance", None>>
        ELSE IF ~running /\ x.phase = "failed" /\ x.op = "admit" THEN <<"removeRejected", None>>
        ELSE IF \/ x.phase = "failed" /\ (running \/ x.op \notin {"renew", "start"})
                \/ x.phase = "removed" /\ x.drain = None
             THEN <<"nothing", None>>
        ELSE IF x.phase = "removed"
             THEN <<IF running THEN "replaceDrained" ELSE "completeRemoved", None>>
        ELSE IF deploymentCommandInFlight(x) THEN <<"observe", None>>
        ELSE IF x.node # None /\ running /\ ~nodeAvailableForAssignment(x.node)
             THEN IF Fork(c[1]) \/ source THEN blocked("node") ELSE recoverUnavailableInstance(c)
        ELSE advanceInstance(c, running, source)

\* recordBlocked: a failed cursor keeps its failure, a reason that is already
\* recorded is no change.
RecordBlocked(c, reason) ==
    IF inst[c].phase = "failed" \/ inst[c].last = reason
    THEN Unchanged(c) /\ UNCHANGED storeVars
    ELSE RecordDeploymentBlocked(c, reason) /\ Changed(c)

\* A conflict leaves the rest of the deployment to the next pass.
GiveUp(c) == Changed(c) /\ UNCHANGED storeVars
Pass(c) == Unchanged(c) /\ UNCHANGED storeVars

beginDrain(c) ==
    \/ BeginDeploymentInstanceDrain(c) /\ Changed(c)
    \/ /\ dep[c[1]].rollout # "none" \/ node[inst[c].node].drain # "active"
       /\ GiveUp(c)
    \/ /\ dep[c[1]].rollout = "none" /\ node[inst[c].node].drain = "active"
       /\ IF Stateful(c[1]) THEN RecordBlocked(c, "stateful")
          ELSE IF inst[c].gen >= MaxGen(dep[c[1]].version) THEN RecordBlocked(c, "generation")
          ELSE /\ deploymentUnavailableInstances(c[1]) >= MaxUnavailable(c[1])
               /\ RecordBlocked(c, "budget")

\* A node with a running instance of a rollout is never being drained
\* (ApplyDeployment, StartNodeDrain), so only the budget stands in the way.
beginRollout(c) ==
    \/ BeginDeploymentInstanceRollout(c) /\ Changed(c)
    \/ /\ deploymentUnavailableInstances(c[1]) >= MaxUnavailable(c[1])
       /\ RecordBlocked(c, "budget")

\* EnqueueDeploymentCommand with its refusals, in the order of its checks.
enqueue(c, op) ==
    \E n \in selectNode(c, inst[c].node) :
       \/ EnqueueDeploymentCommand(c, op, n) /\ Changed(c)
       \/ frozen /\ RecordBlocked(c, "freeze")
       \/ ~frozen /\ inst[c].phase = "failed" /\ ~cleanupAllowed(c) /\ Pass(c)
       \/ /\ ~frozen /\ (inst[c].phase = "failed" => cleanupAllowed(c))
          /\ ~schedulableNow(op, n) /\ RecordBlocked(c, "placement")

\* One instance of the walk: the store call its verdict names.
Reconcile(c) ==
    /\ At(c)
    /\ LET verdict == reconcileInstance(c)[1] about == reconcileInstance(c)[2] IN
       \/ verdict = "nothing" /\ Pass(c)
       \/ verdict = "blocked" /\ RecordBlocked(c, about)
       \/ verdict = "expireFork" /\ ExpireDeploymentFork(c[1]) /\ Changed(c)
       \/ verdict = "advance" /\ AdvanceDeploymentInstanceRollout(c) /\ Changed(c)
       \/ verdict = "removeRejected"
          /\ (\/ RemoveRejectedAdmissionInstance(c) /\ Changed(c)
              \/ (cmd[c] # None => cmd[c].status # "rejected") /\ Pass(c))
       \/ verdict = "completeRemoved" /\ CompleteRemovedDeploymentInstanceDrain(c) /\ Changed(c)
       \/ verdict = "replaceDrained" /\ ReplaceDrainedDeploymentInstance(c) /\ Changed(c)
       \/ verdict = "observe"
          /\ (\/ ObserveDeploymentCommand(c) /\ Changed(c)
              \/ cmd[c] # None /\ cmd[c].state # "terminal" /\ Pass(c))
       \/ verdict = "replace" /\ ReplaceDeploymentInstance(c) /\ Changed(c)
       \/ verdict = "beginRollout" /\ beginRollout(c)
       \/ verdict = "beginDrain" /\ beginDrain(c)
       \/ verdict = "removePending" /\ RemovePendingDeploymentInstance(c) /\ Changed(c)
       \/ verdict = "send" /\ enqueue(c, about)
    /\ UNCHANGED <<nodeVars, lost, events>>

FinishPass ==
    /\ plan # None /\ plan.at[1] \notin Deployments
    /\ plan' = None
    /\ CompleteFinishedNodeDrains
    /\ UNCHANGED <<nodeVars, lost, events>>

Step == \/ SnapshotDeploymentFleet \/ Conflict \/ FinishPass
        \/ \E c \in Cursors : Reconcile(c)

-----------------------------------------------------------------------------
(* Operators and faults. *)

\* A fleet also says which operator actions and faults happen to it, and how
\* many of them at most.
Event(kind) ==
    /\ kind \in fleet.events /\ events < fleet.maxEvents
    /\ events' = events + 1

\* Every write to a deployment raises its revision.
Touched(d) == plan' = IF plan = None THEN None ELSE [plan EXCEPT !.fresh = @ \ {d}]

Operator ==
    /\ \/ \E d \in Deployments :
             /\ \/ /\ IF dep[d].version = 0 THEN UNCHANGED events ELSE Event("apply")
                   /\ ApplyDeployment(d)
                \/ Event("remove") /\ SetDeploymentDesiredState(d)
                \/ Event("pause") /\ SetDeploymentRolloutPaused(d)
                \/ Event("renew") /\ RenewDelegation(d)
             /\ Touched(d)
       \/ \E n \in Nodes :
             /\ \/ Event("drain") /\ StartNodeDrain(n)
                \/ Event("cancel") /\ CancelNodeDrain(n)
                \/ \E action \in {"cordon", "uncordon", "quarantine", "unquarantine"} :
                      Event(action) /\ ChangeNodePlacement(n, action)
             /\ UNCHANGED plan
       \/ Event("freeze") /\ SetOperationalFreeze /\ UNCHANGED plan
    /\ UNCHANGED <<nodeVars, lost>>

\* A delegation or a temporary fork reaches its expiry; a terminal command is
\* pruned; a pass ends early on a store error; a node is gone; a node has not
\* polled for longer than the reconciler tolerates.
Fault ==
    \/ /\ Event("expire")
       /\ \E d \in Deployments : \E v \in 1 .. dep[d].version :
             v \notin dep[d].expired /\ dep' = [dep EXCEPT ![d].expired = @ \cup {v}]
       /\ UNCHANGED <<fleet, inst, cmd, node, frozen, plan, nodeVars, lost>>
    \/ /\ Event("forkDue")
       /\ \E d \in Deployments : Fork(d) /\ dep[d].version > 0 /\ ~dep[d].due /\ dep' = [dep EXCEPT ![d].due = TRUE]
       /\ UNCHANGED <<fleet, inst, cmd, node, frozen, plan, nodeVars, lost>>
    \/ /\ Event("prune")
       /\ \E c \in Cursors : PruneCommand(c)
       /\ UNCHANGED <<plan, nodeVars, lost>>
    \/ /\ Event("abort") /\ plan # None /\ plan' = None
       /\ UNCHANGED <<storeVars, nodeVars, lost>>
    \/ /\ Event("lose")
       /\ \E n \in Nodes \ lost : lost' = lost \cup {n}
       /\ UNCHANGED <<storeVars, plan, nodeVars>>
    \/ \E n \in Nodes :
       /\ IF n \in lost THEN UNCHANGED events ELSE Event("silent")
       /\ node[n].heard
       /\ node' = [node EXCEPT ![n].heard = FALSE]
       /\ plan' = IF plan = None THEN None ELSE [plan EXCEPT !.nodes[n].heard = FALSE]
       /\ UNCHANGED <<fleet, dep, inst, cmd, frozen, nodeVars, lost>>

-----------------------------------------------------------------------------
(* The nodes. *)

\* A poll refreshes the node's observation and, unless it is quarantined or
\* its tenant frozen, takes the pending commands.
Poll(n) ==
    /\ n \notin lost
    /\ LET taken == {c \in Cursors : /\ cmd[c] # None /\ cmd[c].node = n
                                     /\ cmd[c].state = "pending"
                                     /\ node[n].mode # "quarantined" /\ ~frozen} IN
       /\ node' = [node EXCEPT ![n].heard = TRUE]
       /\ cmd' = [c \in Cursors |-> IF c \in taken THEN [cmd[c] EXCEPT !.state = "leased"] ELSE cmd[c]]
       /\ inbox' = [inbox EXCEPT ![n] = @ \cup {[at |-> c, cmd |-> cmd'[c]] : c \in taken}]
    /\ UNCHANGED <<fleet, dep, inst, frozen, plan, runtime, volume, lost, events>>

\* What a node asks before it lets a command take effect.
accepted(n, c, k) ==
    LET r == runtime[n][c] IN
    CASE k.op = "admit" -> r # None => r.gen < k.gen
      [] k.op = "start" -> r # None /\ r.gen = k.gen /\ (Leased(c[1]) => r.lease # None /\ r.lease > -Skew)
      [] k.op = "renew" -> r # None /\ r.gen = k.gen /\ k.lease > -Skew
      [] k.op \in {"stop", "destroy"} -> r # None /\ r.gen = k.gen
      [] OTHER -> TRUE

\* The workload a command leaves behind.
effect(n, c, k) ==
    LET r == runtime[n][c] IN
    CASE k.op = "admit" -> [gen |-> k.gen, on |-> FALSE, lease |-> None]
      [] k.op = "start" -> [r EXCEPT !.on = TRUE]
      [] k.op = "renew" -> [r EXCEPT !.lease = k.lease]
      [] k.op = "stop" -> [r EXCEPT !.on = FALSE]
      [] k.op = "destroy" -> None
      [] OTHER -> r

Applied(n, c, k) ==
    /\ runtime' = [runtime EXCEPT ![n][c] = effect(n, c, k)]
    /\ volume' = [volume EXCEPT ![c] = IF k.op = "clone-state" THEN TRUE
                                       ELSE IF k.op = "purge" THEN FALSE ELSE @]

\* done, rejected before any effect, or failed or unknown with or without it.
\* The report closes the command, if Control still has it; a lost node
\* executes what it holds and is not heard.
Execute(n) ==
    /\ \E m \in inbox[n] : \E s \in {"done", "rejected", "failed", "outcome_unknown"} :
          LET ok == accepted(n, m.at, m.cmd)
              report == [m.cmd EXCEPT !.state = "terminal", !.status = s,
                                      !.stopped = m.cmd.op = "renew" /\ ok /\ ~runtime[n][m.at].on]
          IN
          /\ s = "done" => ok
          /\ IF s = "done" \/ (s = "rejected" /\ ~ok) THEN UNCHANGED events ELSE Event("fail")
          /\ \/ ok /\ s # "rejected" /\ Applied(n, m.at, m.cmd)
             \/ s # "done" /\ UNCHANGED <<runtime, volume>>
          /\ inbox' = [inbox EXCEPT ![n] = @ \ {m}]
          /\ cmd' = IF n \notin lost /\ cmd[m.at] = m.cmd THEN [cmd EXCEPT ![m.at] = report] ELSE cmd
    /\ UNCHANGED <<fleet, dep, inst, node, frozen, plan, lost>>

\* The watchdog stops a workload whose lease is over; a workload may also
\* exit by itself.
Off(n, c) == runtime' = [runtime EXCEPT ![n][c].on = FALSE]
Stops(n) ==
    /\ \E c \in Cursors :
          /\ runtime[n][c] # None /\ runtime[n][c].on
          /\ IF Leased(c[1]) /\ runtime[n][c].lease <= 0 THEN UNCHANGED events ELSE Event("exit")
          /\ Off(n, c)
    /\ UNCHANGED <<storeVars, plan, volume, inbox, lost>>

-----------------------------------------------------------------------------
(* Time. *)

Elapsed(lease) == IF lease = None \/ lease = -Skew THEN lease ELSE lease - 1
AgedRuntime(r) ==
    IF r = None THEN None
    ELSE [r EXCEPT !.lease = Elapsed(@),
                   !.on = @ /\ (r.lease # None => Elapsed(r.lease) > -Skew)]

Tick ==
    /\ inst' = [c \in Cursors |-> [inst[c] EXCEPT !.lease = Elapsed(@)]]
    /\ cmd' = [c \in Cursors |-> IF cmd[c] = None THEN None ELSE [cmd[c] EXCEPT !.lease = Elapsed(@)]]
    /\ runtime' = [n \in Nodes |-> [c \in Cursors |-> AgedRuntime(runtime[n][c])]]
    /\ inbox' = [n \in Nodes |-> {[m EXCEPT !.cmd.lease = Elapsed(@)] : m \in inbox[n]}]
    /\ UNCHANGED <<fleet, dep, node, frozen, plan, volume, lost, events>>

Node(n) == Poll(n) \/ Execute(n) \/ Stops(n)
Next == Step \/ Operator \/ Fault \/ Tick \/ \E n \in Nodes : Node(n)

Spec == Init /\ [][Next]_vars

-----------------------------------------------------------------------------
Running(n, c) == runtime[n][c] # None /\ runtime[n][c].on

\* Every workload that runs is the one its record names: on the node and of the
\* generation Control has for the instance, and of an instance Control has not
\* removed.  So no instance runs on two nodes, and none runs after its lease
\* was outlived and its generation moved on (ReplaceDeploymentInstance,
\* ReplaceDrainedDeploymentInstance, AdvanceDeploymentInstanceRollout).
NoStrayWorkload ==
    \A n \in Nodes, c \in Cursors :
       Running(n, c) => /\ inst[c].node = n /\ inst[c].gen = runtime[n][c].gen
                        /\ inst[c].phase \notin {"pending", "cloned", "removed", "purging"}

\* Drains of several nodes and a rollout together never take more instances of
\* a deployment out of service than its budget.
BudgetKept ==
    \A d \in Deployments :
       Cardinality({c \in CursorsOf(d) : inst[c].drain # None \/ inst[c].stage # None})
          <= MaxUnavailable(d)

\* A generation of an instance is on one node at most, whatever became of it
\* there: an admission whose outcome is unknown is not tried elsewhere, and what
\* a lost node still holds is of an older generation than its replacement
\* (ObserveDeploymentCommand, ReplaceDeploymentInstance).
GenerationPlacedOnce ==
    \A c \in Cursors : \A n, m \in Nodes :
       n # m /\ runtime[n][c] # None /\ runtime[m][c] # None
       => runtime[n][c].gen # runtime[m][c].gen

=============================================================================
