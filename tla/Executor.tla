------------------------------ MODULE Executor ------------------------------
(***************************************************************************)
(* The signed mutations of steward-executor (internal/executor): admit,    *)
(* start, stop, destroy, recovery of a missing workload, degraded          *)
(* containment, lease renewal, maintenance and the reconciliation scan.    *)
(*                                                                         *)
(* provisionMu admits one operation at a time.  An operation prepares a    *)
(* journal entry, appends a receipt, changes Docker and Gateway one call   *)
(* at a time, appends its outcome, moves the admission fence and settles   *)
(* the entry.  Every call may fail with or without its effect, and the     *)
(* process may die between any two.  `op' is that operation: `todo' holds  *)
(* the calls it has left, in the order of the source.                      *)
(***************************************************************************)
EXTENDS Integers, Sequences, FiniteSets

CONSTANTS
    Instances,      \* workloads are numbered 1 .. Instances, the scan's order
    MaxGeneration,  \* bound: instance generations
    MaxPolicy,      \* bound: site policies, a later one loaded at a restart
    Leased,         \* bound: the workloads whose lease is renewed
    MaxFaults,      \* bound: failed calls, writes and inspections
    MaxCrashes,     \* bound: deaths of the process
    MaxDrifts,      \* bound: changes made behind Executor's back
    MaxTroubles,    \* bound: faults, deaths and changes together
    Drifts          \* the kinds of change made behind its back

ASSUME ExecutorBounds ==
    /\ {Instances, MaxGeneration, MaxPolicy} \subseteq Nat \ {0}
    /\ {MaxFaults, MaxCrashes, MaxDrifts, MaxTroubles} \subseteq Nat
    /\ Leased \subseteq 1 .. Instances

Instance == 1 .. Instances
Generation == 1 .. MaxGeneration
Policy == 1 .. MaxPolicy

VARIABLES
    host,        \* by instance: what Docker and Gateway hold
    fences,      \* FenceStore in memory
    fenceFile,   \* the fence snapshot on disk
    pending,     \* Journal.Pending
    journalFile, \* the journal on disk: what a replay finds, and its tail
    evidence,    \* the receipt log
    up,          \* the process runs
    scanned,     \* reconcileAttempted
    report,      \* reconcileReport.Failures
    policy,      \* policyEnvelope, read at start
    op,          \* the operation that holds provisionMu
    faults, crashes, drifts,
    drifted,     \* history: instances changed from outside since the last scan
    rescued,     \* history: the report was last published by a recovery, not a scan
    lost         \* history: workloads whose container was removed from outside

storeVars == <<fences, fenceFile, pending, journalFile, evidence>>
procVars == <<up, scanned, report, policy>>
envVars == <<crashes, drifts, drifted, rescued, lost>>
vars == <<host, storeVars, procVars, op, faults, envVars>>

Status == {"absent", "stopped", "running", "unknown"}
NoAgent == [gen |-> 0, status |-> "absent", hardened |-> TRUE]
NoWorkload == [agent |-> NoAgent,
               relay |-> [g \in Generation |-> "absent"],
               net   |-> [g \in Generation |-> FALSE],
               grant |-> [g \in Generation |-> "absent"]]
NoRecord == [gen |-> 0, present |-> FALSE, policy |-> 1, lease |-> "none"]

NoOp == [kind |-> "none", inst |-> 1, gen |-> 0, todo |-> <<>>, phase |-> "do",
         clean |-> TRUE, prior |-> "stopped", plans |-> {}, failures |-> {},
         planned |-> <<>>, coherent |-> FALSE]

Idle == op = NoOp
h == host[op.inst]
g == op.gen
At(step) == up /\ op.todo # <<>> /\ Head(op.todo) = step

-----------------------------------------------------------------------------
(* Durable stores.  An outcome is what one write leaves behind.            *)

(* Journal.append marks nothing after an error: a record that reached the  *)
(* file is repeated under the same sequence number by the next append, and *)
(* Open then refuses the file, as it does a torn frame.                    *)
append(entries) ==
    LET written(clean) == [pending |-> entries,
                           tail |-> IF journalFile.tail = "clean" THEN clean ELSE "broken"]
        torn == [journalFile EXCEPT !.tail = "broken"]
    IN  {[mem |-> entries, file |-> written("clean"), ok |-> TRUE, cost |-> 0]} \cup
        {[mem |-> pending, file |-> f, ok |-> FALSE, cost |-> 1] :
            f \in {journalFile, written("ahead"), torn}}

(* A failed append closes the log until the next start.                    *)
appendLocked(receipts) ==
    LET with == [evidence EXCEPT !.receipts = @ \cup receipts]
        closed(e) == [e EXCEPT !.open = FALSE]
    IN  IF ~evidence.open
        THEN {[log |-> evidence, ok |-> FALSE, cost |-> 0]}
        ELSE {[log |-> with, ok |-> TRUE, cost |-> 0]} \cup
             {[log |-> e, ok |-> FALSE, cost |-> 1] :
                 e \in {evidence, closed(evidence), closed(with),
                        [closed(evidence) EXCEPT !.torn = TRUE]}}

(* persistLocked replaces the file and then syncs the directory; on an     *)
(* error the store restores memory only.                                   *)
persistLocked(next) ==
    {[mem |-> next, file |-> next, ok |-> TRUE, cost |-> 0]} \cup
    {[mem |-> fences, file |-> f, ok |-> FALSE, cost |-> 1] : f \in {fenceFile, next}}

Troubles == faults + crashes + drifts

Spend(cost) ==
    /\ faults + cost <= MaxFaults /\ Troubles + cost <= MaxTroubles
    /\ faults' = faults + cost

-----------------------------------------------------------------------------
(* How an operation goes on.                                               *)

(* The operation releases provisionMu, or hands it back to its scan.       *)
End(codes) ==
    IF op.kind \in {"repair", "contain", "revoke", "expire"}
    THEN [NoOp EXCEPT !.kind = "scan", !.plans = op.plans, !.coherent = op.coherent,
                    !.failures = op.failures \cup {[inst |-> op.inst, code |-> c] : c \in codes}]
    ELSE NoOp

Proceed == IF Len(op.todo) = 1 THEN End({}) ELSE [op EXCEPT !.todo = Tail(@)]
Switch(phase, steps) == [op EXCEPT !.phase = phase, !.todo = steps, !.clean = FALSE]

(* Mutant: removeRuntimeTopology forgets the network.                      *)
FaultyRemovalSteps == <<"removeAgent", "removeRelay", "unregister">>

RemovalSteps == <<"removeAgent", "removeRelay", "unregister", "removeNetwork">>
FailedStartSteps == <<"deactivate", "stopAgent", "stopRelay">>
StartSteps == <<"proveInactive", "startRelay", "register", "startAgent", "activate",
                "proveActive">>

(* restoreRuntimeLifecycle asks for the state the stop had found.          *)
Restore(settle) ==
    IF op.prior = "unknown" THEN End({"other"})
    ELSE Switch("restore", (IF op.prior = "running" THEN StartSteps ELSE FailedStartSteps)
                           \o <<"judgeRestored", settle>>)

(* applyRuntimeTransition widens again what a failed stop had narrowed.    *)
UndoStop(ending) ==
    CASE Head(op.todo) = "stopAgent" -> Switch("best", <<"activate">> \o ending)
      [] Head(op.todo) = "stopRelay" -> Switch("best", <<"startAgent", "activate">> \o ending)
      [] OTHER -> Switch("best", ending)

(* What each operation does when the call it is at fails: "best" goes on,  *)
(* "rollback" gives up with the entry pending.  After a failed outcome     *)
(* receipt an undone operation settles its journal entry without another   *)
(* receipt ("abandon").                                                    *)
Failed ==
    LET settle == IF Head(op.todo) = "commitReceipt" THEN "abandon" ELSE "compensate"
        ending == SubSeq(op.todo, Len(op.todo) - 1, Len(op.todo))
    IN  CASE op.phase = "best" ->
                IF op.kind = "containment" \/ (op.kind = "start" /\ Head(op.todo) = "deactivate")
                THEN Proceed ELSE [Proceed EXCEPT !.clean = FALSE]
          [] op.phase = "do" /\ op.kind = "admit" -> Switch("rollback", RemovalSteps \o <<settle>>)
          [] op.phase = "do" /\ op.kind = "start" ->
                IF Head(op.todo) = "proveInactive"
                THEN [op EXCEPT !.todo = <<"compensate">>]
                ELSE [Switch("best", FailedStartSteps \o <<"judgeStart", settle>>)
                         EXCEPT !.clean = TRUE]
          [] op.phase = "do" /\ op.kind = "stop" ->
                IF Head(op.todo) = "commitReceipt" THEN Restore(settle) ELSE UndoStop(<<"judgeStop">>)
          [] op.phase = "restore" /\ op.prior = "running" ->
                Switch("best", (IF Head(op.todo) = "proveInactive" THEN <<>> ELSE FailedStartSteps)
                               \o ending)
          [] op.phase = "restore" /\ op.prior # "running" -> UndoStop(ending)
          [] OTHER -> End({"other"})

(* One call: it may be refused, applied, lost, or applied with its answer  *)
(* lost.                                                                   *)
Call(can, next) ==
    /\ \/ /\ can
          /\ host' = [host EXCEPT ![op.inst] = next]
          /\ op' = Proceed
          /\ UNCHANGED faults
       \/ /\ host' \in {host, [host EXCEPT ![op.inst] = IF can THEN next ELSE h]}
          /\ op' = Failed
          /\ Spend(IF can THEN 1 ELSE 0)
    /\ UNCHANGED <<storeVars, procVars, envVars>>

(* One call followed by an inspection that decides.                        *)
CallAndConfirm(next, Good(_), otherwise) ==
    /\ \E applied, seen \in BOOLEAN :
          LET after == IF applied THEN next ELSE h
          IN  /\ Spend((IF applied THEN 0 ELSE 1) + (IF seen THEN 0 ELSE 1))
              /\ host' = [host EXCEPT ![op.inst] = after]
              /\ op' = CASE seen /\ Good(after) -> Proceed
                         [] seen /\ ~Good(after) -> otherwise
                         [] OTHER -> Failed
    /\ UNCHANGED <<storeVars, procVars, envVars>>

-----------------------------------------------------------------------------
(* The journal, the receipts and the fence around the calls.               *)

Entry == [inst |-> op.inst, gen |-> op.gen]

JournalPrepare ==
    /\ At("journal")
    /\ \E o \in append(pending \cup {Entry}) :
          /\ Spend(o.cost)
          /\ pending' = o.mem
          /\ journalFile' = o.file
          /\ op' = IF o.ok THEN Proceed ELSE End({"other"})
    /\ UNCHANGED <<host, fences, fenceFile, evidence, procVars, envVars>>

(* AdmissionAllow, before the journal or the host can change.              *)
AppendAllowed ==
    /\ At("allow")
    /\ \E o \in appendLocked({[kind |-> "allow", inst |-> op.inst, gen |-> g]}) :
          /\ Spend(o.cost)
          /\ evidence' = o.log
          /\ op' = IF o.ok THEN Proceed ELSE NoOp
    /\ UNCHANGED <<host, fences, fenceFile, pending, journalFile, procVars, envVars>>

AppendPrepared ==
    /\ At("receipt")
    /\ \E o \in appendLocked({}) :
          /\ Spend(o.cost)
          /\ evidence' = o.log
          /\ op' = IF o.ok THEN Proceed ELSE [op EXCEPT !.todo = <<"abandon">>]
    /\ UNCHANGED <<host, fences, fenceFile, pending, journalFile, procVars, envVars>>

(* recordCompensation ignores the errors of both stores.                   *)
recordCompensation ==
    /\ At("compensate") \/ At("abandon")
    /\ \E e \in IF At("compensate") THEN appendLocked({}) ELSE {[log |-> evidence, cost |-> 0]},
         o \in append(pending \ {Entry}) :
          /\ Spend(e.cost + o.cost)
          /\ evidence' = e.log
          /\ pending' = o.mem
          /\ journalFile' = o.file
    /\ op' = End({"other"})
    /\ UNCHANGED <<host, fences, fenceFile, procVars, envVars>>

(* The receipt of the outcome: JournalCommit, LifecycleStart or            *)
(* LifecycleDestroy; the other kinds are not told apart.                   *)
Outcome ==
    CASE op.kind \in {"admit", "start"} -> {[kind |-> op.kind, inst |-> op.inst, gen |-> g]}
      [] op.kind \in {"destroy", "recover", "expire"} ->
            {[kind |-> "destroy", inst |-> op.inst, gen |-> g]}
      [] OTHER -> {}

AppendCommitted ==
    /\ At("commitReceipt")
    /\ \E o \in appendLocked(Outcome) :
          /\ Spend(o.cost)
          /\ evidence' = o.log
          /\ op' = IF o.ok THEN Proceed ELSE Failed
    /\ UNCHANGED <<host, fences, fenceFile, pending, journalFile, procVars, envVars>>

CommitFence ==
    /\ At("commitFence")
    /\ LET record == IF op.kind = "admit"
                     THEN [gen |-> g, present |-> TRUE, policy |-> policy, lease |-> "none"]
                     ELSE [fences.rec[op.inst] EXCEPT !.present = FALSE]
       IN  \E o \in persistLocked([fences EXCEPT !.rec[op.inst] = record]) :
              /\ Spend(o.cost)
              /\ fences' = o.mem
              /\ fenceFile' = o.file
              /\ op' = IF o.ok THEN Proceed ELSE Failed
    /\ UNCHANGED <<host, pending, journalFile, evidence, procVars, envVars>>

(* A missing workload's recovery publishes a ready report by itself.       *)
JournalCommit ==
    /\ At("settle")
    /\ \E o \in append(pending \ {Entry}) :
          /\ Spend(o.cost)
          /\ pending' = o.mem
          /\ journalFile' = o.file
          /\ op' = End(IF o.ok THEN {} ELSE {"other"})
          /\ IF o.ok /\ op.kind = "recover"
             THEN report' = {} /\ rescued' = TRUE
             ELSE UNCHANGED <<report, rescued>>
    /\ UNCHANGED <<host, fences, fenceFile, evidence, up, scanned, policy,
                   crashes, drifts, drifted, lost>>

-----------------------------------------------------------------------------
(* Calls to Docker and Gateway.                                            *)

CreateNetwork ==
    /\ At("network")
    /\ CallAndConfirm([h EXCEPT !.net[g] = TRUE], LAMBDA x : x.net[g], Failed)

(* Gateway refuses to replace an active grant.                             *)
RegisterGrant ==
    /\ At("register")
    /\ Call(h.grant[g] # "active", [h EXCEPT !.grant[g] = "inactive"])

(* A create that failed is rolled back only when the container is absent;  *)
(* one that may have succeeded stays pending.                              *)
CreateAgent ==
    /\ At("createAgent")
    /\ LET created == [host EXCEPT ![op.inst].agent =
                          [gen |-> g, status |-> "stopped", hardened |-> TRUE]]
       IN  \/ host' = created /\ op' = Proceed /\ UNCHANGED faults
           \/ \E applied, seen \in BOOLEAN :
                 /\ Spend(IF seen THEN 1 ELSE 2)
                 /\ host' = IF applied THEN created ELSE host
                 /\ op' = IF seen /\ ~applied THEN Failed ELSE End({"other"})
    /\ UNCHANGED <<storeVars, procVars, envVars>>

CreateRelay ==
    /\ At("createRelay")
    /\ CallAndConfirm([h EXCEPT !.relay[g] = IF @ = "absent" THEN "stopped" ELSE @],
                      LAMBDA x : x.relay[g] # "absent", Failed)

StartRelay ==
    /\ At("startRelay")
    /\ Call(h.relay[g] # "absent", [h EXCEPT !.relay[g] = "running"])

StartAgent ==
    /\ At("startAgent")
    /\ Call(h.agent.status # "absent", [h EXCEPT !.agent.status = "running"])

ActivateGrant ==
    /\ At("activate")
    /\ Call(h.grant[g] # "absent", [h EXCEPT !.grant[g] = "active"])

(* containDeterministicGrant and a missing workload's recovery look first. *)
DeactivateGrant ==
    /\ At("deactivate")
    /\ LET looks == op.kind \in {"containment", "recover"}
       IN  Call(looks \/ h.grant[g] # "absent",
                [h EXCEPT !.grant[g] = IF @ = "active" THEN "inactive" ELSE @])

(* Containment accepts a container whose hardening has drifted.            *)
Narrows == op.kind \in {"containment", "contain", "expire"}

StopAgent ==
    /\ At("stopAgent")
    /\ CallAndConfirm([h EXCEPT !.agent.status = IF @ = "absent" THEN @ ELSE "stopped"],
                      LAMBDA x : x.agent.status = "stopped" /\ (x.agent.hardened \/ Narrows),
                      Failed)

(* Only the recovery of a missing workload does not look again.            *)
StopRelay ==
    /\ At("stopRelay")
    /\ LET stopped == [h EXCEPT !.relay[g] = IF @ = "absent" THEN @ ELSE "stopped"]
       IN  IF op.kind = "recover"
           THEN Call(TRUE, stopped)
           ELSE CallAndConfirm(stopped, LAMBDA x : x.relay[g] = "stopped", Failed)

(* A destroy whose container is still there is compensated.                *)
RemoveAgent ==
    /\ At("removeAgent")
    /\ CallAndConfirm([h EXCEPT !.agent = NoAgent], LAMBDA x : x.agent.status = "absent",
                      IF op.kind = "destroy" THEN [op EXCEPT !.todo = <<"compensate">>]
                                             ELSE Failed)

RemoveRelay ==
    /\ At("removeRelay")
    /\ CallAndConfirm([h EXCEPT !.relay[g] = "absent"], LAMBDA x : x.relay[g] = "absent", Failed)

UnregisterGrant ==
    /\ At("unregister")
    /\ Call(TRUE, [h EXCEPT !.grant[g] = "absent"])

RemoveNetwork ==
    /\ At("removeNetwork")
    /\ CallAndConfirm([h EXCEPT !.net[g] = FALSE], LAMBDA x : ~x.net[g], Failed)

-----------------------------------------------------------------------------
(* Inspections.                                                            *)

proveRuntimeAuthorityState(x, gen, active) ==
    /\ x.relay[gen] = IF active THEN "running" ELSE "stopped"
    /\ x.grant[gen] = IF active THEN "active" ELSE "inactive"

proveRuntimeTopologyState(x, gen, active) ==
    proveRuntimeAuthorityState(x, gen, active) /\ x.net[gen]

managed(x, status) == x.agent.status = status /\ x.agent.hardened

(* An inspection that holds, or fails; it may also fail for no reason.     *)
Inspect(holds, good, bad) ==
    /\ \/ op' = (IF holds THEN good ELSE bad) /\ UNCHANGED faults
       \/ op' = bad /\ Spend(1)
    /\ UNCHANGED <<host, storeVars, up, scanned, policy, envVars>>

Degrade == report' = report \cup {[inst |-> op.inst, code |-> "other"]}

InspectCreated ==
    /\ At("inspect")
    /\ Inspect(h.agent.gen = g /\ h.agent.hardened /\ h.grant[g] # "absent", Proceed, Failed)
    /\ UNCHANGED report

ProveInactive ==
    /\ At("proveInactive")
    /\ Inspect(proveRuntimeTopologyState(h, g, FALSE), Proceed, Failed)
    /\ UNCHANGED report

(* applyRuntimeTransition proves the started topology, and marks readiness *)
(* degraded when it cannot; secureTransition proves it a second time.      *)
ProveActive ==
    /\ At("proveActive")
    /\ Inspect(proveRuntimeTopologyState(h, g, TRUE) /\ managed(h, "running"), Proceed, Failed)
    /\ \/ op' = Failed /\ op.kind = "start" /\ Degrade
       \/ /\ \/ op' # Failed \/ op.kind # "start"
             \/ proveRuntimeTopologyState(h, g, TRUE)
          /\ UNCHANGED report

(* failedRuntimeStart: was everything the start could have widened proved  *)
(* narrow again?                                                           *)
JudgeStart ==
    /\ At("judgeStart")
    /\ Inspect(op.clean /\ managed(h, "stopped") /\ proveRuntimeAuthorityState(h, g, FALSE),
               Proceed, NoOp)
    /\ IF op' = NoOp THEN Degrade ELSE UNCHANGED report

(* secureTransition weighs a stop: not inspectable, unchanged, done, or    *)
(* neither.  Each of its three looks can fail alone.                       *)
JudgeStop ==
    /\ At("judgeStop")
    /\ \E seen, sameSeen, doneSeen \in BOOLEAN :
          LET matches(status) == /\ h.agent.status = status
                                 /\ proveRuntimeAuthorityState(h, g, status = "running")
              same == sameSeen /\ op.prior # "unknown" /\ matches(op.prior)
              done == doneSeen /\ matches("stopped")
          IN  /\ Spend(Cardinality({k \in 1 .. 3 : ~<<seen, sameSeen, doneSeen>>[k]}))
              /\ op' = IF ~seen \/ ~h.agent.hardened \/ h.agent.status = "absent" THEN NoOp
                       ELSE IF ~op.clean /\ same THEN [op EXCEPT !.todo = <<"compensate">>]
                       ELSE IF done
                       THEN [op EXCEPT !.todo = <<"commitReceipt", "settle">>, !.phase = "do"]
                       ELSE Restore("compensate")
    /\ UNCHANGED <<host, storeVars, procVars, envVars>>

JudgeRestored ==
    /\ At("judgeRestored")
    /\ Inspect(/\ managed(h, op.prior)
               /\ proveRuntimeAuthorityState(h, g, op.prior = "running")
               /\ op.prior = "running" => h.net[g],
               Proceed, NoOp)
    /\ UNCHANGED report

(* The agent must still be absent when its recovery is recorded.           *)
ConfirmAbsent ==
    /\ At("confirmAbsent")
    /\ Inspect(h.agent.status = "absent", Proceed, Failed)
    /\ UNCHANGED report

-----------------------------------------------------------------------------
(* Reconciliation.                                                         *)

(* What planReconciliation finds for a present record; `f' is the          *)
(* inspection that failed, if any.                                         *)
InspectionFaults == {"none", "agent", "network", "relay", "gateway"}

StopPlan(x, gen, f) ==
    LET wanted(step) ==
            \/ step = "deactivate" /\ (x.grant[gen] = "active" \/ f = "gateway")
            \/ step = "stopAgent" /\ x.agent.status # "stopped"
            \/ step = "stopRelay" /\ x.relay[gen] \in {"running", "unknown"} /\ f # "relay"
    IN  SelectSeq(FailedStartSteps, wanted)

RepairPlan(x, gen) ==
    LET running == x.agent.status = "running"
        wanted(step) ==
            \/ step = "startRelay" /\ x.relay[gen] # "running"
            \/ step = "stopRelay" /\ x.relay[gen] = "running"
            \/ step = "register" /\ x.grant[gen] = "absent"
            \/ step = "activate" /\ x.grant[gen] # "active"
            \/ step = "deactivate" /\ x.grant[gen] = "active"
    IN  SelectSeq(IF running THEN <<"startRelay", "register", "activate">>
                             ELSE <<"deactivate", "stopRelay", "register">>, wanted)

planReconciliation(i, f) ==
    LET x == host[i]
        record == fences.rec[i]
        gen == record.gen
        revoked == record.policy # policy
        drift == \/ ~x.agent.hardened
                 \/ /\ record.lease # "expired"
                    /\ \/ ~x.net[gen] \/ x.relay[gen] = "absent" \/ f \in {"network", "relay"}
                       \/ ~revoked /\ ("unknown" \in {x.agent.status, x.relay[gen]} \/ f = "gateway")
        plan(kind, todo, code) ==
            [inst |-> i, gen |-> gen, kind |-> kind, todo |-> todo, code |-> code]
    IN  CASE f = "agent" \/ x.agent.gen \notin {0, gen} -> plan("error", <<>>, "other")
          [] f # "agent" /\ x.agent.status = "absent" -> plan("error", <<>>, "missing")
          [] OTHER ->
             IF drift THEN plan("contain", StopPlan(x, gen, f), "other")
             ELSE IF record.lease = "expired" THEN plan("expire", StopPlan(x, gen, f), "none")
             ELSE IF revoked THEN plan("revoke", StopPlan(x, gen, f), "none")
             ELSE plan("repair", RepairPlan(x, gen), "none")

(* Mutant: the scan leaves out the workloads of an earlier policy.         *)
FaultyPresent == {i \in Instance : fences.rec[i].present /\ fences.rec[i].policy = policy}

Present == {i \in Instance : fences.rec[i].present}

(* A scan that found an ambiguity keeps only what narrows authority.       *)
Reconcile ==
    /\ up /\ Idle
    /\ IF pending # {}
       THEN /\ report' = {[inst |-> 0, code |-> "other"]}
            /\ scanned' = TRUE
            /\ UNCHANGED <<op, faults, drifted>>
       ELSE \E f \in [Present -> InspectionFaults] :
              LET plans == {planReconciliation(i, f[i]) : i \in Present}
                  degraded == {p \in plans : p.kind \in {"error", "contain"}}
                  narrow == {p \in plans : p.kind \in {"contain", "revoke", "expire"}}
              IN  /\ Spend(Cardinality({i \in Present : f[i] # "none"}))
                  /\ op' = [NoOp EXCEPT
                        !.kind = "scan", !.coherent = degraded = {},
                        !.failures = {[inst |-> p.inst, code |-> p.code] : p \in degraded},
                        !.plans = {p \in IF degraded = {} THEN plans ELSE narrow :
                                      p.todo # <<>> \/ p.kind = "expire"}]
                  /\ drifted' = {}
                  /\ UNCHANGED <<report, scanned>>
    /\ UNCHANGED <<host, storeVars, up, policy, crashes, drifts, rescued, lost>>

applyReconciliation ==
    /\ up /\ op.kind = "scan" /\ op.plans # {} /\ pending = {}
    /\ LET p == CHOOSE q \in op.plans : \A r \in op.plans : q.inst <= r.inst
           checks == CASE p.kind = "contain" -> <<"verify">>
                       [] p.kind = "expire" -> <<"verify">> \o RemovalSteps \o <<"commitFence">>
                       [] OTHER -> <<"settled">>
       IN  op' = [op EXCEPT !.kind = p.kind, !.inst = p.inst, !.gen = p.gen, !.clean = TRUE,
                            !.phase = IF p.kind = "repair" THEN "do" ELSE "best",
                            !.todo = <<"journal", "receipt">> \o p.todo \o checks
                                     \o <<"commitReceipt", "settle">>,
                            !.planned = p.todo, !.plans = @ \ {p}]
    /\ UNCHANGED <<host, storeVars, procVars, faults, envVars>>

(* The errors of a containment are joined and any of them leaves it        *)
(* pending; only what the plan touched is looked at again.                 *)
Planned(step) == \E k \in DOMAIN op.planned : op.planned[k] = step

verifyReconciliationContainment ==
    /\ At("verify")
    /\ Inspect(/\ op.clean
               /\ h.agent.gen = g /\ h.agent.status = "stopped"
               /\ Planned("stopRelay") => h.relay[g] = "stopped"
               /\ Planned("deactivate") => h.grant[g] # "active",
               [Proceed EXCEPT !.phase = "do"], End({"other"}))
    /\ UNCHANGED report

(* Mutant: the calls are taken to have worked.                             *)
FaultyVerifySettled ==
    /\ At("settled")
    /\ LET again == planReconciliation(op.inst, "none")
       IN  Inspect(again.kind \notin {"error", "expire"}, [Proceed EXCEPT !.phase = "do"],
                   End({"other"}))
    /\ UNCHANGED report

(* A repair or a revocation must leave nothing to plan.                    *)
VerifySettled ==
    /\ At("settled")
    /\ LET again == planReconciliation(op.inst, "none")
       IN  Inspect(op.clean /\ again.kind \notin {"error", "expire"} /\ again.todo = <<>>,
                   [Proceed EXCEPT !.phase = "do"], End({"other"}))
    /\ UNCHANGED report

PublishReport ==
    /\ up /\ op.kind = "scan" /\ (op.plans = {} \/ pending # {})
    /\ report' = op.failures
    /\ scanned' = TRUE
    /\ rescued' = FALSE
    /\ op' = NoOp
    /\ UNCHANGED <<host, storeVars, up, policy, faults, crashes, drifts, drifted, lost>>

-----------------------------------------------------------------------------
(* Requests, each under provisionMu.  The listener and the uplink open     *)
(* after the first scan.                                                   *)

Serving == up /\ scanned /\ Idle

secureMutationBlockedLocked == pending # {} \/ report # {}

(* secureLifecycleRecord, for a managed and hardened container.            *)
secureLifecycleRecord(i) ==
    /\ fences.rec[i].present
    /\ host[i].agent.gen = fences.rec[i].gen
    /\ host[i].agent.hardened

currentPolicyAuthorizesRecord(i) == fences.rec[i].policy = policy

Request(kind, i, gen, todo) ==
    [NoOp EXCEPT !.kind = kind, !.inst = i, !.gen = gen, !.todo = todo]

Journaled(kind, i, todo) ==
    Request(kind, i, fences.rec[i].gen, <<"journal", "receipt">> \o todo)

provisionSecureWorkload(i, gen) ==
    /\ Serving /\ ~secureMutationBlockedLocked
    /\ host[i].agent.status = "absent"
    /\ ~fences.maint
    /\ fences.rec[i].gen < gen
    /\ op' = Request("admit", i, gen,
                <<"allow", "journal", "receipt", "network", "register", "createAgent",
                  "createRelay", "inspect", "commitReceipt", "commitFence", "settle">>)
    /\ UNCHANGED <<host, storeVars, procVars, faults, envVars>>

(* containObservedSecureWorkload: no journal, no receipt; it goes on past  *)
(* every error.                                                            *)
Containment(i, todo) ==
    [Request("containment", i, fences.rec[i].gen, todo) EXCEPT !.phase = "best"]

StopRequest(i, prior) ==
    [Journaled("stop", i, FailedStartSteps \o <<"judgeStop">>) EXCEPT !.prior = prior]

(* secureTransition(start): an ambiguous lifecycle is stopped instead, a   *)
(* running topology that cannot be proved is contained, a stopped one that *)
(* cannot be proved is refused.                                            *)
StartWorkload(i) ==
    LET x == host[i]
        ambiguous == "unknown" \in {x.agent.status, x.relay[fences.rec[i].gen]}
        proved == proveRuntimeTopologyState(x, fences.rec[i].gen, x.agent.status = "running")
    IN  /\ Serving /\ ~secureMutationBlockedLocked /\ ~fences.maint
        /\ secureLifecycleRecord(i) /\ currentPolicyAuthorizesRecord(i)
        /\ fences.rec[i].lease # "expired"
        /\ \/ /\ ambiguous
              /\ op' = StopRequest(i, "unknown")
              /\ UNCHANGED <<report, faults>>
           \/ /\ x.agent.status = "running"
              /\ (~ambiguous /\ ~proved /\ UNCHANGED faults) \/ Spend(1)
              /\ report' = report \cup {[inst |-> i, code |-> "other"]}
              /\ op' = Containment(i, FailedStartSteps)
           \/ /\ x.agent.status = "stopped" /\ proved
              /\ op' = Journaled("start", i, StartSteps \o <<"commitReceipt", "settle">>)
              /\ UNCHANGED <<report, faults>>
        /\ UNCHANGED <<host, storeVars, up, scanned, policy, envVars>>

StopWorkload(i) ==
    LET x == host[i]
        stopped == x.agent.status = "stopped" /\ proveRuntimeAuthorityState(x, x.agent.gen, FALSE)
    IN  /\ Serving /\ ~secureMutationBlockedLocked /\ secureLifecycleRecord(i)
        /\ (~stopped /\ UNCHANGED faults) \/ Spend(1)
        /\ op' = StopRequest(i, x.agent.status)
        /\ UNCHANGED <<host, storeVars, procVars, envVars>>

(* The one mutation a degraded Executor accepts.                           *)
containSecureWorkload(i) ==
    /\ Serving /\ secureMutationBlockedLocked /\ fences.rec[i].present
    /\ \/ /\ host[i].agent.gen = fences.rec[i].gen
          /\ op' = Containment(i, FailedStartSteps)
          /\ UNCHANGED faults
       \/ /\ (host[i].agent.gen # fences.rec[i].gen /\ UNCHANGED faults) \/ Spend(1)
          /\ op' = Containment(i, <<"deactivate">>)
    /\ UNCHANGED <<host, storeVars, procVars, envVars>>

secureDestroy(i) ==
    /\ Serving /\ ~secureMutationBlockedLocked /\ secureLifecycleRecord(i)
    /\ op' = Journaled("destroy", i, RemovalSteps \o <<"commitReceipt", "commitFence", "settle">>)
    /\ UNCHANGED <<host, storeVars, procVars, faults, envVars>>

recoverMissingWorkload(i) ==
    /\ Serving /\ pending = {} /\ report = {[inst |-> i, code |-> "missing"]}
    /\ fences.rec[i].present /\ host[i].agent.status = "absent"
    /\ op' = Journaled("recover", i,
                <<"deactivate", "unregister", "stopRelay", "removeRelay", "removeNetwork",
                  "confirmAbsent", "commitReceipt", "commitFence", "settle">>)
    /\ UNCHANGED <<host, storeVars, procVars, faults, envVars>>

(* One write of the fence store by a request.                              *)
Persist(next) ==
    /\ \E o \in persistLocked(next) :
          /\ Spend(o.cost)
          /\ fences' = o.mem
          /\ fenceFile' = o.file
    /\ UNCHANGED <<host, pending, journalFile, evidence, procVars, op, envVars>>

(* RenewLease refuses an earlier expiry, and nothing else: the new one is  *)
(* in the future, whatever the old one is.                                 *)
renewWorkloadLease(i) ==
    /\ Serving /\ ~secureMutationBlockedLocked
    /\ secureLifecycleRecord(i) /\ currentPolicyAuthorizesRecord(i)
    /\ i \in Leased /\ fences.rec[i].lease # "live"
    /\ Persist([fences EXCEPT !.rec[i].lease = "live"])

maintenanceEnter ==
    /\ Serving /\ ~fences.maint
    /\ Persist([fences EXCEPT !.maint = TRUE])

maintenanceExit ==
    /\ Serving /\ fences.maint /\ ~secureMutationBlockedLocked
    /\ Persist([fences EXCEPT !.maint = FALSE])

-----------------------------------------------------------------------------
(* The process and what happens around it.                                 *)

Crash ==
    /\ up /\ crashes < MaxCrashes /\ Troubles < MaxTroubles
    /\ crashes' = crashes + 1
    /\ up' = FALSE /\ scanned' = FALSE /\ report' = {} /\ op' = NoOp /\ rescued' = FALSE
    /\ fences' = fenceFile /\ pending' = journalFile.pending
    /\ UNCHANGED <<host, fenceFile, journalFile, evidence, policy, faults, drifts, drifted, lost>>

(* main opens the three stores and exits when one of them refuses.         *)
CanStart == journalFile.tail # "broken" /\ ~evidence.torn

Restart ==
    /\ ~up /\ CanStart
    /\ up' = TRUE
    /\ journalFile' = [journalFile EXCEPT !.tail = "clean"]
    /\ evidence' = [evidence EXCEPT !.open = TRUE]
    /\ policy' \in policy .. MaxPolicy
    /\ UNCHANGED <<host, fences, fenceFile, pending, scanned, report, op, faults, envVars>>

(* An expiry instant passes.                                               *)
LeaseExpires(i) ==
    LET expire(store) == [store EXCEPT !.rec[i].lease = IF @ = "live" THEN "expired" ELSE @]
    IN  /\ "live" \in {fences.rec[i].lease, fenceFile.rec[i].lease}
        /\ fences' = expire(fences)
        /\ fenceFile' = expire(fenceFile)
        /\ UNCHANGED <<host, pending, journalFile, evidence, procVars, op, faults, envVars>>

(* What Docker, the agent or Gateway may do behind Executor's back.        *)
Drifted(i, kind) ==
    LET x == host[i]
        gen == x.agent.gen
    IN  CASE kind = "agentExits" -> [x EXCEPT !.agent.status = "stopped"]
          [] kind = "agentUnknown" -> [x EXCEPT !.agent.status = "unknown"]
          [] kind = "agentUnhardened" -> [x EXCEPT !.agent.hardened = FALSE]
          [] kind = "agentLost" -> [x EXCEPT !.agent = NoAgent]
          [] kind = "relayExits" -> [x EXCEPT !.relay[gen] = IF @ = "running" THEN "stopped" ELSE @]
          [] kind = "relayUnknown" -> [x EXCEPT !.relay[gen] = IF @ = "running" THEN "unknown" ELSE @]
          [] kind = "gatewayRestarts" ->
                [x EXCEPT !.grant = [k \in Generation |-> IF @[k] = "active" THEN "inactive" ELSE @[k]]]

Drift(i, kind) ==
    /\ drifts < MaxDrifts /\ Troubles < MaxTroubles
    /\ host[i].agent.status = "running" \/ (kind = "agentLost" /\ host[i].agent # NoAgent)
    /\ host' = [host EXCEPT ![i] = Drifted(i, kind)]
    /\ drifts' = drifts + 1
    /\ drifted' = drifted \cup {i}
    /\ lost' = IF kind = "agentLost" THEN lost \cup {<<i, host[i].agent.gen>>} ELSE lost
    /\ UNCHANGED <<storeVars, procVars, op, faults, crashes, rescued>>

-----------------------------------------------------------------------------
NoFences == [rec |-> [i \in Instance |-> NoRecord], maint |-> FALSE]

Init ==
    /\ host = [i \in Instance |-> NoWorkload]
    /\ fences = NoFences /\ fenceFile = NoFences
    /\ pending = {} /\ journalFile = [pending |-> {}, tail |-> "clean"]
    /\ evidence = [open |-> TRUE, torn |-> FALSE, receipts |-> {}]
    /\ up = TRUE /\ scanned = FALSE /\ report = {} /\ policy = 1
    /\ op = NoOp
    /\ faults = 0 /\ crashes = 0 /\ drifts = 0 /\ drifted = {} /\ rescued = FALSE /\ lost = {}

(* The steps of the operation that holds provisionMu.                      *)
StoreStep ==
    \/ AppendAllowed \/ JournalPrepare \/ AppendPrepared \/ recordCompensation
    \/ AppendCommitted \/ CommitFence \/ JournalCommit

HostStep ==
    \/ CreateNetwork \/ RegisterGrant \/ CreateAgent \/ CreateRelay
    \/ StartRelay \/ StartAgent \/ ActivateGrant
    \/ DeactivateGrant \/ StopAgent \/ StopRelay
    \/ RemoveAgent \/ RemoveRelay \/ UnregisterGrant \/ RemoveNetwork

InspectStep ==
    \/ InspectCreated \/ ProveInactive \/ ProveActive
    \/ JudgeStart \/ JudgeStop \/ JudgeRestored \/ ConfirmAbsent
    \/ verifyReconciliationContainment \/ VerifySettled

ScanStep == applyReconciliation \/ PublishReport

Step == StoreStep \/ HostStep \/ InspectStep \/ ScanStep

RequestStep ==
    \/ \E i \in Instance :
          \/ \E gen \in Generation : provisionSecureWorkload(i, gen)
          \/ StartWorkload(i) \/ StopWorkload(i) \/ containSecureWorkload(i)
          \/ secureDestroy(i) \/ recoverMissingWorkload(i) \/ renewWorkloadLease(i)
    \/ maintenanceEnter \/ maintenanceExit

EnvironmentStep ==
    \/ Crash
    \/ \E i \in Instance : LeaseExpires(i) \/ \E kind \in Drifts : Drift(i, kind)

Next == Step \/ Reconcile \/ RequestStep \/ EnvironmentStep \/ Restart

(* Calls have deadlines, the supervisor restarts the process, and a        *)
(* waiting goroutine gets provisionMu in the end; nobody must send         *)
(* requests.                                                               *)
Fairness == WF_vars(Step) /\ SF_vars(Reconcile) /\ WF_vars(Restart)

Spec == Init /\ [][Next]_vars /\ Fairness

-----------------------------------------------------------------------------
(* The type invariant: the host, the stores and the operation keep their   *)
(* shapes, and an idle Executor holds no leftovers of an operation.        *)
ExecutorTypeOK ==
    LET Record == [gen : 0 .. MaxGeneration, present : BOOLEAN, policy : Policy,
                   lease : {"none", "live", "expired"}]
        Store == [rec : [Instance -> Record], maint : BOOLEAN]
        Entries == SUBSET [inst : Instance, gen : Generation]
    IN  /\ host \in [Instance ->
              [agent : [gen : 0 .. MaxGeneration, status : Status, hardened : BOOLEAN],
               relay : [Generation -> Status], net : [Generation -> BOOLEAN],
               grant : [Generation -> {"absent", "inactive", "active"}]]]
        /\ \A i \in Instance : host[i].agent.gen = 0 <=> host[i].agent.status = "absent"
        /\ fences \in Store /\ fenceFile \in Store
        /\ pending \in Entries
        /\ journalFile \in [pending : Entries, tail : {"clean", "ahead", "broken"}]
        /\ evidence.open => ~evidence.torn
        /\ up \in BOOLEAN /\ scanned \in BOOLEAN /\ policy \in Policy
        /\ op.kind \in {"none", "scan"} <=> op.todo = <<>>
        /\ ~up => op = NoOp

Holds(i, gen) ==
    \/ host[i].agent.gen = gen
    \/ host[i].relay[gen] # "absent"
    \/ host[i].net[gen]
    \/ host[i].grant[gen] # "absent"

Unsettled(i, gen) ==
    journalFile.tail = "broken" \/ [inst |-> i, gen |-> gen] \in journalFile.pending

(* Nothing Executor made is ever forgotten: a container, relay, network or *)
(* grant of a generation belongs to a record on disk that says present, or *)
(* its operation is pending in the journal on disk (or the journal refuses *)
(* to open).  The one exception is a workload whose container somebody     *)
(* else removed.  At every instant, so also after a crash between any two  *)
(* calls of provisionSecureWorkload, secureDestroy and                     *)
(* applyReconciliation.                                                    *)
RecordedOrPending ==
    \A i \in Instance, gen \in Generation :
        Holds(i, gen) =>
            \/ fenceFile.rec[i].present /\ fenceFile.rec[i].gen = gen
            \/ Unsettled(i, gen)
            \/ <<i, gen>> \in lost

(* Container, relay, grant and network of a present record agree on one    *)
(* lifecycle state, a revoked record has nothing running, and a tombstone  *)
(* has nothing left.                                                       *)
Coherent(i) ==
    LET record == fences.rec[i]
        x == host[i]
    IN  IF ~record.present
        THEN \A gen \in Generation : Holds(i, gen) => <<i, gen>> \in lost
        ELSE /\ secureLifecycleRecord(i)
             /\ IF currentPolicyAuthorizesRecord(i)
                THEN proveRuntimeTopologyState(x, record.gen, x.agent.status = "running")
                ELSE /\ x.agent.status = "stopped" /\ x.relay[record.gen] = "stopped"
                     /\ x.grant[record.gen] # "active"

(* A ready report means a coherent host.                                   *)
ReadyMeansCoherent ==
    Serving /\ ~secureMutationBlockedLocked => \A i \in Instance \ drifted : Coherent(i)

(* What a scan's readiness promises: while the report it published is      *)
(* ready and nothing is pending, every workload is coherent, unless        *)
(* somebody else changed it since.  So neither a request nor a scan that   *)
(* half failed ever leaves the host mixed behind a ready report            *)
(* (secureMutationBlockedLocked).                                          *)
ReadyIsCoherent == ~rescued => ReadyMeansCoherent

(* A lease that expires takes the workload down: the scan stops the agent  *)
(* and deactivates its grant, or a pending operation, a closed receipt log *)
(* or a store that refuses to open stands in the way, or the lease was     *)
(* renewed.                                                                *)
ExpiredLeaseStops ==
    \A i \in Leased :
        fences.rec[i].present /\ fences.rec[i].lease = "expired" ~>
            \/ fences.rec[i].lease # "expired"
            \/ /\ host[i].agent.status \in {"absent", "stopped"}
               /\ host[i].agent.status = "absent" \/ host[i].grant[host[i].agent.gen] # "active"
            \/ pending # {} \/ ~evidence.open \/ ~CanStart

=============================================================================
