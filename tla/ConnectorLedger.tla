-------------------------- MODULE ConnectorLedger --------------------------
(***************************************************************************)
(* The signed connector receipt ledger (internal/connectorledger): one     *)
(* append-only file shared by connector calls, service tasks and inference *)
(* attempts, and the in-memory index a Log handle keeps of it.             *)
(*                                                                         *)
(* Every exported operation runs under Log.mu, so each is one action here. *)
(* A write or fsync error leaves the last line in doubt and poisons the    *)
(* handle; a stop (crash, exit or Close) discards the index; opening the   *)
(* file again verifies it line by line (ReplayRecord) and rebuilds the     *)
(* index.  Signatures, hashes and field syntax are abstracted: a call is   *)
(* the tuple of identities that the ledger compares.                       *)
(***************************************************************************)
EXTENDS Integers, Sequences, FiniteSets

CONSTANTS
    Task,           \* task digests: the replay identities
    Tenant,
    Grant,
    Run,            \* run identifiers supplied by a service
    Calls,          \* the requests Gateway may present, see Call
    Quota,          \* tenant -> byte budget (Limits.TenantBudgets)
    TerminalReserve,\* terminalReserveBytes: the largest line with its newline
    LineSizes,      \* the line lengths explored, a subset of 1..TerminalReserve
    InferenceMax,   \* per-grant inference allowance, 0 when not enforced
    None            \* the absent value

Kind == {"connector_call", "lifecycle_task", "inference_attempt"}

(* The fields of Event on which the ledger's decisions depend.  workload   *)
(* stands for runtime, capsule, policy and route-policy digests together   *)
(* with the generation; permit for the permit and request digests.  A stop *)
(* names its target task and run; a scoped inference attempt its parent.   *)
(* context stands for InfluenceSequence and InfluenceHash: the ledger only *)
(* compares it, Gateway gives it its meaning (see GatewayConnector).       *)
Call ==
    [task : Task, tenant : Tenant, grant : Grant, workload : STRING,
     authority : STRING, permit : STRING, kind : Kind,
     target : Task \cup {None}, targetRun : Run \cup {None},
     scope : Task \cup {None}, scopePermit : STRING, context : Seq(Nat)]

ASSUME NoneAssumption ==
    /\ None \notin Task
    /\ None \notin Run
    /\ None \notin Calls

ASSUME CallsAssumption ==
    /\ Calls \subseteq Call
    /\ \A c \in Calls :
          /\ c.target # None => /\ c.kind = "lifecycle_task"
                                /\ c.target # c.task
                                /\ c.targetRun # None
          /\ c.scope # None => c.kind = "inference_attempt" /\ c.scope # c.task

(* The last clause follows from the one before it: CountsAreNatural in     *)
(* ConnectorLedgerCustody.                                                 *)
ASSUME SizeAssumption ==
    /\ TerminalReserve \in Nat \ {0}
    /\ LineSizes \subseteq 1..TerminalReserve
    /\ Quota \in [Tenant -> Nat]
    /\ InferenceMax \in Nat
    /\ IsFiniteSet(Task)
    /\ \A tasks \in SUBSET Task : Cardinality(tasks) \in Nat

Phase == {"authorize", "dispatch", "terminal", "deny"}

(* Event.Outcome together with Event.ErrorCode: "unsent" is a failure      *)
(* recorded before any contact (permit_expired or grant_revoked).          *)
Outcome == {"allowed", "denied", "responded", "failed", "unsent"}

Record ==
    [phase : Phase, call : Calls, run : Run \cup {None}, outcome : Outcome,
     size : 1..TerminalReserve]

ASSUME RecordAssumption == None \notin Record

VARIABLES
    file,           \* the complete lines of the ledger file
    torn,           \* the file ends in an incomplete line
    mode,           \* "closed", "replay", "live" or "refused"
    pos,            \* lines verified so far by the open in progress
    failed,         \* Log.failed: the last append was ambiguous
    pending,        \* Log.pending: latest record of each unfinished task
    spent,          \* Log.spent
    runOwners,      \* Log.runOwners: <<grant, run>> -> dispatching call
    reserved,       \* Log.reserved
    tenantBytes,    \* Log.tenantBytes: line bytes plus reserves
    inferenceCounts \* Log.inferenceCounts

index == <<pending, spent, runOwners, reserved, tenantBytes, inferenceCounts>>
ledgerVars == <<file, torn, mode, pos, failed, index>>

-----------------------------------------------------------------------------
(* Derived quantities and checks.                                          *)

(* Fault: one line is reserved for a lifecycle authorization too.          *)
FaultyReservation(r) == TerminalReserve

(* pendingReservation: a lifecycle authorization still owes two lines,     *)
(* every other unfinished call one.                                        *)
pendingReservation(r) ==
    IF r.call.kind = "lifecycle_task" /\ r.phase = "authorize"
    THEN 2 * TerminalReserve
    ELSE TerminalReserve

(* The reservations of the pending records of a set of tenants, counted    *)
(* as the loop at the end of OpenWithLimits adds them up.                  *)
ReservationsFor(pend, tenants) ==
    LET open == {t \in Task : pend[t] # None /\ pend[t].call.tenant \in tenants}
    IN  TerminalReserve
          * ( Cardinality(open)
            + Cardinality({t \in open : /\ pend[t].call.kind = "lifecycle_task"
                                        /\ pend[t].phase = "authorize"}) )

(* Fault: any owner of the run is accepted as the target of a stop.        *)
FaultyRunControlOwner(c, owners) ==
    c.target # None => owners[<<c.grant, c.targetRun>>] # None

(* validateRunControlOwner: a stop names a run that its target task, under *)
(* the same grant, workload and authority, was recorded as owning.         *)
validateRunControlOwner(c, owners) ==
    c.target # None =>
        LET owner == owners[<<c.grant, c.targetRun>>]
        IN  /\ owner # None
            /\ owner.task = c.target
            /\ owner.target = None
            /\ owner.kind = "lifecycle_task"
            /\ owner.tenant = c.tenant
            /\ owner.workload = c.workload
            /\ owner.authority = c.authority

(* Fault: the parent must have been spent, finished or not.                *)
FaultyScopeOwner(c, pend) == c.scope # None => c.scope \in spent

(* validateInferenceScopeOwner: a scoped attempt begins only while its     *)
(* parent is an unfinished service task with the same identity.            *)
validateInferenceScopeOwner(c, pend) ==
    c.scope # None =>
        LET parent == pend[c.scope]
        IN  /\ parent # None
            /\ parent.call.kind = "lifecycle_task"
            /\ parent.call.target = None
            /\ parent.call.tenant = c.tenant
            /\ parent.call.workload = c.workload
            /\ parent.call.grant = c.grant
            /\ parent.call.permit = c.scopePermit

(* validateTransition, sameCall and the phase rules of validateEvent: the  *)
(* records that may follow previous.                                       *)
validateTransition(previous, next) ==
    /\ previous.call = next.call
    /\ IF next.call.kind # "lifecycle_task"
       THEN previous.phase = "authorize" /\ next.phase = "terminal"
       ELSE \/ /\ previous.phase = "authorize"
               /\ next.phase = "dispatch"
            \/ /\ previous.phase = "authorize"
               /\ next.phase = "terminal"
               /\ next.outcome \in {"failed", "unsent"}
               /\ next.run = None
            \/ /\ previous.phase = "dispatch"
               /\ next.phase = "terminal"
               /\ next.run = previous.run

(* A dispatch carries the run the service returned; the dispatch of a stop *)
(* carries the run it stops.  Legacy and inference records carry none.     *)
validateEvent(r) ==
    LET dispatched == r.call.kind = "lifecycle_task" /\ r.phase = "dispatch"
    IN  /\ r.phase = "authorize" => r.run = None /\ r.outcome = "allowed"
        /\ r.phase = "deny" => r.run = None /\ r.outcome = "denied"
                               /\ r.call.kind = "connector_call"
        /\ r.phase = "dispatch" => dispatched /\ r.run # None
                                   /\ r.outcome = "responded"
        /\ r.phase = "terminal" => r.outcome \in {"responded", "failed", "unsent"}
        /\ r.call.kind # "lifecycle_task" => r.run = None
        /\ r.call.target # None /\ r.run # None => r.run = r.call.targetRun

(* Fault: a run may be reused once its first task is finished.             *)
FaultyRunConflict(r, owners) ==
    LET owner == owners[<<r.call.grant, r.run>>]
    IN  /\ owner # None
        /\ owner.task # r.call.task
        /\ pending[owner.task] # None
        /\ r.call.target = None

(* runOwners[ownership] belongs to another task and this is not a stop.    *)
runConflict(r, owners) ==
    LET owner == owners[<<r.call.grant, r.run>>]
    IN  owner # None /\ owner.task # r.call.task /\ r.call.target = None

-----------------------------------------------------------------------------
EmptyIndex ==
    /\ pending = [t \in Task |-> None]
    /\ spent = {}
    /\ runOwners = [o \in Grant \X Run |-> None]
    /\ reserved = 0
    /\ tenantBytes = [t \in Tenant |-> 0]
    /\ inferenceCounts = [g \in Grant |-> 0]

ResetIndex ==
    /\ pending' = [t \in Task |-> None]
    /\ spent' = {}
    /\ runOwners' = [o \in Grant \X Run |-> None]
    /\ reserved' = 0
    /\ tenantBytes' = [t \in Tenant |-> 0]
    /\ inferenceCounts' = [g \in Grant |-> 0]

(* The index after one authorize, dispatch, terminal or deny record: the   *)
(* assignments of begin, Dispatch and Finish, which updateHistory repeats. *)
Index(r) ==
    /\ pending' = CASE r.phase \in {"authorize", "dispatch"} ->
                           [pending EXCEPT ![r.call.task] = r]
                    [] r.phase = "terminal" ->
                           [pending EXCEPT ![r.call.task] = None]
                    [] OTHER -> pending
    /\ spent' = IF r.phase = "authorize" THEN spent \cup {r.call.task} ELSE spent
    /\ runOwners' = IF r.phase = "dispatch" /\ r.call.target = None
                    THEN [runOwners EXCEPT ![<<r.call.grant, r.run>>] = r.call]
                    ELSE runOwners
    /\ inferenceCounts' =
           IF r.phase = "authorize" /\ r.call.kind = "inference_attempt"
           THEN [inferenceCounts EXCEPT ![r.call.grant] = @ + 1]
           ELSE inferenceCounts

(* The quota and capacity checks of appendLocked.  Explicit budgets sum to *)
(* at most MaxLogBytes (Limits.Validate), so the tenant check implies the  *)
(* check on the size of the whole file.                                    *)
fits(r, delta) ==
    /\ reserved + delta >= 0
    /\ tenantBytes[r.call.tenant] + r.size + delta >= 0
    /\ tenantBytes[r.call.tenant] + r.size + delta <= Quota[r.call.tenant]

Writable == mode = "live" /\ ~failed

(* appendLocked: write and fsync succeed, and the caller indexes r ...     *)
appendLocked(r, delta) ==
    /\ Writable
    /\ fits(r, delta)
    /\ file' = Append(file, r)
    /\ reserved' = reserved + delta
    /\ tenantBytes' = [tenantBytes EXCEPT ![r.call.tenant] = @ + r.size + delta]
    /\ Index(r)
    /\ UNCHANGED <<torn, mode, pos, failed>>

(* ... or write or fsync fails: the handle is poisoned, the index is left  *)
(* as it was, and the line is absent, complete or torn on disk.            *)
appendAmbiguous(r, delta) ==
    /\ Writable
    /\ fits(r, delta)
    /\ \/ file' = Append(file, r) /\ torn' = FALSE
       \/ file' = file /\ torn' \in BOOLEAN
    /\ failed' = TRUE
    /\ UNCHANGED <<mode, pos, index>>

-----------------------------------------------------------------------------
(* The exported operations.  Each has the conditions under which it        *)
(* reaches appendLocked and the record it appends.                         *)

AuthorizeRecord(c, n) ==
    [phase |-> "authorize", call |-> c, run |-> None, outcome |-> "allowed", size |-> n]

(* Fault: only calls in flight are protected from a replay.                *)
FaultyBeginsReplay(c) ==
    /\ pending[c.task] = None
    /\ validateRunControlOwner(c, runOwners)
    /\ validateInferenceScopeOwner(c, pending)
    /\ c.kind = "inference_attempt" /\ InferenceMax > 0 =>
           inferenceCounts[c.grant] < InferenceMax

begins(c) ==
    /\ c.task \notin spent
    /\ validateRunControlOwner(c, runOwners)
    /\ validateInferenceScopeOwner(c, pending)
    /\ c.kind = "inference_attempt" /\ InferenceMax > 0 =>
           inferenceCounts[c.grant] < InferenceMax

Begin(c, n) ==
    LET r == AuthorizeRecord(c, n)
    IN  begins(c) /\ appendLocked(r, pendingReservation(r))

BeginAmbiguous(c, n) ==
    LET r == AuthorizeRecord(c, n)
    IN  begins(c) /\ appendAmbiguous(r, pendingReservation(r))

DispatchRecord(c, run, n) ==
    [phase |-> "dispatch", call |-> c, run |-> run, outcome |-> "responded", size |-> n]

dispatches(r) ==
    /\ validateEvent(r)
    /\ pending[r.call.task] # None
    /\ validateTransition(pending[r.call.task], r)
    /\ validateRunControlOwner(r.call, runOwners)
    /\ ~runConflict(r, runOwners)

Dispatch(c, run, n) ==
    LET r == DispatchRecord(c, run, n)
    IN  dispatches(r) /\ appendLocked(r, -TerminalReserve)

DispatchAmbiguous(c, run, n) ==
    LET r == DispatchRecord(c, run, n)
    IN  dispatches(r) /\ appendAmbiguous(r, -TerminalReserve)

TerminalRecord(c, run, outcome, n) ==
    [phase |-> "terminal", call |-> c, run |-> run, outcome |-> outcome, size |-> n]

finishes(r) ==
    /\ validateEvent(r)
    /\ pending[r.call.task] # None
    /\ validateTransition(pending[r.call.task], r)

Finish(c, run, outcome, n) ==
    LET r == TerminalRecord(c, run, outcome, n)
    IN  /\ finishes(r)
        /\ appendLocked(r, -pendingReservation(pending[c.task]))

FinishAmbiguous(c, run, outcome, n) ==
    LET r == TerminalRecord(c, run, outcome, n)
    IN  /\ finishes(r)
        /\ appendAmbiguous(r, -pendingReservation(pending[c.task]))

DenyRecord(c, n) ==
    [phase |-> "deny", call |-> c, run |-> None, outcome |-> "denied", size |-> n]

AppendDeny(c, n) ==
    /\ c.kind = "connector_call"
    /\ appendLocked(DenyRecord(c, n), 0)

AppendDenyAmbiguous(c, n) ==
    /\ c.kind = "connector_call"
    /\ appendAmbiguous(DenyRecord(c, n), 0)

-----------------------------------------------------------------------------
(* Stop and reopen.                                                        *)

(* Close, exit or crash: the index is gone, the file stays.                *)
Stop ==
    /\ mode \in {"live", "replay"}
    /\ mode' = "closed"
    /\ pos' = 0
    /\ failed' = FALSE
    /\ ResetIndex
    /\ UNCHANGED <<file, torn>>

(* OpenWithLimits takes the exclusive descriptor lock and verifyFile       *)
(* refuses an incomplete final record.                                     *)
Open ==
    /\ mode = "closed"
    /\ mode' = IF torn THEN "refused" ELSE "replay"
    /\ UNCHANGED <<file, torn, pos, failed, index>>

(* The checks updateHistory and addTenantUsage make on the next line.      *)
replays(r) ==
    /\ CASE r.phase = "authorize" ->
               /\ r.call.task \notin spent
               /\ validateRunControlOwner(r.call, runOwners)
               /\ validateInferenceScopeOwner(r.call, pending)
         [] r.phase = "dispatch" -> dispatches(r)
         [] r.phase = "terminal" -> finishes(r)
         [] OTHER -> TRUE
    /\ tenantBytes[r.call.tenant] + r.size <= Quota[r.call.tenant]

(* One line verified, unless a check or the caller's visit callback        *)
(* refuses it: then OpenWithLimits closes the file and returns an error.   *)
replayVisiting(visited) ==
    /\ mode = "replay"
    /\ pos < Len(file)
    /\ LET r == file[pos + 1]
       IN  IF replays(r) /\ visited
           THEN /\ Index(r)
                /\ tenantBytes' = [tenantBytes EXCEPT ![r.call.tenant] = @ + r.size]
                /\ pos' = pos + 1
                /\ UNCHANGED <<file, torn, mode, failed, reserved>>
           ELSE /\ mode' = "refused"
                /\ UNCHANGED <<file, torn, pos, failed, index>>

ReplayRecord == replayVisiting(TRUE)

(* Every line verified: reserve the remaining records of unfinished calls  *)
(* and return the handle, unless a budget cannot hold them.                *)
OpenComplete ==
    /\ mode = "replay"
    /\ pos = Len(file)
    /\ LET usage == [t \in Tenant |-> tenantBytes[t] + ReservationsFor(pending, {t})]
       IN  IF \A t \in Tenant : usage[t] <= Quota[t]
           THEN /\ mode' = "live"
                /\ tenantBytes' = usage
                /\ reserved' = ReservationsFor(pending, Tenant)
                /\ UNCHANGED <<file, torn, pos, failed, pending, spent, runOwners,
                               inferenceCounts>>
           ELSE /\ mode' = "refused"
                /\ UNCHANGED <<file, torn, pos, failed, index>>

-----------------------------------------------------------------------------
LedgerInit ==
    /\ file = <<>>
    /\ torn = FALSE
    /\ mode = "closed"
    /\ pos = 0
    /\ failed = FALSE
    /\ EmptyIndex

(* The ledger treats an "unsent" terminal as any other failure.            *)
LedgerNext ==
    \/ \E c \in Calls, n \in LineSizes :
          \/ Begin(c, n)
          \/ BeginAmbiguous(c, n)
          \/ AppendDeny(c, n)
          \/ AppendDenyAmbiguous(c, n)
          \/ \E run \in Run :
                \/ Dispatch(c, run, n)
                \/ DispatchAmbiguous(c, run, n)
          \/ \E run \in Run \cup {None}, outcome \in {"responded", "failed"} :
                \/ Finish(c, run, outcome, n)
                \/ FinishAmbiguous(c, run, outcome, n)
    \/ Stop
    \/ Open
    \/ ReplayRecord
    \/ OpenComplete

LedgerSpec == LedgerInit /\ [][LedgerNext]_ledgerVars

-----------------------------------------------------------------------------
(* Type invariant.                                                         *)
TypeOK ==
    /\ file \in Seq(Record)
    /\ torn \in BOOLEAN
    /\ mode \in {"closed", "replay", "live", "refused"}
    /\ pos \in 0..Len(file)
    /\ failed \in BOOLEAN
    /\ pending \in [Task -> Record \cup {None}]
    /\ spent \subseteq Task
    /\ runOwners \in [Grant \X Run -> Calls \cup {None}]
    /\ reserved \in Nat
    /\ tenantBytes \in [Tenant -> Nat]
    /\ inferenceCounts \in [Grant -> Nat]

(* Safety: a task digest is authorized by at most one line of the file,    *)
(* whichever call presents it and however many stops, ambiguous writes and *)
(* reopens lie between (Log.spent, ledger.go:483 and :939).                *)
AuthorizedOnce ==
    \A i, j \in 1..Len(file) :
        /\ file[i].phase = "authorize"
        /\ file[j].phase = "authorize"
        /\ file[i].call.task = file[j].call.task
        => i = j

(* Safety: an authorized call can always be closed.  While the handle is   *)
(* usable, every record an unfinished call may still need fits its         *)
(* tenant's budget at the largest line size, whatever the other calls of   *)
(* the tenant have reserved (Begin's promise, ledger.go:456).              *)
RemainingRecordsFit ==
    Writable =>
        \A t \in Task : pending[t] # None =>
            LET p == pending[t]
                c == p.call
            IN  /\ fits(TerminalRecord(c, None, "failed", TerminalReserve),
                        -pendingReservation(p))
                /\ c.kind = "lifecycle_task" /\ p.phase = "authorize" =>
                      fits(TerminalRecord(c, None, "failed", TerminalReserve),
                           -TerminalReserve)

(* Safety: within a grant one run identifier is accepted for one task; a   *)
(* stop is recorded only against a run already owned by its target.        *)
RunOwnedByOneTask ==
    \A i, j \in 1..Len(file) :
        /\ file[i].phase = "dispatch"
        /\ file[j].phase = "dispatch"
        /\ file[i].call.grant = file[j].call.grant
        /\ file[i].run = file[j].run
        /\ file[i].call.target = None
        => \/ i = j
           \/ file[j].call.target = file[i].call.task /\ i < j

(* Safety: a scoped inference attempt is authorized only between the       *)
(* authorization and the terminal record of its parent task.               *)
ScopedInferenceInsideParent ==
    \A i \in 1..Len(file) :
        /\ file[i].phase = "authorize"
        /\ file[i].call.scope # None
        => /\ \E j \in 1..(i - 1) : /\ file[j].phase = "authorize"
                                     /\ file[j].call.task = file[i].call.scope
                                     /\ file[j].call.permit = file[i].call.scopePermit
           /\ \A j \in 1..(i - 1) : file[j].phase = "terminal" =>
                                        file[j].call.task # file[i].call.scope

(* The abstract specification, read off the complete lines of the file.    *)
Spends(t) == {i \in 1..Len(file) : file[i].phase = "authorize" /\ file[i].call.task = t}
Accepts(t) == {i \in 1..Len(file) : file[i].phase = "dispatch" /\ file[i].call.task = t}

holderBar == [t \in Task |-> IF Spends(t) = {} THEN None ELSE file[CHOOSE i \in Spends(t) : TRUE].call]
runBar == [t \in Task |-> IF Accepts(t) = {} THEN None ELSE file[CHOOSE i \in Accepts(t) : TRUE].run]
closedBar == {t \in Task : \E i \in 1..Len(file) : file[i].phase = "terminal" /\ file[i].call.task = t}

Custody == INSTANCE TaskCustody WITH holder <- holderBar, run <- runBar, closed <- closedBar

(* Refinement: every step of the ledger, stops, reopens and in-doubt lines *)
(* included, is a step of TaskCustody or leaves custody unchanged.         *)
CustodySpec == Custody!Spec

=============================================================================
