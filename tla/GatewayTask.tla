----------------------------- MODULE GatewayTask -----------------------------
(***************************************************************************)
(* Gateway's service tasks (internal/gateway: task.go, task_stop.go,       *)
(* task_observation.go) and inference attempts (inference_receipts.go,     *)
(* inference_scope.go) on top of the receipt ledger.                       *)
(*                                                                         *)
(* A task request reserves its task in memory, spends it in the ledger,    *)
(* contacts the agent service once and records the run the service         *)
(* accepted or a failure.  An observer later polls the accepted run and    *)
(* records its end.  serviceTaskMutationMu is held from the reservation to *)
(* the end of the append and by every other change of a task; Server.mu is *)
(* held within a step; taskObservationCommitMu keeps a grant from being      *)
(* revoked while an observer commits.  Inference attempts use the same ledger      *)
(* without these locks.  Permit time is abstracted: any permit may turn    *)
(* out expired.                                                            *)
(***************************************************************************)
EXTENDS GatewayGrants

CONSTANTS
    Handler,   \* requests that may be in flight together
    MaxStops   \* bound: Gateway crashes and exits

Pc == {"submitted", "reserved", "rejected", "begun", "dispatching", "contacted", "closing",
       "observing", "polling", "reported", "committing", "ended", "attempting", "calling"}

Terminals == {"open", "responded", "failed", "unsent"}

(* A request in flight: where it is, its call, the grant's lease it began  *)
(* under and the outcome it is about to record.                            *)
Request == [pc : Pc, call : Calls, lease : Nat, outcome : Terminals]

(* serviceTaskReceipt.  doubt stands for authorizationAmbiguous,           *)
(* dispatchAmbiguous and terminalUnavailable: lifecycleStatus reports      *)
(* evidence_unavailable for each of them.                                  *)
Receipt ==
    [call : Calls, run : Run \cup {None}, terminal : Terminals, doubt : BOOLEAN,
     observing : BOOLEAN]

ASSUME TaskAssumption ==
    /\ MaxStops \in Nat
    /\ None \notin Handler \cup Request \cup Receipt
    /\ \A c \in Calls : c.kind \in {"lifecycle_task", "inference_attempt"}

VARIABLES
    serviceTasks, \* Server.serviceTasks; serviceTaskPermits is its inverse
    mutation,     \* the request holding serviceTaskMutationMu, or None
    handlers,     \* the requests in flight
    serving,      \* Open has returned the server
    effects,      \* history: contacts of the service for each task
    stops

taskVars == <<grantVars, serviceTasks, mutation, handlers, serving, effects, stops>>
vars == <<ledgerVars, taskVars>>

-----------------------------------------------------------------------------
receipt(c) ==
    [call |-> c, run |-> None, terminal |-> "open", doubt |-> FALSE, observing |-> FALSE]

at(h, pc) == handlers[h] # None /\ handlers[h].pc = pc
goto(h, pc) == handlers' = [handlers EXCEPT ![h].pc = pc]
return(h) == handlers' = [handlers EXCEPT ![h] = None]
enter(h, pc, c, outcome) ==
    handlers' = [handlers EXCEPT ![h] =
                     [pc |-> pc, call |-> c, lease |-> revocations[c.grant], outcome |-> outcome]]

callOf(h) == handlers[h].call
taskOf(h) == handlers[h].call.task

doubted(t) == serviceTasks' = [serviceTasks EXCEPT ![t].doubt = TRUE]

(* serviceTaskPermits: the tasks a permit is bound to.                     *)
boundTo(permit) ==
    {t \in Task : serviceTasks[t] # None /\ serviceTasks[t].call.permit = permit}

(* The ledger operation returned an error without writing.                 *)
rejected(checked, r, delta) ==
    /\ ~(checked /\ Writable /\ fits(r, delta))
    /\ UNCHANGED ledgerVars

(* linkStopTask: a stop names the open or finished task that owns the run. *)
linkStopTask(c) ==
    c.target # None =>
        LET parent == serviceTasks[c.target]
        IN  /\ parent # None
            /\ parent.run = c.targetRun
            /\ parent.call.target = None
            /\ parent.call.grant = c.grant
            /\ parent.call.tenant = c.tenant
            /\ parent.call.workload = c.workload
            /\ parent.call.authority = c.authority

-----------------------------------------------------------------------------
(* Executor's calls.  A revocation waits for an observer that commits.     *)
ExecutorStep(g) ==
    /\ serving
    /\ \/ Register(g)
       \/ Activate(g)
       \/ /\ ~\E h \in Handler : at(h, "committing")
          /\ Deactivate(g) \/ Unregister(g)
    /\ UNCHANGED <<ledgerVars, serviceTasks, mutation, handlers, serving, effects, stops>>

-----------------------------------------------------------------------------
(* A task request (proxyServiceTask).  A request for a known permit only   *)
(* reads, as Reserve does when the task exists.                            *)
Submit(h, c) ==
    /\ serving
    /\ handlers[h] = None
    /\ c.kind = "lifecycle_task"
    /\ active(c.grant)
    /\ c.target # None => mutation = None
    /\ linkStopTask(c)
    /\ enter(h, "submitted", c, "open")
    /\ UNCHANGED <<ledgerVars, grantVars, serviceTasks, mutation, serving, effects, stops>>

(* beginServiceTask up to the ledger: a task or permit already known, or a *)
(* failed ledger, ends the request; otherwise the task is reserved.        *)
Reserve(h) ==
    /\ at(h, "submitted")
    /\ mutation = None
    /\ LET c == callOf(h)
       IN  IF serviceTasks[c.task] = None /\ boundTo(c.permit) = {} /\ ~failed
           THEN /\ serviceTasks' = [serviceTasks EXCEPT ![c.task] = receipt(c)]
                /\ mutation' = h
                /\ goto(h, "reserved")
           ELSE return(h) /\ UNCHANGED <<serviceTasks, mutation>>
    /\ UNCHANGED <<ledgerVars, grantVars, serving, effects, stops>>

(* Fault: an ambiguous append counts as a spend.                           *)
FaultyBegin(h) ==
    /\ at(h, "reserved")
    /\ LET c == callOf(h)
       IN  \E n \in LineSizes : Begin(c, n) \/ BeginAmbiguous(c, n)
    /\ goto(h, "begun")
    /\ mutation' = None
    /\ UNCHANGED <<serviceTasks, grantVars, serving, effects, stops>>

(* ledger.Begin.  After an error Failed() decides between an ambiguous     *)
(* authorization, which stays, and a reservation to take back.             *)
BeginTask(h) ==
    /\ at(h, "reserved")
    /\ LET c == callOf(h)
       IN  \E n \in LineSizes :
             LET r == AuthorizeRecord(c, n)
             IN  \/ /\ Begin(c, n)
                    /\ goto(h, "begun")
                    /\ mutation' = None
                    /\ UNCHANGED serviceTasks
                 \/ /\ BeginAmbiguous(c, n)
                    /\ return(h)
                    /\ mutation' = None
                    /\ doubted(c.task)
                 \/ /\ rejected(begins(c), r, pendingReservation(r))
                    /\ goto(h, "rejected")
                    /\ UNCHANGED <<mutation, serviceTasks>>
    /\ UNCHANGED <<grantVars, serving, effects, stops>>

(* Failed() may already see the failed append of another request.          *)
SettleRejection(h) ==
    /\ at(h, "rejected")
    /\ IF failed THEN doubted(taskOf(h))
                 ELSE serviceTasks' = [serviceTasks EXCEPT ![taskOf(h)] = None]
    /\ mutation' = None
    /\ return(h)
    /\ UNCHANGED <<ledgerVars, grantVars, serving, effects, stops>>

(* Fault: a permit found expired after the contact is reported the same.   *)
FaultyRecheck(h) ==
    /\ \/ at(h, "begun") /\ active(callOf(h).grant) /\ goto(h, "dispatching")
       \/ /\ at(h, "contacted")
          /\ handlers' = [handlers EXCEPT ![h].pc = "closing", ![h].outcome = "unsent"]
    /\ UNCHANGED <<ledgerVars, grantVars, serviceTasks, mutation, serving, effects, stops>>

(* The permit's time window and the grant are checked again after the      *)
(* append, which may have been slow.                                       *)
Recheck(h) ==
    /\ at(h, "begun")
    /\ \/ active(callOf(h).grant) /\ goto(h, "dispatching")
       \/ handlers' = [handlers EXCEPT ![h].pc = "closing", ![h].outcome = "unsent"]
    /\ UNCHANGED <<ledgerVars, grantVars, serviceTasks, mutation, serving, effects, stops>>

(* Fault: the service is contacted while the append is in flight.          *)
FaultyContact(h) ==
    /\ at(h, "reserved")
    /\ goto(h, "contacted")
    /\ effects' = [effects EXCEPT ![taskOf(h)] = @ + 1]
    /\ UNCHANGED <<ledgerVars, grantVars, serviceTasks, mutation, serving, stops>>

(* dispatchServiceTask sends the request once.                             *)
Contact(h) ==
    /\ at(h, "dispatching")
    /\ goto(h, "contacted")
    /\ effects' = [effects EXCEPT ![taskOf(h)] = @ + 1]
    /\ UNCHANGED <<ledgerVars, grantVars, serviceTasks, mutation, serving, stops>>

(* The service accepted the task as run: recordServiceTaskDispatch.  A run *)
(* owned by another task, or a stop answered with another run, is closed   *)
(* as failed.                                                              *)
Accept(h, run) ==
    /\ at(h, "contacted")
    /\ mutation = None
    /\ LET c == callOf(h)
       IN  \E n \in LineSizes :
             LET r == DispatchRecord(c, run, n)
             IN  \/ /\ Dispatch(c, run, n)
                    /\ serviceTasks' = [serviceTasks EXCEPT ![c.task].run = run]
                    /\ return(h)
                 \/ /\ DispatchAmbiguous(c, run, n)
                    /\ doubted(c.task)
                    /\ return(h)
                 \/ /\ rejected(dispatches(r), r, -TerminalReserve)
                    /\ IF failed
                       THEN doubted(c.task) /\ return(h)
                       ELSE /\ handlers' = [handlers EXCEPT ![h].pc = "closing",
                                                            ![h].outcome = "failed"]
                            /\ UNCHANGED serviceTasks
    /\ UNCHANGED <<grantVars, mutation, serving, effects, stops>>

(* No usable answer: transport error, rejection, or no run identifier.     *)
Refuse(h) ==
    /\ at(h, "contacted")
    /\ handlers' = [handlers EXCEPT ![h].pc = "closing", ![h].outcome = "failed"]
    /\ UNCHANGED <<ledgerVars, grantVars, serviceTasks, mutation, serving, effects, stops>>

reservedFor(t) == IF pending[t] = None THEN 0 ELSE pendingReservation(pending[t])

(* Fault: the outcome is kept in memory whether or not it was recorded.    *)
FaultyFinish(c, run, outcome) ==
    /\ \E n \in LineSizes :
          Finish(c, run, outcome, n) \/ FinishAmbiguous(c, run, outcome, n)
    /\ serviceTasks' = [serviceTasks EXCEPT ![c.task].terminal = outcome]

(* finishServiceTask: the end of the task, or terminalUnavailable.         *)
finishServiceTask(c, run, outcome) ==
    \E n \in LineSizes :
        LET r == TerminalRecord(c, run, outcome, n)
        IN  \/ /\ Finish(c, run, outcome, n)
               /\ serviceTasks' = [serviceTasks EXCEPT ![c.task].terminal = outcome]
            \/ /\ \/ FinishAmbiguous(c, run, outcome, n)
                  \/ rejected(finishes(r), r, -reservedFor(c.task))
               /\ doubted(c.task)

CloseTask(h) ==
    /\ at(h, "closing")
    /\ mutation = None
    /\ finishServiceTask(callOf(h), None, handlers[h].outcome)
    /\ return(h)
    /\ UNCHANGED <<grantVars, mutation, serving, effects, stops>>

-----------------------------------------------------------------------------
(* An observation of an accepted run (observeTaskLifecycle).  outcome is   *)
(* the terminal state the observer found, lease the grant's lease.         *)
Observe(h, t) ==
    /\ serving
    /\ mutation = None
    /\ handlers[h] = None
    /\ LET state == serviceTasks[t]
       IN  /\ state # None
           /\ ~state.doubt
           /\ state.run # None
           /\ state.terminal \in {"open", "responded"}
           /\ state.terminal = "open" => ~failed
           /\ ~state.observing
           /\ active(state.call.grant)
           /\ serviceTasks' = [serviceTasks EXCEPT ![t].observing = TRUE]
           /\ enter(h, "observing", state.call, state.terminal)
    /\ UNCHANGED <<ledgerVars, grantVars, mutation, serving, effects, stops>>

(* taskObservationStillActiveLocked.                                       *)
stillActive(h) ==
    LET c == callOf(h)
    IN  /\ handlers[h].lease = revocations[c.grant]
        /\ serviceTasks[c.task] # None
        /\ serviceTasks[c.task].call = c
        /\ serviceTasks[c.task].terminal = handlers[h].outcome
        /\ serviceTasks[c.task].observing
        /\ active(c.grant)

(* The service semaphore may be busy, the authority gone.                  *)
StartPoll(h) ==
    /\ at(h, "observing")
    /\ \/ stillActive(h) /\ goto(h, "polling")
       \/ goto(h, "ended")
    /\ UNCHANGED <<ledgerVars, grantVars, serviceTasks, mutation, serving, effects, stops>>

(* The agent answers: the run ended, or nothing to record (an error, a run *)
(* in progress, or the result of a task already terminal).                 *)
Polled(h) ==
    /\ at(h, "polling")
    /\ \/ handlers[h].outcome = "open" /\ goto(h, "reported")
       \/ goto(h, "ended")
    /\ UNCHANGED <<ledgerVars, grantVars, serviceTasks, mutation, serving, effects, stops>>

(* commitTaskObservation takes the reader side of the barrier and checks   *)
(* its authority ...                                                       *)
CommitCheck(h) ==
    /\ at(h, "reported")
    /\ IF stillActive(h) THEN goto(h, "committing") ELSE goto(h, "ended")
    /\ UNCHANGED <<ledgerVars, grantVars, serviceTasks, mutation, serving, effects, stops>>

(* ... and records the end of the run.                                     *)
CommitTerminal(h) ==
    /\ at(h, "committing")
    /\ mutation = None
    /\ finishServiceTask(callOf(h), serviceTasks[taskOf(h)].run, "responded")
    /\ goto(h, "ended")
    /\ UNCHANGED <<grantVars, mutation, serving, effects, stops>>

(* finishTaskObservation, deferred on every path.                          *)
FinishObservation(h) ==
    /\ at(h, "ended")
    /\ serviceTasks' = [serviceTasks EXCEPT ![taskOf(h)].observing = FALSE]
    /\ return(h)
    /\ UNCHANGED <<ledgerVars, grantVars, mutation, serving, effects, stops>>

-----------------------------------------------------------------------------
(* An inference attempt.  inferenceTaskScope checks the parent task under  *)
(* Server.mu; the attempt's own digest is a fresh nonce.                   *)
inferenceTaskScope(c) ==
    c.scope # None =>
        LET parent == serviceTasks[c.scope]
        IN  /\ parent # None
            /\ parent.terminal = "open"
            /\ ~parent.doubt
            /\ parent.call.target = None
            /\ parent.call.permit = c.scopePermit
            /\ parent.call.grant = c.grant
            /\ parent.call.tenant = c.tenant
            /\ parent.call.workload = c.workload

AttemptInference(h, c) ==
    /\ serving
    /\ handlers[h] = None
    /\ c.kind = "inference_attempt"
    /\ active(c.grant)
    /\ inferenceTaskScope(c)
    /\ ~\E i \in 1..Len(file) : file[i].call.task = c.task
    /\ ~\E k \in Handler : handlers[k] # None /\ taskOf(k) = c.task
    /\ enter(h, "attempting", c, "open")
    /\ UNCHANGED <<ledgerVars, grantVars, serviceTasks, mutation, serving, effects, stops>>

(* RoundTrip: the attempt is spent, then the provider is called.           *)
BeginAttempt(h) ==
    /\ at(h, "attempting")
    /\ LET c == callOf(h)
       IN  \E n \in LineSizes :
             LET r == AuthorizeRecord(c, n)
             IN  \/ Begin(c, n) /\ goto(h, "calling")
                 \/ BeginAmbiguous(c, n) /\ return(h)
                 \/ rejected(begins(c), r, pendingReservation(r)) /\ return(h)
    /\ UNCHANGED <<grantVars, serviceTasks, mutation, serving, effects, stops>>

FinishAttempt(h) ==
    /\ at(h, "calling")
    /\ LET c == callOf(h)
       IN  \E n \in LineSizes, outcome \in {"responded", "failed"} :
             LET r == TerminalRecord(c, None, outcome, n)
             IN  \/ Finish(c, None, outcome, n)
                 \/ FinishAmbiguous(c, None, outcome, n)
                 \/ rejected(finishes(r), r, -reservedFor(c.task))
    /\ return(h)
    /\ UNCHANGED <<grantVars, serviceTasks, mutation, serving, effects, stops>>

-----------------------------------------------------------------------------
(* Stop and start.                                                         *)

lost ==
    /\ Stop
    /\ serviceTasks' = [t \in Task |-> None]
    /\ mutation' = None
    /\ handlers' = [h \in Handler |-> None]
    /\ serving' = FALSE
    /\ loadExisting
    /\ UNCHANGED effects

Crash ==
    /\ stops < MaxStops
    /\ stops' = stops + 1
    /\ lost

Start == Open /\ UNCHANGED taskVars

(* connectorReceiptIndex.visit rebuilds the tasks and refuses a permit     *)
(* bound to two of them.                                                   *)
VisitRecord ==
    /\ mode = "replay"
    /\ pos < Len(file)
    /\ LET r == file[pos + 1]
           t == r.call.task
           visited == r.call.kind = "lifecycle_task" /\ r.phase = "authorize" =>
                          boundTo(r.call.permit) \subseteq {t}
       IN  /\ replayVisiting(visited)
           /\ serviceTasks' =
                  IF r.call.kind = "lifecycle_task" /\ replays(r) /\ visited
                  THEN CASE r.phase = "authorize" -> [serviceTasks EXCEPT ![t] = receipt(r.call)]
                         [] r.phase = "dispatch" -> [serviceTasks EXCEPT ![t].run = r.run]
                         [] OTHER -> [serviceTasks EXCEPT ![t].terminal = r.outcome]
                  ELSE serviceTasks
    /\ UNCHANGED <<grantVars, mutation, handlers, serving, effects, stops>>

FinishOpen == OpenComplete /\ UNCHANGED taskVars

(* An accepted run stays open for observation.                             *)
resumable(p) == p.call.kind = "lifecycle_task" /\ p.phase = "dispatch"

(* openConnectorReceiptLedger closes every other call the previous process *)
(* left open as failed with outcome_unknown.                               *)
CloseIncomplete(t) ==
    /\ mode = "live"
    /\ ~serving
    /\ pending[t] # None
    /\ ~resumable(pending[t])
    /\ LET c == pending[t].call
       IN  \E n \in LineSizes :
             \/ /\ Finish(c, None, "failed", n)
                /\ serviceTasks' = IF c.kind = "lifecycle_task"
                                   THEN [serviceTasks EXCEPT ![t].terminal = "failed"]
                                   ELSE serviceTasks
             \/ FinishAmbiguous(c, None, "failed", n) /\ UNCHANGED serviceTasks
    /\ UNCHANGED <<grantVars, mutation, handlers, serving, effects, stops>>

(* An error while closing: Open returns it and the process exits.          *)
AbandonStart ==
    /\ mode = "live"
    /\ ~serving
    /\ failed
    /\ lost
    /\ UNCHANGED stops

Serve ==
    /\ Writable
    /\ ~serving
    /\ \A t \in Task : pending[t] # None => resumable(pending[t])
    /\ serving' = TRUE
    /\ UNCHANGED <<ledgerVars, grantVars, serviceTasks, mutation, handlers, effects, stops>>

-----------------------------------------------------------------------------
Init ==
    /\ LedgerInit
    /\ GrantsInit
    /\ serviceTasks = [t \in Task |-> None]
    /\ mutation = None
    /\ handlers = [h \in Handler |-> None]
    /\ serving = FALSE
    /\ effects = [t \in Task |-> 0]
    /\ stops = 0

Arrive(h) ==
    \/ \E c \in Calls : Submit(h, c) \/ AttemptInference(h, c)
    \/ \E t \in Task : Observe(h, t)

(* Steps of a request after its arrival.                                   *)
HandlerStep(h) ==
    \/ Reserve(h)
    \/ BeginTask(h)
    \/ SettleRejection(h)
    \/ Recheck(h)
    \/ Contact(h)
    \/ \E run \in Run : Accept(h, run)
    \/ Refuse(h)
    \/ CloseTask(h)
    \/ StartPoll(h)
    \/ Polled(h)
    \/ CommitCheck(h)
    \/ CommitTerminal(h)
    \/ FinishObservation(h)
    \/ BeginAttempt(h)
    \/ FinishAttempt(h)

StartStep ==
    \/ Start
    \/ VisitRecord
    \/ FinishOpen
    \/ \E t \in Task : CloseIncomplete(t)
    \/ AbandonStart
    \/ Serve

Next ==
    \/ \E g \in Grant : ExecutorStep(g)
    \/ \E h \in Handler : Arrive(h) \/ HandlerStep(h)
    \/ Crash
    \/ StartStep

Spec == Init /\ [][Next]_vars

-----------------------------------------------------------------------------
(* Type invariant.                                                         *)
TaskTypeOK ==
    /\ TypeOK
    /\ GrantsTypeOK
    /\ serviceTasks \in [Task -> Receipt \cup {None}]
    /\ mutation \in Handler \cup {None}
    /\ handlers \in [Handler -> Request \cup {None}]
    /\ serving \in BOOLEAN
    /\ effects \in [Task -> Nat]
    /\ stops \in 0..MaxStops

recorded(t, phase) == {i \in 1..Len(file) : file[i].call.task = t /\ file[i].phase = phase}

(* Safety: the agent service is contacted at most once for a task, whatever*)
(* copies of the request, ambiguous appends and restarts surround it, and  *)
(* however the same task identity is presented with another permit         *)
(* (beginServiceTask, task.go:349).                                        *)
TaskContactedOnce == \A t \in Task : effects[t] <= 1

(* Safety: a task reported as safe to replace (terminal permit_expired or  *)
(* grant_revoked, taskFailureRetrySafety) has not been and never will be   *)
(* contacted: no request still holds it short of its contact               *)
(* (task.go:114-123).                                                      *)
ReplacementSafe ==
    \A t \in Task : \A i \in recorded(t, "terminal") :
        file[i].outcome = "unsent" =>
            /\ effects[t] = 0
            /\ ~\E h \in Handler : handlers[h] # None /\ taskOf(h) = t
                                   /\ handlers[h].pc \in {"begun", "dispatching", "contacted"}

(* What Gateway reports of task t (lifecycleStatus) is on disk.            *)
reportedRecorded(t) ==
    LET state == serviceTasks[t]
    IN  /\ \E i \in recorded(t, "authorize") : file[i].call = state.call
        /\ state.run # None <=> recorded(t, "dispatch") # {}
        /\ \A i \in recorded(t, "dispatch") : file[i].run = state.run
        /\ state.terminal # "open" <=> recorded(t, "terminal") # {}
        /\ \A i \in recorded(t, "terminal") : file[i].outcome = state.terminal

(* Safety: outside the append of its authorization, a task's status in     *)
(* memory is what the disk records, or is marked as in doubt; a task       *)
(* absent from memory was never recorded (task.go:391-419).                *)
StatusMatchesLedger ==
    serving =>
        \A t \in Task :
            IF serviceTasks[t] = None
            THEN \A i \in recorded(t, "authorize") : file[i].call.kind # "lifecycle_task"
            ELSE \/ serviceTasks[t].doubt
                 \/ mutation # None /\ taskOf(mutation) = t
                 \/ reportedRecorded(t)

=============================================================================
