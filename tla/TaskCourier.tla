----------------------------- MODULE TaskCourier -----------------------------
(***************************************************************************)
(* Control's courier for signed tasks (controlstore/task_requests.go), its *)
(* schedules (task_schedules.go) and workroom sessions (workrooms.go), the *)
(* node's task poller (executoruplink/task_poller.go) and, from how these  *)
(* use it, the node's Gateway.                                             *)
(*                                                                         *)
(* Every store call runs under one mutex and is one transaction.  A poll   *)
(* makes at most one scheduled run into a task, returns expired leases,    *)
(* and leases what is due; the poller then submits or observes one task    *)
(* after the other at Gateway and reports each.  A poll's answer or a      *)
(* report may be lost, a report may arrive after the poller gave up on it, *)
(* and the poller may stop between any two steps.                          *)
(*                                                                         *)
(* A permit, with the request it signs, stands for the task it names:      *)
(* <<0, t>> is a task submitted by itself, <<s, k>> run k of schedule s.   *)
(* Times are ticks; Control and Gateway read the same clock.               *)
(***************************************************************************)
EXTENDS Integers, FiniteSets, Sequences

CONSTANTS
    None,
    Cases,         \* the workloads considered; see CasesAssumption
    MaxSchedules,  \* MaxTaskSchedulesPerTenant
    MaxSession,    \* MaxWorkroomTasksPerSession
    Batch,         \* taskPollBatch
    LeaseTime, ObservationDelay,
    MaxTime,       \* bound: the last tick, after every deadline
    Ends           \* how a run may end

VARIABLES
    case,      \* the workload of this behaviour; never changes
    task,      \* per task: its storedTaskRequest, or None
    sched,     \* per schedule: its storedTaskSchedule, or None
    session,   \* the workroom session: its state and task IDs, or None
    node,      \* what Control and Gateway know of the target
    batch,     \* the poller's deliveries not yet reported
    sent,      \* the report the poller waits for, or None
    reports,   \* reports under way
    run,       \* per task: Gateway's record of it
    made,      \* history: how often each task was entered
    now,
    events     \* operator actions and faults so far

\* A case names the deadlines of the tasks, the due time of each run of each
\* schedule, the window, the concurrency and the overlap policy, the schedules
\* (0 for the plain tasks) that belong to the session, the room for tasks
\* (MaxTaskRequestsPerTenant), and two bounds: how many events of which kinds
\* happen and how many reports are under way.
ASSUME CasesAssumption ==
    /\ \A w \in Cases :
          /\ \A t \in DOMAIN w.deadline : w.deadline[t] \in 1 .. MaxTime
          /\ \A s \in DOMAIN w.due :
                \A k \in DOMAIN w.due[s] : w.due[s][k] + w.window \in 1 .. MaxTime
          /\ w.concurrency \in Nat \ {0} /\ w.window \in Nat \ {0}
          /\ w.overlap \in {"skip", "queue"} /\ w.maxEvents \in Nat
          /\ w.maxReports \in Nat \ {0} /\ w.maxTasks \in Nat \ {0}
          /\ w.inSession \subseteq {0} \cup DOMAIN w.due
    /\ LeaseTime \in Nat \ {0} /\ ObservationDelay \in Nat \ {0}

vars == <<case, task, sched, session, node, batch, sent, reports, run, made, now, events>>
storeVars == <<task, sched, session, made>>
nodeVars == <<batch, sent, reports, run>>

Tasks == {0} \X DOMAIN case.deadline
Schedules == DOMAIN case.due
RunCount(s) == Len(case.due[s])
Work == Tasks \cup UNION {{s} \X (1 .. RunCount(s)) : s \in Schedules}
Deadline(w) == IF w[1] = 0 THEN case.deadline[w[2]] ELSE case.due[w[1]][w[2]] + case.window
InSession(w) == w[1] \in case.inSession

\* The task record.  tried is DispatchAttempts > 0, digest a known TaskDigest,
\* until LeaseUntil, next NextObservation, may OutcomeMayContinue.
queued == [state |-> "queued", resume |-> None, action |-> None, until |-> None, next |-> None,
           gen |-> 0, tried |-> FALSE, digest |-> FALSE, may |-> FALSE]

Init ==
    /\ case \in Cases
    /\ task = [w \in Work |-> None]
    /\ sched = [s \in Schedules |-> None]
    /\ session = [state |-> "active", tasks |-> {}]
    /\ node = [target |-> TRUE, grant |-> TRUE, quarantined |-> FALSE]
    /\ batch = <<>> /\ sent = None /\ reports = {}
    /\ run = [w \in Work |-> "none"]
    /\ made = [w \in Work |-> 0]
    /\ now = 0 /\ events = 0

\* Operator actions beyond the submissions, and faults, are counted.
Event(kind) ==
    /\ kind \in case.events /\ events < case.maxEvents
    /\ events' = events + 1

-----------------------------------------------------------------------------
(* The task store. *)

taskTerminal(x) ==
    x.state \in {"completed", "failed", "cancelled", "deadline_exceeded", "outcome_unknown"}

Retained == {w \in Work : task[w] # None}

\* Mutant: any terminal record may go.
FaultyEvictable == {w \in Retained : taskTerminal(task[w])}

\* A terminal record is the replay fence of its permit while that is valid.
evictable == {w \in Retained : taskTerminal(task[w]) /\ now >= Deadline(w)}

\* The sets of records a new one may push out; none if there is no room.
taskCapacityMutations ==
    IF Cardinality(Retained) < case.maxTasks THEN {{}} ELSE {{w} : w \in evictable}

\* The rule of validateState about tasks of a workroom.
validateState(records, s) ==
    \A w \in Work : records[w] # None /\ InSession(w) => s # None /\ w \in s.tasks

\* The store after a task entered it, and its session.
Entered(w, gone, scheds) ==
    [task |-> [v \in Work |-> IF v = w THEN queued ELSE IF v \in gone THEN None ELSE task[v]],
     sched |-> scheds,
     session |-> IF InSession(w) THEN [session EXCEPT !.tasks = @ \cup {w}] ELSE session,
     made |-> [made EXCEPT ![w] = @ + 1]]

taskTargetExists == node.target

sessionOpen ==
    session # None /\ session.state = "active" /\ Cardinality(session.tasks) < MaxSession

SubmitTaskRequest(t) ==
    /\ now < Deadline(t)
    /\ taskTargetExists
    /\ task[t] = None
    /\ InSession(t) => sessionOpen
    /\ \E gone \in taskCapacityMutations :
          LET after == Entered(t, gone, sched) IN
          task' = after.task /\ session' = after.session /\ made' = after.made
    /\ UNCHANGED <<case, sched, node, nodeVars, now, events>>

CancelTaskRequest(w) ==
    /\ task[w] # None /\ ~taskTerminal(task[w])
    /\ task' = [task EXCEPT ![w] =
          IF @.state = "queued" /\ ~@.tried THEN [@ EXCEPT !.state = "cancelled"]
          ELSE IF @.state = "queued" THEN [@ EXCEPT !.state = "outcome_unknown", !.may = TRUE]
          ELSE [@ EXCEPT !.state = "cancel_requested",
                         !.resume = IF task[w].until # None THEN "cancel_requested" ELSE @,
                         !.may = task[w].digest \/ task[w].action = "submit"]]
    /\ Event("cancel")
    /\ UNCHANGED <<case, sched, session, made, node, nodeVars, now>>

\* The lease is over: the task resumes as it was, unless it was a cancelled
\* submission.
leaseReturned(x) ==
    IF x.until = None \/ x.until > now THEN x
    ELSE [x EXCEPT !.state = IF x.resume = "cancel_requested" /\ x.action = "submit"
                             THEN "outcome_unknown" ELSE x.resume,
                   !.may = @ \/ (x.resume = "cancel_requested" /\ x.action = "submit"),
                   !.until = None, !.action = None, !.resume = None]

\* Mutant: an expired lease is returned, an expired permit goes unnoticed.
FaultyDeadline(x, w) == leaseReturned(x)

normalizeTaskForPoll(x, w) ==
    LET y == leaseReturned(x) IN
    IF taskTerminal(y) \/ now < Deadline(w) THEN y
    ELSE [y EXCEPT !.state = "deadline_exceeded",
                   !.may = @ \/ y.digest \/ y.tried \/ y.action = "submit",
                   !.until = None, !.action = None, !.resume = None, !.next = None]

-----------------------------------------------------------------------------
(* Schedules. *)

\* The oldest schedule makes room for a new one, if it is no longer active.
taskScheduleRetentionEvictions ==
    LET kept == {r \in Schedules : sched[r] # None} IN
    IF Cardinality(kept) < MaxSchedules THEN {{}}
    ELSE {{r} : r \in {q \in kept : /\ sched[q].state # "active"
                                    /\ \A p \in kept : sched[q].created <= sched[p].created}}

CreateTaskSchedule(s) ==
    /\ now < Deadline(<<s, RunCount(s)>>)
    /\ taskTargetExists
    /\ s \in case.inSession => session # None /\ session.state = "active"
    /\ sched[s] = None
    /\ \E gone \in taskScheduleRetentionEvictions :
          sched' = [r \in Schedules |-> IF r = s THEN [state |-> "active", next |-> 1, created |-> now]
                                        ELSE IF r \in gone THEN None ELSE sched[r]]
    /\ UNCHANGED <<case, task, session, made, node, nodeVars, now, events>>

CancelTaskSchedule(s) ==
    /\ sched[s] # None /\ sched[s].state = "active"
    /\ sched' = [sched EXCEPT ![s].state = "cancelled"]
    /\ Event("cancelSchedule")
    /\ UNCHANGED <<case, task, session, made, node, nodeVars, now>>

activeScheduleTasks(s) ==
    Cardinality({k \in 1 .. RunCount(s) : task[<<s, k>>] # None /\ ~taskTerminal(task[<<s, k>>])})

full(s) == activeScheduleTasks(s) >= case.concurrency

\* advanceTaskSchedule passes over missed runs and, under "skip", over runs
\* that would overlap; first is where it stops.
passedOver(s, k) ==
    /\ k <= RunCount(s)
    /\ \/ now >= Deadline(<<s, k>>)
       \/ now >= case.due[s][k] /\ full(s) /\ case.overlap = "skip"

first(s) ==
    CHOOSE k \in sched[s].next .. RunCount(s) + 1 :
       /\ ~passedOver(s, k)
       /\ \A j \in sched[s].next .. k - 1 : passedOver(s, j)

dueRun(s) == first(s) <= RunCount(s) /\ now >= case.due[s][first(s)] /\ ~full(s)

advanced(s) == dueRun(s) \/ first(s) > sched[s].next

\* The schedules after finishTaskSchedule with next ordinal n.
advancedTo(s, n) ==
    [sched EXCEPT ![s].state = IF n > RunCount(s) THEN "completed" ELSE "active", ![s].next = n]

\* What materializing schedule s may leave in the store.  A run whose record is
\* still there is only counted; one without target or without room in its
\* session is passed over; without room in the courier there is no outcome.
materialized(s) ==
    LET k == first(s)
        w == <<s, k>>
        kept(n) == [task |-> task, sched |-> advancedTo(s, n), session |-> session, made |-> made]
    IN  IF ~dueRun(s) THEN {kept(k)}
        ELSE IF task[w] # None
        THEN {[kept(k + 1) EXCEPT !.task = [v \in Work |-> IF v \in gone THEN None ELSE @[v]]] :
                 gone \in taskCapacityMutations}
        ELSE IF ~taskTargetExists \/ (InSession(w) /\ ~sessionOpen) THEN {kept(k + 1)}
        ELSE {Entered(w, gone, advancedTo(s, k + 1)) : gone \in taskCapacityMutations}

\* materializeDueTaskSchedule: the first schedule, by key, with something due.
materializeDueTaskSchedule ==
    LET due == {s \in Schedules : sched[s] # None /\ sched[s].state = "active" /\ advanced(s)}
    IN  IF due = {} THEN {[task |-> task, sched |-> sched, session |-> session, made |-> made]}
        ELSE materialized(CHOOSE s \in due : \A r \in due : s <= r)

-----------------------------------------------------------------------------
(* Delivery. *)

\* The order of creation is not kept: any order stands for it.
Least(a, b) == IF a < b THEN a ELSE b
orders(ws) == {o \in [1 .. Cardinality(ws) -> ws] : \A i, j \in DOMAIN o : o[i] = o[j] => i = j}

\* The tasks a poll may lease, among the normalized records.
candidates(records) ==
    {w \in Work : /\ records[w] # None
                  /\ records[w].state \in {"queued", "dispatched", "running", "cancel_requested"}
                  /\ records[w].until = None
                  /\ records[w].next # None => records[w].next <= now}

\* Mutant: a submission that was never answered does not count as tried.
FaultyLease(x) ==
    [x EXCEPT !.resume = x.state, !.state = "leased", !.until = now + LeaseTime,
              !.gen = @ + 1, !.action = IF x.digest THEN "observe" ELSE "submit"]

lease(x) ==
    [x EXCEPT !.resume = x.state, !.state = "leased", !.until = now + LeaseTime,
              !.gen = @ + 1, !.action = IF x.digest THEN "observe" ELSE "submit",
              !.tried = @ \/ ~x.digest]

delivery(w, x) == [work |-> w, gen |-> x.gen, action |-> x.action]

settled(records) ==
    [w \in Work |-> IF records[w] = None THEN None ELSE normalizeTaskForPoll(records[w], w)]

\* What a poll may leave in the store, and its answer: as many of the tasks that
\* are due as a batch holds are leased.
leased(m, records) ==
    {[store |-> [m EXCEPT !.task = [w \in Work |-> IF w \in ws THEN lease(records[w]) ELSE records[w]]],
      deliveries |-> ws] :
       ws \in {ws \in SUBSET candidates(records) :
                 Cardinality(ws) = Least(Batch, Cardinality(candidates(records)))}}

PollOutcomes ==
    UNION {UNION {leased(m, records) : records \in {settled(m.task)}} : m \in materializeDueTaskSchedule}

Stored(store) ==
    task' = store.task /\ sched' = store.sched /\ session' = store.session /\ made' = store.made

PollTaskRequests ==
    /\ ~node.quarantined /\ batch = <<>>
    /\ \E o \in PollOutcomes :
          /\ Stored(o.store)
          /\ \E order \in orders(o.deliveries) :
                batch' = [i \in DOMAIN order |-> delivery(order[i], o.store.task[order[i]])]
    /\ UNCHANGED <<case, node, sent, reports, run, now, events>>

\* The answer does not arrive, or Control stops after it stored the run it
\* materialized and before it stored the leases.
LostPoll ==
    /\ ~node.quarantined
    /\ \/ \E o \in PollOutcomes : Stored(o.store)
       \/ \E m \in materializeDueTaskSchedule : Stored(m)
    /\ Event("lose")
    /\ UNCHANGED <<case, node, nodeVars, now>>

\* The record after a report that belongs to its lease.
reported(x, status) ==
    LET asked == x.resume = "cancel_requested"
        y == [x EXCEPT !.until = None, !.action = None, !.resume = None]
    IN  CASE status \in {"accepted", "observed"} ->
               [y EXCEPT !.digest = TRUE, !.next = now + ObservationDelay, !.may = @ \/ asked,
                         !.state = IF asked THEN "cancel_requested"
                                   ELSE IF status = "accepted" THEN "dispatched" ELSE "running"]
          [] status \in Ends -> [y EXCEPT !.digest = TRUE, !.next = None, !.state = status]
          [] status = "retryable" -> [y EXCEPT !.next = now + ObservationDelay, !.state = x.resume]
          [] status = "uncertain" -> [y EXCEPT !.next = None, !.may = TRUE, !.state = "outcome_unknown"]
          [] status = "rejected" -> [y EXCEPT !.next = None, !.state = "failed"]

pastDeadline(x, w) ==
    IF taskTerminal(x) \/ now < Deadline(w) THEN x
    ELSE [x EXCEPT !.state = "deadline_exceeded", !.next = None,
                   !.may = @ \/ x.digest \/ x.tried]

\* The report answers the lease the task is under.  An older one, or one for a
\* task that is terminal or no longer leased, changes nothing.
answers(x, r) == x # None /\ x.until # None /\ r.gen = x.gen

\* ApplyTaskReport, and what the poller makes of its answer: anything but
\* "applied" ends the batch.
ApplyTaskReport(r) ==
    /\ r \in reports
    /\ reports' = reports \ {r}
    /\ task' = IF answers(task[r.work], r)
               THEN [task EXCEPT ![r.work] = pastDeadline(reported(@, r.status), r.work)]
               ELSE task
    /\ IF sent = r
       THEN sent' = None /\ batch' = IF answers(task[r.work], r) THEN Tail(batch) ELSE <<>>
       ELSE UNCHANGED <<sent, batch>>
    /\ UNCHANGED <<case, sched, session, made, node, run, now, events>>

-----------------------------------------------------------------------------
(* The poller and its Gateway. *)

\* What Gateway answers a submission, and its record afterwards.  A known permit
\* is looked up before it is verified, but after the grant.
submitReplies(w) ==
    CASE ~node.grant -> {<<"rejected", run[w]>>}
      [] run[w] \in Ends \cup {"live"} -> {<<"accepted", run[w]>>}
      [] run[w] = "lost" -> {<<"uncertain", run[w]>>}
      [] run[w] = "refused" -> {<<"retryable", run[w]>>}
      [] OTHER -> IF now >= Deadline(w) THEN {<<"rejected", run[w]>>} ELSE {<<"accepted", "live">>}

\* What may go wrong: a busy or unreachable Gateway, an answer lost on the way,
\* an agent that refused the run or of which nothing is known.
submitFailures(w) ==
    {<<"retryable", run[w]>>} \cup
    IF node.grant /\ run[w] = "none" /\ now < Deadline(w)
    THEN {<<"retryable", "live">>, <<"uncertain", "lost">>, <<"retryable", "refused">>} ELSE {}

observeReplies(w) ==
    {<<IF ~node.grant THEN "retryable" ELSE IF run[w] = "live" THEN "observed" ELSE run[w],
       run[w]>>}

\* executeTaskDelivery and the report of its outcome (taskDeliveryError).
executeTaskDelivery ==
    /\ batch # <<>> /\ sent = None
    /\ Cardinality(reports) < case.maxReports
    /\ LET d == Head(batch)
           submit == d.action = "submit"
       IN  \E reply \in {"accepted", "observed", "retryable", "uncertain", "rejected"} \cup Ends :
           \E after \in {"none", "live", "lost", "refused"} \cup Ends :
             /\ \/ /\ <<reply, after>> \in IF submit THEN submitReplies(d.work) ELSE observeReplies(d.work)
                   /\ UNCHANGED events
                \/ /\ <<reply, after>> \in IF submit THEN submitFailures(d.work)
                                            ELSE {<<"retryable", run[d.work]>>}
                   /\ Event("retry")
             /\ run' = [run EXCEPT ![d.work] = after]
             /\ sent' = [work |-> d.work, gen |-> d.gen, status |-> reply]
             /\ reports' = reports \cup {sent'}
    /\ UNCHANGED <<case, storeVars, node, batch, now>>

\* The poller gives up: a call that timed out, an error, or a restart.
Abandon ==
    /\ batch # <<>>
    /\ batch' = <<>> /\ sent' = None
    /\ UNCHANGED <<case, storeVars, node, reports, run, now, events>>

RunEnds ==
    /\ \E w \in Work : run[w] = "live" /\ \E e \in Ends : run' = [run EXCEPT ![w] = e]
    /\ UNCHANGED <<case, storeVars, node, batch, sent, reports, now, events>>

-----------------------------------------------------------------------------
(* Workrooms, and what happens to the target. *)

\* How an operator may rewrite the session: archived or active, with the tasks it
\* had or those still retained; a project that was deleted starts empty.
rewritten ==
    IF session = None THEN {[state |-> "active", tasks |-> {}]}
    ELSE [state : {"active", "archived"}, tasks : {session.tasks, Retained \cap session.tasks}]

validWorkroomProject(s) == Cardinality(s.tasks) <= MaxSession

ApplyWorkroomProject ==
    /\ session' \in rewritten \ {session}
    /\ validWorkroomProject(session')
    /\ validateState(task, session')
    /\ Event("session")
    /\ UNCHANGED <<case, task, sched, made, node, nodeVars, now>>

DeleteWorkroomProject ==
    /\ session # None
    /\ \A w \in Retained : ~InSession(w)
    /\ Event("session")
    /\ session' = None
    /\ UNCHANGED <<case, task, sched, made, node, nodeVars, now>>

\* The instance the permits name is replaced, its grant suspended or resumed,
\* its node quarantined or released.
Target ==
    /\ \/ Event("target") /\ node.target /\ node' = [node EXCEPT !.target = FALSE]
       \/ Event("grant") /\ node' = [node EXCEPT !.grant = ~@]
       \/ Event("quarantine") /\ node' = [node EXCEPT !.quarantined = ~@]
    /\ UNCHANGED <<case, storeVars, nodeVars, now>>

Tick ==
    /\ now < MaxTime
    /\ now' = now + 1
    /\ UNCHANGED <<case, storeVars, node, nodeVars, events>>

Next ==
    \/ \E t \in Tasks : SubmitTaskRequest(t)
    \/ \E s \in Schedules : CreateTaskSchedule(s) \/ CancelTaskSchedule(s)
    \/ \E w \in Work : CancelTaskRequest(w)
    \/ PollTaskRequests \/ LostPoll
    \/ \E r \in reports : ApplyTaskReport(r)
    \/ executeTaskDelivery \/ Abandon \/ RunEnds
    \/ ApplyWorkroomProject \/ DeleteWorkroomProject
    \/ Target \/ Tick

Spec == Init /\ [][Next]_vars

\* runTasks polls for the life of the process, a batch ends by its reports or by
\* the timeout of a call, and time passes; nothing is assumed of reports or runs.
\* As time passes, only the last tick counts for the fairness of the others.
Fairness ==
    /\ WF_vars(Work # {} /\ Tick)
    /\ WF_vars(Work # {} /\ now = MaxTime /\ PollTaskRequests)
    /\ WF_vars(Work # {} /\ now = MaxTime /\ Abandon)

-----------------------------------------------------------------------------
(* Properties. *)

\* A task Control calls settled, and of which it does not say that its outcome
\* may continue, has no run at Gateway that is still going or of unknown outcome,
\* and none that a delivery on its way could still start.  (A task that a node
\* rejected is not covered: a rejection may follow an accepted run.)
SettledHonestly ==
    \A w \in Retained :
       taskTerminal(task[w]) /\ ~task[w].may /\ task[w].state # "failed" =>
          /\ run[w] \notin {"live", "lost"}
          /\ run[w] = "none" => \A i \in DOMAIN batch : batch[i].work # w

\* A permit, or one run of a schedule, becomes a task at most once, however its
\* record, its schedule or its session come and go: "It never creates more than
\* one task for the same schedule ordinal" (docs/guides/scheduled-tasks.md).
CreatedOnce == \A w \in Work : made[w] <= 1

open(w) == w \in Retained /\ ~taskTerminal(task[w])

\* In the end every task is settled, whatever is lost or cancelled on the way,
\* provided the node is not left in quarantine.
EveryTaskEnds == <>[](~node.quarantined) => <>[](\A w \in Work : ~open(w))

=============================================================================
