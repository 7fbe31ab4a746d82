--------------------------- MODULE SupervisorUplink ---------------------------
(* The supervisor's two ways in: REST clients and the outbound uplink
   (internal/server, internal/uplink).  A poller admits commands to a bounded
   queue, a consumer executes them in batches through the generation fence, and
   every outcome is reported.  The control plane is external: it delivers at
   least once, under a lease a later delivery supersedes. *)
EXTENDS Supervisor, SequencesExt

CONSTANTS
    CommandOf,                   \* kind, instance, generation, spec and node of each command
    persistentFailureThreshold,
    queueBackpressureThreshold

VARIABLES
    clients,  \* calls each REST client still makes
    plane,    \* the control plane: leased, superseded and answered commands, credential
    poller,   \* credential and its state, readiness counters
    queue     \* items, the batch in execution, the deferred starts, the command at hand
uplinkVars == <<plane, poller, queue>>
svVars == <<svCase, svConfig, clients, trackerVars, uplinkVars>>

Local == <<clients, uplinkVars, svCase, svConfig>>
Ids(s) == ToSet(s)

----
(* Inbound REST.  A client names a reference it was given, or an instance id. *)
RestOps ==
    {[kind |-> "provision", id |-> id, gen |-> 0, spec |-> sp] : id \in svCase.ids, sp \in svCase.specs}
    \cup {[kind |-> k, ref |-> r] : k \in {"start", "stop", "hibernate", "destroy"}, r \in 1..svUsed}
RestCall(t) ==
    /\ tracker.up
    /\ svCalls[t].pc = "idle"
    /\ clients[t] > 0
    /\ clients' = [clients EXCEPT ![t] = @ - 1]
    /\ \E c \in RestOps : c.kind \in svCase.kinds /\ Op(t, c)
    /\ UNCHANGED <<svCase, svConfig, uplinkVars>>

\* A start, stop or destroy by the tracker's method; an unknown instance is the
\* operation's own failure.
batchTransition(c) == IF c.ref <= svUsed THEN Op("batch", c) ELSE Refuse("batch", "notfound")

\* handleBatch: the operations of one request in order, each whatever the others
\* came to; a batch cannot hibernate.
executeBatchOperation ==
    /\ tracker.up
    /\ "batch" \in svCase.clients
    /\ svCalls["batch"].pc = "idle"
    /\ clients["batch"] <= Len(svCase.batch)
    /\ clients' = [clients EXCEPT !["batch"] = @ + 1]
    /\ LET c == svCase.batch[clients["batch"]]
       IN IF c.kind = "provision" THEN Op("batch", c) ELSE batchTransition(c)
    /\ UNCHANGED <<svCase, svConfig, uplinkVars>>

----
(* The poller. *)
Outstanding == Len(queue.items) + Cardinality(queue.running)
\* A control plane retires what a later generation of the instance superseded.
Retired(c) ==
    \E a \in DOMAIN plane.answered :
        /\ plane.answered[a]
        /\ CommandOf[a].id = CommandOf[c].id /\ CommandOf[a].gen > CommandOf[c].gen
Pending == SelectSeq(svCase.commands, LAMBDA c : c \notin DOMAIN plane.answered \cup plane.leased /\ ~Retired(c))

\* enqueue: a command already queued or running is a duplicate; the rest are
\* admitted in order while there is room.
inflight == Ids(queue.items) \cup queue.running
enqueue(cmds) ==
    LET fresh == SelectSeq(cmds, LAMBDA c : c \notin inflight)
        room == svCase.depth - Outstanding
    IN SubSeq(fresh, 1, IF room < Len(fresh) THEN room ELSE Len(fresh))
signal(admitted) == admitted # <<>>
Capped(n, max) == IF n > max THEN max ELSE n
admit(cmds) ==
    LET admitted == enqueue(cmds)
        duplicates == {c \in Ids(cmds) : c \in inflight}
        rejected == Len(cmds) - Len(admitted) - Cardinality(duplicates)
    IN /\ queue' = [queue EXCEPT !.items = @ \o admitted, !.wake = @ \/ signal(admitted)]
       /\ plane' = [plane EXCEPT !.leased = @ \cup Ids(cmds),
                                 !.superseded = (@ \cup duplicates) \ Ids(admitted)]
       /\ poller' = [poller EXCEPT
             !.failures = 0, !.reached = TRUE,
             !.streak = IF rejected > 0 THEN Capped(@ + 1, queueBackpressureThreshold)
                        ELSE IF admitted # <<>> \/ duplicates = {} THEN 0 ELSE @]

Polling == tracker.up /\ svConfig.uplink /\ ~poller.paused
PollOk ==
    /\ Polling
    /\ poller.cred = plane.cred
    /\ admit(Pending)
    /\ UNCHANGED <<svCase, svConfig, clients, trackerVars>>
\* A lost, refused or oversized poll: the next one waits longer.  A rejection that
\* looks like version skew counts as sustained at once.
PollFails ==
    /\ Polling
    /\ Fault("poll")
    /\ \E skew \in BOOLEAN :
          poller' = [poller EXCEPT !.failures = IF skew THEN persistentFailureThreshold
                                                ELSE Capped(@ + 1, persistentFailureThreshold)]
    /\ UNCHANGED <<tracker, stateFile, svUsed, proc, svCalls, svCase, svConfig, clients, plane, queue>>
PollRejected ==
    /\ Polling
    /\ poller.cred # plane.cred
    /\ poller' = [poller EXCEPT !.paused = TRUE]
    /\ UNCHANGED <<svCase, svConfig, clients, trackerVars, plane, queue>>
\* waitForCredentialChange adopts a file that parses, names this node and holds
\* another secret than the rejected one.
waitForCredentialChange ==
    /\ tracker.up
    /\ poller.paused
    /\ plane.file.ok /\ plane.file.node = "self" /\ plane.file.secret # poller.cred
    /\ poller' = [poller EXCEPT !.cred = plane.file.secret, !.paused = FALSE, !.failures = 0]
    /\ UNCHANGED <<svCase, svConfig, clients, trackerVars, plane, queue>>

\* readiness.
Ready ==
    /\ poller.streak < queueBackpressureThreshold
    /\ ~poller.reached => ~poller.paused /\ poller.failures < persistentFailureThreshold

----
(* The consumer. *)
Consumer(pc) == tracker.up /\ queue.pc = pc
SvQuiet == UNCHANGED <<svCase, svConfig, clients, poller>>
drain ==
    /\ Consumer("wait")
    /\ queue.wake
    /\ queue' = [queue EXCEPT !.wake = FALSE, !.items = <<>>, !.batch = queue.items, !.deferred = <<>>,
                              !.running = Ids(queue.items), !.pass = 1,
                              !.pc = IF queue.items = <<>> THEN "wait" ELSE "next"]
    /\ UNCHANGED <<trackerVars, plane>> /\ SvQuiet

\* executeBatch: the batch in the order it came, then one pass over the starts
\* that named an unknown instance; then the batch leaves the queue.
EndOfPass ==
    /\ Consumer("next")
    /\ queue.batch = <<>>
    /\ queue' = IF queue.pass = 1 /\ queue.deferred # <<>>
                THEN [queue EXCEPT !.pass = 2, !.batch = queue.deferred]
                ELSE [queue EXCEPT !.pc = "wait", !.running = {}, !.deferred = <<>>]
    /\ UNCHANGED <<trackerVars, plane>> /\ SvQuiet

Cmd == CommandOf[Head(queue.batch)]
Dropped == [queue EXCEPT !.batch = Tail(@), !.pc = "next"]
Outcome(done) == [queue EXCEPT !.pc = "report", !.done = done]
GenerationForInstance(id) == Max({tracker.byRef[r].gen : r \in RefsFor(id)})
Fenced(c) == c.gen # 0 /\ RefsFor(c.id) # {} /\ c.gen < GenerationForInstance(c.id)
execute ==
    /\ Consumer("next")
    /\ queue.batch # <<>>
    /\ queue' = IF Cmd.node # "self" THEN Outcome(FALSE)
                ELSE IF Fenced(Cmd) THEN Dropped
                ELSE IF Cmd.kind = "provision" /\ Cmd.spec # "scalar" THEN [queue EXCEPT !.pc = "call", !.ref = 0]
                ELSE IF Cmd.kind \in {"start", "stop", "hibernate", "destroy"} THEN [queue EXCEPT !.pc = "resolve"]
                ELSE Outcome(FALSE)
    /\ UNCHANGED <<trackerVars, plane>> /\ SvQuiet

\* transition and destroy: the instance's reference is looked up in a section of
\* its own.  Only a start waits for a provision of its batch; an absent instance
\* is what a destroy asks for.
Resolve ==
    /\ Consumer("resolve")
    /\ queue' = IF RefsFor(Cmd.id) # {} THEN [queue EXCEPT !.pc = "call", !.ref = Max(RefsFor(Cmd.id))]
                ELSE IF Cmd.kind = "start" /\ queue.pass = 1
                     THEN [Dropped EXCEPT !.deferred = Append(@, Head(queue.batch))]
                ELSE Outcome(Cmd.kind = "destroy")
    /\ UNCHANGED <<trackerVars, plane>> /\ SvQuiet
Invoke ==
    /\ Consumer("call")
    /\ Op("uplink", [kind |-> Cmd.kind, id |-> Cmd.id, gen |-> Cmd.gen, spec |-> Cmd.spec, ref |-> queue.ref])
    /\ queue' = [queue EXCEPT !.pc = "return"]
    /\ UNCHANGED plane /\ SvQuiet
Returned ==
    /\ Consumer("return")
    /\ svCalls["uplink"].pc = "idle"
    /\ LET err == svCalls["uplink"].err
       IN queue' = Outcome(err = "none" \/ (Cmd.kind = "destroy" /\ err = "notfound"))
    /\ UNCHANGED <<trackerVars, plane>> /\ SvQuiet

\* sendReport is tried once.  The control plane retires the command unless a later
\* delivery superseded the claim the report carries.
sendReport ==
    /\ Consumer("report")
    /\ LET c == Head(queue.batch)
       IN plane' = IF c \in plane.superseded THEN plane
                   ELSE [plane EXCEPT !.answered = (c :> queue.done) @@ @, !.leased = @ \ {c}]
    /\ queue' = Dropped
    /\ UNCHANGED trackerVars /\ SvQuiet
ReportLost ==
    /\ Consumer("report")
    /\ Fault("report")
    /\ queue' = Dropped
    /\ UNCHANGED <<tracker, stateFile, svUsed, proc, svCalls, plane>> /\ SvQuiet

----
(* The control plane and the operator. *)
\* A lease ends once the node no longer holds the command, or before that.
LeasesExpire ==
    /\ plane.leased \ inflight # {}
    /\ plane' = [plane EXCEPT !.leased = @ \cap inflight]
    /\ UNCHANGED <<svCase, svConfig, clients, trackerVars, poller, queue>>
LeaseExpiresEarly ==
    /\ Fault("lease")
    /\ \E c \in plane.leased \cap inflight : plane' = [plane EXCEPT !.leased = @ \ {c}]
    /\ UNCHANGED <<tracker, stateFile, svUsed, proc, svCalls, svCase, svConfig, clients, poller, queue>>
Revoke ==
    /\ Fault("revoke")
    /\ plane' = [plane EXCEPT !.cred = @ + 1]
    /\ UNCHANGED <<tracker, stateFile, svUsed, proc, svCalls, svCase, svConfig, clients, poller, queue>>
WriteCredential ==
    /\ \/ /\ Fault("wrongfile")
          /\ \E ok \in BOOLEAN : plane' = [plane EXCEPT !.file = [ok |-> ok, node |-> "other", secret |-> plane.cred]]
       \/ /\ plane.file # [ok |-> TRUE, node |-> "self", secret |-> plane.cred]
          /\ plane' = [plane EXCEPT !.file = [ok |-> TRUE, node |-> "self", secret |-> plane.cred]]
          /\ UNCHANGED svFaults
    /\ UNCHANGED <<tracker, stateFile, svUsed, proc, svCalls, svCase, svConfig, clients, poller, queue>>
EditConfig ==
    /\ Fault("edit")
    /\ \E max \in svCase.edits, readable \in BOOLEAN : svConfig' = [svConfig EXCEPT !.max = max, !.readable = readable]
    /\ UNCHANGED <<tracker, stateFile, svUsed, proc, svCalls, svCase, clients, uplinkVars>>

EmptyQueue == [items |-> <<>>, wake |-> FALSE, batch |-> <<>>, deferred |-> <<>>, running |-> {},
               pass |-> 1, pc |-> "wait", ref |-> 0, done |-> FALSE]
NewPoller(cred) == [cred |-> cred, paused |-> FALSE, failures |-> 0, reached |-> FALSE, streak |-> 0]

\* A restart loses the queue and the counters; the poller starts with what the
\* credential file holds.
Restart ==
    /\ svConfig.uplink => plane.file.ok /\ plane.file.node = "self"
    /\ Boot
    /\ queue' = EmptyQueue
    /\ poller' = NewPoller(plane.file.secret)
    /\ plane' = [plane EXCEPT !.superseded = {}]
    /\ UNCHANGED <<svCase, svConfig, clients>>

SvInit ==
    /\ svCase \in SvCases
    /\ svConfig = svCase.config
    /\ clients = [t \in svCase.clients |-> IF t = "batch" THEN 1 ELSE svCase.calls]
    /\ tracker = [up |-> TRUE, byRef |-> <<>>, procs |-> <<>>, max |-> effectiveMax(svCase.config)]
    /\ stateFile = <<>>
    /\ svUsed = 0
    /\ proc = <<>>
    /\ svCalls = [t \in svCase.clients \cup {"uplink"} |-> Idle]
    /\ svFaults = [k \in DOMAIN svCase.faults |-> 0]
    /\ plane = [leased |-> {}, superseded |-> {}, answered |-> <<>>, cred |-> 1,
                file |-> [ok |-> TRUE, node |-> "self", secret |-> 1]]
    /\ poller = NewPoller(1)
    /\ queue = EmptyQueue

Rest == \E t \in svCase.clients \ {"batch"} : RestCall(t)
Process == (ProcessExits \/ Monitor \/ handleUnexpectedExit) /\ UNCHANGED Local
Terminate == (\E t \in Callers : GraceOver(t)) /\ UNCHANGED Local
FinishCall == (\E t \in Callers : Finish(t)) /\ UNCHANGED Local
Host == (SvKill \/ Stranger) /\ UNCHANGED Local
Reload == reloadMaxInstances /\ UNCHANGED Local

SvNext ==
    \/ Rest \/ executeBatchOperation \/ Process \/ Terminate \/ FinishCall \/ Host \/ Reload \/ Restart
    \/ PollOk \/ PollFails \/ PollRejected \/ waitForCredentialChange
    \/ drain \/ EndOfPass \/ execute \/ Resolve \/ Invoke \/ Returned \/ sendReport \/ ReportLost
    \/ LeasesExpire \/ LeaseExpiresEarly \/ Revoke \/ WriteCredential \/ EditConfig

SvSpec == SvInit /\ [][SvNext]_svVars

----
(* Properties. *)
\* While no write of the state file has failed, an instance shown RUNNING has a
\* process of its own that runs, one shown HIBERNATED a suspended one if it has
\* one at all: unless the process just ended and its monitor has still to say so,
\* a stop is in flight, or it was reattached and can only be probed.  Start, Stop,
\* Hibernate, Destroy, the monitors and restarts interleave.
Exiting(p) == p.run = "dead" /\ ((p.monitor = "waiting" /\ ~p.intentional) \/ p.monitor = "pending")
Faithful(r) ==
    LET inst == tracker.byRef[r]
        p == proc[Handle(r)]
    IN LiveStatus(inst) =>
         /\ inst.status = "RUNNING" => Held(r)
         /\ Held(r) => /\ p.ref = r
                       /\ \/ p.reattached \/ Exiting(p) \/ Asked(Handle(r))
                          \/ p.run = IF inst.status = "RUNNING" THEN "running" ELSE "suspended"
RunningIsReal ==
    tracker.up /\ svCase.exec /\ (CanFail("persist") \/ "persist" \notin DOMAIN svCase.faults) =>
        \A r \in Tracked : Faithful(r)

\* Unless the supervisor itself was killed, no process it started runs without a
\* handle in the tracker or a caller that is terminating it, failed writes
\* included; and a process it did not start is never signalled.
Known(i) == Asked(i) \/ \E r \in DOMAIN tracker.procs : Handle(r) = i
===============================================================================
