------------------------------ MODULE Supervisor ------------------------------
(* The supervisor's tracker (internal/runtime): instances behind one mutex, the
   state file every mutation is saved to, and the operating-system processes it
   starts, watches, suspends and terminates.  A step is one section under the
   mutex; the grace wait of Stop and Destroy runs outside it. *)
EXTENDS Integers, Sequences, FiniteSets, FiniteSetsExt, TLC

CONSTANTS
    SvCases,   \* scenarios: callers, calls, specs, configuration and faults
    MaxRefs,   \* runtime references handed out
    MaxProcs,  \* processes started on the host, strangers included
    MaxPids,   \* process identifiers, reused once free
    DefaultMaxInstances

VARIABLES
    svCase,     \* the scenario
    tracker,    \* the tracker in memory: up, byRef, procs, max
    stateFile,  \* the instances last saved
    svUsed,     \* runtime references handed out so far
    proc,       \* processes ever started, with the supervisor's handle on each
    svCalls,    \* the call each caller is in
    svConfig,   \* the configuration a start reads
    svFaults    \* faults of each kind so far
trackerVars == <<tracker, stateFile, svUsed, proc, svCalls, svFaults>>

Callers == svCase.clients \cup {"uplink"}
Idle == [pc |-> "idle", op |-> "none", ref |-> 0, sp |-> 0, err |-> "none", status |-> "none"]
Tracked == DOMAIN tracker.byRef
RefsFor(id) == {r \in Tracked : tracker.byRef[r].id = id}

CanFail(kind) == kind \in DOMAIN svCase.faults /\ svFaults[kind] < svCase.faults[kind]
Failed(kind) == svFaults' = [svFaults EXCEPT ![kind] = @ + 1]
Fault(kind) == CanFail(kind) /\ Failed(kind)

\* persistLocked: the snapshot replaces the file whole, or the write fails and
\* the file keeps the previous one.
Saves == {TRUE} \cup {s \in {FALSE} : CanFail("persist")}
Persisted(saved, byRef) ==
    /\ stateFile' = IF saved THEN byRef ELSE stateFile
    /\ IF saved THEN UNCHANGED svFaults ELSE Failed("persist")
Unsaved == UNCHANGED <<stateFile, svFaults>>

Return(t, err, status) ==
    svCalls' = [svCalls EXCEPT ![t] = [Idle EXCEPT !.err = err, !.status = status]]
Refuse(t, err) == Return(t, err, "none") /\ UNCHANGED <<tracker, stateFile, svUsed, proc, svFaults>>

transitionAllowed(from, to) ==
    \/ from = to
    \/ <<from, to>> \in {<<"PENDING", "RUNNING">>, <<"STOPPED", "RUNNING">>, <<"HIBERNATED", "RUNNING">>,
                         <<"RUNNING", "STOPPED">>, <<"HIBERNATED", "STOPPED">>,
                         <<"RUNNING", "HIBERNATED">>, <<"STOPPED", "HIBERNATED">>}

\* A spec is "opaque" (no command), a valid "command", or "malformed".
\* Provision is idempotent on the instance id and only ever raises the
\* generation; a new instance passes the process gate and the capacity cap.
Raised(old, gen) == IF gen > old THEN gen ELSE old
Creatable(spec) == spec = "opaque" \/ (spec = "command" /\ svCase.exec)
Provision(t, id, gen, spec) ==
    \/ \E r \in RefsFor(id), saved \in Saves :
          LET old == tracker.byRef[r].gen
              raised == [tracker.byRef EXCEPT ![r].gen = Raised(old, gen)]
          IN /\ raised = tracker.byRef => saved
             /\ Persisted(saved, IF raised = tracker.byRef THEN stateFile ELSE raised)
             /\ tracker' = IF saved THEN [tracker EXCEPT !.byRef = raised] ELSE tracker
             /\ Return(t, IF saved THEN "none" ELSE "internal", tracker.byRef[r].status)
             /\ UNCHANGED <<svUsed, proc>>
    \/ /\ RefsFor(id) = {}
       /\ \/ spec # "opaque" /\ ~svCase.exec /\ Refuse(t, "disabled")
          \/ spec = "malformed" /\ svCase.exec /\ Refuse(t, "invalid")
          \/ Creatable(spec) /\ Cardinality(Tracked) >= tracker.max /\ Refuse(t, "capacity")
          \/ /\ Creatable(spec)
             /\ Cardinality(Tracked) < tracker.max
             /\ svUsed < MaxRefs
             /\ \E saved \in Saves :
                  LET new == [id |-> id, status |-> "PENDING", gen |-> gen, spec |-> spec, pid |-> 0, token |-> 0]
                      grown == (svUsed + 1 :> new) @@ tracker.byRef
                  IN /\ Persisted(saved, grown)
                     /\ tracker' = IF saved THEN [tracker EXCEPT !.byRef = grown] ELSE tracker
                     /\ Return(t, IF saved THEN "none" ELSE "internal", "PENDING")
                     /\ svUsed' = IF saved THEN svUsed + 1 ELSE svUsed
             /\ UNCHANGED proc

\* transition and setStatusLocked: the status alone, rolled back when the write fails.
setStatusLocked(t, r, status) ==
    \E saved \in Saves :
        LET next == [tracker.byRef EXCEPT ![r].status = status]
        IN /\ Persisted(saved, next)
           /\ tracker' = IF saved THEN [tracker EXCEPT !.byRef = next] ELSE tracker
           /\ Return(t, IF saved THEN "none" ELSE "internal", status)
           /\ UNCHANGED <<svUsed, proc>>

\* The handle on a process: a child has a monitor that waits for it, a reattached
\* orphan is only probed.
hasExited(i) == IF proc[i].reattached THEN proc[i].run = "dead" ELSE proc[i].monitor # "waiting"
FaultyResumed(run) == run
Resumed(run) == IF run = "suspended" THEN "running" ELSE run
Suspended(run) == IF run = "running" THEN "suspended" ELSE run

FreePids == {n \in 1..MaxPids : \A i \in DOMAIN proc : proc[i].pid # n \/ (proc[i].run = "dead" /\ proc[i].monitor # "waiting")}
Child(r, pid) == [ref |-> r, pid |-> pid, run |-> "running", monitor |-> "waiting", intentional |-> FALSE, reattached |-> FALSE]
spawn(r) == {Append(proc, Child(r, pid)) : pid \in {n \in FreePids : \A o \in FreePids : n <= o}}

Handle(r) == tracker.procs[r]
Held(r) == r \in DOMAIN tracker.procs
Drop(procs, r) == [q \in DOMAIN procs \ {r} |-> procs[q]]

\* startExec: resume a suspended process, leave a running one alone, or spawn; a
\* failed write suspends it again, or kills the new child and restores the rest.
Resume(t, r) ==
    \E saved \in Saves :
        LET next == [tracker.byRef EXCEPT ![r].status = "RUNNING"]
        IN /\ Persisted(saved, next)
           /\ tracker' = IF saved THEN [tracker EXCEPT !.byRef = next] ELSE tracker
           /\ proc' = IF saved THEN [proc EXCEPT ![Handle(r)].run = Resumed(@)] ELSE proc
           /\ Return(t, IF saved THEN "none" ELSE "internal", "RUNNING")
           /\ UNCHANGED svUsed
Spawn(t, r) ==
    \/ Fault("spawn") /\ Return(t, "start", "none") /\ UNCHANGED <<tracker, stateFile, svUsed, proc>>
    \/ /\ Len(proc) < MaxProcs
       /\ \E spawned \in spawn(r), saved \in Saves :
            LET n == Len(spawned)
                next == [tracker.byRef EXCEPT ![r].status = "RUNNING", ![r].pid = spawned[n].pid, ![r].token = n]
            IN /\ Persisted(saved, next)
               /\ tracker' = IF saved THEN [tracker EXCEPT !.byRef = next, !.procs = (r :> n) @@ @]
                             ELSE [tracker EXCEPT !.procs = Drop(@, r)]
               /\ proc' = IF saved THEN spawned
                          ELSE [spawned EXCEPT ![n].intentional = TRUE, ![n].run = "dead", ![n].monitor = "done"]
               /\ Return(t, IF saved THEN "none" ELSE "internal", "RUNNING")
       /\ UNCHANGED svUsed
Start(t, r) ==
    LET live == Held(r) /\ ~hasExited(Handle(r))
        status == tracker.byRef[r].status
    IN \/ r \notin Tracked /\ Refuse(t, "notfound")
       \/ r \in Tracked /\ ~transitionAllowed(status, "RUNNING") /\ Refuse(t, "transition")
       \/ /\ r \in Tracked
          /\ transitionAllowed(status, "RUNNING")
          /\ IF ~svCase.exec \/ tracker.byRef[r].spec # "command" THEN setStatusLocked(t, r, "RUNNING")
             ELSE IF status = "HIBERNATED" /\ live THEN Resume(t, r)
             ELSE IF status = "RUNNING" /\ live
                  THEN Return(t, "none", "RUNNING") /\ UNCHANGED <<tracker, stateFile, svUsed, proc, svFaults>>
             ELSE Spawn(t, r)

\* stopExec and Destroy latch the exit as intentional and signal the process; the
\* caller then waits outside the mutex for it to be gone.
Latch(i) == proc' = [proc EXCEPT ![i].intentional = TRUE, ![i].run = Resumed(@)]
Terminating(t, op, r, i) == svCalls' = [svCalls EXCEPT ![t] = [Idle EXCEPT !.pc = "term", !.op = op, !.ref = r, !.sp = i]]
Stop(t, r) ==
    \/ r \notin Tracked /\ Refuse(t, "notfound")
    \/ r \in Tracked /\ ~transitionAllowed(tracker.byRef[r].status, "STOPPED") /\ Refuse(t, "transition")
    \/ /\ r \in Tracked
       /\ transitionAllowed(tracker.byRef[r].status, "STOPPED")
       /\ IF ~Held(r) THEN setStatusLocked(t, r, "STOPPED")
          ELSE /\ Latch(Handle(r))
               /\ Terminating(t, "stop", r, Handle(r))
               /\ UNCHANGED <<tracker, stateFile, svUsed, svFaults>>
Hibernate(t, r) ==
    \/ r \notin Tracked /\ Refuse(t, "notfound")
    \/ r \in Tracked /\ ~transitionAllowed(tracker.byRef[r].status, "HIBERNATED") /\ Refuse(t, "transition")
    \/ /\ r \in Tracked
       /\ transitionAllowed(tracker.byRef[r].status, "HIBERNATED")
       /\ IF ~Held(r) THEN setStatusLocked(t, r, "HIBERNATED")
          ELSE IF hasExited(Handle(r)) THEN Refuse(t, "internal")
          ELSE \E saved \in Saves :
                 LET next == [tracker.byRef EXCEPT ![r].status = "HIBERNATED"]
                 IN /\ Persisted(saved, next)
                    /\ tracker' = IF saved THEN [tracker EXCEPT !.byRef = next] ELSE tracker
                    /\ proc' = [proc EXCEPT ![Handle(r)].run = IF saved THEN Suspended(@) ELSE Resumed(@)]
                    /\ Return(t, IF saved THEN "none" ELSE "internal", "HIBERNATED")
                    /\ UNCHANGED svUsed
Destroy(t, r) ==
    \/ r \notin Tracked /\ Refuse(t, "notfound")
    \/ /\ r \in Tracked
       /\ \E saved \in Saves :
            LET rest == [q \in Tracked \ {r} |-> tracker.byRef[q]]
            IN /\ Persisted(saved, rest)
               /\ tracker' = IF saved THEN [tracker EXCEPT !.byRef = rest, !.procs = Drop(@, r)] ELSE tracker
               /\ IF ~Held(r) THEN UNCHANGED proc
                  ELSE IF saved THEN Latch(Handle(r)) ELSE proc' = [proc EXCEPT ![Handle(r)].intentional = TRUE]
               /\ IF saved /\ Held(r) THEN Terminating(t, "destroy", r, Handle(r))
                  ELSE Return(t, IF saved THEN "none" ELSE "internal", "DESTROYED")
       /\ UNCHANGED svUsed

Op(t, c) ==
    \/ c.kind = "provision" /\ Provision(t, c.id, c.gen, c.spec)
    \/ c.kind = "start" /\ Start(t, c.ref)
    \/ c.kind = "stop" /\ Stop(t, c.ref)
    \/ c.kind = "hibernate" /\ Hibernate(t, c.ref)
    \/ c.kind = "destroy" /\ Destroy(t, c.ref)

\* terminate: SIGTERM was sent, SIGKILL follows the grace period, and the call
\* goes on once the process is known to be gone.
GraceOver(t) ==
    /\ svCalls[t].pc = "term"
    /\ proc[svCalls[t].sp].run # "dead"
    /\ proc' = [proc EXCEPT ![svCalls[t].sp].run = "dead"]
    /\ UNCHANGED <<tracker, stateFile, svUsed, svCalls, svFaults>>
Replaced(r, i) == Held(r) /\ Handle(r) # i
Stopped(byRef, r) == [byRef EXCEPT ![r].status = "STOPPED", ![r].pid = 0, ![r].token = 0]
Finish(t) ==
    LET r == svCalls[t].ref
        i == svCalls[t].sp
    IN /\ svCalls[t].pc = "term"
       /\ hasExited(i)
       /\ UNCHANGED <<svUsed, proc>>
       /\ \/ svCalls[t].op = "destroy" /\ Return(t, "none", "DESTROYED") /\ UNCHANGED tracker /\ Unsaved
          \/ svCalls[t].op = "stop" /\ r \notin Tracked /\ Return(t, "notfound", "none") /\ UNCHANGED tracker /\ Unsaved
          \/ /\ svCalls[t].op = "stop" /\ r \in Tracked /\ Replaced(r, i)
             /\ Return(t, "none", tracker.byRef[r].status) /\ UNCHANGED tracker /\ Unsaved
          \/ /\ svCalls[t].op = "stop" /\ r \in Tracked /\ ~Replaced(r, i)
             /\ \E saved \in Saves :
                  /\ Persisted(saved, Stopped(tracker.byRef, r))
                  /\ Return(t, IF saved THEN "none" ELSE "internal", "STOPPED")
             /\ tracker' = [tracker EXCEPT !.byRef = Stopped(@, r), !.procs = Drop(@, r)]

\* A process ends: on its own, or because it was asked to.
Asked(i) == \E t \in Callers : svCalls[t].pc = "term" /\ svCalls[t].sp = i
ProcessExits ==
    /\ \E i \in DOMAIN proc :
          /\ proc[i].run # "dead"
          /\ IF Asked(i) THEN UNCHANGED svFaults ELSE Fault("crash")
          /\ proc' = [proc EXCEPT ![i].run = "dead"]
    /\ UNCHANGED <<tracker, stateFile, svUsed, svCalls>>

\* monitor reaps the child and reads the latch; without it the exit is handed on.
Monitor ==
    /\ \E i \in DOMAIN proc :
          /\ proc[i].monitor = "waiting" /\ proc[i].run = "dead"
          /\ proc' = [proc EXCEPT ![i].monitor = IF proc[i].intentional THEN "done" ELSE "pending"]
    /\ UNCHANGED <<tracker, stateFile, svUsed, svCalls, svFaults>>
handleUnexpectedExit ==
    /\ \E i \in DOMAIN proc :
          LET r == proc[i].ref
          IN /\ proc[i].monitor = "pending"
             /\ proc' = [proc EXCEPT ![i].monitor = "done"]
             /\ IF /\ r \in Tracked /\ Held(r) /\ Handle(r) = i
                   /\ tracker.byRef[r].status \in {"RUNNING", "HIBERNATED"}
                THEN /\ tracker' = [tracker EXCEPT !.byRef = Stopped(@, r), !.procs = Drop(@, r)]
                     /\ \E saved \in Saves : Persisted(saved, Stopped(tracker.byRef, r))
                ELSE UNCHANGED tracker /\ Unsaved
    /\ UNCHANGED <<svUsed, svCalls>>

\* The supervisor is killed: handles, monitors and calls are gone and children go
\* on.  It may be inside startExec, with the child spawned and nothing saved.
Severed(p) == [p EXCEPT !.monitor = "none", !.intentional = FALSE, !.reattached = FALSE]
Down == [up |-> FALSE, byRef |-> <<>>, procs |-> <<>>, max |-> tracker.max]
SvKill ==
    /\ tracker.up
    /\ Fault("kill")
    /\ tracker' = Down
    /\ svCalls' = [t \in Callers |-> Idle]
    /\ \/ proc' = [i \in DOMAIN proc |-> Severed(proc[i])]
       \/ /\ svCase.exec /\ Len(proc) < MaxProcs
          /\ \E r \in Tracked :
                /\ tracker.byRef[r].spec = "command"
                /\ ~(Held(r) /\ ~hasExited(Handle(r)))
                /\ \E spawned \in spawn(r) : proc' = [i \in DOMAIN spawned |-> Severed(spawned[i])]
    /\ UNCHANGED <<stateFile, svUsed>>

\* The configuration: the capacity cap from the flag, the environment and the
\* file (0 where absent), folded in that order at start; a SIGHUP takes the file's
\* value only where a start would.
effectiveMax(cfg) ==
    CASE cfg.flag # 0 -> cfg.flag
      [] cfg.flag = 0 /\ cfg.env # 0 -> cfg.env
      [] cfg.flag = 0 /\ cfg.env = 0 /\ cfg.max # 0 -> cfg.max
      [] OTHER -> DefaultMaxInstances
fileMayApply(cfg) == cfg.flag = 0 /\ cfg.env = 0
reloadMaxInstances ==
    /\ tracker.up
    /\ tracker' = IF svConfig.readable /\ svConfig.max > 0 /\ fileMayApply(svConfig)
                  THEN [tracker EXCEPT !.max = svConfig.max] ELSE tracker
    /\ UNCHANGED <<stateFile, svUsed, proc, svCalls, svFaults>>

\* LoadTracker and reconcileProcessesAfterLoad: a live pid is taken back only if
\* its start time is the recorded one; the rest lost their supervision.
reattachIdentityConfirmed(inst, i) == proc[i].run # "dead" /\ proc[i].pid = inst.pid /\ inst.token = i
LiveStatus(inst) == inst.status \in {"RUNNING", "HIBERNATED"} /\ inst.spec = "command"
Reattached(r) == {i \in DOMAIN proc : reattachIdentityConfirmed(stateFile[r], i)}
prepareRuntime(cfg) ==
    /\ cfg.readable
    /\ effectiveMax(cfg) > 0
    /\ ~(cfg.inbound = "off" /\ ~cfg.uplink)
    /\ svCase.exec => /\ cfg.inbound = "public" => cfg.ackPublic
                      /\ cfg.root => cfg.ackRoot
Boot ==
    /\ ~tracker.up
    /\ prepareRuntime(svConfig)
    /\ LET supervised == {r \in DOMAIN stateFile : svCase.exec /\ LiveStatus(stateFile[r])}
           kept == {r \in supervised : stateFile[r].pid > 0 /\ Reattached(r) # {}}
           byRef == [r \in DOMAIN stateFile |-> IF r \in supervised \ kept THEN Stopped(stateFile, r)[r] ELSE stateFile[r]]
           handle == [r \in kept |-> CHOOSE i \in Reattached(r) : TRUE]
       IN /\ tracker' = [up |-> TRUE, byRef |-> byRef, procs |-> handle, max |-> effectiveMax(svConfig)]
          /\ proc' = [i \in DOMAIN proc |-> [proc[i] EXCEPT !.reattached = \E r \in kept : handle[r] = i]]
          /\ IF byRef = stateFile THEN Unsaved ELSE \E saved \in Saves : Persisted(saved, byRef)
    /\ UNCHANGED <<svUsed, svCalls>>

\* Another program of the host takes a free process identifier.
Stranger ==
    /\ Fault("stranger")
    /\ Len(proc) < MaxProcs
    /\ \E spawned \in spawn(0) : proc' = [spawned EXCEPT ![Len(spawned)].monitor = "none"]
    /\ UNCHANGED <<tracker, stateFile, svUsed, svCalls>>
===============================================================================
