------------------------- MODULE GatewayTaskProofs --------------------------
(***************************************************************************)
(* Proofs about GatewayTask for every set of tasks, calls, runs and        *)
(* requests in flight, and every budget, that its assumptions allow.       *)
(***************************************************************************)
EXTENDS GatewayTaskSteps

-----------------------------------------------------------------------------
(* Stop and start.  Nothing is in flight until the process serves.         *)
LEMMA Idle ==
    ASSUME TaskInv, ~serving
    PROVE  (\A h \in Handler : handlers[h] = None) /\ mutation = None
<1>1. \A h \in Handler : handlers[h] = None
  BY Zenon DEF TaskInv, HandlersInv
<1> QED  BY <1>1, Zenon DEF TaskInv, MutationInv

LEMMA IdleKeeps ==
    ASSUME MemoryTypeOK', \A h \in Handler : handlers'[h] = None, mutation' = None,
           IInv', EffectsInv', StatusInv', TasksOwn', NoDenials'
    PROVE  TaskInv'
<1>1. HandlersInv' /\ OneOwner' /\ MutationInv'
  BY Zenon DEF HandlersInv, OneOwner, owns, MutationInv
<1> QED  BY <1>1, Zenon DEF TaskInv

LEMMA GrantsKept ==
    ASSUME GrantsTypeOK,
           loadExisting \/ \E g \in Grant : Register(g) \/ Activate(g) \/ Deactivate(g) \/ Unregister(g)
    PROVE  GrantsTypeOK'
<1> USE DEF GrantsTypeOK
<1>1. CASE loadExisting
  BY <1>1 DEF loadExisting
<1>2. ASSUME NEW g \in Grant, Register(g) \/ Activate(g)
      PROVE  GrantsTypeOK'
  BY <1>2 DEF Register, Activate
<1>3. ASSUME NEW g \in Grant, Deactivate(g)
      PROVE  GrantsTypeOK'
  BY <1>3 DEF Deactivate, revokeGrantLocked
<1>4. ASSUME NEW g \in Grant, Unregister(g)
      PROVE  GrantsTypeOK'
  BY <1>4 DEF Unregister, revokeGrantLocked
<1> HIDE DEF GrantsTypeOK
<1> QED  BY <1>1, <1>2, <1>3, <1>4, Zenon

(* Grants may change; nothing else does.                                   *)
LEMMA GrantsOnly ==
    ASSUME TaskInv, GrantsTypeOK',
           UNCHANGED <<ledgerVars, serviceTasks, mutation, handlers, serving, effects, stops>>
    PROVE  TaskInv'
<1>1. IInv' /\ UNCHANGED <<file, mode, pos, failed, pending>> /\ verified' = verified /\ Known' = Known
  BY Unwritten, Zenon DEF TaskInv
<1>2. MemoryTypeOK' /\ EffectsInv' /\ TasksOwn' /\ NoDenials'
  BY <1>1, Zenon DEF TaskInv, MemoryTypeOK, EffectsInv, TasksOwn, NoDenials
<1>3. HandlersInv' /\ MutationInv'
  BY <1>1, Zenon DEF TaskInv, HandlersInv, MutationInv
<1>4. OneOwner'
  BY <1>1, Zenon DEF TaskInv, OneOwner, owns, taskOf
<1>5. StatusInv'
  <2>1. \A t : Settled(t)' <=> Settled(t)
    BY Zenon DEF Settled, taskOf
  <2> QED  BY <1>1, <2>1, Zenon DEF TaskInv, StatusInv
<1> QED  BY <1>1, <1>2, <1>3, <1>4, <1>5, Zenon DEF TaskInv

LEMMA ExecutorInv ==
    ASSUME TaskInv, NEW g \in Grant, ExecutorStep(g)
    PROVE  TaskInv'
<1>1. GrantsTypeOK'
  BY GrantsKept, Zenon DEF ExecutorStep, TaskInv, MemoryTypeOK
<1> QED  BY <1>1, GrantsOnly, Zenon DEF ExecutorStep

LEMMA LostInv ==
    ASSUME TaskInv, lost, stops' \in 0..MaxStops
    PROVE  TaskInv'
<1>1. /\ serviceTasks' = [t \in Task |-> None] /\ mutation' = None
      /\ handlers' = [h \in Handler |-> None] /\ serving' = FALSE
      /\ loadExisting /\ effects' = effects /\ Stop
  BY Zenon DEF lost
<1>2. file' = file /\ mode' = "closed"
  BY <1>1, Zenon DEF Stop
<1>3. IInv'
  BY <1>1, ReopenIInv, Zenon DEF TaskInv
<1>4. MemoryTypeOK'
  <2>1. GrantsTypeOK'
    BY <1>1, GrantsKept, Zenon DEF TaskInv, MemoryTypeOK
  <2>2. serviceTasks' \in [Task -> Receipt \cup {None}]
    BY <1>1, Zenon
  <2>3. handlers' \in [Handler -> Request \cup {None}]
    BY <1>1, Zenon
  <2> QED  BY <1>1, <2>1, <2>2, <2>3, Zenon DEF TaskInv, MemoryTypeOK
<1>5. EffectsInv' /\ NoDenials'
  BY <1>1, <1>2, Zenon DEF TaskInv, EffectsInv, NoDenials
<1>6. TasksOwn'
  BY <1>1, Zenon DEF TasksOwn
<1>7. StatusInv'
  BY <1>1, <1>2, Zenon DEF StatusInv, Known, Writable
<1>8. \A h \in Handler : handlers'[h] = None
  BY <1>1, Zenon
<1> QED  BY <1>1, <1>3, <1>4, <1>5, <1>6, <1>7, <1>8, IdleKeeps, Zenon

LEMMA StartInv ==
    ASSUME TaskInv, Start \/ FinishOpen
    PROVE  TaskInv'
<1>1. UNCHANGED taskVars /\ (Open \/ OpenComplete) /\ mode \in {"closed", "replay"} /\ file' = file
  BY Zenon DEF Start, FinishOpen, Open, OpenComplete
<1>2. /\ UNCHANGED <<serviceTasks, mutation, handlers, serving, effects, stops>>
      /\ UNCHANGED <<grants, retained, revocations, unregisters>>
  BY <1>1, Zenon DEF taskVars, grantVars
<1>3. ~serving
  BY <1>1, Zenon DEF TaskInv, StatusInv
<1>4. IInv'
  BY <1>1, ReopenIInv, Zenon DEF TaskInv
<1>5. MemoryTypeOK' /\ EffectsInv' /\ TasksOwn' /\ NoDenials'
  BY <1>1, <1>2, Zenon DEF TaskInv, MemoryTypeOK, GrantsTypeOK, EffectsInv, TasksOwn, NoDenials
<1>6. StatusInv'
  <2>1. CASE Open
    <3>1. /\ mode = "closed" /\ pos = 0 /\ pos' = pos /\ mode' \in {"refused", "replay"}
          /\ serviceTasks = [t \in Task |-> None]
      BY <1>3, <2>1, Zenon DEF Open, TaskInv, IInv, HistoryInv, StatusInv
    <3>2. Known' => verified' = 0
      BY <3>1, Zenon DEF Known, Writable, verified
    <3>3. \A t \in Task : Status(file, 0, t, None)
      <4>1. 1..0 = {}
        OBVIOUS
      <4> QED  BY <4>1, Zenon DEF Status, NoTask, Lines
    <3>4. \A t \in Task : serviceTasks'[t] = None
      BY <1>2, <3>1, Zenon
    <3>5. Known' => \A t \in Task : Status(file', verified', t, serviceTasks'[t])
      BY <1>1, <3>2, <3>3, <3>4, Zenon
    <3> QED  BY <1>2, <1>3, <3>1, <3>5, Zenon DEF StatusInv
  <2>2. CASE OpenComplete
    <3>1. mode = "replay" /\ pos = Len(file) /\ mode' \in {"refused", "live"}
      BY <2>2, Zenon DEF OpenComplete
    <3>2. Known /\ verified = Len(file) /\ (Known' => verified' = Len(file))
      BY <1>1, <3>1, Zenon DEF Known, Writable, verified
    <3>3. \A t \in Task : Status(file, Len(file), t, serviceTasks[t])
      BY <1>3, <3>2, Zenon DEF TaskInv, StatusInv
    <3> QED  BY <1>1, <1>2, <1>3, <3>1, <3>2, <3>3, Zenon DEF StatusInv
  <2> QED  BY <1>1, <2>1, <2>2, Zenon
<1>7. (\A h \in Handler : handlers'[h] = None) /\ mutation' = None
  BY <1>2, <1>3, Idle, Zenon
<1> QED  BY <1>4, <1>5, <1>6, <1>7, IdleKeeps, Zenon

LEMMA ServeInv ==
    ASSUME TaskInv, Serve
    PROVE  TaskInv'
<1>1. /\ ~serving /\ serving' = TRUE /\ Writable
      /\ UNCHANGED <<ledgerVars, grantVars, serviceTasks, mutation, handlers, effects, stops>>
  BY Zenon DEF Serve
<1>2. IInv' /\ UNCHANGED <<file, mode>>
  BY <1>1, Unwritten, Zenon DEF TaskInv
<1>3. mode = "live" /\ Known /\ verified = Len(file)
  BY <1>1, Zenon DEF Writable, Known, verified
<1>4. \A t \in Task : Status(file, Len(file), t, serviceTasks[t])
  BY <1>1, <1>3, Zenon DEF TaskInv, StatusInv
<1>5. StatusInv'
  BY <1>1, <1>2, <1>3, <1>4, Zenon DEF StatusInv
<1>6. MemoryTypeOK' /\ EffectsInv' /\ TasksOwn' /\ NoDenials'
  BY <1>1, <1>2, Zenon DEF TaskInv, MemoryTypeOK, GrantsTypeOK, grantVars, EffectsInv, TasksOwn, NoDenials
<1>7. (\A h \in Handler : handlers'[h] = None) /\ mutation' = None
  BY <1>1, Idle, Zenon
<1> QED  BY <1>2, <1>5, <1>6, <1>7, IdleKeeps, Zenon

(* The lines an open has verified, as a sequence of their own.             *)
Prefix(f, n) == Len(f) = n /\ \A i \in 1..n : f[i] = file[i]

LEMMA PrefixIs ==
    ASSUME file \in Seq(Record), NEW n \in 0..Len(file)
    PROVE  \E f : Prefix(f, n)
<1>1. Prefix(SubSeq(file, 1, n), n)
  BY DEF Prefix
<1> QED  BY <1>1, Zenon

LEMMA PrefixSame ==
    ASSUME NEW f, NEW n, Prefix(f, n)
    PROVE  /\ \A t, phase : Lines(f, Len(f), t, phase) = Lines(file, n, t, phase)
           /\ \A c : Authorized(f, Len(f), c) <=> Authorized(file, n, c)
           /\ \A t, s : Status(f, Len(f), t, s) <=> Status(file, n, t, s)
<1>1. Len(f) = n /\ \A i \in 1..n : f[i] = file[i]
  BY Zenon DEF Prefix
<1>2. \A t, phase : Lines(f, Len(f), t, phase) = Lines(file, n, t, phase)
  BY <1>1, Zenon DEF Lines
<1>3. \A c : Authorized(f, Len(f), c) <=> Authorized(file, n, c)
  BY <1>1, Zenon DEF Authorized
<1>4. \A t, phase : \A i \in Lines(file, n, t, phase) : f[i] = file[i]
  BY <1>1, Zenon DEF Lines
<1>5. \A t : NoTask(f, Len(f), t) <=> NoTask(file, n, t)
  BY <1>2, <1>4, Zenon DEF NoTask
<1>6. ASSUME NEW t, NEW s
      PROVE  Reported(f, Len(f), t, s) <=> Reported(file, n, t, s)
  <2>1. /\ Lines(f, Len(f), t, "dispatch") = Lines(file, n, t, "dispatch")
        /\ Lines(f, Len(f), t, "terminal") = Lines(file, n, t, "terminal")
        /\ Authorized(f, Len(f), s.call) <=> Authorized(file, n, s.call)
    BY <1>2, <1>3, Zenon
  <2>2. (\A i \in Lines(file, n, t, "dispatch") : f[i].run = s.run)
            <=> (\A i \in Lines(file, n, t, "dispatch") : file[i].run = s.run)
    BY <1>4, Zenon
  <2>3. (\A i \in Lines(file, n, t, "terminal") : f[i].outcome = s.terminal)
            <=> (\A i \in Lines(file, n, t, "terminal") : file[i].outcome = s.terminal)
    <3>1. \A i \in Lines(file, n, t, "terminal") : f[i] = file[i]
      BY <1>4, Zenon
    <3> QED  BY <3>1
  <2> QED  BY <2>1, <2>2, <2>3, Zenon DEF Reported
<1> QED  BY <1>2, <1>3, <1>5, <1>6, Zenon DEF Status

LEMMA PrefixNext ==
    ASSUME file \in Seq(Record), NEW n \in 0..Len(file), n < Len(file), NEW f, Prefix(f, n),
           NEW g, Prefix(g, n + 1), NEW r, r = file[n + 1]
    PROVE  Appended(f, r, g)
<1>1. n + 1 \in 1..(n + 1) /\ (\A i \in 1..n : i \in 1..(n + 1))
      /\ \A i \in 1..(n + 1) : i \in 1..n \/ i = n + 1
  OBVIOUS
<1> QED  BY <1>1, Zenon DEF Appended, Prefix

(* The first line of a task makes it known.                                *)
LEMMA FirstReport ==
    ASSUME NEW f, NEW r, NEW g, Appended(f, r, g), r.phase = "authorize",
           NEW c, r.call = c, \A i \in 1..Len(f) : f[i].call.task # c.task
    PROVE  Reported(g, Len(g), c.task, receipt(c))
<1>1. Authorized(g, Len(g), c)
  BY Zenon DEF Authorized, Appended
<1>2. ASSUME NEW i \in 1..Len(g), g[i].call.task = c.task
      PROVE  g[i].phase = "authorize"
  BY <1>2, Zenon DEF Appended
<1>3. Lines(g, Len(g), c.task, "dispatch") = {} /\ Lines(g, Len(g), c.task, "terminal") = {}
  BY <1>2, Zenon DEF Lines
<1>4. receipt(c).call = c
  BY Zenon DEF receipt
<1>5. receipt(c).run = None
  BY Zenon DEF receipt
<1>6. receipt(c).terminal = "open"
  BY Zenon DEF receipt
<1> QED  BY <1>1, <1>3, <1>4, <1>5, <1>6, Zenon DEF Reported

(* An unfinished service task is known to memory with the same call.       *)
LEMMA PendingKnownTask ==
    ASSUME TaskInv, NEW n \in 0..Len(file), NEW c, c.kind = "lifecycle_task", NEW t \in Task, c.task = t,
           Authorized(file, n, c), Status(file, n, t, serviceTasks[t])
    PROVE  serviceTasks[t] # None /\ serviceTasks[t].call = c /\ Reported(file, n, t, serviceTasks[t])
<1>1. ~NoTask(file, n, t)
  BY Zenon DEF Authorized, NoTask, Lines
<1>2. serviceTasks[t] # None /\ Reported(file, n, t, serviceTasks[t])
  BY <1>1, Zenon DEF Status
<1>3. Authorized(file, n, serviceTasks[t].call) /\ serviceTasks[t].call.task = t
  BY <1>2, Zenon DEF Reported, TaskInv, TasksOwn
<1>4. Authorized(file, Len(file), serviceTasks[t].call) /\ Authorized(file, Len(file), c) /\ IInv
  BY <1>3, StillAuthorized, Zenon DEF TaskInv
<1>5. serviceTasks[t].call = c
  BY <1>3, <1>4, OneCall, Zenon
<1> QED  BY <1>2, <1>5, Zenon

(* What the next line of the file does to the task it names.               *)
Visited(r, t, s, g) ==
    /\ serviceTasks' = [serviceTasks EXCEPT ![t] = s]
    /\ s \in Receipt \cup {None}
    /\ s # None => s.call.task = t /\ s.call.kind = "lifecycle_task"
    /\ mode' = "replay" => Status(g, Len(g), t, s)

LEMMA ReceiptType ==
    ASSUME NEW c \in Calls
    PROVE  receipt(c) \in Receipt /\ receipt(c) # None
<1>1. receipt(c) \in Receipt
  BY Zenon DEF receipt, Receipt, Terminals
<1> QED  BY <1>1, TaskAssumption, Zenon

LEMMA VisitTask ==
    ASSUME TaskInv, VisitRecord, NEW r, r = file[pos + 1], NEW t, t = r.call.task,
           NEW f, Prefix(f, pos), NEW g, Appended(f, r, g), r \in Record, pos \in 0..Len(file)
    PROVE  \E s : Visited(r, t, s, g)
<1>0. PICK c, v : /\ c = r.call
                  /\ v = (c.kind = "lifecycle_task" /\ r.phase = "authorize" =>
                              boundTo(c.permit) \subseteq {t})
  OBVIOUS
<1>1. c \in Calls /\ t \in Task /\ c.task = t
  BY <1>0, RecordFields, Zenon
<1>2. mode = "replay" /\ replayVisiting(v)
  BY <1>0, Zenon DEF VisitRecord
<1>3. serviceTasks' =
          IF c.kind = "lifecycle_task" /\ replays(r) /\ v
          THEN CASE r.phase = "authorize" -> [serviceTasks EXCEPT ![t] = receipt(c)]
                 [] r.phase = "dispatch" -> [serviceTasks EXCEPT ![t].run = r.run]
                 [] OTHER -> [serviceTasks EXCEPT ![t].terminal = r.outcome]
          ELSE serviceTasks
  BY <1>0, Zenon DEF VisitRecord
<1>4. mode' = "replay" => replays(r) /\ v
  BY <1>2, Zenon DEF replayVisiting
<1>5. /\ Hist(file, pos, spent, pending, runOwners) /\ TypeOK
      /\ Status(file, pos, t, serviceTasks[t]) /\ ~serving /\ serviceTasks \in [Task -> Receipt \cup {None}]
  <2>1. Known /\ verified = pos /\ ~serving
    BY <1>2, Zenon DEF Known, verified, TaskInv, StatusInv
  <2> QED  BY <1>1, <2>1, Zenon DEF TaskInv, IInv, HistoryInv, StatusInv, MemoryTypeOK
<1>6. Status(f, Len(f), t, serviceTasks[t])
  BY <1>5, PrefixSame, Zenon
<1>7. r.phase \in {"authorize", "dispatch", "terminal"}
  <2>0. pos < Len(file) /\ file \in Seq(Record)
    BY <1>5, Zenon DEF VisitRecord, TypeOK
  <2>1. pos + 1 \in 1..Len(file)
    BY <2>0
  <2>2. r.phase # "deny"
    BY <2>1, Zenon DEF TaskInv, NoDenials
  <2>3. r.phase \in Phase
    BY Zenon DEF Record
  <2> QED  BY <2>2, <2>3, Zenon DEF Phase
<1>8. ASSUME replays(r)
      PROVE  /\ r.phase = "authorize" => r.call.task \notin spent
             /\ r.phase = "dispatch" => dispatches(r)
             /\ r.phase = "terminal" => finishes(r)
  BY <1>7, <1>8, Zenon DEF replays
<1>9. ASSUME replays(r), r.phase \in {"dispatch", "terminal"}
      PROVE  /\ validateEvent(r)
             /\ Authorized(file, pos, c)
             /\ Lines(f, Len(f), t, "terminal") = {}
             /\ r.phase = "dispatch" => Lines(f, Len(f), t, "dispatch") = {}
  <2>1. /\ validateEvent(r) /\ pending[r.call.task] # None
        /\ validateTransition(pending[r.call.task], r)
    BY <1>8, <1>9, Zenon DEF dispatches, finishes
  <2>2. /\ Authorized(file, pos, r.call)
        /\ Lines(file, pos, r.call.task, "terminal") = {}
        /\ r.phase = "dispatch" => Lines(file, pos, r.call.task, "dispatch") = {}
    BY <1>5, <2>1, PendingOpen, Zenon
  <2>3. /\ Lines(f, Len(f), t, "terminal") = Lines(file, pos, t, "terminal")
        /\ Lines(f, Len(f), t, "dispatch") = Lines(file, pos, t, "dispatch")
    BY PrefixSame
  <2> QED  BY <1>0, <2>1, <2>2, <2>3, Zenon
<1>10. ASSUME serviceTasks' = serviceTasks, mode' = "replay" => Status(g, Len(g), t, serviceTasks[t])
       PROVE  \E s : Visited(r, t, s, g)
  <2>1. PICK s : s = serviceTasks[t]
    OBVIOUS
  <2>2. serviceTasks' = [serviceTasks EXCEPT ![t] = s] /\ s \in Receipt \cup {None}
    BY <1>1, <1>5, <1>10, <2>1, Zenon
  <2>3. s # None => s.call.task = t /\ s.call.kind = "lifecycle_task"
    BY <1>1, <2>1, Zenon DEF TaskInv, TasksOwn
  <2>4. Visited(r, t, s, g)
    BY <1>10, <2>1, <2>2, <2>3, Zenon DEF Visited
  <2> QED  BY <2>4, Zenon
<1>11. CASE ~(replays(r) /\ v)
  BY <1>3, <1>4, <1>10, <1>11, Zenon
<1>12. CASE replays(r) /\ v /\ c.kind # "lifecycle_task"
  <2>1. serviceTasks' = serviceTasks
    BY <1>3, <1>12, Zenon
  <2>2. c.kind = "inference_attempt"
    BY <1>1, <1>12, CallFields, Zenon
  <2>3. CASE r.phase = "authorize"
    <3>1. r.phase = "authorize" /\ r.call.kind # "lifecycle_task"
      BY <1>0, <1>12, <2>3, ZenonT(40)
    <3>2. Status(g, Len(g), t, serviceTasks[t])
      BY <1>6, <3>1, StatusKept
    <3> QED  BY <1>10, <2>1, <3>2, Zenon
  <2>4. CASE r.phase \in {"dispatch", "terminal"}
    <3>1. serviceTasks[t] = None
      <4>1. Authorized(file, pos, c)
        BY <1>9, <1>12, <2>4, Zenon
      <4> QED  BY <1>1, <1>5, <2>2, <4>1, AttemptUnknown, Zenon
    <3>2. NoTask(g, Len(g), t)
      <4>1. NoTask(f, Len(f), t) /\ r.phase # "authorize"
        BY <1>6, <2>4, <3>1, Zenon DEF Status
      <4> QED  BY <4>1, NoTaskKept
    <3>3. Status(g, Len(g), t, serviceTasks[t])
      BY <3>1, <3>2, Zenon DEF Status
    <3> QED  BY <1>10, <2>1, <3>3, Zenon
  <2> QED  BY <1>7, <2>3, <2>4, Zenon
<1>13. CASE replays(r) /\ v /\ c.kind = "lifecycle_task" /\ r.phase = "authorize"
  <2>1. serviceTasks' = [serviceTasks EXCEPT ![t] = receipt(c)]
    BY <1>3, <1>13, Zenon
  <2>2. receipt(c) \in Receipt /\ receipt(c) # None /\ receipt(c).call = c
    <3>1. receipt(c).call = c
      BY Zenon DEF receipt
    <3> QED  BY <1>1, <3>1, ReceiptType, Zenon
  <2>3. \A i \in 1..Len(f) : f[i].call.task # c.task
    <3>1. pos \in 0..Len(file) /\ Len(file) \in Nat
      BY <1>5 DEF TypeOK
    <3>2. \A i \in 1..pos : i \in 1..Len(file)
      BY <3>1
    <3>3. \A i \in 1..pos : file[i].call.task # c.task
      BY <1>0, <1>5, <1>8, <1>13, <3>2, Zenon DEF Hist, SpentKnown, TaskInv, NoDenials
    <3> QED  BY <3>3, Zenon DEF Prefix
  <2>4. Reported(g, Len(g), t, receipt(c))
    BY <1>0, <1>1, <1>13, <2>3, FirstReport
  <2>5. Visited(r, t, receipt(c), g)
    BY <1>1, <1>13, <2>1, <2>2, <2>4, Zenon DEF Visited, Status
  <2> QED  BY <2>5, Zenon
<1>14. CASE replays(r) /\ v /\ c.kind = "lifecycle_task" /\ r.phase \in {"dispatch", "terminal"}
  <2>1. serviceTasks[t] # None /\ serviceTasks[t].call = c
    BY <1>1, <1>5, <1>9, <1>14, PendingKnownTask, Zenon
  <2>2. Reported(f, Len(f), t, serviceTasks[t])
    BY <1>6, <2>1, Zenon DEF Status
  <2>3. PICK x : x = serviceTasks[t]
    OBVIOUS
  <2>4. CASE r.phase = "dispatch"
    <3>1. serviceTasks' = [serviceTasks EXCEPT ![t].run = r.run]
      BY <1>3, <1>14, <2>4, Zenon
    <3>2. r.run \in Run /\ r.run # None
      <4>1. r.run # None
        BY <1>9, <1>14, <2>4, Zenon DEF validateEvent
      <4> QED  BY <4>1, RecordFields, Zenon
    <3>3. PICK s : Changes(t, s, r.run, serviceTasks[t].terminal, serviceTasks[t].doubt)
      BY <1>1, <2>1, <3>1, <3>2, AcceptedIs, Zenon
    <3>4. /\ serviceTasks' = [serviceTasks EXCEPT ![t] = s] /\ s \in Receipt /\ s # None
          /\ s.call = x.call /\ s.run = r.run /\ s.terminal = x.terminal
      BY <2>3, <3>3, Zenon DEF Changes
    <3>5. Lines(f, Len(f), t, "dispatch") = {} /\ Lines(f, Len(f), t, "terminal") = {}
      BY <1>9, <1>14, <2>4, Zenon
    <3>6. Reported(g, Len(g), t, s)
      BY <2>2, <2>3, <2>4, <3>2, <3>4, <3>5, DispatchReport
    <3>7. Visited(r, t, s, g)
      BY <1>1, <1>14, <2>1, <2>3, <3>4, <3>6, Zenon DEF Visited, Status
    <3> QED  BY <3>7, Zenon
  <2>5. CASE r.phase = "terminal"
    <3>1. serviceTasks' = [serviceTasks EXCEPT ![t].terminal = r.outcome]
      BY <1>3, <1>14, <2>5, Zenon
    <3>2. r.outcome \in Terminals /\ r.outcome # "open"
      <4>1. r.outcome \in {"responded", "failed", "unsent"}
        BY <1>9, <1>14, <2>5, Zenon DEF validateEvent
      <4> QED  BY <4>1, Zenon DEF Terminals
    <3>3. PICK s : Changes(t, s, serviceTasks[t].run, r.outcome, serviceTasks[t].doubt)
      BY <1>1, <2>1, <3>1, <3>2, TerminalIs, Zenon
    <3>4. /\ serviceTasks' = [serviceTasks EXCEPT ![t] = s] /\ s \in Receipt /\ s # None
          /\ s.call = x.call /\ s.run = x.run /\ s.terminal = r.outcome
      BY <2>3, <3>3, Zenon DEF Changes
    <3>5. Lines(f, Len(f), t, "terminal") = {}
      BY <1>9, <1>14, Zenon
    <3>6. Reported(g, Len(g), t, s)
      BY <2>2, <2>3, <2>5, <3>2, <3>4, <3>5, TerminalReport
    <3>7. Visited(r, t, s, g)
      BY <1>1, <1>14, <2>1, <2>3, <3>4, <3>6, Zenon DEF Visited, Status
    <3> QED  BY <3>7, Zenon
  <2> QED  BY <1>14, <2>4, <2>5, Zenon
<1> QED  BY <1>7, <1>11, <1>12, <1>13, <1>14, Zenon

LEMMA VisitInv ==
    ASSUME TaskInv, VisitRecord
    PROVE  TaskInv'
<1>0. PICK r, t : r = file[pos + 1] /\ t = r.call.task
  OBVIOUS
<1>1. PICK v : replayVisiting(v)
  BY Zenon DEF VisitRecord
<1>2. /\ mode = "replay" /\ pos < Len(file) /\ file' = file
      /\ UNCHANGED <<grantVars, mutation, handlers, serving, effects, stops>>
  BY <1>1, Zenon DEF VisitRecord, replayVisiting
<1>3. mode' \in {"replay", "refused"} /\ (mode' = "replay" => pos' = pos + 1)
  BY <1>1, <1>2, Zenon DEF replayVisiting
<1>4. IInv'
  BY <1>1, ReplayIInv, Zenon DEF TaskInv
<1>5. file \in Seq(Record) /\ pos \in 0..Len(file)
  BY Zenon DEF TaskInv, IInv, TypeOK
<1>6. pos + 1 \in 0..Len(file) /\ r \in Record
  BY <1>0, <1>2, <1>5
<1>7. PICK f : Prefix(f, pos)
  BY <1>5, PrefixIs, Zenon
<1>8. PICK g : Prefix(g, pos + 1)
  BY <1>5, <1>6, PrefixIs, Zenon
<1>9. Appended(f, r, g)
  BY <1>0, <1>2, <1>5, <1>7, <1>8, PrefixNext
<1>10. PICK s : Visited(r, t, s, g)
  BY <1>0, <1>5, <1>6, <1>7, <1>9, VisitTask, Zenon
<1>11. t \in Task
  BY <1>0, <1>6, RecordFields, Zenon
<1>12. ~serving /\ Known /\ verified = pos
  BY <1>2, Zenon DEF TaskInv, StatusInv, Known, verified
<1>13. /\ serviceTasks' \in [Task -> Receipt \cup {None}]
       /\ serviceTasks'[t] = s
       /\ \A u \in Task : u # t => serviceTasks'[u] = serviceTasks[u]
  BY <1>10, <1>11, Zenon DEF Visited, TaskInv, MemoryTypeOK
<1>14. MemoryTypeOK'
  BY <1>2, <1>13, Zenon DEF TaskInv, MemoryTypeOK, GrantsTypeOK, grantVars
<1>15. EffectsInv' /\ NoDenials'
  BY <1>2, Zenon DEF TaskInv, EffectsInv, NoDenials
<1>16. TasksOwn'
  BY <1>10, <1>13, Zenon DEF Visited, TaskInv, TasksOwn
<1>17. ASSUME mode' = "replay", NEW u \in Task
       PROVE  Status(file, pos + 1, u, serviceTasks'[u])
  <2>1. CASE u = t
    BY <1>8, <1>10, <1>13, <1>17, <2>1, PrefixSame, Zenon DEF Visited
  <2>2. CASE u # t
    <3>1. Status(f, Len(f), u, serviceTasks[u])
      BY <1>7, <1>12, PrefixSame, Zenon DEF TaskInv, StatusInv
    <3>2. Status(g, Len(g), u, serviceTasks[u])
      BY <1>0, <1>9, <2>2, <3>1, StatusKept, Zenon
    <3> QED  BY <1>8, <1>13, <2>2, <3>2, PrefixSame, Zenon
  <2> QED  BY <2>1, <2>2, Zenon
<1>18. StatusInv'
  <2>1. Known' => mode' = "replay" /\ verified' = pos + 1
    BY <1>3, Zenon DEF Known, Writable, verified
  <2>2. ~serving' /\ mode' # "closed"
    BY <1>2, <1>3, <1>12, Zenon
  <2> QED  BY <1>2, <1>17, <2>1, <2>2, Zenon DEF StatusInv
<1>19. (\A h \in Handler : handlers'[h] = None) /\ mutation' = None
  BY <1>2, <1>12, Idle, Zenon
<1> QED  BY <1>4, <1>14, <1>15, <1>16, <1>18, <1>19, IdleKeeps, Zenon

LEMMA CloseIncompleteInv ==
    ASSUME TaskInv, NEW t \in Task, CloseIncomplete(t)
    PROVE  TaskInv'
<1>0. PICK c : c = pending[t].call
  OBVIOUS
<1>1. /\ mode = "live" /\ ~serving /\ pending[t] # None
      /\ UNCHANGED <<grantVars, mutation, handlers, serving, effects, stops>>
  BY Zenon DEF CloseIncomplete
<1>2. PICK n \in LineSizes :
         \/ /\ Finish(c, None, "failed", n)
            /\ serviceTasks' = IF c.kind = "lifecycle_task"
                               THEN [serviceTasks EXCEPT ![t].terminal = "failed"]
                               ELSE serviceTasks
         \/ FinishAmbiguous(c, None, "failed", n) /\ UNCHANGED serviceTasks
  BY <1>0, Zenon DEF CloseIncomplete
<1>3. PICK r : r = TerminalRecord(c, None, "failed", n)
  OBVIOUS
<1>4. r.phase = "terminal" /\ r.call = c /\ r.outcome = "failed"
  BY <1>3, Zenon DEF TerminalRecord
<1>5. ~failed
  BY <1>2, Zenon DEF Finish, FinishAmbiguous, appendLocked, appendAmbiguous, Writable
<1>6. Known /\ verified = Len(file)
  BY <1>1, <1>5, Zenon DEF Known, Writable, verified
<1>7. \A u \in Task : Status(file, Len(file), u, serviceTasks[u])
  BY <1>1, <1>6, Zenon DEF TaskInv, StatusInv
<1>8. c \in Calls /\ c.task = t
  <2>1. pending[t] \in Record
    BY <1>1, Zenon DEF TaskInv, IInv, TypeOK
  <2>2. c \in Calls
    BY <1>0, <2>1, RecordFields, Zenon
  <2> QED  BY <1>0, <1>1, <1>6, <2>2, Zenon DEF TaskInv, IInv, HistoryInv, Hist, PendingKnown
<1>9. /\ Written(r)
      /\ Finish(c, None, "failed", n) => Appended(file, r, file')
      /\ Authorized(file, Len(file), c)
      /\ Lines(file, Len(file), t, "terminal") = {}
  <2>1. None \in Run \cup {None}
    BY Zenon
  <2> QED  BY <1>2, <1>3, <1>8, <2>1, FinishWrites, Zenon DEF TaskInv
<1>10. FileStep(t) /\ IInv' /\ mode' = mode
  BY <1>4, <1>8, <1>9, WrittenStep, Zenon DEF TaskInv
<1>11. file' = file \/ Appended(file, r, file')
  BY <1>9, Zenon DEF Written
<1>12. EffectsInv'
  <2>1. \A u \in Task : EffectOK(file, u, effects[u])
    BY Zenon DEF TaskInv, EffectsInv
  <2>2. r.phase # "authorize" /\ r.outcome # "unsent"
    BY <1>4, Zenon
  <2>3. ASSUME NEW u \in Task PROVE EffectOK(file', u, effects[u])
    BY <1>11, <2>1, <2>2, EffectKept, Zenon
  <2> QED  BY <1>1, <2>3, Zenon DEF EffectsInv
<1>13. NoDenials'
  BY <1>10, FileStepKeeps, Zenon DEF TaskInv
<1>14. Len(file) \in 0..Len(file)
  BY DEF TaskInv, IInv, TypeOK
<1>15. (\A h \in Handler : handlers'[h] = None) /\ mutation' = None
  BY <1>1, Idle, Zenon
<1>16. ASSUME NEW s, serviceTasks' = [serviceTasks EXCEPT ![t] = s], s \in Receipt \cup {None},
              s # None => s.call.task = t /\ s.call.kind = "lifecycle_task",
              Known' => Status(file', Len(file'), t, s) /\ Appended(file, r, file')
       PROVE  TaskInv'
  <2>1. /\ serviceTasks' \in [Task -> Receipt \cup {None}]
        /\ serviceTasks'[t] = s
        /\ \A u \in Task : u # t => serviceTasks'[u] = serviceTasks[u]
    BY <1>16, Zenon DEF TaskInv, MemoryTypeOK
  <2>2. MemoryTypeOK'
    BY <1>1, <2>1, Zenon DEF TaskInv, MemoryTypeOK, GrantsTypeOK, grantVars
  <2>3. TasksOwn'
    BY <1>16, <2>1, Zenon DEF TaskInv, TasksOwn
  <2>4. ASSUME Known', NEW u \in Task
        PROVE  Status(file', Len(file'), u, serviceTasks'[u])
    <3>1. CASE u = t
      BY <1>16, <2>1, <2>4, <3>1, Zenon
    <3>2. CASE u # t
      BY <1>4, <1>7, <1>8, <1>16, <2>1, <2>4, <3>2, StatusKept, Zenon
    <3> QED  BY <3>1, <3>2, Zenon
  <2>5. verified' = Len(file') /\ mode' # "closed" /\ ~serving'
    BY <1>1, <1>10, Zenon DEF verified
  <2>6. StatusInv'
    BY <2>4, <2>5, Zenon DEF StatusInv
  <2> QED  BY <1>10, <1>12, <1>13, <1>15, <2>2, <2>3, <2>6, IdleKeeps, Zenon
<1>17. CASE serviceTasks' = serviceTasks
            /\ (Known' => Status(file', Len(file'), t, serviceTasks[t]) /\ Appended(file, r, file'))
  <2>1. PICK s : s = serviceTasks[t]
    OBVIOUS
  <2>2. serviceTasks' = [serviceTasks EXCEPT ![t] = s] /\ s \in Receipt \cup {None}
    BY <1>17, <2>1, Zenon DEF TaskInv, MemoryTypeOK
  <2>3. s # None => s.call.task = t /\ s.call.kind = "lifecycle_task"
    BY <2>1, Zenon DEF TaskInv, TasksOwn
  <2> QED  BY <1>16, <1>17, <2>1, <2>2, <2>3, Zenon
<1>18. CASE FinishAmbiguous(c, None, "failed", n) /\ UNCHANGED serviceTasks
  <2>1. failed' = TRUE
    BY <1>18, Zenon DEF FinishAmbiguous, appendAmbiguous
  <2>2. ~Known'
    BY <1>1, <1>10, <2>1, Zenon DEF Known, Writable
  <2> QED  BY <1>17, <1>18, <2>2, Zenon
<1>19. CASE Finish(c, None, "failed", n) /\ c.kind # "lifecycle_task"
  <2>1. Appended(file, r, file')
    BY <1>9, <1>19, Zenon
  <2>2. serviceTasks[t] = None
    <3>1. c.kind = "inference_attempt"
      BY <1>8, <1>19, CallFields, Zenon
    <3> QED  BY <1>7, <1>8, <1>9, <1>14, <3>1, AttemptUnknown, Zenon
  <2>3. NoTask(file', Len(file'), t)
    BY <1>4, <1>7, <2>1, <2>2, NoTaskKept, Zenon DEF Status
  <2>4. Status(file', Len(file'), t, serviceTasks[t])
    BY <2>2, <2>3, Zenon DEF Status
  <2>5. serviceTasks' = serviceTasks
    BY <1>2, <1>19, Zenon
  <2> QED  BY <1>17, <2>1, <2>4, <2>5, Zenon
<1>20. CASE /\ Finish(c, None, "failed", n) /\ c.kind = "lifecycle_task"
            /\ serviceTasks' = [serviceTasks EXCEPT ![t].terminal = "failed"]
  <2>1. serviceTasks[t] # None /\ serviceTasks[t].call = c /\ Reported(file, Len(file), t, serviceTasks[t])
    BY <1>7, <1>8, <1>9, <1>14, <1>20, PendingKnownTask, Zenon
  <2>2. PICK x : x = serviceTasks[t]
    OBVIOUS
  <2>3. PICK s : Changes(t, s, serviceTasks[t].run, "failed", serviceTasks[t].doubt)
    <3>1. "failed" \in Terminals
      BY Zenon DEF Terminals
    <3> QED  BY <1>20, <2>1, <3>1, TerminalIs, Zenon
  <2>4. /\ serviceTasks' = [serviceTasks EXCEPT ![t] = s] /\ s \in Receipt /\ s # None
        /\ s.call = x.call /\ s.run = x.run /\ s.terminal = r.outcome
    BY <1>4, <2>2, <2>3, Zenon DEF Changes
  <2>5. Appended(file, r, file') /\ r.outcome # "open" /\ r.call.task = t
    BY <1>4, <1>8, <1>9, <1>20, Zenon
  <2>6. Reported(file', Len(file'), t, s)
    BY <1>4, <1>9, <2>1, <2>2, <2>4, <2>5, TerminalReport
  <2>7. Status(file', Len(file'), t, s)
    BY <2>4, <2>6, Zenon DEF Status
  <2> QED  BY <1>8, <1>16, <1>20, <2>1, <2>2, <2>4, <2>5, <2>7, Zenon
<1> QED  BY <1>2, <1>18, <1>19, <1>20, Zenon

-----------------------------------------------------------------------------
LEMMA InitInv ==
    ASSUME Init
    PROVE  TaskInv
<1>1. IInv /\ file = <<>> /\ mode = "closed"
  BY InitIInv, Zenon DEF Init, LedgerInit
<1>2. 1..Len(file) = {}
  BY <1>1
<1>3. \A t, phase : Lines(file, Len(file), t, phase) = {}
  BY <1>2, Zenon DEF Lines
<1>4. /\ \A h \in Handler : handlers[h] = None
      /\ \A t \in Task : serviceTasks[t] = None /\ effects[t] = 0
      /\ mutation = None /\ serving = FALSE /\ stops = 0
      /\ serviceTasks = [t \in Task |-> None]
  BY Zenon DEF Init
<1>5. MemoryTypeOK
  <2>1. GrantsTypeOK
    BY DEF Init, GrantsInit, GrantsTypeOK
  <2>2. stops \in 0..MaxStops
    BY <1>4, TaskAssumption
  <2>3. /\ serviceTasks \in [Task -> Receipt \cup {None}]
        /\ handlers \in [Handler -> Request \cup {None}]
        /\ effects \in [Task -> Nat]
    BY DEF Init
  <2> QED  BY <1>4, <2>1, <2>2, <2>3, Zenon DEF MemoryTypeOK
<1>6. EffectsInv
  <2>1. \A t : ~Unsent(file, t)
    BY <1>3, Zenon DEF Unsent
  <2> QED  BY <1>4, <2>1 DEF EffectsInv, EffectOK
<1>7. StatusInv
  BY <1>1, <1>4, Zenon DEF StatusInv, Known, Writable
<1>8. TasksOwn /\ NoDenials /\ HandlersInv /\ OneOwner /\ MutationInv
  BY <1>2, <1>4, Zenon DEF TasksOwn, NoDenials, HandlersInv, OneOwner, owns, MutationInv
<1> QED  BY <1>1, <1>5, <1>6, <1>7, <1>8, Zenon DEF TaskInv

LEMMA NextInv ==
    ASSUME TaskInv, Next
    PROVE  TaskInv'
<1>1. ASSUME NEW h \in Handler, Arrive(h)
      PROVE  TaskInv'
  BY <1>1, SubmitInv, AttemptInferenceInv, ObserveInv, Zenon DEF Arrive
<1>2. ASSUME NEW h \in Handler, HandlerStep(h)
      PROVE  TaskInv'
  <2>1. CASE Reserve(h) \/ BeginTask(h) \/ SettleRejection(h) \/ Recheck(h) \/ Contact(h) \/ Refuse(h)
    BY <2>1, ReserveInv, BeginTaskInv, SettleRejectionInv, RecheckInv, ContactInv, RefuseInv, Zenon
  <2>2. CASE (\E run \in Run : Accept(h, run)) \/ CloseTask(h)
    BY <2>2, AcceptInv, CloseTaskInv, Zenon
  <2>3. CASE StartPoll(h) \/ Polled(h) \/ CommitCheck(h) \/ CommitTerminal(h) \/ FinishObservation(h)
    BY <2>3, ObserverInv, CommitTerminalInv, FinishObservationInv, Zenon
  <2>4. CASE BeginAttempt(h) \/ FinishAttempt(h)
    BY <2>4, BeginAttemptInv, FinishAttemptInv, Zenon
  <2> QED  BY <1>2, <2>1, <2>2, <2>3, <2>4, Zenon DEF HandlerStep
<1>3. CASE Crash \/ AbandonStart
  <2>1. stops' \in 0..MaxStops
    <3>1. stops \in 0..MaxStops /\ MaxStops \in Nat
      BY TaskAssumption, Zenon DEF TaskInv, MemoryTypeOK
    <3>2. CASE Crash
      BY <3>1, <3>2 DEF Crash
    <3>3. CASE AbandonStart
      BY <3>1, <3>3, Zenon DEF AbandonStart
    <3> QED  BY <1>3, <3>2, <3>3, Zenon
  <2> QED  BY <1>3, <2>1, LostInv, Zenon DEF Crash, AbandonStart
<1>4. CASE StartStep
  BY <1>3, <1>4, StartInv, VisitInv, CloseIncompleteInv, ServeInv, Zenon DEF StartStep
<1>5. ASSUME NEW g \in Grant, ExecutorStep(g)
      PROVE  TaskInv'
  BY <1>5, ExecutorInv, Zenon
<1> QED  BY <1>1, <1>2, <1>3, <1>4, <1>5, Zenon DEF Next

LEMMA TaskInvariant == Spec => []TaskInv
<1>1. TaskInv /\ UNCHANGED vars => TaskInv'
  <2> SUFFICES ASSUME TaskInv, UNCHANGED vars PROVE TaskInv'
    OBVIOUS
  <2>1. /\ UNCHANGED <<ledgerVars, serviceTasks, mutation, handlers, serving, effects, stops>>
        /\ UNCHANGED <<grants, retained, revocations, unregisters>>
    BY Zenon DEF vars, taskVars, grantVars
  <2>2. GrantsTypeOK'
    BY <2>1, Zenon DEF TaskInv, MemoryTypeOK, GrantsTypeOK
  <2> QED  BY <2>1, <2>2, GrantsOnly, Zenon
<1>2. TaskInv /\ [Next]_vars => TaskInv'
  BY <1>1, NextInv, Zenon
<1> QED  BY <1>2, InitInv, PTL DEF Spec

(* Every variable keeps its type, in every set of tasks, calls, runs and   *)
(* requests in flight (Server.serviceTasks, task.go:24).                   *)
THEOREM TaskTypes == Spec => []TaskTypeOK
BY TaskInvariant, InvImplies, PTL

(* The agent service is contacted at most once for a task, for any number  *)
(* of requests, ambiguous appends and restarts: a request contacts it only *)
(* after beginServiceTask spent the task in the ledger, and the ledger     *)
(* spends a digest once (task.go:349).                                     *)
THEOREM TasksContactedOnce == Spec => []TaskContactedOnce
BY TaskInvariant, InvImplies, PTL

(* A task reported as safe to replace was never contacted and no request   *)
(* on its way to the contact is left: only the request that owns the task  *)
(* writes that end (taskFailureRetrySafety, task.go:114).                  *)
THEOREM ReplacementIsSafe == Spec => []ReplacementSafe
BY TaskInvariant, InvImplies, PTL

(* What a serving Gateway reports of a task is what the ledger's lines say *)
(* of it, except while its append is in flight or after one whose outcome  *)
(* is in doubt (lifecycleStatus and connectorReceiptIndex.visit).          *)
THEOREM StatusFollowsLedger == Spec => []StatusMatchesLedger
BY TaskInvariant, InvImplies, PTL
=============================================================================
