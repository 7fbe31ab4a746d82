-------------------------- MODULE GatewayTaskSteps --------------------------
(***************************************************************************)
(* The inductive invariant of GatewayTask and the steps of the request     *)
(* that owns a task, of observers and of inference attempts, for           *)
(* GatewayTaskProofs.  The ledger's own invariant comes from               *)
(* ConnectorLedgerProofs.                                                  *)
(***************************************************************************)
EXTENDS GatewayTask, ConnectorLedgerProofs

-----------------------------------------------------------------------------
(* The inductive invariant.  A task has one owning request at a time, from *)
(* its reservation in memory to its last append; observers only follow a   *)
(* run that was accepted.                                                  *)
Held == {"reserved", "rejected"}
Sending == {"begun", "dispatching", "contacted"}
Owning == Held \cup Sending \cup {"closing"}
Observing == {"observing", "polling", "reported", "committing", "ended"}

Authorized(f, n, c) == \E i \in 1..n : f[i].phase = "authorize" /\ f[i].call = c
Lines(f, n, t, phase) == {i \in 1..n : f[i].call.task = t /\ f[i].phase = phase}
NoTask(f, n, t) == \A i \in Lines(f, n, t, "authorize") : f[i].call.kind # "lifecycle_task"
Unsent(f, t) == \E i \in Lines(f, Len(f), t, "terminal") : f[i].outcome = "unsent"

HandlerOK(h, x, st, f, eff, mut) ==
    /\ x.pc = "submitted" => x.call.kind = "lifecycle_task"
    /\ x.pc \in {"attempting", "calling"} => x.call.kind = "inference_attempt"
    /\ x.pc \in Owning => /\ st[x.call.task] # None
                          /\ st[x.call.task].call = x.call
                          /\ x.call.kind = "lifecycle_task"
    /\ x.pc \in Held => /\ st[x.call.task] = receipt(x.call)
                        /\ mut = h
                        /\ NoTask(f, Len(f), x.call.task)
    /\ x.pc \in Owning \ Held => Authorized(f, Len(f), x.call)
    /\ x.pc \in {"begun", "dispatching"} => eff[x.call.task] = 0
    /\ x.pc \in Sending => ~Unsent(f, x.call.task)
    /\ x.pc = "closing" /\ x.outcome = "unsent" => eff[x.call.task] = 0
    /\ x.pc \in Observing => /\ st[x.call.task] # None
                             /\ st[x.call.task].call = x.call
                             /\ st[x.call.task].run # None

HandlersInv ==
    \A h \in Handler : handlers[h] # None =>
        serving /\ HandlerOK(h, handlers[h], serviceTasks, file, effects, mutation)

owns(h, t) == handlers[h] # None /\ handlers[h].pc \in Owning /\ taskOf(h) = t

OneOwner == \A h, k \in Handler, t \in Task : owns(h, t) /\ owns(k, t) => h = k

MutationInv ==
    mutation # None => /\ mutation \in Handler
                       /\ handlers[mutation] # None
                       /\ handlers[mutation].pc \in Held

(* A contact was authorized on disk, and a task closed as unsent had none. *)
EffectOK(f, t, e) ==
    /\ e \in {0, 1}
    /\ e = 1 => ~NoTask(f, Len(f), t)
    /\ Unsent(f, t) => e = 0

EffectsInv == \A t \in Task : EffectOK(file, t, effects[t])

(* What memory says of task t, against the first n lines of the file.      *)
Reported(f, n, t, s) ==
    /\ Authorized(f, n, s.call)
    /\ s.run # None <=> Lines(f, n, t, "dispatch") # {}
    /\ \A i \in Lines(f, n, t, "dispatch") : f[i].run = s.run
    /\ s.terminal # "open" <=> Lines(f, n, t, "terminal") # {}
    /\ \A i \in Lines(f, n, t, "terminal") : f[i].outcome = s.terminal

Status(f, n, t, s) == IF s = None THEN NoTask(f, n, t) ELSE Reported(f, n, t, s)

Settled(t) == ~(serviceTasks[t] # None /\ serviceTasks[t].doubt) /\ ~(mutation # None /\ taskOf(mutation) = t)

StatusInv ==
    /\ serving => mode = "live"
    /\ serving => \A t \in Task : Settled(t) => Status(file, Len(file), t, serviceTasks[t])
    /\ ~serving /\ Known => \A t \in Task : Status(file, verified, t, serviceTasks[t])
    /\ ~serving /\ mode = "closed" => serviceTasks = [t \in Task |-> None]

TasksOwn ==
    \A t \in Task : serviceTasks[t] # None =>
        serviceTasks[t].call.task = t /\ serviceTasks[t].call.kind = "lifecycle_task"

NoDenials == \A i \in 1..Len(file) : file[i].phase # "deny"

MemoryTypeOK ==
    /\ GrantsTypeOK
    /\ serviceTasks \in [Task -> Receipt \cup {None}]
    /\ mutation \in Handler \cup {None}
    /\ handlers \in [Handler -> Request \cup {None}]
    /\ serving \in BOOLEAN
    /\ effects \in [Task -> Nat]
    /\ stops \in 0..MaxStops

TaskInv ==
    /\ IInv
    /\ MemoryTypeOK
    /\ HandlersInv
    /\ OneOwner
    /\ MutationInv
    /\ EffectsInv
    /\ StatusInv
    /\ TasksOwn
    /\ NoDenials

(* What the invariant is for.                                              *)
LEMMA InvImplies ==
    ASSUME TaskInv
    PROVE  TaskContactedOnce /\ ReplacementSafe /\ StatusMatchesLedger /\ TaskTypeOK
<1>1. TaskContactedOnce
  <2>1. \A t \in Task : effects[t] \in {0, 1}
    BY Zenon DEF TaskInv, EffectsInv, EffectOK
  <2> QED  BY <2>1 DEF TaskContactedOnce
<1>2. ReplacementSafe
  <2> SUFFICES ASSUME NEW t \in Task, NEW i \in recorded(t, "terminal"), file[i].outcome = "unsent"
               PROVE  /\ effects[t] = 0
                      /\ ~\E h \in Handler : handlers[h] # None /\ taskOf(h) = t
                                             /\ handlers[h].pc \in {"begun", "dispatching", "contacted"}
    BY Zenon DEF ReplacementSafe
  <2>1. Unsent(file, t)
    BY Zenon DEF Unsent, Lines, recorded
  <2>2. effects[t] = 0
    BY <2>1, Zenon DEF TaskInv, EffectsInv, EffectOK
  <2>3. ASSUME NEW h \in Handler, handlers[h] # None, taskOf(h) = t, handlers[h].pc \in Sending
        PROVE  FALSE
    BY <2>1, <2>3, Zenon DEF TaskInv, HandlersInv, HandlerOK, taskOf
  <2> QED  BY <2>2, <2>3, Zenon DEF Sending
<1>3. StatusMatchesLedger
  <2> SUFFICES ASSUME serving, NEW t \in Task
               PROVE  IF serviceTasks[t] = None
                      THEN \A i \in recorded(t, "authorize") : file[i].call.kind # "lifecycle_task"
                      ELSE \/ serviceTasks[t].doubt
                           \/ mutation # None /\ taskOf(mutation) = t
                           \/ reportedRecorded(t)
    BY Zenon DEF StatusMatchesLedger
  <2>1. \A phase : recorded(t, phase) = Lines(file, Len(file), t, phase)
    BY Zenon DEF recorded, Lines
  <2>2. Settled(t) => Status(file, Len(file), t, serviceTasks[t])
    BY Zenon DEF TaskInv, StatusInv
  <2>3. CASE serviceTasks[t] = None
    <3>1. Settled(t)
      <4>1. ASSUME mutation # None, taskOf(mutation) = t
            PROVE  FALSE
        BY <2>3, <4>1, Zenon DEF TaskInv, MutationInv, HandlersInv, HandlerOK, taskOf, Owning
      <4> QED  BY <2>3, <4>1, Zenon DEF Settled
    <3>2. NoTask(file, Len(file), t)
      BY <2>2, <2>3, <3>1, Zenon DEF Status
    <3> QED  BY <2>1, <2>3, <3>2, Zenon DEF NoTask
  <2>4. CASE serviceTasks[t] # None /\ Settled(t)
    <3> DEFINE s == serviceTasks[t]
    <3>1. Reported(file, Len(file), t, s) /\ s.call.task = t
      BY <2>2, <2>4, Zenon DEF Status, TaskInv, TasksOwn
    <3>2. \E i \in recorded(t, "authorize") : file[i].call = s.call
      BY <3>1, Zenon DEF Reported, Authorized, recorded
    <3>3. reportedRecorded(t)
      BY <2>1, <3>1, <3>2, Zenon DEF Reported, reportedRecorded
    <3> QED  BY <2>4, <3>3, Zenon
  <2> QED  BY <2>3, <2>4, Zenon DEF Settled
<1>4. TaskTypeOK
  BY Zenon DEF TaskInv, IInv, MemoryTypeOK, TaskTypeOK
<1> QED  BY <1>1, <1>2, <1>3, <1>4

-----------------------------------------------------------------------------
(* Lines appended to the file.                                             *)

LEMMA CallFields ==
    ASSUME NEW c \in Calls
    PROVE  c.task \in Task /\ c.grant \in Grant /\ c.kind \in {"lifecycle_task", "inference_attempt"}
BY CallsAssumption, TaskAssumption, Zenon DEF Call

(* g is f and one more line, r.                                            *)
Appended(f, r, g) ==
    /\ \A i \in 1..Len(f) : i \in 1..Len(g) /\ g[i] = f[i]
    /\ Len(g) \in 1..Len(g)
    /\ g[Len(g)] = r
    /\ \A i \in 1..Len(g) : i \in 1..Len(f) \/ i = Len(g)

LEMMA AppendLines ==
    ASSUME NEW f \in Seq(Record), NEW r \in Record
    PROVE  Appended(f, r, Append(f, r))
BY DEF Appended

LEMMA AppendAuthorized ==
    ASSUME NEW f, NEW r, NEW g, Appended(f, r, g), NEW c,
           Authorized(f, Len(f), c)
    PROVE  Authorized(g, Len(g), c)
BY Zenon DEF Authorized, Appended

(* A line of another task or phase leaves a task's lines as they were.     *)
LEMMA LinesKept ==
    ASSUME NEW f, NEW r, NEW g, Appended(f, r, g), NEW t, NEW phase,
           r.call.task # t \/ r.phase # phase
    PROVE  /\ Lines(g, Len(g), t, phase) = Lines(f, Len(f), t, phase)
           /\ \A i \in Lines(f, Len(f), t, phase) : g[i] = f[i]
<1>1. \A i \in Lines(f, Len(f), t, phase) : g[i] = f[i]
  BY Zenon DEF Lines, Appended
<1>2. ASSUME NEW i \in Lines(f, Len(f), t, phase)
      PROVE  i \in Lines(g, Len(g), t, phase)
  BY Zenon DEF Lines, Appended
<1>3. ASSUME NEW i \in Lines(g, Len(g), t, phase)
      PROVE  i \in Lines(f, Len(f), t, phase)
  BY Zenon DEF Lines, Appended
<1> QED  BY <1>1, <1>2, <1>3, Zenon

(* A line that is the first of its task and phase is the only one.         *)
LEMMA FirstLine ==
    ASSUME NEW f, NEW r, NEW g, Appended(f, r, g),
           Lines(f, Len(f), r.call.task, r.phase) = {}
    PROVE  /\ Len(g) \in Lines(g, Len(g), r.call.task, r.phase)
           /\ \A i \in Lines(g, Len(g), r.call.task, r.phase) : g[i] = r
<1>1. Len(g) \in Lines(g, Len(g), r.call.task, r.phase)
  BY Zenon DEF Lines, Appended
<1>2. ASSUME NEW i \in Lines(g, Len(g), r.call.task, r.phase)
      PROVE  g[i] = r
  <2>1. CASE i \in 1..Len(f)
    BY <2>1, Zenon DEF Lines, Appended
  <2> QED  BY <2>1, Zenon DEF Lines, Appended
<1> QED  BY <1>1, <1>2, Zenon

LEMMA NoTaskKept ==
    ASSUME NEW f, NEW r, NEW g, Appended(f, r, g), NEW t,
           \/ r.call.task # t
           \/ r.phase # "authorize"
           \/ r.call.kind # "lifecycle_task"
    PROVE  NoTask(g, Len(g), t) <=> NoTask(f, Len(f), t)
<1>1. ASSUME NEW i \in Lines(f, Len(f), t, "authorize")
      PROVE  i \in Lines(g, Len(g), t, "authorize") /\ g[i] = f[i]
  BY Zenon DEF Lines, Appended
<1>2. ASSUME NEW i \in Lines(g, Len(g), t, "authorize"), g[i].call.kind = "lifecycle_task"
      PROVE  i \in Lines(f, Len(f), t, "authorize") /\ g[i] = f[i]
  BY <1>2, Zenon DEF Lines, Appended
<1> QED  BY <1>1, <1>2, Zenon DEF NoTask

LEMMA UnsentKept ==
    ASSUME NEW f, NEW r, NEW g, Appended(f, r, g), NEW t,
           \/ r.call.task # t
           \/ r.phase # "terminal"
           \/ r.outcome # "unsent"
    PROVE  Unsent(g, t) <=> Unsent(f, t)
<1>1. ASSUME NEW i \in Lines(f, Len(f), t, "terminal")
      PROVE  i \in Lines(g, Len(g), t, "terminal") /\ g[i] = f[i]
  BY Zenon DEF Lines, Appended
<1>2. ASSUME NEW i \in Lines(g, Len(g), t, "terminal"), g[i].outcome = "unsent"
      PROVE  i \in Lines(f, Len(f), t, "terminal") /\ g[i] = f[i]
  BY <1>2, Zenon DEF Lines, Appended
<1> QED  BY <1>1, <1>2, Zenon DEF Unsent

LEMMA ReportedKept ==
    ASSUME NEW f, NEW r, NEW g, Appended(f, r, g), NEW t, NEW s,
           r.call.task # t \/ r.phase \notin {"dispatch", "terminal"},
           Reported(f, Len(f), t, s)
    PROVE  Reported(g, Len(g), t, s)
<1>1. Authorized(g, Len(g), s.call)
  BY AppendAuthorized, Zenon DEF Reported
<1>2. ASSUME NEW phase \in {"dispatch", "terminal"}
      PROVE  /\ Lines(g, Len(g), t, phase) = Lines(f, Len(f), t, phase)
             /\ \A i \in Lines(f, Len(f), t, phase) : g[i] = f[i]
  <2>1. r.call.task # t \/ r.phase # phase
    BY Zenon
  <2> QED  BY <2>1, LinesKept
<1>3. /\ Lines(g, Len(g), t, "dispatch") = Lines(f, Len(f), t, "dispatch")
      /\ Lines(g, Len(g), t, "terminal") = Lines(f, Len(f), t, "terminal")
      /\ \A i \in Lines(f, Len(f), t, "dispatch") : g[i] = f[i]
      /\ \A i \in Lines(f, Len(f), t, "terminal") : g[i] = f[i]
  BY <1>2, Zenon
<1> QED  BY <1>1, <1>3, Zenon DEF Reported

LEMMA StatusKept ==
    ASSUME NEW f, NEW r, NEW g, Appended(f, r, g), NEW t, NEW s,
           \/ r.call.task # t
           \/ r.phase = "authorize" /\ r.call.kind # "lifecycle_task",
           Status(f, Len(f), t, s)
    PROVE  Status(g, Len(g), t, s)
BY NoTaskKept, ReportedKept, Zenon DEF Status

-----------------------------------------------------------------------------
(* A step of a serving Gateway concerns one request and one task: at most  *)
(* one line is appended, for that task.                                    *)
FileStep(t) ==
    \/ file' = file
    \/ \E r \in Record : Appended(file, r, file') /\ r.call.task = t /\ r.phase # "deny"

LEMMA FileStepKeeps ==
    ASSUME NEW t, FileStep(t)
    PROVE  /\ \A c : Authorized(file, Len(file), c) => Authorized(file', Len(file'), c)
           /\ \A u : u # t => /\ NoTask(file', Len(file'), u) <=> NoTask(file, Len(file), u)
                              /\ Unsent(file', u) <=> Unsent(file, u)
                              /\ \A s : Status(file, Len(file), u, s) => Status(file', Len(file'), u, s)
           /\ NoDenials => NoDenials'
<1>1. CASE file' = file
  <2>1. Len(file') = Len(file)
    BY <1>1, Zenon
  <2> QED  BY <1>1, <2>1, Zenon DEF NoDenials
<1>2. ASSUME NEW r \in Record, Appended(file, r, file'), r.call.task = t, r.phase # "deny"
      PROVE  /\ \A c : Authorized(file, Len(file), c) => Authorized(file', Len(file'), c)
             /\ \A u : u # t => /\ NoTask(file', Len(file'), u) <=> NoTask(file, Len(file), u)
                                /\ Unsent(file', u) <=> Unsent(file, u)
                                /\ \A s : Status(file, Len(file), u, s)
                                             => Status(file', Len(file'), u, s)
             /\ NoDenials => NoDenials'
  <2>1. \A c : Authorized(file, Len(file), c) => Authorized(file', Len(file'), c)
    BY <1>2, AppendAuthorized, Zenon
  <2>2. ASSUME NEW u, u # t
        PROVE  /\ NoTask(file', Len(file'), u) <=> NoTask(file, Len(file), u)
               /\ Unsent(file', u) <=> Unsent(file, u)
    BY <1>2, <2>2, NoTaskKept, UnsentKept, Zenon
  <2>3. ASSUME NEW u, u # t, NEW s, Status(file, Len(file), u, s)
        PROVE  Status(file', Len(file'), u, s)
    BY <1>2, <2>3, StatusKept, Zenon
  <2>4. NoDenials => NoDenials'
    BY <1>2, Zenon DEF NoDenials, Appended
  <2> QED  BY <2>1, <2>2, <2>3, <2>4, Zenon
<1> QED  BY <1>1, <1>2, Zenon DEF FileStep

(* Request h, about task t, becomes y; only t and the mutation it holds    *)
(* change with it.                                                         *)
TaskStep(h, t, y) ==
    /\ serving /\ serving'
    /\ mode' = mode
    /\ handlers' = [handlers EXCEPT ![h] = y]
    /\ handlers[h] # None => taskOf(h) = t
    /\ y # None => y.call.task = t
    /\ \A u \in Task : u # t => serviceTasks'[u] = serviceTasks[u] /\ effects'[u] = effects[u]
    /\ FileStep(t)
    /\ mutation' # mutation => mutation \in {None, h} /\ mutation' \in {None, h}

LEMMA Stepped ==
    ASSUME MemoryTypeOK, NEW h \in Handler, NEW t \in Task, NEW y, TaskStep(h, t, y)
    PROVE  /\ handlers'[h] = y
           /\ \A k \in Handler : k # h => handlers'[k] = handlers[k]
BY Zenon DEF MemoryTypeOK, TaskStep

(* A request about another task does not notice.                           *)
LEMMA ElsewhereOK ==
    ASSUME TaskInv, NEW h \in Handler, NEW t \in Task, NEW y, TaskStep(h, t, y),
           NEW k \in Handler, k # h, handlers[k] # None, taskOf(k) # t
    PROVE  HandlerOK(k, handlers[k], serviceTasks', file', effects', mutation')
<1> DEFINE x == handlers[k]
           u == handlers[k].call.task
<1>1. HandlerOK(k, x, serviceTasks, file, effects, mutation)
  BY Zenon DEF TaskInv, HandlersInv
<1>2. u \in Task /\ u # t
  <2>1. handlers[k] \in Request
    BY Zenon DEF TaskInv, MemoryTypeOK
  <2>2. handlers[k].call \in Calls
    BY <2>1, Zenon DEF Request
  <2> QED  BY <2>2, CallFields, Zenon DEF taskOf
<1>3. serviceTasks'[u] = serviceTasks[u] /\ effects'[u] = effects[u]
  BY <1>2, Zenon DEF TaskStep
<1>4. /\ Authorized(file, Len(file), x.call) => Authorized(file', Len(file'), x.call)
      /\ NoTask(file', Len(file'), u) <=> NoTask(file, Len(file), u)
      /\ Unsent(file', u) <=> Unsent(file, u)
  <2>1. FileStep(t)
    BY Zenon DEF TaskStep
  <2> QED  BY <1>2, <2>1, FileStepKeeps, Zenon
<1>5. x.pc \in Held => mutation' = k
  <2>1. k # None
    BY TaskAssumption, Zenon
  <2> QED  BY <1>1, <2>1, Zenon DEF TaskStep, HandlerOK
<1> HIDE DEF x, u
<1>6. x.call.task = u
  BY Zenon DEF x, u
<1>7. HandlerOK(k, x, serviceTasks', file', effects', mutation')
  BY <1>1, <1>3, <1>4, <1>5, <1>6, Zenon DEF HandlerOK
<1> QED  BY <1>7, Zenon DEF x

(* What a step owes the requests about its own task.                       *)
Keeps(t, k) ==
    LET x == handlers[k]
    IN  /\ x.pc \in Owning \cup Observing =>
               /\ serviceTasks'[t] # None
               /\ serviceTasks'[t].call = serviceTasks[t].call
               /\ serviceTasks[t].run # None => serviceTasks'[t].run # None
        /\ x.pc \in Held => serviceTasks'[t] = serviceTasks[t] /\ mutation' = mutation
                            /\ NoTask(file', Len(file'), t)
        /\ x.pc \in Owning => effects'[t] = effects[t]
        /\ x.pc \in Sending => ~Unsent(file', t)

LEMMA KeptOK ==
    ASSUME TaskInv, NEW t, FileStep(t), NEW k \in Handler, handlers[k] # None, taskOf(k) = t,
           Keeps(t, k)
    PROVE  HandlerOK(k, handlers[k], serviceTasks', file', effects', mutation')
<1>1. HandlerOK(k, handlers[k], serviceTasks, file, effects, mutation)
  BY Zenon DEF TaskInv, HandlersInv
<1>2. Authorized(file, Len(file), handlers[k].call) => Authorized(file', Len(file'), handlers[k].call)
  BY FileStepKeeps, Zenon
<1>3. Sending \subseteq Owning /\ Held \subseteq Owning /\ "closing" \in Owning
      /\ {"begun", "dispatching"} \subseteq Owning
  BY Zenon DEF Owning, Held, Sending
<1>4. handlers[k].call.task = t
  BY Zenon DEF taskOf
<1>5. ASSUME NEW x, x = handlers[k]
      PROVE  HandlerOK(k, x, serviceTasks', file', effects', mutation')
  <2> USE <1>5
  <2>1. HandlerOK(k, x, serviceTasks, file, effects, mutation) /\ x.call.task = t
    BY <1>1, <1>4
  <2>2. /\ x.pc \in Owning => /\ serviceTasks'[t] # None
                              /\ serviceTasks'[t].call = x.call
                              /\ x.call.kind = "lifecycle_task"
        /\ x.pc \in Held => /\ serviceTasks'[t] = receipt(x.call)
                            /\ mutation' = k
                            /\ NoTask(file', Len(file'), t)
    BY <1>3, <2>1, Zenon DEF Keeps, HandlerOK
  <2>3. /\ x.pc \in Owning \ Held => Authorized(file', Len(file'), x.call)
        /\ x.pc \in {"begun", "dispatching"} => effects'[t] = 0
        /\ x.pc = "closing" /\ x.outcome = "unsent" => effects'[t] = 0
        /\ x.pc \in Sending => ~Unsent(file', t)
    BY <1>2, <1>3, <2>1, Zenon DEF Keeps, HandlerOK
  <2>4. x.pc \in Observing => /\ serviceTasks'[t] # None
                              /\ serviceTasks'[t].call = x.call
                              /\ serviceTasks'[t].run # None
    BY <2>1, Zenon DEF Keeps, HandlerOK
  <2> QED  BY <2>1, <2>2, <2>3, <2>4, Zenon DEF HandlerOK
<1> QED  BY <1>5, Zenon

(* What a step owes its own task and request.                              *)
Owed(h, t, y) ==
    /\ y # None => HandlerOK(h, y, serviceTasks', file', effects', mutation')
    /\ y # None /\ y.pc \in Owning => \A k \in Handler : k # h => ~owns(k, t)
    /\ \A k \in Handler : k # h /\ handlers[k] # None /\ taskOf(k) = t => Keeps(t, k)
    /\ mutation' = h => y # None /\ y.pc \in Held
    /\ EffectOK(file', t, effects'[t])
    /\ Settled(t)' => Status(file', Len(file'), t, serviceTasks'[t])
    /\ serviceTasks'[t] # None => /\ serviceTasks'[t].call.task = t
                                  /\ serviceTasks'[t].call.kind = "lifecycle_task"

LEMMA Served ==
    ASSUME TaskInv, IInv', MemoryTypeOK', NEW h \in Handler, NEW t \in Task, NEW y,
           TaskStep(h, t, y), Owed(h, t, y)
    PROVE  TaskInv'
<1>0. /\ FileStep(t)
      /\ handlers'[h] = y
      /\ \A k \in Handler : k # h => handlers'[k] = handlers[k]
  <2>1. MemoryTypeOK
    BY Zenon DEF TaskInv
  <2>2. FileStep(t)
    BY Zenon DEF TaskStep
  <2> QED  BY <2>1, <2>2, Stepped, Zenon
<1>1. HandlersInv'
  <2> SUFFICES ASSUME NEW k \in Handler, handlers'[k] # None
               PROVE  serving' /\ HandlerOK(k, handlers'[k], serviceTasks', file', effects', mutation')
    BY Zenon DEF HandlersInv
  <2>0. serving'
    BY Zenon DEF TaskStep
  <2>1. CASE k = h
    BY <1>0, <2>0, <2>1, Zenon DEF Owed
  <2>2. CASE k # h /\ taskOf(k) = t
    <3>1. Keeps(t, k)
      BY <1>0, <2>2, Zenon DEF Owed
    <3>2. HandlerOK(k, handlers[k], serviceTasks', file', effects', mutation')
      BY <1>0, <2>2, <3>1, KeptOK, Zenon
    <3> QED  BY <1>0, <2>0, <2>2, <3>2, Zenon
  <2>3. CASE k # h /\ taskOf(k) # t
    <3>1. HandlerOK(k, handlers[k], serviceTasks', file', effects', mutation')
      BY <1>0, <2>3, ElsewhereOK, Zenon
    <3> QED  BY <1>0, <2>0, <2>3, <3>1, Zenon
  <2> QED  BY <2>1, <2>2, <2>3, Zenon
<1>2. OneOwner'
  <2> SUFFICES ASSUME NEW k \in Handler, NEW l \in Handler, NEW u \in Task,
                      owns(k, u)', owns(l, u)', k # l
               PROVE  FALSE
    BY Zenon DEF OneOwner
  <2>1. \A j \in Handler : j # h => owns(j, u)' = owns(j, u)
    BY <1>0, Zenon DEF owns, taskOf
  <2>2. owns(h, u)' => y # None /\ y.pc \in Owning /\ u = t
    BY <1>0, Zenon DEF owns, taskOf, TaskStep
  <2>3. k # h /\ l # h => FALSE
    BY <2>1, Zenon DEF TaskInv, OneOwner
  <2>4. ASSUME NEW j \in Handler, j # h, owns(j, u)', owns(h, u)'
        PROVE  FALSE
    BY <2>1, <2>2, <2>4, Zenon DEF Owed
  <2> QED  BY <2>3, <2>4, Zenon
<1>3. MutationInv'
  <2> SUFFICES ASSUME mutation' # None
               PROVE  /\ mutation' \in Handler
                      /\ handlers'[mutation'] # None
                      /\ handlers'[mutation'].pc \in Held
    BY Zenon DEF MutationInv
  <2>1. CASE mutation' = h
    BY <1>0, <2>1, Zenon DEF Owed
  <2>2. CASE mutation' # h
    <3>1. mutation' = mutation
      BY <2>2, Zenon DEF TaskStep
    <3> QED  BY <1>0, <2>2, <3>1, Zenon DEF TaskInv, MutationInv
  <2> QED  BY <2>1, <2>2, Zenon
<1>4. EffectsInv'
  <2> SUFFICES ASSUME NEW u \in Task
               PROVE  EffectOK(file', u, effects'[u])
    BY Zenon DEF EffectsInv
  <2>1. CASE u = t
    BY <2>1, Zenon DEF Owed
  <2>2. CASE u # t
    <3>1. /\ NoTask(file', Len(file'), u) <=> NoTask(file, Len(file), u)
          /\ Unsent(file', u) <=> Unsent(file, u)
      BY <1>0, <2>2, FileStepKeeps, Zenon
    <3>2. EffectOK(file, u, effects[u]) /\ effects'[u] = effects[u]
      BY <2>2, Zenon DEF TaskInv, EffectsInv, TaskStep
    <3> QED  BY <3>1, <3>2, Zenon DEF EffectOK
  <2> QED  BY <2>1, <2>2, Zenon
<1>5. StatusInv'
  <2>1. mode' = "live" /\ serving'
    BY Zenon DEF TaskInv, StatusInv, TaskStep
  <2>2. ASSUME NEW u \in Task, Settled(u)'
        PROVE  Status(file', Len(file'), u, serviceTasks'[u])
    <3>1. CASE u = t
      BY <2>2, <3>1, Zenon DEF Owed
    <3>2. CASE u # t
      <4>1. serviceTasks'[u] = serviceTasks[u]
        BY <3>2, Zenon DEF TaskStep
      <4>2. Settled(u)
        <5> SUFFICES ASSUME mutation # None, taskOf(mutation) = u
                     PROVE  FALSE
          BY <2>2, <4>1, Zenon DEF Settled
        <5>1. mutation \in Handler /\ handlers[mutation] # None
          BY Zenon DEF TaskInv, MutationInv
        <5>2. mutation # h
          BY <3>2, <5>1, Zenon DEF TaskStep
        <5>3. mutation' = mutation /\ handlers'[mutation] = handlers[mutation]
          BY <1>0, <5>1, <5>2, Zenon DEF TaskStep
        <5>4. mutation' # None /\ taskOf(mutation)' = u
          BY <5>3, Zenon DEF taskOf
        <5> QED  BY <2>2, <5>4, Zenon DEF Settled
      <4>3. Status(file, Len(file), u, serviceTasks[u])
        BY <4>2, Zenon DEF TaskInv, StatusInv, TaskStep
      <4>4. Status(file', Len(file'), u, serviceTasks[u])
        <5>1. \A s : Status(file, Len(file), u, s) => Status(file', Len(file'), u, s)
          BY <1>0, <3>2, FileStepKeeps, Zenon
        <5> QED  BY <4>3, <5>1, Zenon
      <4> QED  BY <4>1, <4>4, Zenon
    <3> QED  BY <3>1, <3>2, Zenon
  <2> QED  BY <2>1, <2>2, Zenon DEF StatusInv
<1>6. TasksOwn'
  BY Zenon DEF TaskInv, TasksOwn, TaskStep, Owed
<1>7. NoDenials'
  BY <1>0, FileStepKeeps, Zenon DEF TaskInv
<1> QED  BY <1>1, <1>2, <1>3, <1>4, <1>5, <1>6, <1>7, Zenon DEF TaskInv

-----------------------------------------------------------------------------
(* The ledger operations, as a request sees them.                          *)
Written(r) ==
    /\ IInv'
    /\ r \in Record
    /\ mode' = mode
    /\ file' = file \/ Appended(file, r, file')

LEMMA WriteKeepsLedger ==
    ASSUME IInv, NEW r \in Record, NEW delta \in Int, Accepted(r),
           appendLocked(r, delta) \/ appendAmbiguous(r, delta)
    PROVE  /\ Written(r)
           /\ appendLocked(r, delta) => Appended(file, r, file')
           /\ Hist(file, Len(file), spent, pending, runOwners)
           /\ TypeOK
<1>1. IInv'
  BY AppendIInv, Zenon DEF Appends
<1>2. mode' = mode /\ (file' = file \/ file' = Append(file, r))
      /\ (appendLocked(r, delta) => file' = Append(file, r))
  BY Zenon DEF appendLocked, appendAmbiguous
<1>3. Appended(file, r, Append(file, r))
  BY AppendLines, Zenon DEF IInv, TypeOK
<1>4. Hist(file, Len(file), spent, pending, runOwners)
  BY Zenon DEF appendLocked, appendAmbiguous, Writable, IInv, HistoryInv, Known, verified
<1> QED  BY <1>1, <1>2, <1>3, <1>4, Zenon DEF Written, IInv

LEMMA BeginWrites ==
    ASSUME IInv, NEW c \in Calls, NEW n \in LineSizes, Begin(c, n) \/ BeginAmbiguous(c, n)
    PROVE  /\ Written(AuthorizeRecord(c, n))
           /\ Begin(c, n) => Appended(file, AuthorizeRecord(c, n), file')
           /\ \A i \in 1..Len(file) : file[i].phase # "deny" => file[i].call.task # c.task
<1> DEFINE r == AuthorizeRecord(c, n)
           delta == pendingReservation(r)
<1>1. r \in Record /\ r.phase = "authorize" /\ r.call = c
  BY AuthorizeRecordType, Zenon DEF AuthorizeRecord
<1>2. delta \in Int
  BY ReservationType
<1>3. begins(c) /\ (appendLocked(r, delta) \/ appendAmbiguous(r, delta))
      /\ (Begin(c, n) => appendLocked(r, delta))
  BY Zenon DEF Begin, BeginAmbiguous
<1> HIDE DEF r, delta
<1>4. Accepted(r)
  BY <1>1, <1>3, Zenon DEF Accepted, begins
<1>5. /\ Written(r)
      /\ appendLocked(r, delta) => Appended(file, r, file')
      /\ Hist(file, Len(file), spent, pending, runOwners)
  BY <1>1, <1>2, <1>3, <1>4, WriteKeepsLedger, Zenon
<1>6. \A i \in 1..Len(file) : file[i].phase # "deny" => file[i].call.task # c.task
  BY <1>3, <1>5, Zenon DEF Hist, SpentKnown, begins
<1> QED  BY <1>3, <1>5, <1>6, Zenon DEF r

(* An unfinished call is authorized and not closed.                        *)
LEMMA PendingOpen ==
    ASSUME TypeOK, NEW n, Hist(file, n, spent, pending, runOwners), NEW r \in Record,
           pending[r.call.task] # None, validateTransition(pending[r.call.task], r)
    PROVE  /\ Authorized(file, n, r.call)
           /\ Lines(file, n, r.call.task, "terminal") = {}
           /\ r.phase = "dispatch" => Lines(file, n, r.call.task, "dispatch") = {}
<1> DEFINE p == pending[r.call.task]
<1>1. r.call.task \in Task
  BY RecordFields, Zenon
<1>2. p.call = r.call
  BY Zenon DEF validateTransition
<1>3. /\ \E i \in 1..n : file[i].phase = "authorize" /\ file[i].call = p.call
      /\ \A i \in 1..n : file[i].call.task = r.call.task => file[i].phase # "terminal"
      /\ p.phase = "authorize" =>
           \A i \in 1..n : file[i].call.task = r.call.task => file[i].phase # "dispatch"
  BY <1>1, Zenon DEF Hist, PendingKnown
<1>4. r.phase = "dispatch" => p.phase = "authorize"
  BY Zenon DEF validateTransition
<1> QED  BY <1>2, <1>3, <1>4, Zenon DEF Authorized, Lines

LEMMA DispatchWrites ==
    ASSUME IInv, NEW c \in Calls, NEW run \in Run, NEW n \in LineSizes,
           Dispatch(c, run, n) \/ DispatchAmbiguous(c, run, n)
    PROVE  /\ Written(DispatchRecord(c, run, n))
           /\ Dispatch(c, run, n) => Appended(file, DispatchRecord(c, run, n), file')
           /\ Lines(file, Len(file), c.task, "dispatch") = {}
           /\ Lines(file, Len(file), c.task, "terminal") = {}
<1> DEFINE r == DispatchRecord(c, run, n)
<1>1. r \in Record /\ r.phase = "dispatch" /\ r.call = c
  BY DispatchRecordType, Zenon DEF DispatchRecord
<1>2. -TerminalReserve \in Int
  BY SizeAssumption
<1>3. dispatches(r) /\ (appendLocked(r, -TerminalReserve) \/ appendAmbiguous(r, -TerminalReserve))
      /\ (Dispatch(c, run, n) => appendLocked(r, -TerminalReserve))
  BY Zenon DEF Dispatch, DispatchAmbiguous
<1> HIDE DEF r
<1>4. Accepted(r)
  BY <1>1, <1>3, Zenon DEF Accepted
<1>5. /\ Written(r)
      /\ appendLocked(r, -TerminalReserve) => Appended(file, r, file')
      /\ Hist(file, Len(file), spent, pending, runOwners)
      /\ TypeOK
  BY <1>1, <1>2, <1>3, <1>4, WriteKeepsLedger, Zenon
<1>6. pending[r.call.task] # None /\ validateTransition(pending[r.call.task], r)
  BY <1>3, Zenon DEF dispatches
<1>7. /\ Lines(file, Len(file), r.call.task, "terminal") = {}
      /\ Lines(file, Len(file), r.call.task, "dispatch") = {}
  BY <1>1, <1>5, <1>6, PendingOpen, Zenon
<1> QED  BY <1>1, <1>3, <1>5, <1>7, Zenon DEF r

LEMMA FinishWrites ==
    ASSUME IInv, NEW c \in Calls, NEW run \in Run \cup {None}, NEW outcome, NEW n \in LineSizes,
           Finish(c, run, outcome, n) \/ FinishAmbiguous(c, run, outcome, n)
    PROVE  /\ Written(TerminalRecord(c, run, outcome, n))
           /\ Finish(c, run, outcome, n) => Appended(file, TerminalRecord(c, run, outcome, n), file')
           /\ Authorized(file, Len(file), c)
           /\ Lines(file, Len(file), c.task, "terminal") = {}
           /\ outcome \in {"responded", "failed", "unsent"}
<1> DEFINE r == TerminalRecord(c, run, outcome, n)
           delta == -pendingReservation(pending[c.task])
<1>1. r.phase = "terminal" /\ r.call = c /\ r.outcome = outcome
  BY Zenon DEF TerminalRecord
<1>2. delta \in Int
  BY ReservationType
<1>3. finishes(r) /\ (appendLocked(r, delta) \/ appendAmbiguous(r, delta))
      /\ (Finish(c, run, outcome, n) => appendLocked(r, delta))
  BY Zenon DEF Finish, FinishAmbiguous
<1>4. outcome \in {"responded", "failed", "unsent"}
  BY <1>1, <1>3, Zenon DEF finishes, validateEvent
<1>5. r \in Record
  BY <1>4, TerminalRecordType, Zenon
<1> HIDE DEF r, delta
<1>6. Accepted(r)
  BY <1>1, <1>3, Zenon DEF Accepted
<1>7. /\ Written(r)
      /\ appendLocked(r, delta) => Appended(file, r, file')
      /\ Hist(file, Len(file), spent, pending, runOwners)
      /\ TypeOK
  BY <1>2, <1>3, <1>5, <1>6, WriteKeepsLedger, Zenon
<1>8. pending[r.call.task] # None /\ validateTransition(pending[r.call.task], r)
  BY <1>3, Zenon DEF finishes
<1>9. /\ Authorized(file, Len(file), r.call)
      /\ Lines(file, Len(file), r.call.task, "terminal") = {}
  BY <1>5, <1>7, <1>8, PendingOpen, Zenon
<1> QED  BY <1>1, <1>3, <1>4, <1>7, <1>9, Zenon DEF r

LEMMA Unwritten ==
    ASSUME IInv, UNCHANGED ledgerVars
    PROVE  /\ IInv'
           /\ UNCHANGED <<file, mode, pos, failed, pending>>
           /\ verified' = verified
           /\ Known' = Known
<1>1. UNCHANGED <<file, mode, pos, failed, pending>>
  BY Zenon DEF ledgerVars, index
<1>2. verified' = verified /\ Known' = Known
  BY <1>1, Zenon DEF Known, Writable, verified
<1> QED  BY <1>1, <1>2, UnchangedIInv, Zenon

-----------------------------------------------------------------------------
(* Request h becomes y, its task t becomes s with e contacts.              *)
Moves(h, t, y, s, e) ==
    /\ serving
    /\ handlers' = [handlers EXCEPT ![h] = y]
    /\ serviceTasks' = [serviceTasks EXCEPT ![t] = s]
    /\ effects' = [effects EXCEPT ![t] = e]
    /\ y \in Request \cup {None} /\ s \in Receipt \cup {None} /\ e \in Nat
    /\ UNCHANGED <<grantVars, serving, stops>>
    /\ IInv' /\ mode' = mode /\ FileStep(t)
    /\ handlers[h] # None => taskOf(h) = t
    /\ y # None => y.call.task = t
    /\ mutation' # mutation => mutation \in {None, h} /\ mutation' \in {None, h}

LEMMA MovesTo ==
    ASSUME TaskInv, NEW h \in Handler, NEW t \in Task, NEW y, NEW s, NEW e, Moves(h, t, y, s, e)
    PROVE  /\ handlers'[h] = y /\ serviceTasks'[t] = s /\ effects'[t] = e
           /\ \A k \in Handler : k # h => handlers'[k] = handlers[k]
           /\ FileStep(t)
<1>1. /\ serviceTasks \in [Task -> Receipt \cup {None}]
      /\ handlers \in [Handler -> Request \cup {None}]
      /\ effects \in [Task -> Nat]
  BY Zenon DEF TaskInv, MemoryTypeOK
<1> QED  BY <1>1, Zenon DEF Moves

LEMMA MovesServe ==
    ASSUME TaskInv, NEW h \in Handler, NEW t \in Task, NEW y, NEW s, NEW e, Moves(h, t, y, s, e),
           Owed(h, t, y)
    PROVE  TaskInv'
<1>1. /\ serviceTasks \in [Task -> Receipt \cup {None}]
      /\ handlers \in [Handler -> Request \cup {None}]
      /\ effects \in [Task -> Nat]
      /\ mutation \in Handler \cup {None}
      /\ GrantsTypeOK
      /\ serving \in BOOLEAN
      /\ stops \in 0..MaxStops
  BY Zenon DEF TaskInv, MemoryTypeOK
<1>2. /\ serviceTasks' \in [Task -> Receipt \cup {None}]
      /\ handlers' \in [Handler -> Request \cup {None}]
      /\ effects' \in [Task -> Nat]
  BY <1>1, Zenon DEF Moves
<1>3. mutation' \in Handler \cup {None}
  BY <1>1, Zenon DEF Moves
<1>4. GrantsTypeOK' /\ serving' \in BOOLEAN /\ stops' \in 0..MaxStops
  BY <1>1, Zenon DEF Moves, GrantsTypeOK, grantVars
<1>5. MemoryTypeOK'
  BY <1>2, <1>3, <1>4, Zenon DEF MemoryTypeOK
<1>6. \A u \in Task : u # t => serviceTasks'[u] = serviceTasks[u] /\ effects'[u] = effects[u]
  BY <1>1, Zenon DEF Moves
<1>7. TaskStep(h, t, y)
  BY <1>6, Zenon DEF TaskStep, Moves
<1>8. IInv'
  BY Zenon DEF Moves
<1> QED  BY <1>5, <1>7, <1>8, Served, Zenon

(* A step of a request that its task, its mutation and the file do not     *)
(* notice.                                                                 *)
LEMMA QuietStep ==
    ASSUME TaskInv, NEW h \in Handler, NEW y \in Request \cup {None}, serving,
           handlers' = [handlers EXCEPT ![h] = y],
           UNCHANGED <<ledgerVars, grantVars, serviceTasks, mutation, serving, effects, stops>>,
           NEW t \in Task,
           handlers[h] # None => taskOf(h) = t,
           y # None => y.call.task = t,
           y # None => HandlerOK(h, y, serviceTasks, file, effects, mutation),
           y # None /\ y.pc \in Owning => handlers[h] # None /\ handlers[h].pc \in Owning,
           mutation = h => y # None /\ y.pc \in Held
    PROVE  TaskInv'
<1> DEFINE s == serviceTasks[t]
           e == effects[t]
<1>0. UNCHANGED <<serviceTasks, mutation, serving, effects>>
  OBVIOUS
<1>1. /\ serviceTasks \in [Task -> Receipt \cup {None}]
      /\ effects \in [Task -> Nat]
      /\ handlers \in [Handler -> Request \cup {None}]
  BY Zenon DEF TaskInv, MemoryTypeOK
<1>2. IInv' /\ UNCHANGED <<file, mode>>
  BY Unwritten, Zenon DEF TaskInv
<1>3. Moves(h, t, y, s, e)
  <2>1. serviceTasks' = [serviceTasks EXCEPT ![t] = s] /\ effects' = [effects EXCEPT ![t] = e]
        /\ s \in Receipt \cup {None} /\ e \in Nat
    BY <1>0, <1>1, Zenon
  <2>2. FileStep(t)
    BY <1>2, Zenon DEF FileStep
  <2> HIDE DEF s, e
  <2> QED  BY <1>2, <2>1, <2>2, Zenon DEF Moves
<1>4. ASSUME NEW k \in Handler, k # h, handlers[k] # None, taskOf(k) = t
      PROVE  Keeps(t, k)
  <2>1. HandlerOK(k, handlers[k], serviceTasks, file, effects, mutation)
    BY <1>4, Zenon DEF TaskInv, HandlersInv
  <2>2. handlers[k].call.task = t
    BY <1>4, Zenon DEF taskOf
  <2>3. Len(file') = Len(file)
    BY <1>2, Zenon
  <2> QED  BY <1>0, <1>2, <2>1, <2>2, <2>3, Zenon DEF Keeps, HandlerOK
<1>5. y # None => HandlerOK(h, y, serviceTasks', file', effects', mutation')
  BY <1>0, <1>2, Zenon
<1>6. ASSUME y # None, y.pc \in Owning, NEW k \in Handler, k # h
      PROVE  ~owns(k, t)
  BY <1>6, Zenon DEF TaskInv, OneOwner, owns
<1>7. EffectOK(file', t, effects'[t])
  BY <1>0, <1>2, Zenon DEF TaskInv, EffectsInv
<1>8. ASSUME Settled(t)'
      PROVE  Status(file', Len(file'), t, serviceTasks'[t])
  <2>1. Settled(t)
    <3> SUFFICES ASSUME mutation # None, taskOf(mutation) = t
                 PROVE  FALSE
      BY <1>0, <1>8, Zenon DEF Settled
    <3>1. mutation \in Handler
      BY Zenon DEF TaskInv, MutationInv
    <3>2. taskOf(mutation)' = t
      <4>1. CASE mutation = h
        BY <1>0, <1>1, <4>1, Zenon DEF taskOf
      <4>2. CASE mutation # h
        BY <1>0, <1>1, <3>1, <4>2, Zenon DEF taskOf
      <4> QED  BY <4>1, <4>2, Zenon
    <3> QED  BY <1>0, <1>8, <3>2, Zenon DEF Settled
  <2>2. Status(file, Len(file), t, serviceTasks[t])
    BY <2>1, Zenon DEF TaskInv, StatusInv
  <2> QED  BY <1>0, <1>2, <2>2, Zenon
<1>9. serviceTasks'[t] # None => /\ serviceTasks'[t].call.task = t
                                 /\ serviceTasks'[t].call.kind = "lifecycle_task"
  BY <1>0, Zenon DEF TaskInv, TasksOwn
<1>10. Owed(h, t, y)
  BY <1>0, <1>4, <1>5, <1>6, <1>7, <1>8, <1>9, Zenon DEF Owed
<1> QED  BY <1>3, <1>10, MovesServe, Zenon

-----------------------------------------------------------------------------
(* How a request changes.                                                  *)

LEMMA Requested ==
    ASSUME TaskInv, NEW h \in Handler, handlers[h] # None
    PROVE  /\ handlers[h] \in Request
           /\ handlers[h].call \in Calls
           /\ handlers[h].call.task \in Task
           /\ taskOf(h) = handlers[h].call.task
           /\ callOf(h) = handlers[h].call
           /\ serving
           /\ HandlerOK(h, handlers[h], serviceTasks, file, effects, mutation)
<1>1. handlers[h] \in Request /\ serving
      /\ HandlerOK(h, handlers[h], serviceTasks, file, effects, mutation)
  BY Zenon DEF TaskInv, MemoryTypeOK, HandlersInv
<1>2. handlers[h].call \in Calls
  BY <1>1, Zenon DEF Request
<1> QED  BY <1>1, <1>2, CallFields, Zenon DEF taskOf, callOf

Becomes(h, y, pc, outcome) ==
    /\ handlers' = [handlers EXCEPT ![h] = y]
    /\ y \in Request
    /\ y # None
    /\ y.pc = pc
    /\ y.call = handlers[h].call
    /\ y.outcome = outcome

LEMMA GotoIs ==
    ASSUME TaskInv, NEW h \in Handler, handlers[h] # None, NEW pc \in Pc, goto(h, pc)
    PROVE  \E y : Becomes(h, y, pc, handlers[h].outcome)
<1> DEFINE x == handlers[h]
           y == [x EXCEPT !.pc = pc]
<1>1. x \in Request /\ handlers \in [Handler -> Request \cup {None}]
  BY Zenon DEF TaskInv, MemoryTypeOK
<1>2. y \in Request /\ y.pc = pc /\ y.call = x.call /\ y.outcome = x.outcome
  BY <1>1, Zenon DEF Request
<1>3. y # None
  BY <1>2, TaskAssumption, Zenon
<1>4. handlers' = [handlers EXCEPT ![h] = y]
  BY <1>1, Zenon DEF goto
<1>5. Becomes(h, y, pc, x.outcome)
  BY <1>2, <1>3, <1>4, Zenon DEF Becomes
<1> QED  BY <1>5, Zenon

LEMMA ClosingIs ==
    ASSUME TaskInv, NEW h \in Handler, handlers[h] # None, NEW o \in Terminals,
           handlers' = [handlers EXCEPT ![h].pc = "closing", ![h].outcome = o]
    PROVE  \E y : Becomes(h, y, "closing", o)
<1> DEFINE x == handlers[h]
           y == [pc |-> "closing", call |-> x.call, lease |-> x.lease, outcome |-> o]
<1>1. x \in Request /\ handlers \in [Handler -> Request \cup {None}]
  BY Zenon DEF TaskInv, MemoryTypeOK
<1>2. y \in Request
  <2>1. x.call \in Calls /\ x.lease \in Nat /\ "closing" \in Pc
    BY <1>1, Zenon DEF Request, Pc
  <2> QED  BY <2>1, Zenon DEF Request
<1>3. y # None
  BY <1>2, TaskAssumption, Zenon
<1>4. handlers'[h] = y
  BY <1>1, Zenon DEF Request
<1>6. handlers' = [handlers EXCEPT ![h] = handlers'[h]]
  BY <1>1, Zenon
<1>5. Becomes(h, y, "closing", o)
  BY <1>2, <1>3, <1>4, <1>6, Zenon DEF Becomes
<1> QED  BY <1>5, Zenon

Enters(h, y, pc, c, outcome) ==
    /\ handlers' = [handlers EXCEPT ![h] = y]
    /\ y \in Request
    /\ y # None
    /\ y.pc = pc
    /\ y.call = c
    /\ y.outcome = outcome

LEMMA EnterIs ==
    ASSUME TaskInv, NEW h \in Handler, NEW pc \in Pc, NEW c \in Calls, NEW o \in Terminals,
           enter(h, pc, c, o)
    PROVE  \E y : Enters(h, y, pc, c, o)
<1> DEFINE y == [pc |-> pc, call |-> c, lease |-> revocations[c.grant], outcome |-> o]
<1>1. revocations[c.grant] \in Nat
  BY CallFields, Zenon DEF TaskInv, MemoryTypeOK, GrantsTypeOK
<1>2. y \in Request
  BY <1>1, Zenon DEF Request
<1>3. y # None
  BY <1>2, TaskAssumption, Zenon
<1>4. Enters(h, y, pc, c, o)
  BY <1>2, <1>3, Zenon DEF enter, Enters
<1> QED  BY <1>4, Zenon

(* A request goes on, and nothing else changes.                            *)
LEMMA QuietProgress ==
    ASSUME TaskInv, NEW h \in Handler, handlers[h] # None, NEW y, NEW pc, NEW o,
           Becomes(h, y, pc, o),
           UNCHANGED <<ledgerVars, grantVars, serviceTasks, mutation, serving, effects, stops>>,
           HandlerOK(h, y, serviceTasks, file, effects, mutation),
           pc \in Owning => handlers[h].pc \in Owning,
           handlers[h].pc \in Held => pc \in Held
    PROVE  TaskInv'
<1>1. mutation = h => pc \in Held
  BY TaskAssumption, Zenon DEF TaskInv, MutationInv
<1> QED  BY <1>1, Requested, QuietStep, Zenon DEF Becomes

-----------------------------------------------------------------------------
(* Requests that arrive, and the steps that change only their request.     *)

LEMMA SubmitInv ==
    ASSUME TaskInv, NEW h \in Handler, NEW c \in Calls, Submit(h, c)
    PROVE  TaskInv'
<1>1. "submitted" \in Pc /\ "open" \in Terminals
  BY Zenon DEF Pc, Terminals
<1>2. PICK y : Enters(h, y, "submitted", c, "open")
  <2>1. enter(h, "submitted", c, "open")
    BY Zenon DEF Submit
  <2> QED  BY <1>1, <2>1, EnterIs, Zenon
<1>3. HandlerOK(h, y, serviceTasks, file, effects, mutation) /\ y.pc \notin Owning
  BY <1>2, Zenon DEF HandlerOK, Owning, Held, Sending, Observing, Enters, Submit
<1>4. mutation # h
  BY TaskAssumption, Zenon DEF TaskInv, MutationInv, Submit
<1> QED  BY <1>2, <1>3, <1>4, CallFields, QuietStep, Zenon DEF Enters, Submit

LEMMA AttemptInferenceInv ==
    ASSUME TaskInv, NEW h \in Handler, NEW c \in Calls, AttemptInference(h, c)
    PROVE  TaskInv'
<1>1. "attempting" \in Pc /\ "open" \in Terminals
  BY Zenon DEF Pc, Terminals
<1>2. PICK y : Enters(h, y, "attempting", c, "open")
  <2>1. enter(h, "attempting", c, "open")
    BY Zenon DEF AttemptInference
  <2> QED  BY <1>1, <2>1, EnterIs, Zenon
<1>3. HandlerOK(h, y, serviceTasks, file, effects, mutation) /\ y.pc \notin Owning
  BY <1>2, Zenon DEF HandlerOK, Owning, Held, Sending, Observing, Enters, AttemptInference
<1>4. mutation # h
  BY TaskAssumption, Zenon DEF TaskInv, MutationInv, AttemptInference
<1> QED  BY <1>2, <1>3, <1>4, CallFields, QuietStep, Zenon DEF Enters, AttemptInference

LEMMA RecheckInv ==
    ASSUME TaskInv, NEW h \in Handler, Recheck(h)
    PROVE  TaskInv'
<1>1. handlers[h] # None /\ handlers[h].pc = "begun"
  BY Zenon DEF Recheck, at
<1>2. "dispatching" \in Pc /\ "unsent" \in Terminals
  BY Zenon DEF Pc, Terminals
<1>3. PICK y, pc, o : pc \in {"dispatching", "closing"} /\ Becomes(h, y, pc, o)
  <2>1. CASE goto(h, "dispatching")
    <3>1. \E y : Becomes(h, y, "dispatching", handlers[h].outcome)
      BY <1>1, <1>2, <2>1, GotoIs, Zenon
    <3> QED  BY <3>1
  <2>2. CASE handlers' = [handlers EXCEPT ![h].pc = "closing", ![h].outcome = "unsent"]
    <3>1. \E y : Becomes(h, y, "closing", "unsent")
      BY <1>1, <1>2, <2>2, ClosingIs, Zenon
    <3> QED  BY <3>1
  <2> QED  BY <2>1, <2>2, Zenon DEF Recheck
<1>4. HandlerOK(h, y, serviceTasks, file, effects, mutation)
  <2>1. HandlerOK(h, handlers[h], serviceTasks, file, effects, mutation)
    BY <1>1, Requested, Zenon
  <2> QED  BY <1>1, <1>3, <2>1, Zenon
           DEF HandlerOK, Becomes, Owning, Held, Sending, Observing
<1>5. handlers[h].pc \in Owning /\ handlers[h].pc \notin Held
  BY <1>1, Zenon DEF Owning, Sending, Held
<1> QED  BY <1>1, <1>3, <1>4, <1>5, QuietProgress, Zenon DEF Recheck

LEMMA RefuseInv ==
    ASSUME TaskInv, NEW h \in Handler, Refuse(h)
    PROVE  TaskInv'
<1>1. handlers[h] # None /\ handlers[h].pc = "contacted"
  BY Zenon DEF Refuse, at
<1>2. PICK y : Becomes(h, y, "closing", "failed")
  <2>1. "failed" \in Terminals
    BY Zenon DEF Terminals
  <2> QED  BY <1>1, <2>1, ClosingIs, Zenon DEF Refuse
<1>3. HandlerOK(h, y, serviceTasks, file, effects, mutation)
  <2>1. HandlerOK(h, handlers[h], serviceTasks, file, effects, mutation)
    BY <1>1, Requested, Zenon
  <2> QED  BY <1>1, <1>2, <2>1, Zenon
           DEF HandlerOK, Becomes, Owning, Held, Sending, Observing
<1>4. handlers[h].pc \in Owning /\ handlers[h].pc \notin Held
  BY <1>1, Zenon DEF Owning, Sending, Held
<1> QED  BY <1>1, <1>2, <1>3, <1>4, QuietProgress, Zenon DEF Refuse

(* The steps of an observer that write nothing.                            *)
LEMMA ObserverInv ==
    ASSUME TaskInv, NEW h \in Handler, StartPoll(h) \/ Polled(h) \/ CommitCheck(h)
    PROVE  TaskInv'
<1>1. handlers[h] # None /\ handlers[h].pc \in {"observing", "polling", "reported"}
      /\ UNCHANGED <<ledgerVars, grantVars, serviceTasks, mutation, serving, effects, stops>>
  BY Zenon DEF StartPoll, Polled, CommitCheck, at
<1>2. PICK pc \in {"polling", "reported", "committing", "ended"} : goto(h, pc)
  BY Zenon DEF StartPoll, Polled, CommitCheck
<1>3. PICK y, o : Becomes(h, y, pc, o)
  <2>1. pc \in Pc
    BY <1>2, Zenon DEF Pc
  <2> QED  BY <1>1, <1>2, <2>1, GotoIs, Zenon
<1>4. pc \in Observing /\ handlers[h].pc \in Observing
  BY <1>1, <1>2, Zenon DEF Observing
<1>5. \A p \in Observing : p \notin Owning /\ p \notin Held /\ p \notin Sending
                           /\ p \notin {"submitted", "attempting", "calling", "begun", "dispatching", "closing"}
  BY Zenon DEF Observing, Owning, Held, Sending
<1>6. HandlerOK(h, y, serviceTasks, file, effects, mutation)
  <2>1. HandlerOK(h, handlers[h], serviceTasks, file, effects, mutation)
    BY <1>1, Requested, Zenon
  <2> QED  BY <1>3, <1>4, <1>5, <2>1, Zenon DEF HandlerOK, Becomes
<1> QED  BY <1>1, <1>3, <1>4, <1>5, <1>6, QuietProgress, Zenon

-----------------------------------------------------------------------------
(* How a task in memory changes.                                           *)
Changes(t, s, run, terminal, doubt) ==
    /\ serviceTasks' = [serviceTasks EXCEPT ![t] = s]
    /\ s \in Receipt
    /\ s # None
    /\ s.call = serviceTasks[t].call
    /\ s.run = run
    /\ s.terminal = terminal
    /\ s.doubt = doubt

LEMMA ReceiptFields ==
    ASSUME TaskInv, NEW t \in Task, serviceTasks[t] # None
    PROVE  /\ serviceTasks[t] \in Receipt
           /\ serviceTasks \in [Task -> Receipt \cup {None}]
           /\ serviceTasks[t].call \in Calls
           /\ serviceTasks[t].call.task = t
           /\ serviceTasks[t].call.kind = "lifecycle_task"
           /\ serviceTasks[t].run \in Run \cup {None}
           /\ serviceTasks[t].terminal \in Terminals
<1>1. serviceTasks[t] \in Receipt /\ serviceTasks \in [Task -> Receipt \cup {None}]
  BY Zenon DEF TaskInv, MemoryTypeOK
<1>2. /\ serviceTasks[t].call \in Calls
      /\ serviceTasks[t].run \in Run \cup {None}
      /\ serviceTasks[t].terminal \in Terminals
  BY <1>1, Zenon DEF Receipt
<1> QED  BY <1>1, <1>2, Zenon DEF TaskInv, TasksOwn

LEMMA DoubtedIs ==
    ASSUME TaskInv, NEW t \in Task, serviceTasks[t] # None, doubted(t)
    PROVE  \E s : Changes(t, s, serviceTasks[t].run, serviceTasks[t].terminal, TRUE)
<1> DEFINE x == serviceTasks[t]
           s == [x EXCEPT !.doubt = TRUE]
<1>1. x \in Receipt
  BY ReceiptFields, Zenon
<1>2. s \in Receipt /\ s.call = x.call /\ s.run = x.run /\ s.terminal = x.terminal /\ s.doubt
  BY <1>1, Zenon DEF Receipt
<1>3. s # None
  BY <1>2, TaskAssumption, Zenon
<1>4. serviceTasks' = [serviceTasks EXCEPT ![t] = s]
  BY Zenon DEF doubted
<1>5. Changes(t, s, x.run, x.terminal, TRUE)
  BY <1>2, <1>3, <1>4, Zenon DEF Changes
<1> QED  BY <1>5, Zenon

LEMMA AcceptedIs ==
    ASSUME TaskInv, NEW t \in Task, serviceTasks[t] # None, NEW run \in Run,
           serviceTasks' = [serviceTasks EXCEPT ![t].run = run]
    PROVE  \E s : Changes(t, s, run, serviceTasks[t].terminal, serviceTasks[t].doubt)
<1> DEFINE x == serviceTasks[t]
           s == [x EXCEPT !.run = run]
<1>1. x \in Receipt
  BY ReceiptFields, Zenon
<1>2. s \in Receipt /\ s.call = x.call /\ s.run = run /\ s.terminal = x.terminal /\ s.doubt = x.doubt
  BY <1>1, Zenon DEF Receipt
<1>3. s # None
  BY <1>2, TaskAssumption, Zenon
<1>4. serviceTasks' = [serviceTasks EXCEPT ![t] = s]
  BY Zenon
<1>5. Changes(t, s, run, x.terminal, x.doubt)
  BY <1>2, <1>3, <1>4, Zenon DEF Changes
<1> QED  BY <1>5, Zenon

LEMMA TerminalIs ==
    ASSUME TaskInv, NEW t \in Task, serviceTasks[t] # None, NEW o \in Terminals,
           serviceTasks' = [serviceTasks EXCEPT ![t].terminal = o]
    PROVE  \E s : Changes(t, s, serviceTasks[t].run, o, serviceTasks[t].doubt)
<1> DEFINE x == serviceTasks[t]
           s == [x EXCEPT !.terminal = o]
<1>1. x \in Receipt
  BY ReceiptFields, Zenon
<1>2. s \in Receipt /\ s.call = x.call /\ s.run = x.run /\ s.terminal = o /\ s.doubt = x.doubt
  BY <1>1, Zenon DEF Receipt
<1>3. s # None
  BY <1>2, TaskAssumption, Zenon
<1>4. serviceTasks' = [serviceTasks EXCEPT ![t] = s]
  BY Zenon
<1>5. Changes(t, s, x.run, o, x.doubt)
  BY <1>2, <1>3, <1>4, Zenon DEF Changes
<1> QED  BY <1>5, Zenon

LEMMA ObservedIs ==
    ASSUME TaskInv, NEW t \in Task, serviceTasks[t] # None, NEW b \in BOOLEAN,
           serviceTasks' = [serviceTasks EXCEPT ![t].observing = b]
    PROVE  \E s : Changes(t, s, serviceTasks[t].run, serviceTasks[t].terminal, serviceTasks[t].doubt)
<1> DEFINE x == serviceTasks[t]
           s == [x EXCEPT !.observing = b]
<1>1. x \in Receipt
  BY ReceiptFields, Zenon
<1>2. s \in Receipt /\ s.call = x.call /\ s.run = x.run /\ s.terminal = x.terminal /\ s.doubt = x.doubt
  BY <1>1, Zenon DEF Receipt
<1>3. s # None
  BY <1>2, TaskAssumption, Zenon
<1>4. serviceTasks' = [serviceTasks EXCEPT ![t] = s]
  BY Zenon
<1>5. Changes(t, s, x.run, x.terminal, x.doubt)
  BY <1>2, <1>3, <1>4, Zenon DEF Changes
<1> QED  BY <1>5, Zenon

-----------------------------------------------------------------------------
(* The other requests about the task of a step.                            *)

(* No other request owns the task, and observers keep their run.           *)
LEMMA OwnerKeeps ==
    ASSUME TaskInv, NEW h \in Handler, NEW t \in Task, owns(h, t),
           \/ serviceTasks[t].run = None
           \/ /\ serviceTasks'[t] # None
              /\ serviceTasks'[t].call = serviceTasks[t].call
              /\ serviceTasks'[t].run # None,
           NEW k \in Handler, k # h, handlers[k] # None, taskOf(k) = t
    PROVE  Keeps(t, k) /\ ~owns(k, t)
<1>1. ~owns(k, t) /\ handlers[k].pc \notin Owning
  BY Zenon DEF TaskInv, OneOwner, owns
<1>2. handlers[k].pc \notin Held /\ handlers[k].pc \notin Sending
  BY <1>1, Zenon DEF Owning
<1>3. handlers[k].pc \in Observing => serviceTasks[t].run # None
  BY Requested, Zenon DEF HandlerOK, taskOf
<1> QED  BY <1>1, <1>2, <1>3, Zenon DEF Keeps

(* The step is not the owner's: it must leave what the owner relies on.    *)
LEMMA BystanderKeeps ==
    ASSUME TaskInv, NEW t \in Task,
           serviceTasks[t] # None => /\ serviceTasks'[t] # None
                                     /\ serviceTasks'[t].call = serviceTasks[t].call
                                     /\ serviceTasks'[t].run = serviceTasks[t].run,
           serviceTasks'[t] = serviceTasks[t] \/ serviceTasks[t].run # None,
           mutation' = mutation,
           NoTask(file, Len(file), t) => NoTask(file', Len(file'), t),
           effects'[t] = effects[t],
           Unsent(file', t) => Unsent(file, t),
           NEW k \in Handler, handlers[k] # None, taskOf(k) = t
    PROVE  Keeps(t, k)
<1>1. HandlerOK(k, handlers[k], serviceTasks, file, effects, mutation) /\ handlers[k].call.task = t
  BY Requested, Zenon
<1>2. handlers[k].pc \in Owning \cup Observing => serviceTasks[t] # None
  BY <1>1, Zenon DEF HandlerOK
<1>3. handlers[k].pc \in Held => serviceTasks[t].run = None /\ NoTask(file, Len(file), t)
  <2>1. \A c : receipt(c).run = None
    BY Zenon DEF receipt
  <2> QED  BY <1>1, <2>1, Zenon DEF HandlerOK
<1>4. handlers[k].pc \in Sending => ~Unsent(file, t)
  BY <1>1, Zenon DEF HandlerOK
<1> QED  BY <1>2, <1>3, <1>4, Zenon DEF Keeps

(* A task absent from memory has no owner and no observer.                 *)
LEMMA AbsentKeeps ==
    ASSUME TaskInv, NEW t \in Task, serviceTasks[t] = None,
           NEW k \in Handler, handlers[k] # None, taskOf(k) = t
    PROVE  Keeps(t, k) /\ ~owns(k, t)
<1>1. handlers[k].pc \notin Owning \cup Observing
  BY Requested, Zenon DEF HandlerOK
<1> QED  BY <1>1, Zenon DEF Keeps, owns, Owning

-----------------------------------------------------------------------------
(* The owner's steps.                                                      *)

LEMMA ReserveInv ==
    ASSUME TaskInv, NEW h \in Handler, Reserve(h)
    PROVE  TaskInv'
<1> DEFINE c == handlers[h].call
           t == handlers[h].call.task
<1>1. handlers[h] # None /\ handlers[h].pc = "submitted" /\ mutation = None
  BY Zenon DEF Reserve, at
<1>2. /\ c \in Calls /\ t \in Task /\ c.kind = "lifecycle_task"
      /\ serving /\ taskOf(h) = t /\ callOf(h) = c
  BY <1>1, Requested, Zenon DEF HandlerOK
<1>3. CASE return(h) /\ UNCHANGED <<serviceTasks, mutation>>
  <2>1. UNCHANGED <<ledgerVars, grantVars, serviceTasks, mutation, serving, effects, stops>>
    BY <1>3, Zenon DEF Reserve
  <2>2. mutation # h
    BY <1>1, TaskAssumption, Zenon
  <2> QED  BY <1>1, <1>2, <1>3, <2>1, <2>2, QuietStep, Zenon DEF return
<1>4. CASE /\ serviceTasks[t] = None
           /\ serviceTasks' = [serviceTasks EXCEPT ![t] = receipt(c)]
           /\ mutation' = h
           /\ goto(h, "reserved")
  <2> DEFINE s == receipt(c)
             e == effects[t]
  <2>1. PICK y, o : Becomes(h, y, "reserved", o)
    <3>1. "reserved" \in Pc
      BY Zenon DEF Pc
    <3> QED  BY <1>1, <1>4, <3>1, GotoIs, Zenon
  <2>2. UNCHANGED <<grantVars, serving, effects, stops>> /\ IInv' /\ UNCHANGED <<file, mode>>
    BY Unwritten, Zenon DEF Reserve, TaskInv
  <2>3. s \in Receipt /\ s.call = c
    BY <1>2, Zenon DEF Receipt, receipt, Terminals
  <2>4. s # None
    BY <2>3, TaskAssumption, Zenon
  <2>5. effects \in [Task -> Nat] /\ e \in Nat /\ effects' = [effects EXCEPT ![t] = e]
    BY <1>2, <2>2, Zenon DEF TaskInv, MemoryTypeOK
  <2>6. Moves(h, t, y, s, e)
    <3>1. FileStep(t)
      BY <2>2, Zenon DEF FileStep
    <3> HIDE DEF s, e
    <3> QED  BY <1>1, <1>2, <1>4, <2>1, <2>2, <2>3, <2>5, <3>1, Zenon DEF Moves, Becomes, s
  <2>7. serviceTasks'[t] = s /\ effects'[t] = e /\ handlers'[h] = y
    <3> HIDE DEF t, s, e
    <3> QED  BY <1>2, <2>6, MovesTo
  <2>8. NoTask(file', Len(file'), t)
    <3>1. Settled(t)
      BY <1>1, <1>4, Zenon DEF Settled
    <3>2. Status(file, Len(file), t, serviceTasks[t])
      BY <1>2, <3>1, Zenon DEF TaskInv, StatusInv
    <3>3. NoTask(file, Len(file), t)
      BY <1>4, <3>2, Zenon DEF Status
    <3> QED  BY <2>2, <3>3, Zenon
  <2>9. HandlerOK(h, y, serviceTasks', file', effects', mutation')
    <3>1. y.pc = "reserved" /\ y.call = c
      BY <2>1, Zenon DEF Becomes
    <3> HIDE DEF c, t, s
    <3>2. c.task = t /\ s = receipt(c)
      BY Zenon DEF c, t, s
    <3> QED  BY <1>2, <1>4, <2>3, <2>4, <2>7, <2>8, <3>1, <3>2, Zenon
             DEF HandlerOK, Owning, Held, Sending, Observing
  <2>10. ASSUME NEW k \in Handler, k # h
         PROVE  ~owns(k, t) /\ (handlers[k] # None /\ taskOf(k) = t => Keeps(t, k))
    BY <1>2, <1>4, <2>10, AbsentKeeps, Zenon DEF owns
  <2>11. EffectOK(file', t, effects'[t])
    BY <1>2, <2>2, Zenon DEF TaskInv, EffectsInv
  <2>12. ~Settled(t)'
    <3>1. mutation' = h /\ h # None /\ handlers'[h].call.task = t
      BY <1>4, <2>1, <2>7, TaskAssumption, Zenon DEF Becomes
    <3> QED  BY <3>1, Zenon DEF Settled, taskOf
  <2>13. y.pc \in Held
    BY <2>1, Zenon DEF Becomes, Held
  <2>14. serviceTasks'[t].call.task = t /\ serviceTasks'[t].call.kind = "lifecycle_task"
    BY <1>2, <2>3, <2>7, Zenon
  <2>15. y # None
    BY <2>1, Zenon DEF Becomes
  <2> HIDE DEF c, t, s, e
  <2>16. Owed(h, t, y)
    BY <2>9, <2>10, <2>11, <2>12, <2>13, <2>14, <2>15, Zenon DEF Owed
  <2> QED  BY <1>2, <2>6, <2>16, MovesServe, Zenon
<1> QED  BY <1>2, <1>3, <1>4, Zenon DEF Reserve

(* A step of the request that owns the task.                               *)
LEMMA OwnerStep ==
    ASSUME TaskInv, NEW h \in Handler, NEW t \in Task, NEW y, NEW s, NEW e, Moves(h, t, y, s, e),
           owns(h, t),
           s # None => s.call = serviceTasks[t].call,
           \/ serviceTasks[t].run = None
           \/ s # None /\ s.run # None,
           y # None => HandlerOK(h, y, serviceTasks', file', effects', mutation'),
           mutation' = h => y # None /\ y.pc \in Held,
           EffectOK(file', t, e),
           Settled(t)' => Status(file', Len(file'), t, s)
    PROVE  TaskInv'
<1>1. serviceTasks'[t] = s /\ effects'[t] = e
  BY MovesTo
<1>2. ASSUME NEW k \in Handler, k # h
      PROVE  ~owns(k, t) /\ (handlers[k] # None /\ taskOf(k) = t => Keeps(t, k))
  BY <1>1, <1>2, OwnerKeeps, Zenon DEF owns
<1>3. serviceTasks[t] # None
  BY Requested, Zenon DEF owns, HandlerOK
<1>4. s # None => s.call.task = t /\ s.call.kind = "lifecycle_task"
  BY <1>3, ReceiptFields, Zenon
<1>5. Owed(h, t, y)
  BY <1>1, <1>2, <1>4, Zenon DEF Owed
<1> QED  BY <1>5, MovesServe, Zenon

(* A step of another request about the task.                               *)
LEMMA BystanderStep ==
    ASSUME TaskInv, NEW h \in Handler, NEW t \in Task, NEW y, NEW s, Moves(h, t, y, s, effects[t]),
           UNCHANGED mutation,
           handlers[h] # None => handlers[h].pc \notin Held,
           serviceTasks[t] = None => s = None,
           serviceTasks[t] # None => /\ s # None
                                     /\ s.call = serviceTasks[t].call
                                     /\ s.run = serviceTasks[t].run
                                     /\ s.doubt \/ s.doubt = serviceTasks[t].doubt,
           s = serviceTasks[t] \/ serviceTasks[t].run # None,
           y # None => HandlerOK(h, y, serviceTasks', file', effects', mutation') /\ y.pc \notin Owning,
           NoTask(file', Len(file'), t) <=> NoTask(file, Len(file), t),
           Unsent(file', t) <=> Unsent(file, t),
           Status(file, Len(file), t, serviceTasks[t]) /\ ~(s # None /\ s.doubt)
               => Status(file', Len(file'), t, s)
    PROVE  TaskInv'
<1>1. serviceTasks'[t] = s /\ effects'[t] = effects[t] /\ handlers'[h] = y
      /\ \A k \in Handler : k # h => handlers'[k] = handlers[k]
  BY MovesTo
<1>2. ASSUME NEW k \in Handler, k # h, handlers[k] # None, taskOf(k) = t
      PROVE  Keeps(t, k)
  BY <1>1, <1>2, BystanderKeeps, Zenon
<1>3. mutation # h
  BY TaskAssumption, Zenon DEF TaskInv, MutationInv
<1>4. EffectOK(file', t, effects'[t])
  BY <1>1, Zenon DEF TaskInv, EffectsInv, EffectOK
<1>5. ASSUME Settled(t)'
      PROVE  Status(file', Len(file'), t, serviceTasks'[t])
  <2>1. ~(s # None /\ s.doubt)
    BY <1>1, <1>5, Zenon DEF Settled
  <2>2. ~(mutation # None /\ taskOf(mutation) = t)
    <3>1. mutation # None => mutation \in Handler
      BY Zenon DEF TaskInv, MutationInv
    <3>2. mutation # None => taskOf(mutation)' = taskOf(mutation)
      BY <1>1, <1>3, <3>1, Zenon DEF taskOf
    <3> QED  BY <1>5, <3>2, Zenon DEF Settled
  <2>3. Settled(t)
    BY <2>1, <2>2, Zenon DEF Settled
  <2>4. Status(file, Len(file), t, serviceTasks[t])
    BY <2>3, Zenon DEF TaskInv, StatusInv, Moves
  <2> QED  BY <1>1, <2>1, <2>4, Zenon
<1>6. s # None => s.call.task = t /\ s.call.kind = "lifecycle_task"
  BY ReceiptFields, Zenon
<1>7. Owed(h, t, y)
  BY <1>1, <1>2, <1>3, <1>4, <1>5, <1>6, Zenon DEF Owed
<1> QED  BY <1>7, MovesServe, Zenon

(* A task held by its request is in memory only.                           *)
LEMMA HeldFacts ==
    ASSUME TaskInv, NEW h \in Handler, handlers[h] # None, handlers[h].pc \in Held,
           NEW c, c = handlers[h].call, NEW t, t = c.task
    PROVE  /\ owns(h, t) /\ c \in Calls /\ t \in Task /\ c.kind = "lifecycle_task"
           /\ callOf(h) = c /\ taskOf(h) = t
           /\ serviceTasks[t] = receipt(c) /\ serviceTasks[t] # None
           /\ receipt(c).run = None /\ receipt(c).terminal = "open" /\ receipt(c).call = c
           /\ mutation = h /\ serving
           /\ NoTask(file, Len(file), t)
           /\ effects[t] = 0
<1>1. handlers[h].pc \in Owning
  BY Zenon DEF Owning
<1>2. /\ HandlerOK(h, handlers[h], serviceTasks, file, effects, mutation)
      /\ c \in Calls /\ t \in Task /\ callOf(h) = c /\ taskOf(h) = t /\ serving
  BY Requested, Zenon
<1>3. /\ serviceTasks[t] = receipt(c) /\ serviceTasks[t] # None
      /\ c.kind = "lifecycle_task" /\ mutation = h /\ NoTask(file, Len(file), t)
  BY <1>1, <1>2, Zenon DEF HandlerOK
<1>4. effects[t] = 0
  BY <1>2, <1>3, Zenon DEF TaskInv, EffectsInv, EffectOK
<1>5. receipt(c).run = None /\ receipt(c).terminal = "open" /\ receipt(c).call = c
  BY Zenon DEF receipt
<1> QED  BY <1>1, <1>2, <1>3, <1>4, <1>5, Zenon DEF owns

(* The first authorization of a task is all that the file has on it.       *)
LEMMA FirstAuthorization ==
    ASSUME NoDenials, NEW r, Appended(file, r, file'), r.phase = "authorize",
           NEW c, r.call = c,
           \A i \in 1..Len(file) : file[i].phase # "deny" => file[i].call.task # c.task
    PROVE  /\ Authorized(file', Len(file'), c)
           /\ Lines(file', Len(file'), c.task, "dispatch") = {}
           /\ Lines(file', Len(file'), c.task, "terminal") = {}
<1>1. Authorized(file', Len(file'), c)
  BY Zenon DEF Authorized, Appended
<1>2. \A i \in 1..Len(file) : file[i].call.task # c.task
  BY Zenon DEF NoDenials
<1>3. ASSUME NEW i \in 1..Len(file'), file'[i].call.task = c.task
      PROVE  file'[i].phase = "authorize"
  BY <1>2, <1>3, Zenon DEF Appended
<1>4. \A i \in 1..Len(file') : file'[i].call.task = c.task
          => file'[i].phase # "dispatch" /\ file'[i].phase # "terminal"
  BY <1>3, Zenon
<1> QED  BY <1>1, <1>4, Zenon DEF Lines

(* A step that writes nothing or one line of its task.                     *)
LEMMA WrittenStep ==
    ASSUME NEW r, Written(r), NoDenials, r.phase # "deny"
    PROVE  FileStep(r.call.task) /\ IInv' /\ mode' = mode
BY Zenon DEF Written, FileStep

LEMMA BeginTaskInv ==
    ASSUME TaskInv, NEW h \in Handler, BeginTask(h)
    PROVE  TaskInv'
<1>0. PICK c, t : c = handlers[h].call /\ t = c.task
  OBVIOUS
<1>1. handlers[h] # None /\ handlers[h].pc = "reserved" /\ UNCHANGED <<grantVars, serving, effects, stops>>
  BY Zenon DEF BeginTask, at
<1>2. handlers[h].pc \in Held /\ handlers[h].pc \in Owning
  BY <1>1, Zenon DEF Held, Owning
<1>3. /\ owns(h, t) /\ c \in Calls /\ t \in Task /\ c.kind = "lifecycle_task"
      /\ callOf(h) = c /\ taskOf(h) = t
      /\ serviceTasks[t] = receipt(c) /\ serviceTasks[t] # None
      /\ receipt(c).run = None /\ receipt(c).terminal = "open" /\ receipt(c).call = c
      /\ mutation = h /\ serving
      /\ NoTask(file, Len(file), t)
      /\ effects[t] = 0
  BY <1>0, <1>1, <1>2, HeldFacts
<1>4. PICK n \in LineSizes :
         \/ Begin(c, n) /\ goto(h, "begun") /\ mutation' = None /\ UNCHANGED serviceTasks
         \/ BeginAmbiguous(c, n) /\ return(h) /\ mutation' = None /\ doubted(t)
         \/ UNCHANGED ledgerVars /\ goto(h, "rejected") /\ UNCHANGED <<mutation, serviceTasks>>
  BY <1>0, <1>3, Zenon DEF BeginTask, rejected
<1>5. /\ effects \in [Task -> Nat] /\ effects' = [effects EXCEPT ![t] = 0]
      /\ serviceTasks \in [Task -> Receipt \cup {None}]
      /\ serviceTasks[t] \in Receipt
  BY <1>1, <1>3, Zenon DEF TaskInv, MemoryTypeOK
<1>6. /\ AuthorizeRecord(c, n).call = c
      /\ AuthorizeRecord(c, n).phase = "authorize"
      /\ AuthorizeRecord(c, n).phase # "deny"
  BY Zenon DEF AuthorizeRecord
<1>7. ASSUME Begin(c, n) \/ BeginAmbiguous(c, n)
      PROVE  /\ FileStep(t) /\ IInv' /\ mode' = mode
             /\ Begin(c, n) => Appended(file, AuthorizeRecord(c, n), file')
             /\ \A i \in 1..Len(file) : file[i].phase # "deny" => file[i].call.task # c.task
  <2>1. /\ Written(AuthorizeRecord(c, n))
        /\ Begin(c, n) => Appended(file, AuthorizeRecord(c, n), file')
        /\ \A i \in 1..Len(file) : file[i].phase # "deny" => file[i].call.task # c.task
    BY <1>3, <1>7, BeginWrites, Zenon DEF TaskInv
  <2>2. FileStep(AuthorizeRecord(c, n).call.task) /\ IInv' /\ mode' = mode
    BY <1>6, <2>1, WrittenStep, Zenon DEF TaskInv
  <2> QED  BY <1>0, <1>6, <2>1, <2>2, Zenon
<1>8. 0 \in Nat /\ EffectOK(file', t, 0)
  BY DEF EffectOK
<1>9. CASE Begin(c, n) /\ goto(h, "begun") /\ mutation' = None /\ UNCHANGED serviceTasks
  <2>1. PICK y, o : Becomes(h, y, "begun", o)
    <3>1. "begun" \in Pc
      BY Zenon DEF Pc
    <3> QED  BY <1>1, <1>9, <3>1, GotoIs, Zenon
  <2>2. PICK s : s = serviceTasks[t]
    OBVIOUS
  <2>3. serviceTasks' = [serviceTasks EXCEPT ![t] = s]
    BY <1>3, <1>5, <1>9, <2>2, Zenon
  <2>4. Moves(h, t, y, s, 0)
    BY <1>0, <1>1, <1>3, <1>5, <1>7, <1>8, <1>9, <2>1, <2>2, <2>3, ZenonT(40) DEF Moves, Becomes
  <2>5. /\ Authorized(file', Len(file'), c)
        /\ Lines(file', Len(file'), t, "dispatch") = {}
        /\ Lines(file', Len(file'), t, "terminal") = {}
    BY <1>0, <1>6, <1>7, <1>9, FirstAuthorization, Zenon DEF TaskInv
  <2>6. HandlerOK(h, y, serviceTasks', file', effects', mutation')
    <3>1. y.pc = "begun" /\ y.call = c /\ y.call.task = t
      BY <1>0, <2>1, Zenon DEF Becomes
    <3>2. serviceTasks'[t] = s /\ effects'[t] = 0
      BY <1>3, <2>4, MovesTo
    <3>3. s # None /\ s.call = c
      BY <1>3, <2>2, Zenon
    <3>4. ~Unsent(file', t)
      BY <2>5, Zenon DEF Unsent
    <3> QED  BY <1>3, <2>5, <3>1, <3>2, <3>3, <3>4, Zenon
             DEF HandlerOK, Owning, Held, Sending, Observing
  <2>7. Reported(file', Len(file'), t, s)
    BY <1>3, <2>2, <2>5, Zenon DEF Reported
  <2>8. Status(file', Len(file'), t, s)
    BY <1>3, <2>2, <2>7, ZenonT(40) DEF Status
  <2>9. mutation' # h
    BY <1>9, TaskAssumption, Zenon
  <2> QED  BY <1>3, <1>8, <2>2, <2>4, <2>6, <2>8, <2>9, OwnerStep
<1>10. CASE BeginAmbiguous(c, n) /\ return(h) /\ mutation' = None /\ doubted(t)
  <2>1. PICK s : Changes(t, s, serviceTasks[t].run, serviceTasks[t].terminal, TRUE)
    BY <1>3, <1>10, DoubtedIs, Zenon
  <2>2. None \in Request \cup {None}
    BY Zenon
  <2>3. Moves(h, t, None, s, 0)
    BY <1>1, <1>3, <1>5, <1>7, <1>8, <1>10, <2>1, <2>2, Zenon DEF Moves, Changes, return
  <2>4. serviceTasks'[t] = s
    BY <1>3, <2>3, MovesTo
  <2>5. ~Settled(t)' /\ s.call = serviceTasks[t].call
    BY <2>1, <2>4, Zenon DEF Settled, Changes
  <2>6. mutation' # h
    BY <1>10, TaskAssumption, Zenon
  <2> QED  BY <1>3, <1>8, <2>3, <2>5, <2>6, OwnerStep
<1>11. CASE UNCHANGED ledgerVars /\ goto(h, "rejected") /\ UNCHANGED <<mutation, serviceTasks>>
  <2>1. PICK y, o : Becomes(h, y, "rejected", o)
    <3>1. "rejected" \in Pc
      BY Zenon DEF Pc
    <3> QED  BY <1>1, <1>11, <3>1, GotoIs, Zenon
  <2>2. HandlerOK(h, y, serviceTasks, file, effects, mutation)
    BY <1>0, <1>3, <2>1, Zenon DEF HandlerOK, Becomes, Owning, Held, Sending, Observing
  <2>3. "rejected" \in Held
    BY Zenon DEF Held
  <2> QED  BY <1>1, <1>2, <1>11, <2>1, <2>2, <2>3, QuietProgress, Zenon
<1> QED  BY <1>4, <1>9, <1>10, <1>11, Zenon

LEMMA SettleRejectionInv ==
    ASSUME TaskInv, NEW h \in Handler, SettleRejection(h)
    PROVE  TaskInv'
<1>0. PICK c, t : c = handlers[h].call /\ t = c.task
  OBVIOUS
<1>1. /\ handlers[h] # None /\ handlers[h].pc = "rejected" /\ mutation' = None /\ return(h)
      /\ UNCHANGED <<ledgerVars, grantVars, serving, effects, stops>>
  BY Zenon DEF SettleRejection, at
<1>2. handlers[h].pc \in Held
  BY <1>1, Zenon DEF Held
<1>3. /\ owns(h, t) /\ t \in Task /\ taskOf(h) = t
      /\ serviceTasks[t] = receipt(c) /\ serviceTasks[t] # None
      /\ receipt(c).run = None
      /\ mutation = h /\ serving
      /\ NoTask(file, Len(file), t)
      /\ effects[t] = 0
  BY <1>0, <1>1, <1>2, HeldFacts
<1>4. IInv' /\ UNCHANGED <<file, mode>> /\ FileStep(t) /\ UNCHANGED <<grantVars, serving, stops>>
  BY <1>1, Unwritten, Zenon DEF TaskInv, FileStep
<1>5. /\ effects' = [effects EXCEPT ![t] = 0]
      /\ 0 \in Nat /\ None \in Request \cup {None} /\ None \in Receipt \cup {None}
  BY <1>1, <1>3, Zenon DEF TaskInv, MemoryTypeOK
<1>6. EffectOK(file', t, 0) /\ mutation' # h
  <2>1. EffectOK(file', t, 0)
    BY DEF EffectOK
  <2> QED  BY <1>1, <2>1, TaskAssumption, Zenon
<1>7. CASE doubted(t)
  <2>1. PICK s : Changes(t, s, serviceTasks[t].run, serviceTasks[t].terminal, TRUE)
    BY <1>3, <1>7, DoubtedIs, Zenon
  <2>2. Moves(h, t, None, s, 0)
    BY <1>1, <1>3, <1>4, <1>5, <2>1, Zenon DEF Moves, Changes, return
  <2>3. serviceTasks'[t] = s
    BY <1>3, <2>2, MovesTo
  <2>4. ~Settled(t)' /\ s.call = serviceTasks[t].call
    BY <2>1, <2>3, Zenon DEF Settled, Changes
  <2> QED  BY <1>3, <1>6, <2>2, <2>4, OwnerStep
<1>8. CASE serviceTasks' = [serviceTasks EXCEPT ![t] = None]
  <2>1. Moves(h, t, None, None, 0)
    BY <1>1, <1>3, <1>4, <1>5, <1>8, Zenon DEF Moves, return
  <2>2. Status(file', Len(file'), t, None)
    BY <1>3, <1>4, Zenon DEF Status
  <2> QED  BY <1>3, <1>6, <2>1, <2>2, OwnerStep
<1> QED  BY <1>3, <1>7, <1>8, Zenon DEF SettleRejection

LEMMA AuthorizedTask ==
    ASSUME NEW f, NEW c, Authorized(f, Len(f), c), c.kind = "lifecycle_task"
    PROVE  ~NoTask(f, Len(f), c.task)
BY Zenon DEF Authorized, NoTask, Lines

(* A task whose authorization is on disk, with the request that owns it.   *)
LEMMA OwnerFacts ==
    ASSUME TaskInv, NEW h \in Handler, handlers[h] # None,
           handlers[h].pc \in Sending \cup {"closing"},
           NEW c, c = handlers[h].call, NEW t, t = c.task
    PROVE  /\ owns(h, t) /\ c \in Calls /\ t \in Task /\ c.kind = "lifecycle_task"
           /\ callOf(h) = c /\ taskOf(h) = t
           /\ serviceTasks[t] # None /\ serviceTasks[t].call = c
           /\ serving
           /\ handlers[h].pc \notin Held /\ handlers[h].pc \in Owning
           /\ Authorized(file, Len(file), c)
           /\ ~NoTask(file, Len(file), t)
           /\ EffectOK(file, t, effects[t])
           /\ mutation # h
<1>1. handlers[h].pc \in Owning /\ handlers[h].pc \notin Held
  BY Zenon DEF Owning, Held, Sending
<1>2. /\ HandlerOK(h, handlers[h], serviceTasks, file, effects, mutation)
      /\ c \in Calls /\ t \in Task /\ callOf(h) = c /\ taskOf(h) = t /\ serving
  BY Requested, Zenon
<1>3. /\ serviceTasks[t] # None /\ serviceTasks[t].call = c
      /\ c.kind = "lifecycle_task" /\ Authorized(file, Len(file), c)
  BY <1>1, <1>2, Zenon DEF HandlerOK
<1>4. ~NoTask(file, Len(file), t)
  BY <1>3, AuthorizedTask, Zenon
<1>5. EffectOK(file, t, effects[t])
  BY <1>2, Zenon DEF TaskInv, EffectsInv
<1>6. mutation # h
  BY <1>1, TaskAssumption, Zenon DEF TaskInv, MutationInv
<1> QED  BY <1>1, <1>2, <1>3, <1>4, <1>5, <1>6, Zenon DEF owns

(* A task is no less settled before a step that keeps the mutation and the *)
(* doubt.                                                                  *)
LEMMA SettledBefore ==
    ASSUME TaskInv, NEW h \in Handler, NEW t, Settled(t)', mutation' = mutation, mutation # h,
           \A k \in Handler : k # h => handlers'[k] = handlers[k],
           serviceTasks[t] # None => /\ serviceTasks'[t] # None
                                     /\ serviceTasks[t].doubt => serviceTasks'[t].doubt
    PROVE  Settled(t)
<1>1. ~(serviceTasks[t] # None /\ serviceTasks[t].doubt)
  BY Zenon DEF Settled
<1>2. mutation # None => mutation \in Handler
  BY Zenon DEF TaskInv, MutationInv
<1>3. mutation # None => taskOf(mutation)' = taskOf(mutation)
  BY <1>2, Zenon DEF taskOf
<1>4. ~(mutation # None /\ taskOf(mutation) = t)
  BY <1>3, Zenon DEF Settled
<1> QED  BY <1>1, <1>4, Zenon DEF Settled

LEMMA ContactInv ==
    ASSUME TaskInv, NEW h \in Handler, Contact(h)
    PROVE  TaskInv'
<1>0. PICK c, t : c = handlers[h].call /\ t = c.task
  OBVIOUS
<1>1. /\ handlers[h] # None /\ handlers[h].pc = "dispatching" /\ goto(h, "contacted")
      /\ UNCHANGED <<ledgerVars, grantVars, serviceTasks, mutation, serving, stops>>
  BY Zenon DEF Contact, at
<1>2. handlers[h].pc \in Sending \cup {"closing"} /\ handlers[h].pc \in Sending
  BY <1>1, Zenon DEF Sending
<1>3. /\ owns(h, t) /\ c \in Calls /\ t \in Task /\ c.kind = "lifecycle_task"
      /\ callOf(h) = c /\ taskOf(h) = t
      /\ serviceTasks[t] # None /\ serviceTasks[t].call = c
      /\ serving
      /\ Authorized(file, Len(file), c)
      /\ ~NoTask(file, Len(file), t)
      /\ mutation # h
  BY <1>0, <1>1, <1>2, OwnerFacts
<1>4. effects[t] = 0 /\ ~Unsent(file, t)
  <2>1. HandlerOK(h, handlers[h], serviceTasks, file, effects, mutation)
    BY <1>1, Requested, Zenon
  <2> QED  BY <1>0, <1>1, <1>2, <2>1, Zenon DEF HandlerOK
<1>5. effects' = [effects EXCEPT ![t] = 1] /\ 1 \in Nat
  BY <1>3, <1>4 DEF Contact
<1>6. PICK y, o : Becomes(h, y, "contacted", o)
  <2>1. "contacted" \in Pc
    BY Zenon DEF Pc
  <2> QED  BY <1>1, <2>1, GotoIs, Zenon
<1>7. PICK s : s = serviceTasks[t]
  OBVIOUS
<1>8. serviceTasks' = [serviceTasks EXCEPT ![t] = s] /\ s \in Receipt \cup {None}
  BY <1>1, <1>3, <1>7, Zenon DEF TaskInv, MemoryTypeOK
<1>9. IInv' /\ UNCHANGED <<file, mode>> /\ FileStep(t) /\ UNCHANGED <<grantVars, serving, stops>>
  BY <1>1, Unwritten, Zenon DEF TaskInv, FileStep
<1>10. Moves(h, t, y, s, 1)
  BY <1>0, <1>1, <1>3, <1>5, <1>6, <1>8, <1>9, Zenon DEF Moves, Becomes
<1>11. serviceTasks'[t] = s /\ effects'[t] = 1 /\ handlers'[h] = y
       /\ \A k \in Handler : k # h => handlers'[k] = handlers[k]
  BY <1>3, <1>10, MovesTo
<1>12. HandlerOK(h, y, serviceTasks', file', effects', mutation')
  <2>1. y.pc = "contacted" /\ y.call = c /\ y.call.task = t
    BY <1>0, <1>6, Zenon DEF Becomes
  <2> QED  BY <1>3, <1>4, <1>7, <1>9, <1>11, <2>1, Zenon
           DEF HandlerOK, Owning, Held, Sending, Observing
<1>13. EffectOK(file', t, 1)
  BY <1>3, <1>4, <1>9 DEF EffectOK
<1>14. ASSUME Settled(t)'
       PROVE  Status(file', Len(file'), t, s)
  <2>3. Settled(t)
    BY <1>1, <1>3, <1>7, <1>11, <1>14, SettledBefore, Zenon
  <2>4. Status(file, Len(file), t, s)
    BY <1>3, <1>7, <2>3, Zenon DEF TaskInv, StatusInv
  <2> QED  BY <1>9, <2>4, Zenon
<1>15. \/ serviceTasks[t].run = None
       \/ s # None /\ s.run # None
  BY <1>3, <1>7, Zenon
<1>16. mutation' # h /\ (s # None => s.call = serviceTasks[t].call)
  BY <1>1, <1>3, <1>7, Zenon
<1> QED  BY <1>3, <1>10, <1>12, <1>13, <1>14, <1>15, <1>16, OwnerStep

(* Lines that authorize no service task and do not call it unsent.         *)
LEMMA EffectKept ==
    ASSUME NEW r, file' = file \/ Appended(file, r, file'), NEW t, NEW e, EffectOK(file, t, e),
           r.phase # "authorize",
           r.phase # "terminal" \/ r.outcome # "unsent" \/ e = 0
    PROVE  EffectOK(file', t, e)
<1>1. NoTask(file', Len(file'), t) <=> NoTask(file, Len(file), t)
  BY NoTaskKept, Zenon
<1>2. e = 0 \/ (Unsent(file', t) <=> Unsent(file, t))
  BY UnsentKept, Zenon
<1> QED  BY <1>1, <1>2, Zenon DEF EffectOK

(* What one more line changes in the report of its task.                   *)
LEMMA DispatchReport ==
    ASSUME NEW f, NEW r, NEW g, Appended(f, r, g), r.phase = "dispatch", r.run # None,
           NEW t, r.call.task = t,
           Lines(f, Len(f), t, "dispatch") = {}, Lines(f, Len(f), t, "terminal") = {},
           NEW x, Reported(f, Len(f), t, x),
           NEW s, s.call = x.call, s.run = r.run, s.terminal = x.terminal
    PROVE  Reported(g, Len(g), t, s)
<1>1. Authorized(g, Len(g), s.call)
  BY AppendAuthorized, Zenon DEF Reported
<1>2. Lines(g, Len(g), t, "terminal") = {}
  BY LinesKept
<1>4. s.terminal = "open"
  BY Zenon DEF Reported
<1>3. /\ Len(g) \in Lines(g, Len(g), t, "dispatch")
      /\ \A i \in Lines(g, Len(g), t, "dispatch") : g[i] = r
  BY FirstLine
<1> QED  BY <1>1, <1>2, <1>3, <1>4, Zenon DEF Reported

LEMMA TerminalReport ==
    ASSUME NEW f, NEW r, NEW g, Appended(f, r, g), r.phase = "terminal", r.outcome # "open",
           NEW t, r.call.task = t,
           Lines(f, Len(f), t, "terminal") = {},
           NEW x, Reported(f, Len(f), t, x),
           NEW s, s.call = x.call, s.run = x.run, s.terminal = r.outcome
    PROVE  Reported(g, Len(g), t, s)
<1>1. Authorized(g, Len(g), s.call)
  BY AppendAuthorized, Zenon DEF Reported
<1>2. /\ Lines(g, Len(g), t, "dispatch") = Lines(f, Len(f), t, "dispatch")
      /\ \A i \in Lines(f, Len(f), t, "dispatch") : g[i] = f[i]
  BY LinesKept
<1>3. /\ Len(g) \in Lines(g, Len(g), t, "terminal")
      /\ \A i \in Lines(g, Len(g), t, "terminal") : g[i] = r
  BY FirstLine
<1>4. /\ s.run # None <=> Lines(g, Len(g), t, "dispatch") # {}
      /\ \A i \in Lines(g, Len(g), t, "dispatch") : g[i].run = s.run
  BY <1>2, Zenon DEF Reported
<1>5. /\ s.terminal # "open" <=> Lines(g, Len(g), t, "terminal") # {}
      /\ \A i \in Lines(g, Len(g), t, "terminal") : g[i].outcome = s.terminal
  BY <1>3, Zenon
<1> QED  BY <1>1, <1>4, <1>5, Zenon DEF Reported

(* finishServiceTask: the terminal line and memory agree, or the task is   *)
(* in doubt.                                                               *)
Finished(t, s, outcome) ==
    /\ Changes(t, s, serviceTasks[t].run, s.terminal, s.doubt)
    /\ s.doubt \/ s.doubt = serviceTasks[t].doubt
    /\ IInv' /\ mode' = mode /\ FileStep(t)
    /\ (outcome = "unsent" /\ effects[t] = 0) => EffectOK(file', t, effects[t])
    /\ outcome # "unsent" => EffectOK(file', t, effects[t])
    /\ NoTask(file', Len(file'), t) <=> NoTask(file, Len(file), t)
    /\ outcome # "unsent" => (Unsent(file', t) <=> Unsent(file, t))
    /\ Status(file, Len(file), t, serviceTasks[t]) /\ ~s.doubt => Status(file', Len(file'), t, s)

LEMMA FinishTask ==
    ASSUME TaskInv, NEW c \in Calls, NEW t \in Task, t = c.task, serviceTasks[t] # None,
           NEW run \in Run \cup {None}, NEW outcome,
           finishServiceTask(c, run, outcome)
    PROVE  \E s : Finished(t, s, outcome)
<1>1. PICK n \in LineSizes :
         \/ /\ Finish(c, run, outcome, n)
            /\ serviceTasks' = [serviceTasks EXCEPT ![t].terminal = outcome]
         \/ FinishAmbiguous(c, run, outcome, n) /\ doubted(t)
         \/ UNCHANGED ledgerVars /\ doubted(t)
  BY Zenon DEF finishServiceTask, rejected
<1>2. PICK r : r = TerminalRecord(c, run, outcome, n)
  OBVIOUS
<1>3. r.phase = "terminal" /\ r.call = c /\ r.outcome = outcome
  BY <1>2, Zenon DEF TerminalRecord
<1>4. EffectOK(file, t, effects[t])
  BY Zenon DEF TaskInv, EffectsInv
<1>5. ASSUME file' = file \/ Appended(file, r, file')
      PROVE  /\ outcome # "unsent" \/ effects[t] = 0 => EffectOK(file', t, effects[t])
             /\ NoTask(file', Len(file'), t) <=> NoTask(file, Len(file), t)
             /\ outcome # "unsent" => (Unsent(file', t) <=> Unsent(file, t))
  <2>1. outcome # "unsent" \/ effects[t] = 0 => EffectOK(file', t, effects[t])
    BY <1>3, <1>4, <1>5, EffectKept, Zenon
  <2>2. NoTask(file', Len(file'), t) <=> NoTask(file, Len(file), t)
    BY <1>3, <1>5, NoTaskKept, Zenon
  <2>3. outcome # "unsent" => (Unsent(file', t) <=> Unsent(file, t))
    BY <1>3, <1>5, UnsentKept, Zenon
  <2> QED  BY <2>1, <2>2, <2>3, Zenon
<1>6. ASSUME Finish(c, run, outcome, n) \/ FinishAmbiguous(c, run, outcome, n)
      PROVE  /\ IInv' /\ mode' = mode /\ FileStep(t)
             /\ file' = file \/ Appended(file, r, file')
             /\ Finish(c, run, outcome, n) => Appended(file, r, file')
             /\ Lines(file, Len(file), t, "terminal") = {}
             /\ outcome \in {"responded", "failed", "unsent"}
  <2>1. /\ Written(r)
        /\ Finish(c, run, outcome, n) => Appended(file, r, file')
        /\ Lines(file, Len(file), t, "terminal") = {}
        /\ outcome \in {"responded", "failed", "unsent"}
    BY <1>2, <1>6, FinishWrites, Zenon DEF TaskInv
  <2>2. FileStep(r.call.task) /\ IInv' /\ mode' = mode
    BY <1>3, <2>1, WrittenStep, Zenon DEF TaskInv
  <2> QED  BY <1>3, <2>1, <2>2, Zenon DEF Written
<1>7. CASE (FinishAmbiguous(c, run, outcome, n) \/ UNCHANGED ledgerVars) /\ doubted(t)
  <2>1. IInv' /\ mode' = mode /\ FileStep(t) /\ (file' = file \/ Appended(file, r, file'))
    <3>1. CASE UNCHANGED ledgerVars
      BY <3>1, Unwritten, Zenon DEF TaskInv, FileStep
    <3> QED  BY <1>6, <1>7, <3>1, Zenon
  <2>2. PICK s : Changes(t, s, serviceTasks[t].run, serviceTasks[t].terminal, TRUE)
    BY <1>7, DoubtedIs, Zenon
  <2>3. Finished(t, s, outcome)
    BY <1>5, <2>1, <2>2, Zenon DEF Finished, Changes
  <2> QED  BY <2>3, Zenon
<1>8. CASE /\ Finish(c, run, outcome, n)
           /\ serviceTasks' = [serviceTasks EXCEPT ![t].terminal = outcome]
  <2>1. outcome \in Terminals /\ outcome # "open"
    BY <1>6, <1>8, Zenon DEF Terminals
  <2>2. PICK s : Changes(t, s, serviceTasks[t].run, outcome, serviceTasks[t].doubt)
    BY <1>8, <2>1, TerminalIs, Zenon
  <2>3. ASSUME Reported(file, Len(file), t, serviceTasks[t])
        PROVE  Reported(file', Len(file'), t, s)
    <3>1. Appended(file, r, file') /\ Lines(file, Len(file), t, "terminal") = {}
      BY <1>6, <1>8, Zenon
    <3>2. s.call = serviceTasks[t].call /\ s.run = serviceTasks[t].run /\ s.terminal = r.outcome
      BY <1>3, <2>2, Zenon DEF Changes
    <3>3. r.outcome # "open" /\ r.call.task = t
      BY <1>3, <2>1, Zenon
    <3> QED  BY <1>3, <2>3, <3>1, <3>2, <3>3, TerminalReport
  <2>4. Status(file, Len(file), t, serviceTasks[t]) => Status(file', Len(file'), t, s)
    <3>1. s # None
      BY <2>2, Zenon DEF Changes
    <3> QED  BY <2>3, <3>1, Zenon DEF Status
  <2>5. Finished(t, s, outcome)
    BY <1>5, <1>6, <1>8, <2>2, <2>4, Zenon DEF Finished, Changes
  <2> QED  BY <2>5, Zenon
<1> QED  BY <1>1, <1>7, <1>8, Zenon

(* The owner of a task ends its request: its handler returns and the task  *)
(* is left as s.                                                           *)
Leaves(h, t, s) ==
    /\ return(h) /\ mutation = None
    /\ UNCHANGED <<grantVars, mutation, serving, effects, stops>>
    /\ serviceTasks' = [serviceTasks EXCEPT ![t] = s]
    /\ s \in Receipt /\ s # None /\ s.call = serviceTasks[t].call
    /\ serviceTasks[t].run = None \/ s.run # None
    /\ s.doubt \/ s.doubt = serviceTasks[t].doubt
    /\ IInv' /\ mode' = mode /\ FileStep(t) /\ EffectOK(file', t, effects[t])
    /\ Status(file, Len(file), t, serviceTasks[t]) /\ ~s.doubt => Status(file', Len(file'), t, s)

LEMMA OwnerLeaves ==
    ASSUME TaskInv, NEW h \in Handler, handlers[h] # None,
           handlers[h].pc \in Sending \cup {"closing"},
           NEW t, t = handlers[h].call.task, NEW s, Leaves(h, t, s)
    PROVE  TaskInv'
<1>1. /\ owns(h, t) /\ t \in Task /\ taskOf(h) = t
      /\ serviceTasks[t] # None /\ serving /\ mutation # h
  BY OwnerFacts
<1>2. mutation = None /\ UNCHANGED <<grantVars, mutation, serving, effects, stops>>
  BY Zenon DEF Leaves
<1>3. effects' = [effects EXCEPT ![t] = effects[t]] /\ effects[t] \in Nat /\ None \in Request \cup {None}
  BY <1>1, <1>2, Zenon DEF TaskInv, MemoryTypeOK
<1>4. Moves(h, t, None, s, effects[t])
  BY <1>1, <1>2, <1>3, Zenon DEF Moves, Leaves, return
<1>5. serviceTasks'[t] = s /\ \A k \in Handler : k # h => handlers'[k] = handlers[k]
  BY <1>1, <1>4, MovesTo
<1>6. /\ s # None /\ s.call = serviceTasks[t].call
      /\ s.doubt \/ s.doubt = serviceTasks[t].doubt
      /\ EffectOK(file', t, effects[t])
  BY Zenon DEF Leaves
<1>7. ASSUME Settled(t)'
      PROVE  Status(file', Len(file'), t, s)
  <2>1. Settled(t)
    BY <1>1, <1>2, <1>5, <1>6, <1>7, SettledBefore
  <2>2. Status(file, Len(file), t, serviceTasks[t])
    BY <1>1, <2>1, Zenon DEF TaskInv, StatusInv
  <2>3. ~s.doubt
    BY <1>5, <1>6, <1>7, Zenon DEF Settled
  <2> QED  BY <2>2, <2>3, Zenon DEF Leaves
<1>8. mutation' # h /\ (serviceTasks[t].run = None \/ (s # None /\ s.run # None))
  BY <1>1, <1>2, <1>6, Zenon DEF Leaves
<1> QED  BY <1>1, <1>4, <1>6, <1>7, <1>8, OwnerStep, ZenonT(40)

LEMMA CloseTaskInv ==
    ASSUME TaskInv, NEW h \in Handler, CloseTask(h)
    PROVE  TaskInv'
<1>0. PICK c, t : c = handlers[h].call /\ t = c.task
  OBVIOUS
<1>1. /\ handlers[h] # None /\ handlers[h].pc = "closing" /\ mutation = None /\ return(h)
      /\ UNCHANGED <<grantVars, mutation, serving, effects, stops>>
      /\ finishServiceTask(callOf(h), None, handlers[h].outcome)
  BY Zenon DEF CloseTask, at
<1>2. handlers[h].pc \in Sending \cup {"closing"}
  BY <1>1, Zenon
<1>3. c \in Calls /\ t \in Task /\ callOf(h) = c /\ serviceTasks[t] # None
  BY <1>0, <1>1, <1>2, OwnerFacts
<1>4. PICK s : Finished(t, s, handlers[h].outcome)
  <2>1. None \in Run \cup {None}
    BY Zenon
  <2> QED  BY <1>0, <1>1, <1>3, <2>1, FinishTask
<1>5. EffectOK(file', t, effects[t])
  <2>1. HandlerOK(h, handlers[h], serviceTasks, file, effects, mutation)
    BY <1>1, Requested, Zenon
  <2>2. handlers[h].outcome = "unsent" => effects[t] = 0
    BY <1>0, <1>1, <2>1, Zenon DEF HandlerOK
  <2> QED  BY <1>4, <2>2, Zenon DEF Finished
<1>6. Leaves(h, t, s)
  BY <1>1, <1>4, <1>5, Zenon DEF Leaves, Finished, Changes
<1> QED  BY <1>0, <1>1, <1>2, <1>6, OwnerLeaves, Zenon

LEMMA AcceptInv ==
    ASSUME TaskInv, NEW h \in Handler, NEW run \in Run, Accept(h, run)
    PROVE  TaskInv'
<1>0. PICK c, t : c = handlers[h].call /\ t = c.task
  BY Zenon
<1>1. /\ handlers[h] # None /\ handlers[h].pc = "contacted" /\ mutation = None
      /\ UNCHANGED <<grantVars, mutation, serving, effects, stops>>
  BY Zenon DEF Accept, at
<1>2. handlers[h].pc \in Sending \cup {"closing"}
  BY <1>1, Zenon DEF Sending
<1>3. /\ c \in Calls /\ t \in Task /\ callOf(h) = c /\ serviceTasks[t] # None
      /\ EffectOK(file, t, effects[t])
  BY <1>0, <1>1, <1>2, OwnerFacts
<1>4. PICK n \in LineSizes :
         \/ /\ Dispatch(c, run, n)
            /\ serviceTasks' = [serviceTasks EXCEPT ![t].run = run]
            /\ return(h)
         \/ DispatchAmbiguous(c, run, n) /\ doubted(t) /\ return(h)
         \/ UNCHANGED ledgerVars /\ doubted(t) /\ return(h)
         \/ /\ UNCHANGED ledgerVars
            /\ handlers' = [handlers EXCEPT ![h].pc = "closing", ![h].outcome = "failed"]
            /\ UNCHANGED serviceTasks
  BY <1>0, <1>3, Zenon DEF Accept, rejected
<1>5. PICK r : r = DispatchRecord(c, run, n)
  OBVIOUS
<1>6. r.phase = "dispatch" /\ r.call = c /\ r.call.task = t /\ r.run = run
  BY <1>0, <1>5, Zenon DEF DispatchRecord
<1>7. CASE /\ UNCHANGED ledgerVars
           /\ handlers' = [handlers EXCEPT ![h].pc = "closing", ![h].outcome = "failed"]
           /\ UNCHANGED serviceTasks
  <2>1. Refuse(h)
    BY <1>1, <1>7, Zenon DEF Refuse, at
  <2> QED  BY <2>1, RefuseInv, Zenon
<1>8. ASSUME Dispatch(c, run, n) \/ DispatchAmbiguous(c, run, n)
      PROVE  /\ IInv' /\ mode' = mode /\ FileStep(t)
             /\ EffectOK(file', t, effects[t])
             /\ Dispatch(c, run, n) => Appended(file, r, file')
             /\ Lines(file, Len(file), t, "dispatch") = {}
             /\ Lines(file, Len(file), t, "terminal") = {}
  <2>1. /\ Written(r)
        /\ Dispatch(c, run, n) => Appended(file, r, file')
        /\ Lines(file, Len(file), t, "dispatch") = {}
        /\ Lines(file, Len(file), t, "terminal") = {}
    BY <1>0, <1>3, <1>5, <1>8, DispatchWrites, Zenon DEF TaskInv
  <2>2. FileStep(r.call.task) /\ IInv' /\ mode' = mode
    BY <1>6, <2>1, WrittenStep, Zenon DEF TaskInv
  <2>3. EffectOK(file', t, effects[t])
    BY <1>3, <1>6, <2>1, EffectKept, Zenon DEF Written
  <2> QED  BY <1>6, <2>1, <2>2, <2>3, Zenon
<1>9. CASE (DispatchAmbiguous(c, run, n) \/ UNCHANGED ledgerVars) /\ doubted(t) /\ return(h)
  <2>1. PICK s : Changes(t, s, serviceTasks[t].run, serviceTasks[t].terminal, TRUE)
    BY <1>3, <1>9, DoubtedIs, Zenon
  <2>2. IInv' /\ mode' = mode /\ FileStep(t) /\ EffectOK(file', t, effects[t])
    <3>1. CASE UNCHANGED ledgerVars
      BY <1>3, <3>1, Unwritten, Zenon DEF TaskInv, FileStep
    <3> QED  BY <1>8, <1>9, <3>1, Zenon
  <2>3. Leaves(h, t, s)
    BY <1>1, <1>9, <2>1, <2>2, Zenon DEF Leaves, Changes
  <2> QED  BY <1>0, <1>1, <1>2, <2>3, OwnerLeaves, Zenon
<1>10. CASE /\ Dispatch(c, run, n)
            /\ serviceTasks' = [serviceTasks EXCEPT ![t].run = run]
            /\ return(h)
  <2>1. PICK s : Changes(t, s, run, serviceTasks[t].terminal, serviceTasks[t].doubt)
    BY <1>3, <1>10, AcceptedIs, Zenon
  <2>2. /\ s # None /\ s.call = serviceTasks[t].call /\ s.run = r.run
        /\ s.terminal = serviceTasks[t].terminal
    BY <1>6, <2>1, Zenon DEF Changes
  <2>3. r.run # None
    BY <1>6, NoneAssumption, Zenon
  <2>4. IInv' /\ mode' = mode /\ FileStep(t) /\ EffectOK(file', t, effects[t])
    BY <1>8, <1>10, Zenon
  <2>5. ASSUME Reported(file, Len(file), t, serviceTasks[t])
        PROVE  Reported(file', Len(file'), t, s)
    <3>1. /\ Appended(file, r, file')
          /\ Lines(file, Len(file), t, "dispatch") = {}
          /\ Lines(file, Len(file), t, "terminal") = {}
      BY <1>8, <1>10, Zenon
    <3> QED  BY <1>6, <2>2, <2>3, <2>5, <3>1, DispatchReport
  <2>6. Status(file, Len(file), t, serviceTasks[t]) => Status(file', Len(file'), t, s)
    BY <1>3, <2>2, <2>5, Zenon DEF Status
  <2>7. Leaves(h, t, s)
    BY <1>1, <1>6, <1>10, <2>1, <2>2, <2>3, <2>4, <2>6, Zenon DEF Leaves, Changes
  <2> QED  BY <1>0, <1>1, <1>2, <2>7, OwnerLeaves, Zenon
<1> QED  BY <1>4, <1>7, <1>9, <1>10, Zenon

(* A task digest is authorized for one call.                               *)
LEMMA OneCall ==
    ASSUME IInv, NEW c, NEW d, Authorized(file, Len(file), c), Authorized(file, Len(file), d),
           c.task = d.task
    PROVE  c = d
BY Zenon DEF IInv, FileInv, AuthorizedOnce, Authorized

(* Lines that were ever written stay.                                      *)
LEMMA StillAuthorized ==
    ASSUME IInv, NEW n \in 0..Len(file), NEW c, Authorized(file, n, c)
    PROVE  Authorized(file, Len(file), c)
<1>1. Len(file) \in Nat
  BY DEF IInv, TypeOK
<1>2. \A i \in 1..n : i \in 1..Len(file)
  BY <1>1
<1> QED  BY <1>2, Zenon DEF Authorized

(* The digest of an inference attempt is no service task.                  *)
LEMMA AttemptUnknown ==
    ASSUME TaskInv, NEW n \in 0..Len(file), NEW c, Authorized(file, n, c), c.kind = "inference_attempt",
           NEW t \in Task, c.task = t, Status(file, n, t, serviceTasks[t])
    PROVE  serviceTasks[t] = None
<1> SUFFICES ASSUME serviceTasks[t] # None PROVE FALSE
  OBVIOUS
<1>1. serviceTasks[t].call.task = t /\ serviceTasks[t].call.kind = "lifecycle_task"
  BY Zenon DEF TaskInv, TasksOwn
<1>2. Authorized(file, n, serviceTasks[t].call) /\ IInv
  BY Zenon DEF Status, Reported, TaskInv
<1>3. Authorized(file, Len(file), serviceTasks[t].call) /\ Authorized(file, Len(file), c)
  BY <1>2, StillAuthorized, Zenon
<1>4. serviceTasks[t].call = c
  BY <1>1, <1>2, <1>3, OneCall, Zenon
<1> QED  BY <1>1, <1>4, Zenon

-----------------------------------------------------------------------------
(* Observers and inference attempts own no task.                           *)
LEMMA ObservingOnly ==
    \A p \in Observing : p \notin Owning /\ p \notin Held /\ p \notin Sending
        /\ p \notin {"submitted", "attempting", "calling", "begun", "dispatching", "closing"}
BY Zenon DEF Observing, Owning, Held, Sending

LEMMA ObserverOK ==
    ASSUME NEW h, NEW y, NEW t, y.pc \in Observing, y.call.task = t,
           NEW st, st[t] # None, st[t].call = y.call, st[t].run # None,
           NEW f, NEW eff, NEW mut
    PROVE  HandlerOK(h, y, st, f, eff, mut) /\ y.pc \notin Owning
BY ObservingOnly, Zenon DEF HandlerOK

LEMMA ObserverFacts ==
    ASSUME TaskInv, NEW h \in Handler, handlers[h] # None, handlers[h].pc \in Observing,
           NEW c, c = handlers[h].call, NEW t, t = c.task
    PROVE  /\ c \in Calls /\ t \in Task
           /\ callOf(h) = c /\ taskOf(h) = t
           /\ serviceTasks[t] # None /\ serviceTasks[t].call = c /\ serviceTasks[t].run # None
           /\ serviceTasks[t].run \in Run
           /\ serving
           /\ handlers[h].pc \notin Held
           /\ effects' = effects => effects' = [effects EXCEPT ![t] = effects[t]]
           /\ effects[t] \in Nat
<1>1. /\ c \in Calls /\ t \in Task /\ callOf(h) = c /\ taskOf(h) = t /\ serving
      /\ HandlerOK(h, handlers[h], serviceTasks, file, effects, mutation)
  BY Requested, Zenon
<1>2. serviceTasks[t] # None /\ serviceTasks[t].call = c /\ serviceTasks[t].run # None
  BY <1>1, Zenon DEF HandlerOK
<1>3. serviceTasks[t] \in Receipt
  BY <1>1, <1>2, Zenon DEF TaskInv, MemoryTypeOK
<1>4. serviceTasks[t].run \in Run
  BY <1>1, <1>2, ReceiptFields, Zenon
<1>5. /\ effects' = effects => effects' = [effects EXCEPT ![t] = effects[t]]
      /\ effects[t] \in Nat
  BY <1>1, Zenon DEF TaskInv, MemoryTypeOK
<1> QED  BY <1>1, <1>2, <1>4, <1>5, ObservingOnly, Zenon

LEMMA CommitTerminalInv ==
    ASSUME TaskInv, NEW h \in Handler, CommitTerminal(h)
    PROVE  TaskInv'
<1>0. PICK c, t : c = handlers[h].call /\ t = c.task
  OBVIOUS
<1>1. /\ handlers[h] # None /\ handlers[h].pc = "committing" /\ goto(h, "ended")
      /\ UNCHANGED <<grantVars, mutation, serving, effects, stops>>
      /\ finishServiceTask(callOf(h), serviceTasks[taskOf(h)].run, "responded")
  BY ZenonT(40) DEF CommitTerminal, at
<1>2. handlers[h].pc \in Observing /\ "ended" \in Observing /\ "ended" \in Pc
  BY <1>1, Zenon DEF Observing, Pc
<1>3. /\ c \in Calls /\ t \in Task
      /\ callOf(h) = c /\ taskOf(h) = t
      /\ serviceTasks[t] # None /\ serviceTasks[t].call = c /\ serviceTasks[t].run # None
      /\ serviceTasks[t].run \in Run \cup {None}
      /\ serving
      /\ handlers[h].pc \notin Held
      /\ effects' = [effects EXCEPT ![t] = effects[t]] /\ effects[t] \in Nat
  BY <1>0, <1>1, <1>2, ObserverFacts, SMTT(20)
<1>4. PICK s : Finished(t, s, "responded")
  BY <1>0, <1>1, <1>3, FinishTask
<1>5. PICK y, o : Becomes(h, y, "ended", o)
  BY <1>1, <1>2, GotoIs, Zenon
<1>6. Moves(h, t, y, s, effects[t])
  BY <1>0, <1>1, <1>3, <1>4, <1>5, Zenon DEF Moves, Finished, Changes, Becomes
<1>7. serviceTasks'[t] = s
  BY <1>3, <1>6, MovesTo
<1>8. /\ s # None /\ s.call = serviceTasks[t].call /\ s.run = serviceTasks[t].run
      /\ s.doubt \/ s.doubt = serviceTasks[t].doubt
      /\ NoTask(file', Len(file'), t) <=> NoTask(file, Len(file), t)
      /\ Unsent(file', t) <=> Unsent(file, t)
      /\ Status(file, Len(file), t, serviceTasks[t]) /\ ~s.doubt => Status(file', Len(file'), t, s)
  BY <1>4, Zenon DEF Finished, Changes
<1>9. HandlerOK(h, y, serviceTasks', file', effects', mutation') /\ y.pc \notin Owning
  <2>1. y.pc = "ended" /\ y.call = c /\ y.call.task = t
    BY <1>0, <1>5, Zenon DEF Becomes
  <2>2. y.pc \in Observing
    BY <1>2, <2>1, Zenon
  <2> QED  BY <1>3, <1>7, <1>8, <2>1, <2>2, ObserverOK, Zenon
<1> QED  BY <1>1, <1>3, <1>6, <1>8, <1>9, BystanderStep, Zenon

(* A receipt with another observing mark reports the same.                 *)
LEMMA SameReport ==
    ASSUME NEW t, NEW s, serviceTasks[t] # None,
           Changes(t, s, serviceTasks[t].run, serviceTasks[t].terminal, serviceTasks[t].doubt)
    PROVE  /\ s # None /\ s.call = serviceTasks[t].call /\ s.run = serviceTasks[t].run
           /\ s.doubt = serviceTasks[t].doubt
           /\ s \in Receipt
           /\ Status(file, Len(file), t, serviceTasks[t]) => Status(file, Len(file), t, s)
BY Zenon DEF Changes, Status, Reported

LEMMA ObserveInv ==
    ASSUME TaskInv, NEW h \in Handler, NEW t \in Task, Observe(h, t)
    PROVE  TaskInv'
<1>0. PICK c, o : c = serviceTasks[t].call /\ o = serviceTasks[t].terminal
  OBVIOUS
<1>1. /\ handlers[h] = None /\ serving /\ serviceTasks[t] # None /\ serviceTasks[t].run # None
      /\ serviceTasks' = [serviceTasks EXCEPT ![t].observing = TRUE]
      /\ enter(h, "observing", c, o)
      /\ UNCHANGED <<ledgerVars, grantVars, mutation, serving, effects, stops>>
  BY <1>0, Zenon DEF Observe
<1>2. c \in Calls /\ o \in Terminals /\ c.task = t
  BY <1>0, <1>1, ReceiptFields, Zenon
<1>3. PICK y : Enters(h, y, "observing", c, o)
  <2>1. "observing" \in Pc
    BY Zenon DEF Pc
  <2> QED  BY <1>1, <1>2, <2>1, EnterIs
<1>4. PICK s : Changes(t, s, serviceTasks[t].run, serviceTasks[t].terminal, serviceTasks[t].doubt)
  BY <1>1, ObservedIs, Zenon
<1>5. /\ s # None /\ s.call = serviceTasks[t].call /\ s.run = serviceTasks[t].run
      /\ s.doubt = serviceTasks[t].doubt
      /\ s \in Receipt
      /\ Status(file, Len(file), t, serviceTasks[t]) => Status(file, Len(file), t, s)
  BY <1>1, <1>4, SameReport, Zenon
<1>6. IInv' /\ UNCHANGED <<file, mode>> /\ FileStep(t)
  BY <1>1, Unwritten, Zenon DEF TaskInv, FileStep
<1>7. effects' = [effects EXCEPT ![t] = effects[t]] /\ effects[t] \in Nat
  BY <1>1, Zenon DEF TaskInv, MemoryTypeOK
<1>8. Moves(h, t, y, s, effects[t])
  BY <1>1, <1>2, <1>3, <1>4, <1>5, <1>6, <1>7, Zenon DEF Moves, Changes, Enters
<1>9. serviceTasks'[t] = s
  BY <1>8, MovesTo
<1>10. HandlerOK(h, y, serviceTasks', file', effects', mutation') /\ y.pc \notin Owning
  <2>1. y.pc = "observing" /\ y.call = c /\ y.call.task = t
    BY <1>2, <1>3, Zenon DEF Enters
  <2>2. y.pc \in Observing
    BY <2>1, Zenon DEF Observing
  <2>3. serviceTasks'[t] # None /\ serviceTasks'[t].call = y.call /\ serviceTasks'[t].run # None
    BY <1>0, <1>1, <1>5, <1>9, <2>1, ZenonT(40)
  <2> QED  BY <2>1, <2>2, <2>3, ObserverOK, Zenon
<1> QED  BY <1>1, <1>5, <1>6, <1>8, <1>10, BystanderStep, Zenon

LEMMA FinishObservationInv ==
    ASSUME TaskInv, NEW h \in Handler, FinishObservation(h)
    PROVE  TaskInv'
<1>0. PICK c, t : c = handlers[h].call /\ t = c.task
  OBVIOUS
<1>1. /\ handlers[h] # None /\ handlers[h].pc = "ended" /\ return(h)
      /\ serviceTasks' = [serviceTasks EXCEPT ![taskOf(h)].observing = FALSE]
      /\ UNCHANGED <<ledgerVars, grantVars, mutation, serving, effects, stops>>
  BY Zenon DEF FinishObservation, at
<1>2. handlers[h].pc \in Observing
  BY <1>1, Zenon DEF Observing
<1>3. /\ t \in Task /\ taskOf(h) = t /\ serviceTasks[t] # None /\ serviceTasks[t].run # None
      /\ serving
      /\ handlers[h].pc \notin Held
      /\ effects' = [effects EXCEPT ![t] = effects[t]] /\ effects[t] \in Nat
  BY <1>0, <1>1, <1>2, ObserverFacts
<1>4. PICK s : Changes(t, s, serviceTasks[t].run, serviceTasks[t].terminal, serviceTasks[t].doubt)
  BY <1>1, <1>3, ObservedIs, Zenon
<1>5. /\ s # None /\ s.call = serviceTasks[t].call /\ s.run = serviceTasks[t].run
      /\ s.doubt = serviceTasks[t].doubt
      /\ s \in Receipt
      /\ Status(file, Len(file), t, serviceTasks[t]) => Status(file, Len(file), t, s)
  BY <1>3, <1>4, SameReport, Zenon
<1>6. IInv' /\ UNCHANGED <<file, mode>> /\ FileStep(t)
  BY <1>1, Unwritten, Zenon DEF TaskInv, FileStep
<1>7. Moves(h, t, None, s, effects[t])
  BY <1>1, <1>3, <1>4, <1>5, <1>6, ZenonT(40) DEF Moves, Changes, return
<1> QED  BY <1>1, <1>3, <1>5, <1>6, <1>7, BystanderStep

-----------------------------------------------------------------------------
LEMMA AttemptStep ==
    ASSUME TaskInv, NEW h \in Handler, handlers[h] # None, handlers[h].pc \in {"attempting", "calling"},
           NEW c, c = handlers[h].call, NEW t, t = c.task,
           NEW y \in Request \cup {None}, handlers' = [handlers EXCEPT ![h] = y],
           y # None => y.pc = "calling" /\ y.call = c,
           UNCHANGED <<grantVars, serviceTasks, mutation, serving, effects, stops>>,
           IInv' /\ mode' = mode /\ FileStep(t),
           NoTask(file', Len(file'), t) <=> NoTask(file, Len(file), t),
           Unsent(file', t) <=> Unsent(file, t),
           Status(file, Len(file), t, serviceTasks[t]) => Status(file', Len(file'), t, serviceTasks[t])
    PROVE  TaskInv'
<1>1. /\ c \in Calls /\ t \in Task /\ taskOf(h) = t /\ serving
      /\ HandlerOK(h, handlers[h], serviceTasks, file, effects, mutation)
  BY Requested, Zenon
<1>2. PICK s : s = serviceTasks[t]
  OBVIOUS
<1>3. /\ serviceTasks' = [serviceTasks EXCEPT ![t] = s] /\ s \in Receipt \cup {None}
      /\ effects' = [effects EXCEPT ![t] = effects[t]] /\ effects[t] \in Nat
  BY <1>1, <1>2, Zenon DEF TaskInv, MemoryTypeOK
<1>4. Moves(h, t, y, s, effects[t])
  BY <1>1, <1>3, Zenon DEF Moves
<1>5. handlers[h].pc \notin Held
  BY Zenon DEF Held
<1>6. c.kind = "inference_attempt"
  BY <1>1, Zenon DEF HandlerOK
<1>7. y # None => HandlerOK(h, y, serviceTasks', file', effects', mutation') /\ y.pc \notin Owning
  BY <1>6, Zenon DEF HandlerOK, Owning, Held, Sending, Observing
<1>8. /\ serviceTasks[t] = None => s = None
      /\ serviceTasks[t] # None => /\ s # None
                                   /\ s.call = serviceTasks[t].call
                                   /\ s.run = serviceTasks[t].run
                                   /\ s.doubt \/ s.doubt = serviceTasks[t].doubt
      /\ s = serviceTasks[t] \/ serviceTasks[t].run # None
      /\ Status(file, Len(file), t, serviceTasks[t]) /\ ~(s # None /\ s.doubt)
            => Status(file', Len(file'), t, s)
      /\ UNCHANGED mutation
      /\ NoTask(file', Len(file'), t) <=> NoTask(file, Len(file), t)
      /\ Unsent(file', t) <=> Unsent(file, t)
  BY <1>2, Zenon
<1>9. handlers[h] # None => handlers[h].pc \notin Held
  BY <1>5, Zenon
<1> QED  BY <1>1, <1>4, <1>7, <1>8, <1>9, BystanderStep, ZenonT(40)

LEMMA BeginAttemptInv ==
    ASSUME TaskInv, NEW h \in Handler, BeginAttempt(h)
    PROVE  TaskInv'
<1>0. PICK c, t : c = handlers[h].call /\ t = c.task
  OBVIOUS
<1>1. /\ handlers[h] # None /\ handlers[h].pc = "attempting"
      /\ UNCHANGED <<grantVars, serviceTasks, mutation, serving, effects, stops>>
  BY Zenon DEF BeginAttempt, at
<1>2. handlers[h].pc \in {"attempting", "calling"}
  BY <1>1, Zenon
<1>3. /\ c \in Calls /\ t \in Task /\ callOf(h) = c
      /\ HandlerOK(h, handlers[h], serviceTasks, file, effects, mutation)
  BY <1>0, <1>1, Requested, Zenon
<1>4. c.kind = "inference_attempt"
  BY <1>0, <1>1, <1>3, Zenon DEF HandlerOK
<1>5. PICK n \in LineSizes :
         \/ Begin(c, n) /\ goto(h, "calling")
         \/ BeginAmbiguous(c, n) /\ return(h)
         \/ UNCHANGED ledgerVars /\ return(h)
  BY <1>3, Zenon DEF BeginAttempt, rejected
<1>6. PICK y : /\ y \in Request \cup {None} /\ handlers' = [handlers EXCEPT ![h] = y]
               /\ y # None => y.pc = "calling" /\ y.call = c
  <2>1. CASE goto(h, "calling")
    <3>1. "calling" \in Pc
      BY Zenon DEF Pc
    <3>2. PICK y, o : Becomes(h, y, "calling", o)
      BY <1>1, <2>1, <3>1, GotoIs, Zenon
    <3> QED  BY <1>0, <3>2, Zenon DEF Becomes
  <2>2. CASE return(h)
    BY <2>2, Zenon DEF return
  <2> QED  BY <1>5, <2>1, <2>2, Zenon
<1>7. PICK r : r = AuthorizeRecord(c, n)
  OBVIOUS
<1>8. r.phase = "authorize" /\ r.call = c
  BY <1>7, Zenon DEF AuthorizeRecord
<1>9. IInv' /\ mode' = mode /\ FileStep(t) /\ (file' = file \/ Appended(file, r, file'))
  <2>1. CASE Begin(c, n) \/ BeginAmbiguous(c, n)
    <3>1. Written(r)
      BY <1>3, <1>7, <2>1, BeginWrites, Zenon DEF TaskInv
    <3>2. FileStep(r.call.task) /\ IInv' /\ mode' = mode
      BY <1>8, <3>1, WrittenStep, Zenon DEF TaskInv
    <3> QED  BY <1>0, <1>8, <3>1, <3>2, Zenon DEF Written
  <2>2. CASE UNCHANGED ledgerVars
    BY <2>2, Unwritten, Zenon DEF TaskInv, FileStep
  <2> QED  BY <1>5, <2>1, <2>2, Zenon
<1>10. NoTask(file', Len(file'), t) <=> NoTask(file, Len(file), t)
  <2>1. r.call.kind # "lifecycle_task"
    BY <1>4, <1>8, Zenon
  <2> QED  BY <1>9, <2>1, NoTaskKept, Zenon
<1>11. Unsent(file', t) <=> Unsent(file, t)
  <2>1. r.phase # "terminal"
    BY <1>8, Zenon
  <2> QED  BY <1>9, <2>1, UnsentKept, Zenon
<1>12. Status(file, Len(file), t, serviceTasks[t]) => Status(file', Len(file'), t, serviceTasks[t])
  <2>1. r.phase = "authorize" /\ r.call.kind # "lifecycle_task"
    BY <1>4, <1>8, Zenon
  <2> QED  BY <1>9, <2>1, StatusKept, Zenon
<1> QED  BY <1>0, <1>1, <1>2, <1>6, <1>9, <1>10, <1>11, <1>12, AttemptStep, Zenon

LEMMA FinishAttemptInv ==
    ASSUME TaskInv, NEW h \in Handler, FinishAttempt(h)
    PROVE  TaskInv'
<1>0. PICK c, t : c = handlers[h].call /\ t = c.task
  OBVIOUS
<1>1. /\ handlers[h] # None /\ handlers[h].pc = "calling" /\ return(h)
      /\ UNCHANGED <<grantVars, serviceTasks, mutation, serving, effects, stops>>
  BY Zenon DEF FinishAttempt, at
<1>2. handlers[h].pc \in {"attempting", "calling"} /\ None \in Request \cup {None}
  BY <1>1, Zenon
<1>3. /\ c \in Calls /\ t \in Task /\ callOf(h) = c
      /\ HandlerOK(h, handlers[h], serviceTasks, file, effects, mutation)
  BY <1>0, <1>1, Requested, Zenon
<1>4. c.kind = "inference_attempt"
  BY <1>0, <1>1, <1>3, Zenon DEF HandlerOK
<1>5. PICK n \in LineSizes, outcome \in {"responded", "failed"} :
         \/ Finish(c, None, outcome, n)
         \/ FinishAmbiguous(c, None, outcome, n)
         \/ UNCHANGED ledgerVars
  BY <1>3, Zenon DEF FinishAttempt, rejected
<1>6. PICK r : r = TerminalRecord(c, None, outcome, n)
  OBVIOUS
<1>7. r.phase = "terminal" /\ r.call = c /\ r.outcome # "unsent"
  BY <1>5, <1>6, Zenon DEF TerminalRecord
<1>8. /\ IInv' /\ mode' = mode /\ FileStep(t)
      /\ file' = file \/ (Appended(file, r, file') /\ Authorized(file, Len(file), c))
  <2>1. CASE Finish(c, None, outcome, n) \/ FinishAmbiguous(c, None, outcome, n)
    <3>0. None \in Run \cup {None}
      BY Zenon
    <3>1. Written(r) /\ Authorized(file, Len(file), c)
      BY <1>3, <1>6, <2>1, <3>0, FinishWrites, Zenon DEF TaskInv
    <3>2. FileStep(r.call.task) /\ IInv' /\ mode' = mode
      BY <1>7, <3>1, WrittenStep, Zenon DEF TaskInv
    <3> QED  BY <1>0, <1>7, <3>1, <3>2, Zenon DEF Written
  <2>2. CASE UNCHANGED ledgerVars
    BY <2>2, Unwritten, Zenon DEF TaskInv, FileStep
  <2> QED  BY <1>5, <2>1, <2>2, Zenon
<1>9. NoTask(file', Len(file'), t) <=> NoTask(file, Len(file), t)
  BY <1>7, <1>8, NoTaskKept, Zenon
<1>10. Unsent(file', t) <=> Unsent(file, t)
  BY <1>7, <1>8, UnsentKept, Zenon
<1>11. Status(file, Len(file), t, serviceTasks[t]) => Status(file', Len(file'), t, serviceTasks[t])
  <2>1. ASSUME Status(file, Len(file), t, serviceTasks[t]), Authorized(file, Len(file), c)
        PROVE  serviceTasks[t] = None
    <3>1. Len(file) \in 0..Len(file)
      BY DEF TaskInv, IInv, TypeOK
    <3> QED  BY <1>0, <1>3, <1>4, <2>1, <3>1, AttemptUnknown, Zenon
  <2> QED  BY <1>8, <1>9, <2>1, Zenon DEF Status
<1>12. PICK y : y = None
  OBVIOUS
<1>13. handlers' = [handlers EXCEPT ![h] = y] /\ y \in Request \cup {None}
  BY <1>1, <1>12, Zenon DEF return
<1> QED  BY <1>0, <1>1, <1>2, <1>8, <1>9, <1>10, <1>11, <1>12, <1>13, AttemptStep, Zenon
=============================================================================
