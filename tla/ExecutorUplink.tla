--------------------------- MODULE ExecutorUplink ---------------------------
(***************************************************************************)
(* The node side of the signed command path (internal/executoruplink,     *)
(* protocol 4): the poll loop, the activation-canary worker, the durable  *)
(* delivery records and the durable command fence of one node.            *)
(*                                                                         *)
(* The controller is the environment: it may answer a poll with any batch *)
(* of deliveries, at any delivery generation, and may acknowledge or drop *)
(* any report.  Whether a command's signature and policy verify when it   *)
(* is delivered is also the environment's choice, since a command expires *)
(* and a policy rotates between two deliveries of one command.            *)
(*                                                                         *)
(* Each store is a file replaced atomically plus a copy in memory that is *)
(* swapped after the replacement.  A replacement that reports an error    *)
(* leaves memory alone and leaves either the old or the new file.         *)
(***************************************************************************)
EXTENDS Integers, FiniteSets

CONSTANTS
    Command,        \* signed commands: tenant, instance, kind, claim, generation, sequence
    InitialFence,   \* the fence file the node starts from, by instance
    MaxGeneration,  \* bound: delivery generations 1..MaxGeneration
    MaxBatch,       \* bound: deliveries in one poll answer
    MaxRecords, TargetRecords,  \* maxDeliveryRecordsPerTenant, tenantDeliveryCompactionTarget
    MaxTotal, TargetTotal,      \* maxDeliveryRecords, deliveryCompactionTarget
    MaxFaults,      \* bound: failed file replacements
    MaxCrashes,     \* bound: crashes of the node process
    None            \* no record, no position, no job, no status

VARIABLES
    records,        \* DeliveryStore.records, by command
    recordsDisk,    \* the delivery state file
    fence,          \* StateStore.positions, by instance
    fenceDisk,      \* the fence state file
    phase,          \* where pollOnce stands
    todo,           \* reports still to drain, or deliveries still to process
    failed,         \* some report of this drain was not settled
    capable,        \* the poll under way offers to run a canary
    job,            \* what each of the two threads is doing
    applied,        \* history: handler effects by command; 2 means more than one
    last,           \* history: the last status put on the wire for a command
    forgotten,      \* history: commands whose record a compaction set out to remove
    faults, crashes \* counters for the bounds

stores == <<records, recordsDisk, faults>>
fences == <<fence, fenceDisk>>
loop   == <<phase, todo, failed, capable>>
vars   == <<records, recordsDisk, fence, fenceDisk, phase, todo, failed, capable, job,
            applied, last, forgotten, faults, crashes>>

Instance == {c.instance : c \in Command}
Thread   == {"poller", "canary"}
Generation == 1..MaxGeneration
Status   == {"done", "rejected", "failed", "outcome_unknown"}

Position == [claim : Nat, generation : Nat, sequence : Nat, absent : BOOLEAN]
Delivery == [command : Command, generation : Generation]
Report   == [command : Command, generation : Generation, status : Status]
Record   == [generation : Generation, settled : 0..MaxGeneration,
             phase : {"accepted", "executing", "terminal"},
             status : Status \cup {None},
             tenanted : BOOLEAN]     \* the verified tenant is on record
Job      == [command : Command, generation : Generation,
             pc : {"accepted", "marked", "calling", "applied", "finished",
                   "unpersisted", "reporting"},
             status : Status \cup {None}]

\* Command verification refuses a zero claim, generation or sequence.
ASSUME CommandAssumption ==
    \A c \in Command : /\ c.claim \in Nat \ {0}
                       /\ c.generation \in Nat \ {0}
                       /\ c.sequence \in Nat \ {0}

ASSUME BoundAssumption ==
    MaxGeneration \in Nat /\ MaxFaults \in Nat /\ MaxCrashes \in Nat

ASSUME FenceAssumption == InitialFence \in [Instance -> Position \cup {None}]

ASSUME NoneAssumption ==
    None \notin Record /\ None \notin Position /\ None \notin Job /\ None \notin Status

(***************************************************************************)
(* The fence.  A position with claim 0 is a legacy one, migrated from a   *)
(* file that did not record claim generations.                            *)
(***************************************************************************)
commandIsStale(c, current) ==
    \/ current.claim # 0 /\ c.claim < current.claim
    \/ c.generation < current.generation
    \/ /\ current.claim \in {0, c.claim}
       /\ c.generation = current.generation
       /\ c.sequence <= current.sequence

statePrecedes(candidate, current) ==
    \/ current.claim # 0 /\ candidate.claim < current.claim
    \/ candidate.generation < current.generation
    \/ /\ current.claim \in {0, candidate.claim}
       /\ candidate.generation = current.generation
       /\ candidate.sequence < current.sequence

fenced(c, positions) ==
    positions[c.instance] # None /\ commandIsStale(c, positions[c.instance])

\* Kinds that must name the exact durable lifecycle generation.
matchesLifecycle(c) ==
    LET current == fence[c.instance]
        exact   == /\ current # None
                   /\ c.generation = current.generation
                   /\ current.claim \in {0, c.claim}
    IN  CASE c.kind = "activation-canary" -> exact /\ current.claim # 0
          [] c.kind = "snapshot-state"    -> exact /\ current.absent
          [] c.kind \in {"read", "delete-snapshot"} -> exact
          [] OTHER -> TRUE

advancesFence(c) == c.kind \notin {"read", "activation-canary"}

position(c) ==
    [claim |-> c.claim, generation |-> c.generation, sequence |-> c.sequence,
     absent |-> \/ c.kind \in {"destroy", "purge", "clone-state"}
                \/ /\ c.kind \in {"snapshot-state", "delete-snapshot"}
                   /\ fence[c.instance].absent]

(***************************************************************************)
(* The delivery records.                                                  *)
(***************************************************************************)
accepted(g) ==
    [generation |-> g, settled |-> 0, phase |-> "accepted", status |-> None,
     tenanted |-> TRUE]

terminal(g, s, t) ==
    [generation |-> g, settled |-> 0, phase |-> "terminal", status |-> s,
     tenanted |-> t]

\* A delivery at a newer generation reopens the acknowledgement.
renewed(rec, g) ==
    [rec EXCEPT !.generation = g,
                !.settled = IF g > rec.generation THEN 0 ELSE @]

unacknowledged ==
    {r \in Report : /\ records[r.command] # None
                    /\ records[r.command].phase = "terminal"
                    /\ records[r.command].settled # records[r.command].generation
                    /\ r.generation = records[r.command].generation
                    /\ r.status = records[r.command].status}

\* Mutant: an acknowledged unknown outcome counts as safe.
FaultySafeAcknowledged(c) ==
    LET rec == records[c]
    IN  rec # None /\ rec.phase = "terminal" /\ rec.settled = rec.generation

safeAcknowledgedDelivery(c) ==
    LET rec == records[c]
    IN  /\ rec # None /\ rec.phase = "terminal" /\ rec.settled = rec.generation
        /\ \/ rec.status \in {"done", "rejected"}
           \/ c.kind = "activation-canary" /\ rec.status = "failed"

acknowledged      == {c \in Command : safeAcknowledgedDelivery(c)}
ofTenant(t, recs) == {c \in Command : recs[c] # None /\ recs[c].tenanted /\ c.tenant = t}
known(recs)       == {c \in Command : recs[c] # None}
atMost(n, S)      == IF n <= Cardinality(S) THEN n ELSE Cardinality(S)

\* The sets of records a compaction may drop.  The record counts force a
\* minimum; which further acknowledged records the byte reserves force out
\* depends on sizes that are not modelled.
compactions(T) ==
    {gone \in SUBSET acknowledged :
        /\ \A t \in T : LET mine == ofTenant(t, records) IN
              Cardinality(mine) >= MaxRecords =>
                  Cardinality(gone \cap mine)
                      >= atMost(Cardinality(mine) - TargetRecords, acknowledged \cap mine)
        /\ Cardinality(known(records)) >= MaxTotal =>
               Cardinality(gone)
                   >= atMost(Cardinality(known(records)) - TargetTotal, acknowledged)}

without(gone) == [c \in Command |-> IF c \in gone THEN None ELSE records[c]]

\* persistLocked: replace the file, then swap memory.
persistLocked(next, ok) ==
    \/ /\ ok
       /\ records' = next /\ recordsDisk' = next
       /\ UNCHANGED faults
    \/ /\ ~ok /\ faults < MaxFaults
       /\ faults' = faults + 1
       /\ recordsDisk' \in {recordsDisk, next}
       /\ UNCHANGED records

ensure(next) == IF next = records THEN UNCHANGED stores ELSE persistLocked(next, TRUE)

(***************************************************************************)
(* What the threads do.                                                   *)
(***************************************************************************)
task(d, pc, s) == [command |-> d.command, generation |-> d.generation, pc |-> pc, status |-> s]

drop(w) == job' = [job EXCEPT ![w] = None] /\ UNCHANGED last

step(w, pc, s) ==
    job' = [job EXCEPT ![w] = task(job[w], pc, s)] /\ UNCHANGED last

\* sendReportV4: the report leaves the node.
send(w, d, s) ==
    /\ job' = [job EXCEPT ![w] = task(d, "reporting", s)]
    /\ last' = [last EXCEPT ![d.command] = s]

owns(d) ==
    /\ job["canary"] # None
    /\ job["canary"].command = d.command
    /\ job["canary"].generation = d.generation

\* A canary runs on its own worker, one at a time; another one stays
\* durably accepted.  Any other command runs on the poll loop.
start(d) ==
    LET w == IF d.command.kind = "activation-canary" THEN "canary" ELSE "poller"
    IN  /\ job' = IF job[w] = None
                  THEN [job EXCEPT ![w] = task(d, "accepted", None)]
                  ELSE job
        /\ UNCHANGED last

(***************************************************************************)
(* acceptDelivery, for a command the store already knows.                 *)
(***************************************************************************)
acceptKnown(d) ==
    LET c    == d.command
        rec  == [renewed(records[c], d.generation) EXCEPT !.tenanted = TRUE]
        next == [records EXCEPT ![c] = rec]
        unknown == [records EXCEPT ![c] = terminal(d.generation, "outcome_unknown", TRUE)]
    IN  /\ UNCHANGED forgotten
        /\ \/ \* The renewed record could not be stored.
              next # records /\ persistLocked(next, FALSE) /\ drop("poller")
           \/ /\ rec.phase = "accepted"
              /\ ensure(next) /\ start(d)
           \/ /\ rec.phase = "terminal"
              /\ ensure(next) /\ send("poller", d, rec.status)
           \/ /\ rec.phase = "executing"
              /\ persistLocked(unknown, TRUE) /\ send("poller", d, "outcome_unknown")
           \/ \* The renewed record was stored, the unknown outcome was not.
              /\ rec.phase = "executing"
              /\ faults < MaxFaults /\ faults' = faults + 1
              /\ records' = next
              /\ recordsDisk' \in {IF next = records THEN recordsDisk ELSE next, unknown}
              /\ drop("poller")

\* acceptDelivery, for a command the store does not know.
acceptNew(d) ==
    LET c == d.command
    IN  \E gone \in compactions({c.tenant}), ok \in BOOLEAN :
          LET kept == without(gone)
              room == /\ Cardinality(ofTenant(c.tenant, kept)) < MaxRecords
                      /\ Cardinality(known(kept)) < MaxTotal
          IN  \/ /\ room
                 /\ persistLocked([kept EXCEPT ![c] = accepted(d.generation)], ok)
                 /\ forgotten' = forgotten \cup gone
                 /\ IF ok THEN start(d) ELSE drop("poller")
              \/ /\ ~room /\ ~ok
                 /\ drop("poller") /\ UNCHANGED <<stores, forgotten>>

refused(rec) == IF rec.phase = "executing" THEN "outcome_unknown" ELSE "rejected"

\* rejectDelivery: a terminal outcome wins over the refusal, and a command
\* whose handler was entered is unknown, not rejected.
rejectDelivery(w, d) ==
    LET c == d.command
        rec == records[c]
    IN  \/ /\ rec # None /\ d.generation < rec.generation
           /\ drop(w) /\ UNCHANGED <<stores, forgotten>>
        \/ /\ rec # None /\ d.generation >= rec.generation /\ rec.phase = "terminal"
           /\ \E ok \in BOOLEAN :
                 /\ persistLocked([records EXCEPT ![c] = renewed(rec, d.generation)], ok)
                 /\ IF ok THEN send(w, d, rec.status) ELSE drop(w)
           /\ UNCHANGED forgotten
        \/ /\ rec # None /\ d.generation >= rec.generation /\ rec.phase # "terminal"
           /\ \E gone \in SUBSET acknowledged, ok \in BOOLEAN :
                 LET s == refused(rec)
                 IN  /\ persistLocked([without(gone) EXCEPT
                                         ![c] = terminal(d.generation, s, rec.tenanted)], ok)
                     /\ IF ok THEN send(w, d, s) ELSE drop(w)
                     /\ forgotten' = forgotten \cup gone
        \/ /\ rec = None
           /\ \E gone \in compactions({}), ok \in BOOLEAN :
                 \/ /\ Cardinality(known(without(gone))) < MaxTotal
                    /\ persistLocked([without(gone) EXCEPT
                                        ![c] = terminal(d.generation, "rejected", FALSE)], ok)
                    /\ IF ok THEN send(w, d, "rejected") ELSE drop(w)
                    /\ forgotten' = forgotten \cup gone
                 \/ /\ Cardinality(known(without(gone))) >= MaxTotal /\ ~ok
                    /\ drop(w) /\ UNCHANGED <<stores, forgotten>>

(***************************************************************************)
(* The poll loop.  pollOnce drains the unacknowledged reports first and    *)
(* polls only when every one of them was settled.                         *)
(***************************************************************************)
BeginPoll ==
    /\ phase = "delivering" /\ todo = {} /\ job["poller"] = None
    /\ phase' = "draining" /\ todo' = unacknowledged /\ failed' = FALSE
    /\ UNCHANGED <<stores, fences, capable, job, applied, last, forgotten, crashes>>

SendUnacknowledged ==
    /\ phase = "draining" /\ job["poller"] = None
    /\ \E r \in todo :
          /\ todo' = todo \ {r}
          /\ send("poller", r, r.status)
    /\ UNCHANGED <<stores, fences, phase, failed, capable, applied, forgotten, crashes>>

EndDrain ==
    /\ phase = "draining" /\ todo = {} /\ job["poller"] = None
    /\ phase' = IF failed THEN "delivering" ELSE "polling"
    /\ capable' = (~failed /\ job["canary"] = None)
    /\ UNCHANGED <<stores, fences, todo, failed, job, applied, last, forgotten, crashes>>

\* The poll was answered with a batch of deliveries, or failed.
PollAnswered(batch) ==
    /\ phase = "polling"
    /\ phase' = "delivering" /\ todo' = batch /\ capable' = FALSE
    /\ UNCHANGED <<stores, fences, failed, job, applied, last, forgotten, crashes>>

\* processDeliveryV4, up to and including the store's decision.
ProcessDelivery ==
    /\ phase = "delivering" /\ job["poller"] = None
    /\ \E d \in todo :
          /\ todo' = todo \ {d}
          /\ \/ rejectDelivery("poller", d)
             \/ /\ owns(d)
                /\ drop("poller") /\ UNCHANGED <<stores, forgotten>>
             \/ /\ ~owns(d) /\ records[d.command] # None
                /\ d.generation < records[d.command].generation
                /\ drop("poller") /\ UNCHANGED <<stores, forgotten>>
             \/ /\ ~owns(d) /\ records[d.command] # None
                /\ d.generation >= records[d.command].generation
                /\ acceptKnown(d)
             \/ ~owns(d) /\ records[d.command] = None /\ acceptNew(d)
    /\ UNCHANGED <<fences, phase, failed, capable, applied, crashes>>

(***************************************************************************)
(* Execution, by the poll loop or by the canary worker.                   *)
(***************************************************************************)
at(w, pc) == job[w] # None /\ job[w].pc = pc

\* The file holds "executing" before the handler is called.
MarkExecuting(w) ==
    /\ at(w, "accepted")
    /\ LET c == job[w].command IN
          IF records[c] # None /\ records[c].phase = "accepted"
          THEN \E ok \in BOOLEAN :
                  /\ persistLocked([records EXCEPT ![c].phase = "executing"], ok)
                  /\ IF ok THEN step(w, "marked", None) ELSE drop(w)
          ELSE drop(w) /\ UNCHANGED stores
    /\ UNCHANGED <<fences, loop, applied, forgotten, crashes>>

\* execute, up to the handler call.  A stale command is a successful no-op.
Execute(w) ==
    /\ at(w, "marked")
    /\ LET c == job[w].command IN
          \/ /\ ~matchesLifecycle(c)
             /\ step(w, "finished", "rejected")
          \/ /\ matchesLifecycle(c) /\ fenced(c, fence)
             /\ step(w, "finished",
                     IF c.kind = "activation-canary" THEN "rejected" ELSE "done")
          \/ /\ matchesLifecycle(c) /\ ~fenced(c, fence)
             /\ step(w, "calling", None)
    /\ UNCHANGED <<stores, fences, loop, applied, forgotten, crashes>>

effect(c) == applied' = [applied EXCEPT ![c] = IF @ = 0 THEN 1 ELSE 2]

\* The local handler: an authoritative refusal, a success, a terminal canary
\* failure, or an answer from which the effect cannot be told.
CallHandler(w) ==
    /\ at(w, "calling")
    /\ LET c == job[w].command IN
          \/ UNCHANGED applied /\ step(w, "finished", "rejected")
          \/ /\ IF c.kind = "read" THEN UNCHANGED applied ELSE effect(c)
             /\ IF advancesFence(c) THEN step(w, "applied", None)
                                    ELSE step(w, "finished", "done")
          \/ /\ c.kind = "activation-canary"
             /\ effect(c) /\ step(w, "finished", "failed")
          \/ /\ c.kind # "read"
             /\ effect(c) \/ UNCHANGED applied
             /\ step(w, "finished", "outcome_unknown")
    /\ UNCHANGED <<stores, fences, loop, forgotten, crashes>>

\* Mutant: only the copy in memory is advanced.
FaultyPersistFence(next, ok) ==
    ok /\ fence' = next /\ UNCHANGED <<fenceDisk, faults>>

persistFence(next, ok) ==
    \/ /\ ok
       /\ fence' = next /\ fenceDisk' = next
       /\ UNCHANGED faults
    \/ /\ ~ok /\ faults < MaxFaults
       /\ faults' = faults + 1
       /\ fenceDisk' \in {fenceDisk, next}
       /\ UNCHANGED fence

\* StateStore.advance.
AdvanceFence(w) ==
    /\ at(w, "applied")
    /\ LET c      == job[w].command
           next   == [fence EXCEPT ![c.instance] = position(c)]
           behind == /\ fence[c.instance] # None
                     /\ statePrecedes(position(c), fence[c.instance])
       IN  \E ok \in BOOLEAN :
             /\ IF behind THEN ~ok /\ UNCHANGED <<fences, faults>> ELSE persistFence(next, ok)
             /\ step(w, "finished", IF ok THEN "done" ELSE "outcome_unknown")
    /\ UNCHANGED <<records, recordsDisk, loop, applied, forgotten, crashes>>

\* MarkTerminalV4, then the report; the canary worker falls back to recording
\* an unknown outcome, the poll loop leaves the record executing.
MarkTerminal(w) ==
    /\ at(w, "finished")
    /\ LET c   == job[w].command
           rec == records[c]
           giveUp == IF w = "canary" THEN step(w, "unpersisted", None) ELSE drop(w)
       IN  IF /\ rec # None /\ rec.phase = "executing"
              /\ rec.generation = job[w].generation
           THEN \E ok \in BOOLEAN :
                   /\ persistLocked([records EXCEPT ![c].phase = "terminal",
                                                    ![c].status = job[w].status], ok)
                   /\ IF ok THEN send(w, job[w], job[w].status) ELSE giveUp
           ELSE giveUp /\ UNCHANGED stores
    /\ UNCHANGED <<fences, loop, applied, forgotten, crashes>>

PersistOutcomeUnknown ==
    /\ at("canary", "unpersisted")
    /\ rejectDelivery("canary", job["canary"])
    /\ UNCHANGED <<fences, loop, applied, crashes>>

(***************************************************************************)
(* Reports.  Any acknowledgement settles, applied or not.                 *)
(***************************************************************************)
missed(w) == failed' = (failed \/ (w = "poller" /\ phase = "draining"))

Acknowledged(w) ==
    /\ at(w, "reporting")
    /\ LET c   == job[w].command
           rec == records[c]
       IN  IF /\ rec # None /\ rec.phase = "terminal"
              /\ rec.generation = job[w].generation
           THEN \/ /\ rec.settled = rec.generation /\ UNCHANGED <<stores, failed>>
                \/ /\ rec.settled # rec.generation
                   /\ \E ok \in BOOLEAN :
                         /\ persistLocked([records EXCEPT ![c].settled = rec.generation], ok)
                         /\ IF ok THEN UNCHANGED failed ELSE missed(w)
           ELSE UNCHANGED stores /\ missed(w)
    /\ drop(w)
    /\ UNCHANGED <<fences, phase, todo, capable, applied, forgotten, crashes>>

Unacknowledged(w) ==
    /\ at(w, "reporting")
    /\ missed(w) /\ drop(w)
    /\ UNCHANGED <<stores, fences, phase, todo, capable, applied, forgotten, crashes>>

\* Mutant: an executing record is resumed as if it were only accepted.
FaultyRecovered(rec) ==
    IF rec # None /\ rec.phase = "executing" THEN accepted(rec.generation) ELSE rec

\* A crash at any point, then startup: both files are read back and
\* RecoverExecuting turns every executing record into an unknown outcome.
recovered(rec) ==
    IF rec # None /\ rec.phase = "executing"
    THEN terminal(rec.generation, "outcome_unknown", rec.tenanted)
    ELSE rec

Restart ==
    /\ crashes < MaxCrashes /\ crashes' = crashes + 1
    /\ LET next == [c \in Command |-> recovered(recordsDisk[c])]
       IN  records' = next /\ recordsDisk' = next
    /\ fence' = fenceDisk
    /\ phase' = "delivering" /\ todo' = {} /\ failed' = FALSE /\ capable' = FALSE
    /\ job' = [w \in Thread |-> None]
    /\ UNCHANGED <<fenceDisk, applied, last, forgotten, faults>>

Init ==
    /\ records = [c \in Command |-> None] /\ recordsDisk = records
    /\ fence = InitialFence /\ fenceDisk = InitialFence
    /\ phase = "delivering" /\ todo = {} /\ failed = FALSE /\ capable = FALSE
    /\ job = [w \in Thread |-> None]
    /\ applied = [c \in Command |-> 0]
    /\ last = [c \in Command |-> None]
    /\ forgotten = {}
    /\ faults = 0 /\ crashes = 0

\* What one thread does on its own.
ThreadStep(w) ==
    \/ w = "poller" /\ (BeginPoll \/ SendUnacknowledged \/ EndDrain \/ ProcessDelivery)
    \/ w = "canary" /\ PersistOutcomeUnknown
    \/ MarkExecuting(w) \/ Execute(w) \/ CallHandler(w)
    \/ AdvanceFence(w) \/ MarkTerminal(w)

NodeStep == \E w \in Thread : ThreadStep(w)

\* A failed poll delivers nothing.
Batches == {batch \in SUBSET Delivery : Cardinality(batch) <= MaxBatch}

Next ==
    \/ NodeStep
    \/ Restart
    \/ \E batch \in Batches : PollAnswered(batch)
    \/ \E w \in Thread : Acknowledged(w) \/ Unacknowledged(w)

Spec == Init /\ [][Next]_vars
-----------------------------------------------------------------------------
TypeOK ==
    /\ records \in [Command -> Record \cup {None}]
    /\ recordsDisk \in [Command -> Record \cup {None}]
    /\ fence \in [Instance -> Position \cup {None}]
    /\ fenceDisk \in [Instance -> Position \cup {None}]
    /\ phase \in {"draining", "polling", "delivering"}
    /\ todo \subseteq (IF phase = "draining" THEN Report ELSE Delivery)
    /\ failed \in BOOLEAN /\ capable \in BOOLEAN
    /\ job \in [Thread -> Job \cup {None}]
    /\ applied \in [Command -> 0..2]
    /\ last \in [Command -> Status \cup {None}]
    /\ forgotten \subseteq Command
    /\ faults \in 0..MaxFaults /\ crashes \in 0..MaxCrashes

\* A lifecycle mutation reaches the local handler with effect at most once,
\* whatever the controller redelivers, whichever replacement fails and
\* wherever the node crashes (docs/executor.md: an interrupted command "is
\* never silently retried as a fresh effect").
AppliedOnce ==
    \A c \in Command : advancesFence(c) => applied[c] <= 1

\* A done record on disk is backed by the other file: the durable fence has
\* passed the command, so dropping the record later cannot reopen it
\* (compactAcknowledgedDeliveries: "Done means the independent signed-command
\* fence is durable").
DoneIsFenced ==
    \A c \in Command :
        /\ advancesFence(c)
        /\ recordsDisk[c] # None /\ recordsDisk[c].status = "done"
        => fenced(c, fenceDisk)

\* Once an unknown outcome was put on the wire, no later report of that
\* command says anything else.
UnknownIsFinal ==
    [][\A c \in Command :
          last[c] = "outcome_unknown" => last'[c] = "outcome_unknown"]_vars
=============================================================================
