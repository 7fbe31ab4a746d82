----------------------- MODULE ExecutorUplinkProofs -------------------------
(***************************************************************************)
(* Proofs about ExecutorUplink for every set of commands and all bounds:   *)
(* its inductive invariant, and what each operation preserves of it.       *)
(*                                                                         *)
(* A command whose effect may have taken place is held by one of two       *)
(* guards, both of which survive a crash and a failed replacement.  Either *)
(* its record is executing or unknown in memory and on disk, and no        *)
(* operation removes or reopens such a record; or the claim-aware fence    *)
(* has passed it in memory and on disk, and the fence only moves forward.  *)
(* The record is given up only once the fence has taken over.              *)
(***************************************************************************)
EXTENDS ExecutorUplink, TLAPS

Blocked(rec) ==
    /\ rec # None
    /\ \/ rec.phase = "executing"
       \/ rec.phase = "terminal" /\ rec.status = "outcome_unknown"

HeldByRecord(c) == Blocked(records[c]) /\ Blocked(recordsDisk[c])

Passed(c, positions) ==
    /\ positions[c.instance] # None
    /\ positions[c.instance].claim # 0
    /\ commandIsStale(c, positions[c.instance])

HeldByFence(c) == Passed(c, fence) /\ Passed(c, fenceDisk)

Done(rec) == rec # None /\ rec.status = "done"

\* Every position carries a claim: the fence file was not migrated from the
\* format that had none.
aware(positions) ==
    \A i \in Instance : positions[i] # None => positions[i].claim # 0

ClaimAware == aware(InitialFence)

Runs(c, pcs) ==
    /\ job["poller"] # None
    /\ job["poller"].command = c
    /\ job["poller"].pc \in pcs

Entered == {"accepted", "marked", "calling", "applied", "finished"}

\* The canary worker runs canaries, and the poll loop runs nothing else.
ThreadInv ==
    /\ job["canary"] # None => job["canary"].command.kind = "activation-canary"
    /\ job["poller"] # None /\ job["poller"].pc \in Entered
         => job["poller"].command.kind # "activation-canary"
    /\ \A w \in Thread : at(w, "applied") => advancesFence(job[w].command)

\* A done outcome is backed by the fence, and the fence file is never behind
\* the copy in memory.
DoneInv(c) ==
    /\ Passed(c, fence) => Passed(c, fenceDisk)
    /\ Done(records[c]) \/ Done(recordsDisk[c]) => HeldByFence(c)
    /\ Runs(c, {"finished"}) /\ job["poller"].status = "done" => HeldByFence(c)

CommandInv(c) ==
    /\ applied[c] # 0 => HeldByFence(c) \/ HeldByRecord(c)
    /\ Runs(c, {"marked"}) /\ applied[c] # 0 => HeldByFence(c)
    /\ Runs(c, {"calling"}) => applied[c] = 0
    /\ Runs(c, {"marked", "calling", "applied"}) => HeldByRecord(c)
    /\ Runs(c, {"finished"}) /\ job["poller"].status # "outcome_unknown"
         => applied[c] = 0 \/ HeldByFence(c)
    /\ applied[c] <= 1
    /\ ClaimAware => DoneInv(c)

AppliedInv ==
    /\ ClaimAware => aware(fence) /\ aware(fenceDisk)
    /\ \A c \in Command : advancesFence(c) => CommandInv(c)

IInv == TypeOK /\ ThreadInv /\ AppliedInv

StoreOK ==
    /\ records \in [Command -> Record \cup {None}]
    /\ recordsDisk \in [Command -> Record \cup {None}]
    /\ faults \in 0..MaxFaults

FenceOK ==
    /\ fence \in [Instance -> Position \cup {None}]
    /\ fenceDisk \in [Instance -> Position \cup {None}]

LoopOK ==
    /\ phase \in {"draining", "polling", "delivering"}
    /\ todo \subseteq (IF phase = "draining" THEN Report ELSE Delivery)
    /\ failed \in BOOLEAN /\ capable \in BOOLEAN

JobOK ==
    /\ job \in [Thread -> Job \cup {None}]
    /\ last \in [Command -> Status \cup {None}]

HistoryOK ==
    /\ applied \in [Command -> 0..2]
    /\ forgotten \subseteq Command
    /\ crashes \in 0..MaxCrashes

LEMMA TypeParts == TypeOK <=> StoreOK /\ FenceOK /\ LoopOK /\ JobOK /\ HistoryOK
  BY Zenon DEF TypeOK, StoreOK, FenceOK, LoopOK, JobOK, HistoryOK

LEMMA TypePartsNext ==
  StoreOK' /\ FenceOK' /\ LoopOK' /\ JobOK' /\ HistoryOK' => TypeOK'
  BY Zenon DEF TypeOK, StoreOK, FenceOK, LoopOK, JobOK, HistoryOK

\* A step that gives up no record a mutation is held by and makes none done,
\* and that moves the poll loop into no step of an execution but the first or
\* the last.
RecordsKept ==
    \A c \in Command : advancesFence(c) =>
        /\ HeldByRecord(c) => HeldByRecord(c)'
        /\ Done(records[c])' \/ Done(recordsDisk[c])' => Done(records[c]) \/ Done(recordsDisk[c])

PollerQuiet ==
    \/ job'["poller"] = job["poller"]
    \/ job'["poller"] = None
    \/ job'["poller"].pc \in {"accepted", "reporting"}

-----------------------------------------------------------------------------
\* The fence only moves forward: what a claim-aware position has passed, every
\* position that does not precede it has passed too.
LEMMA FenceMonotone ==
  ASSUME NEW c \in Command, NEW cur \in Position, NEW new \in Position,
         cur.claim # 0, commandIsStale(c, cur), ~statePrecedes(new, cur)
  PROVE  new.claim # 0 /\ commandIsStale(c, new)
  BY CommandAssumption DEF Position, commandIsStale, statePrecedes

LEMMA PersistStore ==
  ASSUME StoreOK, NEW next \in [Command -> Record \cup {None}], NEW ok \in BOOLEAN,
         persistLocked(next, ok),
         \A c \in Command : advancesFence(c) =>
             /\ Blocked(records[c]) => Blocked(next[c])
             /\ Done(next[c]) => Done(records[c])
  PROVE  StoreOK' /\ RecordsKept
<1>1. StoreOK'
  BY BoundAssumption DEF StoreOK, persistLocked
<1>2. RecordsKept
  <2>1. CASE records' = next /\ recordsDisk' = next
    BY <2>1, Zenon DEF RecordsKept, HeldByRecord, Blocked, Done
  <2>2. CASE records' = records /\ recordsDisk' \in {recordsDisk, next}
    BY <2>2, Zenon DEF RecordsKept, HeldByRecord, Blocked, Done
  <2> QED BY <2>1, <2>2, Zenon DEF persistLocked
<1> QED BY <1>1, <1>2, Zenon

LEMMA StoreUnchanged ==
  ASSUME StoreOK, UNCHANGED stores
  PROVE  StoreOK' /\ RecordsKept
  BY Zenon DEF StoreOK, stores, RecordsKept, HeldByRecord, Blocked, Done

\* A compaction drops no record that is executing or unknown.
LEMMA WithoutKeeps ==
  ASSUME StoreOK, NEW gone \in SUBSET acknowledged
  PROVE  /\ without(gone) \in [Command -> Record \cup {None}]
         /\ \A c \in Command : advancesFence(c) /\ Blocked(records[c])
                                 => without(gone)[c] = records[c]
<1>1. without(gone) \in [Command -> Record \cup {None}]
  BY Zenon DEF StoreOK, without
<1>2. \A c \in Command : advancesFence(c) /\ Blocked(records[c]) => c \notin gone
  BY Zenon DEF acknowledged, safeAcknowledgedDelivery, advancesFence, Blocked
<1> QED BY <1>1, <1>2, Zenon DEF without

LEMMA RenewedType ==
  ASSUME NEW rec \in Record, NEW g \in Generation
  PROVE  /\ renewed(rec, g) \in Record
         /\ renewed(rec, g).phase = rec.phase
         /\ renewed(rec, g).status = rec.status
<1> DEFINE settled == IF g > rec.generation THEN 0 ELSE rec.settled
<1>1. settled \in 0..MaxGeneration
  BY BoundAssumption DEF Record, Generation
<1> HIDE DEF settled
<1>2. renewed(rec, g) = [rec EXCEPT !.generation = g, !.settled = settled]
  BY Zenon DEF renewed, settled
<1> QED BY ZenonT(40), <1>1, <1>2 DEF Record

LEMMA TerminalType ==
  ASSUME NEW g \in Generation, NEW s \in Status, NEW t \in BOOLEAN
  PROVE  /\ terminal(g, s, t) \in Record
         /\ s = "outcome_unknown" => Blocked(terminal(g, s, t))
         /\ s # "done" => ~Done(terminal(g, s, t))
  BY BoundAssumption, NoneAssumption DEF terminal, Record, Generation, Blocked, Done

-----------------------------------------------------------------------------
\* The ways a thread's job changes outside an execution.
LEMMA DropJob ==
  ASSUME JobOK, ThreadInv, NEW w \in Thread, drop(w)
  PROVE  JobOK' /\ ThreadInv' /\ PollerQuiet
  BY Zenon DEF JobOK, ThreadInv, PollerQuiet, drop, at, Thread

LEMMA SendJob ==
  ASSUME JobOK, ThreadInv, NEW w \in Thread, NEW d, NEW s \in Status \cup {None},
         d.command \in Command, d.generation \in Generation, send(w, d, s),
         w = "canary" => d.command.kind = "activation-canary"
  PROVE  JobOK' /\ ThreadInv' /\ PollerQuiet
<1> DEFINE t == task(d, "reporting", s)
<1>1. t \in Job /\ t.pc = "reporting" /\ t.command = d.command
  BY Zenon DEF task, Job
<1> HIDE DEF t
<1>2. job' = [job EXCEPT ![w] = t] /\ last' = [last EXCEPT ![d.command] = s]
  BY Zenon DEF send, t
<1>3. JobOK'
  BY <1>1, <1>2, Zenon DEF JobOK
<1>4. ThreadInv' /\ PollerQuiet
  BY <1>1, <1>2, NoneAssumption, Zenon DEF JobOK, ThreadInv, PollerQuiet, at, Thread, Entered
<1> QED BY <1>3, <1>4, Zenon

LEMMA StartJob ==
  ASSUME JobOK, ThreadInv, NEW d \in Delivery, start(d)
  PROVE  JobOK' /\ ThreadInv' /\ PollerQuiet
<1> DEFINE w == IF d.command.kind = "activation-canary" THEN "canary" ELSE "poller"
           t == task(d, "accepted", None)
<1>1. t \in Job /\ t.pc = "accepted" /\ t.command = d.command
  BY Zenon DEF task, Job, Delivery
<1>2. /\ job' = IF job[w] = None THEN [job EXCEPT ![w] = t] ELSE job
      /\ last' = last
  BY Zenon DEF start
<1>3. /\ w \in Thread
      /\ w = "canary" => d.command.kind = "activation-canary"
      /\ w = "poller" => d.command.kind # "activation-canary"
  BY Zenon DEF Thread
<1> HIDE DEF t, w
<1>4. CASE job' = job
  BY ZenonT(40), <1>2, <1>4 DEF JobOK, ThreadInv, PollerQuiet, at
<1>5. CASE job' = [job EXCEPT ![w] = t]
  <2>1. JobOK'
    BY <1>1, <1>2, <1>3, <1>5, Zenon DEF JobOK
  <2>2. ThreadInv' /\ PollerQuiet
    BY <1>1, <1>3, <1>5, Zenon DEF JobOK, ThreadInv, PollerQuiet, at, Thread, Entered
  <2> QED BY <2>1, <2>2, Zenon
<1> QED BY <1>2, <1>4, <1>5, Zenon

-----------------------------------------------------------------------------
\* What every operation of the delivery store guarantees.
StoreStep ==
    /\ StoreOK' /\ RecordsKept
    /\ JobOK' /\ ThreadInv' /\ PollerQuiet
    /\ forgotten' \subseteq Command

\* Replacing one record by a typed one that is blocked if the old one was.
LEMMA ReplaceRecord ==
  ASSUME StoreOK, NEW gone \in SUBSET acknowledged, NEW c \in Command,
         NEW new \in Record, NEW ok \in BOOLEAN,
         advancesFence(c) /\ Blocked(records[c]) => Blocked(new),
         advancesFence(c) /\ Done(new) => Done(records[c]),
         persistLocked([without(gone) EXCEPT ![c] = new], ok)
  PROVE  StoreOK' /\ RecordsKept
<1> DEFINE next == [without(gone) EXCEPT ![c] = new]
<1>1. next \in [Command -> Record \cup {None}]
  BY WithoutKeeps, Zenon
<1>2. \A k \in Command : advancesFence(k) =>
         /\ Blocked(records[k]) => Blocked(next[k])
         /\ Done(next[k]) => Done(records[k])
  <2> TAKE k \in Command
  <2> HAVE advancesFence(k)
  <2>1. CASE k = c
    BY <2>1, WithoutKeeps, Zenon
  <2>2. CASE k # c
    <3>1. next[k] = without(gone)[k] /\ (next[k] = None \/ next[k] = records[k])
      BY <2>2, WithoutKeeps, Zenon DEF without
    <3> QED BY <3>1, WithoutKeeps, Zenon DEF Done
  <2> QED BY <2>1, <2>2, Zenon
<1>3. persistLocked(next, ok)
  OBVIOUS
<1> HIDE DEF next
<1> QED BY <1>1, <1>2, <1>3, PersistStore, Zenon

LEMMA WithoutNothing ==
  ASSUME StoreOK
  PROVE  records = without({}) /\ {} \in SUBSET acknowledged
  BY SMTT(40) DEF StoreOK, without

LEMMA RejectStep ==
  ASSUME StoreOK, JobOK, ThreadInv, forgotten \subseteq Command,
         NEW w \in Thread, NEW d, d.command \in Command, d.generation \in Generation,
         w = "canary" => d.command.kind = "activation-canary",
         rejectDelivery(w, d)
  PROVE  StoreStep
<1> DEFINE c == d.command
           rec == records[c]
<1>0. acknowledged \subseteq Command
  BY Zenon DEF acknowledged
<1>1. CASE drop(w) /\ UNCHANGED <<stores, forgotten>>
  BY <1>1, DropJob, StoreUnchanged, Zenon DEF StoreStep
<1>2. ASSUME NEW gone \in SUBSET acknowledged, NEW ok \in BOOLEAN, NEW new \in Record,
             advancesFence(c) /\ Blocked(rec) => Blocked(new),
             advancesFence(c) /\ Done(new) => Done(rec),
             persistLocked([without(gone) EXCEPT ![c] = new], ok),
             NEW s \in Status \cup {None},
             IF ok THEN send(w, d, s) ELSE drop(w),
             forgotten' = forgotten \cup gone
      PROVE  StoreStep
  <2>1. StoreOK' /\ RecordsKept
    BY <1>2, ReplaceRecord, Zenon
  <2>2. JobOK' /\ ThreadInv' /\ PollerQuiet
    <3>1. CASE drop(w)
      BY <3>1, DropJob, Zenon
    <3>2. CASE send(w, d, s)
      BY <3>2, SendJob, Zenon
    <3> QED BY <1>2, <3>1, <3>2, Zenon
  <2> QED BY <1>0, <1>2, <2>1, <2>2, Zenon DEF StoreStep
<1>3. ASSUME rec # None, rec.phase = "terminal", NEW ok \in BOOLEAN,
             persistLocked([records EXCEPT ![c] = renewed(rec, d.generation)], ok),
             IF ok THEN send(w, d, rec.status) ELSE drop(w), UNCHANGED forgotten
      PROVE  StoreStep
  <2> DEFINE new == renewed(rec, d.generation)
  <2>1. rec \in Record /\ rec.status \in Status \cup {None}
    BY SMTT(40), <1>3 DEF StoreOK, Record
  <2>2. new \in Record /\ (Blocked(rec) => Blocked(new)) /\ (Done(new) => Done(rec))
    BY <2>1, <1>3, RenewedType, NoneAssumption, Zenon DEF Blocked, Done
  <2>3. persistLocked([without({}) EXCEPT ![c] = new], ok)
    BY <1>3, WithoutNothing, Zenon
  <2>4. forgotten' = forgotten \cup {}
    BY <1>3, Zenon
  <2> HIDE DEF new, rec
  <2> QED BY SMTT(40), <1>2, <1>3, <2>1, <2>2, <2>3, <2>4, WithoutNothing
<1>4. ASSUME rec # None, NEW gone \in SUBSET acknowledged, NEW ok \in BOOLEAN,
             persistLocked([without(gone) EXCEPT
                              ![c] = terminal(d.generation, refused(rec), rec.tenanted)], ok),
             rec.phase # "terminal",
             IF ok THEN send(w, d, refused(rec)) ELSE drop(w),
             forgotten' = forgotten \cup gone
      PROVE  StoreStep
  <2> DEFINE new == terminal(d.generation, refused(rec), rec.tenanted)
  <2>1. rec.tenanted \in BOOLEAN
    BY SMTT(40), <1>4 DEF StoreOK, Record
  <2>2. refused(rec) \in Status \ {"done"} /\ (Blocked(rec) => refused(rec) = "outcome_unknown")
    BY <1>4, Zenon DEF refused, Status, Blocked
  <2>3. new \in Record /\ (Blocked(rec) => Blocked(new)) /\ ~Done(new)
    BY <2>1, <2>2, TerminalType, Zenon
  <2> HIDE DEF new, rec
  <2> QED BY <1>2, <1>4, <2>2, <2>3, Zenon DEF new
<1>5. ASSUME rec = None, NEW gone \in SUBSET acknowledged, NEW ok \in BOOLEAN,
             persistLocked([without(gone) EXCEPT
                              ![c] = terminal(d.generation, "rejected", FALSE)], ok),
             IF ok THEN send(w, d, "rejected") ELSE drop(w),
             forgotten' = forgotten \cup gone
      PROVE  StoreStep
  <2> DEFINE new == terminal(d.generation, "rejected", FALSE)
  <2>1. new \in Record /\ ~Blocked(rec) /\ "rejected" \in Status /\ ~Done(new)
    BY ZenonT(40), <1>5, TerminalType DEF Status, Blocked
  <2> HIDE DEF new, rec
  <2> QED BY ZenonT(40), <1>2, <1>5, <2>1 DEF new
<1>6. compactions({}) \subseteq SUBSET acknowledged
  BY Zenon DEF compactions
<1> HIDE DEF rec
<1> QED BY ZenonT(40), <1>1, <1>3, <1>4, <1>5, <1>6 DEF rejectDelivery, rec

LEMMA EnsureStep ==
  ASSUME StoreOK, NEW c \in Command, NEW new \in Record,
         advancesFence(c) /\ Blocked(records[c]) => Blocked(new),
         advancesFence(c) /\ Done(new) => Done(records[c]),
         ensure([records EXCEPT ![c] = new])
  PROVE  StoreOK' /\ RecordsKept
<1>1. CASE UNCHANGED stores
  BY <1>1, StoreUnchanged, Zenon
<1>2. CASE persistLocked([records EXCEPT ![c] = new], TRUE)
  <2>1. persistLocked([without({}) EXCEPT ![c] = new], TRUE)
    BY ZenonT(40), <1>2, WithoutNothing
  <2> QED BY ZenonT(40), <2>1, ReplaceRecord, WithoutNothing
<1> QED BY ZenonT(40), <1>1, <1>2 DEF ensure

LEMMA AcceptKnownStep ==
  ASSUME StoreOK, JobOK, ThreadInv, forgotten \subseteq Command,
         NEW d \in Delivery, records[d.command] # None, acceptKnown(d)
  PROVE  StoreStep
<1> DEFINE c == d.command
           old == records[c]
           rec == [renewed(old, d.generation) EXCEPT !.tenanted = TRUE]
           lost == terminal(d.generation, "outcome_unknown", TRUE)
           next == [records EXCEPT ![c] = rec]
           unknown == [records EXCEPT ![c] = lost]
<1>0. /\ c \in Command /\ d.generation \in Generation
      /\ old \in Record /\ "poller" \in Thread
  BY Zenon DEF Delivery, StoreOK, Thread
<1>1. /\ rec \in Record /\ rec.phase = old.phase /\ rec.status = old.status
      /\ rec.status \in Status \cup {None}
  <2>1. /\ renewed(old, d.generation) \in Record
        /\ renewed(old, d.generation).phase = old.phase
        /\ renewed(old, d.generation).status = old.status
    BY <1>0, RenewedType, Zenon
  <2> QED BY ZenonT(40), <2>1 DEF Record
<1>2. (Blocked(old) => Blocked(rec)) /\ (Done(rec) => Done(old))
  BY ZenonT(40), <1>0, <1>1, NoneAssumption DEF Blocked, Done
<1>3. lost \in Record /\ Blocked(lost) /\ ~Done(lost)
  BY ZenonT(40), <1>0, TerminalType DEF Status
<1>4. ASSUME NEW s \in Status \cup {None}, send("poller", d, s)
      PROVE  JobOK' /\ ThreadInv' /\ PollerQuiet
  BY <1>0, <1>4, SendJob, Zenon
<1>5. UNCHANGED forgotten
  BY Zenon DEF acceptKnown
<1> HIDE DEF rec, lost, old
<1>6. CASE next # records /\ persistLocked(next, FALSE) /\ drop("poller")
  <2>1. persistLocked([without({}) EXCEPT ![c] = rec], FALSE)
    BY ZenonT(40), <1>6, WithoutNothing
  <2>2. StoreOK' /\ RecordsKept
    BY ZenonT(40), <1>0, <1>1, <1>2, <2>1, ReplaceRecord, WithoutNothing DEF old
  <2> QED BY <1>0, <1>5, <1>6, <2>2, DropJob, Zenon DEF StoreStep
<1>7. CASE rec.phase = "accepted" /\ ensure(next) /\ start(d)
  <2>1. StoreOK' /\ RecordsKept
    BY <1>0, <1>1, <1>2, <1>7, EnsureStep, Zenon DEF old
  <2> QED BY <1>5, <1>7, <2>1, StartJob, Zenon DEF StoreStep
<1>8. CASE rec.phase = "terminal" /\ ensure(next) /\ send("poller", d, rec.status)
  <2>1. StoreOK' /\ RecordsKept
    BY <1>0, <1>1, <1>2, <1>8, EnsureStep, Zenon DEF old
  <2> QED BY SMTT(40), <1>1, <1>4, <1>5, <1>8, <2>1 DEF StoreStep
<1>9. CASE persistLocked(unknown, TRUE) /\ send("poller", d, "outcome_unknown")
  <2>1. persistLocked([without({}) EXCEPT ![c] = lost], TRUE)
    BY ZenonT(40), <1>9, WithoutNothing
  <2>2. StoreOK' /\ RecordsKept
    BY ZenonT(40), <1>0, <1>3, <2>1, ReplaceRecord, WithoutNothing
  <2> QED BY <1>4, <1>5, <1>9, <2>2, Zenon DEF StoreStep, Status
<1>10. CASE /\ faults < MaxFaults /\ faults' = faults + 1 /\ records' = next
            /\ recordsDisk' \in {IF next = records THEN recordsDisk ELSE next, unknown}
            /\ drop("poller")
  <2>1. StoreOK'
    BY <1>0, <1>1, <1>3, <1>10, BoundAssumption DEF StoreOK
  <2>2. \A k \in Command :
           /\ Blocked(records[k]) => Blocked(next[k]) /\ Blocked(unknown[k])
           /\ Done(next[k]) \/ Done(unknown[k]) => Done(records[k])
    BY SMTT(40), <1>0, <1>1, <1>2, <1>3 DEF StoreOK, old
  <2>3. RecordsKept
    <3> HIDE DEF next, unknown
    <3> QED BY SMTT(40), <1>10, <2>2 DEF RecordsKept, HeldByRecord, Blocked, Done
  <2> QED BY <1>0, <1>5, <1>10, <2>1, <2>3, DropJob, Zenon DEF StoreStep
<1> HIDE DEF next, unknown
<1> QED BY ZenonT(40), <1>6, <1>7, <1>8, <1>9, <1>10 DEF acceptKnown, rec, old, lost, next, unknown

LEMMA AcceptNewStep ==
  ASSUME StoreOK, JobOK, ThreadInv, forgotten \subseteq Command,
         NEW d \in Delivery, records[d.command] = None, acceptNew(d)
  PROVE  StoreStep
<1> DEFINE c == d.command
           new == accepted(d.generation)
<1>1. /\ c \in Command /\ new \in Record /\ ~Blocked(records[c]) /\ ~Done(new)
      /\ "poller" \in Thread
  <2>1. new.status = None
    BY Zenon DEF accepted
  <2>2. ~Done(new)
    BY <2>1, NoneAssumption, Zenon DEF Done, Status
  <2> QED BY <2>2, BoundAssumption DEF Delivery, accepted, Record, Generation, Blocked, Thread
<1> HIDE DEF new
<1>2. compactions({c.tenant}) \subseteq SUBSET acknowledged /\ acknowledged \subseteq Command
  BY Zenon DEF compactions, acknowledged
<1>3. ASSUME NEW gone \in SUBSET acknowledged, NEW ok \in BOOLEAN,
             persistLocked([without(gone) EXCEPT ![c] = new], ok),
             forgotten' = forgotten \cup gone,
             IF ok THEN start(d) ELSE drop("poller")
      PROVE  StoreStep
  <2>1. StoreOK' /\ RecordsKept
    BY <1>1, <1>3, ReplaceRecord, Zenon
  <2>2. JobOK' /\ ThreadInv' /\ PollerQuiet
    BY <1>1, <1>3, StartJob, DropJob, Zenon
  <2> QED BY <1>2, <1>3, <2>1, <2>2, Zenon DEF StoreStep
<1>4. CASE drop("poller") /\ UNCHANGED <<stores, forgotten>>
  BY <1>1, <1>4, DropJob, StoreUnchanged, Zenon DEF StoreStep
<1> QED BY ZenonT(40), <1>2, <1>3, <1>4 DEF acceptNew, new

-----------------------------------------------------------------------------
\* The step leaves what holds a command alone, and the poll loop does not
\* carry it on.
Kept(c) ==
    /\ applied'[c] = applied[c]
    /\ HeldByFence(c) => HeldByFence(c)'
    /\ HeldByRecord(c) => HeldByRecord(c)'
    /\ Done(records[c])' \/ Done(recordsDisk[c])' => Done(records[c]) \/ Done(recordsDisk[c])
    /\ (Passed(c, fence) => Passed(c, fenceDisk)) => (Passed(c, fence) => Passed(c, fenceDisk))'

\* The parts of CommandInv and of Kept that the proofs below take singly.
LEMMA CommandParts ==
  ASSUME NEW c, CommandInv(c)
  PROVE  /\ Runs(c, {"marked"}) => (applied[c] # 0 => HeldByFence(c))
         /\ Runs(c, {"marked", "calling", "applied"}) => HeldByRecord(c)
         /\ ClaimAware => DoneInv(c)
BY Zenon DEF CommandInv

LEMMA KeptParts ==
  ASSUME NEW c, Kept(c)
  PROVE  /\ applied'[c] = applied[c]
         /\ HeldByFence(c) => HeldByFence(c)'
         /\ HeldByRecord(c) => HeldByRecord(c)'
BY Zenon DEF Kept

LEMMA OtherCommand ==
  ASSUME NEW c \in Command, CommandInv(c), Kept(c),
         \/ job'["poller"] = job["poller"]
         \/ job'["poller"] = None
         \/ job'["poller"].pc \in {"accepted", "reporting"}
         \/ job'["poller"].command # c
  PROVE  CommandInv(c)'
<1>1. CASE job'["poller"] = job["poller"]
  <2>1. /\ Runs(c, {"marked"})' <=> Runs(c, {"marked"})
        /\ Runs(c, {"calling"})' <=> Runs(c, {"calling"})
        /\ Runs(c, {"marked", "calling", "applied"})' <=> Runs(c, {"marked", "calling", "applied"})
        /\ Runs(c, {"finished"})' <=> Runs(c, {"finished"})
    BY SMTT(40), <1>1 DEF Runs
  <2> QED BY <1>1, <2>1, Zenon DEF CommandInv, DoneInv, Kept, ClaimAware
<1>2. CASE \/ job'["poller"] = None
           \/ job'["poller"].pc \in {"accepted", "reporting"}
           \/ job'["poller"].command # c
  <2>1. /\ ~Runs(c, {"marked"})' /\ ~Runs(c, {"calling"})'
        /\ ~Runs(c, {"marked", "calling", "applied"})' /\ ~Runs(c, {"finished"})'
    BY <1>2, Zenon DEF Runs
  <2> QED BY ZenonT(40), <2>1 DEF CommandInv, DoneInv, Kept, ClaimAware
<1> QED BY SMTT(40), <1>1, <1>2

LEMMA FencesKept ==
  ASSUME UNCHANGED fences, NEW c \in Command
  PROVE  /\ HeldByFence(c) => HeldByFence(c)'
         /\ Passed(c, fence)' <=> Passed(c, fence)
         /\ Passed(c, fenceDisk)' <=> Passed(c, fenceDisk)
  BY Zenon DEF fences, HeldByFence, Passed

LEMMA StillAware ==
  ASSUME UNCHANGED fences, AppliedInv
  PROVE  (ClaimAware => aware(fence) /\ aware(fenceDisk))'
  BY Zenon DEF fences, AppliedInv, ClaimAware, aware

LEMMA QuietStep ==
  ASSUME AppliedInv, PollerQuiet, RecordsKept, UNCHANGED fences,
         \A c \in Command : advancesFence(c) => applied'[c] = applied[c]
  PROVE  AppliedInv'
<1> SUFFICES ASSUME NEW c \in Command, advancesFence(c)
             PROVE  CommandInv(c)'
  BY SMTT(40), StillAware DEF AppliedInv, advancesFence
<1>1. CommandInv(c) /\ Kept(c)
  BY FencesKept, Zenon DEF AppliedInv, RecordsKept, Kept
<1> QED BY <1>1, OtherCommand, Zenon DEF PollerQuiet

\* A step inside an execution.
LEMMA StepJob ==
  ASSUME JobOK, ThreadInv, NEW w \in Thread, job[w] # None, job[w].pc \in Entered,
         NEW pc \in Entered \cup {"unpersisted"}, NEW s \in Status \cup {None},
         pc = "applied" => advancesFence(job[w].command),
         step(w, pc, s)
  PROVE  /\ JobOK' /\ ThreadInv'
         /\ job'[w].command = job[w].command /\ job'[w].pc = pc /\ job'[w].status = s
         /\ w = "canary" => PollerQuiet
<1> DEFINE t == task(job[w], pc, s)
<1>1. job[w] \in Job
  BY Zenon DEF JobOK
<1>2. t \in Job /\ t.command = job[w].command /\ t.pc = pc /\ t.status = s
  BY <1>1, Zenon DEF task, Job, Entered
<1> HIDE DEF t
<1>3. job' = [job EXCEPT ![w] = t] /\ last' = last
  BY Zenon DEF step, t
<1>4. JobOK'
  BY <1>2, <1>3, Zenon DEF JobOK
<1>5. job'[w] = t /\ \A v \in Thread : v # w => job'[v] = job[v]
  BY <1>3, Zenon DEF JobOK
<1>6. ThreadInv'
  <2>1. job'["canary"] # None => job'["canary"].command.kind = "activation-canary"
    BY <1>2, <1>5, Zenon DEF ThreadInv, Thread
  <2>2. job'["poller"] # None /\ job'["poller"].pc \in Entered
          => job'["poller"].command.kind # "activation-canary"
    BY <1>2, <1>5, Zenon DEF ThreadInv, Thread
  <2>3. \A v \in Thread : at(v, "applied")' => advancesFence(job'[v].command)
    BY <1>2, <1>5, Zenon DEF ThreadInv, at
  <2> QED BY SMTT(40), <2>1, <2>2, <2>3 DEF ThreadInv, at, advancesFence
<1>7. w = "canary" => PollerQuiet
  BY <1>5, Zenon DEF PollerQuiet, Thread
<1> QED BY <1>2, <1>4, <1>5, <1>6, <1>7, Zenon

\* The command an execution is about.
LEMMA Executing ==
  ASSUME JobOK, ThreadInv, NEW w \in Thread, job[w] # None, job[w].pc \in Entered
  PROVE  /\ job[w].command \in Command /\ job[w].generation \in Generation
         /\ job[w].status \in Status \cup {None}
         /\ w = "canary" => ~advancesFence(job[w].command)
  BY Zenon DEF JobOK, ThreadInv, Job, advancesFence



LEMMA MarkExecutingStep ==
  ASSUME IInv, NEW w \in Thread, MarkExecuting(w)
  PROVE  IInv'
<1> DEFINE c == job[w].command
           new == [records[c] EXCEPT !.phase = "executing"]
           next == [records EXCEPT ![c] = new]
<1>0. /\ StoreOK /\ FenceOK /\ LoopOK /\ JobOK /\ HistoryOK /\ ThreadInv /\ AppliedInv
      /\ job[w] # None /\ job[w].pc = "accepted" /\ "accepted" \in Entered
      /\ UNCHANGED <<fences, loop, applied, forgotten, crashes>>
  BY TypeParts, Zenon DEF IInv, MarkExecuting, at, Entered
<1>1. c \in Command /\ (w = "canary" => ~advancesFence(c))
  BY <1>0, Executing, Zenon
<1>2. (FenceOK /\ LoopOK /\ HistoryOK)'
  BY <1>0, Zenon DEF FenceOK, LoopOK, HistoryOK, fences, loop
<1>3. CASE drop(w) /\ UNCHANGED stores
  <2>1. (StoreOK /\ JobOK /\ ThreadInv)' /\ RecordsKept /\ PollerQuiet
    BY <1>0, <1>3, DropJob, StoreUnchanged, Zenon
  <2>2. AppliedInv'
    BY <1>0, <2>1, QuietStep, Zenon
  <2> QED BY <1>2, <2>1, <2>2, TypePartsNext, Zenon DEF IInv
<1>4. ASSUME records[c] # None, records[c].phase = "accepted", NEW ok \in BOOLEAN,
             persistLocked(next, ok),
             IF ok THEN step(w, "marked", None) ELSE drop(w)
      PROVE  IInv'
  <2>1. /\ new \in Record /\ Blocked(new) /\ ~Blocked(records[c])
        /\ Done(new) => Done(records[c])
    <3>1. records[c] \in Record
      BY <1>0, <1>1, <1>4, Zenon DEF StoreOK
    <3>2. new \in Record /\ new.phase = "executing" /\ new.status = records[c].status
      BY SMTT(40), <3>1 DEF Record
    <3> QED BY <1>4, <3>2, NoneAssumption, Zenon DEF Blocked, Done
  <2> HIDE DEF new
  <2>2. StoreOK' /\ RecordsKept
    <3>1. persistLocked([without({}) EXCEPT ![c] = new], ok)
      BY <1>0, <1>4, WithoutNothing, Zenon
    <3> QED BY SMTT(40), <1>0, <1>1, <2>1, <3>1, ReplaceRecord, WithoutNothing
  <2>3. CASE ~ok \/ w = "canary"
    <3>1. (JobOK /\ ThreadInv)' /\ PollerQuiet
      <4>1. CASE drop(w)
        BY <1>0, <4>1, DropJob, Zenon
      <4>2. CASE w = "canary" /\ step(w, "marked", None)
        BY <1>0, <4>2, StepJob, Zenon DEF Entered
      <4> QED BY <1>4, <2>3, <4>1, <4>2, Zenon
    <3>2. AppliedInv'
      BY <1>0, <2>2, <3>1, QuietStep, Zenon
    <3> QED BY <1>2, <2>2, <3>1, <3>2, TypePartsNext, Zenon DEF IInv
  <2>4. CASE ok /\ w = "poller"
    <3>1. /\ (JobOK /\ ThreadInv)'
          /\ job'["poller"].command = c /\ job'["poller"].pc = "marked"
      BY <1>0, <1>4, <2>4, StepJob, Zenon DEF Entered
    <3>2. ASSUME NEW k \in Command, advancesFence(k)
          PROVE  CommandInv(k)'
      <4>1. CommandInv(k) /\ Kept(k)
        BY SMTT(40), <1>0, <2>2, <3>2, FencesKept DEF AppliedInv, RecordsKept, Kept
      <4>2. CASE k # c
        BY SMTT(40), <3>1, <4>1, <4>2, OtherCommand
      <4>3. CASE k = c
        <5>1. records'[k] = new /\ recordsDisk'[k] = new
          BY SMTT(40), <1>0, <1>1, <1>4, <2>4, <4>3 DEF persistLocked, StoreOK
        <5>2. HeldByRecord(k)'
          BY SMTT(40), <2>1, <5>1 DEF HeldByRecord, Blocked
        <5>3. applied[k] # 0 => HeldByFence(k)'
          BY <2>1, <4>1, <4>3, Zenon DEF CommandInv, HeldByRecord, Kept
        <5>4. ~Runs(k, {"calling"})' /\ ~Runs(k, {"finished"})'
          BY SMTT(40), <3>1 DEF Runs
        <5> QED BY SMTT(40), <4>1, <5>2, <5>3, <5>4 DEF CommandInv, DoneInv, Kept, ClaimAware
      <4> QED BY SMTT(40), <4>2, <4>3
    <3>3. AppliedInv'
      BY <1>0, <3>2, StillAware, Zenon DEF AppliedInv, advancesFence
    <3> QED BY SMTT(40), <1>2, <2>2, <3>1, <3>3, TypePartsNext DEF IInv
  <2> QED BY <2>3, <2>4, Zenon DEF Thread
<1> HIDE DEF c
<1>5. next = [records EXCEPT ![c].phase = "executing"]
  BY <1>0, <1>1, Zenon DEF StoreOK
<1> HIDE DEF next, new
<1> QED BY ZenonT(40), <1>3, <1>4, <1>5 DEF MarkExecuting, c

\* What a step of an execution starts from.
LEMMA Starting ==
  ASSUME IInv
  PROVE  StoreOK /\ FenceOK /\ LoopOK /\ JobOK /\ HistoryOK /\ ThreadInv /\ AppliedInv
  BY SMTT(40), TypeParts DEF IInv

\* A mutation that the poll loop carries on: its own invariant is shown by the
\* caller, every other command is left alone.
LEMMA PollerStep ==
  ASSUME AppliedInv, NEW c \in Command, job'["poller"].command = c,
         \A k \in Command : advancesFence(k) /\ k # c => Kept(k),
         advancesFence(c) => CommandInv(c)',
         (ClaimAware => aware(fence) /\ aware(fenceDisk))'
  PROVE  AppliedInv'
<1> SUFFICES ASSUME NEW k \in Command, advancesFence(k), k # c
             PROVE  CommandInv(k)'
  BY Zenon DEF AppliedInv, advancesFence
<1>1. CommandInv(k) /\ Kept(k)
  BY SMTT(40) DEF AppliedInv
<1> QED BY <1>1, OtherCommand, Zenon

LEMMA ExecuteStep ==
  ASSUME IInv, NEW w \in Thread, Execute(w)
  PROVE  IInv'
<1>0. /\ StoreOK /\ FenceOK /\ LoopOK /\ JobOK /\ HistoryOK /\ ThreadInv /\ AppliedInv
      /\ job[w] # None /\ job[w].pc = "marked" /\ "marked" \in Entered
      /\ UNCHANGED <<stores, fences, loop, applied, forgotten, crashes>>
  BY Starting, Zenon DEF Execute, at, Entered
<1>1. PICK c \in Command : c = job[w].command /\ (w = "canary" => ~advancesFence(c))
  BY SMTT(40), <1>0, Executing
<1>2. (FenceOK /\ LoopOK /\ HistoryOK)'
  BY <1>0, Zenon DEF FenceOK, LoopOK, HistoryOK, fences, loop
<1>3. StoreOK' /\ RecordsKept
  BY <1>0, StoreUnchanged, Zenon
<1>4. ASSUME NEW pc \in {"calling", "finished"}, NEW s \in Status \cup {None},
             step(w, pc, s), pc = "calling" => ~fenced(c, fence),
             s = "done" => fenced(c, fence)
      PROVE  IInv'
  <2>1. /\ JobOK' /\ ThreadInv' /\ (w = "canary" => PollerQuiet)
        /\ job'[w].command = c /\ job'[w].pc = pc /\ job'[w].status = s
    BY SMTT(40), <1>0, <1>1, <1>4, StepJob DEF Entered
  <2>2. CASE w = "canary"
    BY SMTT(40), <1>0, <1>2, <1>3, <2>1, <2>2, QuietStep, TypePartsNext DEF IInv
  <2>3. CASE w = "poller"
    <3>1. \A k \in Command : advancesFence(k) => Kept(k)
      BY SMTT(40), <1>0, <1>3, FencesKept DEF Kept, RecordsKept
    <3>2. ASSUME advancesFence(c) PROVE CommandInv(c)'
      <4>1. /\ CommandInv(c) /\ Kept(c)
            /\ Runs(c, {"marked"}) /\ Runs(c, {"marked", "calling", "applied"})
        BY SMTT(40), <1>0, <1>1, <2>3, <3>1, <3>2 DEF AppliedInv, Runs
      <4>2. (applied[c] # 0 => HeldByFence(c)') /\ HeldByRecord(c)'
        <5>1. (applied[c] # 0 => HeldByFence(c)) /\ HeldByRecord(c)
          BY ZenonT(40), <4>1, CommandParts
        <5>2. /\ applied'[c] = applied[c]
              /\ HeldByFence(c) => HeldByFence(c)'
              /\ HeldByRecord(c) => HeldByRecord(c)'
          BY ZenonT(40), <4>1, KeptParts
        <5> QED BY ZenonT(40), <5>1, <5>2
      <4>3. pc = "calling" => applied[c] = 0
        BY SMTT(40), <1>4, <4>1 DEF CommandInv, HeldByFence, Passed, fenced
      <4>4. ~Runs(c, {"marked"})' /\ (pc = "finished" => ~Runs(c, {"calling"})')
        BY SMTT(40), <1>4, <2>1, <2>3 DEF Runs
      <4>5. ASSUME ClaimAware PROVE DoneInv(c)'
        <5>1. DoneInv(c) /\ aware(fence)
          BY ZenonT(40), <1>0, <4>1, <4>5 DEF CommandInv, AppliedInv
        <5>2. s = "done" => HeldByFence(c)'
          BY ZenonT(40), <1>1, <1>4, <4>1, <5>1 DEF DoneInv, HeldByFence, Passed, fenced, aware, Instance, Kept
        <5> QED BY ZenonT(40), <2>1, <2>3, <4>1, <5>1, <5>2 DEF DoneInv, Kept
      <4> QED BY ZenonT(40), <1>4, <4>1, <4>2, <4>3, <4>4, <4>5 DEF CommandInv, Kept, ClaimAware
    <3>3. AppliedInv'
      BY ZenonT(40), <1>0, <1>1, <2>1, <2>3, <3>1, <3>2, PollerStep, StillAware
    <3> QED BY SMTT(40), <1>2, <1>3, <2>1, <3>3, TypePartsNext DEF IInv
  <2> QED BY SMTT(40), <2>2, <2>3 DEF Thread
<1>5. None # "done"
  BY SMTT(40), NoneAssumption DEF Status
<1> QED BY SMTT(40), <1>1, <1>4, <1>5 DEF Execute, Status

LEMMA CallHandlerStep ==
  ASSUME IInv, NEW w \in Thread, CallHandler(w)
  PROVE  IInv'
<1>0. /\ StoreOK /\ FenceOK /\ LoopOK /\ JobOK /\ HistoryOK /\ ThreadInv /\ AppliedInv
      /\ job[w] # None /\ job[w].pc = "calling" /\ "calling" \in Entered
      /\ UNCHANGED <<stores, fences, loop, forgotten, crashes>>
  BY Starting, Zenon DEF CallHandler, at, Entered
<1>1. PICK c \in Command : c = job[w].command /\ (w = "canary" => ~advancesFence(c))
  BY <1>0, Executing, Zenon
<1>2. (FenceOK /\ LoopOK)' /\ StoreOK' /\ RecordsKept
  BY <1>0, StoreUnchanged, Zenon DEF FenceOK, LoopOK, fences, loop
<1>3. /\ applied' = applied \/ effect(c)
      /\ HistoryOK'
      /\ \A k \in Command : k # c => applied'[k] = applied[k]
      /\ applied[c] = 0 => applied'[c] \in {0, 1}
  <2>1. applied' = applied \/ effect(c)
    BY <1>1, Zenon DEF CallHandler
  <2>2. CASE applied' = applied
    BY SMTT(40), <1>0, <2>2 DEF HistoryOK
  <2>3. CASE effect(c)
    BY <1>0, <1>1, <2>3 DEF HistoryOK, effect
  <2> QED BY SMTT(40), <2>1, <2>2, <2>3
<1>4. ASSUME NEW pc \in {"applied", "finished"}, NEW s \in Status \cup {None},
             step(w, pc, s), pc = "applied" => advancesFence(c),
             s = "done" => ~advancesFence(c),
             /\ pc = "finished" /\ s # "outcome_unknown" /\ advancesFence(c)
               => applied' = applied
      PROVE  IInv'
  <2>1. /\ JobOK' /\ ThreadInv' /\ (w = "canary" => PollerQuiet)
        /\ job'[w].command = c /\ job'[w].pc = pc /\ job'[w].status = s
    BY SMTT(40), <1>0, <1>1, <1>4, StepJob DEF Entered
  <2>2. CASE w = "canary"
    <3>1. \A k \in Command : advancesFence(k) => applied'[k] = applied[k]
      BY SMTT(40), <1>1, <1>3, <2>2
    <3>2. AppliedInv'
      BY SMTT(40), <1>0, <1>2, <2>1, <2>2, <3>1, QuietStep
    <3> QED BY ZenonT(40), <1>2, <1>3, <2>1, <3>2, TypePartsNext DEF IInv
  <2>3. CASE w = "poller"
    <3>1. \A k \in Command : advancesFence(k) /\ k # c => Kept(k)
      BY ZenonT(40), <1>0, <1>2, <1>3, FencesKept DEF Kept, RecordsKept
    <3>2. ASSUME advancesFence(c) PROVE CommandInv(c)'
      <4>1. applied[c] = 0 /\ HeldByRecord(c) /\ (ClaimAware => DoneInv(c))
        BY SMTT(40), <1>0, <1>1, <2>3, <3>2 DEF AppliedInv, CommandInv, Runs
      <4>2. HeldByRecord(c)'
        BY SMTT(40), <1>1, <1>2, <3>2, <4>1 DEF RecordsKept
      <4>3. ~Runs(c, {"marked"})' /\ ~Runs(c, {"calling"})'
        BY SMTT(40), <1>4, <2>1, <2>3 DEF Runs
      <4>4. Runs(c, {"finished"})' /\ job'["poller"].status # "outcome_unknown"
              => applied'[c] = 0
        BY SMTT(40), <1>4, <2>1, <2>3, <3>2, <4>1 DEF Runs
      <4>5. ClaimAware => DoneInv(c)'
        <5>1. job'["poller"].status # "done"
          BY <1>4, <2>1, <2>3, <3>2, Zenon
        <5> QED BY ZenonT(40), <1>0, <1>2, <3>2, <4>1, <5>1, FencesKept DEF DoneInv, RecordsKept
      <4>6. applied'[c] <= 1
        <5>1. applied'[c] \in {0, 1}
          BY <1>3, <4>1, Zenon
        <5> QED BY <5>1
      <4>7. ClaimAware' => DoneInv(c)'
        BY SMTT(40), <4>5 DEF ClaimAware
      <4> QED BY SMTT(40), <4>2, <4>3, <4>4, <4>6, <4>7 DEF CommandInv
    <3>3. AppliedInv'
      BY <1>0, <1>1, <2>1, <2>3, <3>1, <3>2, PollerStep, StillAware, Zenon
    <3> QED BY SMTT(40), <1>2, <1>3, <2>1, <3>3, TypePartsNext DEF IInv
  <2> QED BY SMTT(40), <2>2, <2>3 DEF Thread
<1>5. CASE UNCHANGED applied /\ step(w, "finished", "rejected")
  BY <1>4, <1>5, Zenon DEF Status
<1>6. CASE advancesFence(c) /\ step(w, "applied", None)
  BY <1>4, <1>6, NoneAssumption, Zenon DEF Status
<1>7. CASE ~advancesFence(c) /\ step(w, "finished", "done")
  BY <1>4, <1>7, Zenon DEF Status
<1>8. CASE c.kind = "activation-canary" /\ step(w, "finished", "failed")
  BY <1>4, <1>8, Zenon DEF Status, advancesFence
<1>9. CASE step(w, "finished", "outcome_unknown")
  BY SMTT(40), <1>4, <1>9 DEF Status
<1>10. \/ UNCHANGED applied /\ step(w, "finished", "rejected")
       \/ advancesFence(c) /\ step(w, "applied", None)
       \/ ~advancesFence(c) /\ step(w, "finished", "done")
       \/ c.kind = "activation-canary" /\ step(w, "finished", "failed")
       \/ step(w, "finished", "outcome_unknown")
  BY ZenonT(40), <1>1 DEF CallHandler
<1> QED BY ZenonT(40), <1>5, <1>6, <1>7, <1>8, <1>9, <1>10

LEMMA AdvanceFenceStep ==
  ASSUME IInv, NEW w \in Thread, AdvanceFence(w)
  PROVE  IInv'
<1>0. /\ StoreOK /\ FenceOK /\ LoopOK /\ JobOK /\ HistoryOK /\ ThreadInv /\ AppliedInv
      /\ job[w] # None /\ job[w].pc = "applied" /\ "applied" \in Entered
      /\ UNCHANGED <<records, recordsDisk, loop, applied, forgotten, crashes>>
      /\ advancesFence(job[w].command)
  BY SMTT(40), Starting DEF AdvanceFence, at, Entered, ThreadInv
<1>1. PICK c \in Command : /\ c = job[w].command /\ advancesFence(c)
                           /\ w = "poller" /\ c.instance \in Instance
  BY SMTT(40), <1>0, Executing DEF Thread, Instance
<1> DEFINE i == c.instance
           p == position(c)
           next == [fence EXCEPT ![i] = p]
<1>2. /\ p \in Position /\ p # None
      /\ p.claim = c.claim /\ p.generation = c.generation /\ p.sequence = c.sequence
  <2> DEFINE absent == \/ c.kind \in {"destroy", "purge", "clone-state"}
                       \/ /\ c.kind \in {"snapshot-state", "delete-snapshot"}
                          /\ fence[c.instance].absent
  <2>1. absent \in BOOLEAN
    BY SMTT(40)
  <2> HIDE DEF absent
  <2>2. p = [claim |-> c.claim, generation |-> c.generation, sequence |-> c.sequence,
             absent |-> absent]
    BY SMTT(40) DEF position, absent
  <2> HIDE DEF p
  <2> QED BY <1>1, <2>1, <2>2, CommandAssumption, NoneAssumption, SMTT(40) DEF Position
<1> HIDE DEF p
<1>3. LoopOK' /\ HistoryOK' /\ RecordsKept
  BY ZenonT(40), <1>0 DEF LoopOK, HistoryOK, loop, RecordsKept, HeldByRecord, Blocked
<1>4. next \in [Instance -> Position \cup {None}] /\ next[i] = p
  BY SMTT(40), <1>0, <1>1, <1>2 DEF FenceOK
<1>5. Passed(c, next)
  BY <1>1, <1>2, <1>4, CommandAssumption, SMTT(40) DEF Passed, commandIsStale
<1> DEFINE behind == fence[i] # None /\ statePrecedes(p, fence[i])
<1>6. ASSUME ~behind, NEW k \in Command, Passed(k, fence)
      PROVE  Passed(k, next)
  <2>1. CASE k.instance = i
    <3>1. fence[i] \in Position /\ fence[i].claim # 0 /\ commandIsStale(k, fence[i])
      BY SMTT(40), <1>0, <1>1, <1>6, <2>1 DEF FenceOK, Passed
    <3>2. p.claim # 0 /\ commandIsStale(k, p)
      <4>1. ~statePrecedes(p, fence[i])
        BY <1>6, <3>1, NoneAssumption, Zenon
      <4> HIDE DEF behind, i
      <4> QED BY SMTT(40), <1>2, <3>1, <4>1, FenceMonotone
    <3> QED BY SMTT(40), <1>2, <1>4, <2>1, <3>2 DEF Passed
  <2>2. CASE k.instance # i
    <3>1. next[k.instance] = fence[k.instance]
      BY SMTT(40), <1>0, <2>2 DEF FenceOK, Instance
    <3> QED BY SMTT(40), <1>6, <3>1 DEF Passed
  <2> QED BY <2>1, <2>2, Zenon
<1> HIDE DEF next
<1>7. PICK ok \in BOOLEAN :
         /\ IF behind THEN ~ok /\ UNCHANGED <<fences, faults>> ELSE persistFence(next, ok)
         /\ step(w, "finished", IF ok THEN "done" ELSE "outcome_unknown")
  BY SMTT(40), <1>1 DEF AdvanceFence, next, p
<1>8. /\ FenceOK' /\ StoreOK'
      /\ \A k \in Command : HeldByFence(k) => HeldByFence(k)'
      /\ ok => HeldByFence(c)'
      /\ \A k \in Command : (Passed(k, fence) => Passed(k, fenceDisk))
                             => (Passed(k, fence) => Passed(k, fenceDisk))'
      /\ (ClaimAware => aware(fence) /\ aware(fenceDisk))'
  <2>0. /\ ClaimAware => aware(fence) /\ aware(fenceDisk) /\ aware(next)
        /\ ClaimAware' = ClaimAware
    <3>1. p.claim # 0
      BY SMTT(40), <1>2, CommandAssumption
    <3>2. \A j \in Instance : j # i => next[j] = fence[j]
      BY ZenonT(40), <1>0 DEF FenceOK, next
    <3> QED BY ZenonT(40), <1>0, <1>4, <3>1, <3>2 DEF AppliedInv, aware, ClaimAware
  <2>1. CASE UNCHANGED <<fences, faults>> /\ ~ok
    <3>1. FenceOK' /\ StoreOK'
      BY SMTT(40), <1>0, <2>1 DEF FenceOK, StoreOK, fences
    <3>2. (ClaimAware => aware(fence) /\ aware(fenceDisk))'
      BY SMTT(40), <1>0, <2>1, StillAware
    <3> QED BY SMTT(40), <2>1, <3>1, <3>2, FencesKept
  <2>2. CASE ~behind /\ ok /\ fence' = next /\ fenceDisk' = next /\ UNCHANGED faults
    <3>1. FenceOK' /\ StoreOK'
      BY SMTT(40), <1>0, <1>4, <2>2 DEF FenceOK, StoreOK
    <3>2. \A k \in Command : Passed(k, next) => HeldByFence(k)'
      BY <2>2, Zenon DEF HeldByFence, Passed
    <3>3. (ClaimAware => aware(fence) /\ aware(fenceDisk))'
      BY SMTT(40), <2>0, <2>2 DEF aware
    <3>4. \A k \in Command : (Passed(k, fence) => Passed(k, fenceDisk))'
      BY SMTT(40), <2>2 DEF Passed
    <3> QED BY ZenonT(40), <1>1, <1>5, <1>6, <2>2, <3>1, <3>2, <3>3, <3>4 DEF HeldByFence
  <2>3. CASE /\ ~behind /\ ~ok /\ faults < MaxFaults /\ faults' = faults + 1
             /\ fenceDisk' \in {fenceDisk, next} /\ UNCHANGED fence
    <3>1. FenceOK' /\ StoreOK'
      BY <1>0, <1>4, <2>3, BoundAssumption, SMTT(40) DEF FenceOK, StoreOK
    <3>2. \A k \in Command : HeldByFence(k) => HeldByFence(k)'
      BY SMTT(40), <1>6, <2>3 DEF HeldByFence, Passed
    <3>3. (ClaimAware => aware(fence) /\ aware(fenceDisk))'
      BY SMTT(40), <2>0, <2>3 DEF aware
    <3>4. \A k \in Command : (Passed(k, fence) => Passed(k, fenceDisk))
                             => (Passed(k, fence) => Passed(k, fenceDisk))'
      BY SMTT(40), <1>6, <2>3 DEF Passed
    <3> QED BY SMTT(40), <2>3, <3>1, <3>2, <3>3, <3>4
  <2> QED BY ZenonT(40), <1>7, <2>1, <2>2, <2>3 DEF persistFence
<1>9. /\ JobOK' /\ ThreadInv'
      /\ job'["poller"].command = c /\ job'["poller"].pc = "finished"
      /\ job'["poller"].status = IF ok THEN "done" ELSE "outcome_unknown"
  BY SMTT(40), <1>0, <1>1, <1>7, StepJob DEF Entered, Status
<1>10. \A k \in Command : advancesFence(k) => Kept(k)
  BY ZenonT(40), <1>0, <1>3, <1>8 DEF Kept, RecordsKept
<1>11. CommandInv(c)'
  <2>1. CommandInv(c) /\ Kept(c)
    BY SMTT(40), <1>0, <1>1, <1>10 DEF AppliedInv
  <2>2. /\ ~Runs(c, {"marked"})' /\ ~Runs(c, {"calling"})'
        /\ ~Runs(c, {"marked", "calling", "applied"})'
    BY SMTT(40), <1>9 DEF Runs
  <2>3. job'["poller"].status # "outcome_unknown" => HeldByFence(c)'
    BY SMTT(40), <1>8, <1>9
  <2>4. ClaimAware => DoneInv(c)'
    BY ZenonT(40), <2>1, <2>3 DEF CommandInv, DoneInv, Kept
  <2> QED BY ZenonT(40), <2>1, <2>2, <2>3, <2>4 DEF CommandInv, Kept, ClaimAware
<1>12. AppliedInv'
  BY ZenonT(40), <1>0, <1>1, <1>8, <1>9, <1>10, <1>11, PollerStep
<1> QED BY SMTT(40), <1>3, <1>8, <1>9, <1>12, TypePartsNext DEF IInv

LEMMA MarkTerminalStep ==
  ASSUME IInv, NEW w \in Thread, MarkTerminal(w)
  PROVE  IInv'
<1>0. /\ StoreOK /\ FenceOK /\ LoopOK /\ JobOK /\ HistoryOK /\ ThreadInv /\ AppliedInv
      /\ job[w] # None /\ job[w].pc = "finished" /\ "finished" \in Entered
      /\ UNCHANGED <<fences, loop, applied, forgotten, crashes>>
  BY Starting, Zenon DEF MarkTerminal, at, Entered
<1>1. PICK c \in Command : c = job[w].command
  BY <1>0, Executing, Zenon
<1>2. /\ w = "canary" => c.kind = "activation-canary" /\ ~advancesFence(c)
      /\ job[w].generation \in Generation /\ job[w].status \in Status \cup {None}
  BY <1>0, <1>1, Executing, Zenon DEF ThreadInv, advancesFence
<1>3. (FenceOK /\ LoopOK /\ HistoryOK)'
  BY <1>0, Zenon DEF FenceOK, LoopOK, HistoryOK, fences, loop
<1> DEFINE giveUp == IF w = "canary" THEN step(w, "unpersisted", None) ELSE drop(w)
<1>4. giveUp => JobOK' /\ ThreadInv' /\ PollerQuiet
  <2>1. CASE w = "canary" /\ step(w, "unpersisted", None)
    BY SMTT(40), <1>0, <2>1, StepJob
  <2>2. CASE drop(w)
    BY <1>0, <2>2, DropJob, Zenon
  <2> QED BY SMTT(40), <2>1, <2>2
<1> HIDE DEF giveUp
<1>5. CASE giveUp /\ UNCHANGED stores
  <2>1. StoreOK' /\ RecordsKept
    BY SMTT(40), <1>0, <1>5, StoreUnchanged
  <2>2. AppliedInv'
    BY <1>0, <1>4, <1>5, <2>1, QuietStep, Zenon
  <2> QED BY SMTT(40), <1>3, <1>4, <1>5, <2>1, <2>2, TypePartsNext DEF IInv
<1>6. ASSUME records[c] # None, NEW ok \in BOOLEAN,
             persistLocked([records EXCEPT ![c].phase = "terminal",
                                           ![c].status = job[w].status], ok),
             IF ok THEN send(w, job[w], job[w].status) ELSE giveUp
      PROVE  IInv'
  <2> DEFINE new == [records[c] EXCEPT !.phase = "terminal", !.status = job[w].status]
             next == [records EXCEPT ![c] = new]
  <2>1. /\ new \in Record /\ new.phase = "terminal" /\ new.status = job[w].status
        /\ persistLocked(next, ok)
    <3>1. records[c] \in Record
      BY <1>0, <1>6, Zenon DEF StoreOK
    <3>2. next = [records EXCEPT ![c].phase = "terminal", ![c].status = job[w].status]
      BY ZenonT(40), <1>0 DEF StoreOK
    <3> QED BY ZenonT(40), <1>2, <1>6, <3>1, <3>2 DEF Record
  <2> HIDE DEF new
  <2>2. /\ next \in [Command -> Record \cup {None}] /\ next[c] = new
        /\ \A k \in Command : k # c => next[k] = records[k]
    BY <1>0, <2>1, Zenon DEF StoreOK
  <2> HIDE DEF next
  <2>3. StoreOK'
    BY <1>0, <2>1, <2>2, BoundAssumption, SMTT(40) DEF StoreOK, persistLocked
  <2>4. JobOK' /\ ThreadInv' /\ PollerQuiet
    <3>1. CASE giveUp
      BY SMTT(40), <1>4, <3>1
    <3>2. CASE send(w, job[w], job[w].status)
      BY <1>0, <1>1, <1>2, <3>2, SendJob, Zenon
    <3> QED BY <1>6, <3>1, <3>2, Zenon
  <2>5. ASSUME NEW k \in Command, advancesFence(k)
        PROVE  CommandInv(k)'
    <3>1. CommandInv(k) /\ applied'[k] = applied[k] /\ (HeldByFence(k) => HeldByFence(k)')
      BY ZenonT(40), <1>0, <2>5, FencesKept DEF AppliedInv
    <3>2. CASE k # c
      <4>1. next[k] = records[k]
        BY SMTT(40), <2>2, <3>2
      <4>2. /\ HeldByRecord(k) => HeldByRecord(k)'
            /\ Done(records[k])' \/ Done(recordsDisk[k])' => Done(records[k]) \/ Done(recordsDisk[k])
        BY SMTT(40), <2>1, <4>1 DEF HeldByRecord, Blocked, Done, persistLocked
      <4> QED BY ZenonT(40), <1>0, <2>4, <3>1, <4>2, FencesKept, OtherCommand DEF Kept, PollerQuiet
    <3>3. CASE k = c
      <4>1. w = "poller" /\ Runs(k, {"finished"})
        <5>1. w = "poller"
          BY <1>2, <2>5, <3>3, Zenon DEF Thread
        <5> QED BY SMTT(40), <1>0, <1>1, <1>2, <3>3, <5>1 DEF Runs
      <4>2. job[w].status # "outcome_unknown" => applied[k] = 0 \/ HeldByFence(k)
        BY SMTT(40), <3>1, <4>1 DEF CommandInv
      <4>3. job[w].status = "outcome_unknown" => (HeldByRecord(k) => HeldByRecord(k)')
        <5>1. job[w].status = "outcome_unknown" => Blocked(next[k])
          BY <2>1, <2>2, <3>3, NoneAssumption, Zenon DEF Blocked
        <5> QED BY SMTT(40), <2>1, <5>1 DEF HeldByRecord, Blocked, persistLocked
      <4>4. ~Runs(k, {"marked", "calling", "applied", "finished"})'
        <5>1. \/ job'["poller"] = None
              \/ job'["poller"].pc \in {"accepted", "reporting"}
          <6>1. CASE giveUp
            BY SMTT(40), <1>0, <4>1, <6>1 DEF giveUp, drop, JobOK
          <6>2. CASE send(w, job[w], job[w].status)
            BY SMTT(40), <1>0, <4>1, <6>2 DEF send, task, JobOK
          <6> QED BY <1>6, <6>1, <6>2, Zenon
        <5> QED BY <5>1, Zenon DEF Runs
      <4>5. /\ ~Runs(k, {"marked"})' /\ ~Runs(k, {"calling"})'
            /\ ~Runs(k, {"marked", "calling", "applied"})' /\ ~Runs(k, {"finished"})'
        BY SMTT(40), <4>4 DEF Runs
      <4>6. ASSUME ClaimAware PROVE DoneInv(k)'
        <5>1. DoneInv(k)
          BY ZenonT(40), <3>1, <4>6, CommandParts
        <5>2. Done(next[k]) => HeldByFence(k)
          BY SMTT(40), <2>1, <2>2, <3>3, <4>1, <5>1 DEF Done, DoneInv
        <5>3. Done(records[k])' \/ Done(recordsDisk[k])' => HeldByFence(k)
          BY SMTT(40), <2>1, <5>1, <5>2 DEF Done, DoneInv, persistLocked
        <5> QED BY ZenonT(40), <1>0, <3>1, <4>5, <5>1, <5>3, FencesKept DEF DoneInv
      <4> QED BY ZenonT(40), <3>1, <4>2, <4>3, <4>5, <4>6 DEF CommandInv, ClaimAware
    <3> QED BY SMTT(40), <3>2, <3>3
  <2>6. AppliedInv'
    BY <1>0, <2>5, StillAware, Zenon DEF AppliedInv, advancesFence
  <2> QED BY <1>3, <2>3, <2>4, <2>6, TypePartsNext, Zenon DEF IInv
<1> QED BY ZenonT(40), <1>1, <1>5, <1>6 DEF MarkTerminal, giveUp

\* A step of the poll loop that touches neither file.


LEMMA LoopStep ==
  ASSUME IInv, UNCHANGED <<stores, fences, applied, forgotten, crashes>>,
         LoopOK', JobOK', ThreadInv', PollerQuiet
  PROVE  IInv'
<1>1. StoreOK' /\ RecordsKept /\ FenceOK' /\ HistoryOK'
  BY Starting, StoreUnchanged, Zenon DEF FenceOK, HistoryOK, fences
<1>2. AppliedInv'
  BY <1>1, Starting, QuietStep, Zenon
<1> QED BY <1>1, <1>2, TypePartsNext, Zenon DEF IInv

LEMMA PollLoopStep ==
  ASSUME IInv, BeginPoll \/ EndDrain \/ (\E batch \in Batches : PollAnswered(batch))
  PROVE  IInv'
<1>1. UNCHANGED <<stores, fences, job, applied, last, forgotten, crashes>>
  BY SMTT(40) DEF BeginPoll, EndDrain, PollAnswered
<1>2. JobOK' /\ ThreadInv' /\ PollerQuiet
  BY <1>1, Starting, Zenon DEF JobOK, ThreadInv, PollerQuiet, at
<1>3. LoopOK'
  <2>1. CASE BeginPoll
    BY ZenonT(40), <2>1, Starting DEF BeginPoll, LoopOK, unacknowledged
  <2>2. CASE EndDrain
    BY <2>2, Starting, Zenon DEF EndDrain, LoopOK
  <2>3. ASSUME NEW batch \in Batches, PollAnswered(batch) PROVE LoopOK'
    BY ZenonT(40), <2>3, Starting DEF PollAnswered, LoopOK, Batches
  <2> QED BY SMTT(40), <2>1, <2>2, <2>3
<1> QED BY SMTT(40), <1>1, <1>2, <1>3, LoopStep

LEMMA SendUnacknowledgedStep ==
  ASSUME IInv, SendUnacknowledged
  PROVE  IInv'
<1>1. PICK r \in todo : todo' = todo \ {r} /\ send("poller", r, r.status)
  BY Zenon DEF SendUnacknowledged
<1>2. r \in Report
  BY <1>1, Starting, Zenon DEF SendUnacknowledged, LoopOK
<1>3. LoopOK'
  BY SMTT(40), <1>1, Starting DEF SendUnacknowledged, LoopOK
<1>4. JobOK' /\ ThreadInv' /\ PollerQuiet
  BY <1>1, <1>2, Starting, SendJob, Zenon DEF Report, Thread
<1> QED BY <1>3, <1>4, LoopStep, Zenon DEF SendUnacknowledged

LEMMA UnacknowledgedStep ==
  ASSUME IInv, NEW w \in Thread, Unacknowledged(w)
  PROVE  IInv'
<1>1. LoopOK'
  BY Starting, Zenon DEF Unacknowledged, missed, LoopOK
<1>2. JobOK' /\ ThreadInv' /\ PollerQuiet
  BY Starting, DropJob, Zenon DEF Unacknowledged
<1> QED BY <1>1, <1>2, LoopStep, Zenon DEF Unacknowledged

\* A step that goes through the delivery store.
LEMMA StoreStepKeeps ==
  ASSUME IInv, StoreStep, LoopOK', UNCHANGED <<fences, applied, crashes>>
  PROVE  IInv'
<1>1. FenceOK' /\ HistoryOK'
  BY Starting, Zenon DEF FenceOK, HistoryOK, fences, StoreStep
<1>2. AppliedInv'
  BY SMTT(40), Starting, QuietStep DEF StoreStep
<1> QED BY <1>1, <1>2, TypePartsNext, Zenon DEF IInv, StoreStep

LEMMA ProcessDeliveryStep ==
  ASSUME IInv, ProcessDelivery
  PROVE  IInv'
<1>0. /\ StoreOK /\ LoopOK /\ JobOK /\ ThreadInv /\ forgotten \subseteq Command
      /\ "poller" \in Thread
  BY SMTT(40), Starting DEF HistoryOK, Thread
<1>1. PICK d \in todo :
         /\ todo' = todo \ {d}
         /\ \/ rejectDelivery("poller", d)
            \/ drop("poller") /\ UNCHANGED <<stores, forgotten>>
            \/ records[d.command] # None /\ acceptKnown(d)
            \/ records[d.command] = None /\ acceptNew(d)
  BY SMTT(40) DEF ProcessDelivery
<1>2. d \in Delivery /\ d.command \in Command /\ d.generation \in Generation
  BY SMTT(40), <1>0, <1>1 DEF ProcessDelivery, LoopOK, Delivery
<1>3. LoopOK'
  BY SMTT(40), <1>0, <1>1 DEF ProcessDelivery, LoopOK
<1>4. StoreStep
  <2>1. CASE rejectDelivery("poller", d)
    BY <1>0, <1>2, <2>1, RejectStep, Zenon
  <2>2. CASE drop("poller") /\ UNCHANGED <<stores, forgotten>>
    BY <1>0, <2>2, DropJob, StoreUnchanged, Zenon DEF StoreStep
  <2>3. CASE records[d.command] # None /\ acceptKnown(d)
    BY <1>0, <1>2, <2>3, AcceptKnownStep, Zenon
  <2>4. CASE records[d.command] = None /\ acceptNew(d)
    BY <1>0, <1>2, <2>4, AcceptNewStep, Zenon
  <2> QED BY SMTT(40), <1>1, <2>1, <2>2, <2>3, <2>4
<1> QED BY <1>3, <1>4, StoreStepKeeps, Zenon DEF ProcessDelivery

LEMMA PersistOutcomeUnknownStep ==
  ASSUME IInv, PersistOutcomeUnknown
  PROVE  IInv'
<1>0. /\ StoreOK /\ LoopOK /\ JobOK /\ ThreadInv /\ forgotten \subseteq Command
      /\ "canary" \in Thread /\ job["canary"] # None
  BY SMTT(40), Starting DEF HistoryOK, Thread, PersistOutcomeUnknown, at
<1>1. /\ job["canary"].command \in Command /\ job["canary"].generation \in Generation
      /\ job["canary"].command.kind = "activation-canary"
  BY SMTT(40), <1>0 DEF JobOK, Job, ThreadInv
<1>2. StoreStep
  BY <1>0, <1>1, RejectStep, Zenon DEF PersistOutcomeUnknown
<1>3. LoopOK'
  BY <1>0, Zenon DEF PersistOutcomeUnknown, LoopOK, loop
<1> QED BY <1>2, <1>3, StoreStepKeeps, Zenon DEF PersistOutcomeUnknown

LEMMA AcknowledgedStep ==
  ASSUME IInv, NEW w \in Thread, Acknowledged(w)
  PROVE  IInv'
<1>0. /\ StoreOK /\ LoopOK /\ JobOK /\ ThreadInv /\ forgotten \subseteq Command
      /\ job[w] # None /\ drop(w)
      /\ UNCHANGED <<fences, phase, todo, capable, applied, forgotten, crashes>>
  BY Starting, Zenon DEF HistoryOK, Acknowledged, at
<1>1. JobOK' /\ ThreadInv' /\ PollerQuiet /\ forgotten' \subseteq Command
  BY SMTT(40), <1>0, DropJob
<1>2. PICK c \in Command : c = job[w].command
  BY <1>0, Zenon DEF JobOK, Job
<1>3. LoopOK'
  BY ZenonT(40), <1>0 DEF Acknowledged, missed, LoopOK
<1>4. StoreOK' /\ RecordsKept
  <2>1. CASE UNCHANGED stores
    BY <1>0, <2>1, StoreUnchanged, Zenon
  <2>2. ASSUME records[c] # None, NEW ok \in BOOLEAN,
               persistLocked([records EXCEPT ![c].settled = records[c].generation], ok)
        PROVE  StoreOK' /\ RecordsKept
    <3> DEFINE new == [records[c] EXCEPT !.settled = records[c].generation]
    <3>1. /\ new \in Record /\ (Blocked(records[c]) => Blocked(new))
          /\ Done(new) => Done(records[c])
      <4>1. records[c] \in Record
        BY <1>0, <2>2, Zenon DEF StoreOK
      <4>2. /\ new \in Record
            /\ new.phase = records[c].phase /\ new.status = records[c].status
        BY <4>1, BoundAssumption DEF Record, Generation
      <4> QED BY <2>2, <4>2, NoneAssumption, Zenon DEF Blocked, Done
    <3>2. [records EXCEPT ![c].settled = records[c].generation]
            = [without({}) EXCEPT ![c] = new]
      BY ZenonT(40), <1>0, WithoutNothing DEF StoreOK
    <3> HIDE DEF new
    <3> QED BY <1>0, <2>2, <3>1, <3>2, ReplaceRecord, WithoutNothing
  <2> QED BY ZenonT(40), <1>2, <2>1, <2>2 DEF Acknowledged
<1> QED BY <1>0, <1>1, <1>3, <1>4, StoreStepKeeps, Zenon DEF StoreStep

LEMMA RestartStep ==
  ASSUME IInv, Restart
  PROVE  IInv'
<1>0. StoreOK /\ FenceOK /\ LoopOK /\ JobOK /\ HistoryOK /\ AppliedInv
  BY Starting, Zenon
<1>1. \A rec \in Record \cup {None} :
         /\ recovered(rec) \in Record \cup {None}
         /\ Blocked(rec) => Blocked(recovered(rec))
         /\ Done(recovered(rec)) => Done(rec)
  <2> TAKE rec \in Record \cup {None}
  <2>1. CASE rec # None /\ rec.phase = "executing"
    <3>1. rec.generation \in Generation /\ rec.tenanted \in BOOLEAN
      BY <2>1, Zenon DEF Record
    <3> QED BY <2>1, <3>1, TerminalType, Zenon DEF recovered, Status
  <2>2. CASE ~(rec # None /\ rec.phase = "executing")
    BY <2>2, Zenon DEF recovered
  <2> QED BY <2>1, <2>2, Zenon
<1>2. /\ records' = [c \in Command |-> recovered(recordsDisk[c])]
      /\ recordsDisk' = records'
      /\ fence' = fenceDisk /\ fenceDisk' = fenceDisk /\ applied' = applied
      /\ job' = [w \in Thread |-> None]
  BY SMTT(40) DEF Restart
<1>3. StoreOK'
  BY SMTT(40), <1>0, <1>1, <1>2 DEF StoreOK, Restart
<1>4. FenceOK' /\ LoopOK' /\ JobOK'
  BY ZenonT(40), <1>0, <1>2 DEF FenceOK, LoopOK, JobOK, Restart
<1>5. HistoryOK'
  BY <1>0, BoundAssumption DEF HistoryOK, Restart
<1>6. ThreadInv'
  BY <1>2, Zenon DEF ThreadInv, at, Thread
<1>7. ASSUME NEW c \in Command, advancesFence(c)
      PROVE  CommandInv(c)'
  <2>1. HeldByFence(c) => HeldByFence(c)'
    BY SMTT(40), <1>2 DEF HeldByFence, Passed
  <2>2. /\ HeldByRecord(c) => HeldByRecord(c)'
        /\ Done(records[c])' \/ Done(recordsDisk[c])' => Done(records[c]) \/ Done(recordsDisk[c])
    <3>1. recordsDisk[c] \in Record \cup {None}
      BY <1>0, Zenon DEF StoreOK
    <3>2. records'[c] = recovered(recordsDisk[c]) /\ recordsDisk'[c] = recovered(recordsDisk[c])
      BY <1>2, Zenon
    <3>3. /\ Blocked(recordsDisk[c]) => Blocked(recovered(recordsDisk[c]))
          /\ Done(recovered(recordsDisk[c])) => Done(recordsDisk[c])
      BY <1>1, <3>1, Zenon
    <3> QED BY ZenonT(40), <3>2, <3>3 DEF HeldByRecord, Blocked, Done
  <2>3. CommandInv(c) /\ job'["poller"] = None
    BY SMTT(40), <1>0, <1>2, <1>7 DEF AppliedInv, Thread
  <2>4. (Passed(c, fence) => Passed(c, fenceDisk))'
    BY <1>2, Zenon DEF Passed
  <2> QED BY ZenonT(40), <1>2, <2>1, <2>2, <2>3, <2>4, OtherCommand DEF Kept
<1>8. AppliedInv'
  <2>1. (ClaimAware => aware(fence) /\ aware(fenceDisk))'
    BY <1>0, <1>2, Zenon DEF AppliedInv, ClaimAware, aware
  <2> QED BY SMTT(40), <1>7, <2>1 DEF AppliedInv, advancesFence
<1> QED BY <1>3, <1>4, <1>5, <1>6, <1>8, TypePartsNext, Zenon DEF IInv

-----------------------------------------------------------------------------
LEMMA InitInv == Init => IInv
<1> SUFFICES ASSUME Init PROVE IInv
  OBVIOUS
<1>1. TypeOK
  <2>1. StoreOK
    BY BoundAssumption DEF Init, StoreOK
  <2>2. FenceOK
    BY FenceAssumption, Zenon DEF Init, FenceOK
  <2>3. LoopOK /\ JobOK
    BY ZenonT(40) DEF Init, LoopOK, JobOK
  <2>4. HistoryOK
    BY BoundAssumption DEF Init, HistoryOK
  <2> QED BY <2>1, <2>2, <2>3, <2>4, TypeParts, Zenon
<1>2. ThreadInv
  BY Zenon DEF Init, ThreadInv, at, Thread
<1>3. ClaimAware => aware(fence) /\ aware(fenceDisk)
  BY Zenon DEF Init, ClaimAware
<1>4. ASSUME NEW c \in Command PROVE CommandInv(c)
  <2>1. job["poller"] = None /\ applied[c] = 0 /\ records[c] = None /\ recordsDisk[c] = None
    BY SMTT(40) DEF Init, Thread
  <2>2. DoneInv(c)
    BY SMTT(40), <2>1 DEF DoneInv, Init, Runs, Done
  <2>3. applied[c] <= 1
    BY <2>1
  <2>4. ~Runs(c, {"marked"}) /\ ~Runs(c, {"calling"}) /\ ~Runs(c, {"finished"})
        /\ ~Runs(c, {"marked", "calling", "applied"})
    BY <2>1, Zenon DEF Runs
  <2> QED BY <2>1, <2>2, <2>3, <2>4, Zenon DEF CommandInv
<1> QED BY <1>1, <1>2, <1>3, <1>4, Zenon DEF IInv, AppliedInv

LEMMA NextInv == IInv /\ [Next]_vars => IInv'
<1> SUFFICES ASSUME IInv, [Next]_vars PROVE IInv'
  OBVIOUS
<1>1. CASE UNCHANGED vars
  <2>1. /\ UNCHANGED <<stores, fences, applied, forgotten, crashes>>
        /\ LoopOK' /\ JobOK' /\ ThreadInv' /\ PollerQuiet
    BY <1>1, Starting, Zenon DEF vars, stores, fences, LoopOK, JobOK, ThreadInv, PollerQuiet, at
  <2> QED BY SMTT(40), <2>1, LoopStep
<1>2. ASSUME NEW w \in Thread, ThreadStep(w) PROVE IInv'
  BY <1>2, PollLoopStep, SendUnacknowledgedStep, ProcessDeliveryStep,
     PersistOutcomeUnknownStep, MarkExecutingStep, ExecuteStep, CallHandlerStep,
     AdvanceFenceStep, MarkTerminalStep, Zenon DEF ThreadStep
<1>3. CASE Restart
  BY <1>3, RestartStep, Zenon
<1>4. CASE \E batch \in Batches : PollAnswered(batch)
  BY <1>4, PollLoopStep, Zenon
<1>5. ASSUME NEW w \in Thread, Acknowledged(w) \/ Unacknowledged(w) PROVE IInv'
  BY <1>5, AcknowledgedStep, UnacknowledgedStep, Zenon
<1> QED BY <1>1, <1>2, <1>3, <1>4, <1>5, Zenon DEF Next, NodeStep

LEMMA UplinkInvariant == Spec => []IInv
  BY InitInv, NextInv, PTL DEF Spec

\* The node's stores, fences, threads and counters keep their types
\* (internal/executoruplink), for every set of commands and all bounds.
THEOREM UplinkTypeCorrect == Spec => []TypeOK
<1>1. IInv => TypeOK
  BY SMTT(40) DEF IInv
<1> QED BY <1>1, UplinkInvariant, PTL

\* A lifecycle mutation has its effect at most once, whatever is redelivered,
\* whichever file replacement fails and wherever the node crashes
\* (processDeliveryV4, dispatcher.execute, RecoverExecuting).
THEOREM UplinkAppliesOnce == Spec => []AppliedOnce
<1>1. IInv => AppliedOnce
  BY Zenon DEF IInv, AppliedInv, CommandInv, AppliedOnce
<1> QED BY <1>1, UplinkInvariant, PTL

\* Unless the fence file was migrated from the format without claims, a done
\* record on disk is behind the fence on disk (compactAcknowledgedDeliveries
\* relies on it when it drops the record).
THEOREM UplinkDoneFenced ==
  ASSUME ClaimAware
  PROVE  Spec => []DoneIsFenced
<1>1. IInv => DoneIsFenced
  BY ZenonT(40) DEF IInv, AppliedInv, CommandInv, DoneInv, DoneIsFenced, Done, HeldByFence,
         Passed, fenced
<1> QED BY <1>1, UplinkInvariant, PTL

-----------------------------------------------------------------------------
\* Reports.  An unknown outcome is on disk and in memory before its report
\* leaves, and no operation changes such a record again; a report that a
\* drain still has to send says what its record says.
Unknown(rec) == rec # None /\ rec.phase = "terminal" /\ rec.status = "outcome_unknown"

Closed(rec) == rec = None \/ rec.phase = "terminal"

UnknownInv ==
    /\ \A c \in Command : /\ Unknown(records[c]) => Unknown(recordsDisk[c])
                          /\ last[c] = "outcome_unknown" => Unknown(records[c])
    /\ phase = "draining" => \A r \in todo :
          /\ Closed(records[r.command])
          /\ Unknown(records[r.command]) <=> r.status = "outcome_unknown"

StaysUnknown ==
    \A c \in Command : /\ Unknown(records[c]) => Unknown(records'[c])
                       /\ Unknown(records'[c]) => Unknown(recordsDisk'[c])

\* What is reported of a command is what its record says after the step.
ReportsRecord ==
    \A c \in Command :
        last'[c] = last[c] \/ (last'[c] = "outcome_unknown" <=> Unknown(records'[c]))

DrainKept ==
    \A c \in Command : Closed(records[c]) =>
        Closed(records'[c]) /\ (Unknown(records'[c]) => Unknown(records[c]))

LEMMA UnknownKept ==
  ASSUME UnknownInv, LoopOK, StaysUnknown, ReportsRecord,
         phase' = "draining" => phase = "draining" /\ todo' \subseteq todo /\ DrainKept
  PROVE  UnknownInv'
<1>1. \A c \in Command : /\ Unknown(records'[c]) => Unknown(recordsDisk'[c])
                         /\ last'[c] = "outcome_unknown" => Unknown(records'[c])
  BY Zenon DEF UnknownInv, StaysUnknown, ReportsRecord
<1>2. ASSUME phase' = "draining", NEW r \in todo'
      PROVE  /\ Closed(records'[r.command])
             /\ Unknown(records'[r.command]) <=> r.status = "outcome_unknown"
  <2>1. phase = "draining" /\ r \in todo /\ DrainKept
    BY <1>2, Zenon
  <2>2. r.command \in Command
    BY <2>1, Zenon DEF LoopOK, Report
  <2> QED BY <2>1, <2>2, Zenon DEF UnknownInv, StaysUnknown, DrainKept
<1> QED BY <1>1, <1>2, Zenon DEF UnknownInv, Unknown, Closed

LEMMA StoresKept ==
  ASSUME UnknownInv, UNCHANGED stores
  PROVE  StaysUnknown /\ DrainKept
  BY Zenon DEF UnknownInv, StaysUnknown, DrainKept, stores

\* Replacing one record, and dropping acknowledged ones, touches no other
\* record that is unknown.
LEMMA ReplaceUnknown ==
  ASSUME UnknownInv, StoreOK, NEW gone \in SUBSET acknowledged, NEW c \in Command,
         NEW new, NEW ok, Unknown(records[c]) => Unknown(new),
         persistLocked([without(gone) EXCEPT ![c] = new], ok)
  PROVE  /\ StaysUnknown
         /\ ok => records'[c] = new
         /\ (Closed(records[c]) => Closed(new) /\ (Unknown(new) => Unknown(records[c])))
              => DrainKept
<1>1. PICK next : next = [without(gone) EXCEPT ![c] = new]
  OBVIOUS
<1>2. next[c] = new
  BY <1>1, Zenon DEF without
<1>3. \A k \in Command : k # c => next[k] = None \/ next[k] = records[k]
  BY <1>1, Zenon DEF without
<1>4. \A k \in Command : k # c /\ Unknown(records[k]) => next[k] = records[k]
  <2>1. \A k \in Command : Unknown(records[k]) => k \notin gone
    BY Zenon DEF acknowledged, safeAcknowledgedDelivery, Unknown
  <2> QED BY <1>1, <2>1, Zenon DEF without
<1>5. \A k \in Command : Unknown(records[k]) => Unknown(next[k])
  BY <1>2, <1>4, Zenon
<1>6. persistLocked(next, ok)
  BY <1>1, Zenon
<1>7. CASE ok /\ records' = next /\ recordsDisk' = next
  <2>1. StaysUnknown /\ records'[c] = new
    BY <1>2, <1>5, <1>7, Zenon DEF StaysUnknown
  <2>2. ASSUME Closed(records[c]) => Closed(new) /\ (Unknown(new) => Unknown(records[c])),
               NEW k \in Command, Closed(records[k])
        PROVE  Closed(next[k]) /\ (Unknown(next[k]) => Unknown(records[k]))
    BY <1>2, <1>3, <2>2, Zenon DEF Closed, Unknown
  <2> QED BY <1>7, <2>1, <2>2, Zenon DEF DrainKept
<1>8. CASE ~ok /\ records' = records /\ recordsDisk' \in {recordsDisk, next}
  BY <1>5, <1>8, Zenon DEF StaysUnknown, DrainKept, UnknownInv
<1> QED BY <1>6, <1>7, <1>8, Zenon DEF persistLocked

LEMMA SendReports ==
  ASSUME JobOK, NEW w, NEW d, NEW s, send(w, d, s), d.command \in Command,
         s = "outcome_unknown" <=> Unknown(records'[d.command])
  PROVE  ReportsRecord
  BY Zenon DEF JobOK, send, ReportsRecord

LEMMA SilentReports ==
  ASSUME UNCHANGED last
  PROVE  ReportsRecord
  BY Zenon DEF ReportsRecord

LEMMA RenewedFields ==
  ASSUME NEW rec \in Record, NEW g \in Generation, NEW new,
         new = renewed(rec, g) \/ new = [renewed(rec, g) EXCEPT !.tenanted = TRUE]
  PROVE  new # None /\ new.phase = rec.phase /\ new.status = rec.status
<1>1. PICK r : r = renewed(rec, g)
  OBVIOUS
<1>2. r \in Record /\ r.phase = rec.phase /\ r.status = rec.status
  BY <1>1, RenewedType, Zenon
<1>3. [r EXCEPT !.tenanted = TRUE] \in Record
  BY <1>2, Zenon DEF Record
<1>4. new = r \/ new = [r EXCEPT !.tenanted = TRUE]
  BY <1>1, Zenon
<1>5. new.phase = r.phase /\ new.status = r.status
  BY <1>2, <1>4 DEF Record
<1> QED BY <1>2, <1>3, <1>4, <1>5, NoneAssumption, Zenon

LEMMA TerminalFields ==
  ASSUME NEW g \in Generation, NEW s \in Status, NEW t \in BOOLEAN
  PROVE  /\ terminal(g, s, t) # None
         /\ terminal(g, s, t).phase = "terminal" /\ terminal(g, s, t).status = s
<1>1. terminal(g, s, t) \in Record
  BY TerminalType, Zenon
<1> QED BY <1>1, NoneAssumption, Zenon DEF terminal

LEMMA RejectReports ==
  ASSUME UnknownInv, StoreOK, JobOK, NEW w, NEW d, d.command \in Command,
         d.generation \in Generation, rejectDelivery(w, d)
  PROVE  StaysUnknown /\ ReportsRecord /\ DrainKept
<1>0. PICK c, rec : c = d.command /\ rec = records[c]
  OBVIOUS
<1>1. CASE drop(w) /\ UNCHANGED <<stores, forgotten>>
  BY <1>1, StoresKept, SilentReports, Zenon DEF drop
<1>2. ASSUME NEW gone \in SUBSET acknowledged, NEW ok \in BOOLEAN, NEW new, NEW s,
             persistLocked([without(gone) EXCEPT ![c] = new], ok),
             IF ok THEN send(w, d, s) ELSE drop(w),
             Unknown(rec) => Unknown(new),
             Closed(rec) => Closed(new) /\ (Unknown(new) => Unknown(rec)),
             s = "outcome_unknown" <=> Unknown(new)
      PROVE  StaysUnknown /\ ReportsRecord /\ DrainKept
  <2>1. StaysUnknown /\ DrainKept /\ (ok => records'[c] = new)
    BY <1>0, <1>2, ReplaceUnknown, Zenon
  <2>2. CASE ok
    BY <1>0, <1>2, <2>1, <2>2, SendReports, Zenon
  <2>3. CASE ~ok
    BY <1>2, <2>1, <2>3, SilentReports, Zenon DEF drop
  <2> QED BY <2>1, <2>2, <2>3, Zenon
<1>3. ASSUME rec # None, rec.phase = "terminal", NEW ok \in BOOLEAN,
             persistLocked([records EXCEPT ![c] = renewed(rec, d.generation)], ok),
             IF ok THEN send(w, d, rec.status) ELSE drop(w)
      PROVE  StaysUnknown /\ ReportsRecord /\ DrainKept
  <2>1. PICK new : new = renewed(rec, d.generation)
    OBVIOUS
  <2>2. rec \in Record
    BY <1>0, <1>3, Zenon DEF StoreOK
  <2>3. new # None /\ new.phase = rec.phase /\ new.status = rec.status
    BY <2>1, <2>2, RenewedFields, Zenon
  <2>4. persistLocked([without({}) EXCEPT ![c] = new], ok)
    BY <1>3, <2>1, WithoutNothing, Zenon
  <2>5. /\ Unknown(rec) <=> Unknown(new)
        /\ Closed(new)
        /\ rec.status = "outcome_unknown" <=> Unknown(new)
    BY <1>3, <2>3, Zenon DEF Unknown, Closed
  <2> QED BY <1>2, <1>3, <2>4, <2>5, WithoutNothing, Zenon
<1>4. ASSUME rec # None, rec.phase # "terminal", NEW gone \in SUBSET acknowledged,
             NEW ok \in BOOLEAN,
             persistLocked([without(gone) EXCEPT
                              ![c] = terminal(d.generation, refused(rec), rec.tenanted)], ok),
             IF ok THEN send(w, d, refused(rec)) ELSE drop(w)
      PROVE  StaysUnknown /\ ReportsRecord /\ DrainKept
  <2>1. PICK new : new = terminal(d.generation, refused(rec), rec.tenanted)
    OBVIOUS
  <2>2. refused(rec) \in Status /\ rec.tenanted \in BOOLEAN
    <3>1. rec \in Record
      BY <1>0, <1>4, Zenon DEF StoreOK
    <3> QED BY <3>1, Zenon DEF refused, Status, Record
  <2>3. /\ ~Unknown(rec) /\ ~Closed(rec)
        /\ refused(rec) = "outcome_unknown" <=> Unknown(new)
    <3>1. new # None /\ new.phase = "terminal" /\ new.status = refused(rec)
      BY <2>1, <2>2, TerminalFields
    <3> QED BY <1>4, <3>1, Zenon DEF Unknown, Closed
  <2> QED BY <1>2, <1>4, <2>1, <2>3, Zenon
<1>5. ASSUME rec = None, NEW gone \in SUBSET acknowledged, NEW ok \in BOOLEAN,
             persistLocked([without(gone) EXCEPT
                              ![c] = terminal(d.generation, "rejected", FALSE)], ok),
             IF ok THEN send(w, d, "rejected") ELSE drop(w)
      PROVE  StaysUnknown /\ ReportsRecord /\ DrainKept
  <2>1. PICK new, s : new = terminal(d.generation, "rejected", FALSE) /\ s = "rejected"
    BY Zenon
  <2>2. ~Unknown(rec) /\ ~Unknown(new) /\ Closed(new) /\ s # "outcome_unknown"
    <3>1. "rejected" \in Status /\ FALSE \in BOOLEAN
      BY Zenon DEF Status
    <3>2. new # None /\ new.phase = "terminal" /\ new.status = "rejected"
      BY <2>1, <3>1, TerminalFields, Zenon
    <3>3. rec = None
      BY <1>5, Zenon
    <3> QED BY <2>1, <3>2, <3>3, Zenon DEF Unknown, Closed
  <2>3. /\ persistLocked([without(gone) EXCEPT ![c] = new], ok)
        /\ IF ok THEN send(w, d, s) ELSE drop(w)
    BY <1>5, <2>1, Zenon
  <2>4. /\ Unknown(rec) => Unknown(new)
        /\ Closed(rec) => Closed(new) /\ (Unknown(new) => Unknown(rec))
        /\ s = "outcome_unknown" <=> Unknown(new)
    BY <2>2, Zenon
  <2> QED BY <1>2, <2>3, <2>4, Zenon
<1>6. compactions({}) \subseteq SUBSET acknowledged
  BY Zenon DEF compactions
<1> QED BY <1>0, <1>1, <1>3, <1>4, <1>5, <1>6, ZenonT(40) DEF rejectDelivery

LEMMA AcceptNewReports ==
  ASSUME UnknownInv, StoreOK, NEW d \in Delivery, records[d.command] = None, acceptNew(d)
  PROVE  StaysUnknown /\ ReportsRecord
<1>0. PICK c, new : c = d.command /\ new = accepted(d.generation)
  OBVIOUS
<1>1. c \in Command /\ ~Unknown(records[c])
  BY <1>0, Zenon DEF Delivery, Unknown
<1>2. compactions({c.tenant}) \subseteq SUBSET acknowledged
  BY Zenon DEF compactions
<1>3. ASSUME NEW gone \in SUBSET acknowledged, NEW ok \in BOOLEAN,
             persistLocked([without(gone) EXCEPT ![c] = new], ok)
      PROVE  StaysUnknown
  BY <1>1, <1>3, ReplaceUnknown, Zenon
<1>4. ReportsRecord
  BY SilentReports, Zenon DEF acceptNew, start, drop
<1>5. UNCHANGED stores => StaysUnknown
  BY StoresKept, Zenon
<1> QED BY <1>0, <1>2, <1>3, <1>4, <1>5, ZenonT(40) DEF acceptNew

LEMMA AcceptKnownReports ==
  ASSUME UnknownInv, StoreOK, JobOK, NEW d \in Delivery, records[d.command] # None,
         acceptKnown(d)
  PROVE  StaysUnknown /\ ReportsRecord
<1>0. PICK c, old, rec, lost :
         /\ c = d.command /\ old = records[c]
         /\ rec = [renewed(old, d.generation) EXCEPT !.tenanted = TRUE]
         /\ lost = terminal(d.generation, "outcome_unknown", TRUE)
  BY Zenon
<1>1. c \in Command /\ d.generation \in Generation /\ old \in Record /\ old # None
  BY <1>0, Zenon DEF Delivery, StoreOK
<1>2. rec # None /\ rec.phase = old.phase /\ rec.status = old.status
  <2>1. rec = renewed(old, d.generation) \/ rec = [renewed(old, d.generation) EXCEPT !.tenanted = TRUE]
    BY <1>0, Zenon
  <2> QED BY <1>1, <2>1, RenewedFields
<1>3. Unknown(lost)
  <2>1. "outcome_unknown" \in Status /\ TRUE \in BOOLEAN
    BY Zenon DEF Status
  <2> QED BY <1>0, <1>1, <2>1, TerminalFields, Zenon DEF Unknown
<1>4. Unknown(old) <=> Unknown(rec)
  BY <1>1, <1>2, Zenon DEF Unknown
<1>5. ASSUME NEW new, NEW ok, persistLocked([records EXCEPT ![c] = new], ok),
             Unknown(old) => Unknown(new)
      PROVE  StaysUnknown /\ (ok => records'[c] = new)
  <2>1. persistLocked([without({}) EXCEPT ![c] = new], ok)
    BY <1>5, WithoutNothing, Zenon
  <2> QED BY <1>0, <1>1, <1>5, <2>1, WithoutNothing, ReplaceUnknown, Zenon
<1>6. ASSUME ensure([records EXCEPT ![c] = rec])
      PROVE  StaysUnknown /\ records'[c] = rec
  <2>1. CASE UNCHANGED stores /\ [records EXCEPT ![c] = rec] = records
    <3>1. records'[c] = rec
      BY <1>1, <2>1, Zenon DEF stores, StoreOK
    <3> QED BY <2>1, <3>1, StoresKept, Zenon
  <2>2. CASE persistLocked([records EXCEPT ![c] = rec], TRUE)
    BY <1>4, <1>5, <2>2, Zenon
  <2> QED BY <1>6, <2>1, <2>2, Zenon DEF ensure
<1>7. CASE persistLocked([records EXCEPT ![c] = rec], FALSE) /\ drop("poller")
  BY <1>4, <1>5, <1>7, SilentReports, Zenon DEF drop
<1>8. CASE rec.phase = "accepted" /\ ensure([records EXCEPT ![c] = rec]) /\ start(d)
  BY <1>6, <1>8, SilentReports, Zenon DEF start
<1>9. CASE /\ rec.phase = "terminal" /\ ensure([records EXCEPT ![c] = rec])
           /\ send("poller", d, rec.status)
  <2>1. rec.status = "outcome_unknown" <=> Unknown(rec)
    BY <1>2, <1>9, Zenon DEF Unknown
  <2>2. StaysUnknown /\ records'[d.command] = rec
    BY <1>0, <1>6, <1>9, Zenon
  <2> QED BY <1>0, <1>1, <1>9, <2>1, <2>2, SendReports, Zenon
<1>10. CASE persistLocked([records EXCEPT ![c] = lost], TRUE) /\ send("poller", d, "outcome_unknown")
  <2>1. StaysUnknown /\ records'[d.command] = lost
    BY <1>0, <1>3, <1>5, <1>10, Zenon
  <2> QED BY <1>0, <1>1, <1>3, <1>10, <2>1, SendReports, Zenon
<1>11. CASE /\ records' = [records EXCEPT ![c] = rec]
            /\ recordsDisk' \in {IF [records EXCEPT ![c] = rec] = records
                                 THEN recordsDisk ELSE [records EXCEPT ![c] = rec],
                                 [records EXCEPT ![c] = lost]}
            /\ drop("poller")
  <2>1. PICK next, unknown : /\ next = [records EXCEPT ![c] = rec]
                             /\ unknown = [records EXCEPT ![c] = lost]
    BY Zenon
  <2>2. \A k \in Command : /\ Unknown(records[k]) <=> Unknown(next[k])
                           /\ Unknown(records[k]) => Unknown(unknown[k])
    BY <1>0, <1>1, <1>3, <1>4, <2>1, Zenon DEF StoreOK
  <2>3. records' = next /\ recordsDisk' \in {recordsDisk, next, unknown}
    BY <1>11, <2>1, Zenon
  <2>4. StaysUnknown
    BY <2>2, <2>3, Zenon DEF StaysUnknown, UnknownInv
  <2> QED BY <1>11, <2>4, SilentReports, Zenon DEF drop
<1> QED BY <1>0, <1>7, <1>8, <1>9, <1>10, <1>11, ZenonT(40) DEF acceptKnown

\* Replacing one record, with no compaction.
LEMMA EditUnknown ==
  ASSUME UnknownInv, StoreOK, NEW c \in Command, NEW new, NEW ok,
         persistLocked([records EXCEPT ![c] = new], ok),
         Unknown(records[c]) => Unknown(new)
  PROVE  /\ StaysUnknown
         /\ ok => records'[c] = new
         /\ (Closed(records[c]) => Closed(new) /\ (Unknown(new) => Unknown(records[c])))
              => DrainKept
<1>1. persistLocked([without({}) EXCEPT ![c] = new], ok)
  BY WithoutNothing, Zenon
<1> QED BY <1>1, WithoutNothing, ReplaceUnknown, Zenon

LEMMA ExecutionReports ==
  ASSUME UnknownInv, StoreOK, JobOK, NEW w \in Thread,
         MarkExecuting(w) \/ Execute(w) \/ CallHandler(w) \/ AdvanceFence(w)
  PROVE  StaysUnknown /\ ReportsRecord /\ DrainKept
<1>1. ReportsRecord
  BY SilentReports, ZenonT(40) DEF MarkExecuting, Execute, CallHandler, AdvanceFence, step, drop
<1>2. CASE MarkExecuting(w)
  <2>0. PICK c, new : c = job[w].command /\ new = [records[c] EXCEPT !.phase = "executing"]
    BY Zenon
  <2>1. c \in Command
    BY <1>2, <2>0, Zenon DEF MarkExecuting, at, JobOK, Job
  <2>2. CASE UNCHANGED stores
    BY <1>1, <2>2, StoresKept, Zenon
  <2>3. ASSUME records[c] # None, records[c].phase = "accepted", NEW ok \in BOOLEAN,
               persistLocked([records EXCEPT ![c].phase = "executing"], ok)
        PROVE  StaysUnknown /\ DrainKept
    <3>1. [records EXCEPT ![c].phase = "executing"] = [records EXCEPT ![c] = new]
      BY <2>0, Zenon
    <3>2. persistLocked([records EXCEPT ![c] = new], ok)
      BY <2>3, <3>1, Zenon
    <3>3. ~Unknown(records[c]) /\ ~Closed(records[c])
      BY <2>3, Zenon DEF Unknown, Closed
    <3> QED BY <2>1, <3>2, <3>3, EditUnknown, Zenon
  <2> QED BY <1>1, <1>2, <2>0, <2>2, <2>3, ZenonT(40) DEF MarkExecuting
<1>3. CASE Execute(w) \/ CallHandler(w) \/ AdvanceFence(w)
  <2>1. UNCHANGED records /\ UNCHANGED recordsDisk
    BY <1>3, ZenonT(40) DEF Execute, CallHandler, AdvanceFence, stores
  <2> QED BY <1>1, <2>1, Zenon DEF StaysUnknown, DrainKept, UnknownInv
<1> QED BY <1>2, <1>3, Zenon

LEMMA MarkTerminalReports ==
  ASSUME UnknownInv, StoreOK, JobOK, NEW w \in Thread, MarkTerminal(w)
  PROVE  StaysUnknown /\ ReportsRecord /\ DrainKept
<1>0. PICK c, s, new : /\ c = job[w].command /\ s = job[w].status
                       /\ new = [records[c] EXCEPT !.phase = "terminal", !.status = s]
  BY Zenon
<1>1. c \in Command /\ s \in Status \cup {None}
  BY <1>0, Zenon DEF MarkTerminal, at, JobOK, Job
<1>2. ASSUME UNCHANGED last, UNCHANGED stores
      PROVE  StaysUnknown /\ ReportsRecord /\ DrainKept
  BY <1>2, StoresKept, SilentReports, Zenon
<1>3. ASSUME records[c] # None, records[c].phase = "executing", NEW ok \in BOOLEAN,
             persistLocked([records EXCEPT ![c].phase = "terminal", ![c].status = s], ok),
             ok => send(w, job[w], s), ~ok => UNCHANGED last
      PROVE  StaysUnknown /\ ReportsRecord /\ DrainKept
  <2>1. records[c] \in Record
    BY <1>1, <1>3, Zenon DEF StoreOK
  <2>2. [records EXCEPT ![c].phase = "terminal", ![c].status = s] = [records EXCEPT ![c] = new]
    BY <1>0, <1>1, Zenon DEF StoreOK
  <2>3. new \in Record /\ new.phase = "terminal" /\ new.status = s
    BY <1>0, <1>1, <2>1, Zenon DEF Record
  <2>4. s = "outcome_unknown" <=> Unknown(new)
    BY <2>3, NoneAssumption, Zenon DEF Unknown
  <2>5. persistLocked([records EXCEPT ![c] = new], ok)
    BY <1>3, <2>2, Zenon
  <2>6. ~Unknown(records[c]) /\ ~Closed(records[c])
    BY <1>3, Zenon DEF Unknown, Closed
  <2>7. StaysUnknown /\ DrainKept /\ (ok => records'[c] = new)
    BY <1>1, <2>5, <2>6, EditUnknown, Zenon
  <2>8. CASE ok
    BY <1>0, <1>1, <1>3, <2>4, <2>7, <2>8, SendReports, Zenon
  <2>9. CASE ~ok
    BY <1>3, <2>7, <2>9, SilentReports, Zenon
  <2> QED BY <2>8, <2>9, Zenon
<1> QED BY <1>0, <1>2, <1>3, ZenonT(40) DEF MarkTerminal, step, drop

LEMMA AcknowledgedReports ==
  ASSUME UnknownInv, StoreOK, JobOK, NEW w \in Thread, Acknowledged(w)
  PROVE  StaysUnknown /\ ReportsRecord /\ DrainKept
<1>0. PICK c, new : /\ c = job[w].command
                    /\ new = [records[c] EXCEPT !.settled = records[c].generation]
  BY Zenon
<1>1. c \in Command /\ ReportsRecord
  BY <1>0, SilentReports, Zenon DEF Acknowledged, drop, at, JobOK, Job
<1>2. CASE UNCHANGED stores
  BY <1>1, <1>2, StoresKept, Zenon
<1>3. ASSUME records[c] # None, NEW ok \in BOOLEAN,
             persistLocked([records EXCEPT ![c].settled = records[c].generation], ok)
      PROVE  StaysUnknown /\ DrainKept
  <2>1. records[c] \in Record
    BY <1>1, <1>3, Zenon DEF StoreOK
  <2>2. new \in Record /\ new.phase = records[c].phase /\ new.status = records[c].status
    BY <1>0, <2>1, BoundAssumption DEF Record, Generation
  <2>3. persistLocked([records EXCEPT ![c] = new], ok)
    <3>1. [records EXCEPT ![c].settled = records[c].generation] = [records EXCEPT ![c] = new]
      BY <1>0, Zenon
    <3> QED BY <1>3, <3>1, Zenon
  <2>4. (Unknown(records[c]) <=> Unknown(new)) /\ (Closed(records[c]) => Closed(new))
    BY <1>3, <2>2, NoneAssumption, Zenon DEF Unknown, Closed
  <2> QED BY <1>1, <2>3, <2>4, EditUnknown, Zenon
<1> QED BY <1>0, <1>1, <1>2, <1>3, ZenonT(40) DEF Acknowledged

LEMMA BeginPollReports ==
  ASSUME UnknownInv, TypeOK, BeginPoll
  PROVE  UnknownInv'
<1>1. UNCHANGED <<records, recordsDisk, last>> /\ todo' = unacknowledged
  BY Zenon DEF BeginPoll, stores
<1>2. \A r \in unacknowledged :
         /\ Closed(records[r.command])
         /\ Unknown(records[r.command]) <=> r.status = "outcome_unknown"
  BY Zenon DEF unacknowledged, Closed, Unknown
<1>3. \A r \in todo' :
         /\ Closed(records'[r.command])
         /\ Unknown(records'[r.command]) <=> r.status = "outcome_unknown"
  BY <1>1, <1>2, Zenon
<1>4. \A c \in Command : /\ Unknown(records'[c]) => Unknown(recordsDisk'[c])
                         /\ last'[c] = "outcome_unknown" => Unknown(records'[c])
  BY <1>1, Zenon DEF UnknownInv
<1> QED BY <1>3, <1>4, Zenon DEF UnknownInv, Unknown, Closed

LEMMA SendUnacknowledgedReports ==
  ASSUME UnknownInv, TypeOK, SendUnacknowledged
  PROVE  StaysUnknown /\ ReportsRecord /\ DrainKept /\ todo' \subseteq todo
<1>1. PICK r \in todo : todo' = todo \ {r} /\ send("poller", r, r.status)
  BY Zenon DEF SendUnacknowledged
<1>2. phase = "draining" /\ UNCHANGED stores /\ r.command \in Command /\ JobOK
  BY <1>1, TypeParts, Zenon DEF SendUnacknowledged, LoopOK, Report
<1>3. r.status = "outcome_unknown" <=> Unknown(records'[r.command])
  BY <1>1, <1>2, Zenon DEF UnknownInv, stores
<1>4. ReportsRecord
  BY <1>1, <1>2, <1>3, SendReports, Zenon
<1> QED BY <1>1, <1>2, <1>4, StoresKept, Zenon

LEMMA RestartReports ==
  ASSUME UnknownInv, TypeOK, Restart
  PROVE  StaysUnknown /\ ReportsRecord
<1>1. /\ records' = [c \in Command |-> recovered(recordsDisk[c])]
      /\ recordsDisk' = records' /\ UNCHANGED last
  BY Zenon DEF Restart
<1>2. \A c \in Command : Unknown(recordsDisk[c]) => records'[c] = recordsDisk[c]
  BY <1>1, Zenon DEF recovered, Unknown
<1> QED BY <1>1, <1>2, SilentReports, Zenon DEF StaysUnknown, UnknownInv

\* Every step keeps an unknown outcome unknown, and reports what it stored.
LEMMA EveryReport ==
  ASSUME UnknownInv, TypeOK, [Next]_vars
  PROVE  StaysUnknown /\ ReportsRecord /\ UnknownInv'
<1>0. StoreOK /\ LoopOK /\ JobOK
  BY TypeParts, Zenon
<1>1. ASSUME StaysUnknown, ReportsRecord, DrainKept, UNCHANGED phase, todo' \subseteq todo
      PROVE  StaysUnknown /\ ReportsRecord /\ UnknownInv'
  BY <1>0, <1>1, UnknownKept, Zenon
<1>2. ASSUME StaysUnknown, ReportsRecord, phase' # "draining"
      PROVE  StaysUnknown /\ ReportsRecord /\ UnknownInv'
  BY <1>0, <1>2, UnknownKept, Zenon
<1>3. ASSUME UNCHANGED stores, UNCHANGED last
      PROVE  StaysUnknown /\ ReportsRecord /\ DrainKept
  BY <1>3, StoresKept, SilentReports, Zenon
<1>4. CASE UNCHANGED vars
  <2>1. UNCHANGED <<stores, last, phase, todo>>
    BY <1>4, Zenon DEF vars, stores
  <2> QED BY <1>1, <1>3, <2>1, Zenon
<1>5. CASE BeginPoll
  <2>1. StaysUnknown /\ ReportsRecord
    BY <1>3, <1>5, Zenon DEF BeginPoll
  <2> QED BY <1>5, <2>1, BeginPollReports, Zenon
<1>6. CASE SendUnacknowledged
  BY <1>1, <1>6, SendUnacknowledgedReports, Zenon DEF SendUnacknowledged
<1>7. CASE EndDrain \/ (\E batch \in Batches : PollAnswered(batch))
  <2>1. phase' # "draining" /\ UNCHANGED stores /\ UNCHANGED last
    BY <1>7, Zenon DEF EndDrain, PollAnswered
  <2> QED BY <1>2, <1>3, <2>1, Zenon
<1>8. CASE ProcessDelivery
  <2>1. PICK d \in todo :
           \/ rejectDelivery("poller", d)
           \/ drop("poller") /\ UNCHANGED <<stores, forgotten>>
           \/ records[d.command] # None /\ acceptKnown(d)
           \/ records[d.command] = None /\ acceptNew(d)
    BY <1>8, ZenonT(40) DEF ProcessDelivery
  <2>2. phase' = "delivering" /\ phase = "delivering"
    BY <1>8, Zenon DEF ProcessDelivery
  <2>3. d \in Delivery /\ d.command \in Command /\ d.generation \in Generation
    BY <1>0, <2>1, <2>2 DEF LoopOK, Delivery
  <2>4. StaysUnknown /\ ReportsRecord
    <3>1. CASE rejectDelivery("poller", d)
      BY <1>0, <2>3, <3>1, RejectReports, Zenon
    <3>2. CASE drop("poller") /\ UNCHANGED <<stores, forgotten>>
      BY <1>3, <3>2, Zenon DEF drop
    <3>3. CASE records[d.command] # None /\ acceptKnown(d)
      BY <1>0, <2>3, <3>3, AcceptKnownReports, Zenon
    <3>4. CASE records[d.command] = None /\ acceptNew(d)
      BY <1>0, <2>3, <3>4, AcceptNewReports, Zenon
    <3> QED BY <2>1, <3>1, <3>2, <3>3, <3>4, Zenon
  <2>5. phase' # "draining"
    BY <2>2
  <2> QED BY <1>2, <2>4, <2>5, Zenon
<1>9. CASE PersistOutcomeUnknown
  <2>1. job["canary"].command \in Command /\ job["canary"].generation \in Generation
    BY <1>0, <1>9, Zenon DEF PersistOutcomeUnknown, at, JobOK, Job, Thread
  <2>2. StaysUnknown /\ ReportsRecord /\ DrainKept
    BY <1>0, <1>9, <2>1, RejectReports, Zenon DEF PersistOutcomeUnknown
  <2>3. UNCHANGED <<phase, todo>>
    BY <1>9, Zenon DEF PersistOutcomeUnknown, loop
  <2> QED BY <1>1, <2>2, <2>3, Zenon
<1>10. ASSUME NEW w \in Thread,
              MarkExecuting(w) \/ Execute(w) \/ CallHandler(w) \/ AdvanceFence(w) \/ MarkTerminal(w)
       PROVE  StaysUnknown /\ ReportsRecord /\ UnknownInv'
  <2>1. StaysUnknown /\ ReportsRecord /\ DrainKept
    BY <1>0, <1>10, ExecutionReports, MarkTerminalReports, Zenon
  <2>2. UNCHANGED <<phase, todo>>
    BY <1>10, Zenon DEF MarkExecuting, Execute, CallHandler, AdvanceFence, MarkTerminal, loop
  <2> QED BY <1>1, <2>1, <2>2, Zenon
<1>11. ASSUME NEW w \in Thread, Acknowledged(w) \/ Unacknowledged(w)
       PROVE  StaysUnknown /\ ReportsRecord /\ UnknownInv'
  <2>1. StaysUnknown /\ ReportsRecord /\ DrainKept
    BY <1>0, <1>3, <1>11, AcknowledgedReports, Zenon DEF Unacknowledged, drop
  <2>2. UNCHANGED <<phase, todo>>
    BY <1>11, Zenon DEF Acknowledged, Unacknowledged
  <2> QED BY <1>1, <2>1, <2>2, Zenon
<1>12. CASE Restart
  <2>1. phase' # "draining"
    BY <1>12 DEF Restart
  <2> QED BY <1>2, <1>12, <2>1, RestartReports, Zenon
<1> QED BY <1>4, <1>5, <1>6, <1>7, <1>8, <1>9, <1>10, <1>11, <1>12, Zenon DEF Next, NodeStep, ThreadStep

\* Once the node has put an unknown outcome on the wire it never reports
\* anything else of that command (RecoverExecuting, rejectDelivery,
\* unacknowledged), for every set of commands and all bounds.
THEOREM UplinkUnknownFinal == Spec => UnknownIsFinal
<1>1. Init => UnknownInv
  <2> SUFFICES ASSUME Init PROVE UnknownInv
    OBVIOUS
  <2>1. \A c \in Command : records[c] = None /\ last[c] = None
    BY Zenon DEF Init
  <2>2. phase # "draining" /\ None # "outcome_unknown"
    BY NoneAssumption DEF Init, Status
  <2> QED BY <2>1, <2>2, Zenon DEF UnknownInv, Unknown
<1>2. UnknownInv /\ TypeOK /\ [Next]_vars => UnknownInv'
  BY EveryReport, Zenon
<1>3. UnknownInv /\ TypeOK /\ [Next]_vars =>
         [\A c \in Command : last[c] = "outcome_unknown" => last'[c] = "outcome_unknown"]_vars
  <2> SUFFICES ASSUME UnknownInv, TypeOK, [Next]_vars, NEW c \in Command,
                      last[c] = "outcome_unknown"
               PROVE  last'[c] = "outcome_unknown"
    BY Zenon
  <2>1. Unknown(records[c]) /\ StaysUnknown /\ ReportsRecord
    BY EveryReport, Zenon DEF UnknownInv
  <2> QED BY <2>1, Zenon DEF StaysUnknown, ReportsRecord
<1> QED BY <1>1, <1>2, <1>3, UplinkTypeCorrect, PTL DEF Spec, UnknownIsFinal
=============================================================================
