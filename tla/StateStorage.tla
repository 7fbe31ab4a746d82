----------------------------- MODULE StateStorage -----------------------------
(***************************************************************************)
(* Quota-enforced persistent state: the OpenZFS storage worker             *)
(* (internal/zfsstorage behind internal/storagebackend) and the Executor   *)
(* handlers that admit, snapshot, clone, delete and purge a lineage        *)
(* (internal/executor/server.go, state_snapshots.go).                      *)
(*                                                                         *)
(* The worker serves one operation at a time.  An operation is a series of *)
(* zfs commands and Docker calls; each of them may fail before or after it *)
(* took effect, and the worker may die between two of them.  The Executor  *)
(* journals a request, calls the worker and settles the journal entry by   *)
(* the answer, or leaves it prepared when the answer proves nothing.       *)
(***************************************************************************)
EXTENDS Naturals, Sequences, FiniteSets

CONSTANTS
    Lineages,      \* state lineages of one tenant
    Snapshots,     \* snapshot identifiers
    SourceOf,      \* [Snapshots -> Lineages]: the lineage a snapshot is taken of
    StCases        \* initial situations: [foreign, admitted, maxGen, faults]

VARIABLES
    zfs,       \* the records on the datasets, the snapshots and the tombstones
    hold,      \* snapshots under Steward's hold tag
    bound,     \* [Lineages -> {"none", "own", "foreign"}]: Docker's named volumes
    work,      \* the operation in the worker, with the commands still to run
    request,   \* the Executor's request, with the worker's reply once it is in
    prepared,  \* the journal's pending operation
    held,      \* the fence record of each lineage: generation and presence
    said,      \* the last committed receipt about each lineage and snapshot
    stFaults,  \* failures left
    setting    \* the initial situation

stVars == <<zfs, hold, bound, work, request, prepared, held, said, stFaults, setting>>
storeSide == <<zfs, hold, bound>>
nodeSide == <<prepared, held, said>>

NoSnapshot == "-"
NoId == <<"none", NoSnapshot, "-", 0>>

(* persistedRecord, as far as the operations tell records apart. *)
Record(create, del, state, parent) ==
    [create |-> create, del |-> del, state |-> state, parent |-> parent]
NoRecord == Record(NoId, NoId, "none", NoSnapshot)

(* stateBackendRequestID: one identity per action, object and generation.  *)
RequestID(action, s, l, gen) == <<action, s, l, gen>>

IdleWork == [op |-> "none", id |-> NoId, l |-> "-", s |-> NoSnapshot, todo |-> <<>>, fresh |-> FALSE]
NoTarget == [kind |-> "none", l |-> "-", s |-> NoSnapshot, gen |-> 0]
IdleRequest == [target |-> NoTarget, reply |-> "none"]

-------------------------------------------------------------------------------
(* Looking up records. *)

(* The dataset first, then the tombstone. *)
findVolumeRecord(l) ==
    IF zfs.volume[l] # NoRecord
    THEN [rec |-> zfs.volume[l], live |-> TRUE]
    ELSE [rec |-> zfs.volumeTomb[l], live |-> FALSE]

findSnapshotRecord(s) ==
    IF zfs.snapshot[s] # NoRecord
    THEN [rec |-> zfs.snapshot[s], live |-> TRUE]
    ELSE [rec |-> zfs.snapshotTomb[s], live |-> FALSE]

(* A live volume whose Docker binding is missing or foreign is shown       *)
(* quarantined; a tombstone has no mount point, which is a conflict.       *)
InspectVolume(l) ==
    LET at == findVolumeRecord(l) IN
    IF at.rec.state \in {"none", "deleted"} THEN at.rec.state
    ELSE IF ~at.live THEN "conflict"
    ELSE IF bound[l] = "own" THEN at.rec.state ELSE "quarantined"

InspectSnapshot(s) == findSnapshotRecord(s).rec.state

listSnapshots(l) == {s \in Snapshots : SourceOf[s] = l /\ zfs.snapshot[s] # NoRecord}
Clones(s) == {l \in Lineages : zfs.volume[l] # NoRecord /\ zfs.volume[l].parent = s}

-------------------------------------------------------------------------------
(* What the worker decides when it takes an operation: an answer, or the   *)
(* commands to run.                                                        *)

Answer(reply) == [reply |-> reply, todo |-> <<>>, fresh |-> FALSE]
Commands(todo) == [reply |-> "none", todo |-> todo, fresh |-> FALSE]

createVolumeLocked(id, l, parent) ==
    LET at == findVolumeRecord(l) IN
    IF at.rec # NoRecord
    THEN IF at.live /\ at.rec.create = id /\ at.rec.parent = parent
         THEN Commands(<<"bind", "inspect">>)
         ELSE Answer("conflict")
    ELSE [Commands(<<"create", "project", "prepare", "bind", "inspect">>) EXCEPT !.fresh = TRUE]

CloneVolume(id, l, s) ==
    IF findSnapshotRecord(s).live THEN createVolumeLocked(id, l, s) ELSE Answer("notFound")

DeleteVolume(id, l) ==
    LET at == findVolumeRecord(l) IN
    IF at.rec = NoRecord THEN Answer("notFound")
    ELSE IF at.rec.state = "deleted"
         THEN Answer(IF at.rec.del = id THEN "ok" ELSE "conflict")
    ELSE IF at.rec.del \notin {NoId, id} THEN Answer("conflict")
    ELSE IF at.live
         THEN IF listSnapshots(l) # {} THEN Answer("inUse")
              ELSE Commands(<<"unbind", "bury", "destroy", "markDeleted">>)
         ELSE Commands(<<"unbind", "markDeleted">>)

CreateSnapshot(id, s) ==
    LET at == findSnapshotRecord(s) IN
    IF ~(findVolumeRecord(SourceOf[s]).live) THEN Answer("notFound")
    ELSE IF at.rec = NoRecord THEN Commands(<<"snapshot", "hold", "inspect">>)
    ELSE IF at.rec.create = id /\ at.rec.state = "ready" THEN Commands(<<"hold", "inspect">>)
    ELSE Answer("conflict")

DeleteSnapshot(id, s) ==
    LET at == findSnapshotRecord(s) IN
    IF at.rec = NoRecord THEN Answer("notFound")
    ELSE IF at.rec.state = "deleted"
         THEN Answer(IF at.rec.del = id THEN "ok" ELSE "conflict")
    ELSE IF at.rec.del \notin {NoId, id} THEN Answer("conflict")
    ELSE IF at.live
         THEN IF Clones(s) # {} THEN Answer("inUse")
              ELSE Commands(<<"inspect", "burySnapshot", "release", "destroySnapshot", "markSnapshot">>)
         ELSE Commands(<<"markSnapshot">>)

-------------------------------------------------------------------------------
(* The commands. *)

(* createTombstone: an existing one must be of the same two requests. *)
Tombstone(old, live) ==
    IF old # NoRecord THEN old ELSE [live EXCEPT !.del = work.id, !.state = "quarantined"]

(* The worker's Docker and zfs commands, by what they change. *)
Effect(cmd) ==
    LET l == work.l
        s == work.s
        same == [zfs |-> zfs, hold |-> hold, bound |-> bound]
        put(field, x, rec) == [same EXCEPT !.zfs[field][x] = rec]
    IN CASE cmd = "create"   -> put("volume", l, Record(work.id, NoId, "ready", s))
         [] cmd = "bind"     -> [same EXCEPT !.bound[l] = "own"]
         [] cmd = "unbind"   -> [same EXCEPT !.bound[l] = "none"]
         [] cmd = "bury"     -> put("volumeTomb", l, Tombstone(zfs.volumeTomb[l], zfs.volume[l]))
         [] cmd = "destroy"  -> put("volume", l, NoRecord)
         [] cmd = "markDeleted" -> [same EXCEPT !.zfs.volumeTomb[l].state = "deleted"]
         [] cmd = "snapshot" -> put("snapshot", s, Record(work.id, NoId, "ready", NoSnapshot))
         [] cmd = "hold"     -> [same EXCEPT !.hold = @ \cup {s}]
         [] cmd = "burySnapshot" ->
                put("snapshotTomb", s, Tombstone(zfs.snapshotTomb[s], zfs.snapshot[s]))
         [] cmd = "release"  -> [same EXCEPT !.hold = @ \ {s}]
         [] cmd = "destroySnapshot" -> put("snapshot", s, NoRecord)
         [] cmd = "markSnapshot" -> [same EXCEPT !.zfs.snapshotTomb[s].state = "deleted"]
         [] OTHER -> same

(* A definite refusal before anything changes, or "ok". *)
Refusal(cmd) ==
    LET l == work.l
        s == work.s
        taken(old) == IF old # NoRecord /\ old.del # work.id THEN "conflict" ELSE "ok"
    IN CASE cmd = "bind"    -> IF bound[l] = "foreign" THEN "conflict" ELSE "ok"
         [] cmd = "unbind"  -> CASE bound[l] = "foreign" -> "conflict"
                                 [] bound[l] = "own" /\ held[l].present -> "inUse"
                                 [] OTHER -> "ok"
         [] cmd = "bury"    -> taken(zfs.volumeTomb[l])
         [] cmd = "burySnapshot" -> taken(zfs.snapshotTomb[s])
         [] cmd = "destroy" -> IF listSnapshots(l) # {} THEN "inUse" ELSE "ok"
         [] cmd = "destroySnapshot" -> IF Clones(s) # {} \/ s \in hold THEN "inUse" ELSE "ok"
         [] OTHER -> "ok"

(* mapCommandError and mapBindingError answer "unavailable"; the errors of *)
(* the mount's access check have no code of their own.                     *)
Failures(cmd) ==
    IF cmd \in {"prepare", "inspect"} THEN {"unavailable", "failed"} ELSE {"unavailable"}

FaultyUndone(cmd, sent) == work.fresh /\ cmd \in {"project", "prepare", "bind"}

(* Ensure certifies with bindingNotCreatedError that no create request was *)
(* sent; only then, or before the binding, is a fresh dataset destroyed.   *)
Undone(cmd, sent) == work.fresh /\ (cmd \in {"project", "prepare"} \/ (cmd = "bind" /\ ~sent))

StFails == stFaults > 0 /\ stFaults' = stFaults - 1

(* The reply is dropped when the Executor that asked is gone. *)
Reply(r) ==
    /\ work' = IdleWork
    /\ request' = IF request.target = NoTarget THEN request ELSE [request EXCEPT !.reply = r]

Set(e) == zfs' = e.zfs /\ hold' = e.hold /\ bound' = e.bound
Destroyed == [zfs |-> [zfs EXCEPT !.volume[work.l] = NoRecord], hold |-> hold, bound |-> bound]

(* The deferred destroy of a fresh dataset is itself best effort. *)
Abort(cmd, sent, after) ==
    IF Undone(cmd, sent)
    THEN \/ Set([after EXCEPT !.zfs = Destroyed.zfs])
         \/ Set(after)
    ELSE Set(after)

Command ==
    /\ work.todo # <<>>
    /\ LET cmd == Head(work.todo) IN
       /\ Refusal(cmd) = "ok"
       /\ Set(Effect(cmd))
       /\ IF Len(work.todo) = 1
          THEN Reply("ok")
          ELSE /\ work' = [work EXCEPT !.todo = Tail(@)]
               /\ UNCHANGED request
    /\ UNCHANGED <<nodeSide, stFaults, setting>>

CommandRefused ==
    /\ work.todo # <<>>
    /\ LET cmd == Head(work.todo) IN
       /\ Refusal(cmd) # "ok"
       /\ Reply(Refusal(cmd))
       /\ Abort(cmd, FALSE, [zfs |-> zfs, hold |-> hold, bound |-> bound])
    /\ UNCHANGED <<nodeSide, stFaults, setting>>

(* A command that fails, or is killed when it has already taken effect. *)
CommandFails ==
    /\ work.todo # <<>>
    /\ StFails
    /\ LET cmd == Head(work.todo) IN
       /\ Refusal(cmd) = "ok"
       /\ \E code \in Failures(cmd) : Reply(code)
       /\ \/ Abort(cmd, FALSE, [zfs |-> zfs, hold |-> hold, bound |-> bound])
          \/ cmd = "bind" /\ Abort(cmd, TRUE, [zfs |-> zfs, hold |-> hold, bound |-> bound])
          \/ Abort(cmd, TRUE, Effect(cmd))
    /\ UNCHANGED <<nodeSide, setting>>

WorkerDies ==
    /\ work # IdleWork
    /\ StFails
    /\ Reply("lost")
    /\ UNCHANGED <<storeSide, nodeSide, setting>>

-------------------------------------------------------------------------------
(* The Executor's handlers.  provisionMu holds one request at a time.      *)

Target(kind, l, s, gen) == [kind |-> kind, l |-> l, s |-> s, gen |-> gen]

FaultyRecovery(t) == prepared = NoTarget

(* stateMutationRecovery: an exact retry resolves its own prepared entry.  *)
stateMutationRecovery(t) == prepared \in {NoTarget, t}
secureMutationBlockedLocked == prepared # NoTarget

(* The client's call: the worker answers at once or takes the operation.   *)
Call(t, op, id, l, s, a) ==
    /\ request' = [target |-> t, reply |-> a.reply]
    /\ work' = IF a.todo = <<>> THEN IdleWork
               ELSE [op |-> op, id |-> id, l |-> l, s |-> s, todo |-> a.todo, fresh |-> a.fresh]

(* The journal entry is prepared, unless a retry found it, before the call. *)
Begin(t, op, id, l, s, a) ==
    /\ request = IdleRequest /\ work = IdleWork
    /\ prepared' = t
    /\ Call(t, op, id, l, s, a)
    /\ UNCHANGED <<storeSide, held, said, stFaults, setting>>

(* The retained signed records of a lineage. *)
coldLineageRecord(l, gen) == ~held[l].present /\ held[l].gen = gen
exactLineageRecord(l, gen) == held[l].gen = gen
latestLineageRecord(l) == held[l].gen > 0

(* Validate of a clone request: never onto its own lineage. *)
CloneVolumeRequest(l, s) == l # SourceOf[s]

(* A cloned volume keeps its parent snapshot as provenance. *)
qualifiedStateSpec(l, parent) == InspectVolume(l) = "ready" => zfs.volume[l].parent = parent

Generations == 1 .. setting.maxGen

(* prepareStateAdmission and the state part of provisionSecureWorkload.    *)
prepareStateAdmission(l, gen, resume) ==
    LET view == InspectVolume(l)
        id == RequestID("create", NoSnapshot, l, 1)
        t == Target("admit", l, NoSnapshot, gen)
    IN /\ ~secureMutationBlockedLocked
       /\ ~held[l].present /\ gen > held[l].gen
       /\ \/ view = "none" /\ ~resume
             /\ Begin(t, "create", id, l, NoSnapshot, createVolumeLocked(id, l, NoSnapshot))
          \/ view = "ready" /\ (resume \/ held[l].gen = 0)
             /\ Begin(t, "create", id, l, NoSnapshot, Answer("ok"))

createStateSnapshot(s, gen) ==
    LET l == SourceOf[s]
        id == RequestID("snapshot", s, l, gen)
        t == Target("snapshot", l, s, gen)
    IN /\ stateMutationRecovery(t)
       /\ coldLineageRecord(l, gen)
       /\ InspectVolume(l) = "ready"
       /\ InspectSnapshot(s) \in {"none", "ready"}
       /\ Begin(t, "snapshot", id, l, s, CreateSnapshot(id, s))

cloneStateSnapshot(l, s, gen) ==
    LET id == RequestID("clone", s, l, gen)
        t == Target("clone", l, s, gen)
    IN /\ CloneVolumeRequest(l, s)
       /\ stateMutationRecovery(t)
       /\ ~latestLineageRecord(l) /\ latestLineageRecord(SourceOf[s])
       /\ InspectSnapshot(s) = "ready"
       /\ InspectVolume(l) \in {"none", "ready"}
       /\ qualifiedStateSpec(l, s)
       /\ Begin(t, "clone", id, l, s, CloneVolume(id, l, s))

deleteStateSnapshot(s, gen) ==
    LET l == SourceOf[s]
        id == RequestID("delete", s, l, gen)
        t == Target("delete", l, s, gen)
    IN /\ stateMutationRecovery(t)
       /\ exactLineageRecord(l, gen)
       /\ InspectSnapshot(s) # "none"
       /\ InspectSnapshot(s) = "deleted" => prepared = t
       /\ Begin(t, "delete", id, l, s, DeleteSnapshot(id, s))

purgeState(l) ==
    LET id == RequestID("purge", NoSnapshot, l, held[l].gen)
        t == Target("purge", l, NoSnapshot, held[l].gen)
    IN /\ ~secureMutationBlockedLocked
       /\ ~held[l].present /\ latestLineageRecord(l)
       /\ InspectVolume(l) = "ready"
       /\ Begin(t, "purge", id, l, NoSnapshot, DeleteVolume(id, l))

definitiveStateBackendError(r) == 
    r \in {"invalid", "notFound", "conflict", "inUse", "capacity", "unsupported", "unavailable"}

(* How the Executor reads the answer: the request was done, was undone, or *)
(* nothing is proved and the entry stays prepared.  Admission and purge    *)
(* look at the volume again after an error.                                *)
Verdict ==
    LET t == request.target
        r == request.reply
        view == InspectVolume(t.l)
    IN CASE r = "ok" -> "done"
         [] t.kind = "admit" ->
              CASE view = "ready" /\ zfs.volume[t.l].parent = NoSnapshot -> "done"
                [] view = "none" -> "undone"
                [] OTHER -> "unknown"
         [] t.kind = "purge" -> IF view = "deleted" THEN "done" ELSE "unknown"
         [] OTHER -> IF definitiveStateBackendError(r) THEN "undone" ELSE "unknown"

Ended == request' = IdleRequest /\ UNCHANGED <<storeSide, work, setting>>

(* The committed receipt, the fence of an admission, the journal's commit. *)
Committed ==
    /\ request.reply # "none"
    /\ Verdict = "done"
    /\ LET t == request.target IN
       /\ said' = [said EXCEPT ![IF t.s \in Snapshots /\ t.kind # "clone" THEN t.s ELSE t.l] = t.kind]
       /\ held' = IF t.kind = "admit" THEN [held EXCEPT ![t.l] = [gen |-> t.gen, present |-> TRUE]]
                  ELSE held
    /\ \/ prepared' = NoTarget /\ UNCHANGED stFaults
       \/ UNCHANGED prepared /\ StFails
    /\ Ended

(* recordCompensation, also after a later stage of an admission failed:    *)
(* rollbackSecureProvision retains the volume.                             *)
Compensated ==
    /\ request.reply # "none"
    /\ \/ Verdict = "undone" /\ UNCHANGED stFaults
       \/ Verdict = "done" /\ request.target.kind = "admit" /\ StFails
    /\ prepared' = NoTarget
    /\ UNCHANGED <<held, said>>
    /\ Ended

(* The answer proves nothing, or the second look failed. *)
LeftPrepared ==
    /\ request.reply # "none"
    /\ \/ Verdict = "unknown" /\ UNCHANGED stFaults
       \/ Verdict # "unknown" /\ StFails
    /\ UNCHANGED nodeSide
    /\ Ended

(* The Executor restarts: the journal keeps what was prepared. *)
ExecutorDies ==
    /\ request # IdleRequest
    /\ StFails
    /\ request' = IdleRequest
    /\ UNCHANGED <<storeSide, work, nodeSide, setting>>

(* secureDestroy of the lineage's workload keeps its state. *)
WorkloadDestroyed(l) ==
    /\ request = IdleRequest /\ ~secureMutationBlockedLocked
    /\ held[l].present
    /\ held' = [held EXCEPT ![l].present = FALSE]
    /\ UNCHANGED <<storeSide, work, request, prepared, said, stFaults, setting>>

-------------------------------------------------------------------------------
StInit ==
    /\ setting \in StCases
    /\ zfs = [volume |-> [l \in Lineages |->
                  IF l \in setting.admitted
                  THEN Record(RequestID("create", NoSnapshot, l, 1), NoId, "ready", NoSnapshot)
                  ELSE NoRecord],
              volumeTomb |-> [l \in Lineages |-> NoRecord],
              snapshot |-> [s \in Snapshots |-> NoRecord],
              snapshotTomb |-> [s \in Snapshots |-> NoRecord]]
    /\ hold = {}
    /\ bound = [l \in Lineages |-> IF l \in setting.foreign THEN "foreign"
                                   ELSE IF l \in setting.admitted THEN "own" ELSE "none"]
    /\ work = IdleWork /\ request = IdleRequest /\ prepared = NoTarget
    /\ held = [l \in Lineages |-> [gen |-> IF l \in setting.admitted THEN 1 ELSE 0, present |-> FALSE]]
    /\ said = [x \in Lineages \cup Snapshots |-> IF x \in setting.admitted THEN "admit" ELSE "none"]
    /\ stFaults = setting.faults

Settling == Committed \/ Compensated \/ LeftPrepared
Working == Command \/ CommandRefused
Retry ==
    /\ prepared # NoTarget
    /\ \/ \E s \in Snapshots : createStateSnapshot(s, prepared.gen) \/ deleteStateSnapshot(s, prepared.gen)
       \/ \E l \in Lineages, s \in Snapshots : cloneStateSnapshot(l, s, prepared.gen)

StNext ==
    \/ Command \/ CommandRefused \/ CommandFails \/ WorkerDies
    \/ \E l \in Lineages, gen \in Generations, resume \in BOOLEAN : prepareStateAdmission(l, gen, resume)
    \/ \E s \in Snapshots, gen \in Generations : createStateSnapshot(s, gen)
    \/ \E s \in Snapshots, gen \in Generations : deleteStateSnapshot(s, gen)
    \/ \E l \in Lineages, s \in Snapshots, gen \in Generations : cloneStateSnapshot(l, s, gen)
    \/ \E l \in Lineages : purgeState(l)
    \/ Committed \/ Compensated \/ LeftPrepared \/ ExecutorDies
    \/ \E l \in Lineages : WorkloadDestroyed(l)

(* The worker and the Executor go on while they run; a caller repeats a    *)
(* request that was left prepared.                                         *)
StFairness == WF_stVars(Working) /\ WF_stVars(Settling) /\ WF_stVars(Retry)
StSpec == StInit /\ [][StNext]_stVars /\ StFairness

-------------------------------------------------------------------------------
(* A Docker volume of Steward's never outlives its dataset, whatever       *)
(* failed and whoever died: backend.go keeps a dataset once Docker may     *)
(* have committed the binding, and unbinds before it destroys.             *)
BoundHasDataset == \A l \in Lineages : bound[l] = "own" => zfs.volume[l] # NoRecord

(* A snapshot or a deletion that was left prepared blocks every other      *)
(* mutation of the node; repeating the exact request settles it.           *)
SnapshotSettles == (prepared.kind \in {"snapshot", "delete"}) ~> (prepared = NoTarget)

===============================================================================
