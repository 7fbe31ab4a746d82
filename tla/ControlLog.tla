------------------------------ MODULE ControlLog ------------------------------
(***************************************************************************)
(* Control's durable log (controlstore/store.go and format.go) and its     *)
(* offline backup (controlbackup/backup.go).                               *)
(*                                                                         *)
(* A directory holds CURRENT, which selects a generation, and for each     *)
(* generation a snapshot and a write-ahead log.  A mutation appends one    *)
(* frame to the log and syncs it before readers see its effect; when the   *)
(* log has grown past a target, compaction first writes the next           *)
(* generation and points CURRENT at it.  Opening replays the selected log. *)
(*                                                                         *)
(* The file system is modelled by what is visible and what is durable: a   *)
(* file renamed into a directory that is not synced yet, or a frame        *)
(* written and not synced, may or may not survive a power loss, and a      *)
(* frame may survive in part.  A sync or a write may fail after it took    *)
(* effect.  A digest or a hash chain stands for the content it covers, so  *)
(* the chain's last hash is the whole history of transactions.             *)
(***************************************************************************)
EXTENDS ControlState

CONSTANTS
    Transactions,   \* name -> its mutations, their version and the size of its frame
    Disks,          \* the directories Control may find: empty, or left by an earlier
                    \* release, with the state their snapshot stands for
    Target,         \* walCompactionTarget
    BatchFrames,    \* walRecoveryBatchFrames
    FaultModels,    \* sets of the faults that may occur in one behaviour
    MaxHistory, MaxGeneration, MaxFaults   \* bounds

CURRENT == <<"CURRENT", 0>>
Names == {CURRENT} \cup ({"snapshot", "wal"} \X (1 .. MaxGeneration))

VARIABLES
    disk,     \* file names -> contents, as visible
    synced,   \* file names -> contents, as a power loss would leave the directory
    store,    \* the open Store, or None
    op,       \* the call under way in the open store, or Idle
    base,     \* what the directory's first snapshot stood for; never changes
    acked,    \* history: the transactions whose callers were told of success
    begun,    \* history: Initialize has reported success
    refused,  \* history: why Open has refused the directory
    archive,  \* a backup that Create reported, or None
    faults    \* the kinds of fault this behaviour may meet, and how many it has met

vars == <<disk, synced, store, op, base, acked, begun, refused, archive, faults>>

Idle == [pc |-> "idle"]

\* A log file: the header that continues a snapshot, its complete frames, the
\* bytes of an incomplete last frame, and how many frames a power loss keeps.
Wal(header, frames, torn, kept) ==
    [header |-> header, frames |-> frames, torn |-> torn, kept |-> kept]
FrameSizes(frames) ==
    LET Step(sum, f) == sum + f.size IN FoldLeft(Step, 0, frames)
Size(wal) == FrameSizes(wal.frames) + wal.torn

Mutations(t) == Transactions[t].mutations
Frame(hist, t) ==
    [sequence |-> Len(hist) + 1, previous |-> hist, version |-> Transactions[t].version,
     name |-> t, size |-> Transactions[t].size]

-----------------------------------------------------------------------------
\* Recovery.

\* Frames are applied in batches of one version and of bounded length, and the
\* state is validated after each batch.
Flushed(acc, next) ==
    [acc EXCEPT !.ok = @ /\ next.ok /\ validateState(next.st), !.st = next.st,
                !.batch = <<>>, !.count = 0]
Flush(acc) == Flushed(acc, applyTransaction(acc.st, acc.version, acc.batch))

Collect(acc, f) ==
    [acc EXCEPT !.ok = @ /\ f.sequence = Len(acc.hist) + 1 /\ f.previous = acc.hist,
                !.version = f.version, !.batch = @ \o Mutations(f.name),
                !.count = @ + 1, !.hist = Append(@, f.name)]
\* Mutant: a batch may mix frames of different versions.
FaultyRecoverFrame(acc, f) ==
    Collect(IF acc.count >= BatchFrames THEN Flush(acc) ELSE acc, f)

recoverFrame(acc, f) ==
    Collect(IF acc.count > 0 /\ (f.version # acc.version \/ acc.count >= BatchFrames)
            THEN Flush(acc) ELSE acc, f)

recoverWALReader(wal, st) ==
    Flush(FoldLeft(recoverFrame,
                   [ok |-> TRUE, st |-> st, hist |-> wal.header.hist, version |-> WriteVersion,
                    batch |-> <<>>, count |-> 0],
                   wal.frames))

\* The verdict of reading a directory: CURRENT's digests match the snapshot and
\* the log header it selects, the header continues the snapshot, and the frames
\* continue the header.
Corrupt == [verdict |-> "corrupt"]
Replayed(gen, r) ==
    IF r.ok THEN [verdict |-> "ok", gen |-> gen, st |-> r.st, hist |-> r.hist] ELSE Corrupt
Decoded(gen, wal, decoded) ==
    IF decoded.ok /\ validateState(decoded.st)
    THEN Replayed(gen, recoverWALReader(wal, decoded.st)) ELSE Corrupt
Selected(current, snapshot, wal) ==
    IF /\ snapshot # None /\ wal # None
       /\ snapshot = current.snapshot /\ wal.header = current.header
       /\ wal.header.gen = snapshot.gen /\ wal.header.hist = snapshot.hist
    THEN Decoded(current.gen, wal, decodeState(snapshot.payload)) ELSE Corrupt
Inspected(files) ==
    IF files[CURRENT] = None THEN [verdict |-> "uninitialized"]
    ELSE Selected(files[CURRENT], files[<<"snapshot", files[CURRENT].gen>>],
                  files[<<"wal", files[CURRENT].gen>>])

\* Reading a directory without repairing it: an incomplete last frame is refused.
InspectRoot(files) ==
    LET seen == Inspected(files) IN
    IF seen.verdict = "ok" /\ files[<<"wal", files[CURRENT].gen>>].torn > 0
    THEN Corrupt ELSE seen

NewSnapshot(gen, hist, st) == [gen |-> gen, hist |-> hist, payload |-> encodeState(st)]
NewHeader(gen, hist) == [gen |-> gen, hist |-> hist]
Manifest(snapshot, header) == [gen |-> snapshot.gen, snapshot |-> snapshot, header |-> header]

-----------------------------------------------------------------------------
\* The file system.

\* "write": a write stops short; "sync": a sync fails after what it should sync
\* took effect; "kill": the process ends; "power": the machine loses power.
Fault(kind) ==
    /\ kind \in faults.kinds /\ faults.count < MaxFaults
    /\ faults' = [faults EXCEPT !.count = @ + 1]

\* A file is replaced by name: in full and durably, not at all, or visibly but
\* with its directory entry not durable; only the first is success.
Replace(name, content, outcome) ==
    CASE outcome = "ok" ->
            /\ disk' = [disk EXCEPT ![name] = content]
            /\ synced' = disk'
            /\ UNCHANGED faults
      [] outcome = "unwritten" -> Fault("write") /\ UNCHANGED <<disk, synced>>
      [] OTHER ->
            /\ Fault("sync")
            /\ disk' = [disk EXCEPT ![name] = content]
            /\ UNCHANGED synced
WriteOutcomes == {"ok", "unwritten", "unsynced"}

\* Only the open log grows in place; its entry is durable by then.
SetWal(gen, wal) ==
    /\ disk' = [disk EXCEPT ![<<"wal", gen>>] = wal]
    /\ synced' = [synced EXCEPT ![<<"wal", gen>>] = wal]

\* What a power loss may leave of a file with unsynced frames.
Survivors(file) ==
    IF file = None \/ "frames" \notin DOMAIN file THEN {file}
    ELSE UNION {{Wal(file.header, SubSeq(file.frames, 1, k), torn, k) :
                    torn \in IF k = Len(file.frames) THEN {0, file.torn}
                             ELSE {0, file.frames[k + 1].size - 1}} :
                k \in file.kept .. Len(file.frames)}

Ended ==
    /\ store' = None
    /\ op' = Idle
    /\ UNCHANGED <<acked, base, begun, refused, archive>>

\* The process ends; what it wrote stays visible.
Kill ==
    /\ store # None \/ op # Idle
    /\ Fault("kill")
    /\ Ended
    /\ UNCHANGED <<disk, synced>>

\* The machine loses power: each change that is not durable may be kept or lost.
PowerLoss ==
    /\ store # None \/ op # Idle
    /\ Fault("power")
    /\ \E fresh \in SUBSET {n \in Names : disk[n] # synced[n]} :
          LET left == [n \in Names |-> IF n \in fresh THEN disk[n] ELSE synced[n]] IN
          \E gen \in 1 .. MaxGeneration : \E file \in Survivors(left[<<"wal", gen>>]) :
             /\ store # None => gen = store.gen
             /\ disk' = [left EXCEPT ![<<"wal", gen>>] = file]
             /\ synced' = disk'
    /\ Ended

-----------------------------------------------------------------------------
\* Initialize writes three files, none of which may exist yet.  A failed write
\* removes its own file and leaves the earlier ones.
InitialFile(name) ==
    LET snapshot == NewSnapshot(1, <<>>, emptyState)
        header == NewHeader(1, <<>>)
    IN  CASE name = CURRENT -> Manifest(snapshot, header)
          [] name = <<"snapshot", 1>> -> snapshot
          [] OTHER -> Wal(header, <<>>, 0, 0)
InitialOrder == <<<<"snapshot", 1>>, <<"wal", 1>>, CURRENT>>

StartInitialize ==
    /\ store = None /\ op = Idle
    /\ \A n \in Names : disk[n] = None
    /\ op' = [pc |-> "initialize", step |-> 1]
    /\ UNCHANGED <<disk, synced, store, acked, base, begun, refused, archive, faults>>

Initialize ==
    /\ op.pc = "initialize"
    /\ LET name == InitialOrder[op.step] IN
       \/ /\ Replace(name, InitialFile(name), "ok")
          /\ op' = IF op.step = 3 THEN Idle ELSE [op EXCEPT !.step = @ + 1]
          /\ store' = IF op.step = 3
                      THEN [who |-> "control", gen |-> 1, hist |-> <<>>, st |-> emptyState,
                            poisoned |-> FALSE]
                      ELSE None
          /\ begun' = (op.step = 3)
       \/ /\ Replace(name, InitialFile(name), "unwritten")
          /\ op' = Idle
          /\ UNCHANGED <<store, begun>>
    /\ UNCHANGED <<base, acked, refused, archive>>

\* Open, by the Control process or by a backup.  It removes an incomplete last
\* frame, and a log past the target is compacted before the store is used.
Refuse(why) ==
    /\ refused' = refused \cup {why}
    /\ refused' # refused
    /\ UNCHANGED <<disk, synced, store, op>>

Recover(who, seen, wal) ==
    /\ IF wal.torn = 0 THEN UNCHANGED <<disk, synced>>
       ELSE SetWal(seen.gen, [wal EXCEPT !.torn = 0, !.kept = Len(wal.frames)])
    /\ store' = [who |-> who, gen |-> seen.gen, hist |-> seen.hist, st |-> seen.st,
                 poisoned |-> FALSE]
    /\ op' = IF Size(wal) > Target THEN [pc |-> "snapshot", for |-> None] ELSE Idle
    /\ UNCHANGED refused

Open(who) ==
    /\ store = None /\ op = Idle
    /\ \E seen \in {Inspected(disk)} :
          IF seen.verdict = "ok" THEN Recover(who, seen, disk[<<"wal", seen.gen>>])
          ELSE Refuse(IF begun THEN "lost" ELSE seen.verdict)
    /\ UNCHANGED <<base, acked, begun, archive, faults>>

Close ==
    /\ store # None /\ op = Idle
    /\ store' = None
    /\ UNCHANGED <<disk, synced, op, acked, base, begun, refused, archive, faults>>

-----------------------------------------------------------------------------
\* A mutation, checked in full before the log is touched.
Mutate(t) ==
    /\ store # None /\ op = Idle /\ ~store.poisoned /\ store.who = "control"
    /\ Len(store.hist) < MaxHistory /\ Transactions[t].version = WriteVersion
    /\ \E next \in {applyTransaction(store.st, WriteVersion, Mutations(t))} :
          next.ok /\ validateState(next.st)
    /\ op' = [pc |-> IF Size(disk[<<"wal", store.gen>>]) + Transactions[t].size > Target
                     THEN "snapshot" ELSE "append",
              for |-> t]
    /\ UNCHANGED <<disk, synced, store, acked, base, begun, refused, archive, faults>>

\* Compaction writes the next generation's snapshot, its log, then CURRENT.
\* When Open compacts, a failure is passed over; before an append it makes the
\* store unavailable until it is opened again.
CompactionFailed ==
    /\ op' = Idle
    /\ store' = [store EXCEPT !.poisoned = op.for # None]

compactSnapshot ==
    /\ op.pc = "snapshot" /\ store.gen < MaxGeneration
    /\ LET gen == store.gen + 1 IN
       \E outcome \in WriteOutcomes :
          /\ Replace(<<"snapshot", gen>>, NewSnapshot(gen, store.hist, store.st), outcome)
          /\ IF outcome = "ok" THEN op' = [op EXCEPT !.pc = "wal"] /\ UNCHANGED store
             ELSE CompactionFailed
    /\ UNCHANGED <<acked, base, begun, refused, archive>>

compactWAL ==
    /\ op.pc = "wal"
    /\ LET gen == store.gen + 1 IN
       \E outcome \in WriteOutcomes :
          /\ Replace(<<"wal", gen>>, Wal(NewHeader(gen, store.hist), <<>>, 0, 0), outcome)
          /\ IF outcome = "ok" THEN op' = [op EXCEPT !.pc = "current"] /\ UNCHANGED store
             ELSE CompactionFailed
    /\ UNCHANGED <<acked, base, begun, refused, archive>>

compactCurrent ==
    /\ op.pc = "current"
    /\ LET gen == store.gen + 1 IN
       \E outcome \in WriteOutcomes :
          /\ Replace(CURRENT,
                     Manifest(NewSnapshot(gen, store.hist, store.st), NewHeader(gen, store.hist)),
                     outcome)
          /\ IF outcome = "ok"
             THEN op' = [op EXCEPT !.pc = "remove"] /\ store' = [store EXCEPT !.gen = gen]
             ELSE CompactionFailed
    /\ UNCHANGED <<acked, base, begun, refused, archive>>

\* The old generation is removed; what that leaves behind is ignored.
compactRemove ==
    /\ op.pc = "remove"
    /\ \E gone \in SUBSET {<<"snapshot", store.gen - 1>>, <<"wal", store.gen - 1>>} :
          /\ disk' = [n \in Names |-> IF n \in gone THEN None ELSE disk[n]]
          /\ \/ synced' = disk'
             \/ UNCHANGED synced
    /\ op' = IF op.for = None THEN Idle ELSE [op EXCEPT !.pc = "append"]
    /\ UNCHANGED <<store, acked, base, begun, refused, archive, faults>>

\* Mutant: the transaction is published and acknowledged before it is synced.
FaultyAppendFrame ==
    /\ op.pc = "append"
    /\ LET wal == disk[<<"wal", store.gen>>] IN
       SetWal(store.gen, [wal EXCEPT !.frames = Append(@, Frame(store.hist, op.for))])
    /\ store' = [store EXCEPT !.hist = Append(@, op.for),
                    !.st = applyTransaction(@, WriteVersion, Mutations(op.for)).st]
    /\ acked' = store'.hist
    /\ op' = Idle
    /\ UNCHANGED <<base, begun, refused, archive, faults>>

\* The frame is appended: wholly, in part, or not at all; anything short of the
\* whole makes the store unavailable.
AppendFrame ==
    /\ op.pc = "append"
    /\ LET wal == disk[<<"wal", store.gen>>]
           frame == Frame(store.hist, op.for)
       IN  \/ /\ SetWal(store.gen, [wal EXCEPT !.frames = Append(@, frame)])
              /\ op' = [op EXCEPT !.pc = "sync"]
              /\ UNCHANGED <<store, faults>>
           \/ /\ Fault("write")
              /\ \E part \in {0, frame.size - 1} :
                    SetWal(store.gen, [wal EXCEPT !.torn = part])
              /\ op' = Idle
              /\ store' = [store EXCEPT !.poisoned = TRUE]
    /\ UNCHANGED <<acked, base, begun, refused, archive>>

\* Only after the sync do readers see the transaction and the caller hear of it.
SyncFrame ==
    /\ op.pc = "sync"
    /\ LET wal == disk[<<"wal", store.gen>>] IN
       \/ /\ SetWal(store.gen, [wal EXCEPT !.kept = Len(wal.frames)])
          /\ store' = [store EXCEPT !.hist = Append(@, op.for),
                          !.st = applyTransaction(@, WriteVersion, Mutations(op.for)).st]
          /\ acked' = store'.hist
          /\ UNCHANGED faults
       \/ /\ Fault("sync")
          /\ store' = [store EXCEPT !.poisoned = TRUE]
          /\ UNCHANGED <<disk, synced, acked>>
    /\ op' = Idle
    /\ UNCHANGED <<base, begun, refused, archive>>

-----------------------------------------------------------------------------
\* A backup opens the stopped store, notes its status, and copies the directory
\* as it then is, before it closes the store.
CreateStatus ==
    /\ store # None /\ store.who = "backup" /\ op = Idle /\ archive = None
    /\ op' = [pc |-> "copy", gen |-> store.gen, hist |-> store.hist]
    /\ UNCHANGED <<disk, synced, store, acked, base, begun, refused, archive, faults>>

CreateCopy ==
    /\ op.pc = "copy"
    /\ \/ archive' = [gen |-> op.gen, hist |-> op.hist, files |-> disk] /\ UNCHANGED faults
       \/ Fault("write") /\ UNCHANGED archive
    /\ op' = Idle
    /\ store' = None
    /\ UNCHANGED <<disk, synced, acked, base, begun, refused>>

\* The restored directory matches the checkpoint its archive names.
validateRestoredStateRoot(seen) ==
    /\ seen.verdict = "ok"
    /\ seen.gen = archive.gen /\ Len(seen.hist) = Len(archive.hist)

\* Restore extracts an archive into a new directory, reads it without repairing
\* anything, and keeps it only if it matches the archive's checkpoint.  Control
\* then runs from there, as of the backup.
Restore ==
    /\ store = None /\ op = Idle /\ archive # None
    /\ validateRestoredStateRoot(InspectRoot(archive.files))
    /\ disk' = archive.files
    /\ synced' = archive.files
    /\ acked' = archive.hist
    /\ archive' = None
    /\ UNCHANGED <<store, op, base, begun, refused, faults>>

-----------------------------------------------------------------------------
Init ==
    /\ \E d \in Disks :
          /\ disk = [n \in Names |-> IF n \in DOMAIN d.files THEN d.files[n] ELSE None]
          /\ base = d.base
          /\ begun = (CURRENT \in DOMAIN d.files)
          /\ acked = IF begun THEN [k \in DOMAIN d.files[<<"wal", 1>>].frames |->
                                      d.files[<<"wal", 1>>].frames[k].name]
                     ELSE <<>>
    /\ synced = disk
    /\ store = None /\ op = Idle /\ refused = {} /\ archive = None
    /\ \E kinds \in FaultModels : faults = [kinds |-> kinds, count |-> 0]

Next ==
    \/ StartInitialize \/ Initialize
    \/ \E who \in {"control", "backup"} : Open(who)
    \/ Close \/ Kill \/ PowerLoss
    \/ \E t \in DOMAIN Transactions : Mutate(t)
    \/ compactSnapshot \/ compactWAL \/ compactCurrent \/ compactRemove
    \/ AppendFrame \/ SyncFrame
    \/ CreateStatus \/ CreateCopy \/ Restore

Spec == Init /\ [][Next]_vars

-----------------------------------------------------------------------------
\* Every transaction whose caller was told of success is in the state of every
\* later open store: a crash, a power loss, a failed compaction or a repaired
\* tail loses none (applyMutationsLocked, compactLocked, Open).
AcknowledgedSurvives == store # None => IsPrefix(acked, store.hist)

\* Recovering a snapshot and replaying the log in batches gives the state that
\* applying the transactions one at a time gave (recoverWALReader, decodeState).
RecoveredExactly ==
    LET Step(acc, t) == applyTransaction(acc, Transactions[t].version, Mutations(t)).st
    IN  store # None => store.st = FoldLeft(Step, base, store.hist)

===============================================================================
