------------------------------ MODULE EvidenceLog ------------------------------
(* The executor's signed receipt log (internal/evidence): an append-only file of
   hash-chained receipts, the indexes of activation markers its writer keeps, and
   what process and machine failures leave of it.  A chain hash commits to the
   whole prefix, so a coordinate is the prefix itself and a head is the chain. *)
EXTENDS Integers, Sequences, FiniteSets, SequencesExt, TLC

CONSTANTS
    EvCases,           \* scenarios: events, bounds and faults
    EventOf,           \* the fields of each event
    checkpointStride,  \* receipts between two sparse checkpoints
    MaxDeltaRecords    \* receipts in one exported batch

VARIABLES
    evCase,    \* the scenario
    evFile,    \* the file: receipts, how many are on stable storage, a torn tail
    evLog,     \* the writer: open handle, verified chain, activation indexes
    evFaults   \* faults so far
logVars == <<evFile, evLog, evFaults>>

Unset == "none"

\* An event names its runtime, the capsule and policy digests (caps), the grant
\* (an activation for the markers) and a metadata hash.
\* After a fault the node may have other things to record (evCase.after).
Recorded == evCase.events \cup evCase.after
Inputs == IF evFaults = 0 THEN evCase.events ELSE evCase.after
Keys == {<<EventOf[e].run, EventOf[e].caps>> : e \in Recorded} \cup {<<"state", EventOf[e].caps>> : e \in Recorded}
Inv0 == [at |-> 0, start |-> 0, compStart |-> 0, compAt |-> 0]
newActivationIndexes ==
    [ok |-> TRUE, begins |-> <<>>, checkpoints |-> <<>>, invalid |-> [k \in Keys |-> Inv0]]

Matches(begin, e) == EventOf[begin].grant = EventOf[e].grant /\ EventOf[begin].caps = EventOf[e].caps

applyActivationInvalidation(inv, e, seq) ==
    LET k == <<EventOf[e].run, EventOf[e].caps>>
        s == <<"state", EventOf[e].caps>>
    IN CASE EventOf[e].type = "start" /\ EventOf[e].grant = "workload" -> [inv EXCEPT ![k].start = seq]
         [] EventOf[e].type = "compensate" /\ EventOf[e].grant # "state" /\ inv[k].start # 0 ->
                [inv EXCEPT ![k].compStart = inv[k].start, ![k].compAt = seq]
         [] EventOf[e].type = "stop" -> [inv EXCEPT ![k].at = seq]
         [] EventOf[e].type = "purge" /\ EventOf[e].grant = "state" -> [inv EXCEPT ![s].at = seq]
         [] OTHER -> inv

activationInvalidated(idx, begin) ==
    LET r == idx.invalid[<<EventOf[begin].run, EventOf[begin].caps>>]
    IN \/ r.at # 0
       \/ idx.invalid[<<"state", EventOf[begin].caps>>].at # 0
       \/ r.compStart # 0 /\ r.compAt > r.compStart

\* What Open's scan accepts of one more receipt.
MarkerAccepted(idx, e) ==
    CASE EventOf[e].type = "begin" -> EventOf[e].run \notin DOMAIN idx.begins
      [] EventOf[e].type = "checkpoint" ->
            /\ EventOf[e].run \in DOMAIN idx.begins
            /\ Matches(idx.begins[EventOf[e].run], e)
            /\ EventOf[e].run \notin DOMAIN idx.checkpoints
      [] OTHER -> TRUE
applyActivationMarker(idx, e) ==
    CASE EventOf[e].type = "begin" -> [idx EXCEPT !.begins = (EventOf[e].run :> e) @@ @]
      [] EventOf[e].type = "checkpoint" -> [idx EXCEPT !.checkpoints = (EventOf[e].run :> e) @@ @]
      [] OTHER -> idx

\* verifyFileWithActivationIndexes: Open's scan over the whole chain; not ok
\* once a marker is refused.
Indexed(idx, e, seq) ==
    IF MarkerAccepted(idx, e)
    THEN [applyActivationMarker(idx, e) EXCEPT
            !.invalid = applyActivationInvalidation(@, e, seq)]
    ELSE [idx EXCEPT !.ok = FALSE]
Scan(frames) ==
    FoldLeftDomain(LAMBDA idx, n : Indexed(idx, frames[n], n), newActivationIndexes, frames)

\* The handle's own checks before it reads or appends: the file has not changed
\* under it, and the segment after the last sparse checkpoint still ends at the
\* verified head.
validateFileState(log, file) == Len(file.frames) = Len(log.frames) /\ ~file.torn
verifyTail(log, file) ==
    LET from == ((Len(log.frames) - 1) \div checkpointStride) * checkpointStride
    IN log.frames # <<>> =>
        SubSeq(file.frames, from + 1, Len(log.frames)) = SubSeq(log.frames, from + 1, Len(log.frames))
Sound(log, file) == validateFileState(log, file) /\ verifyTail(log, file)

Closed == [open |-> FALSE, frames |-> <<>>, idx |-> newActivationIndexes]
failClosed == evLog' = Closed

EvFault(kind) ==
    /\ kind \in evCase.kinds
    /\ evFaults < evCase.faults
    /\ evFaults' = evFaults + 1

\* appendActivationMarker's rules; an exact retry returns the retained receipt
\* and a conflict or an invalidated activation is refused, both without a write.
Appendable(idx, e) ==
    CASE EventOf[e].type = "begin" -> EventOf[e].run \notin DOMAIN idx.begins
      [] EventOf[e].type = "checkpoint" ->
            /\ EventOf[e].run \in DOMAIN idx.begins
            /\ Matches(idx.begins[EventOf[e].run], e)
            /\ EventOf[e].run \notin DOMAIN idx.checkpoints
            /\ ~activationInvalidated(idx, idx.begins[EventOf[e].run])
      [] OTHER -> TRUE

\* appendLocked.  The frame is written, synced and checked before the handle
\* advances; any failure on the way closes the handle.
Appended(e) ==
    LET n == Len(evLog.frames) + 1
    IN [evLog EXCEPT
          !.frames = Append(@, e),
          !.idx = [applyActivationMarker(@, e) EXCEPT
                     !.invalid = applyActivationInvalidation(@, e, n)]]
AppendEvent(e) ==
    /\ evLog.open
    /\ Sound(evLog, evFile)
    /\ Appendable(evLog.idx, e)
    /\ Len(evLog.frames) < evCase.log
    /\ \/ /\ evFile' = [frames |-> Append(evFile.frames, e), torn |-> FALSE,
                        synced |-> Len(evFile.frames) + 1]
          /\ evLog' = Appended(e)
          /\ UNCHANGED evFaults
       \/ EvFault("write") /\ failClosed /\ evFile' = [evFile EXCEPT !.torn = TRUE]
       \/ EvFault("sync") /\ failClosed /\ evFile' = [evFile EXCEPT !.frames = Append(@, e)]

\* A changed file is noticed by the next operation, which closes the handle.
NoticeChange ==
    /\ evLog.open
    /\ ~Sound(evLog, evFile)
    /\ failClosed
    /\ UNCHANGED <<evFile, evFaults>>

\* The process ends between two operations, or inside appendLocked with the
\* frame torn or written and not yet synced.
EvKill ==
    /\ evLog.open
    /\ EvFault("kill")
    /\ evLog' = Closed
    /\ \/ UNCHANGED evFile
       \/ /\ Sound(evLog, evFile)
          /\ \E e \in Inputs :
                /\ Appendable(evLog.idx, e)
                /\ Len(evLog.frames) < evCase.log
                /\ \/ evFile' = [evFile EXCEPT !.torn = TRUE]
                   \/ evFile' = [evFile EXCEPT !.frames = Append(@, e)]

\* The machine loses power: what was not synced may be gone, or torn.
EvPowerLoss ==
    /\ EvFault("power")
    /\ evLog' = Closed
    /\ \E n \in evFile.synced..Len(evFile.frames), torn \in BOOLEAN :
          /\ torn => evFile.torn \/ n < Len(evFile.frames)
          /\ evFile' = [frames |-> SubSeq(evFile.frames, 1, n), synced |-> n, torn |-> torn]

\* Open verifies the whole chain before the handle accepts an append; a partial
\* frame or a refused marker keeps the log closed.
EvOpen ==
    /\ ~evLog.open
    /\ ~evFile.torn
    /\ \E idx \in {Scan(evFile.frames)} :
          idx.ok /\ evLog' = [open |-> TRUE, frames |-> evFile.frames, idx |-> idx]
    /\ UNCHANGED <<evFile, evFaults>>

\* The node's operator puts an older copy of the file back.
RestoreFile ==
    /\ EvFault("restore")
    /\ \E n \in 0..(Len(evFile.frames) - 1) :
          evFile' = [frames |-> SubSeq(evFile.frames, 1, n), synced |-> n, torn |-> FALSE]
    /\ UNCHANGED evLog

LogInit ==
    /\ evFile = [frames |-> <<>>, synced |-> 0, torn |-> FALSE]
    /\ evLog = [open |-> TRUE, frames |-> <<>>, idx |-> newActivationIndexes]
    /\ evFaults = 0

\* exportDelta: the bounded batch after a coordinate this log holds; without it
\* the call returns ErrDeltaCoordinate.
FaultyHolds(log, after) == after = log.frames
Holds(log, after) == IsPrefix(after, log.frames)
exportDelta(log, after) ==
    LET to == Len(after) + MaxDeltaRecords
    IN SubSeq(log.frames, Len(after) + 1, IF to < Len(log.frames) THEN to ELSE Len(log.frames))

===============================================================================
