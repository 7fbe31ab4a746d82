---------------------------- MODULE EvidenceWitness ----------------------------
(* Control's witness of one executor's receipt chain: the publisher that sends
   signed batches, the challenges and the per-credential gate a report passes,
   the two-phase application of a report, and the captures that record the
   receipts of one activation. *)
EXTENDS EvidenceLog

CONSTANTS
    Lifetime,                 \* ticks an evidence challenge stays valid
    MaxChallengeVariants,     \* reports one challenge may verify
    MaxCaptureFrames,         \* receipts one capture may hold
    CaptureTTL,               \* ticks a capture stays armed
    Challenges                \* challenge values; one in use is not minted again

VARIABLES
    evNow,       \* Control's clock
    evPub,       \* the publisher in the executor's process
    evReports,   \* reports the network may still deliver, once or again
    evWitness,   \* the node's retained checkpoint and finding
    evGates,     \* one report gate for each credential, in memory
    evHandling,  \* reports being verified, with the state they were compared with
    evCaptures   \* stored captures
pubVars == <<evPub, evReports>>
ctlVars == <<evWitness, evGates, evHandling, evCaptures>>
evVars == <<evCase, evFile, evLog, evFaults, evNow, evPub, evReports, ctlVars>>

NoFinding == [reason |-> Unset]
Witness0 == [head |-> <<>>, start |-> 0, at |-> 0, finding |-> NoFinding]
Gate0 == [pending |-> 0, pendingAt |-> 0, until |-> 0, active |-> FALSE, completed |-> <<>>]
NoReport == [chal |-> 0]
NoExchange == [pc |-> "idle", chal |-> 0, exp |-> 0, cred |-> 0, head |-> <<>>, rep |-> NoReport]

\* pruneExpired: an unused challenge and a completed report are forgotten when
\* the challenge expires.
pruneExpired(g, now) ==
    [g EXCEPT !.pending = IF g.pendingAt > now THEN @ ELSE 0,
              !.completed = SelectSeq(@, LAMBDA c : c.exp > now)]

\* A challenge no token in circulation carries.
InUse ==
    {g.pending : g \in {evGates[c] : c \in evCase.creds}}
        \cup UNION {{evGates[c].completed[n].chal : n \in DOMAIN evGates[c].completed} : c \in evCase.creds}
        \cup {r.chal : r \in evReports}
        \cup {evHandling[c].rep.chal : c \in evCase.creds}
        \cup {evPub.chal, evPub.rep.chal}
Fresh(used) == IF used = Challenges THEN {} ELSE {Min(Challenges \ used)}

\* PollExecutorEvidence and the publisher's reading of it: a challenge is minted
\* and replaces the credential's last one; the answer carries the retained head,
\* or the finding that halts the publisher.  The answer may be lost.  A rotated
\* credential is not used again.
PollExecutorEvidence(cred) ==
    /\ evPub.pc = "idle"
    /\ \A newer \in evCase.creds : newer > cred => evGates[newer] = Gate0
    /\ \E c \in Fresh(InUse \cap Challenges), exp \in {evNow + Lifetime} :
          /\ evGates' = [evGates EXCEPT ![cred] =
                [@ EXCEPT !.pending = c, !.pendingAt = exp,
                          !.until = IF exp > @ THEN exp ELSE @, !.completed = <<>>]]
          /\ \/ /\ evPub' = IF evWitness.finding # NoFinding THEN [NoExchange EXCEPT !.pc = "halted"]
                            ELSE [NoExchange EXCEPT !.pc = "polled", !.chal = c, !.exp = exp,
                                              !.cred = cred, !.head = evWitness.head]
                /\ UNCHANGED evFaults
             \/ EvFault("lost") /\ UNCHANGED evPub
    /\ UNCHANGED <<evCase, evFile, evLog, evNow, evReports, evWitness, evHandling, evCaptures>>

\* publishOnceState after the poll: the batch after Control's head, or the bare
\* local head when this log does not hold it, signed with the challenge.
Report(frames, head) ==
    [chal |-> evPub.chal, exp |-> evPub.exp, cred |-> evPub.cred,
     base |-> evPub.head, frames |-> frames, head |-> head]
Sent ==
    IF Holds(evLog, evPub.head)
    THEN Report(exportDelta(evLog, evPub.head), evPub.head \o exportDelta(evLog, evPub.head))
    ELSE Report(<<>>, evLog.frames)
Publish ==
    /\ evPub.pc = "polled"
    /\ IF evLog.open /\ Sound(evLog, evFile)
       THEN /\ evPub' = [evPub EXCEPT !.pc = "sent", !.rep = Sent]
            /\ \E late \in {r \in SUBSET evReports : Cardinality(r) < evCase.late} :
                  evReports' = late \cup {Sent}
            /\ UNCHANGED evLog
       ELSE evPub' = NoExchange /\ failClosed /\ UNCHANGED evReports
    /\ UNCHANGED <<evCase, evFile, evFaults, evNow, ctlVars>>

\* beginExecutorEvidenceReport: who may verify this report now.
Passes(g, r, now) ==
    /\ r.exp > now
    /\ ~g.active
    /\ IF g.pending # 0 THEN g.pending = r.chal
       ELSE IF g.completed # <<>>
       THEN /\ g.completed[1].chal = r.chal
            /\ \A n \in DOMAIN g.completed : g.completed[n].rep # r
            /\ Len(g.completed) < MaxChallengeVariants
       ELSE g.until <= now
Replays(g, r, now) ==
    /\ r.exp > now /\ ~g.active /\ g.pending = 0
    /\ \E n \in DOMAIN g.completed : g.completed[n].rep = r /\ g.completed[n].ok
Begun(g, r, now) ==
    [g EXCEPT !.active = TRUE, !.pending = 0,
              !.completed = IF g.pending = 0 THEN @ ELSE <<>>,
              !.until = IF g.pending = 0 /\ g.completed = <<>> THEN now + Lifetime
                        ELSE IF r.exp > @ THEN r.exp ELSE @]

\* The publisher reads an answer to the report it awaits: a finding halts it,
\* anything but its own head as the new checkpoint is an error.
Answered(r, w) ==
    evPub' = IF evPub.pc # "sent" \/ evPub.rep # r THEN evPub
             ELSE IF w.finding # NoFinding /\ w.finding.observed = r.head
             THEN [NoExchange EXCEPT !.pc = "halted"]
             ELSE NoExchange

ReportArrives(r) ==
    /\ \E g \in {pruneExpired(evGates[r.cred], evNow)} :
          \/ /\ Passes(g, r, evNow)
             /\ evGates' = [evGates EXCEPT ![r.cred] = Begun(g, r, evNow)]
             /\ evHandling' = [evHandling EXCEPT ![r.cred] =
                                 [rep |-> r, snap |-> evWitness, now |-> evNow]]
             /\ UNCHANGED evPub
          \/ /\ Replays(g, r, evNow)
             /\ evPub.rep = r
             /\ evGates' = [evGates EXCEPT ![r.cred] = g]
             /\ Answered(r, evWitness)
             /\ UNCHANGED evHandling
    /\ UNCHANGED <<evCase, logVars, evNow, evReports, evWitness, evCaptures>>

\* The request times out, or is refused; the publisher backs off and polls again.
GiveUp ==
    /\ evPub.pc = "sent"
    /\ \/ EvFault("timeout")
       \/ /\ \E g \in {pruneExpired(evGates[evPub.cred], evNow)} :
                ~Passes(g, evPub.rep, evNow) /\ ~Replays(g, evPub.rep, evNow)
          /\ evHandling[evPub.cred].rep # evPub.rep
          /\ UNCHANGED evFaults
    /\ evPub' = NoExchange
    /\ UNCHANGED <<evCase, evFile, evLog, evNow, evReports, ctlVars>>

-------------------------------------------------------------------------------
(* Captures: the receipts of one activation, from arming to its checkpoint. *)
NoCapture == [state |-> "absent"]
Marks0 == [ok |-> TRUE, begin |-> 0, start |-> 0, caps |-> Unset, check |-> 0, digest |-> Unset]

\* ObserveActivationCapture: one receipt applied to the marks seen so far.
ObserveActivationCapture(t, m, e, seq) ==
    LET related == EventOf[e].run = t.run \/ EventOf[e].grant = t.grant
        same == EventOf[e].run = t.run /\ EventOf[e].grant = t.grant
        ours == m.begin # 0 /\ EventOf[e].caps = m.caps
        bad == [m EXCEPT !.ok = FALSE]
    IN CASE EventOf[e].type \in {"begin", "checkpoint"} /\ ~related -> m
         [] EventOf[e].type = "begin" ->
              IF same /\ m.begin = 0 /\ EventOf[e].hash = t.hash
              THEN [m EXCEPT !.begin = seq, !.caps = EventOf[e].caps] ELSE bad
         [] EventOf[e].type = "checkpoint" ->
              IF same /\ ours /\ m.check = 0
              THEN [m EXCEPT !.check = seq, !.digest = EventOf[e].hash] ELSE bad
         [] EventOf[e].type = "start" /\ ours /\ EventOf[e].run = t.run /\ EventOf[e].grant = "workload" ->
              [m EXCEPT !.start = seq]
         [] EventOf[e].type = "compensate" /\ ours /\ EventOf[e].run = t.run /\ EventOf[e].grant # "state" /\ m.start # 0 -> bad
         [] EventOf[e].type = "stop" /\ ours /\ EventOf[e].run = t.run -> bad
         [] EventOf[e].type = "purge" /\ ours /\ EventOf[e].grant = "state" -> bad
         [] OTHER -> m
Observed(t, m, frames, from) ==
    FoldLeftDomain(LAMBDA a, n : IF a.ok THEN ObserveActivationCapture(t, a, frames[n], from + n) ELSE a,
                   m, frames)

Marks(c) == [Marks0 EXCEPT !.begin = c.begin, !.start = c.start, !.caps = c.caps]
FaultyFail(c, reason) == [c EXCEPT !.failure = reason]
failEvidenceCapture(c, reason) ==
    [c EXCEPT !.state = "failed", !.failure = reason, !.caps = Unset, !.begin = 0, !.start = 0]

\* evidenceCaptureMutationForReportLocked: what an applied report does to the
\* armed capture; a contradiction fails the capture and never the report.
captureForReport(c, action, r, now) ==
    LET t == IF now < c.armed THEN c.armed ELSE now
        m == Observed(evCase.target, Marks(c), r.frames, Len(r.base))
    IN IF c.final # r.base THEN failEvidenceCapture(c, "coordinate")
       ELSE IF action # "advance" THEN failEvidenceCapture(c, "finding")
       ELSE IF ~m.ok THEN failEvidenceCapture(c, "contradiction")
       ELSE IF Len(c.frames) + Len(r.frames) > MaxCaptureFrames THEN failEvidenceCapture(c, "overflow")
       ELSE [c EXCEPT !.frames = @ \o r.frames, !.final = r.head,
                      !.begin = m.begin, !.start = m.start, !.caps = m.caps,
                      !.state = IF m.check # 0 THEN "observed" ELSE @,
                      !.digest = m.digest,
                      !.observed = IF m.check # 0 THEN t ELSE @]

expireEvidenceCaptures(cs, now) ==
    [id \in DOMAIN cs |->
        IF cs[id].state = "armed" /\ cs[id].expires <= now
        THEN [cs[id] EXCEPT !.state = "expired", !.begin = 0, !.start = 0, !.caps = Unset]
        ELSE cs[id]]

ArmEvidenceCapture(id) ==
    /\ \E cs \in {expireEvidenceCaptures(evCaptures, evNow)} :
          /\ cs[id] = NoCapture
          /\ \A other \in DOMAIN cs : cs[other].state # "armed"
          /\ evWitness.finding = NoFinding
          /\ evCaptures' = [cs EXCEPT ![id] =
                [state |-> "armed", base |-> evWitness.head, final |-> evWitness.head,
                 frames |-> <<>>, begin |-> 0, start |-> 0, caps |-> Unset, digest |-> Unset,
                 armed |-> evNow, expires |-> evNow + CaptureTTL, observed |-> 0, failure |-> Unset]]
    /\ UNCHANGED <<evCase, logVars, evNow, pubVars, evWitness, evGates, evHandling>>

\* The canary command that ran this activation ended with the digest observed.
SealEvidenceCapture(id) ==
    /\ \E cs \in {expireEvidenceCaptures(evCaptures, evNow)} :
          /\ cs[id].state = "observed"
          /\ evNow >= cs[id].observed
          /\ evCaptures' = [cs EXCEPT ![id].state = "sealed"]
    /\ UNCHANGED <<evCase, logVars, evNow, pubVars, evWitness, evGates, evHandling>>

DeleteEvidenceCapture(id) ==
    /\ \E cs \in {expireEvidenceCaptures(evCaptures, evNow)} :
          cs[id] # NoCapture /\ evCaptures' = [cs EXCEPT ![id] = NoCapture]
    /\ UNCHANGED <<evCase, logVars, evNow, pubVars, evWitness, evGates, evHandling>>
GetEvidenceCapture ==
    /\ evCaptures # expireEvidenceCaptures(evCaptures, evNow)
    /\ evCaptures' = expireEvidenceCaptures(evCaptures, evNow)
    /\ UNCHANGED <<evCase, logVars, evNow, pubVars, evWitness, evGates, evHandling>>

-------------------------------------------------------------------------------
(* Applying a report. *)
exactRetry(w, r) == w.head # <<>> /\ r.head = w.head /\ Len(r.base) + 1 = w.start

\* A batch from an older base that ends at the witnessed sequence on another chain.
verifiedExecutorEvidenceFork(w, r) ==
    w.finding = NoFinding /\ r.frames # <<>> /\ Len(r.head) = Len(w.head) /\ r.head # w.head

\* verifyExecutorEvidenceReport against the copied witness, outside the lock.
verify(w, r) ==
    LET clear == w.finding = NoFinding
        batch == r.frames # <<>>
    IN IF r.base # w.head
       THEN IF batch /\ exactRetry(w, r) THEN "noop"
            ELSE IF verifiedExecutorEvidenceFork(w, r) THEN "fork"
            ELSE "conflict"
       ELSE IF r.head = w.head THEN "noop"
       ELSE IF batch THEN IF clear THEN "advance" ELSE "blocked"
       ELSE IF ~clear THEN "noop"
       ELSE IF Len(r.head) < Len(w.head) THEN "rollback" ELSE "fork"

Checkpoint(w) == [w EXCEPT !.finding = NoFinding]
Found(w, reason, compared, observed, at) ==
    IF w.finding # NoFinding THEN w
    ELSE [w EXCEPT !.finding = [reason |-> reason, compared |-> compared, observed |-> observed, at |-> at]]

\* historicalExecutorEvidenceFinding: a divergence proven against the copied
\* checkpoint still stands when another report advanced the witness meanwhile.
\* The set holds the head it is recorded against, or nothing.
Historical(w, h, v) ==
    IF v \notin {"rollback", "fork"} \/ Checkpoint(w) = Checkpoint(h.snap) THEN {}
    ELSE IF v = "rollback" \/ Len(h.rep.head) = Len(h.snap.head) THEN {h.snap.head}
    ELSE IF Len(h.rep.head) = Len(w.head) /\ h.rep.head # w.head THEN {w.head}
    ELSE {}
HistoricalAt(w, h, head) == IF head = w.head /\ h.now < w.at THEN w.at ELSE h.now

\* ApplyExecutorEvidenceReport under the lock: the witness it leaves, whether
\* the caller gets an answer, and what the captures see of it.
Unapplied(ok, w) == [ok |-> ok, w |-> w, action |-> "none"]
Mutated(w, action) == [ok |-> TRUE, w |-> w, action |-> action]
Applied(w, h, v, historical) ==
    LET r == h.rep
        moved == w # h.snap
        early == h.now < w.at \/ (w.finding # NoFinding /\ h.now < w.finding.at)
        late == /\ v = "advance" /\ w.finding = NoFinding
                /\ w.start = Len(r.base) + 1
                /\ Len(w.head) = Len(r.head) /\ w.head # r.head
    IN IF v = "conflict" \/ (early /\ historical = {}) THEN Unapplied(FALSE, w)
       ELSE IF ~moved
       THEN CASE v = "noop" -> Unapplied(TRUE, w)
              [] v = "blocked" -> Unapplied(FALSE, w)
              [] v = "advance" ->
                   Mutated([w EXCEPT !.head = r.head, !.start = Len(r.base) + 1, !.at = h.now], v)
              [] OTHER -> Mutated(Found(w, v, w.head, r.head, h.now), v)
       ELSE IF v = "advance" /\ exactRetry(w, r) THEN Unapplied(TRUE, w)
       ELSE IF historical # {}
       THEN IF w.finding # NoFinding THEN Unapplied(TRUE, w)
            ELSE LET head == CHOOSE c \in historical : TRUE
                 IN Mutated(Found(w, v, head, r.head, HistoricalAt(w, h, head)), v)
       ELSE IF /\ v \in {"rollback", "fork", "noop"}
               /\ Checkpoint(w) = Checkpoint(h.snap) /\ w.finding # NoFinding
       THEN Unapplied(TRUE, w)
       ELSE IF late THEN Mutated(Found(w, "fork", w.head, r.head, h.now), v)
       ELSE Unapplied(FALSE, w)

\* applyExecutorEvidenceMutationsLocked: witness and capture in one transaction;
\* when it exceeds the store's capacity the capture shrinks to its failure, is
\* dropped with the witness's transaction, or is dropped first and the witness
\* still refused.
Shrunk(c) == [failEvidenceCapture(c, "capacity") EXCEPT !.frames = <<>>, !.final = c.base]
Store(cs, armed, res, h) ==
    LET into(f(_)) == [id \in DOMAIN cs |-> IF id \in armed THEN f(cs[id]) ELSE cs[id]]
    IN \/ /\ evCaptures' = into(LAMBDA c : captureForReport(c, res.action, h.rep, h.now))
          /\ evWitness' = res.w
          /\ UNCHANGED evFaults
       \/ /\ armed # {} /\ EvFault("capacity")
          /\ \/ evCaptures' = into(Shrunk) /\ evWitness' = res.w
             \/ evCaptures' = into(LAMBDA c : NoCapture) /\ evWitness' \in {res.w, evWitness}

Finished(g, r, ok) ==
    [g EXCEPT !.active = FALSE,
              !.completed = IF g.pending # 0 THEN @
                            ELSE Append(@, [chal |-> r.chal, rep |-> r, exp |-> r.exp, ok |-> ok])]

ReportApplied(cred) ==
    \E h \in {evHandling[cred]} :
      /\ h.rep # NoReport
      /\ \E v \in {verify(h.snap, h.rep)} :
         \E res \in {Applied(evWitness, h, v, Historical(evWitness, h, v))},
            cs \in {IF v = "conflict" THEN evCaptures ELSE expireEvidenceCaptures(evCaptures, h.now)} :
            /\ IF res.action = "none"
               THEN evCaptures' = cs /\ UNCHANGED <<evWitness, evFaults>>
               ELSE Store(cs, {id \in DOMAIN cs : cs[id].state = "armed"}, res, h)
            /\ \E ok \in {res.ok /\ (res.action = "none" \/ evWitness' = res.w)} :
                  /\ evGates' = [evGates EXCEPT ![cred] = Finished(@, h.rep, ok)]
                  /\ IF ok THEN Answered(h.rep, res.w) ELSE UNCHANGED evPub
      /\ evHandling' = [evHandling EXCEPT ![cred] = [rep |-> NoReport]]
      /\ UNCHANGED <<evCase, evFile, evLog, evNow, evReports>>

\* Control restarts: gates and reports being verified are in memory only.
ControlRestart ==
    /\ EvFault("control")
    /\ evGates' = [c \in evCase.creds |-> Gate0]
    /\ evHandling' = [c \in evCase.creds |-> [rep |-> NoReport]]
    /\ UNCHANGED <<evCase, evFile, evLog, evNow, pubVars, evWitness, evCaptures>>

\* The executor's process starts again: the log is opened, and the publisher
\* polls even if it had halted.
Start ==
    /\ EvOpen
    /\ evPub' = NoExchange
    /\ UNCHANGED <<evCase, evNow, evReports, ctlVars>>

Tick ==
    /\ evNow < evCase.now
    /\ evNow' = evNow + 1
    /\ UNCHANGED <<evCase, logVars, pubVars, ctlVars>>

EvInit(cases) ==
    /\ evCase \in cases
    /\ LogInit
    /\ evNow = 1
    /\ evPub = NoExchange
    /\ evReports = {}
    /\ evWitness = Witness0
    /\ evGates = [c \in evCase.creds |-> Gate0]
    /\ evHandling = [c \in evCase.creds |-> [rep |-> NoReport]]
    /\ evCaptures = [id \in evCase.captures |-> NoCapture]

\* The log's steps, with Control and the publisher standing still.
OnlyLog == UNCHANGED <<evCase, evNow, pubVars, ctlVars>>
NodeAppends(e) == AppendEvent(e) /\ OnlyLog
NodeNotices == NoticeChange /\ OnlyLog
Down == evPub' = [NoExchange EXCEPT !.pc = "down"] /\ UNCHANGED <<evCase, evNow, evReports, ctlVars>>
NodeKilled == EvKill /\ Down
NodeLosesPower == EvPowerLoss /\ Down
NodeRestored == RestoreFile /\ OnlyLog

EvNext ==
    \/ \E e \in Inputs : NodeAppends(e)
    \/ NodeNotices \/ NodeKilled \/ NodeLosesPower \/ NodeRestored \/ Start
    \/ Publish \/ GiveUp \/ ControlRestart \/ Tick \/ GetEvidenceCapture
    \/ \E c \in evCase.creds : PollExecutorEvidence(c) \/ ReportApplied(c)
    \/ \E r \in evReports : ReportArrives(r)
    \/ \E id \in evCase.captures :
          ArmEvidenceCapture(id) \/ SealEvidenceCapture(id) \/ DeleteEvidenceCapture(id)

-------------------------------------------------------------------------------
(* Properties. *)
\* Nothing but an older file put back makes Control record a divergence, whatever
\* kills, failed writes, lost answers, duplicates and races of two credentials'
\* reports happen; what it records names a checkpoint on the way to the retained
\* head and a signed head that leaves it (validateEvidenceFinding).
DivergenceIsReal ==
    /\ "restore" \notin evCase.kinds =>
          evWitness.finding = NoFinding /\ IsPrefix(evWitness.head, evFile.frames)
    /\ evWitness.finding # NoFinding =>
          /\ IsPrefix(evWitness.finding.compared, evWitness.head)
          /\ ~IsPrefix(evWitness.finding.compared, evWitness.finding.observed)

\* Invalidating receipts after a runtime's begin, as offline verification counts
\* them: a stop, a compensation after a start, a purge of its state.
Spoils(frames, i, n) ==
    LET b == frames[i]
        e == frames[n]
    IN EventOf[e].caps = EventOf[b].caps /\
        \/ EventOf[e].type = "stop" /\ EventOf[e].run = EventOf[b].run
        \/ EventOf[e].type = "purge"
        \/ /\ EventOf[e].type = "compensate" /\ EventOf[e].run = EventOf[b].run
           /\ \E s \in (i + 1)..(n - 1) : EventOf[frames[s]].type = "start" /\ EventOf[frames[s]].run = EventOf[b].run
Clean(frames, i, j) == \A n \in (i + 1)..(j - 1) : ~Spoils(frames, i, n)
\* An armed capture stands exactly at the witnessed head, so no report slips past
\* it; one that ended observed or sealed holds every receipt from its baseline to
\* its final head, with the activation's begin and checkpoint and nothing that
\* spoils it between them, inside its armed interval (validateEvidenceCapture,
\* validateRecoveredEvidenceCaptures).
CaptureIsComplete ==
    \A id \in DOMAIN evCaptures : evCaptures[id] # NoCapture =>
        LET c == evCaptures[id]
        IN /\ c.final = c.base \o c.frames
           /\ c.state = "armed" /\ evWitness.finding = NoFinding => c.final = evWitness.head
           /\ c.state \in {"observed", "sealed"} =>
                /\ IsPrefix(c.final, evWitness.head)
                /\ c.observed >= c.armed /\ c.observed <= c.expires
                /\ \E i, j \in (Len(c.base) + 1)..Len(c.final) :
                      /\ i = c.begin /\ i < j
                      /\ EventOf[c.final[i]].type = "begin" /\ EventOf[c.final[i]].grant = evCase.target.grant
                      /\ EventOf[c.final[j]].type = "checkpoint" /\ EventOf[c.final[j]].hash = c.digest
                      /\ Clean(c.final, i, j)

===============================================================================
