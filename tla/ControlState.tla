----------------------------- MODULE ControlState -----------------------------
(***************************************************************************)
(* Control's state as its log sees it (controlstore/model.go): what a      *)
(* transaction does to the collections, what a state must satisfy before   *)
(* it is committed, and how the written and read formats relate.           *)
(*                                                                         *)
(* A state is a function from references <<kind, id>> to records.  A       *)
(* record keeps what these rules look at: the tenants and the node it      *)
(* names, the workroom project it belongs to, whether it is live (active,  *)
(* or not revoked), which later-added fields it fills, and its content     *)
(* (of an event, when it was received).                                    *)
(***************************************************************************)
EXTENDS Integers, FiniteSets, Sequences, SequencesExt, TLC

CONSTANTS
    None,
    Limit,        \* the bound on each collection
    PerTenant     \* the bound on each collection's share of one tenant

\* The format version that introduced each collection, and each later field of
\* an older one.  The written version is 23.
WriteVersion == 23
Since ==
    [tenant |-> 1, node |-> 1, credential |-> 1, enrollment |-> 1, command |-> 1,
     capture |-> 4, deployment |-> 5, freeze |-> 11, quarantine |-> 14, event |-> 16,
     pool |-> 17, projection |-> 18, task |-> 19, project |-> 21,
     interaction |-> 22, schedule |-> 23]
FieldSince ==
    [evidence |-> 2, executorV4 |-> 3, lease |-> 6, scheduling |-> 7, placement |-> 8,
     fleet |-> 9, rollout |-> 10, quota |-> 12, fork |-> 13, rolloutControl |-> 15,
     membership |-> 20]
Kinds == DOMAIN Since

emptyState == <<>>

Of(st, kind) == {r \in DOMAIN st : r[1] = kind}
Live(st, ref) == ref \in DOMAIN st /\ st[ref].live
Put(st, ref, rec) == (ref :> rec) @@ st
Drop(st, refs) == [r \in DOMAIN st \ refs |-> st[r]]

-----------------------------------------------------------------------------
\* Transactions: what each kind of mutation does.  An outcome carries ok and
\* the state; a mutation that the version, or the state, does not allow fails
\* the whole transaction.

Fail(st) == [ok |-> FALSE, st |-> st]
Done(st) == [ok |-> TRUE, st |-> st]

\* No mutation uses a collection or a field of a later format than its own.
Readable(v, kind, rec) ==
    v >= Since[kind] /\ \A f \in rec.fields : v >= FieldSince[f]

\* tenant, freeze, quarantine, node, credential, enrollment and command.
UpsertIdentity(st, v, m) ==
    IF Readable(v, m.ref[1], m.rec) THEN Done(Put(st, m.ref, m.rec)) ELSE Fail(st)

\* An enrollment or a command is deleted only if it is there.
DeleteIdentity(st, v, m) ==
    IF m.ref \in DOMAIN st THEN Done(Drop(st, {m.ref})) ELSE Fail(st)

\* Revoking a node revokes its credentials and its enrollments with it.
RevokeNode(st, v, m) ==
    IF m.ref \notin DOMAIN st THEN Fail(st)
    ELSE Done([r \in DOMAIN st |->
            IF r = m.ref \/ (r[1] \in {"credential", "enrollment"} /\ st[r].node = m.ref[2])
            THEN [st[r] EXCEPT !.live = FALSE] ELSE st[r]])

\* A capture or a deployment.  A deployment written before disruption budgets
\* existed gets the budget of one.
UpsertWork(st, v, m) ==
    IF ~Readable(v, m.ref[1], m.rec) THEN Fail(st)
    ELSE Done(Put(st, m.ref,
            IF m.ref[1] = "deployment" /\ v < FieldSince.fleet
            THEN [m.rec EXCEPT !.fields = @ \cup {"fleet"}] ELSE m.rec))

\* The projections observed longest ago make room: first the tenant's own, then
\* anyone's.
Trim(st, refs, bound) ==
    IF Cardinality(refs) <= bound THEN st
    ELSE Drop(st, {CHOOSE r \in refs : \A q \in refs : st[r].data.at <= st[q].data.at})
taskProjectionEvictions(st, tenants) ==
    LET fair == Trim(st, {r \in Of(st, "projection") : st[r].tenants = tenants},
                     PerTenant.projection)
    IN  Trim(fair, Of(fair, "projection"), Limit.projection)

\* The projection of a task keeps the events it has seen, also those deleted
\* since, and when the last one was received.
observeTaskProjection(st, ref, rec) ==
    LET p == <<"projection", rec.task>>
        seen == IF p \in DOMAIN st THEN st[p].data.seen ELSE {}
    IN  IF rec.task = None THEN st
        ELSE taskProjectionEvictions(
                Put(st, p, [rec EXCEPT !.data = [seen |-> seen \cup {ref[2]}, at |-> rec.data]]),
                rec.tenants)

\* An event that is retained already is not observed again; another event
\* under its name is a conflict.
RetainEvent(st, v, m) ==
    CASE ~Readable(v, "event", m.rec) -> Fail(st)
      [] m.ref \in DOMAIN st -> IF st[m.ref] = m.rec THEN Done(st) ELSE Fail(st)
      [] OTHER -> Done(observeTaskProjection(Put(st, m.ref, m.rec), m.ref, m.rec))

DeleteEvent(st, v, m) ==
    IF v >= Since.event /\ m.ref \in DOMAIN st THEN Done(Drop(st, {m.ref})) ELSE Fail(st)

\* A node pool, task request, workroom project, interaction or schedule.  A
\* pool written before memberships existed gets their first generation.
UpsertCourier(st, v, m) ==
    IF ~Readable(v, m.ref[1], m.rec) THEN Fail(st)
    ELSE Done(Put(st, m.ref,
            IF m.ref[1] = "pool" /\ v < FieldSince.membership
            THEN [m.rec EXCEPT !.fields = @ \cup {"membership"}] ELSE m.rec))

DeleteCourier(st, v, m) ==
    IF v >= Since[m.ref[1]] /\ m.ref \in DOMAIN st THEN Done(Drop(st, {m.ref})) ELSE Fail(st)

IdentityKinds == {"tenant", "freeze", "quarantine", "node", "credential", "enrollment", "command"}
WorkKinds == {"capture", "deployment"}

ApplyMutation(st, v, m) ==
    LET kind == m.ref[1] IN
    CASE m.op = "revoke" -> RevokeNode(st, v, m)
      [] m.op = "upsert" /\ kind \in IdentityKinds -> UpsertIdentity(st, v, m)
      [] m.op = "upsert" /\ kind \in WorkKinds -> UpsertWork(st, v, m)
      [] m.op = "upsert" /\ kind = "event" -> RetainEvent(st, v, m)
      [] m.op = "upsert" -> UpsertCourier(st, v, m)
      [] kind \in IdentityKinds -> DeleteIdentity(st, v, m)
      [] kind = "event" -> DeleteEvent(st, v, m)
      [] OTHER -> DeleteCourier(st, v, m)

\* The mutations of a transaction apply in order, all or none.
applyTransaction(st, v, mutations) ==
    LET Step(acc, m) == IF acc.ok THEN ApplyMutation(acc.st, v, m) ELSE acc
        result == FoldLeft(Step, Done(st), mutations)
    IN  IF result.ok THEN result ELSE Fail(st)

-----------------------------------------------------------------------------
\* validateState: what every committed state satisfies.

Member(st, rec) ==
    LET node == <<"node", rec.node>> IN
    node \in DOMAIN st /\ rec.tenants \subseteq st[node].tenants
Known(st, rec) == \A t \in rec.tenants : <<"tenant", t>> \in DOMAIN st
AllLive(st, rec) == \A t \in rec.tenants : Live(st, <<"tenant", t>>)
InProject(st, rec) == rec.project # None => <<"project", rec.project>> \in DOMAIN st

WithinLimits(st) ==
    \A kind \in Kinds : Cardinality(Of(st, kind)) <= Limit[kind]
FairShare(st, kind) ==
    \A t \in Of(st, "tenant") :
        Cardinality({r \in Of(st, kind) : t[2] \in st[r].tenants}) <= PerTenant[kind]

PoolsValid(st) == \A r \in Of(st, "pool") : AllLive(st, st[r])
ProjectsValid(st) ==
    FairShare(st, "project") /\ \A r \in Of(st, "project") : AllLive(st, st[r])
InteractionsValid(st) ==
    /\ FairShare(st, "interaction")
    /\ \A r \in Of(st, "interaction") :
          AllLive(st, st[r]) /\ Member(st, st[r]) /\ InProject(st, st[r])
EventsValid(st) ==
    /\ FairShare(st, "event")
    /\ \A r \in Of(st, "event") : Known(st, st[r]) /\ Member(st, st[r])
ProjectionsValid(st) ==
    /\ FairShare(st, "projection")
    /\ \A r \in Of(st, "projection") : Known(st, st[r]) /\ Member(st, st[r])
TasksValid(st) ==
    /\ FairShare(st, "task")
    /\ \A r \in Of(st, "task") :
          AllLive(st, st[r]) /\ Member(st, st[r]) /\ InProject(st, st[r])
SchedulesValid(st) ==
    /\ FairShare(st, "schedule")
    /\ \A r \in Of(st, "schedule") :
          Known(st, st[r]) /\ Member(st, st[r]) /\ InProject(st, st[r])
FreezesValid(st) == \A r \in Of(st, "freeze") : Known(st, st[r])
QuarantinesValid(st) ==
    /\ FairShare(st, "quarantine")
    /\ \A r \in Of(st, "quarantine") : Known(st, st[r]) /\ Member(st, st[r])
NodesValid(st) ==
    FairShare(st, "node") /\ \A r \in Of(st, "node") : Known(st, st[r])
CredentialsValid(st) ==
    /\ FairShare(st, "credential")
    /\ \A r \in Of(st, "credential") :
          IF st[r].node = None THEN Known(st, st[r]) ELSE Member(st, st[r])
EnrollmentsValid(st) ==
    FairShare(st, "enrollment") /\ \A r \in Of(st, "enrollment") : Member(st, st[r])
CommandsValid(st) ==
    FairShare(st, "command") /\ \A r \in Of(st, "command") : Member(st, st[r])
\* A node has at most one armed capture at a time.
CapturesValid(st) ==
    /\ \A r \in Of(st, "capture") : Member(st, st[r])
    /\ \A r, q \in Of(st, "capture") :
          st[r].live /\ st[q].live /\ st[r].node = st[q].node => r = q
DeploymentsValid(st) ==
    FairShare(st, "deployment") /\ \A r \in Of(st, "deployment") : AllLive(st, st[r])

validateState(st) ==
    /\ WithinLimits(st)
    /\ PoolsValid(st) /\ ProjectsValid(st) /\ InteractionsValid(st)
    /\ EventsValid(st) /\ ProjectionsValid(st) /\ TasksValid(st) /\ SchedulesValid(st)
    /\ FreezesValid(st) /\ QuarantinesValid(st) /\ NodesValid(st)
    /\ CredentialsValid(st) /\ EnrollmentsValid(st) /\ CommandsValid(st)
    /\ CapturesValid(st) /\ DeploymentsValid(st)

-----------------------------------------------------------------------------
\* Snapshots.

encodeState(st) == [version |-> WriteVersion, records |-> st]

\* A snapshot names no collection and fills no field of a later format.
SnapshotReadable(snap) ==
    \A r \in DOMAIN snap.records : Readable(snap.version, r[1], snap.records[r])

\* Defaults for what an older snapshot could not say.
Defaulted(v, ref, rec) ==
    CASE ref[1] = "deployment" /\ v < FieldSince.fleet ->
            [rec EXCEPT !.fields = @ \cup {"fleet"}]
      [] ref[1] = "pool" /\ v < FieldSince.membership ->
            [rec EXCEPT !.fields = @ \cup {"membership"}]
      [] OTHER -> rec

\* The projections of a snapshot written before they were kept are made anew
\* from the events it retains, in the order they were received.
rebuildTaskProjections(st) ==
    LET Step(acc, r) == observeTaskProjection(acc, r, st[r])
        Earlier(r, q) == st[r].data < st[q].data
    IN  FoldLeft(Step, st, SetToSortSeq(Of(st, "event"), Earlier))

decodeState(snap) ==
    LET st == [r \in DOMAIN snap.records |-> Defaulted(snap.version, r, snap.records[r])]
    IN  IF ~SnapshotReadable(snap) THEN Fail(emptyState)
        ELSE Done(IF snap.version < Since.projection THEN rebuildTaskProjections(st) ELSE st)
===============================================================================
