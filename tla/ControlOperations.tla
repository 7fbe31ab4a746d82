------------------------- MODULE ControlOperations -------------------------
(* What operators see of the site: the paged inventories of commands, agents and
   credentials, the incident timeline and the attention list
   (internal/controlstore/operations.go and incident_timeline.go, served by
   internal/controlplane/operations.go).  A client walks a list page by page while
   the records change under it.  Identifiers are numbers in the order of the
   strings; a sort key is the tuple of its parts. *)
EXTENDS Integers, Sequences, FiniteSets, FiniteSetsExt, SequencesExt

CONSTANTS
    OpCases,       \* scenarios: records, limits and what may change
    OpEnd,         \* the last instant of the clock
    OpStaleAfter,  \* NodeStaleAfter, EvidenceStaleAfter and CommandOverdueAfter
    OpWarning,     \* CapacityWarningPercent
    OpPage         \* the largest page a client asks for

VARIABLES
    opCase,   \* the scenario
    opNow,    \* Control's clock
    opDb,     \* the retained records
    opWalk,   \* the client's walk over one list
    opChanges \* record changes so far
opVars == <<opCase, opNow, opDb, opWalk, opChanges>>

\* CommandMetadata, AgentMetadata, CredentialMetadata and the node facts the views
\* are derived from; at is the time of the last transition, 0 for never.
Never == 0
NewCommand == [state |-> "absent", at |-> Never]
NewView == [seen |-> Never, reported |-> Never, finding |-> <<>>, found |-> Never, mode |-> "schedulable", moved |-> Never]
NoWalk == [list |-> "", scope |-> 0, after |-> <<0, 0, 0, 0, 0>>, got |-> <<>>, throughout |-> {}, started |-> FALSE, done |-> FALSE]

OpInit ==
    /\ opCase \in OpCases
    /\ opNow = 1
    /\ opDb = [cmd |-> [c \in opCase.cmds |-> NewCommand], node |-> [n \in opCase.nodes |-> NewView],
               cred |-> [k \in opCase.creds |-> Never], used |-> [r \in opCase.quota |-> 0]]
    /\ opWalk = NoWalk
    /\ opChanges = 0

Site == 0
SiteScope(scope) == scope = Site
InScope(scope, tenant) == SiteScope(scope) \/ tenant = scope
Commands(scope) == {c \in opCase.cmds : opDb.cmd[c].state # "absent" /\ InScope(scope, opCase.tenant[c])}
NodesOf(scope) == {n \in opCase.nodes : SiteScope(scope) \/ scope \in opCase.serves[n]}

KeyLess(a, b) == \E i \in 1..5 : a[i] < b[i] /\ \A j \in 1..(i - 1) : a[j] = b[j]
InOrder(keys) == SetToSortSeq(keys, KeyLess)
elapsedThreshold(since) == opNow >= since + OpStaleAfter

---------------------------------------------------------------------------
(* The lists, each as the sequence of sort keys in the order the code emits. *)

commandInventorySortKey(c) == <<opCase.tenant[c], opCase.host[c], c, 0, 0>>
ListCommandInventory(scope) == InOrder({commandInventorySortKey(c) : c \in Commands(scope)})

\* mergeAgentCommand: the status of the newest successful command, ties to the
\* greater command id; failed commands leave the observed status alone.
Newer(a, b) == opDb.cmd[a].at > opDb.cmd[b].at \/ (opDb.cmd[a].at = opDb.cmd[b].at /\ a > b)
mergeAgentCommand(cs) ==
    LET successful == {c \in cs : opDb.cmd[c].state = "done"}
    IN IF successful = {} THEN "unknown"
       ELSE opCase.reports[CHOOSE c \in successful : \A o \in successful \ {c} : Newer(c, o)]
agentInventorySortKey(c) == <<opCase.tenant[c], opCase.host[c], opCase.runtime[c], 0, 0>>
ListAgentInventory(scope) ==
    LET agents == {agentInventorySortKey(c) : c \in Commands(scope)}
        of(key) == {c \in Commands(scope) : agentInventorySortKey(c) = key}
    IN InOrder({key \in agents : mergeAgentCommand(of(key)) \in opCase.statuses})

\* Revoked credentials only, as an incident review filters them.
credentialVisibleInScope(k, scope) == SiteScope(scope) \/ scope \in opCase.holds[k]
ListCredentialInventory(scope) ==
    InOrder({<<k, 0, 0, 0, 0>> : k \in {k \in opCase.creds : opDb.cred[k] # Never /\ credentialVisibleInScope(k, scope)}})

\* incidentTimelineLocked: one event for each latest fact, newest first; the event
\* id, here source and content, breaks ties.
EventKey(at, source, id, what) == <<OpEnd + 1 - at, source, id, what, 0>>
incidentNodeEvents(n) ==
    LET v == opDb.node[n]
    IN (IF v.moved = Never THEN {} ELSE {EventKey(v.moved, 1, n, IF v.mode = "schedulable" THEN 1 ELSE 2)})
       \cup (IF v.found = Never THEN {} ELSE {EventKey(v.found, 2, n, Last(v.finding))})
incidentTimelineLocked(scope) ==
    UNION {incidentNodeEvents(n) : n \in NodesOf(scope)}
    \cup {EventKey(opDb.cred[k], 3, k, 0) : k \in {k \in opCase.creds : opDb.cred[k] # Never /\ credentialVisibleInScope(k, scope)}}
    \cup {EventKey(opDb.cmd[c].at, 4, c, 0) : c \in {c \in Commands(scope) : opDb.cmd[c].state \in {"failed", "unknown"}}}
ListIncidentTimeline(scope) == InOrder(incidentTimelineLocked(scope))

\* capacityAtOrAbove, with the rounding of its integer divisions.
capacityAtOrAbove(used, limit) ==
    limit > 0 /\ used >= (limit \div 100) * OpWarning + (((limit % 100) * OpWarning + 99) \div 100)

\* attentionSortKey: tenant, kind of resource, resource, command, reason.
CapacityKey(tenant, resource) == <<tenant, 0, resource, 0, 0>>
QuotaKey(tenant, resource) == <<tenant, 1, resource, 0, 0>>
NodeKey(tenant, n, reason) == <<tenant, 2, n, 0, reason>>
CommandKey(c) == <<opCase.tenant[c], 3, opCase.host[c], c, 0>>

\* addTenantQuotaAttention: the resources in the order memory_bytes (2),
\* cpu_millis (1), pids (3) and workloads (4), each at the warning share or over.
QuotaOrder == <<2, 1, 3, 4>>
addTenantQuotaAttention(tenant) ==
    LET noted == SelectSeq(QuotaOrder, LAMBDA r :
            r \in opCase.quota /\ (opDb.used[r] > opCase.ceiling \/ capacityAtOrAbove(opDb.used[r], opCase.ceiling)))
    IN IF opCase.quotaTenant = tenant THEN [i \in DOMAIN noted |-> QuotaKey(tenant, noted[i])] ELSE <<>>

\* capacityUsageLocked: commands (1), credentials (2) and nodes (4) of a scope.
Used(scope, resource) ==
    CASE resource = 1 -> Cardinality(Commands(scope))
      [] resource = 2 -> Cardinality({k \in opCase.creds : credentialVisibleInScope(k, scope)})
      [] resource = 4 -> Cardinality(NodesOf(scope))
CapacityLimit(scope, resource) == IF SiteScope(scope) THEN opCase.siteLimit[resource] ELSE opCase.tenantLimit[resource]
addCapacityAttention(scope) ==
    InOrder({CapacityKey(scope, r) : r \in {r \in {1, 2, 4} : capacityAtOrAbove(Used(scope, r), CapacityLimit(scope, r))}})

\* addNodeAttention: never seen or stale, unwitnessed or stale evidence, and the
\* distinct reasons of a retained finding (evidence rollback, equivocation).
addNodeAttention(tenant, n) ==
    LET v == opDb.node[n]
        silent == IF v.seen = Never THEN IF elapsedThreshold(1) THEN {4} ELSE {}
                  ELSE IF elapsedThreshold(v.seen) THEN {5} ELSE {}
        evidence == IF v.reported = Never THEN IF elapsedThreshold(1) THEN {3} ELSE {}
                    ELSE IF elapsedThreshold(v.reported) THEN {2} ELSE {}
    IN InOrder({NodeKey(tenant, n, r) : r \in silent \cup evidence \cup Range(v.finding)})

\* addCommandAttention: overdue, with an expired lease, failed or of unknown outcome.
Noted(c) ==
    LET cmd == opDb.cmd[c]
    IN \/ cmd.state \in {"pending", "leased"} /\ elapsedThreshold(cmd.at)
       \/ cmd.state \in {"failed", "unknown"}
addCommandAttention(tenant) ==
    InOrder({CommandKey(c) : c \in {c \in Commands(Site) : opCase.tenant[c] = tenant /\ Noted(c)}})

\* emitAttentionLocked: a tenant's quota, capacity, nodes and commands; for the
\* site its own capacity and then every tenant.
TenantAttention(tenant) ==
    addTenantQuotaAttention(tenant) \o addCapacityAttention(tenant)
    \o FlattenSeq([i \in DOMAIN SetToSortSeq(NodesOf(tenant), <) |->
                     addNodeAttention(tenant, SetToSortSeq(NodesOf(tenant), <)[i])])
    \o addCommandAttention(tenant)
emitAttentionLocked(scope) ==
    IF SiteScope(scope)
    THEN addCapacityAttention(Site) \o FlattenSeq([t \in 1..opCase.tenants |-> TenantAttention(t)])
    ELSE TenantAttention(scope)

Emitted(list, scope) ==
    CASE list = "commands" -> ListCommandInventory(scope)
      [] list = "agents" -> ListAgentInventory(scope)
      [] list = "credentials" -> ListCredentialInventory(scope)
      [] list = "timeline" -> ListIncidentTimeline(scope)
      [] list = "attention" -> emitAttentionLocked(scope)

---------------------------------------------------------------------------
(* A walk.  A page holds what follows the cursor in emission order; the next
   cursor is the key of its last entry, and is given only when more follows. *)

FaultyAfterCursor(key, after) == key[1] > after[1]
AfterCursor(key, after) == KeyLess(after, key)
Walk(list, scope) ==
    /\ ~opWalk.started
    /\ opWalk' = [NoWalk EXCEPT !.list = list, !.scope = scope, !.started = TRUE]
    /\ UNCHANGED <<opCase, opNow, opDb, opChanges>>
\* boundedOperationsPage halves the limit until the page fits the response.
Page(limit) ==
    /\ opWalk.started /\ ~opWalk.done
    /\ \E emitted \in {Emitted(opWalk.list, opWalk.scope)} :
       \E rest \in {SelectSeq(emitted, LAMBDA key : AfterCursor(key, opWalk.after))} :
       \E n \in {Min({limit, Len(rest)})} :
          opWalk' = [opWalk EXCEPT
             !.got = @ \o SubSeq(rest, 1, n),
             !.after = IF n > 0 THEN rest[n] ELSE @,
             !.throughout = IF opWalk.got = <<>> THEN Range(emitted) ELSE @ \cap Range(emitted),
             !.done = Len(rest) <= limit]
    /\ UNCHANGED <<opCase, opNow, opDb, opChanges>>

\* The records change between two pages: a command is submitted, leased and
\* settled; a node reports, moves or is found to have forked; a credential is
\* revoked; a tenant uses more or less of its quota.
OpChanged(db) ==
    /\ opChanges < opCase.changes
    /\ opChanges' = opChanges + 1
    /\ opDb' = db
    /\ UNCHANGED <<opCase, opNow, opWalk>>
CommandChanges(c) ==
    \E next \in {s \in {"pending", "leased", "done", "failed", "unknown"} :
          CASE opDb.cmd[c].state = "absent" -> s = "pending"
            [] opDb.cmd[c].state = "pending" -> s = "leased"
            [] opDb.cmd[c].state = "leased" -> s \in {"leased", "done", "failed", "unknown"}
            [] OTHER -> FALSE} :
        OpChanged([opDb EXCEPT !.cmd[c] = [state |-> next, at |-> opNow]])
NodeReportsIn(n) == opDb.node[n].seen < opNow /\ OpChanged([opDb EXCEPT !.node[n].seen = opNow, !.node[n].reported = opNow])
NodeMoves(n) ==
    OpChanged([opDb EXCEPT !.node[n].moved = opNow,
                         !.node[n].mode = IF @ = "schedulable" THEN "cordoned" ELSE "schedulable"])
\* A finding keeps its first reason and its last.
NodeForks(n, reason) ==
    OpChanged([opDb EXCEPT !.node[n].finding = IF @ = <<>> THEN <<reason>> ELSE <<Head(@), reason>>,
                         !.node[n].found = opNow])
CredentialRevoked(k) == opDb.cred[k] = Never /\ OpChanged([opDb EXCEPT !.cred[k] = opNow])
QuotaUse(r, n) == opDb.used[r] # n /\ OpChanged([opDb EXCEPT !.used[r] = n])
OpTick == opNow < OpEnd /\ opNow' = opNow + 1 /\ UNCHANGED <<opCase, opDb, opWalk, opChanges>>

OpNext ==
    \/ \E list \in opCase.lists, scope \in opCase.scopes : Walk(list, scope)
    \/ \E limit \in 1..OpPage : Page(limit)
    \/ \E c \in opCase.cmds : CommandChanges(c)
    \/ \E n \in opCase.nodes : NodeReportsIn(n) \/ NodeMoves(n) \/ \E r \in {1, 6} : NodeForks(n, r)
    \/ \E k \in opCase.creds : CredentialRevoked(k)
    \/ \E r \in opCase.quota, n \in 0..(opCase.ceiling + 1) : QuotaUse(r, n)
    \/ OpTick
OpSpec == OpInit /\ [][OpNext]_opVars

---------------------------------------------------------------------------
(* Properties. *)

\* A finished walk returned every entry that was there at each of its pages, and
\* none twice, whatever else was added, settled, revoked or moved between pages and
\* however the pages were shortened to fit: the cursors of the inventories and of
\* the timeline, and of the attention list its findings about nodes and commands.
Complete(keys) == opWalk.throughout \cap keys \subseteq Range(opWalk.got) /\ IsInjective(SelectSeq(opWalk.got, LAMBDA k : k \in keys))
Ordered == {k \in opWalk.throughout \cup Range(opWalk.got) : opWalk.list = "attention" => k[2] > 1}
WalkIsComplete == opWalk.done => Complete(Ordered)

===============================================================================
