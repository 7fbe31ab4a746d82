--------------------------- MODULE GatewayRoutes ---------------------------
(***************************************************************************)
(* The routes Gateway proxies for the agents of a node: the operator's     *)
(* configuration and credential files (internal/gateway/config.go), their  *)
(* replacement while Gateway runs (Server.Reload), the policy a retained   *)
(* grant pins (policy.go), and the egress and inference requests that use  *)
(* a route while grants are revoked under them (egress.go, server.go).     *)
(*                                                                         *)
(* A route is the digest of everything its policy statement lists, a       *)
(* concurrency limit and the contents of its credential file.  A host is   *)
(* the sequence of its labels.                                             *)
(***************************************************************************)
EXTENDS Integers, Sequences, FiniteSets, SequencesExt

CONSTANTS
    RouteGrants,   \* grant identifiers
    Granted,       \* [RouteGrants -> what Executor registers under the identifier]
    EgressCalls,   \* requests an agent can have in flight
    RouteConfigs,  \* the configurations an operator writes, by name
    KeyFiles,      \* the contents of the credential files, by name
    RtCases,       \* the starting points, by name
    MostConcurrent, GrantDenials, TenantDenials, HostDenials, Minute  \* limits of the code, scaled down

ASSUME RouteLimits ==
    /\ {MostConcurrent, GrantDenials, TenantDenials, HostDenials, Minute} \subseteq Nat \ {0}
    /\ \A g \in RouteGrants : Granted[g].inference \cup Granted[g].connectors \subseteq STRING

VARIABLES
    disk,          \* the names of the configuration and of the credential files' contents
    loading,       \* what LoadConfig read for a SIGHUP not yet applied
    live,          \* which of them Server.routes, egressRoutes, connectors and
                   \* serviceOperations were loaded from; <<>> while down
    slots,         \* Server.semaphores: their capacity and which channel they are
    rtGrants,      \* Server.grants with policyDigests and credentialDigests
    grantFile,     \* the retained grants of the state file
    revoked,       \* leases of the grant that were cancelled
    calls,         \* the requests in flight
    windows,       \* egressDeniedAttempts, egressTenantDenials, egressHostDenials
    rtClock,
    denied,        \* denial records written, by tenant
    pinned,        \* what each grant was registered against
    rtLeft,        \* what may still go wrong or change
    rtCase         \* the name of the starting point

grantState == <<rtGrants, grantFile, revoked, pinned>>
policyState == <<disk, loading, live, slots>>
denialState == <<windows, rtClock, denied>>
rtVars == <<policyState, grantState, calls, denialState, rtLeft, rtCase>>

Up == live # <<>>
Setting == RtCases[rtCase]
Tenants == {Granted[g].tenant : g \in RouteGrants}

Spent(kind) == rtLeft[kind] > 0 /\ rtLeft' = [rtLeft EXCEPT ![kind] = @ - 1]

(***************************************************************************)
(* Configuration                                                           *)
(***************************************************************************)
DistinctIds(entries) == \A i, j \in DOMAIN entries : entries[i].id = entries[j].id => i = j

(* A credential file is used by one route or connector and is none of      *)
(* Gateway's own files.                                                    *)
reservedCredentialPath(c, file) == file \in c.own

OwnCredential(c, entries, others, i) ==
    /\ ~reservedCredentialPath(c, entries[i].file)
    /\ \A j \in DOMAIN entries \ {i} : entries[j].file # entries[i].file
    /\ \A j \in DOMAIN others : others[j].file # entries[i].file

readCredential(files, file) == IF file \in DOMAIN files THEN files[file] ELSE ""

ValidEntry(e) == e.cap \in 1..MostConcurrent

loadedById(entries, Load(_)) ==
    [id \in {entries[i].id : i \in DOMAIN entries} |->
        Load(entries[CHOOSE i \in DOMAIN entries : entries[i].id = id])]

(* An inference route may go without a credential.                         *)
validateAndLoadRoutes(c, files) ==
    LET Entry(e) == [policy |-> e.policy, cap |-> e.cap, credential |-> readCredential(files, e.file)]
    IN  IF /\ DistinctIds(c.routes)
           /\ \A i \in DOMAIN c.routes :
                /\ ValidEntry(c.routes[i])
                /\ c.routes[i].file # "" => /\ OwnCredential(c, c.routes, c.connectors, i)
                                            /\ readCredential(files, c.routes[i].file) # ""
        THEN {loadedById(c.routes, Entry)} ELSE {}

validateAndLoadConnectors(c, files) ==
    LET Entry(e) == [policy |-> e.policy, cap |-> e.cap, credential |-> readCredential(files, e.file)]
    IN  IF /\ DistinctIds(c.connectors)
           /\ \A i \in DOMAIN c.connectors :
                /\ ValidEntry(c.connectors[i])
                /\ OwnCredential(c, c.connectors, c.routes, i)
                /\ readCredential(files, c.connectors[i].file) # ""
        THEN {loadedById(c.connectors, Entry)} ELSE {}

(* Egress needs an audit file; a route has destinations, each a host       *)
(* pattern with its ports and address exceptions.                          *)
validateEgressRoutes(c) ==
    LET Entry(e) == [policy |-> e.destinations, cap |-> e.cap]
    IN  IF /\ c.egress # <<>> => c.audit
           /\ DistinctIds(c.egress)
           /\ \A i \in DOMAIN c.egress :
                /\ ValidEntry(c.egress[i])
                /\ c.egress[i].destinations # <<>>
                /\ \A d \in Range(c.egress[i].destinations) : d.ports # {}
        THEN {loadedById(c.egress, Entry)} ELSE {}

(* Operations of one service differ in their identifier and their path.    *)
validateServiceOperations(c) ==
    IF \A o, p \in c.operations : o.service = p.service /\ (o.id = p.id \/ o.path = p.path) => o = p
    THEN {c.operations} ELSE {}

(* Connectors and tasks are receipted against explicit tenant budgets.     *)
validateConnectorReceiptKey(c) ==
    (c.connectors # <<>> \/ c.operations # {}) => c.budgets # {}

LoadConfig(c, files) ==
    {[routes |-> r, egress |-> e, connectors |-> k, operations |-> o, budgets |-> c.budgets] :
        r \in validateAndLoadRoutes(c, files), e \in validateEgressRoutes(c), k \in validateAndLoadConnectors(c, files),
        o \in IF validateConnectorReceiptKey(c) /\ c.token # "" THEN validateServiceOperations(c) ELSE {}}

(* The pairs that load, with what they load as.                            *)
Disks == {<<c, f>> : c \in DOMAIN RouteConfigs, f \in DOMAIN KeyFiles}
Loads == {d \in Disks : LoadConfig(RouteConfigs[d[1]], KeyFiles[d[2]]) # {}}
Loaded == [d \in Loads |-> CHOOSE x \in LoadConfig(RouteConfigs[d[1]], KeyFiles[d[2]]) : TRUE]

(***************************************************************************)
(* What a grant pins                                                       *)
(***************************************************************************)
serviceOperations(loaded, g) == {o \in loaded.operations : o.service = Granted[g].service}

(* Everything but the contents of the credentials.                         *)
routePolicyStatement(g, loaded) ==
    [inference |-> [r \in Granted[g].inference |-> <<loaded.routes[r].policy, loaded.routes[r].cap>>],
     egress |-> [i \in DOMAIN Granted[g].egress |-> loaded.egress[Granted[g].egress[i]]],
     connectors |-> [k \in Granted[g].connectors |-> <<loaded.connectors[k].policy, loaded.connectors[k].cap>>],
     tasks |-> serviceOperations(loaded, g),
     budget |-> {b \in loaded.budgets : b[1] = Granted[g].tenant}]

routeCredentialBinding(g, loaded) ==
    [inference |-> [r \in Granted[g].inference |-> loaded.routes[r].credential],
     connectors |-> [k \in Granted[g].connectors |-> loaded.connectors[k].credential]]

Binding(g, loaded) ==
    [policy |-> routePolicyStatement(g, loaded), credential |-> routeCredentialBinding(g, loaded)]

validGrant(g, loaded) ==
    /\ Granted[g].inference \subseteq DOMAIN loaded.routes
    /\ Range(Granted[g].egress) \subseteq DOMAIN loaded.egress
    /\ Granted[g].connectors \subseteq DOMAIN loaded.connectors
    /\ Granted[g].service # "" => serviceOperations(loaded, g) # {}

sameLoadedRoute(left, right) ==
    left.policy = right.policy /\ left.cap = right.cap /\ left.credential = right.credential

sameLoadedEgressRoute(left, right) == left.cap = right.cap /\ left.policy = right.policy

sameLoadedConnector(left, right) ==
    left.policy = right.policy /\ left.cap = right.cap /\ left.credential = right.credential

sameServiceOperations(g, next) == serviceOperations(Loaded[live], g) = serviceOperations(next, g)

Pins(g, next) ==
    /\ Granted[g].service # "" => sameServiceOperations(g, next)
    /\ validGrant(g, next)
    /\ \A r \in Granted[g].inference : sameLoadedRoute(Loaded[live].routes[r], next.routes[r])
    /\ \A e \in Range(Granted[g].egress) : sameLoadedEgressRoute(Loaded[live].egress[e], next.egress[e])
    /\ \A k \in Granted[g].connectors : sameLoadedConnector(Loaded[live].connectors[k], next.connectors[k])
    /\ Binding(g, next) = [policy |-> rtGrants[g].policy, credential |-> rtGrants[g].credential]

(***************************************************************************)
(* Concurrency slots                                                       *)
(***************************************************************************)
Holding(r) == calls[r].slot # <<>>
Users(slot) == {r \in EgressCalls : calls[r].slot = slot}

Limits(loaded) ==
    [k \in {<<"inference", r>> : r \in DOMAIN loaded.routes} \cup {<<"egress", e>> : e \in DOMAIN loaded.egress}
            \cup {<<"connector", c>> : c \in DOMAIN loaded.connectors} |->
        CASE k[1] = "inference" -> loaded.routes[k[2]].cap
          [] k[1] = "egress" -> loaded.egress[k[2]].cap
          [] OTHER -> loaded.connectors[k[2]].cap]

(* A channel is kept with its users while its capacity stays; channel      *)
(* numbers tell a new one from the one it replaces.                        *)
Kept(k, limits) == k \in DOMAIN slots /\ slots[k].cap = limits[k]
Channel(k, n) == <<k[1], k[2], n>>
NextChannel(k) ==
    LET used == {calls[r].slot[3] : r \in {q \in EgressCalls : Holding(q) /\ <<calls[q].slot[1], calls[q].slot[2]>> = k}}
                \cup (IF k \in DOMAIN slots THEN {slots[k].channel[3]} ELSE {})
    IN  Channel(k, CHOOSE n \in 0..Cardinality(used) : n \notin used)

FreshSlots(loaded) == [k \in DOMAIN Limits(loaded) |-> [cap |-> Limits(loaded)[k], channel |-> Channel(k, 0)]]

FaultyReplacedSlots(loaded) ==
    [k \in DOMAIN Limits(loaded) |-> [cap |-> Limits(loaded)[k], channel |-> NextChannel(k)]]

ReplacedSlots(loaded) ==
    [k \in DOMAIN Limits(loaded) |->
        IF Kept(k, Limits(loaded)) THEN slots[k] ELSE [cap |-> Limits(loaded)[k], channel |-> NextChannel(k)]]

BusySlot(loaded) ==
    \E k \in DOMAIN Limits(loaded) \cap DOMAIN slots : ~Kept(k, Limits(loaded)) /\ Users(slots[k].channel) # {}

(***************************************************************************)
(* Replacing the configuration                                             *)
(***************************************************************************)
OperatorEdits ==
    /\ Spent("edits")
    /\ disk' \in (Setting.configs \X Setting.files) \ {disk}
    /\ UNCHANGED <<loading, live, slots, grantState, calls, denialState, rtCase>>

Hangup ==
    /\ Up /\ loading = {}
    /\ disk \in Loads /\ disk # live
    /\ loading' = {disk}
    /\ UNCHANGED <<disk, live, slots, grantState, calls, denialState, rtLeft, rtCase>>

sameRuntimeConfig(next) == next.budgets = Loaded[live].budgets

ReloadRoutes ==
    /\ Up
    /\ \E d \in loading : \E next \in {Loaded[d]} :
        IF sameRuntimeConfig(next) /\ (\A g \in DOMAIN rtGrants : Pins(g, next)) /\ ~BusySlot(next)
        THEN live' = d /\ slots' = ReplacedSlots(next)
        ELSE UNCHANGED <<live, slots>>
    /\ loading' = {}
    /\ UNCHANGED <<disk, grantState, calls, denialState, rtLeft, rtCase>>

(***************************************************************************)
(* Grants.  The state file is replaced by a rename; a failure before it    *)
(* leaves the old file, one after it the new.                              *)
(***************************************************************************)
Retained(m) == [g \in DOMAIN m |-> [policy |-> m[g].policy, credential |-> m[g].credential]]
Without(f, g) == [h \in DOMAIN f \ {g} |-> f[h]]
With(f, g, v) == [h \in DOMAIN f \cup {g} |-> IF h = g THEN v ELSE f[h]]

persistLocked(m) == grantFile' = Retained(m) /\ UNCHANGED rtLeft
PersistFails(m) == Spent("faults") /\ grantFile' \in {grantFile, Retained(m)}

RollBack(m) ==
    \/ Spent("faults") /\ grantFile' = Retained(rtGrants)
    \/ /\ rtLeft.faults > 1
       /\ rtLeft' = [rtLeft EXCEPT !.faults = @ - 2]
       /\ grantFile' \in {grantFile, Retained(m), Retained(rtGrants)}

register(g) ==
    /\ Up /\ validGrant(g, Loaded[live])
    /\ g \in DOMAIN rtGrants =>
        /\ ~rtGrants[g].active
        /\ Binding(g, Loaded[live]) = [policy |-> rtGrants[g].policy, credential |-> rtGrants[g].credential]
    /\ \E m \in {With(rtGrants, g, [policy |-> routePolicyStatement(g, Loaded[live]), active |-> FALSE,
                                     credential |-> routeCredentialBinding(g, Loaded[live])])} :
        \/ /\ persistLocked(m)
           /\ rtGrants' = m
           /\ pinned' = IF g \in DOMAIN rtGrants THEN pinned ELSE With(pinned, g, live)
        \/ RollBack(m) /\ UNCHANGED <<rtGrants, pinned>>
    /\ UNCHANGED <<policyState, revoked, calls, denialState, rtCase>>

setActive(g, active) ==
    /\ Up /\ g \in DOMAIN rtGrants
    /\ ~active /\ rtGrants[g].active => revoked[g] < Setting.revokes
    /\ \/ /\ persistLocked(rtGrants)
          /\ rtGrants' = [rtGrants EXCEPT ![g].active = active]
          /\ revoked' = IF ~active /\ rtGrants[g].active THEN [revoked EXCEPT ![g] = @ + 1] ELSE revoked
       \/ PersistFails(rtGrants) /\ UNCHANGED <<rtGrants, revoked>>
    /\ UNCHANGED <<policyState, pinned, calls, denialState, rtCase>>

unregister(g) ==
    /\ Up /\ g \in DOMAIN rtGrants
    /\ revoked[g] < Setting.revokes
    /\ \/ /\ persistLocked(Without(rtGrants, g))
          /\ rtGrants' = Without(rtGrants, g)
          /\ pinned' = Without(pinned, g)
          /\ revoked' = [revoked EXCEPT ![g] = @ + 1]
          /\ windows' = [windows EXCEPT !.grant = Without(@, g)]
       \/ PersistFails(Without(rtGrants, g)) /\ UNCHANGED <<rtGrants, pinned, revoked, windows>>
    /\ UNCHANGED <<policyState, calls, rtClock, denied, rtCase>>

(***************************************************************************)
(* Denials.  Capacity is reserved before the audit log is touched.         *)
(***************************************************************************)
NoWindow == [started |-> 0, count |-> 0]
At(f, x) == IF x \in DOMAIN f THEN f[x] ELSE NoWindow

Expired(w) == rtClock - w.started >= Minute

availableEgressDenialWindow(w) == IF w.started = 0 \/ Expired(w) THEN [started |-> rtClock, count |-> 0] ELSE w

pruneExpiredEgressTenantDenials == [t \in {u \in DOMAIN windows.tenant : ~Expired(windows.tenant[u])} |-> windows.tenant[t]]

Counted(w) == [w EXCEPT !.count = @ + 1]

(* A grant that was unregistered meanwhile leaves no trace; one out of     *)
(* capacity only the pruned windows.                                       *)
reserveEgressDeniedAttempt(g) ==
    LET tenant == Granted[g].tenant
        grantWindow == availableEgressDenialWindow(At(windows.grant, g))
        tenantWindow == availableEgressDenialWindow(At(pruneExpiredEgressTenantDenials, tenant))
        hostWindow == availableEgressDenialWindow(windows.host)
    IN  IF g \notin DOMAIN rtGrants
        THEN UNCHANGED <<windows, denied>>
        ELSE IF grantWindow.count < GrantDenials /\ tenantWindow.count < TenantDenials /\ hostWindow.count < HostDenials
        THEN /\ windows' = [grant |-> With(windows.grant, g, Counted(grantWindow)),
                            tenant |-> With(pruneExpiredEgressTenantDenials, tenant, Counted(tenantWindow)),
                            host |-> Counted(hostWindow)]
             /\ denied' = [denied EXCEPT ![tenant] = @ + 1]
        ELSE /\ windows' = [windows EXCEPT !.tenant = pruneExpiredEgressTenantDenials]
             /\ UNCHANGED denied

Tick ==
    /\ rtClock < Setting.until
    /\ rtClock' = rtClock + 1
    /\ UNCHANGED <<policyState, grantState, calls, windows, denied, rtLeft, rtCase>>

(***************************************************************************)
(* Requests                                                                *)
(***************************************************************************)
NoCall == [phase |-> "idle", grant |-> "", mode |-> "", route |-> <<>>, slot |-> <<>>, lease |-> 0,
          cancelled |-> FALSE, open |-> {}]

LeaseOver(r) == calls[r].lease < revoked[calls[r].grant]

Moves(r, phase) == calls' = [calls EXCEPT ![r].phase = phase]

(* The handler returns: its slot is released.                              *)
Returns(r) == calls' = [calls EXCEPT ![r] = NoCall]

(* "*" stands for one label or more.                                       *)
hostMatches(pattern, host) ==
    IF Head(pattern) # "*" THEN pattern = host
    ELSE Len(host) > Len(Tail(pattern)) /\ IsSuffix(Tail(pattern), host)

Serves(d, ask) == hostMatches(d.host, ask.host) /\ ask.port \in d.ports

(* The first destination, of the grant's routes in order, for the request. *)
selectEgressRoute(g, ask) ==
    LET routes == Granted[g].egress
        serving == {p \in UNION {{<<i, j>> : j \in DOMAIN Loaded[live].egress[routes[i]].policy} : i \in DOMAIN routes} :
                        Serves(Loaded[live].egress[routes[p[1]]].policy[p[2]], ask)}
    IN  {p \in serving : \A q \in serving : p[1] < q[1] \/ (p[1] = q[1] /\ p[2] <= q[2])}

proxyDestination(ask) == ask.host # <<>> /\ ask.port > 0

Full(k) == Cardinality(Users(slots[k].channel)) >= slots[k].cap

RefuseCall(r, g, mode) == calls' = [calls EXCEPT ![r] = [NoCall EXCEPT !.phase = "refused", !.grant = g, !.mode = mode, !.lease = revoked[g]]]

Take(r, g, mode, k, route, phase) ==
    calls' = [calls EXCEPT ![r] = [NoCall EXCEPT !.phase = phase, !.grant = g, !.mode = mode, !.route = route,
                                                !.slot = slots[k].channel, !.lease = revoked[g]]]

egressHandler(r, g, ask) ==
    /\ Up /\ calls[r] = NoCall
    /\ g \in DOMAIN rtGrants /\ Granted[g].egress # <<>>
    /\ IF rtGrants[g].active /\ proxyDestination(ask) /\ selectEgressRoute(g, ask) # {}
       THEN \E p \in selectEgressRoute(g, ask) : \E e \in {Granted[g].egress[p[1]]} :
              IF Full(<<"egress", e>>)
              THEN RefuseCall(r, g, ask.mode)
              ELSE Take(r, g, ask.mode, <<"egress", e>>, [id |-> e, from |-> live, to |-> p[2]], "resolving")
       ELSE RefuseCall(r, g, ask.mode)
    /\ UNCHANGED <<policyState, grantState, denialState, rtLeft, rtCase>>

inferenceHandler(r, g) ==
    /\ Up /\ calls[r] = NoCall
    /\ g \in DOMAIN rtGrants /\ rtGrants[g].active
    /\ \E i \in Granted[g].inference :
        /\ ~Full(<<"inference", i>>)
        /\ Take(r, g, "inference", <<"inference", i>>, [id |-> i, from |-> live, to |-> 0], "dialing")
    /\ UNCHANGED <<policyState, grantState, denialState, rtLeft, rtCase>>

(* The lease's AfterFunc cancels the request's context in its own time.    *)
Revocation(r) ==
    /\ Holding(r) /\ LeaseOver(r) /\ ~calls[r].cancelled
    /\ calls' = [calls EXCEPT ![r].cancelled = TRUE]
    /\ UNCHANGED <<policyState, grantState, denialState, rtLeft, rtCase>>

rejectEgress(r) ==
    /\ calls[r].phase = "refused"
    /\ reserveEgressDeniedAttempt(calls[r].grant)
    /\ Returns(r)
    /\ UNCHANGED <<policyState, grantState, rtClock, rtLeft, rtCase>>

(* The addresses a name resolves to are the resolver's; a cancelled lookup *)
(* fails.  The first allowed address is the one dialled.                   *)
addressAllowed(address, exceptions) ==
    address # "never" /\ IF exceptions = {} THEN address = "public" ELSE address \in exceptions

resolveAllowedIP(addresses, exceptions) == \E a \in addresses : addressAllowed(a, exceptions)

ResolveHost(r) ==
    /\ calls[r].phase = "resolving"
    /\ \E addresses \in SUBSET {"public", "private", "never"} :
        IF ~calls[r].cancelled /\ resolveAllowedIP(addresses, Loaded[calls[r].route.from].egress[calls[r].route.id].policy[calls[r].route.to].exceptions)
        THEN Moves(r, IF calls[r].mode = "connect" THEN "hello" ELSE "allowed")
        ELSE Moves(r, "refused")
    /\ UNCHANGED <<policyState, grantState, denialState, rtLeft, rtCase>>

(* CONNECT proves its destination first: the TLS server name must be the   *)
(* host, within a deadline that cancellation cuts short.                   *)
tlsServerNameAllowed(r) ==
    /\ calls[r].phase = "hello"
    /\ \/ ~calls[r].cancelled /\ Moves(r, "allowed")
       \/ Moves(r, "refused")
    /\ UNCHANGED <<policyState, grantState, denialState, rtLeft, rtCase>>

(* No connection without its audit record.                                 *)
recordEgressAllow(r) ==
    /\ calls[r].phase = "allowed"
    /\ \/ Moves(r, "dialing") /\ UNCHANGED rtLeft
       \/ Spent("faults") /\ Returns(r)
    /\ UNCHANGED <<policyState, grantState, denialState, rtCase>>

(* A dial ends within its timeout, and at once when cancelled.             *)
Contacts(r, mode, then) ==
    /\ calls[r].phase = "dialing" /\ calls[r].mode = mode
    /\ (~calls[r].cancelled /\ then) \/ Returns(r)
    /\ UNCHANGED <<policyState, grantState, denialState, rtLeft, rtCase>>

proxyHTTP(r) == Contacts(r, "http", Moves(r, "relaying"))

proxyInference(r) == Contacts(r, "inference", Moves(r, "relaying"))

proxyConnect(r) ==
    Contacts(r, "connect", calls' = [calls EXCEPT ![r].phase = "tunnel", ![r].open = {"agent", "upstream"}])

(* A relayed response ends when the upstream ends it, or cancelled.        *)
ResponseEnds(r) ==
    /\ calls[r].phase = "relaying"
    /\ Returns(r)
    /\ UNCHANGED <<policyState, grantState, denialState, rtLeft, rtCase>>

(* One direction of a tunnel ends: its peer closed, or the connections     *)
(* were closed under it.                                                   *)
CopyEnds(r, side) ==
    /\ calls[r].phase \in {"tunnel", "closing"} /\ side \in calls[r].open
    /\ calls' = [calls EXCEPT ![r].open = @ \ {side}]
    /\ UNCHANGED <<policyState, grantState, denialState, rtLeft, rtCase>>

bridgeConnect(r) ==
    /\ \/ calls[r].phase = "tunnel" /\ Cardinality(calls[r].open) < 2 /\ Moves(r, "closing")
       \/ calls[r].phase = "closing" /\ calls[r].open = {} /\ Returns(r)
    /\ UNCHANGED <<policyState, grantState, denialState, rtLeft, rtCase>>

(***************************************************************************)
(* The process                                                             *)
(***************************************************************************)
Crash ==
    /\ Up /\ Spent("crashes")
    /\ live' = <<>> /\ slots' = <<>> /\ loading' = {}
    /\ rtGrants' = <<>>
    /\ calls' = [r \in EgressCalls |-> NoCall]
    /\ windows' = [grant |-> <<>>, tenant |-> <<>>, host |-> NoWindow]
    /\ UNCHANGED <<disk, grantFile, revoked, pinned, rtClock, denied, rtCase>>

(* The state file must have been written under the policy loaded now.      *)
loadExisting(loaded) ==
    \A g \in DOMAIN grantFile : validGrant(g, loaded) /\ Binding(g, loaded) = grantFile[g]

Open ==
    /\ ~Up
    /\ disk \in Loads /\ loadExisting(Loaded[disk])
    /\ live' = disk /\ slots' = FreshSlots(Loaded[disk])
    /\ pinned' = [g \in DOMAIN grantFile |-> IF g \in DOMAIN pinned THEN pinned[g] ELSE disk]
    /\ rtGrants' = [g \in DOMAIN grantFile |->
                       [policy |-> grantFile[g].policy, active |-> FALSE, credential |-> grantFile[g].credential]]
    /\ denied' = [t \in Tenants |-> 0]
    /\ UNCHANGED <<disk, loading, grantFile, revoked, calls, windows, rtClock, rtLeft, rtCase>>

RtInit ==
    /\ rtCase \in DOMAIN RtCases
    /\ disk = Setting.disk
    /\ loading = {}
    /\ live = <<>> /\ slots = <<>>
    /\ rtGrants = <<>> /\ grantFile = <<>> /\ pinned = <<>>
    /\ revoked = [g \in RouteGrants |-> 0]
    /\ calls = [r \in EgressCalls |-> NoCall]
    /\ windows = [grant |-> <<>>, tenant |-> <<>>, host |-> NoWindow]
    /\ rtClock = 1
    /\ denied = [t \in Tenants |-> 0]
    /\ rtLeft = Setting.left

(* Steps Gateway takes by itself for a request in flight.                  *)
Proceeds(r) ==
    \/ Revocation(r) \/ rejectEgress(r) \/ ResolveHost(r) \/ tlsServerNameAllowed(r)
    \/ recordEgressAllow(r) \/ proxyHTTP(r) \/ proxyInference(r) \/ proxyConnect(r) \/ bridgeConnect(r)
    \/ (calls[r].cancelled /\ ResponseEnds(r))
    \/ /\ calls[r].phase = "closing" \/ calls[r].cancelled
       /\ \E side \in {"agent", "upstream"} : CopyEnds(r, side)

(* Steps that wait for the agent, its destination or the deadline.         *)
PeerEnds(r) == ResponseEnds(r) \/ \E side \in {"agent", "upstream"} : CopyEnds(r, side)

RtNext ==
    \/ OperatorEdits \/ Hangup \/ ReloadRoutes \/ Crash \/ Open \/ Tick
    \/ \E g \in Setting.grants : register(g) \/ unregister(g) \/ \E a \in BOOLEAN : setActive(g, a)
    \/ \E r \in Setting.calls :
        \/ Proceeds(r) \/ PeerEnds(r)
        \/ \E g \in Setting.grants : inferenceHandler(r, g) \/ \E ask \in Setting.asks : egressHandler(r, g, ask)

RtSpec == RtInit /\ [][RtNext]_rtVars

(* However reloads, revocations and new grants interleave with requests in *)
(* flight, those whose lease holds never exceed their route's limit        *)
(* (ReloadRoutes keeps a channel with its users).                                *)
WithinRouteLimit ==
    Up => \A k \in DOMAIN slots :
        Cardinality({r \in EgressCalls :
            Holding(r) /\ ~LeaseOver(r) /\ <<calls[r].slot[1], calls[r].slot[2]>> = k}) <= Limits(Loaded[live])[k]

=============================================================================
