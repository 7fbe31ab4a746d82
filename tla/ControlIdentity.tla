--------------------------- MODULE ControlIdentity ---------------------------
(* Who may act on Control: operator credentials, tenants, node enrollments and
   node credentials (internal/controlauth and the identity records of
   internal/controlstore).  A request is authenticated first and acts later, when
   its body has arrived; other requests run between the two.  Identifiers that the
   code derives with a keyed hash are the tuples of what is hashed. *)
EXTENDS Integers, FiniteSets, TLC

CONSTANTS
    IdCases,    \* scenarios: the names, lifetimes and keys that occur
    IdEnd,      \* the last instant of the clock
    IdPending   \* authenticated requests that wait for their body

VARIABLES
    idCase,     \* the scenario
    idNow,      \* the clock
    idDb,       \* the retained tenants, credentials, enrollments and nodes
    idReqs,     \* credentials of the requests that are authenticated and not yet run
    idHeld,     \* the credential each enrollment's answers named
    idLate      \* revoked credentials that changed the records
idVars == <<idCase, idNow, idDb, idReqs, idHeld, idLate>>

SiteAdmin == "site_admin"
TenantOperator == "tenant_operator"
BootstrapID == <<"operator", "bootstrap", SiteAdmin, "">>
OperatorID(req, role, tenant) == <<"operator", req, role, tenant>>
NodeCredID(enr, rid) == <<"node", enr, rid>>

\* Credential, Enrollment and Node records.
OperatorCred(role, tenant) ==
    [kind |-> "operator", role |-> role, tenant |-> tenant, node |-> "", tenants |-> {}, revoked |-> FALSE]
NodeCred(enr) ==
    [kind |-> "node", role |-> "", tenant |-> "", node |-> enr.node, tenants |-> enr.tenants, revoked |-> FALSE]
NewNode(tenants) == [tenants |-> tenants, active |-> TRUE, key |-> 0, seen |-> 0]

Creds == idDb.creds
IsSiteAdmin(c) == Creds[c].role = SiteAdmin
AuthorizedTenant(c, t) == Creds[c].role = SiteAdmin \/ Creds[c].tenant = t

\* revalidateOperatorLocked and revalidateNodeLocked: the detached identity against
\* the current records, under the lock of the operation.
FaultyRevalidateOperator(c) == c \in DOMAIN Creds /\ Creds[c].kind = "operator"
revalidateOperatorLocked(c) == c \in DOMAIN Creds /\ Creds[c].kind = "operator" /\ ~Creds[c].revoked
NodeServes(n, tenants) == n \in DOMAIN idDb.nodes /\ idDb.nodes[n].active /\ tenants \subseteq idDb.nodes[n].tenants
revalidateNodeLocked(c) ==
    /\ c \in DOMAIN Creds /\ Creds[c].kind = "node" /\ ~Creds[c].revoked
    /\ NodeServes(Creds[c].node, Creds[c].tenants)

AuthenticateOperator(c) ==
    /\ Creds[c].kind = "operator" /\ ~Creds[c].revoked
    /\ Cardinality(idReqs) < IdPending
    /\ idReqs' = idReqs \cup {c}
    /\ UNCHANGED <<idCase, idNow, idDb, idHeld, idLate>>
AuthenticateNode(c) ==
    /\ Creds[c].kind = "node" /\ ~Creds[c].revoked
    /\ NodeServes(Creds[c].node, Creds[c].tenants)
    /\ Cardinality(idReqs) < IdPending
    /\ idReqs' = idReqs \cup {c}
    /\ UNCHANGED <<idCase, idNow, idDb, idHeld, idLate>>

\* A request ends; what it changed is charged to its credential.
Runs(c, next) ==
    /\ idDb' = next
    /\ idReqs' = idReqs \ {c}
    /\ idLate' = IF next # idDb /\ Creds[c].revoked THEN idLate \cup {c} ELSE idLate
    /\ UNCHANGED <<idCase, idNow, idHeld>>

Bootstrapped == (BootstrapID :> OperatorCred(SiteAdmin, ""))
BootstrapSiteAdmin ==
    /\ idDb.tenants = {} /\ DOMAIN idDb.nodes = {} /\ DOMAIN idDb.enrolls = {} /\ DOMAIN Creds = {}
    /\ idDb' = [idDb EXCEPT !.creds = Bootstrapped]
    /\ UNCHANGED <<idCase, idNow, idReqs, idHeld, idLate>>

CreateTenant(c, t) ==
    /\ IsSiteAdmin(c) /\ revalidateOperatorLocked(c)
    /\ Runs(c, [idDb EXCEPT !.tenants = @ \cup {t}])

\* One request identity names one credential; an exact retry returns it.
IssueOperator(c, req, role, t) ==
    /\ IsSiteAdmin(c) /\ revalidateOperatorLocked(c)
    /\ (role = SiteAdmin) <=> (t = "")
    /\ \A id \in DOMAIN Creds : id[1] = "operator" => id[2] # req
    /\ role = TenantOperator => t \in idDb.tenants
    /\ Runs(c, [idDb EXCEPT !.creds = (OperatorID(req, role, t) :> OperatorCred(role, t)) @@ @])

Revoked(db, ids) == [db EXCEPT !.creds = [id \in DOMAIN @ |-> [@[id] EXCEPT !.revoked = @ \/ id \in ids]]]
LiveSiteAdmins == {id \in DOMAIN Creds : Creds[id].role = SiteAdmin /\ ~Creds[id].revoked}
revokeCredential(c, id) ==
    /\ IsSiteAdmin(c) /\ revalidateOperatorLocked(c)
    /\ id \in DOMAIN Creds /\ ~Creds[id].revoked
    /\ Creds[id].role = SiteAdmin => Cardinality(LiveSiteAdmins) > 1
    /\ Runs(c, Revoked(idDb, {id}))

\* RevokeNode disables the node, its credentials and its enrollments in one mutation.
applyNodeRevocation(db, n) ==
    [Revoked(db, {id \in DOMAIN db.creds : db.creds[id].node = n}) EXCEPT
        !.nodes[n].active = FALSE,
        !.enrolls = [e \in DOMAIN @ |-> [@[e] EXCEPT !.revoked = @ \/ e.node = n]]]
RevokeNode(c, n) ==
    /\ IsSiteAdmin(c) /\ revalidateOperatorLocked(c)
    /\ n \in DOMAIN idDb.nodes /\ idDb.nodes[n].active
    /\ Runs(c, applyNodeRevocation(idDb, n))

\* reclaimExpiredEnrollmentsLocked commits before the enrollment that asked for it
\* is accepted or refused.
Reclaimed(db) ==
    [db EXCEPT !.enrolls = [e \in {x \in DOMAIN @ : x.exp > idNow} |-> @[e]]]

\* createEnrollment: an exact retry returns the retained enrollment; otherwise the
\* node and its enrollment are written together.
Enrolled(db, enr) ==
    [db EXCEPT
        !.nodes = IF enr.node \in DOMAIN @ THEN [@ EXCEPT ![enr.node].tenants = @ \cup enr.tenants]
                  ELSE (enr.node :> NewNode(enr.tenants)) @@ @,
        !.enrolls = (enr :> [rid |-> 0, revoked |-> FALSE]) @@ @]
createEnrollment(c, req, n, tenants, life) ==
    /\ revalidateOperatorLocked(c)
    /\ \A t \in tenants : AuthorizedTenant(c, t) /\ t \in idDb.tenants
    /\ \A e \in DOMAIN idDb.enrolls : e.req = req => e.issuer # c
    /\ \E db \in {Reclaimed(idDb)} :
          IF n \in DOMAIN db.nodes => db.nodes[n].active /\ IsSiteAdmin(c)
          THEN Runs(c, Enrolled(db, [req |-> req, issuer |-> c, node |-> n, tenants |-> tenants,
                                     made |-> idNow, exp |-> idNow + life]))
          ELSE Runs(c, db)

Exchangeable(enr, rid) ==
    /\ ~idDb.enrolls[enr].revoked
    /\ idNow < enr.exp
    /\ idDb.enrolls[enr].rid \in {0, rid}

Pinnable(n, key) ==
    /\ idDb.nodes[n].key \in {0, key}
    /\ \A other \in DOMAIN idDb.nodes \ {n} : idDb.nodes[other].key # key

\* ExchangeEnrollment by the node itself: credential, consumed enrollment and pinned
\* evidence key in one transaction; a retry must find exactly what it would derive.
ExchangeEnrollment(enr, rid, key) ==
    /\ NodeServes(enr.node, enr.tenants)
    /\ Pinnable(enr.node, key)
    /\ Exchangeable(enr, rid)
    /\ \E id \in {NodeCredID(enr, rid)} :
          /\ id \in DOMAIN Creds => Creds[id] = NodeCred(enr) /\ idDb.nodes[enr.node].key = key
          /\ idDb' = [idDb EXCEPT !.creds = (id :> NodeCred(enr)) @@ @,
                                  !.enrolls[enr].rid = rid, !.nodes[enr.node].key = key]
          /\ idHeld' = [idHeld EXCEPT ![enr.node] = @ \cup {id}]
    /\ UNCHANGED <<idCase, idNow, idReqs, idLate>>

\* Any durable operation of a node: a report, a batch of events, an observation.
NodeReports(c) ==
    /\ revalidateNodeLocked(c)
    /\ idDb.nodes[Creds[c].node].seen = 0
    /\ Runs(c, [idDb EXCEPT !.nodes[Creds[c].node].seen = 1])

\* A request whose identity no longer holds, or whose body is refused.
RefuseRequest(c) ==
    /\ idReqs' = idReqs \ {c}
    /\ UNCHANGED <<idCase, idNow, idDb, idHeld, idLate>>

IdTick ==
    /\ idNow < IdEnd
    /\ idNow' = idNow + 1
    /\ UNCHANGED <<idCase, idDb, idReqs, idHeld, idLate>>

IdInit ==
    /\ idCase \in IdCases
    /\ idNow = 0
    /\ idDb = [tenants |-> idCase.start, creds |-> IF idCase.start = {} THEN <<>> ELSE Bootstrapped,
               enrolls |-> <<>>, nodes |-> <<>>]
    /\ idReqs = {} /\ idLate = {}
    /\ idHeld = [n \in idCase.nodes |-> {}]

\* The HTTP handlers of controlplane/server.go; each decodes its body between the
\* authentication and the call.
tenantsRequest == \E c \in idReqs, t \in idCase.tenants : CreateTenant(c, t)
operatorsRequest ==
    \E c \in idReqs, req \in idCase.ops, role \in {SiteAdmin, TenantOperator}, t \in idCase.tenants \cup {""} :
        IssueOperator(c, req, role, t)
credentialRequest == \E c \in idReqs, id \in DOMAIN Creds : revokeCredential(c, id)
nodeAdministrationRequest == \E c \in idReqs, n \in idCase.nodes : RevokeNode(c, n)
enrollmentsRequest ==
    \E c \in idReqs, req \in idCase.reqs, n \in idCase.nodes, ts \in idCase.scopes, life \in idCase.lives :
        createEnrollment(c, req, n, ts, life)
enrollRequest ==
    \E enr \in DOMAIN idDb.enrolls, rid \in idCase.rids, key \in idCase.keys : ExchangeEnrollment(enr, rid, key)

IdNext ==
    \/ BootstrapSiteAdmin
    \/ \E c \in DOMAIN Creds : AuthenticateOperator(c)
    \/ \E c \in DOMAIN Creds : AuthenticateNode(c)
    \/ tenantsRequest \/ operatorsRequest \/ credentialRequest \/ nodeAdministrationRequest
    \/ enrollmentsRequest \/ enrollRequest
    \/ \E c \in idReqs : NodeReports(c)
    \/ \E c \in idReqs : RefuseRequest(c)
    \/ IdTick

IdSpec == IdInit /\ [][IdNext]_idVars

-------------------------------------------------------------------------------
(* Properties *)

\* Revocation is a boundary: no request changes the records after its credential
\* was revoked, however long before it was authenticated (revalidateOperatorLocked,
\* revalidateNodeLocked); and a revoked node is left with no live credential and no
\* usable enrollment, whatever was in flight (RevokeNode, createEnrollment,
\* ExchangeEnrollment).
RevokedStaysOut ==
    /\ idLate = {}
    /\ \A n \in DOMAIN idDb.nodes :
          ~idDb.nodes[n].active =>
              /\ \A id \in DOMAIN Creds : Creds[id].node = n => Creds[id].revoked
              /\ \A e \in DOMAIN idDb.enrolls : e.node = n => idDb.enrolls[e].revoked

===============================================================================
