-------------------------- MODULE GatewayConnector --------------------------
(***************************************************************************)
(* Gateway's connector calls (internal/gateway: connector.go,              *)
(* connector_receipts.go and the grant lifecycle of server.go) on top of   *)
(* the receipt ledger.                                                     *)
(*                                                                         *)
(* A request runs in its own goroutine: it takes the grant's semaphore,    *)
(* checks its permit, reserves the task in memory, spends it in the        *)
(* ledger, contacts the connector, records the outcome and advances the    *)
(* grant's response history.  Server.mu is held within a step, never       *)
(* between two; the ledger has its own lock.  Executor registers,          *)
(* activates, deactivates and unregisters grants meanwhile, and Gateway    *)
(* may stop at any point and rebuild its memory from the ledger.           *)
(*                                                                         *)
(* The influence head of a grant (sequence and chain hash) is the sequence *)
(* of the ledger lines it was advanced over.  Permit time is abstracted:   *)
(* any permit may turn out invalid or expired.  Revocation cancels a       *)
(* request asynchronously, so any contact may fail.                        *)
(***************************************************************************)
EXTENDS GatewayGrants

CONSTANTS
    Handler,          \* connector requests that may be in flight together
    ContextRequired,  \* grants with ActionContextRequired
    GrantConcurrency, \* maxConnectorGrantConcurrent
    MaxCallsPerGrant, \* the call budget of each grant's connector
    MaxStops          \* bound: Gateway crashes and exits

ASSUME GatewayAssumption ==
    /\ ContextRequired \subseteq Grant
    /\ GrantConcurrency \in Nat \ {0}
    /\ MaxCallsPerGrant \in [Grant -> Nat \ {0}]
    /\ MaxStops \in Nat
    /\ IsFiniteSet(Handler)
    /\ \A c \in Calls : c.kind = "connector_call"

VARIABLES
    connectorSpends,
    connectorCallCounts,
    connectorInfluences,
    connectorDenials,
    handlers,      \* the requests in flight
    serving,       \* Open has returned the server
    closing,       \* startup: the head still to be advanced
    effects,       \* history: effects started for each task
    stops

gatewayMemory == <<connectorSpends, connectorCallCounts, connectorInfluences, connectorDenials>>
gatewayVars == <<grantVars, gatewayMemory, handlers, serving, closing, effects, stops>>
vars == <<ledgerVars, gatewayVars>>

-----------------------------------------------------------------------------
ExecutorStep(g) ==
    /\ serving
    /\ Register(g) \/ Activate(g) \/ Deactivate(g) \/ Unregister(g)
    /\ UNCHANGED <<ledgerVars, gatewayMemory, handlers, serving, closing, effects, stops>>

-----------------------------------------------------------------------------
(* A connector request.                                                    *)

concurrency(g) == IF g \in ContextRequired THEN 1 ELSE GrantConcurrency

contextFor(g) == IF g \in ContextRequired THEN connectorInfluences[g] ELSE <<>>

(* Requests holding the grant's present semaphore.                         *)
holders(g) ==
    {h \in Handler : /\ handlers[h] # None
                     /\ handlers[h].call.grant = g
                     /\ handlers[h].semaphore = unregisters[g]}

at(h, pc) == handlers[h] # None /\ handlers[h].pc = pc

goto(h, pc) == handlers' = [handlers EXCEPT ![h].pc = pc]

(* The handler returns and releases its semaphores.                        *)
return(h) == handlers' = [handlers EXCEPT ![h] = None]

(* The ledger operation returned an error without writing.                 *)
rejected(checked, r, delta) ==
    /\ ~(checked /\ Writable /\ fits(r, delta))
    /\ UNCHANGED ledgerVars

Admit(h, c) ==
    /\ serving
    /\ handlers[h] = None
    /\ active(c.grant)
    /\ c.context = contextFor(c.grant)
    /\ Cardinality(holders(c.grant)) < concurrency(c.grant)
    /\ handlers' = [handlers EXCEPT ![h] =
                        [pc |-> "admitted", call |-> c,
                         semaphore |-> unregisters[c.grant], line |-> 0]]
    /\ UNCHANGED <<ledgerVars, grantVars, gatewayMemory, serving, closing, effects, stops>>

(* verifyConnectorActionPermit fails; recordActionPermitDenial follows.    *)
DenyPermit(h) ==
    /\ at(h, "admitted")
    /\ goto(h, "denied")
    /\ UNCHANGED <<ledgerVars, grantVars, gatewayMemory, serving, closing, effects, stops>>

(* One loop of recordActionPermitDenial: return if the denial is known,    *)
(* wait while another request records it, else record it.                  *)
ClaimDenial(h) ==
    /\ at(h, "denied")
    /\ LET g == handlers[h].call.grant
       IN  IF g \in connectorDenials
           THEN return(h)
           ELSE /\ ~\E k \in Handler : at(k, "recording") /\ handlers[k].call.grant = g
                /\ goto(h, "recording")
    /\ UNCHANGED <<ledgerVars, grantVars, gatewayMemory, serving, closing, effects, stops>>

RecordDenial(h) ==
    /\ at(h, "recording")
    /\ return(h)
    /\ LET c == handlers[h].call
       IN  \E n \in LineSizes :
             \/ /\ AppendDeny(c, n)
                /\ connectorDenials' = connectorDenials \cup {c.grant}
             \/ /\ AppendDenyAmbiguous(c, n)
                /\ UNCHANGED connectorDenials
             \/ /\ rejected(TRUE, DenyRecord(c, n), 0)
                /\ UNCHANGED connectorDenials
    /\ UNCHANGED <<grantVars, connectorSpends, connectorCallCounts, connectorInfluences,
                   serving, closing, effects, stops>>

(* spendConnectorCall up to the ledger: grant, replay and budget checks    *)
(* and the reservation in memory, under Server.mu.                         *)
Reserve(h) ==
    /\ at(h, "admitted")
    /\ LET c == handlers[h].call
       IN  IF /\ active(c.grant)
              /\ c.task \notin connectorSpends
              /\ connectorCallCounts[c.grant] < MaxCallsPerGrant[c.grant]
           THEN /\ connectorSpends' = connectorSpends \cup {c.task}
                /\ connectorCallCounts' = [connectorCallCounts EXCEPT ![c.grant] = @ + 1]
                /\ goto(h, "reserved")
           ELSE return(h) /\ UNCHANGED <<connectorSpends, connectorCallCounts>>
    /\ UNCHANGED <<ledgerVars, grantVars, connectorInfluences, connectorDenials,
                   serving, closing, effects, stops>>

(* Fault: an ambiguous append counts as a spend.                           *)
FaultyBeginTrusting(h) ==
    /\ at(h, "reserved")
    /\ LET c == handlers[h].call
       IN  \E n \in LineSizes : (Begin(c, n) \/ BeginAmbiguous(c, n)) /\ goto(h, "spent")
    /\ UNCHANGED <<grantVars, gatewayMemory, serving, closing, effects, stops>>

(* Fault: an ambiguous append is taken back like a rejected one.           *)
FaultyBeginForgetting(h) ==
    /\ at(h, "reserved")
    /\ LET c == handlers[h].call
       IN  \E n \in LineSizes :
             LET r == AuthorizeRecord(c, n)
             IN  \/ Begin(c, n) /\ goto(h, "spent")
                 \/ BeginAmbiguous(c, n) /\ goto(h, "rejected")
                 \/ rejected(begins(c), r, pendingReservation(r)) /\ goto(h, "rejected")
    /\ UNCHANGED <<grantVars, gatewayMemory, serving, closing, effects, stops>>

(* ledger.Begin.  After an error Failed() decides whether the reservation  *)
(* may be taken back; an ambiguous append is never taken back.             *)
BeginCall(h) ==
    /\ at(h, "reserved")
    /\ LET c == handlers[h].call
       IN  \E n \in LineSizes :
             LET r == AuthorizeRecord(c, n)
             IN  \/ Begin(c, n) /\ goto(h, "spent")
                 \/ BeginAmbiguous(c, n) /\ return(h)
                 \/ /\ rejected(begins(c), r, pendingReservation(r))
                    /\ IF failed THEN return(h) ELSE goto(h, "rejected")
    /\ UNCHANGED <<grantVars, gatewayMemory, serving, closing, effects, stops>>

(* The reservation is taken back unless another append failed meanwhile    *)
(* and Failed() already saw it.                                            *)
Rollback(h) ==
    /\ at(h, "rejected")
    /\ LET c == handlers[h].call
       IN  \/ /\ connectorSpends' = connectorSpends \ {c.task}
              /\ connectorCallCounts' = [connectorCallCounts EXCEPT ![c.grant] = @ - 1]
           \/ failed /\ UNCHANGED <<connectorSpends, connectorCallCounts>>
    /\ return(h)
    /\ UNCHANGED <<ledgerVars, grantVars, connectorInfluences, connectorDenials,
                   serving, closing, effects, stops>>

(* Fault: the connector is contacted while the append is in flight.        *)
FaultyContact(h) ==
    /\ at(h, "reserved")
    /\ goto(h, "contacted")
    /\ effects' = [effects EXCEPT ![handlers[h].call.task] = @ + 1]
    /\ UNCHANGED <<ledgerVars, grantVars, gatewayMemory, serving, closing, stops>>

(* Address resolution, itself externally visible, then the request.        *)
Contact(h) ==
    /\ at(h, "spent")
    /\ goto(h, "contacted")
    /\ effects' = [effects EXCEPT ![handlers[h].call.task] = @ + 1]
    /\ UNCHANGED <<ledgerVars, grantVars, gatewayMemory, serving, closing, stops>>

(* finishConnectorReceipt: without contact when the permit expired during  *)
(* the append, otherwise with what the upstream answered.                  *)
FinishCall(h) ==
    /\ at(h, "spent") \/ at(h, "contacted")
    /\ LET c == handlers[h].call
       IN  \E n \in LineSizes, outcome \in {"responded", "failed"} :
             LET r == TerminalRecord(c, None, outcome, n)
             IN  /\ at(h, "spent") => outcome = "failed"
                 /\ \/ /\ Finish(c, None, outcome, n)
                       /\ IF c.grant \in ContextRequired
                          THEN handlers' = [handlers EXCEPT ![h].pc = "finished",
                                                            ![h].line = Len(file) + 1]
                          ELSE return(h)
                    \/ FinishAmbiguous(c, None, outcome, n) /\ return(h)
                    \/ /\ rejected(finishes(r), r, -TerminalReserve)
                       /\ return(h)
    /\ UNCHANGED <<grantVars, gatewayMemory, serving, closing, effects, stops>>

(* The head moves over the terminal line unless it is no longer the head   *)
(* the request was admitted under, which is an error.                      *)
AdvanceInfluence(h) ==
    /\ at(h, "finished")
    /\ LET c == handlers[h].call
       IN  connectorInfluences' =
               IF connectorInfluences[c.grant] = c.context
               THEN [connectorInfluences EXCEPT ![c.grant] = Append(@, handlers[h].line)]
               ELSE connectorInfluences
    /\ return(h)
    /\ UNCHANGED <<ledgerVars, grantVars, connectorSpends, connectorCallCounts,
                   connectorDenials, serving, closing, effects, stops>>

-----------------------------------------------------------------------------
(* Stop and start.                                                         *)

EmptyMemory ==
    /\ connectorSpends' = {}
    /\ connectorCallCounts' = [g \in Grant |-> 0]
    /\ connectorInfluences' = [g \in Grant |-> <<>>]
    /\ connectorDenials' = {}

lost ==
    /\ Stop
    /\ EmptyMemory
    /\ handlers' = [h \in Handler |-> None]
    /\ serving' = FALSE
    /\ closing' = None
    /\ loadExisting
    /\ UNCHANGED effects

Crash ==
    /\ stops < MaxStops
    /\ stops' = stops + 1
    /\ lost

Start == Open /\ UNCHANGED gatewayVars

(* connectorReceiptIndex.visit: a line written under another head than the *)
(* one the earlier lines lead to makes the open fail.                      *)
visits(r) ==
    r.call.grant \in ContextRequired /\ r.phase \in {"authorize", "terminal"} =>
        r.call.context = connectorInfluences[r.call.grant]

VisitRecord ==
    /\ mode = "replay"
    /\ pos < Len(file)
    /\ LET r == file[pos + 1]
           g == r.call.grant
       IN  /\ replayVisiting(visits(r))
           /\ connectorInfluences' =
                  IF r.phase = "terminal" /\ g \in ContextRequired
                  THEN [connectorInfluences EXCEPT ![g] = Append(@, pos + 1)]
                  ELSE connectorInfluences
           /\ connectorDenials' = IF r.phase = "deny" THEN connectorDenials \cup {g}
                                  ELSE connectorDenials
           /\ IF r.phase = "authorize"
              THEN /\ connectorSpends' = connectorSpends \cup {r.call.task}
                   /\ connectorCallCounts' = [connectorCallCounts EXCEPT ![g] = @ + 1]
              ELSE UNCHANGED <<connectorSpends, connectorCallCounts>>
    /\ UNCHANGED <<grantVars, handlers, serving, closing, effects, stops>>

FinishOpen == OpenComplete /\ UNCHANGED gatewayVars

(* openConnectorReceiptLedger closes what the previous process left open   *)
(* as failed with outcome_unknown ...                                      *)
CloseIncomplete(t) ==
    /\ mode = "live"
    /\ ~serving
    /\ closing = None
    /\ pending[t] # None
    /\ LET c == pending[t].call
       IN  \E n \in LineSizes :
             \/ /\ Finish(c, None, "failed", n)
                /\ closing' = IF c.grant \in ContextRequired
                              THEN [call |-> c, line |-> Len(file) + 1]
                              ELSE None
             \/ FinishAmbiguous(c, None, "failed", n) /\ UNCHANGED closing
    /\ UNCHANGED <<grantVars, gatewayMemory, handlers, serving, effects, stops>>

(* ... and advances the head over the record it wrote, or fails.           *)
CloseAdvance ==
    /\ closing # None
    /\ LET g == closing.call.grant
       IN  IF connectorInfluences[g] = closing.call.context
           THEN /\ connectorInfluences' =
                       [connectorInfluences EXCEPT ![g] = Append(@, closing.line)]
                /\ closing' = None
                /\ UNCHANGED <<ledgerVars, grantVars, connectorSpends, connectorCallCounts,
                               connectorDenials, handlers, serving, effects>>
           ELSE lost
    /\ UNCHANGED stops

(* An error while closing: Open returns it and the process exits.          *)
AbandonStart ==
    /\ mode = "live"
    /\ ~serving
    /\ failed
    /\ lost
    /\ UNCHANGED stops

Serve ==
    /\ Writable
    /\ ~serving
    /\ closing = None
    /\ \A t \in Task : pending[t] = None
    /\ serving' = TRUE
    /\ UNCHANGED <<ledgerVars, grantVars, gatewayMemory, handlers, closing, effects, stops>>

-----------------------------------------------------------------------------
Init ==
    /\ LedgerInit
    /\ GrantsInit
    /\ connectorSpends = {}
    /\ connectorCallCounts = [g \in Grant |-> 0]
    /\ connectorInfluences = [g \in Grant |-> <<>>]
    /\ connectorDenials = {}
    /\ handlers = [h \in Handler |-> None]
    /\ serving = FALSE
    /\ closing = None
    /\ effects = [t \in Task |-> 0]
    /\ stops = 0

(* Steps of a request after its admission.                                 *)
HandlerStep(h) ==
    \/ DenyPermit(h)
    \/ ClaimDenial(h)
    \/ RecordDenial(h)
    \/ Reserve(h)
    \/ BeginCall(h)
    \/ Rollback(h)
    \/ Contact(h)
    \/ FinishCall(h)
    \/ AdvanceInfluence(h)

StartStep ==
    \/ Start
    \/ VisitRecord
    \/ FinishOpen
    \/ \E t \in Task : CloseIncomplete(t)
    \/ CloseAdvance
    \/ AbandonStart
    \/ Serve

Next ==
    \/ \E g \in Grant : ExecutorStep(g)
    \/ \E h \in Handler : HandlerStep(h) \/ \E c \in Calls : Admit(h, c)
    \/ Crash
    \/ StartStep

Spec == Init /\ [][Next]_vars

-----------------------------------------------------------------------------
Pc == {"admitted", "denied", "recording", "reserved", "rejected", "spent", "contacted", "finished"}

(* Type invariant.                                                         *)
GatewayTypeOK ==
    /\ TypeOK
    /\ GrantsTypeOK
    /\ connectorSpends \subseteq Task
    /\ connectorCallCounts \in [Grant -> Nat]
    /\ connectorInfluences \in [Grant -> Seq(Nat)]
    /\ connectorDenials \subseteq Grant
    /\ handlers \in [Handler -> {None} \cup
                        [pc : Pc, call : Calls, semaphore : Nat, line : Nat]]
    /\ \A h \in Handler : handlers[h] # None =>
          handlers[h].semaphore <= unregisters[handlers[h].call.grant]
    /\ serving \in BOOLEAN
    /\ closing \in {None} \cup [call : Calls, line : Nat]
    /\ effects \in [Task -> Nat]
    /\ stops \in 0..MaxStops

(* Safety: the connector is contacted at most once for a task identity,    *)
(* whatever concurrent copies, ambiguous appends, rollbacks, grant changes *)
(* and restarts surround it (spendConnectorCall, connector.go:627).        *)
EffectOnce == \A t \in Task : effects[t] <= 1

(* Safety: an effect starts only while its task's authorization is on disk *)
(* and has no terminal record, so no outcome is recorded before the effect *)
(* it describes (connector.go:203-250).                                    *)
EffectInsideAuthorization ==
    [][\A t \in Task : effects'[t] # effects[t] =>
          /\ \E i \in 1..Len(file) : file[i].phase = "authorize" /\ file[i].call.task = t
          /\ ~\E i \in 1..Len(file) : file[i].phase = "terminal" /\ file[i].call.task = t]_vars

(* Safety: while Gateway serves, its memory refuses every task that the    *)
(* disk may hold as spent, the lines left by ambiguous appends included,   *)
(* and counts at least the calls that disk holds (connector.go:659).       *)
FenceCoversLedger ==
    serving =>
        /\ \A i \in 1..Len(file) : file[i].phase = "authorize" =>
                                       file[i].call.task \in connectorSpends
        /\ \A g \in Grant :
              Cardinality({i \in 1..Len(file) : /\ file[i].phase = "authorize"
                                               /\ file[i].call.grant = g})
                  <= connectorCallCounts[g]

(* Safety: a grant never spends more calls than its budget, over every     *)
(* restart, re-registration and rollback (connector.go:639).               *)
CallBudget ==
    \A g \in Grant :
        Cardinality({i \in 1..Len(file) : file[i].phase = "authorize" /\ file[i].call.grant = g})
            <= MaxCallsPerGrant[g]

(* Safety: at most one denial is recorded for a grant, whichever requests  *)
(* are refused together and whatever a restart interrupts                  *)
(* (recordActionPermitDenial, connector_receipts.go:366).                  *)
DenialRecordedOnce ==
    \A i, j \in 1..Len(file) :
        file[i].phase = "deny" /\ file[j].phase = "deny" /\ file[i].call.grant = file[j].call.grant
        => i = j

(* Safety: a grant that requires context has one connector call in flight  *)
(* (docs/guides/context-locked-effects.md:33).                             *)
OneCallPerContext ==
    \A g \in ContextRequired :
        Cardinality({h \in Handler : handlers[h] # None /\ handlers[h].call.grant = g}) <= 1

=============================================================================
