---------------------------- MODULE AgentMessages ----------------------------
(* What a running agent says to its operators and what they answer: Gateway's
   durable outboxes of events and questions, the node's couriers that carry them
   to Control, Control's bounded retention, and the signed answer on its way back
   to the agent.  An identifier is the pair <<grant, idempotency key>> it is
   derived from; a grant names one generation of one instance. *)
EXTENDS Integers, Sequences, FiniteSets, SequencesExt, FiniteSetsExt, TLC

CONSTANTS
    MgCases,   \* scenarios: what the agent reports and asks, expiries, answers, faults
    MgTenant,  \* grant -> tenant
    MgLimit,   \* Gateway's quotas (gwAll, gwTenant, gwGrant), Control's (the others)
    MgEnd      \* the last instant of the clock

VARIABLES
    mgCase,    \* the scenario
    mgNow,     \* the clock, shared by Gateway and Control
    mgGw,      \* Gateway's memory: active grants, event outbox, questions
    mgFile,    \* Gateway's state file
    mgCt,      \* Control's records: events and questions, oldest first
    mgEv,      \* the courier of events
    mgIx,      \* the courier of questions and answers
    mgSeen,    \* the agent's accepted requests and what Control ever retained
    mgFaults   \* faults so far
mgVars == <<mgCase, mgNow, mgGw, mgFile, mgCt, mgEv, mgIx, mgSeen, mgFaults>>

\* A signed answer (number n): whether a trusted key of the tenant signed it, and
\* until when it counts.
NoAnswer == [n |-> 0, ok |-> FALSE, exp |-> 0]
NewEvent(id) == [id |-> id, at |-> mgNow]
NewAsk(id, exp) == [id |-> id, at |-> mgNow, exp |-> exp, accepted |-> FALSE, answer |-> NoAnswer]
StoredAsk(q) ==
    [id |-> q.id, at |-> q.at, exp |-> q.exp, state |-> "open", answer |-> NoAnswer, queued |-> 0]
Grants == DOMAIN MgTenant
Tenant(x) == MgTenant[x.id[1]]
Ids(s) == {s[i].id : i \in DOMAIN s}
ById(s, id) == s[CHOOSE i \in DOMAIN s : s[i].id = id]
Replace(s, x) == [i \in DOMAIN s |-> IF s[i].id = x.id THEN x ELSE s[i]]

MgFault(kind) ==
    /\ kind \in mgCase.kinds
    /\ mgFaults < mgCase.faults
    /\ mgFaults' = mgFaults + 1

-------------------------------------------------------------------------------
(* Gateway *)

\* persistLocked.  A failed save rolls the memory back; the file may hold either.
Save(next) == mgGw' = next /\ mgFile' = next /\ UNCHANGED mgFaults
SaveFails(next) == MgFault("save") /\ mgFile' \in {mgFile, next} /\ UNCHANGED mgGw

Room(s, id) ==
    /\ Len(s) < MgLimit.gwAll
    /\ Len(SelectSeq(s, LAMBDA x : Tenant(x) = MgTenant[id[1]])) < MgLimit.gwTenant
    /\ Len(SelectSeq(s, LAMBDA x : x.id[1] = id[1])) < MgLimit.gwGrant

\* The agent reports an event.  A key the outbox still holds is answered from it.
instanceEventHandler(id) ==
    /\ id \in mgCase.events
    /\ mgCase.reuse \/ id \notin mgSeen.told
    /\ id[1] \in mgGw.active
    /\ IF id \in Ids(mgGw.events)
       THEN /\ mgSeen' = [mgSeen EXCEPT !.told = @ \cup {id}]
            /\ UNCHANGED <<mgGw, mgFile, mgFaults>>
       ELSE /\ Room(mgGw.events, id)
            /\ \E next \in {[mgGw EXCEPT !.events = Append(@, NewEvent(id))]} :
                  \/ Save(next) /\ mgSeen' = [mgSeen EXCEPT !.told = @ \cup {id}]
                  \/ SaveFails(next) /\ UNCHANGED mgSeen
    /\ UNCHANGED <<mgCase, mgNow, mgCt, mgEv, mgIx>>

FaultyAckInstanceEvents(gw, ids) == [gw EXCEPT !.events = <<>>]
ackInstanceEvents(gw, ids) ==
    [gw EXCEPT !.events = SelectSeq(@, LAMBDA e : e.id \notin ids)]

\* The agent asks a question.  Nothing ever removes one from Gateway's state.
createInteraction(id, exp) ==
    /\ id \in mgCase.asks
    /\ id[1] \in mgGw.active
    /\ mgNow < exp
    /\ id \notin Ids(mgGw.asks)
    /\ Room(mgGw.asks, id)
    /\ \E next \in {[mgGw EXCEPT !.asks = Append(@, NewAsk(id, exp))]} :
          \/ Save(next) /\ mgSeen' = [mgSeen EXCEPT !.asked = @ \cup {id}]
          \/ SaveFails(next) /\ UNCHANGED mgSeen
    /\ UNCHANGED <<mgCase, mgNow, mgCt, mgEv, mgIx>>

interactionOutbox(gw) == SelectSeq(gw.asks, LAMBDA q : ~q.accepted)
ackInteractionOutbox(gw, ids) ==
    [gw EXCEPT !.asks = [i \in DOMAIN @ |-> [@[i] EXCEPT !.accepted = @ \/ mgGw.asks[i].id \in ids]]]

\* Verify: signed by an authority of the tenant (ok) and inside its validity.
Verify(answer, now) == answer.ok /\ now < answer.exp

\* What resolveInteraction makes of a delivered answer.
Resolvable(q, answer) ==
    /\ q.answer = NoAnswer
    /\ mgNow < q.exp
    /\ q.id[1] \in mgGw.active
    /\ Verify(answer, mgNow)
Outcome(id, answer) ==
    IF id \notin Ids(mgGw.asks) THEN "refused"
    ELSE IF ById(mgGw.asks, id).answer = answer THEN "same"
    ELSE IF Resolvable(ById(mgGw.asks, id), answer) THEN "resolves" ELSE "refused"

\* The instance is stopped: its grant is withdrawn, its records stay.
Withdraw(g) ==
    /\ g \in mgCase.withdrawn \cap mgGw.active
    /\ Save([mgGw EXCEPT !.active = @ \ {g}])
    /\ UNCHANGED <<mgCase, mgNow, mgCt, mgEv, mgIx, mgSeen>>

GatewayRestart ==
    /\ MgFault("restart")
    /\ mgGw' = mgFile
    /\ UNCHANGED <<mgCase, mgNow, mgFile, mgCt, mgEv, mgIx, mgSeen>>

-------------------------------------------------------------------------------
(* Control *)

\* retentionEvictions: the oldest beyond the limit of a tenant, then of the site.
Excess(s, limit) == {s[i] : i \in 1..(Len(s) - limit)}
retentionEvictions(s) ==
    LET byTenant == UNION {Excess(SelectSeq(s, LAMBDA x : Tenant(x) = t), MgLimit.ctTenant) :
                             t \in Range(MgTenant)}
        rest     == SelectSeq(s, LAMBDA x : x \notin byTenant)
    IN byTenant \cup Excess(rest, MgLimit.ctAll)
Kept(s, gone) == SelectSeq(s, LAMBDA x : x \notin gone)

\* Validate of a batch, at the node and again at Control.
eventBatchValid(s) == s # <<>> /\ Len(s) <= MgLimit.batch /\ Cardinality(Ids(s)) = Len(s)
askBatchValid(s) == s # <<>> /\ Len(s) <= MgLimit.batch /\ Cardinality(Ids(s)) = Len(s)

\* The whole batch conflicts when one known identifier carries other content.
eventConflict(batch) ==
    \E i \in DOMAIN batch, j \in DOMAIN mgCt.events :
        batch[i].id = mgCt.events[j].id /\ batch[i] # mgCt.events[j]
RetainInstanceEvents(batch) ==
    LET all == mgCt.events \o SelectSeq(batch, LAMBDA e : e.id \notin Ids(mgCt.events))
    IN [mgCt EXCEPT !.events = Kept(all, retentionEvictions(all))]

interactionTerminal(q) == q.state = "resolved" \/ mgNow >= q.exp

\* RetainInteractions.  An unanswered question is never evicted for a newer one.
Admitted(batch) ==
    mgCt.asks \o [i \in DOMAIN batch |-> StoredAsk(batch[i])]
NewAsks(batch) == SelectSeq(batch, LAMBDA q : q.id \notin Ids(mgCt.asks))
RetainInteractionsFits(batch) ==
    \A q \in retentionEvictions(Admitted(NewAsks(batch))) : interactionTerminal(q)
RetainInteractions(batch) ==
    LET all == Admitted(NewAsks(batch))
    IN IF NewAsks(batch) = <<>> THEN mgCt
       ELSE [mgCt EXCEPT !.asks = Kept(all, retentionEvictions(all))]

\* interactionCourierEvictions: until the retained answers fit, the oldest terminal
\* question goes, one of the tenant's own while it is over its share.  The result
\* is the set of what remains, empty when nothing more can go.
Answers(s) == Len(SelectSeq(s, LAMBDA q : q.answer # NoAnswer))
TenantOver(s, t) == Answers(SelectSeq(s, LAMBDA q : Tenant(q) = t)) > MgLimit.ctTenantAnswers
RECURSIVE courierEvictions(_, _)
courierEvictions(s, id) ==
    LET over == TenantOver(s, MgTenant[id[1]])
        olds == SelectSeq(s, LAMBDA q : /\ q.id # id /\ interactionTerminal(q)
                                        /\ over => Tenant(q) = MgTenant[id[1]])
    IN IF ~over /\ Answers(s) <= MgLimit.ctAnswers THEN {s}
       ELSE IF olds = <<>> THEN {} ELSE courierEvictions(Kept(s, {Head(olds)}), id)

\* An operator submits a signed answer; Control stores it without trusting it,
\* and the first one stays.
SubmitInteractionResponse(id, answer) ==
    /\ mgNow < answer.exp
    /\ id \in Ids(mgCt.asks)
    /\ \E q \in {ById(mgCt.asks, id)} :
          /\ q.state = "open"
          /\ mgNow < q.exp
          /\ answer.exp <= q.exp
          /\ \E s \in {Replace(mgCt.asks, [q EXCEPT !.state = "queued", !.answer = answer, !.queued = mgNow])} :
                \E kept \in courierEvictions(s, id) : mgCt' = [mgCt EXCEPT !.asks = kept]
    /\ UNCHANGED <<mgCase, mgNow, mgGw, mgFile, mgEv, mgIx, mgSeen, mgFaults>>

interactionResponse == \E id \in mgCase.asks, a \in mgCase.answers : SubmitInteractionResponse(id, a)

PollInteractionResponses ==
    SortSeq(SelectSeq(mgCt.asks, LAMBDA q : q.state = "queued" /\ mgNow < q.exp),
            LAMBDA a, b : a.queued < b.queued)

Acknowledgeable(d) ==
    \E i \in DOMAIN mgCt.asks :
        /\ mgCt.asks[i].id = d.id
        /\ mgCt.asks[i].answer = d.answer
        /\ mgCt.asks[i].state \in {"queued", "resolved"}
AckInteractionResponse(d) ==
    [mgCt EXCEPT !.asks = Replace(@, [ById(@, d.id) EXCEPT !.state = "resolved"])]

-------------------------------------------------------------------------------
(* The node's couriers.  A call to Control may be lost, or only its reply. *)

Idle == [pc |-> "list", batch |-> <<>>]
EvTo(pc) == mgEv' = [mgEv EXCEPT !.pc = pc]
IxTo(pc, batch) == mgIx' = [pc |-> pc, batch |-> batch]

\* publishEvents: list, post the batch, acknowledge it at Gateway.
ListEvents ==
    /\ mgEv.pc = "list" /\ eventBatchValid(mgGw.events)
    /\ mgEv' = [pc |-> "post", batch |-> mgGw.events]
    /\ UNCHANGED <<mgCase, mgNow, mgGw, mgFile, mgCt, mgIx, mgSeen, mgFaults>>
PostEvents ==
    /\ mgEv.pc = "post"
    /\ IF eventConflict(mgEv.batch)
       THEN mgEv' = Idle /\ UNCHANGED <<mgCt, mgSeen, mgFaults>>
       ELSE \/ /\ mgCt' = RetainInstanceEvents(mgEv.batch)
               /\ mgSeen' = [mgSeen EXCEPT !.got = @ \cup Ids(mgEv.batch)]
               /\ \/ EvTo("ack") /\ UNCHANGED mgFaults
                  \/ MgFault("reply") /\ mgEv' = Idle
            \/ MgFault("lose") /\ mgEv' = Idle /\ UNCHANGED <<mgCt, mgSeen>>
    /\ UNCHANGED <<mgCase, mgNow, mgGw, mgFile, mgIx>>
AckEvents ==
    /\ mgEv.pc = "ack"
    /\ \E next \in {ackInstanceEvents(mgGw, Ids(mgEv.batch))} : Save(next) \/ SaveFails(next)
    /\ mgEv' = Idle
    /\ UNCHANGED <<mgCase, mgNow, mgCt, mgIx, mgSeen>>

\* publishInteractions; its failure does not stop the answers.
ListAsks ==
    /\ mgIx.pc = "list"
    /\ IF askBatchValid(interactionOutbox(mgGw))
       THEN IxTo("post", interactionOutbox(mgGw)) ELSE IxTo("poll", <<>>)
    /\ UNCHANGED <<mgCase, mgNow, mgGw, mgFile, mgCt, mgEv, mgSeen, mgFaults>>
PostAsks ==
    /\ mgIx.pc = "post"
    /\ IF RetainInteractionsFits(mgIx.batch)
       THEN \/ /\ mgCt' = RetainInteractions(mgIx.batch)
               /\ mgSeen' = [mgSeen EXCEPT !.put = @ \cup Ids(mgIx.batch)]
               /\ \/ IxTo("ack", mgIx.batch) /\ UNCHANGED mgFaults
                  \/ MgFault("reply") /\ IxTo("poll", <<>>)
            \/ MgFault("lose") /\ IxTo("poll", <<>>) /\ UNCHANGED <<mgCt, mgSeen>>
       ELSE IxTo("poll", <<>>) /\ UNCHANGED <<mgCt, mgSeen, mgFaults>>
    /\ UNCHANGED <<mgCase, mgNow, mgGw, mgFile, mgEv>>
AckAsks ==
    /\ mgIx.pc = "ack"
    /\ \E next \in {ackInteractionOutbox(mgGw, Ids(mgIx.batch))} : Save(next) \/ SaveFails(next)
    /\ IxTo("poll", <<>>)
    /\ UNCHANGED <<mgCase, mgNow, mgCt, mgEv, mgSeen>>

\* deliverInteractionResponses: each answer goes to Gateway and is then
\* acknowledged at Control; the first failure ends the round.
PollAnswers ==
    /\ mgIx.pc = "poll"
    /\ IF PollInteractionResponses = <<>> THEN mgIx' = Idle ELSE IxTo("resolve", PollInteractionResponses)
    /\ UNCHANGED <<mgCase, mgNow, mgGw, mgFile, mgCt, mgEv, mgSeen, mgFaults>>
ResolveAnswer ==
    /\ mgIx.pc = "resolve"
    /\ \E d \in {Head(mgIx.batch)}, outcome \in {Outcome(Head(mgIx.batch).id, Head(mgIx.batch).answer)} :
          \/ /\ outcome = "refused"
             /\ mgIx' = Idle /\ UNCHANGED <<mgGw, mgFile, mgFaults>>
          \/ /\ outcome = "same"
             /\ IxTo("answer", mgIx.batch) /\ UNCHANGED <<mgGw, mgFile, mgFaults>>
          \/ /\ outcome = "resolves"
             /\ \E next \in {[mgGw EXCEPT !.asks = Replace(@, [ById(@, d.id) EXCEPT !.answer = d.answer])]} :
                   \/ Save(next) /\ IxTo("answer", mgIx.batch)
                   \/ SaveFails(next) /\ mgIx' = Idle
    /\ UNCHANGED <<mgCase, mgNow, mgCt, mgEv, mgSeen>>
AckAnswer ==
    /\ mgIx.pc = "answer"
    /\ \E d \in {Head(mgIx.batch)} :
          IF Acknowledgeable(d)
          THEN \/ /\ mgCt' = AckInteractionResponse(d)
                  /\ UNCHANGED mgFaults
                  /\ IF Len(mgIx.batch) = 1 THEN mgIx' = Idle ELSE IxTo("resolve", Tail(mgIx.batch))
               \/ /\ mgIx' = Idle
                  /\ \/ MgFault("lose") /\ UNCHANGED mgCt
                     \/ MgFault("reply") /\ mgCt' = AckInteractionResponse(d)
          ELSE mgIx' = Idle /\ UNCHANGED <<mgCt, mgFaults>>
    /\ UNCHANGED <<mgCase, mgNow, mgGw, mgFile, mgEv, mgSeen>>

NodeRestart ==
    /\ MgFault("node")
    /\ mgEv' = Idle /\ mgIx' = Idle
    /\ UNCHANGED <<mgCase, mgNow, mgGw, mgFile, mgCt, mgSeen>>

-------------------------------------------------------------------------------
MgTick ==
    /\ mgNow < MgEnd
    /\ mgNow' = mgNow + 1
    /\ UNCHANGED <<mgCase, mgGw, mgFile, mgCt, mgEv, mgIx, mgSeen, mgFaults>>

MgInit ==
    /\ mgCase \in MgCases
    /\ mgNow = 0
    /\ mgGw = [active |-> Grants, events |-> <<>>, asks |-> <<>>]
    /\ mgFile = mgGw
    /\ mgCt = [events |-> <<>>, asks |-> <<>>]
    /\ mgEv = Idle /\ mgIx = Idle
    /\ mgSeen = [told |-> {}, got |-> {}, asked |-> {}, put |-> {}]
    /\ mgFaults = 0

EventCourier == ListEvents \/ PostEvents \/ AckEvents
AskCourier == ListAsks \/ PostAsks \/ AckAsks \/ PollAnswers \/ ResolveAnswer \/ AckAnswer
MgNext ==
    \/ \E id \in mgCase.events : instanceEventHandler(id)
    \/ \E id \in mgCase.asks, exp \in mgCase.expiries : createInteraction(id, exp)
    \/ interactionResponse
    \/ \E g \in Grants : Withdraw(g)
    \/ ListEvents \/ PostEvents \/ AckEvents
    \/ ListAsks \/ PostAsks \/ AckAsks \/ PollAnswers \/ ResolveAnswer \/ AckAnswer
    \/ GatewayRestart \/ NodeRestart \/ MgTick

\* Both loops run for the life of the node's process.
Talking == mgCase.events \cup mgCase.asks # {}
MgFairness == WF_mgVars(Talking /\ EventCourier) /\ WF_mgVars(Talking /\ AskCourier)

-------------------------------------------------------------------------------
(* Properties *)

\* Once the agent falls silent, every event Gateway accepted reaches Control, every
\* accepted question is published unless it expired or Control is full of open
\* ones, and every queued answer is resolved unless it expired or stands behind one
\* that Gateway refuses (publishEvents, syncInteractions).
Blocked(q) ==
    \E i \in DOMAIN mgCt.asks :
        /\ mgCt.asks[i].state = "queued"
        /\ mgCt.asks[i].queued <= q.queued
        /\ Outcome(mgCt.asks[i].id, mgCt.asks[i].answer) = "refused"
MessagesArrive ==
    <>[]( /\ mgSeen.told \subseteq mgSeen.got
          /\ \A id \in mgSeen.asked \ mgSeen.put :
                \/ mgNow >= ById(mgGw.asks, id).exp
                \/ ~RetainInteractionsFits(interactionOutbox(mgGw))
          /\ \A i \in DOMAIN mgCt.asks :
                mgCt.asks[i].state = "queued" =>
                    mgNow >= mgCt.asks[i].exp \/ Blocked(mgCt.asks[i]) )

===============================================================================
