----------------------- MODULE GatewayConnectorSteps ------------------------
(***************************************************************************)
(* The inductive invariant of GatewayConnector, how its steps change the   *)
(* requests and the ledger, and the parts of the invariant that fence a    *)
(* task, record a denial and type the state, for GatewayConnectorProofs.   *)
(***************************************************************************)
EXTENDS GatewayConnector, TLAPS

-----------------------------------------------------------------------------
(* The invariant.  The effect of a task follows its authorization in the   *)
(* file, which follows its reservation in memory: a reservation is held by *)
(* one request, is taken back only while the file has no authorization,    *)
(* and is rebuilt from the file before Gateway serves again.               *)

(* What the gateway needs to know of the ledger: a usable handle knows     *)
(* every task that its file holds as spent.                                *)
Indexed ==
    /\ TypeOK
    /\ mode = "closed" => pos = 0
    /\ Writable => \A i \in 1..Len(file) : file[i].phase # "deny" => file[i].call.task \in spent

Requests == [pc : Pc, call : Calls, semaphore : Nat, line : Nat]

(* The lines whose contents are in Gateway's memory.                       *)
seen == IF mode = "live" THEN Len(file) ELSE pos

Authorized(t) == \E i \in 1..Len(file) : file[i].phase = "authorize" /\ file[i].call.task = t
Closed(t) == \E i \in 1..Len(file) : file[i].phase = "terminal" /\ file[i].call.task = t

Unspent(h) == at(h, "reserved") \/ at(h, "rejected")
Holding(h) == Unspent(h) \/ at(h, "spent") \/ at(h, "contacted") \/ at(h, "finished")

ServesLive == serving => mode = "live"
IdleWhenDown == ~serving => \A h \in Handler : handlers[h] = None
Fenced ==
    mode # "refused" =>
        \A i \in 1..seen : file[i].phase = "authorize" => file[i].call.task \in connectorSpends
HeldFenced == \A h \in Handler : Holding(h) => handlers[h].call.task \in connectorSpends
HeldOnce ==
    \A h, k \in Handler :
        Holding(h) /\ Holding(k) /\ handlers[h].call.task = handlers[k].call.task => h = k
UnspentUnwritten == \A h \in Handler : Unspent(h) => ~Authorized(handlers[h].call.task)
SpentOpen ==
    \A h \in Handler : at(h, "spent") => /\ Authorized(handlers[h].call.task)
                                         /\ ~Closed(handlers[h].call.task)
                                         /\ effects[handlers[h].call.task] = 0
EffectsWritten == \A t \in Task : effects[t] # 0 => Authorized(t)

FenceInv ==
    /\ ServesLive /\ IdleWhenDown
    /\ Fenced /\ HeldFenced /\ HeldOnce /\ UnspentUnwritten /\ SpentOpen
    /\ EffectsWritten /\ EffectOnce

(* Each call of a grant is counted before it is written, and once when it  *)
(* is read back.                                                           *)
CallsSeen(g) == {i \in 1..seen : file[i].phase = "authorize" /\ file[i].call.grant = g}
Reserving(g) == {h \in Handler : Unspent(h) /\ handlers[h].call.grant = g}

CountInv ==
    /\ mode # "refused" => \A g \in Grant :
          Cardinality(CallsSeen(g)) + Cardinality(Reserving(g)) <= connectorCallCounts[g]
    /\ serving => \A g \in Grant : connectorCallCounts[g] <= MaxCallsPerGrant[g]
    /\ ~serving /\ mode # "refused" => \A g \in Grant :
          connectorCallCounts[g] = Cardinality(CallsSeen(g))
    /\ CallBudget

(* A handle that is open, or opening, and has not failed.                  *)
Usable == mode = "replay" \/ Writable

(* A denial is written by the one request that has claimed it.             *)
DenialInv ==
    /\ Usable => \A i \in 1..seen : file[i].phase = "deny" =>
                                       file[i].call.grant \in connectorDenials
    /\ \A h \in Handler : at(h, "recording") => handlers[h].call.grant \notin connectorDenials
    /\ \A h, k \in Handler :
          at(h, "recording") /\ at(k, "recording") /\ handlers[h].call.grant = handlers[k].call.grant
          => h = k
    /\ DenialRecordedOnce

GatewayInv == Indexed /\ GatewayTypeOK /\ FenceInv /\ CountInv /\ DenialInv

-----------------------------------------------------------------------------
(* How one request changes.                                                *)

LEMMA CallFields ==
    ASSUME NEW c \in Calls
    PROVE  c.task \in Task /\ c.tenant \in Tenant /\ c.grant \in Grant /\ c.kind = "connector_call"
BY CallsAssumption, GatewayAssumption, Zenon DEF Call

(* Request h is at pc in the next state, with its call, and no other       *)
(* request has moved.                                                      *)
Moved(h, pc) ==
    /\ handlers'[h] # None => handlers'[h].pc = pc /\ handlers'[h].call = handlers[h].call
    /\ \A k \in Handler : k # h => handlers'[k] = handlers[k]

LEMMA GotoMoves ==
    ASSUME GatewayTypeOK, NEW h \in Handler, handlers[h] # None, NEW pc \in Pc, goto(h, pc)
    PROVE  /\ Moved(h, pc)
           /\ handlers' \in [Handler -> {None} \cup Requests]
           /\ handlers'[h].semaphore = handlers[h].semaphore
  <1>1. handlers[h] \in Requests /\ handlers \in [Handler -> {None} \cup Requests]
    BY Zenon DEF GatewayTypeOK, Requests
  <1>2. handlers'[h] = [handlers[h] EXCEPT !.pc = pc] /\ \A k \in Handler : k # h => handlers'[k] = handlers[k]
    BY <1>1, Zenon DEF goto
  <1>3. [handlers[h] EXCEPT !.pc = pc] \in Requests
    BY <1>1, Zenon DEF Requests
  <1>4. handlers' \in [Handler -> {None} \cup Requests]
    BY <1>1, <1>3, Zenon DEF goto
  <1>5. /\ handlers'[h].pc = pc
        /\ handlers'[h].call = handlers[h].call
        /\ handlers'[h].semaphore = handlers[h].semaphore
    BY <1>1, <1>2, Zenon DEF Requests
  <1> QED  BY <1>2, <1>4, <1>5, Zenon DEF Moved

LEMMA ReturnMoves ==
    ASSUME GatewayTypeOK, NEW h \in Handler, return(h)
    PROVE  /\ handlers'[h] = None
           /\ \A pc : Moved(h, pc)
           /\ handlers' \in [Handler -> {None} \cup Requests]
  <1>1. handlers \in [Handler -> {None} \cup Requests]
    BY Zenon DEF GatewayTypeOK, Requests
  <1> QED  BY <1>1, Zenon DEF return, Moved

LEMMA FinishMoves ==
    ASSUME GatewayTypeOK, NEW h \in Handler, handlers[h] # None, Len(file) \in Nat,
           handlers' = [handlers EXCEPT ![h].pc = "finished", ![h].line = Len(file) + 1]
    PROVE  /\ Moved(h, "finished")
           /\ handlers' \in [Handler -> {None} \cup Requests]
           /\ handlers'[h].semaphore = handlers[h].semaphore
  <1>1. handlers[h] \in Requests /\ handlers \in [Handler -> {None} \cup Requests]
    BY Zenon DEF GatewayTypeOK, Requests
  <1> DEFINE v == [pc |-> "finished", call |-> handlers[h].call, semaphore |-> handlers[h].semaphore,
                   line |-> Len(file) + 1]
  <1>0. handlers'[h] = v
    BY <1>1, Zenon DEF Requests
  <1>2. /\ handlers'[h] \in Requests
        /\ handlers'[h].pc = "finished"
        /\ handlers'[h].call = handlers[h].call
        /\ handlers'[h].semaphore = handlers[h].semaphore
    BY <1>0, <1>1 DEF Requests, Pc
  <1>3. \A k \in Handler : k # h => handlers'[k] = handlers[k]
    BY <1>1, Zenon
  <1>4. handlers' \in [Handler -> {None} \cup Requests]
    BY <1>1, <1>2, <1>3, Zenon
  <1> QED  BY <1>2, <1>3, <1>4, Zenon DEF Moved

-----------------------------------------------------------------------------
(* What the ledger operations do, as far as Gateway is concerned.          *)

(* The file is one line longer.                                            *)
Grew(r) ==
    /\ Len(file') = Len(file) + 1
    /\ file'[Len(file) + 1] = r
    /\ \A i \in 1..Len(file) : file'[i] = file[i]

(* A usable handle has written r and stays usable, or is left in doubt.    *)
Wrote(r) ==
    /\ Writable /\ mode' = "live" /\ pos' = pos
    /\ \/ Grew(r) /\ failed' = failed
       \/ (Grew(r) \/ file' = file) /\ failed'

Untouched == UNCHANGED <<file, mode, pos, failed>>

LEMMA AppendsWrote ==
    ASSUME TypeOK, NEW r, NEW delta, appendLocked(r, delta) \/ appendAmbiguous(r, delta)
    PROVE  Wrote(r)
  <1>1. file' = Append(file, r) => Grew(r)
    BY DEF TypeOK, Grew
  <1> HIDE DEF Grew
  <1>2. CASE appendLocked(r, delta)
    BY <1>1, <1>2, Zenon DEF appendLocked, Wrote, Writable
  <1>3. CASE appendAmbiguous(r, delta)
    BY <1>1, <1>3, Zenon DEF appendAmbiguous, Wrote, Writable
  <1> QED  BY <1>2, <1>3, Zenon

LEMMA BeginWrote ==
    ASSUME TypeOK, NEW c \in Calls, NEW n \in LineSizes, Begin(c, n) \/ BeginAmbiguous(c, n)
    PROVE  /\ Wrote(AuthorizeRecord(c, n)) /\ c.task \notin spent
           /\ Begin(c, n) => ~failed'
  <1>1. Begin(c, n) => ~failed'
    BY Zenon DEF Begin, appendLocked, Writable
  <1>2. Wrote(AuthorizeRecord(c, n))
    BY AppendsWrote, Zenon DEF Begin, BeginAmbiguous
  <1> QED  BY <1>1, <1>2, Zenon DEF Begin, BeginAmbiguous, begins

LEMMA FinishWrote ==
    ASSUME TypeOK, NEW c \in Calls, NEW n \in LineSizes, NEW outcome \in {"responded", "failed"},
           Finish(c, None, outcome, n) \/ FinishAmbiguous(c, None, outcome, n)
    PROVE  Wrote(TerminalRecord(c, None, outcome, n))
BY AppendsWrote, Zenon DEF Finish, FinishAmbiguous

LEMMA DenyWrote ==
    ASSUME TypeOK, NEW c \in Calls, NEW n \in LineSizes, AppendDeny(c, n) \/ AppendDenyAmbiguous(c, n)
    PROVE  /\ Wrote(DenyRecord(c, n))
           /\ AppendDenyAmbiguous(c, n) => failed'
  <1>1. AppendDenyAmbiguous(c, n) => failed'
    BY Zenon DEF AppendDenyAmbiguous, appendAmbiguous
  <1>2. Wrote(DenyRecord(c, n))
    BY AppendsWrote, Zenon DEF AppendDeny, AppendDenyAmbiguous
  <1> QED  BY <1>1, <1>2, Zenon

(* The tasks authorized and closed after a write, and the lines in memory. *)
LEMMA WroteMeans ==
    ASSUME TypeOK, NEW r, Wrote(r)
    PROVE  /\ \A t : Authorized(t) => Authorized(t)'
           /\ \A t : Authorized(t)' => Authorized(t) \/ (r.phase = "authorize" /\ r.call.task = t)
           /\ \A t : Closed(t)' => Closed(t) \/ (r.phase = "terminal" /\ r.call.task = t)
           /\ mode = "live" /\ mode' = "live" /\ seen = Len(file) /\ seen' = Len(file')
           /\ \A i \in 1..seen' : (i \in 1..seen /\ file'[i] = file[i]) \/ file'[i] = r
  <1>1. Len(file) \in Nat
    BY DEF TypeOK
  <1>2. mode = "live" /\ mode' = "live" /\ seen = Len(file) /\ seen' = Len(file')
    BY Zenon DEF Wrote, Writable, seen
  <1>3. CASE file' = file
    BY <1>2, <1>3, Zenon DEF Authorized, Closed
  <1>4. CASE Grew(r)
    <2>1. \A i \in 1..Len(file') : (i \in 1..Len(file) /\ file'[i] = file[i]) \/ file'[i] = r
      BY <1>1, <1>4 DEF Grew
    <2>2. \A i \in 1..Len(file) : i \in 1..Len(file') /\ file'[i] = file[i]
      BY <1>1, <1>4 DEF Grew
    <2> QED  BY <1>2, <2>1, <2>2, Zenon DEF Authorized, Closed
  <1> QED  BY <1>3, <1>4, Zenon DEF Wrote

LEMMA UntouchedMeans ==
    ASSUME Untouched
    PROVE  /\ \A t : (Authorized(t)' <=> Authorized(t)) /\ (Closed(t)' <=> Closed(t))
           /\ seen' = seen /\ file' = file /\ mode' = mode /\ failed' = failed
BY Zenon DEF Untouched, Authorized, Closed, seen

-----------------------------------------------------------------------------
(* FenceInv, step by step.                                                 *)

(* A request that holds no reservation, or gives it up with its task still *)
(* fenced, moves on; the ledger is not called or refuses.                  *)
LEMMA FenceStill ==
    ASSUME FenceInv, Untouched, UNCHANGED <<connectorSpends, effects, serving>>, serving,
           NEW h \in Handler, NEW pc, Moved(h, pc),
           pc \in {"admitted", "denied", "recording"} \/ handlers'[h] = None
    PROVE  FenceInv'
  <1>1. \A k \in Handler : Holding(k)' => Holding(k) /\ handlers'[k] = handlers[k]
    BY Zenon DEF Moved, Holding, Unspent, at
  <1>2. \A k \in Handler : (Unspent(k)' => Unspent(k)) /\ (at(k, "spent")' => at(k, "spent"))
    BY Zenon DEF Moved, Unspent, at
  <1>3. \A k \in Handler : Unspent(k)' \/ at(k, "spent")' => Holding(k)'
    BY Zenon DEF Holding
  <1> USE UntouchedMeans
  <1>4. ServesLive' /\ IdleWhenDown' /\ Fenced'
    BY Zenon DEF FenceInv, ServesLive, IdleWhenDown, Fenced
  <1>5. HeldFenced' /\ HeldOnce'
    BY <1>1, Zenon DEF FenceInv, HeldFenced, HeldOnce
  <1>6. UnspentUnwritten' /\ SpentOpen'
    BY <1>1, <1>2, <1>3, Zenon DEF FenceInv, UnspentUnwritten, SpentOpen
  <1>7. EffectsWritten' /\ EffectOnce'
    BY Zenon DEF FenceInv, EffectsWritten, EffectOnce
  <1> QED  BY <1>4, <1>5, <1>6, <1>7, Zenon DEF FenceInv

(* A denial or a terminal record is written; the request that writes a     *)
(* terminal record holds the reservation of its task.                      *)
LEMMA FenceWrites ==
    ASSUME FenceInv, TypeOK, NEW r, Wrote(r), r.phase # "authorize",
           UNCHANGED <<connectorSpends, effects, serving>>, serving,
           NEW h \in Handler, NEW pc, Moved(h, pc), pc = "finished" \/ handlers'[h] = None,
           pc = "finished" => Holding(h),
           r.phase = "terminal" => Holding(h) /\ handlers[h].call.task = r.call.task
    PROVE  FenceInv'
  <1>1. \A k \in Handler : Holding(k)' => Holding(k) /\ handlers'[k].call = handlers[k].call
    BY Zenon DEF Moved, Holding, Unspent, at
  <1>2. \A k \in Handler : Unspent(k)' \/ at(k, "spent")' => k # h /\ handlers'[k] = handlers[k]
    BY Zenon DEF Moved, Unspent, at
  <1>3. \A k \in Handler : (Unspent(k)' => Unspent(k)) /\ (at(k, "spent")' => at(k, "spent"))
    BY <1>2, Zenon DEF Unspent, at
  <1>4. \A k \in Handler : Unspent(k) \/ at(k, "spent") => Holding(k)
    BY Zenon DEF Holding
  <1> USE WroteMeans
  <1>5. ServesLive' /\ IdleWhenDown' /\ Fenced'
    BY DEF FenceInv, ServesLive, IdleWhenDown, Fenced
  <1>6. HeldFenced' /\ HeldOnce'
    BY <1>1 DEF FenceInv, HeldFenced, HeldOnce
  <1>7. UnspentUnwritten'
    BY <1>2, <1>3, Zenon DEF FenceInv, UnspentUnwritten
  <1>8. SpentOpen'
    <2> SUFFICES ASSUME NEW k \in Handler, at(k, "spent")', NEW u, u = handlers[k].call.task
                 PROVE  Authorized(u)' /\ ~Closed(u)' /\ effects[u] = 0
      BY <1>2 DEF SpentOpen
    <2>1. k # h /\ at(k, "spent") /\ Holding(k)
      BY <1>2, <1>3, <1>4, Zenon
    <2>2. r.phase = "terminal" => u # r.call.task
      BY <2>1, Zenon DEF FenceInv, HeldOnce
    <2>3. Authorized(u) /\ ~Closed(u) /\ effects[u] = 0
      BY <2>1, Zenon DEF FenceInv, SpentOpen
    <2> QED  BY <2>2, <2>3
  <1>9. EffectsWritten' /\ EffectOnce'
    BY Zenon DEF FenceInv, EffectsWritten, EffectOnce
  <1> QED  BY <1>5, <1>6, <1>7, <1>8, <1>9, Zenon DEF FenceInv

LEMMA FenceReserve ==
    ASSUME GatewayInv, NEW h \in Handler, Reserve(h)
    PROVE  FenceInv'
  <1> DEFINE c == handlers[h].call
  <1>1. serving /\ handlers[h] # None /\ at(h, "admitted") /\ c \in Calls
    BY Zenon DEF GatewayInv, GatewayTypeOK, FenceInv, IdleWhenDown, Reserve, at
  <1>2. FenceInv /\ Untouched /\ UNCHANGED <<effects, serving>>
    BY Zenon DEF Reserve, GatewayInv, ledgerVars, Untouched
  <1>3. CASE return(h) /\ UNCHANGED connectorSpends
    BY <1>1, <1>2, <1>3, ReturnMoves, FenceStill, Zenon DEF GatewayInv
  <1>4. CASE goto(h, "reserved") /\ c.task \notin connectorSpends /\ connectorSpends' = connectorSpends \cup {c.task}
    <2>1. Moved(h, "reserved")
      BY <1>1, <1>4, GotoMoves, Zenon DEF GatewayInv, Pc
    <2>2. \A k \in Handler : Holding(k) => k # h /\ handlers[k].call.task # c.task
      BY <1>1, <1>2, <1>4, Zenon DEF FenceInv, HeldFenced, Holding, Unspent, at
    <2>3. \A k \in Handler : Holding(k)' => \/ k = h /\ handlers'[k].call = c
                                            \/ Holding(k) /\ handlers'[k] = handlers[k]
      BY <2>1, Zenon DEF Moved, Holding, Unspent, at
    <2>4. \A k \in Handler : k # h => /\ Unspent(k)' => Unspent(k) /\ handlers'[k] = handlers[k]
                                      /\ at(k, "spent")' => at(k, "spent") /\ handlers'[k] = handlers[k]
      BY <2>1, Zenon DEF Moved, Unspent, at
    <2>5. handlers'[h] # None => handlers'[h].call = c /\ ~at(h, "spent")'
      BY <2>1, Zenon DEF Moved, at
    <2>6. ~Authorized(c.task)
      <3>1. mode = "live" /\ seen = Len(file)
        BY <1>1, <1>2, Zenon DEF FenceInv, ServesLive, seen
      <3> QED  BY <1>2, <1>4, <3>1 DEF FenceInv, Fenced, Authorized
    <2> USE <1>2, UntouchedMeans
    <2>7. ServesLive' /\ IdleWhenDown' /\ Fenced'
      BY <1>1, <1>4 DEF FenceInv, ServesLive, IdleWhenDown, Fenced
    <2>8. HeldFenced' /\ HeldOnce'
      BY <1>4, <2>2, <2>3, Zenon DEF FenceInv, HeldFenced, HeldOnce
    <2>9. UnspentUnwritten'
      BY <2>4, <2>5, <2>6 DEF FenceInv, UnspentUnwritten, Unspent, at
    <2>10. SpentOpen'
      BY <2>4, <2>5, Zenon DEF FenceInv, SpentOpen, at
    <2>11. EffectsWritten' /\ EffectOnce'
      BY DEF FenceInv, EffectsWritten, EffectOnce
    <2> QED  BY <2>7, <2>8, <2>9, <2>10, <2>11, Zenon DEF FenceInv
  <1> QED  BY <1>3, <1>4, Zenon DEF Reserve

LEMMA FenceBegin ==
    ASSUME GatewayInv, NEW h \in Handler, BeginCall(h)
    PROVE  FenceInv'
  <1> DEFINE c == handlers[h].call
  <1>1. serving /\ handlers[h] # None /\ at(h, "reserved") /\ Unspent(h) /\ Holding(h) /\ c \in Calls
    BY Zenon DEF GatewayInv, GatewayTypeOK, FenceInv, IdleWhenDown, BeginCall, at, Unspent, Holding
  <1>2. FenceInv /\ Indexed /\ TypeOK /\ UNCHANGED <<connectorSpends, effects, serving>>
    BY Zenon DEF BeginCall, GatewayInv, Indexed, gatewayMemory
  <1>3. c.task \in connectorSpends /\ ~Authorized(c.task) /\ c.task \in Task
    BY <1>1, <1>2, CallFields DEF FenceInv, HeldFenced, UnspentUnwritten
  <1>4. ASSUME Untouched, return(h)
        PROVE  FenceInv'
    BY <1>1, <1>2, <1>4, ReturnMoves, FenceStill, Zenon DEF GatewayInv
  <1>5. ASSUME Untouched, goto(h, "rejected")
        PROVE  FenceInv'
    <2>1. Moved(h, "rejected")
      BY <1>1, <1>5, GotoMoves, Zenon DEF GatewayInv, Pc
    <2>2. \A k \in Handler : /\ Holding(k)' => Holding(k) /\ handlers'[k].call = handlers[k].call
                             /\ Unspent(k)' => Unspent(k) /\ handlers'[k].call = handlers[k].call
                             /\ at(k, "spent")' => at(k, "spent") /\ handlers'[k] = handlers[k]
      BY <1>1, <2>1 DEF Moved, Holding, Unspent, at
    <2> USE <1>2, <1>5, UntouchedMeans
    <2>3. ServesLive' /\ IdleWhenDown' /\ Fenced'
      BY <1>1, Zenon DEF FenceInv, ServesLive, IdleWhenDown, Fenced
    <2>4. HeldFenced' /\ HeldOnce'
      BY <2>2, Zenon DEF FenceInv, HeldFenced, HeldOnce
    <2>5. UnspentUnwritten' /\ SpentOpen'
      BY <2>2 DEF FenceInv, UnspentUnwritten, SpentOpen
    <2>6. EffectsWritten' /\ EffectOnce'
      BY Zenon DEF FenceInv, EffectsWritten, EffectOnce
    <2> QED  BY <2>3, <2>4, <2>5, <2>6 DEF FenceInv
  <1>6. ASSUME NEW n \in LineSizes, NEW r, r = AuthorizeRecord(c, n), Wrote(r), c.task \notin spent,
               (goto(h, "spent") /\ Grew(r)) \/ return(h)
        PROVE  FenceInv'
    <2>1. r.phase = "authorize" /\ r.call.task = c.task
      BY <1>6, Zenon DEF AuthorizeRecord
    <2>2. /\ Moved(h, "spent")
          /\ handlers'[h] # None => Grew(r) /\ handlers'[h].call = c
      BY <1>1, <1>6, GotoMoves, ReturnMoves, Zenon DEF GatewayInv, Pc, Moved
    <2>3. \A k \in Handler : /\ Holding(k)' => Holding(k) /\ handlers'[k].call = handlers[k].call
                             /\ Unspent(k)' => handlers'[k] = handlers[k] /\ k # h
                             /\ k # h => handlers'[k] = handlers[k]
      BY <1>1, <2>2, Zenon DEF Moved, Holding, Unspent, at
    <2>4. \A k \in Handler : Unspent(k) \/ at(k, "spent") => Holding(k)
      BY Zenon DEF Holding
    <2>5. \A k \in Handler : k # h /\ Holding(k) => handlers[k].call.task # c.task
      BY <1>1, <1>2, Zenon DEF FenceInv, HeldOnce
    <2>6. ~Closed(c.task)
      <3>1. Writable
        BY <1>6, Zenon DEF Wrote
      <3>2. \A i \in 1..Len(file) : file[i].phase # "deny" => file[i].call.task \in spent
        BY <1>2, <3>1, Zenon DEF Indexed
      <3> QED  BY <1>6, <3>2 DEF Closed
    <2>7. effects[c.task] = 0
      BY <1>2, <1>3, Zenon DEF FenceInv, EffectsWritten
    <2>8. Grew(r) => \A t : t = c.task => Authorized(t)'
      <3>1. Len(file) \in Nat
        BY <1>2 DEF TypeOK
      <3> QED  BY <2>1, <3>1 DEF Grew, Authorized
    <2>9. /\ \A t : Authorized(t) => Authorized(t)'
          /\ \A t : Authorized(t)' => Authorized(t) \/ t = c.task
          /\ \A t : Closed(t)' => Closed(t)
          /\ mode' = "live" /\ mode = "live" /\ seen = Len(file) /\ seen' = Len(file')
          /\ \A i \in 1..seen' : (i \in 1..seen /\ file'[i] = file[i]) \/ file'[i] = r
      BY <1>2, <1>6, <2>1, WroteMeans
    <2> USE <1>2, <2>9
    <2>10. ServesLive' /\ IdleWhenDown' /\ Fenced'
      BY <1>1, <1>3, <2>1 DEF FenceInv, ServesLive, IdleWhenDown, Fenced
    <2>11. HeldFenced' /\ HeldOnce'
      BY <2>3 DEF FenceInv, HeldFenced, HeldOnce
    <2>12. UnspentUnwritten'
      <3> SUFFICES ASSUME NEW k \in Handler, Unspent(k)', NEW u, u = handlers[k].call.task
                   PROVE  ~Authorized(u)'
        BY <2>3 DEF UnspentUnwritten
      <3>1. k # h /\ Unspent(k) /\ Holding(k)
        BY <2>3, <2>4, Zenon DEF Unspent, at
      <3>2. u # c.task /\ ~Authorized(u)
        BY <2>5, <3>1, Zenon DEF FenceInv, UnspentUnwritten
      <3> QED  BY <2>1, <3>2
    <2>13. SpentOpen'
      <3> SUFFICES ASSUME NEW k \in Handler, at(k, "spent")', NEW u, u = handlers[k].call.task,
                          handlers'[k].call.task = u
                   PROVE  Authorized(u)' /\ ~Closed(u)' /\ effects[u] = 0
        <4>1. \A k \in Handler : at(k, "spent")' => Holding(k)'
          BY Zenon DEF Holding
        <4> QED  BY <2>3, <4>1 DEF SpentOpen
      <3>1. CASE k = h
        BY <2>1, <2>2, <2>6, <2>7, <2>8, <3>1, Zenon DEF at
      <3>2. CASE k # h
        <4>1. at(k, "spent")
          BY <2>3, <3>2, Zenon DEF at
        <4>2. Authorized(u) /\ ~Closed(u) /\ effects[u] = 0
          BY <4>1 DEF FenceInv, SpentOpen
        <4> QED  BY <2>1, <4>2, Zenon
      <3> QED  BY <3>1, <3>2, Zenon
    <2>14. EffectsWritten' /\ EffectOnce'
      BY Zenon DEF FenceInv, EffectsWritten, EffectOnce
    <2> QED  BY <2>10, <2>11, <2>12, <2>13, <2>14, Zenon DEF FenceInv
  <1>7. ASSUME NEW n \in LineSizes, Begin(c, n), goto(h, "spent")
        PROVE  FenceInv'
    <2>1. Wrote(AuthorizeRecord(c, n)) /\ c.task \notin spent /\ ~failed'
      BY <1>1, <1>2, <1>7, BeginWrote, Zenon
    <2> QED  BY <1>6, <1>7, <2>1, Zenon DEF Wrote
  <1>8. ASSUME NEW n \in LineSizes, BeginAmbiguous(c, n), return(h)
        PROVE  FenceInv'
    BY <1>1, <1>2, <1>6, <1>8, BeginWrote
  <1>9. UNCHANGED ledgerVars => Untouched
    BY Zenon DEF ledgerVars, Untouched
  <1> QED  BY <1>4, <1>5, <1>7, <1>8, <1>9, Zenon DEF BeginCall, rejected

LEMMA FenceRollback ==
    ASSUME GatewayInv, NEW h \in Handler, Rollback(h)
    PROVE  FenceInv'
  <1> DEFINE c == handlers[h].call
  <1>1. serving /\ handlers[h] # None /\ Unspent(h) /\ Holding(h)
    BY Zenon DEF GatewayInv, FenceInv, IdleWhenDown, Rollback, at, Unspent, Holding
  <1>2. FenceInv /\ Untouched /\ UNCHANGED <<effects, serving>>
    BY Zenon DEF Rollback, GatewayInv, ledgerVars, Untouched
  <1>3. handlers'[h] = None /\ \A k \in Handler : k # h => handlers'[k] = handlers[k]
    BY ReturnMoves, Zenon DEF Rollback, Moved, GatewayInv
  <1>4. CASE UNCHANGED connectorSpends
    BY <1>1, <1>2, <1>4, ReturnMoves, FenceStill DEF GatewayInv, Rollback
  <1>5. CASE connectorSpends' = connectorSpends \ {c.task}
    <2>1. \A k \in Handler : Holding(k)' => k # h /\ Holding(k) /\ handlers'[k] = handlers[k]
      BY <1>3, Zenon DEF Holding, Unspent, at
    <2>2. \A k \in Handler : /\ Unspent(k)' => Unspent(k) /\ handlers'[k] = handlers[k]
                             /\ at(k, "spent")' => at(k, "spent") /\ handlers'[k] = handlers[k]
      BY <1>3, Zenon DEF Unspent, at
    <2>3. \A k \in Handler : k # h /\ Holding(k) => handlers[k].call.task # c.task
      BY <1>1, <1>2 DEF FenceInv, HeldOnce
    <2>4. ~Authorized(c.task)
      BY <1>1, <1>2, Zenon DEF FenceInv, UnspentUnwritten
    <2> USE <1>2, UntouchedMeans
    <2>5. Fenced'
      <3>1. mode = "live" /\ seen = Len(file)
        BY <1>1, Zenon DEF FenceInv, ServesLive, seen
      <3> QED  BY <1>5, <2>4, <3>1 DEF FenceInv, Fenced, Authorized
    <2>6. ServesLive' /\ IdleWhenDown'
      BY <1>1 DEF FenceInv, ServesLive, IdleWhenDown
    <2>7. HeldFenced' /\ HeldOnce'
      BY <1>5, <2>1, <2>3, Zenon DEF FenceInv, HeldFenced, HeldOnce
    <2>8. UnspentUnwritten' /\ SpentOpen'
      BY <2>2 DEF FenceInv, UnspentUnwritten, SpentOpen
    <2>9. EffectsWritten' /\ EffectOnce'
      BY Zenon DEF FenceInv, EffectsWritten, EffectOnce
    <2> QED  BY <2>5, <2>6, <2>7, <2>8, <2>9, Zenon DEF FenceInv
  <1> QED  BY <1>4, <1>5, Zenon DEF Rollback

LEMMA FenceContact ==
    ASSUME GatewayInv, NEW h \in Handler, Contact(h)
    PROVE  FenceInv'
  <1>1. serving /\ handlers[h] # None /\ at(h, "spent") /\ Holding(h) /\ handlers[h].call \in Calls
    BY Zenon DEF GatewayInv, GatewayTypeOK, FenceInv, IdleWhenDown, Contact, at, Unspent, Holding
  <1>2. FenceInv /\ Untouched /\ UNCHANGED <<connectorSpends, serving>>
    BY Zenon DEF Contact, GatewayInv, ledgerVars, Untouched, gatewayMemory
  <1> DEFINE t == handlers[h].call.task
  <1>3. t \in Task /\ Authorized(t) /\ effects[t] = 0 /\ effects \in [Task -> Nat]
    BY <1>1, <1>2, CallFields, Zenon DEF FenceInv, SpentOpen, GatewayInv, GatewayTypeOK
  <1>4. \A u \in Task : effects'[u] = IF u = t THEN 1 ELSE effects[u]
    BY <1>3 DEF Contact
  <1>5. Moved(h, "contacted")
    BY <1>1, GotoMoves, Zenon DEF Contact, GatewayInv, Pc
  <1>6. \A k \in Handler : /\ Holding(k)' => Holding(k) /\ handlers'[k].call = handlers[k].call
                           /\ Unspent(k)' => Unspent(k) /\ handlers'[k] = handlers[k]
                           /\ at(k, "spent")' => k # h /\ at(k, "spent") /\ handlers'[k] = handlers[k]
    BY <1>1, <1>5 DEF Moved, Holding, Unspent, at
  <1>7. \A k \in Handler : k # h /\ at(k, "spent") => handlers[k].call.task # t
    BY <1>1, <1>2, Zenon DEF FenceInv, HeldOnce, Holding
  <1>8. \A k \in Handler : handlers[k] # None => handlers[k].call.task \in Task
    BY CallFields DEF GatewayInv, GatewayTypeOK
  <1> HIDE DEF t
  <1> USE <1>2, UntouchedMeans
  <1>9. ServesLive' /\ IdleWhenDown' /\ Fenced'
    BY <1>1, Zenon DEF FenceInv, ServesLive, IdleWhenDown, Fenced
  <1>10. HeldFenced' /\ HeldOnce'
    BY <1>6, Zenon DEF FenceInv, HeldFenced, HeldOnce
  <1>11. UnspentUnwritten'
    BY <1>6, Zenon DEF FenceInv, UnspentUnwritten
  <1>12. SpentOpen'
    BY <1>4, <1>6, <1>7, <1>8 DEF FenceInv, SpentOpen, at
  <1>13. EffectsWritten' /\ EffectOnce'
    BY <1>3, <1>4 DEF FenceInv, EffectsWritten, EffectOnce
  <1> QED  BY <1>9, <1>10, <1>11, <1>12, <1>13, Zenon DEF FenceInv

LEMMA FenceFinish ==
    ASSUME GatewayInv, NEW h \in Handler, FinishCall(h)
    PROVE  FenceInv'
  <1> DEFINE c == handlers[h].call
  <1>1. serving /\ handlers[h] # None /\ Holding(h) /\ c \in Calls /\ handlers[h] \in Requests
    BY Zenon DEF GatewayInv, GatewayTypeOK, FenceInv, IdleWhenDown, FinishCall, at, Unspent, Holding, Requests
  <1>2. FenceInv /\ Indexed /\ TypeOK /\ UNCHANGED <<connectorSpends, effects, serving>>
    BY Zenon DEF FinishCall, GatewayInv, Indexed, gatewayMemory
  <1>3. UNCHANGED ledgerVars => Untouched
    BY Zenon DEF ledgerVars, Untouched
  <1>4. ASSUME UNCHANGED ledgerVars, return(h)
        PROVE  FenceInv'
    BY <1>1, <1>2, <1>3, <1>4, ReturnMoves, FenceStill, Zenon DEF GatewayInv
  <1>5. ASSUME NEW n \in LineSizes, NEW outcome \in {"responded", "failed"},
               Finish(c, None, outcome, n) \/ FinishAmbiguous(c, None, outcome, n),
               Moved(h, "finished")
        PROVE  FenceInv'
    <2>1. Wrote(TerminalRecord(c, None, outcome, n))
      BY <1>1, <1>2, <1>5, FinishWrote, Zenon
    <2>2. /\ TerminalRecord(c, None, outcome, n).phase = "terminal"
          /\ TerminalRecord(c, None, outcome, n).call = c
      BY Zenon DEF TerminalRecord
    <2> QED  BY <1>1, <1>2, <1>5, <2>1, <2>2, FenceWrites, Zenon
  <1>6. ASSUME handlers' = [handlers EXCEPT ![h].pc = "finished", ![h].line = Len(file) + 1]
        PROVE  Moved(h, "finished")
    <2>1. handlers \in [Handler -> {None} \cup Requests]
      BY Zenon DEF GatewayInv, GatewayTypeOK, Requests
    <2> QED  BY <1>1, <1>6, <2>1, Zenon DEF Moved, Requests
  <1>7. return(h) => Moved(h, "finished")
    BY ReturnMoves, Zenon DEF GatewayInv
  <1> QED  BY <1>4, <1>5, <1>6, <1>7, Zenon DEF FinishCall, rejected

LEMMA FenceRecordDenial ==
    ASSUME GatewayInv, NEW h \in Handler, RecordDenial(h)
    PROVE  FenceInv'
  <1> DEFINE c == handlers[h].call
  <1>1. serving /\ handlers[h] # None /\ c \in Calls
    BY Zenon DEF GatewayInv, GatewayTypeOK, FenceInv, IdleWhenDown, RecordDenial, at
  <1>2. FenceInv /\ Indexed /\ TypeOK /\ UNCHANGED <<connectorSpends, effects, serving>> /\ return(h)
    BY DEF RecordDenial, GatewayInv, Indexed
  <1>3. CASE UNCHANGED ledgerVars
    <2>1. Untouched
      BY <1>3 DEF ledgerVars, Untouched
    <2> QED  BY <1>1, <1>2, <2>1, ReturnMoves, FenceStill, Zenon DEF GatewayInv
  <1>4. ASSUME NEW n \in LineSizes, AppendDeny(c, n) \/ AppendDenyAmbiguous(c, n)
        PROVE  FenceInv'
    <2>1. Wrote(DenyRecord(c, n)) /\ DenyRecord(c, n).phase = "deny"
      BY <1>1, <1>2, <1>4, DenyWrote, Zenon DEF DenyRecord
    <2> QED  BY <1>1, <1>2, <2>1, ReturnMoves, FenceWrites DEF GatewayInv
  <1> QED  BY <1>3, <1>4, Zenon DEF RecordDenial, rejected

LEMMA FenceRequest ==
    ASSUME GatewayInv, NEW h \in Handler,
           DenyPermit(h) \/ ClaimDenial(h) \/ AdvanceInfluence(h) \/ \E c \in Calls : Admit(h, c)
    PROVE  FenceInv'
  <1>1. FenceInv /\ Untouched /\ UNCHANGED <<connectorSpends, effects, serving>>
    BY Zenon DEF GatewayInv, DenyPermit, ClaimDenial, AdvanceInfluence, Admit, ledgerVars, Untouched, gatewayMemory
  <1>2. serving
    BY Zenon DEF GatewayInv, FenceInv, IdleWhenDown, DenyPermit, ClaimDenial, AdvanceInfluence, Admit, at
  <1>3. CASE DenyPermit(h) \/ ClaimDenial(h)
    <2>1. handlers[h] # None /\ (return(h) \/ goto(h, "denied") \/ goto(h, "recording"))
      BY <1>3, Zenon DEF DenyPermit, ClaimDenial, at
    <2>2. "denied" \in Pc /\ "recording" \in Pc
      BY Zenon DEF Pc
    <2> QED  BY <1>1, <1>2, <2>1, <2>2, GotoMoves, ReturnMoves, FenceStill, Zenon DEF GatewayInv
  <1>4. CASE AdvanceInfluence(h)
    BY <1>1, <1>2, <1>4, ReturnMoves, FenceStill, Zenon DEF GatewayInv, AdvanceInfluence
  <1>5. ASSUME NEW c \in Calls, Admit(h, c)
        PROVE  FenceInv'
    <2>1. \A k \in Handler : /\ Holding(k)' => Holding(k) /\ handlers'[k] = handlers[k]
                             /\ Unspent(k)' => Unspent(k)
                             /\ at(k, "spent")' => at(k, "spent") /\ handlers'[k] = handlers[k]
      BY <1>5, Zenon DEF Admit, Holding, Unspent, at, GatewayInv, GatewayTypeOK
    <2>2. \A k \in Handler : Unspent(k)' => handlers'[k] = handlers[k]
      BY <2>1, Zenon DEF Holding
    <2> USE <1>1, UntouchedMeans
    <2>3. ServesLive' /\ IdleWhenDown' /\ Fenced'
      BY <1>2, Zenon DEF FenceInv, ServesLive, IdleWhenDown, Fenced
    <2>4. HeldFenced' /\ HeldOnce'
      BY <2>1, Zenon DEF FenceInv, HeldFenced, HeldOnce
    <2>5. UnspentUnwritten' /\ SpentOpen'
      BY <2>1, <2>2, Zenon DEF FenceInv, UnspentUnwritten, SpentOpen
    <2>6. EffectsWritten' /\ EffectOnce'
      BY Zenon DEF FenceInv, EffectsWritten, EffectOnce
    <2> QED  BY <2>3, <2>4, <2>5, <2>6, Zenon DEF FenceInv
  <1> QED  BY <1>3, <1>4, <1>5, Zenon

(* No request is in flight in the next state, and the file holds as much.  *)
LEMMA FenceDown ==
    ASSUME FenceInv, TypeOK, UNCHANGED effects, \A h \in Handler : handlers'[h] = None,
           \A i \in 1..Len(file) : i \in 1..Len(file') /\ file'[i] = file[i],
           ServesLive', Fenced'
    PROVE  FenceInv'
  <1>1. \A h \in Handler : ~Holding(h)' /\ ~Unspent(h)' /\ ~at(h, "spent")'
    BY Zenon DEF Holding, Unspent, at
  <1>2. IdleWhenDown' /\ HeldFenced' /\ HeldOnce' /\ UnspentUnwritten' /\ SpentOpen'
    BY <1>1, Zenon DEF IdleWhenDown, HeldFenced, HeldOnce, UnspentUnwritten, SpentOpen
  <1>3. EffectsWritten' /\ EffectOnce'
    BY DEF FenceInv, EffectsWritten, EffectOnce, Authorized
  <1> QED  BY <1>2, <1>3, Zenon DEF FenceInv

LEMMA FenceLost ==
    ASSUME GatewayInv, lost
    PROVE  FenceInv'
  <1>1. mode' = "closed" /\ pos' = 0 /\ file' = file /\ ~serving' /\ UNCHANGED effects
    BY Zenon DEF lost, Stop
  <1>2. \A h \in Handler : handlers'[h] = None
    BY Zenon DEF lost
  <1>3. ServesLive' /\ Fenced'
    BY <1>1 DEF ServesLive, Fenced, seen
  <1> QED  BY <1>1, <1>2, <1>3, FenceDown, Zenon DEF GatewayInv, Indexed

LEMMA FenceOpen ==
    ASSUME GatewayInv, Start \/ FinishOpen \/ VisitRecord
    PROVE  FenceInv'
  <1>1. mode # "live" /\ ~serving /\ \A h \in Handler : handlers[h] = None
    BY Zenon DEF GatewayInv, FenceInv, ServesLive, IdleWhenDown, Start, Open, FinishOpen, OpenComplete, VisitRecord
  <1>2. file' = file /\ UNCHANGED <<handlers, serving, effects>>
    BY Zenon DEF Start, Open, FinishOpen, OpenComplete, VisitRecord, replayVisiting, gatewayVars
  <1>3. ServesLive'
    BY <1>1, <1>2 DEF ServesLive
  <1>4. Fenced'
    <2>1. TypeOK /\ Fenced /\ (mode = "closed" => pos = 0)
      BY DEF GatewayInv, FenceInv, Indexed
    <2>2. CASE Start
      BY <1>2, <2>1, <2>2 DEF Start, Open, Fenced, seen
    <2>3. CASE FinishOpen
      BY <1>2, <2>1, <2>3, Zenon DEF FinishOpen, OpenComplete, Fenced, seen, gatewayVars, gatewayMemory
    <2>4. CASE VisitRecord
      <3>0. pos \in Nat
        BY <2>1 DEF TypeOK
      <3>1. mode = "replay" /\ pos \in Nat /\ connectorSpends \subseteq connectorSpends'
        BY <2>4, <3>0, Zenon DEF VisitRecord
      <3>2. mode' = "refused" \/ (mode' = "replay" /\ pos' = pos + 1)
        BY <2>4, Zenon DEF VisitRecord, replayVisiting
      <3>3. file[pos + 1].phase = "authorize" => file[pos + 1].call.task \in connectorSpends'
        BY <2>4, Zenon DEF VisitRecord
      <3>4. \A i \in 1..pos : file[i].phase = "authorize" => file[i].call.task \in connectorSpends
        BY <2>1, <3>1, Zenon DEF Fenced, seen
      <3> QED  BY <1>2, <3>1, <3>2, <3>3, <3>4 DEF Fenced, seen
    <2> QED  BY <2>2, <2>3, <2>4, Zenon
  <1> QED  BY <1>1, <1>2, <1>3, <1>4, FenceDown, Zenon DEF GatewayInv, Indexed

LEMMA FenceClose ==
    ASSUME GatewayInv, NEW t \in Task, CloseIncomplete(t)
    PROVE  FenceInv'
  <1> DEFINE c == pending[t].call
  <1>1. mode = "live" /\ ~serving /\ \A h \in Handler : handlers[h] = None
    BY Zenon DEF GatewayInv, FenceInv, IdleWhenDown, CloseIncomplete
  <1>2. UNCHANGED <<handlers, serving, effects, connectorSpends>> /\ Indexed /\ TypeOK /\ FenceInv
    BY Zenon DEF CloseIncomplete, gatewayMemory, GatewayInv, Indexed
  <1>3. c \in Calls
    BY <1>2, Zenon DEF CloseIncomplete, TypeOK, Record
  <1>4. PICK n \in LineSizes : Finish(c, None, "failed", n) \/ FinishAmbiguous(c, None, "failed", n)
    BY Zenon DEF CloseIncomplete
  <1> DEFINE r == TerminalRecord(c, None, "failed", n)
  <1>5. Wrote(r) /\ r.phase = "terminal"
    BY <1>2, <1>3, <1>4, FinishWrote, Zenon DEF TerminalRecord
  <1> HIDE DEF r
  <1>6. ServesLive' /\ Fenced'
    BY <1>1, <1>2, <1>5, WroteMeans DEF FenceInv, ServesLive, Fenced
  <1>7. \A i \in 1..Len(file) : i \in 1..Len(file') /\ file'[i] = file[i]
    <2>1. Len(file) \in Nat
      BY <1>2 DEF TypeOK
    <2> QED  BY <1>5, <2>1 DEF Wrote, Grew
  <1> QED  BY <1>1, <1>2, <1>6, <1>7, FenceDown

LEMMA FenceFrame ==
    ASSUME FenceInv, Untouched, UNCHANGED <<connectorSpends, effects, handlers>>,
           serving' = serving \/ (serving' /\ mode = "live")
    PROVE  FenceInv'
  <1>1. \A h \in Handler : /\ Holding(h)' <=> Holding(h)
                           /\ Unspent(h)' <=> Unspent(h)
                           /\ at(h, "spent")' <=> at(h, "spent")
    BY Zenon DEF Holding, Unspent, at
  <1> USE UntouchedMeans
  <1>2. ServesLive' /\ IdleWhenDown' /\ Fenced'
    BY DEF FenceInv, ServesLive, IdleWhenDown, Fenced
  <1>3. HeldFenced' /\ HeldOnce' /\ UnspentUnwritten'
    BY <1>1, Zenon DEF FenceInv, HeldFenced, HeldOnce, UnspentUnwritten
  <1>4. SpentOpen' /\ EffectsWritten' /\ EffectOnce'
    BY <1>1, Zenon DEF FenceInv, SpentOpen, EffectsWritten, EffectOnce
  <1> QED  BY <1>2, <1>3, <1>4, Zenon DEF FenceInv

LEMMA FenceStep ==
    ASSUME GatewayInv, Next
    PROVE  FenceInv'
  <1>1. ASSUME NEW g \in Grant, ExecutorStep(g)
        PROVE  FenceInv'
    BY <1>1, FenceFrame, Zenon DEF ExecutorStep, ledgerVars, Untouched, gatewayMemory, GatewayInv
  <1>2. CASE Serve
    BY <1>2, FenceFrame, Zenon DEF Serve, Writable, ledgerVars, Untouched, gatewayMemory, GatewayInv
  <1>3. CASE CloseAdvance
    BY <1>3, FenceFrame, FenceLost DEF CloseAdvance, ledgerVars, Untouched, GatewayInv
  <1>4. CASE Crash \/ AbandonStart
    BY <1>4, FenceLost, Zenon DEF Crash, AbandonStart
  <1>5. CASE StartStep
    BY <1>2, <1>3, <1>4, <1>5, FenceOpen, FenceClose DEF StartStep
  <1>6. ASSUME NEW h \in Handler, HandlerStep(h)
        PROVE  FenceInv'
    BY <1>6, FenceRequest, FenceRecordDenial, FenceReserve, FenceBegin, FenceRollback, FenceContact,
       FenceFinish, Zenon DEF HandlerStep
  <1>7. ASSUME NEW h \in Handler, NEW c \in Calls, Admit(h, c)
        PROVE  FenceInv'
    BY <1>7, FenceRequest
  <1> QED  BY <1>1, <1>4, <1>5, <1>6, <1>7, Zenon DEF Next

-----------------------------------------------------------------------------
(* DenialInv, step by step.                                                *)

(* The requests that record a denial in the next state do so already.      *)
SameRecorders ==
    \A h \in Handler : at(h, "recording")' => at(h, "recording") /\ handlers'[h] = handlers[h]

LEMMA MovedRecorders ==
    ASSUME NEW h \in Handler, NEW pc, Moved(h, pc), handlers'[h] = None \/ pc # "recording"
    PROVE  SameRecorders
BY Zenon DEF Moved, SameRecorders, at

LEMMA DenialFrame ==
    ASSUME DenialInv, Untouched, UNCHANGED connectorDenials, SameRecorders
    PROVE  DenialInv'
BY UntouchedMeans, Zenon DEF DenialInv, SameRecorders, Usable, Writable, DenialRecordedOnce

LEMMA DenialWrites ==
    ASSUME DenialInv, TypeOK, NEW r, Wrote(r), r.phase # "deny", UNCHANGED connectorDenials, SameRecorders
    PROVE  DenialInv'
  <1>1. Usable /\ mode' = "live"
    BY Zenon DEF Wrote, Usable
  <1>2. \A i \in 1..seen' : (i \in 1..seen /\ file'[i] = file[i]) \/ file'[i] = r
    BY WroteMeans, Zenon
  <1>3. seen = Len(file) /\ seen' = Len(file')
    BY WroteMeans, Zenon
  <1>4. \A i \in 1..seen' : file'[i].phase = "deny" => file'[i].call.grant \in connectorDenials'
    BY <1>1, <1>2 DEF DenialInv
  <1>5. DenialRecordedOnce'
    BY <1>2, <1>3, Zenon DEF DenialInv, DenialRecordedOnce
  <1> QED  BY <1>4, <1>5, Zenon DEF DenialInv, SameRecorders

LEMMA DenialClaim ==
    ASSUME GatewayInv, NEW h \in Handler, ClaimDenial(h)
    PROVE  DenialInv'
  <1>1. DenialInv /\ Untouched /\ UNCHANGED connectorDenials /\ handlers[h] # None
    BY Zenon DEF ClaimDenial, GatewayInv, ledgerVars, Untouched, gatewayMemory, at
  <1>2. CASE return(h)
    BY <1>1, <1>2, ReturnMoves, MovedRecorders, DenialFrame DEF GatewayInv
  <1>3. CASE /\ handlers[h].call.grant \notin connectorDenials
             /\ ~\E k \in Handler : at(k, "recording") /\ handlers[k].call.grant = handlers[h].call.grant
             /\ goto(h, "recording")
    <2>1. Moved(h, "recording")
      BY <1>1, <1>3, GotoMoves DEF GatewayInv, Pc
    <2>2. \A k \in Handler : at(k, "recording")' =>
              \/ k = h /\ handlers'[k].call = handlers[h].call
              \/ k # h /\ at(k, "recording") /\ handlers'[k] = handlers[k]
      BY <2>1, Zenon DEF Moved, at
    <2>3. \A k \in Handler : at(k, "recording")' => handlers'[k].call.grant \notin connectorDenials'
      BY <1>1, <1>3, <2>2 DEF DenialInv
    <2>4. \A j, k \in Handler :
              at(j, "recording")' /\ at(k, "recording")' /\ handlers'[j].call.grant = handlers'[k].call.grant
              => j = k
      BY <1>1, <1>3, <2>2 DEF DenialInv
    <2> QED  BY <1>1, <2>3, <2>4, UntouchedMeans DEF DenialInv, Usable, Writable, DenialRecordedOnce
  <1> QED  BY <1>2, <1>3, Zenon DEF ClaimDenial

LEMMA DenialRecord ==
    ASSUME GatewayInv, NEW h \in Handler, RecordDenial(h)
    PROVE  DenialInv'
  <1> DEFINE c == handlers[h].call
  <1>1. DenialInv /\ Indexed /\ TypeOK /\ at(h, "recording") /\ c \in Calls
    BY Zenon DEF RecordDenial, GatewayInv, GatewayTypeOK, Indexed, at
  <1>2. SameRecorders /\ handlers'[h] = None
    BY ReturnMoves, MovedRecorders, Zenon DEF RecordDenial, GatewayInv
  <1>3. CASE UNCHANGED <<ledgerVars, connectorDenials>>
    BY <1>1, <1>2, <1>3, DenialFrame DEF ledgerVars, Untouched
  <1>4. ASSUME NEW r, r.phase = "deny", r.call = c, Wrote(r),
               connectorDenials' = connectorDenials \cup {c.grant} \/ (UNCHANGED connectorDenials /\ failed')
        PROVE  DenialInv'
    <2>1. Usable /\ mode' = "live" /\ c.grant \notin connectorDenials
      BY <1>1, <1>4 DEF Wrote, Usable, DenialInv
    <2>2. \A i \in 1..seen' : (i \in 1..seen /\ file'[i] = file[i]) \/ file'[i] = r
      BY <1>1, <1>4, WroteMeans, Zenon
    <2>3. seen = Len(file) /\ seen' = Len(file') /\ Len(file) \in Nat
      BY <1>1, <1>4, WroteMeans DEF TypeOK
    <2>4. \A i \in 1..seen : file[i].phase = "deny" => file[i].call.grant # c.grant
      BY <1>1, <2>1, Zenon DEF DenialInv
    <2>5. Usable' => \A i \in 1..seen' : file'[i].phase = "deny" => file'[i].call.grant \in connectorDenials'
      <3>1. Usable' => ~failed'
        BY <2>1, Zenon DEF Usable, Writable
      <3> QED  BY <1>1, <1>4, <2>1, <2>2, <3>1 DEF DenialInv
    <2>6. DenialRecordedOnce'
      <3>1. CASE file' = file
        BY <1>1, <3>1 DEF DenialInv, DenialRecordedOnce
      <3>2. CASE Grew(r)
        <4>1. /\ Len(file') = Len(file) + 1 /\ file'[Len(file) + 1] = r
              /\ \A i \in 1..Len(file) : file'[i] = file[i]
          BY <3>2, Zenon DEF Grew
        <4>2. \A i \in 1..Len(file') : i \in 1..Len(file) \/ i = Len(file) + 1
          BY <2>3, <4>1
        <4> QED  BY <1>1, <1>4, <2>3, <2>4, <4>1, <4>2 DEF DenialInv, DenialRecordedOnce
      <3> QED  BY <1>4, <3>1, <3>2, Zenon DEF Wrote
    <2>7. \A k \in Handler : at(k, "recording")' => k # h /\ at(k, "recording") /\ handlers'[k] = handlers[k]
      BY <1>2, Zenon DEF SameRecorders, at
    <2>8. \A k \in Handler : at(k, "recording")' => handlers'[k].call.grant \notin connectorDenials'
      BY <1>1, <1>4, <2>7 DEF DenialInv
    <2>9. \A j, k \in Handler :
              at(j, "recording")' /\ at(k, "recording")' /\ handlers'[j].call.grant = handlers'[k].call.grant
              => j = k
      BY <1>1, <2>7 DEF DenialInv
    <2> QED  BY <2>5, <2>6, <2>8, <2>9, Zenon DEF DenialInv
  <1>5. ASSUME NEW n \in LineSizes, AppendDeny(c, n), connectorDenials' = connectorDenials \cup {c.grant}
        PROVE  DenialInv'
    <2>1. Wrote(DenyRecord(c, n)) /\ DenyRecord(c, n).phase = "deny" /\ DenyRecord(c, n).call = c
      BY <1>1, <1>5, DenyWrote DEF DenyRecord
    <2> QED  BY <1>4, <1>5, <2>1, Zenon
  <1>6. ASSUME NEW n \in LineSizes, AppendDenyAmbiguous(c, n), UNCHANGED connectorDenials
        PROVE  DenialInv'
    <2>1. Wrote(DenyRecord(c, n)) /\ DenyRecord(c, n).phase = "deny" /\ DenyRecord(c, n).call = c /\ failed'
      BY <1>1, <1>6, DenyWrote DEF DenyRecord
    <2> QED  BY <1>4, <1>6, <2>1, Zenon
  <1> QED  BY <1>3, <1>5, <1>6, Zenon DEF RecordDenial, rejected

LEMMA DenialDown ==
    ASSUME GatewayInv, lost \/ Start \/ FinishOpen \/ VisitRecord
    PROVE  DenialInv'
  <1>1. TypeOK /\ (mode = "closed" => pos = 0) /\ DenialInv /\ file' = file
    BY Zenon DEF GatewayInv, Indexed, lost, Stop, Start, Open, FinishOpen, OpenComplete, VisitRecord, replayVisiting
  <1>2. \A h \in Handler : handlers'[h] = None
    <2>1. CASE lost
      BY <2>1, Zenon DEF lost
    <2>2. CASE Start \/ FinishOpen \/ VisitRecord
      <3>1. mode # "live" /\ UNCHANGED handlers
        BY <2>2, Zenon DEF Start, Open, FinishOpen, OpenComplete, VisitRecord, gatewayVars
      <3> QED  BY <3>1, Zenon DEF GatewayInv, FenceInv, ServesLive, IdleWhenDown
    <2> QED  BY <2>1, <2>2, Zenon
  <1>3. DenialRecordedOnce'
    BY <1>1, Zenon DEF DenialInv, DenialRecordedOnce
  <1>4. SUFFICES Usable' => \A i \in 1..seen' : file'[i].phase = "deny" => file'[i].call.grant \in connectorDenials'
    BY <1>2, <1>3, Zenon DEF DenialInv, at
  <1>5. CASE lost
    BY <1>5, Zenon DEF lost, Stop, Usable, Writable
  <1>6. CASE Start
    BY <1>1, <1>6 DEF Start, Open, Usable, Writable, seen
  <1>7. CASE FinishOpen
    <2>1. mode = "replay" /\ pos = Len(file) /\ UNCHANGED connectorDenials /\ mode' \in {"live", "refused"}
      BY <1>7, Zenon DEF FinishOpen, OpenComplete, gatewayVars, gatewayMemory
    <2> QED  BY <1>1, <2>1, Zenon DEF DenialInv, Usable, Writable, seen
  <1>8. CASE VisitRecord
    <2>1. mode = "replay" /\ (mode' = "refused" \/ (mode' = "replay" /\ pos' = pos + 1))
      BY <1>8, Zenon DEF VisitRecord, replayVisiting
    <2>2. /\ file[pos + 1].phase = "deny" => file[pos + 1].call.grant \in connectorDenials'
          /\ connectorDenials \subseteq connectorDenials'
      BY <1>8, Zenon DEF VisitRecord
    <2>3. pos \in Nat
      BY <1>1 DEF TypeOK
    <2>4. \A i \in 1..pos : file[i].phase = "deny" => file[i].call.grant \in connectorDenials
      BY <1>1, <2>1, Zenon DEF DenialInv, Usable, seen
    <2> QED  BY <1>1, <2>1, <2>2, <2>3, <2>4 DEF Usable, Writable, seen
  <1> QED  BY <1>5, <1>6, <1>7, <1>8, Zenon

LEMMA DenialStep ==
    ASSUME GatewayInv, Next
    PROVE  DenialInv'
  <1> USE DEF GatewayInv
  <1>1. TypeOK /\ Indexed /\ DenialInv
    BY Zenon DEF Indexed
  <1>2. \A h \in Handler : handlers[h] # None => handlers[h].call \in Calls
    BY Zenon DEF GatewayTypeOK
  <1>3. UNCHANGED ledgerVars => Untouched
    BY Zenon DEF ledgerVars, Untouched
  <1>4. UNCHANGED handlers => SameRecorders
    BY Zenon DEF SameRecorders, at
  <1>5. ASSUME UNCHANGED <<ledgerVars, handlers, connectorDenials>>
        PROVE  DenialInv'
    BY <1>1, <1>3, <1>4, <1>5, DenialFrame
  <1>6. ASSUME NEW h \in Handler, NEW pc, Moved(h, pc), handlers'[h] = None \/ pc # "recording",
               UNCHANGED connectorDenials,
               UNCHANGED ledgerVars \/ \E r : Wrote(r) /\ r.phase # "deny"
        PROVE  DenialInv'
    BY <1>1, <1>3, <1>6, MovedRecorders, DenialFrame, DenialWrites, Zenon
  <1>7. ASSUME NEW h \in Handler, NEW c \in Calls, Admit(h, c)
        PROVE  DenialInv'
    <2>1. SameRecorders
      BY <1>7, Zenon DEF Admit, SameRecorders, at, GatewayTypeOK
    <2> QED  BY <1>1, <1>3, <1>7, <2>1, DenialFrame DEF Admit, gatewayMemory
  <1>8. ASSUME NEW h \in Handler, HandlerStep(h)
        PROVE  DenialInv'
    <2> DEFINE c == handlers[h].call
    <2>1. CASE DenyPermit(h) \/ Reserve(h) \/ Contact(h)
      <3>1. handlers[h] # None /\ (return(h) \/ goto(h, "denied") \/ goto(h, "reserved") \/ goto(h, "contacted"))
        BY <2>1, Zenon DEF DenyPermit, Reserve, Contact, at
      <3>2. UNCHANGED <<connectorDenials, ledgerVars>>
        BY <2>1, Zenon DEF DenyPermit, Reserve, Contact, gatewayMemory
      <3>3. "denied" \in Pc /\ "reserved" \in Pc /\ "contacted" \in Pc
        BY DEF Pc
      <3> QED  BY <1>6, <3>1, <3>2, <3>3, GotoMoves, ReturnMoves, Zenon
    <2>2. CASE BeginCall(h)
      <3>1. c \in Calls /\ handlers[h] # None /\ UNCHANGED connectorDenials
        BY <1>2, <2>2, Zenon DEF BeginCall, at, gatewayMemory
      <3>2. ASSUME NEW n \in LineSizes, Begin(c, n) \/ BeginAmbiguous(c, n)
            PROVE  \E r : Wrote(r) /\ r.phase # "deny"
        <4>1. Wrote(AuthorizeRecord(c, n)) /\ AuthorizeRecord(c, n).phase # "deny"
          BY <1>1, <3>1, <3>2, BeginWrote DEF AuthorizeRecord
        <4> QED  BY <4>1, Zenon
      <3>3. UNCHANGED ledgerVars \/ \E r : Wrote(r) /\ r.phase # "deny"
        BY <2>2, <3>2, Zenon DEF BeginCall, rejected
      <3>4. return(h) \/ goto(h, "spent") \/ goto(h, "rejected")
        BY <2>2, Zenon DEF BeginCall
      <3>5. "spent" \in Pc /\ "rejected" \in Pc
        BY Zenon DEF Pc
      <3> QED  BY <1>6, <3>1, <3>3, <3>4, <3>5, GotoMoves, ReturnMoves
    <2>3. CASE FinishCall(h)
      <3>1. c \in Calls /\ handlers[h] # None /\ UNCHANGED connectorDenials
        BY <1>2, <2>3, Zenon DEF FinishCall, at, gatewayMemory
      <3>2. ASSUME NEW n \in LineSizes, NEW outcome \in {"responded", "failed"},
                   Finish(c, None, outcome, n) \/ FinishAmbiguous(c, None, outcome, n)
            PROVE  \E r : Wrote(r) /\ r.phase # "deny"
        <4>1. /\ Wrote(TerminalRecord(c, None, outcome, n))
              /\ TerminalRecord(c, None, outcome, n).phase # "deny"
          BY <1>1, <3>1, <3>2, FinishWrote, Zenon DEF TerminalRecord
        <4> QED  BY <4>1
      <3>3. UNCHANGED ledgerVars \/ \E r : Wrote(r) /\ r.phase # "deny"
        BY <2>3, <3>2, Zenon DEF FinishCall, rejected
      <3>4. return(h) \/ handlers' = [handlers EXCEPT ![h].pc = "finished", ![h].line = Len(file) + 1]
        BY <2>3, Zenon DEF FinishCall
      <3>5. ASSUME handlers' = [handlers EXCEPT ![h].pc = "finished", ![h].line = Len(file) + 1]
            PROVE  Moved(h, "finished")
        <4>1. Len(file) \in Nat /\ GatewayTypeOK
          BY <1>1 DEF TypeOK
        <4> QED  BY <3>1, <3>5, <4>1, FinishMoves, Zenon
      <3> QED  BY <1>6, <3>1, <3>3, <3>4, <3>5, ReturnMoves
    <2>4. CASE AdvanceInfluence(h) \/ Rollback(h)
      BY <1>6, <2>4, ReturnMoves, Zenon DEF AdvanceInfluence, Rollback
    <2> QED  BY <1>8, <2>1, <2>2, <2>3, <2>4, DenialClaim, DenialRecord DEF HandlerStep
  <1>9. ASSUME NEW t \in Task, CloseIncomplete(t)
        PROVE  DenialInv'
    <2> DEFINE c == pending[t].call
    <2>1. c \in Calls /\ UNCHANGED <<handlers, connectorDenials>>
      BY <1>1, <1>9, Zenon DEF CloseIncomplete, TypeOK, Record, gatewayMemory
    <2>2. PICK n \in LineSizes : Finish(c, None, "failed", n) \/ FinishAmbiguous(c, None, "failed", n)
      BY <1>9, Zenon DEF CloseIncomplete
    <2> DEFINE r == TerminalRecord(c, None, "failed", n)
    <2>3. Wrote(r) /\ r.phase # "deny"
      BY <1>1, <2>1, <2>2, FinishWrote, Zenon DEF TerminalRecord
    <2> HIDE DEF r
    <2> QED  BY <1>1, <1>4, <2>1, <2>3, DenialWrites, Zenon
  <1>10. ASSUME NEW g \in Grant, ExecutorStep(g)
         PROVE  DenialInv'
    BY <1>5, <1>10 DEF ExecutorStep, gatewayMemory
  <1>11. CASE Serve
    BY <1>5, <1>11, Zenon DEF Serve, gatewayMemory
  <1>12. CASE CloseAdvance
    BY <1>5, <1>12, DenialDown DEF CloseAdvance
  <1>13. CASE Crash \/ AbandonStart
    BY <1>13, DenialDown, Zenon DEF Crash, AbandonStart
  <1> QED  BY <1>7, <1>8, <1>9, <1>10, <1>11, <1>12, <1>13, DenialDown, Zenon DEF Next, StartStep

-----------------------------------------------------------------------------
(* Type correctness, step by step.                                         *)

(* Executor's steps keep the grants well typed and only ever retire        *)
(* semaphores.                                                             *)
LEMMA GrantsKept ==
    ASSUME GatewayTypeOK, Next
    PROVE  GrantsTypeOK' /\ \A g \in Grant : unregisters[g] <= unregisters'[g]
  <1> USE DEF GrantsTypeOK
  <1>1. GrantsTypeOK
    BY Zenon DEF GatewayTypeOK
  <1>2. UNCHANGED grantVars => GrantsTypeOK' /\ \A g \in Grant : unregisters[g] <= unregisters'[g]
    BY <1>1 DEF grantVars
  <1>3. loadExisting => GrantsTypeOK' /\ \A g \in Grant : unregisters[g] <= unregisters'[g]
    BY <1>1 DEF loadExisting
  <1>4. ASSUME NEW g \in Grant, ExecutorStep(g)
        PROVE  GrantsTypeOK' /\ \A k \in Grant : unregisters[k] <= unregisters'[k]
    <2>1. CASE Register(g) \/ Activate(g)
      BY <1>1, <2>1 DEF Register, Activate
    <2>2. CASE Deactivate(g)
      BY <1>1, <2>2 DEF Deactivate, revokeGrantLocked
    <2>3. CASE Unregister(g)
      BY <1>1, <2>3 DEF Unregister, revokeGrantLocked
    <2> QED  BY <1>4, <2>1, <2>2, <2>3, Zenon DEF ExecutorStep
  <1>5. ASSUME NEW h \in Handler, HandlerStep(h)
        PROVE  UNCHANGED grantVars
    BY <1>5, Zenon DEF HandlerStep, DenyPermit, ClaimDenial, RecordDenial, Reserve, BeginCall, Rollback,
                       Contact, FinishCall, AdvanceInfluence
  <1>6. ASSUME NEW h \in Handler, NEW c \in Calls, Admit(h, c)
        PROVE  UNCHANGED grantVars
    BY <1>6, Zenon DEF Admit
  <1>7. Crash => loadExisting
    BY Zenon DEF Crash, lost
  <1>8. StartStep => loadExisting \/ UNCHANGED grantVars
    BY Zenon DEF StartStep, Start, VisitRecord, FinishOpen, CloseIncomplete, CloseAdvance,
                 AbandonStart, Serve, lost, gatewayVars
  <1> HIDE DEF GrantsTypeOK
  <1> QED  BY <1>2, <1>3, <1>4, <1>5, <1>6, <1>7, <1>8, Zenon DEF Next

(* A request keeps its call and semaphore, which is one its grant had.     *)
LEMMA RequestsKept ==
    ASSUME GatewayInv, Next
    PROVE  /\ handlers' \in [Handler -> {None} \cup Requests]
           /\ \A h \in Handler : handlers'[h] # None =>
                 handlers'[h].semaphore <= unregisters'[handlers'[h].call.grant]
  <1>1. /\ GatewayTypeOK /\ handlers \in [Handler -> {None} \cup Requests]
        /\ \A h \in Handler : handlers[h] # None =>
              handlers[h].semaphore <= unregisters[handlers[h].call.grant]
        /\ \A g \in Grant : unregisters[g] \in Nat /\ unregisters'[g] \in Nat /\ unregisters[g] <= unregisters'[g]
    BY GrantsKept, Zenon DEF GatewayInv, GatewayTypeOK, GrantsTypeOK, Requests
  <1>2. \A h \in Handler : handlers[h] # None =>
            handlers[h] \in Requests /\ handlers[h].call.grant \in Grant /\ handlers[h].semaphore \in Nat
    BY <1>1, CallFields, Zenon DEF Requests
  <1>3. ASSUME NEW h \in Handler, NEW k \in Handler, handlers'[k] = handlers[k], handlers'[k] # None
        PROVE  handlers'[k].semaphore <= unregisters'[handlers'[k].call.grant]
    BY <1>1, <1>2, <1>3
  <1>4. CASE UNCHANGED handlers
    BY <1>1, <1>3, <1>4, Zenon
  <1>5. CASE handlers' = [h \in Handler |-> None]
    BY <1>5, Zenon
  <1>6. ASSUME NEW h \in Handler, NEW c \in Calls, Admit(h, c)
        PROVE  /\ handlers' \in [Handler -> {None} \cup Requests]
               /\ \A k \in Handler : handlers'[k] # None =>
                     handlers'[k].semaphore <= unregisters'[handlers'[k].call.grant]
    <2> DEFINE v == [pc |-> "admitted", call |-> c, semaphore |-> unregisters[c.grant], line |-> 0]
    <2>1. c.grant \in Grant
      BY CallFields, Zenon
    <2>2. v \in Requests
      BY <1>1, <2>1, Zenon DEF Requests, Pc
    <2>3. v.semaphore = unregisters[c.grant] /\ v.call = c
      OBVIOUS
    <2>4. handlers' = [handlers EXCEPT ![h] = v]
      BY <1>6, Zenon DEF Admit
    <2> HIDE DEF v
    <2> QED  BY <1>1, <1>3, <2>1, <2>2, <2>3, <2>4, Zenon
  <1>7. ASSUME NEW h \in Handler, HandlerStep(h)
        PROVE  /\ handlers' \in [Handler -> {None} \cup Requests]
               /\ \A k \in Handler : handlers'[k] # None =>
                     handlers'[k].semaphore <= unregisters'[handlers'[k].call.grant]
    <2>1. /\ handlers[h] # None
          /\ \/ return(h) 
             \/ \E pc \in Pc : goto(h, pc)
             \/ handlers' = [handlers EXCEPT ![h].pc = "finished", ![h].line = Len(file) + 1]
      <3>1. "denied" \in Pc /\ "recording" \in Pc /\ "reserved" \in Pc /\ "rejected" \in Pc
            /\ "spent" \in Pc /\ "contacted" \in Pc
        BY Zenon DEF Pc
      <3>2. CASE DenyPermit(h) \/ ClaimDenial(h) \/ RecordDenial(h) \/ Reserve(h) \/ Rollback(h) \/ Contact(h)
                 \/ AdvanceInfluence(h)
        BY <3>1, <3>2, Zenon DEF DenyPermit, ClaimDenial, RecordDenial, Reserve, Rollback, Contact,
                                 AdvanceInfluence, at
      <3>3. CASE BeginCall(h)
        BY <3>1, <3>3, Zenon DEF BeginCall, at
      <3>4. CASE FinishCall(h)
        BY <3>4, Zenon DEF FinishCall, at
      <3> QED  BY <1>7, <3>2, <3>3, <3>4, Zenon DEF HandlerStep
    <2>2. Len(file) \in Nat
      BY DEF GatewayInv, Indexed, TypeOK
    <2>3. /\ handlers' \in [Handler -> {None} \cup Requests]
          /\ \A k \in Handler : k # h => handlers'[k] = handlers[k]
          /\ handlers'[h] # None => /\ handlers'[h].call = handlers[h].call
                                    /\ handlers'[h].semaphore = handlers[h].semaphore
      BY <1>1, <2>1, <2>2, GotoMoves, ReturnMoves, FinishMoves, Zenon DEF Moved
    <2> QED  BY <1>1, <1>2, <1>3, <2>1, <2>3
  <1>8. ASSUME NEW g \in Grant, ExecutorStep(g)
        PROVE  UNCHANGED handlers
    BY <1>8, Zenon DEF ExecutorStep
  <1>9. Crash \/ StartStep => UNCHANGED handlers \/ handlers' = [h \in Handler |-> None]
    BY Zenon DEF Crash, StartStep, Start, VisitRecord, FinishOpen, CloseIncomplete, CloseAdvance,
                 AbandonStart, Serve, lost, gatewayVars
  <1> QED  BY <1>4, <1>5, <1>6, <1>7, <1>8, <1>9, Zenon DEF Next

(* The types of the maps Gateway rebuilds from the ledger.                 *)
MemoryOK ==
    /\ connectorSpends \subseteq Task
    /\ connectorCallCounts \in [Grant -> Nat]
    /\ connectorInfluences \in [Grant -> Seq(Nat)]
    /\ connectorDenials \subseteq Grant

LEMMA MemoryKept ==
    ASSUME GatewayInv, Next,
           \A h \in Handler : Rollback(h) => connectorCallCounts' \in [Grant -> Nat]
    PROVE  MemoryOK'
  <1>1. MemoryOK /\ TypeOK
    BY Zenon DEF GatewayInv, Indexed, GatewayTypeOK, MemoryOK
  <1>2. UNCHANGED gatewayMemory => MemoryOK'
    BY <1>1, Zenon DEF gatewayMemory, MemoryOK
  <1>3. EmptyMemory => MemoryOK'
    BY DEF EmptyMemory, MemoryOK
  <1>12. /\ connectorInfluences \in [Grant -> Seq(Nat)]
         /\ \A g \in Grant, n \in Nat :
               connectorInfluences' = [connectorInfluences EXCEPT ![g] = Append(@, n)]
               => connectorInfluences' \in [Grant -> Seq(Nat)]
         /\ UNCHANGED connectorInfluences => connectorInfluences' \in [Grant -> Seq(Nat)]
    <2>1. connectorInfluences \in [Grant -> Seq(Nat)]
      BY <1>1, Zenon DEF MemoryOK
    <2>2. \A g \in Grant, n \in Nat : Append(connectorInfluences[g], n) \in Seq(Nat)
      BY <2>1
    <2> QED  BY <2>1, <2>2, Zenon
  <1>4. ASSUME NEW h \in Handler, HandlerStep(h)
        PROVE  MemoryOK'
    <2> DEFINE c == handlers[h].call
    <2>1. handlers[h] # None /\ handlers[h] \in Requests
      <3>1. handlers[h] # None
        BY <1>4, Zenon DEF HandlerStep, DenyPermit, ClaimDenial, RecordDenial, Reserve, BeginCall, Rollback,
                    Contact, FinishCall, AdvanceInfluence, at
      <3> QED  BY <3>1, Zenon DEF GatewayInv, GatewayTypeOK, Requests
    <2>2. c \in Calls /\ c.task \in Task /\ c.grant \in Grant /\ handlers[h].line \in Nat
      BY <2>1, CallFields, Zenon DEF Requests
    <2> HIDE DEF c
    <2>3. CASE DenyPermit(h) \/ ClaimDenial(h) \/ BeginCall(h) \/ Contact(h) \/ FinishCall(h)
      BY <1>2, <2>3, Zenon DEF DenyPermit, ClaimDenial, BeginCall, Contact, FinishCall
    <2>4. CASE RecordDenial(h)
      <3>1. /\ UNCHANGED <<connectorSpends, connectorCallCounts, connectorInfluences>>
            /\ \/ UNCHANGED connectorDenials
               \/ connectorDenials' = connectorDenials \cup {c.grant}
        BY <2>4, Zenon DEF RecordDenial, c
      <3> QED  BY <1>1, <2>2, <3>1, Zenon DEF MemoryOK
    <2>5. CASE Reserve(h)
      <3>1. /\ UNCHANGED <<connectorInfluences, connectorDenials>>
            /\ \/ /\ connectorSpends' = connectorSpends \cup {c.task}
                  /\ connectorCallCounts' = [connectorCallCounts EXCEPT ![c.grant] = @ + 1]
               \/ UNCHANGED <<connectorSpends, connectorCallCounts>>
        BY <2>5, Zenon DEF Reserve, c
      <3>2. connectorSpends' \subseteq Task
        BY <1>1, <2>2, <3>1, Zenon DEF MemoryOK
      <3>3. connectorCallCounts' \in [Grant -> Nat]
        <4>1. connectorCallCounts \in [Grant -> Nat]
          BY <1>1, Zenon DEF MemoryOK
        <4> QED  BY <2>2, <3>1, <4>1
      <3> QED  BY <1>1, <3>1, <3>2, <3>3, Zenon DEF MemoryOK
    <2>6. CASE Rollback(h)
      <3>1. UNCHANGED <<connectorInfluences, connectorDenials>> /\ connectorSpends' \subseteq connectorSpends
        BY <2>6, Zenon DEF Rollback
      <3>2. connectorCallCounts' \in [Grant -> Nat]
        BY <2>6, Zenon
      <3> QED  BY <1>1, <3>1, <3>2, Zenon DEF MemoryOK
    <2>7. CASE AdvanceInfluence(h)
      <3>1. UNCHANGED <<connectorSpends, connectorCallCounts, connectorDenials>>
        BY <2>7, Zenon DEF AdvanceInfluence
      <3>2. \/ connectorInfluences' = [connectorInfluences EXCEPT ![c.grant] = Append(@, handlers[h].line)]
            \/ UNCHANGED connectorInfluences
        BY <2>7, Zenon DEF AdvanceInfluence, c
      <3>3. connectorInfluences' \in [Grant -> Seq(Nat)]
        BY <1>12, <2>2, <3>2, Zenon
      <3> QED  BY <1>1, <3>1, <3>3, Zenon DEF MemoryOK
    <2> QED  BY <1>4, <2>3, <2>4, <2>5, <2>6, <2>7, Zenon DEF HandlerStep
  <1>5. CASE VisitRecord
    <2> DEFINE r == file[pos + 1]
    <2>1. pos \in Nat /\ r \in Record
      BY <1>1, <1>5 DEF VisitRecord, TypeOK
    <2>2. r.call.grant \in Grant /\ r.call.task \in Task
      BY <2>1, CallFields, Zenon DEF Record
    <2> HIDE DEF r
    <2>3. \/ connectorInfluences' = [connectorInfluences EXCEPT ![r.call.grant] = Append(@, pos + 1)]
          \/ UNCHANGED connectorInfluences
      BY <1>5, Zenon DEF VisitRecord, r
    <2>4. \/ connectorDenials' = connectorDenials \cup {r.call.grant}
          \/ UNCHANGED connectorDenials
      BY <1>5, Zenon DEF VisitRecord, r
    <2>5. \/ /\ connectorSpends' = connectorSpends \cup {r.call.task}
             /\ connectorCallCounts' = [connectorCallCounts EXCEPT ![r.call.grant] = @ + 1]
          \/ UNCHANGED <<connectorSpends, connectorCallCounts>>
      BY <1>5, Zenon DEF VisitRecord, r
    <2>6. pos + 1 \in Nat
      BY <2>1
    <2>7. connectorInfluences' \in [Grant -> Seq(Nat)]
      BY <1>12, <2>2, <2>3, <2>6, Zenon
    <2>8. connectorSpends' \subseteq Task /\ connectorCallCounts' \in [Grant -> Nat]
      BY <1>1, <2>2, <2>5 DEF MemoryOK
    <2>9. connectorDenials' \subseteq Grant
      BY <1>1, <2>2, <2>4, Zenon DEF MemoryOK
    <2> QED  BY <2>7, <2>8, <2>9, Zenon DEF MemoryOK
  <1>6. CASE CloseAdvance
    <2>1. CASE lost
      BY <1>3, <2>1, Zenon DEF lost
    <2>2. CASE ~lost
      <3> DEFINE g == closing.call.grant
      <3>1. closing.call \in Calls /\ closing.line \in Nat
        BY <1>6, Zenon DEF CloseAdvance, GatewayInv, GatewayTypeOK
      <3>2. g \in Grant
        BY <3>1, CallFields, Zenon
      <3>3. /\ connectorInfluences' = [connectorInfluences EXCEPT ![g] = Append(@, closing.line)]
            /\ UNCHANGED <<connectorSpends, connectorCallCounts, connectorDenials>>
        BY <1>6, <2>2, Zenon DEF CloseAdvance
      <3> HIDE DEF g
      <3>4. connectorInfluences' \in [Grant -> Seq(Nat)]
        BY <1>12, <3>1, <3>2, <3>3, Zenon
      <3> QED  BY <1>1, <3>3, <3>4, Zenon DEF MemoryOK
    <2> QED  BY <2>1, <2>2, Zenon
  <1>7. CASE Crash \/ AbandonStart
    BY <1>3, <1>7, Zenon DEF Crash, AbandonStart, lost
  <1>8. CASE Start \/ FinishOpen \/ Serve
    BY <1>2, <1>8, Zenon DEF Start, FinishOpen, Serve, gatewayVars
  <1>9. ASSUME NEW t \in Task, CloseIncomplete(t)
        PROVE  MemoryOK'
    BY <1>2, <1>9, Zenon DEF CloseIncomplete
  <1>10. ASSUME NEW g \in Grant, ExecutorStep(g)
         PROVE  MemoryOK'
    BY <1>2, <1>10, Zenon DEF ExecutorStep
  <1>11. ASSUME NEW h \in Handler, NEW c \in Calls, Admit(h, c)
         PROVE  MemoryOK'
    BY <1>2, <1>11, Zenon DEF Admit
  <1> QED  BY <1>4, <1>5, <1>6, <1>7, <1>8, <1>9, <1>10, <1>11, Zenon DEF Next, StartStep

LEMMA RestKept ==
    ASSUME GatewayInv, Next
    PROVE  /\ serving' \in BOOLEAN
           /\ closing' \in {None} \cup [call : Calls, line : Nat]
           /\ effects' \in [Task -> Nat]
           /\ stops' \in 0..MaxStops
  <1>1. /\ serving \in BOOLEAN /\ closing \in {None} \cup [call : Calls, line : Nat]
        /\ effects \in [Task -> Nat] /\ stops \in 0..MaxStops /\ MaxStops \in Nat /\ Len(file) \in Nat
    BY GatewayAssumption DEF GatewayInv, GatewayTypeOK, Indexed, TypeOK
  <1>2. ASSUME NEW h \in Handler, HandlerStep(h)
        PROVE  UNCHANGED <<serving, closing, stops>> /\ effects' \in [Task -> Nat]
    <2>1. CASE Contact(h)
      <3>1. handlers[h].call.task \in Task
        BY <2>1, CallFields, Zenon DEF Contact, at, GatewayInv, GatewayTypeOK
      <3> QED  BY <1>1, <2>1, <3>1 DEF Contact
    <2>2. CASE ~Contact(h)
      <3>1. UNCHANGED <<serving, closing, stops, effects>>
        BY <1>2, <2>2, Zenon DEF HandlerStep, DenyPermit, ClaimDenial, RecordDenial, Reserve, BeginCall,
                                 Rollback, FinishCall, AdvanceInfluence
      <3> QED  BY <1>1, <3>1, Zenon
    <2> QED  BY <2>1, <2>2, Zenon
  <1>3. ASSUME NEW h \in Handler, NEW c \in Calls, Admit(h, c)
        PROVE  UNCHANGED <<serving, closing, effects, stops>>
    BY <1>3, Zenon DEF Admit
  <1>4. ASSUME NEW g \in Grant, ExecutorStep(g)
        PROVE  UNCHANGED <<serving, closing, effects, stops>>
    BY <1>4, Zenon DEF ExecutorStep
  <1>5. ASSUME NEW t \in Task, CloseIncomplete(t)
        PROVE  UNCHANGED <<serving, effects, stops>> /\ closing' \in {None} \cup [call : Calls, line : Nat]
    <2>1. pending[t].call \in Calls
      BY <1>5, Zenon DEF CloseIncomplete, GatewayInv, Indexed, TypeOK, Record
    <2>2. UNCHANGED <<serving, effects, stops>>
      BY <1>5, Zenon DEF CloseIncomplete
    <2>3. \/ closing' = [call |-> pending[t].call, line |-> Len(file) + 1]
          \/ closing' = None
          \/ UNCHANGED closing
      BY <1>5, Zenon DEF CloseIncomplete
    <2> QED  BY <1>1, <2>1, <2>2, <2>3
  <1>6. Start \/ FinishOpen \/ VisitRecord => UNCHANGED <<serving, closing, effects, stops>>
    BY Zenon DEF Start, FinishOpen, VisitRecord, gatewayVars
  <1>7. CloseAdvance \/ AbandonStart \/ Serve =>
            /\ serving' \in BOOLEAN /\ UNCHANGED <<effects, stops>>
            /\ closing' = None \/ UNCHANGED closing
    BY <1>1, Zenon DEF CloseAdvance, AbandonStart, Serve, lost
  <1>8. Crash => serving' = FALSE /\ closing' = None /\ UNCHANGED effects /\ stops' \in 0..MaxStops
    BY <1>1 DEF Crash, lost
  <1> QED  BY <1>1, <1>2, <1>3, <1>4, <1>5, <1>6, <1>7, <1>8, Zenon DEF Next, StartStep

=============================================================================
