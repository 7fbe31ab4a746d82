----------------------- MODULE GatewayConnectorProofs -----------------------
(***************************************************************************)
(* Proofs about GatewayConnector for every set of tasks, calls, grants and *)
(* requests in flight, and every budget, that its assumptions allow.  The  *)
(* ledger's own invariant comes from ConnectorLedgerProofs.                *)
(***************************************************************************)
EXTENDS GatewayConnectorSteps, ConnectorLedgerProofs, FiniteSetTheorems

-----------------------------------------------------------------------------
(* CountInv, step by step.                                                 *)

LEMMA FiniteCounts ==
    ASSUME TypeOK, NEW g
    PROVE  /\ seen \in Nat
           /\ IsFiniteSet(CallsSeen(g)) /\ Cardinality(CallsSeen(g)) \in Nat
           /\ IsFiniteSet(Reserving(g)) /\ Cardinality(Reserving(g)) \in Nat
  <1>1. seen \in Nat
    BY DEF TypeOK, seen
  <1>2. IsFiniteSet(1..seen)
    BY <1>1, FS_Interval
  <1>3. CallsSeen(g) \subseteq 1..seen /\ Reserving(g) \subseteq Handler
    BY Zenon DEF CallsSeen, Reserving
  <1>4. IsFiniteSet(CallsSeen(g)) /\ IsFiniteSet(Reserving(g))
    BY <1>2, <1>3, FS_Subset, GatewayAssumption, Zenon
  <1> QED  BY <1>1, <1>4, FS_CardinalityType, Zenon

(* One call more, or none, is in memory when one more line is.             *)
LEMMA OneMoreCall ==
    ASSUME TypeOK, TypeOK', seen' = seen + 1, \A i \in 1..seen : file'[i] = file[i],
           NEW r, r = file'[seen'], NEW g
    PROVE  Cardinality(CallsSeen(g)') =
               Cardinality(CallsSeen(g)) + IF r.phase = "authorize" /\ r.call.grant = g THEN 1 ELSE 0
  <1>1. seen \in Nat /\ IsFiniteSet(CallsSeen(g)) /\ Cardinality(CallsSeen(g)) \in Nat
    BY FiniteCounts, Zenon
  <1>2. CASE r.phase = "authorize" /\ r.call.grant = g
    <2>1. CallsSeen(g)' = CallsSeen(g) \cup {seen + 1} /\ seen + 1 \notin CallsSeen(g)
      BY <1>1, <1>2 DEF CallsSeen
    <2>2. Cardinality(CallsSeen(g) \cup {seen + 1}) = Cardinality(CallsSeen(g)) + 1
      BY <1>1, <2>1, FS_AddElement, Zenon
    <2> QED  BY <1>2, <2>1, <2>2, Zenon
  <1>3. CASE ~(r.phase = "authorize" /\ r.call.grant = g)
    <2>1. CallsSeen(g)' = CallsSeen(g)
      BY <1>1, <1>3 DEF CallsSeen
    <2> QED  BY <1>1, <1>3, <2>1
  <1> QED  BY <1>2, <1>3, Zenon

(* The calls in the file after a write.                                    *)
LEMMA WroteCounts ==
    ASSUME TypeOK, TypeOK', NEW r, Wrote(r), NEW g
    PROVE  /\ Cardinality(CallsSeen(g)') \in Nat
           /\ Cardinality(CallsSeen(g)') <=
                  Cardinality(CallsSeen(g)) + IF r.phase = "authorize" /\ r.call.grant = g THEN 1 ELSE 0
           /\ Cardinality(CallsSeen(g)') >= Cardinality(CallsSeen(g))
  <1>1. /\ Len(file) \in Nat /\ Cardinality(CallsSeen(g)) \in Nat
        /\ mode = "live" /\ mode' = "live" /\ seen = Len(file) /\ seen' = Len(file')
    BY FiniteCounts, WroteMeans, Zenon DEF TypeOK
  <1>2. CASE file' = file
    <2>1. CallsSeen(g)' = CallsSeen(g)
      BY <1>1, <1>2, Zenon DEF CallsSeen
    <2> QED  BY <1>1, <2>1
  <1>3. CASE Grew(r)
    <2>1. /\ seen' = seen + 1 /\ r = file'[seen']
          /\ \A i \in 1..seen : file'[i] = file[i]
      BY <1>1, <1>3, Zenon DEF Grew
    <2>2. Cardinality(CallsSeen(g)') =
              Cardinality(CallsSeen(g)) + IF r.phase = "authorize" /\ r.call.grant = g THEN 1 ELSE 0
      BY <2>1, OneMoreCall, Zenon
    <2> QED  BY <1>1, <2>2
  <1> QED  BY <1>2, <1>3, Zenon DEF Wrote

(* CallBudget speaks of the whole file, CallsSeen of the lines in memory.  *)
LEMMA BudgetSeen ==
    ASSUME mode = "live", mode' = "live"
    PROVE  /\ CallBudget <=> \A g \in Grant : Cardinality(CallsSeen(g)) <= MaxCallsPerGrant[g]
           /\ CallBudget' <=> \A g \in Grant : Cardinality(CallsSeen(g)') <= MaxCallsPerGrant[g]
BY Zenon DEF CallBudget, CallsSeen, seen

(* Fewer requests hold a reservation, and nothing is written or counted.   *)
LEMMA CountFrame ==
    ASSUME CountInv, TypeOK, TypeOK', Untouched, UNCHANGED <<connectorCallCounts, serving>>,
           connectorCallCounts \in [Grant -> Nat],
           \A g \in Grant : Reserving(g)' \subseteq Reserving(g)
    PROVE  CountInv'
  <1>1. file' = file /\ seen' = seen /\ mode' = mode
    BY UntouchedMeans, Zenon
  <1>2. \A g \in Grant : CallsSeen(g)' = CallsSeen(g)
    BY <1>1, Zenon DEF CallsSeen
  <1>3. \A g \in Grant : /\ Cardinality(CallsSeen(g)) \in Nat
                         /\ Cardinality(Reserving(g)) \in Nat
                         /\ Cardinality(Reserving(g)') \in Nat
                         /\ Cardinality(Reserving(g)') <= Cardinality(Reserving(g))
    <2> SUFFICES ASSUME NEW g \in Grant
                 PROVE  /\ Cardinality(CallsSeen(g)) \in Nat
                        /\ Cardinality(Reserving(g)) \in Nat
                        /\ Cardinality(Reserving(g)') \in Nat
                        /\ Cardinality(Reserving(g)') <= Cardinality(Reserving(g))
      OBVIOUS
    <2>1. IsFiniteSet(Reserving(g)) /\ Reserving(g)' \in SUBSET Reserving(g)
      BY FiniteCounts, Zenon
    <2>2. IsFiniteSet(Reserving(g)') /\ Cardinality(Reserving(g)') <= Cardinality(Reserving(g))
      BY <2>1, FS_Subset, Zenon
    <2> QED  BY <2>1, <2>2, FiniteCounts, FS_CardinalityType, Zenon
  <1>4. CallBudget'
    BY <1>1, Zenon DEF CountInv, CallBudget
  <1> QED  BY <1>1, <1>2, <1>3, <1>4 DEF CountInv

(* Requests other than h have not moved, and h holds no reservation.       *)
LEMMA ReservingShrinks ==
    ASSUME NEW h \in Handler, NEW pc, Moved(h, pc),
           handlers'[h] = None \/ pc \notin {"reserved", "rejected"}
    PROVE  \A g : Reserving(g)' = Reserving(g) \ {h}
BY Zenon DEF Moved, Reserving, Unspent, at

(* A denial or a terminal record is no call.                               *)
LEMMA CountWrites ==
    ASSUME CountInv, TypeOK, TypeOK', NEW r, Wrote(r), r.phase # "authorize",
           UNCHANGED <<connectorCallCounts, serving>>, connectorCallCounts \in [Grant -> Nat],
           \A g \in Grant : Reserving(g)' \subseteq Reserving(g)
    PROVE  CountInv'
  <1>1. mode = "live" /\ mode' = "live"
    BY WroteMeans, Zenon
  <1>2. ASSUME NEW g \in Grant
        PROVE  /\ Cardinality(CallsSeen(g)') = Cardinality(CallsSeen(g))
               /\ Cardinality(CallsSeen(g)) \in Nat
               /\ Cardinality(Reserving(g)) \in Nat
               /\ Cardinality(Reserving(g)') \in Nat
               /\ Cardinality(Reserving(g)') <= Cardinality(Reserving(g))
    <2>1. IsFiniteSet(Reserving(g)) /\ Reserving(g)' \in SUBSET Reserving(g)
      BY FiniteCounts, Zenon
    <2>2. IsFiniteSet(Reserving(g)') /\ Cardinality(Reserving(g)') <= Cardinality(Reserving(g))
      BY <2>1, FS_Subset, Zenon
    <2>3. Cardinality(CallsSeen(g)') = Cardinality(CallsSeen(g)) /\ Cardinality(CallsSeen(g)) \in Nat
      BY WroteCounts, FiniteCounts
    <2> QED  BY <2>1, <2>2, <2>3, FS_CardinalityType, Zenon
  <1>3. CallBudget'
    BY <1>1, <1>2, BudgetSeen, Zenon DEF CountInv
  <1> QED  BY <1>1, <1>2, <1>3 DEF CountInv

LEMMA CountReserve ==
    ASSUME GatewayInv, TypeOK', NEW h \in Handler, Reserve(h)
    PROVE  CountInv'
  <1> DEFINE c == handlers[h].call
  <1>1. /\ serving /\ handlers[h] # None /\ c \in Calls /\ c.grant \in Grant
        /\ mode = "live" /\ connectorCallCounts \in [Grant -> Nat]
    BY CallFields, Zenon DEF GatewayInv, GatewayTypeOK, FenceInv, ServesLive, IdleWhenDown, Reserve, at
  <1>2. CountInv /\ TypeOK /\ Untouched /\ UNCHANGED serving
    BY DEF Reserve, GatewayInv, Indexed, ledgerVars, Untouched
  <1>3. CASE return(h) /\ UNCHANGED connectorCallCounts
    <2>1. \A g : Reserving(g)' = Reserving(g) \ {h}
      BY <1>3, ReturnMoves, ReservingShrinks DEF GatewayInv
    <2> QED  BY <1>1, <1>2, <1>3, <2>1, CountFrame, Zenon
  <1>4. CASE /\ goto(h, "reserved") /\ connectorCallCounts[c.grant] < MaxCallsPerGrant[c.grant]
             /\ connectorCallCounts' = [connectorCallCounts EXCEPT ![c.grant] = @ + 1]
    <2>1. Moved(h, "reserved")
      BY <1>1, <1>4, GotoMoves DEF GatewayInv, Pc
    <2>2. file' = file /\ seen' = seen /\ mode' = mode
      BY <1>2, UntouchedMeans, Zenon
    <2>3. \A g \in Grant : CallsSeen(g)' = CallsSeen(g)
      BY <2>2, Zenon DEF CallsSeen
    <2>4. ASSUME NEW g \in Grant
          PROVE  /\ Cardinality(CallsSeen(g)) \in Nat
                 /\ Cardinality(Reserving(g)) \in Nat
                 /\ Cardinality(Reserving(g)') \in Nat
                 /\ Cardinality(Reserving(g)') <= Cardinality(Reserving(g)) + (IF g = c.grant THEN 1 ELSE 0)
      <3>1. Reserving(g)' \subseteq IF g = c.grant THEN Reserving(g) \cup {h} ELSE Reserving(g)
        BY <2>1, Zenon DEF Moved, Reserving, Unspent, at
      <3>2. IsFiniteSet(Reserving(g)) /\ Cardinality(Reserving(g)) \in Nat /\ Cardinality(CallsSeen(g)) \in Nat
        BY <1>2, FiniteCounts, Zenon
      <3>3. /\ IsFiniteSet(Reserving(g) \cup {h})
            /\ Cardinality(Reserving(g) \cup {h}) \in Nat
            /\ Cardinality(Reserving(g) \cup {h}) <= Cardinality(Reserving(g)) + 1
        <4>1. /\ IsFiniteSet(Reserving(g) \cup {h})
              /\ Cardinality(Reserving(g) \cup {h}) =
                     IF h \in Reserving(g) THEN Cardinality(Reserving(g)) ELSE Cardinality(Reserving(g)) + 1
          BY <3>2, FS_AddElement, Zenon
        <4> QED  BY <3>2, <4>1
      <3>4. CASE g = c.grant
        <4>1. /\ IsFiniteSet(Reserving(g)')
              /\ Cardinality(Reserving(g)') <= Cardinality(Reserving(g) \cup {h})
          BY <3>1, <3>3, <3>4, FS_Subset, Zenon
        <4> QED  BY <3>2, <3>3, <3>4, <4>1, FS_CardinalityType
      <3>5. CASE g # c.grant
        <4>1. /\ IsFiniteSet(Reserving(g)')
              /\ Cardinality(Reserving(g)') <= Cardinality(Reserving(g))
          BY <3>1, <3>2, <3>5, FS_Subset, Zenon
        <4> QED  BY <3>2, <3>5, <4>1, FS_CardinalityType
      <3> QED  BY <3>4, <3>5, Zenon
    <2>5. \A g \in Grant : /\ connectorCallCounts'[g] = connectorCallCounts[g] + (IF g = c.grant THEN 1 ELSE 0)
                           /\ connectorCallCounts[g] \in Nat
      BY <1>1, <1>4 DEF GatewayTypeOK
    <2>6. CallBudget'
      BY <1>2, <2>2, Zenon DEF CountInv, CallBudget
    <2>7. ASSUME NEW g \in Grant
          PROVE  connectorCallCounts'[g] <= MaxCallsPerGrant[g]
      <3>1. MaxCallsPerGrant[g] \in Nat
        BY GatewayAssumption, Zenon
      <3>2. connectorCallCounts[g] <= MaxCallsPerGrant[g]
        BY <1>1, <1>2, Zenon DEF CountInv
      <3>3. g = c.grant => connectorCallCounts[g] < MaxCallsPerGrant[g]
        BY <1>4, Zenon
      <3> QED  BY <2>5, <3>1, <3>2, <3>3
    <2>8. \A g \in Grant : Cardinality(CallsSeen(g)') + Cardinality(Reserving(g)') <= connectorCallCounts'[g]
      BY <1>1, <1>2, <2>3, <2>4, <2>5 DEF CountInv
    <2> QED  BY <1>1, <1>2, <2>6, <2>7, <2>8, Zenon DEF CountInv
  <1> QED  BY <1>3, <1>4, Zenon DEF Reserve

LEMMA CountRollback ==
    ASSUME GatewayInv, TypeOK', NEW h \in Handler, Rollback(h)
    PROVE  CountInv' /\ connectorCallCounts' \in [Grant -> Nat]
  <1> DEFINE c == handlers[h].call
  <1>1. /\ serving /\ handlers[h] # None /\ c \in Calls /\ c.grant \in Grant /\ Unspent(h)
        /\ mode = "live" /\ connectorCallCounts \in [Grant -> Nat]
    BY CallFields, Zenon DEF GatewayInv, GatewayTypeOK, FenceInv, ServesLive, IdleWhenDown, Rollback, at, Unspent
  <1>2. CountInv /\ TypeOK /\ Untouched /\ UNCHANGED serving
    BY Zenon DEF Rollback, GatewayInv, Indexed, ledgerVars, Untouched
  <1>3. \A g : Reserving(g)' = Reserving(g) \ {h}
    BY ReturnMoves, ReservingShrinks, Zenon DEF GatewayInv, Rollback
  <1>4. CASE UNCHANGED connectorCallCounts
    BY <1>1, <1>2, <1>3, <1>4, CountFrame, Zenon
  <1>5. CASE connectorCallCounts' = [connectorCallCounts EXCEPT ![c.grant] = @ - 1]
    <2>1. file' = file /\ seen' = seen /\ mode' = mode
      BY <1>2, UntouchedMeans, Zenon
    <2>2. \A g \in Grant : CallsSeen(g)' = CallsSeen(g)
      BY <2>1, Zenon DEF CallsSeen
    <2>3. ASSUME NEW g \in Grant
          PROVE  /\ Cardinality(CallsSeen(g)) \in Nat
                 /\ Cardinality(Reserving(g)') \in Nat
                 /\ Cardinality(Reserving(g)) = Cardinality(Reserving(g)') + (IF g = c.grant THEN 1 ELSE 0)
      <3>1. h \in Reserving(g) <=> g = c.grant
        BY <1>1, Zenon DEF Reserving
      <3>2. IsFiniteSet(Reserving(g)) /\ Cardinality(Reserving(g)) \in Nat /\ Cardinality(CallsSeen(g)) \in Nat
        BY <1>2, FiniteCounts, Zenon
      <3>3. /\ IsFiniteSet(Reserving(g) \ {h})
            /\ Cardinality(Reserving(g) \ {h}) =
                   IF h \in Reserving(g) THEN Cardinality(Reserving(g)) - 1 ELSE Cardinality(Reserving(g))
        BY <3>2, FS_RemoveElement, Zenon
      <3>4. Cardinality(Reserving(g) \ {h}) \in Nat
        BY <3>3, FS_CardinalityType, Zenon
      <3>5. Reserving(g)' = Reserving(g) \ {h}
        BY <1>3
      <3>6. CASE g = c.grant
        BY <3>1, <3>2, <3>3, <3>4, <3>5, <3>6
      <3>7. CASE g # c.grant
        BY <3>1, <3>2, <3>3, <3>4, <3>5, <3>7, SMTT(20)
      <3> QED  BY <3>6, <3>7
    <2>4. \A g \in Grant : /\ connectorCallCounts'[g] = connectorCallCounts[g] - (IF g = c.grant THEN 1 ELSE 0)
                           /\ connectorCallCounts[g] \in Nat
      BY <1>1, <1>5
    <2>5. \A g \in Grant : Cardinality(CallsSeen(g)') + Cardinality(Reserving(g)') <= connectorCallCounts'[g]
      BY <1>1, <1>2, <2>2, <2>3, <2>4 DEF CountInv
    <2>6. \A g \in Grant : connectorCallCounts'[g] \in Nat
      BY <2>2, <2>3, <2>4, <2>5
    <2>7. connectorCallCounts' \in [Grant -> Nat]
      BY <1>1, <1>5, <2>6, Zenon
    <2>8. CallBudget'
      BY <1>2, <2>1, Zenon DEF CountInv, CallBudget
    <2>9. \A g \in Grant : connectorCallCounts'[g] <= MaxCallsPerGrant[g]
      BY <1>1, <1>2, <2>4, GatewayAssumption DEF CountInv
    <2> QED  BY <1>1, <1>2, <2>5, <2>7, <2>8, <2>9, Zenon DEF CountInv
  <1> QED  BY <1>1, <1>4, <1>5, Zenon DEF Rollback

LEMMA CountBegin ==
    ASSUME GatewayInv, TypeOK', NEW h \in Handler, BeginCall(h)
    PROVE  CountInv'
  <1> DEFINE c == handlers[h].call
  <1>1. /\ serving /\ handlers[h] # None /\ c \in Calls /\ c.grant \in Grant /\ Unspent(h)
        /\ mode = "live" /\ connectorCallCounts \in [Grant -> Nat]
    BY CallFields, Zenon DEF GatewayInv, GatewayTypeOK, FenceInv, ServesLive, IdleWhenDown, BeginCall, at, Unspent
  <1>2. CountInv /\ Indexed /\ TypeOK /\ UNCHANGED <<serving, connectorCallCounts>>
    BY Zenon DEF BeginCall, GatewayInv, Indexed, gatewayMemory
  <1>3. ASSUME UNCHANGED ledgerVars, return(h) \/ goto(h, "rejected")
        PROVE  CountInv'
    <2>1. Untouched
      BY <1>3 DEF ledgerVars, Untouched
    <2>2. Moved(h, "rejected")
      BY <1>1, <1>3, ReturnMoves, GotoMoves, Zenon DEF GatewayInv, Pc
    <2>3. \A g \in Grant : Reserving(g)' \subseteq Reserving(g)
      BY <1>1, <2>2 DEF Moved, Reserving, Unspent, at
    <2> QED  BY <1>1, <1>2, <2>1, <2>3, CountFrame, Zenon
  <1>4. ASSUME NEW n \in LineSizes, Begin(c, n) \/ BeginAmbiguous(c, n), return(h) \/ goto(h, "spent")
        PROVE  CountInv'
    <2> DEFINE r == AuthorizeRecord(c, n)
    <2>1. Wrote(r) /\ r.call.grant = c.grant
      BY <1>1, <1>2, <1>4, BeginWrote DEF AuthorizeRecord
    <2> HIDE DEF r
    <2>2. Moved(h, "spent")
      BY <1>1, <1>4, ReturnMoves, GotoMoves, Zenon DEF GatewayInv, Pc
    <2>3. \A g : Reserving(g)' = Reserving(g) \ {h}
      BY <2>2, ReservingShrinks, Zenon
    <2>4. ASSUME NEW g \in Grant
          PROVE  /\ Cardinality(CallsSeen(g)') \in Nat
                 /\ Cardinality(Reserving(g)') \in Nat
                 /\ Cardinality(CallsSeen(g)') + Cardinality(Reserving(g)') <= connectorCallCounts'[g]
      <3>1. h \in Reserving(g) <=> g = c.grant
        BY <1>1, Zenon DEF Reserving
      <3>2. IsFiniteSet(Reserving(g)) /\ Cardinality(Reserving(g)) \in Nat /\ Cardinality(CallsSeen(g)) \in Nat
        BY <1>2, FiniteCounts, Zenon
      <3>3. /\ IsFiniteSet(Reserving(g) \ {h})
            /\ Cardinality(Reserving(g) \ {h}) =
                   IF h \in Reserving(g) THEN Cardinality(Reserving(g)) - 1 ELSE Cardinality(Reserving(g))
        BY <3>2, FS_RemoveElement, Zenon
      <3>4. Cardinality(Reserving(g) \ {h}) \in Nat
        BY <3>3, FS_CardinalityType, Zenon
      <3>5. /\ Cardinality(CallsSeen(g)') \in Nat
            /\ Cardinality(CallsSeen(g)') <= Cardinality(CallsSeen(g)) + (IF g = c.grant THEN 1 ELSE 0)
        BY <1>2, <2>1, <3>2, WroteCounts
      <3>6. Cardinality(CallsSeen(g)) + Cardinality(Reserving(g)) <= connectorCallCounts[g]
        BY <1>1, <1>2, Zenon DEF CountInv
      <3>7. connectorCallCounts[g] \in Nat /\ connectorCallCounts'[g] = connectorCallCounts[g]
        BY <1>1, <1>2, Zenon
      <3>8. Reserving(g)' = Reserving(g) \ {h}
        BY <2>3
      <3>9. CASE g = c.grant
        BY <3>1, <3>2, <3>3, <3>4, <3>5, <3>6, <3>7, <3>8, <3>9
      <3>10. CASE g # c.grant
        BY <3>1, <3>2, <3>3, <3>4, <3>5, <3>6, <3>7, <3>8, <3>10
      <3> QED  BY <3>9, <3>10, Zenon
    <2>5. mode' = "live"
      BY <2>1, Zenon DEF Wrote
    <2>6. \A g \in Grant : connectorCallCounts'[g] <= MaxCallsPerGrant[g]
      BY <1>1, <1>2 DEF CountInv
    <2>7. \A g \in Grant : Cardinality(CallsSeen(g)') <= MaxCallsPerGrant[g]
      <3> SUFFICES ASSUME NEW g \in Grant PROVE Cardinality(CallsSeen(g)') <= MaxCallsPerGrant[g]
        OBVIOUS
      <3>1. connectorCallCounts'[g] \in Nat /\ MaxCallsPerGrant[g] \in Nat
        BY <1>1, <1>2, GatewayAssumption
      <3> QED  BY <2>4, <2>6, <3>1
    <2>8. CallBudget'
      BY <1>1, <2>5, <2>7, BudgetSeen, Zenon
    <2> QED  BY <1>1, <1>2, <2>4, <2>6, <2>8, Zenon DEF CountInv
  <1> QED  BY <1>3, <1>4, Zenon DEF BeginCall, rejected

LEMMA CountDown ==
    ASSUME GatewayInv, TypeOK', lost \/ Start \/ FinishOpen \/ VisitRecord
    PROVE  CountInv'
  <1>1. TypeOK /\ (mode = "closed" => pos = 0) /\ CountInv /\ connectorCallCounts \in [Grant -> Nat] /\ file' = file
    BY Zenon DEF GatewayInv, GatewayTypeOK, Indexed, lost, Stop, Start, Open, FinishOpen, OpenComplete,
           VisitRecord, replayVisiting
  <1>2. ~serving' /\ \A h \in Handler : handlers'[h] = None
    <2>1. CASE lost
      BY <2>1, Zenon DEF lost
    <2>2. CASE Start \/ FinishOpen \/ VisitRecord
      <3>1. mode # "live" /\ UNCHANGED <<serving, handlers>>
        BY <2>2, Zenon DEF Start, Open, FinishOpen, OpenComplete, VisitRecord, gatewayVars
      <3> QED  BY <3>1, Zenon DEF GatewayInv, FenceInv, ServesLive, IdleWhenDown
    <2> QED  BY <2>1, <2>2, Zenon
  <1>3. \A g : Reserving(g)' = {}
    BY <1>2, Zenon DEF Reserving, Unspent, at
  <1>4. CallBudget'
    BY <1>1, Zenon DEF CountInv, CallBudget
  <1>5. SUFFICES ASSUME mode' # "refused", NEW g \in Grant
                 PROVE  connectorCallCounts'[g] = Cardinality(CallsSeen(g)')
    <2>1. ASSUME NEW g \in Grant, connectorCallCounts'[g] = Cardinality(CallsSeen(g)')
          PROVE  Cardinality(CallsSeen(g)') + Cardinality(Reserving(g)') <= connectorCallCounts'[g]
      <3>1. Cardinality(Reserving(g)') = 0
        BY <1>3, FS_EmptySet, Zenon
      <3>2. Cardinality(CallsSeen(g)') \in Nat
        <4>1. seen' \in Nat
          BY DEF TypeOK, seen
        <4>2. IsFiniteSet(1..seen')
          BY <4>1, FS_Interval
        <4>3. CallsSeen(g)' \subseteq 1..seen'
          BY Zenon DEF CallsSeen
        <4> QED  BY <4>2, <4>3, FS_Subset, FS_CardinalityType, Zenon
      <3> QED  BY <2>1, <3>1, <3>2
    <2> QED  BY <1>2, <1>4, <1>5, <2>1 DEF CountInv
  <1>6. CASE lost
    <2>1. seen' = 0 /\ connectorCallCounts'[g] = 0
      BY <1>6, Zenon DEF lost, Stop, EmptyMemory, seen
    <2>2. CallsSeen(g)' = {}
      BY <2>1 DEF CallsSeen
    <2> QED  BY <2>1, <2>2, FS_EmptySet, Zenon
  <1>7. ASSUME seen' = seen, mode # "refused", ~serving, UNCHANGED connectorCallCounts
        PROVE  connectorCallCounts'[g] = Cardinality(CallsSeen(g)')
    <2>1. CallsSeen(g)' = CallsSeen(g)
      BY <1>1, <1>7, Zenon DEF CallsSeen
    <2> QED  BY <1>1, <1>7, <2>1, Zenon DEF CountInv
  <1>8. CASE Start
    BY <1>1, <1>2, <1>5, <1>7, <1>8 DEF Start, Open, seen, gatewayVars, gatewayMemory
  <1>9. CASE FinishOpen
    BY <1>1, <1>2, <1>5, <1>7, <1>9, Zenon DEF FinishOpen, OpenComplete, seen, gatewayVars, gatewayMemory
  <1>10. CASE VisitRecord
    <2> DEFINE r == file[pos + 1]
    <2>1. mode = "replay" /\ mode' = "replay" /\ pos' = pos + 1
      BY <1>5, <1>10, Zenon DEF VisitRecord, replayVisiting
    <2>2. seen = pos /\ seen' = seen + 1 /\ ~serving
      BY <1>2, <1>10, <2>1, Zenon DEF seen, VisitRecord
    <2>3. connectorCallCounts'[g] = connectorCallCounts[g] + IF r.phase = "authorize" /\ r.call.grant = g THEN 1 ELSE 0
      <3>1. r.phase = "authorize" => connectorCallCounts' = [connectorCallCounts EXCEPT ![r.call.grant] = @ + 1]
        BY <1>10, Zenon DEF VisitRecord
      <3>2. r.phase # "authorize" => connectorCallCounts' = connectorCallCounts
        BY <1>10, Zenon DEF VisitRecord
      <3> HIDE DEF r
      <3> QED  BY <1>1, <3>1, <3>2
    <2>4. Cardinality(CallsSeen(g)') = Cardinality(CallsSeen(g)) + IF r.phase = "authorize" /\ r.call.grant = g THEN 1 ELSE 0
      BY <1>1, <2>1, <2>2, OneMoreCall, Zenon
    <2>5. connectorCallCounts[g] = Cardinality(CallsSeen(g))
      BY <1>1, <2>1, <2>2, Zenon DEF CountInv
    <2> QED  BY <2>3, <2>4, <2>5, Zenon
  <1> QED  BY <1>6, <1>8, <1>9, <1>10, Zenon

LEMMA CountStep ==
    ASSUME GatewayInv, TypeOK', Next
    PROVE  CountInv'
  <1> USE DEF GatewayInv
  <1>1. TypeOK /\ Indexed /\ CountInv /\ connectorCallCounts \in [Grant -> Nat]
    BY Zenon DEF GatewayTypeOK
  <1>2. \A h \in Handler : handlers[h] # None => handlers[h].call \in Calls
    BY Zenon DEF GatewayTypeOK
  <1>3. UNCHANGED ledgerVars => Untouched
    BY Zenon DEF ledgerVars, Untouched
  <1>4. UNCHANGED handlers => \A g : Reserving(g)' = Reserving(g)
    BY Zenon DEF Reserving, Unspent, at
  <1>5. ASSUME UNCHANGED <<handlers, connectorCallCounts, serving>>, UNCHANGED ledgerVars
        PROVE  CountInv'
    BY <1>1, <1>3, <1>4, <1>5, CountFrame
  <1>6. ASSUME NEW g \in Grant, ExecutorStep(g)
        PROVE  CountInv'
    BY <1>5, <1>6, Zenon DEF ExecutorStep, gatewayMemory
  <1>7. ASSUME NEW h \in Handler, NEW pc, Moved(h, pc), handlers'[h] = None \/ pc \notin {"reserved", "rejected"},
               UNCHANGED <<connectorCallCounts, serving>>,
               \/ UNCHANGED ledgerVars
               \/ \E r : Wrote(r) /\ r.phase # "authorize"
        PROVE  CountInv'
    BY <1>1, <1>3, <1>7, ReservingShrinks, CountFrame, CountWrites
  <1>8. ASSUME NEW h \in Handler, NEW c \in Calls, Admit(h, c)
        PROVE  CountInv'
    <2>1. \A g : Reserving(g)' \subseteq Reserving(g)
      BY <1>8 DEF Admit, Reserving, Unspent, at, GatewayTypeOK
    <2> QED  BY <1>1, <1>3, <1>8, <2>1, CountFrame, Zenon DEF Admit, gatewayMemory
  <1>9. ASSUME NEW h \in Handler, HandlerStep(h)
        PROVE  CountInv'
    <2>1. CASE DenyPermit(h) \/ ClaimDenial(h)
      <3>1. handlers[h] # None /\ (return(h) \/ goto(h, "denied") \/ goto(h, "recording"))
        BY <2>1, Zenon DEF DenyPermit, ClaimDenial, at
      <3>2. UNCHANGED <<connectorCallCounts, serving, ledgerVars>>
        BY <2>1, Zenon DEF DenyPermit, ClaimDenial, gatewayMemory
      <3>3. "denied" \in Pc /\ "recording" \in Pc
        BY Zenon DEF Pc
      <3> QED  BY <1>7, <3>1, <3>2, <3>3, GotoMoves, ReturnMoves
    <2>2. CASE RecordDenial(h)
      <3>1. handlers[h].call \in Calls /\ return(h) /\ UNCHANGED <<connectorCallCounts, serving>>
        BY <1>2, <2>2, Zenon DEF RecordDenial, at
      <3>2. ASSUME NEW n \in LineSizes,
                   AppendDeny(handlers[h].call, n) \/ AppendDenyAmbiguous(handlers[h].call, n)
            PROVE  \E r : Wrote(r) /\ r.phase # "authorize"
        <4>1. Wrote(DenyRecord(handlers[h].call, n)) /\ DenyRecord(handlers[h].call, n).phase # "authorize"
          BY <1>1, <3>1, <3>2, DenyWrote, Zenon DEF DenyRecord
        <4> QED  BY <4>1
      <3>3. UNCHANGED ledgerVars \/ \E r : Wrote(r) /\ r.phase # "authorize"
        BY <2>2, <3>2, Zenon DEF RecordDenial, rejected
      <3> QED  BY <1>7, <3>1, <3>3, ReturnMoves
    <2>3. CASE FinishCall(h)
      <3> DEFINE c == handlers[h].call
      <3>1. c \in Calls /\ handlers[h] # None /\ UNCHANGED <<connectorCallCounts, serving>>
        BY <1>2, <2>3, Zenon DEF FinishCall, at, gatewayMemory
      <3>2. ASSUME NEW n \in LineSizes, NEW outcome \in {"responded", "failed"},
                   Finish(c, None, outcome, n) \/ FinishAmbiguous(c, None, outcome, n)
            PROVE  \E r : Wrote(r) /\ r.phase # "authorize"
        <4>1. /\ Wrote(TerminalRecord(c, None, outcome, n))
              /\ TerminalRecord(c, None, outcome, n).phase # "authorize"
          BY <1>1, <3>1, <3>2, FinishWrote, Zenon DEF TerminalRecord
        <4> QED  BY <4>1, Zenon
      <3>3. UNCHANGED ledgerVars \/ \E r : Wrote(r) /\ r.phase # "authorize"
        BY <2>3, <3>2, Zenon DEF FinishCall, rejected
      <3>4. return(h) \/ handlers' = [handlers EXCEPT ![h].pc = "finished", ![h].line = Len(file) + 1]
        BY <2>3, Zenon DEF FinishCall
      <3>5. ASSUME handlers' = [handlers EXCEPT ![h].pc = "finished", ![h].line = Len(file) + 1]
            PROVE  Moved(h, "finished")
        <4>1. handlers \in [Handler -> {None} \cup Requests] /\ handlers[h] \in Requests
          BY <3>1 DEF GatewayTypeOK, Requests
        <4> QED  BY <3>5, <4>1, Zenon DEF Moved, Requests
      <3> QED  BY <1>7, <3>1, <3>3, <3>4, <3>5, ReturnMoves, Zenon
    <2>4. CASE AdvanceInfluence(h)
      BY <1>7, <2>4, ReturnMoves, Zenon DEF AdvanceInfluence
    <2>5. CASE Contact(h)
      <3>1. handlers[h] # None /\ goto(h, "contacted") /\ "contacted" \in Pc
        BY <2>5, Zenon DEF Contact, at, Pc
      <3>2. UNCHANGED <<connectorCallCounts, serving, ledgerVars>>
        BY <2>5 DEF Contact, gatewayMemory
      <3> QED  BY <1>7, <3>1, <3>2, GotoMoves, Zenon
    <2> QED  BY <1>9, <2>1, <2>2, <2>3, <2>4, <2>5, CountReserve, CountBegin, CountRollback, Zenon DEF HandlerStep
  <1>10. ASSUME NEW t \in Task, CloseIncomplete(t)
         PROVE  CountInv'
    <2> DEFINE c == pending[t].call
    <2>1. c \in Calls /\ UNCHANGED <<handlers, serving, connectorCallCounts>>
      BY <1>1, <1>10 DEF CloseIncomplete, TypeOK, Record, gatewayMemory
    <2>2. PICK n \in LineSizes : Finish(c, None, "failed", n) \/ FinishAmbiguous(c, None, "failed", n)
      BY <1>10, Zenon DEF CloseIncomplete
    <2> DEFINE r == TerminalRecord(c, None, "failed", n)
    <2>3. Wrote(r) /\ r.phase # "authorize"
      BY <1>1, <2>1, <2>2, FinishWrote, Zenon DEF TerminalRecord
    <2> HIDE DEF r
    <2> QED  BY <1>1, <1>4, <2>1, <2>3, CountWrites, Zenon
  <1>11. CASE Serve
    <2>1. /\ mode = "live" /\ ~serving /\ serving' /\ Untouched
          /\ UNCHANGED <<handlers, connectorCallCounts>>
      BY <1>3, <1>11, Zenon DEF Serve, Writable, gatewayMemory
    <2>2. file' = file /\ seen' = seen /\ mode' = mode
      BY <2>1, UntouchedMeans, Zenon
    <2>3. \A g \in Grant : CallsSeen(g)' = CallsSeen(g) /\ Reserving(g)' = Reserving(g)
      BY <1>4, <2>1, <2>2 DEF CallsSeen
    <2>4. \A g \in Grant : connectorCallCounts'[g] <= MaxCallsPerGrant[g]
      BY <1>1, <2>1, <2>2, BudgetSeen, Zenon DEF CountInv
    <2>5. CallBudget'
      BY <1>1, <2>2 DEF CountInv, CallBudget
    <2> QED  BY <1>1, <2>1, <2>2, <2>3, <2>4, <2>5, Zenon DEF CountInv
  <1>12. CASE CloseAdvance
    BY <1>5, <1>12, CountDown, Zenon DEF CloseAdvance
  <1>13. CASE Crash \/ AbandonStart
    BY <1>13, CountDown, Zenon DEF Crash, AbandonStart
  <1> QED  BY <1>6, <1>8, <1>9, <1>10, <1>11, <1>12, <1>13, CountDown, Zenon DEF Next, StartStep

-----------------------------------------------------------------------------
(* The ledger's own invariant.                                             *)

LEMMA LedgerIndexed == IInv => Indexed
BY Zenon DEF IInv, HistoryInv, Known, Writable, verified, Hist, SpentKnown, Indexed

LEMMA BeginIInv ==
    ASSUME IInv, NEW c \in Calls, NEW n \in LineSizes, Begin(c, n) \/ BeginAmbiguous(c, n)
    PROVE  IInv'
  <1> DEFINE r == AuthorizeRecord(c, n)
  <1>1. r \in Record /\ r.phase = "authorize" /\ r.call = c
    BY AuthorizeRecordType, Zenon DEF AuthorizeRecord
  <1>2. Appends(r) /\ begins(c)
    BY ReservationType DEF Begin, BeginAmbiguous, Appends
  <1> HIDE DEF r
  <1>3. Accepted(r)
    BY <1>1, <1>2, Zenon DEF Accepted, begins
  <1> QED  BY <1>1, <1>2, <1>3, AppendIInv, Zenon

LEMMA FinishIInv ==
    ASSUME IInv, NEW c \in Calls, NEW n \in LineSizes, NEW outcome \in {"responded", "failed"},
           Finish(c, None, outcome, n) \/ FinishAmbiguous(c, None, outcome, n)
    PROVE  IInv'
  <1> DEFINE r == TerminalRecord(c, None, outcome, n)
  <1>1. r \in Record /\ r.phase = "terminal"
    BY TerminalRecordType, Zenon DEF TerminalRecord
  <1>2. -pendingReservation(pending[c.task]) \in Int
    BY ReservationType
  <1>3. Appends(r) /\ finishes(r)
    BY <1>2, Zenon DEF Finish, FinishAmbiguous, Appends
  <1> HIDE DEF r
  <1>4. Accepted(r)
    BY <1>1, <1>3, Zenon DEF Accepted
  <1> QED  BY <1>1, <1>3, <1>4, AppendIInv, Zenon

LEMMA DenyIInv ==
    ASSUME IInv, NEW c \in Calls, NEW n \in LineSizes, AppendDeny(c, n) \/ AppendDenyAmbiguous(c, n)
    PROVE  IInv'
  <1> DEFINE r == DenyRecord(c, n)
  <1>1. r \in Record /\ r.phase = "deny"
    BY DenyRecordType, Zenon DEF DenyRecord
  <1>2. Appends(r)
    BY DEF AppendDeny, AppendDenyAmbiguous, Appends
  <1> HIDE DEF r
  <1>3. Accepted(r)
    BY <1>1, Zenon DEF Accepted
  <1> QED  BY <1>1, <1>2, <1>3, AppendIInv, Zenon

LEMMA LedgerUntouched ==
    ASSUME IInv, UNCHANGED ledgerVars
    PROVE  IInv' /\ Untouched
  <1>1. UNCHANGED <<file, torn, mode, pos, failed, pending, spent, runOwners, reserved,
                    tenantBytes, inferenceCounts>>
    BY Zenon DEF ledgerVars, index
  <1> QED  BY <1>1, UnchangedIInv, Zenon DEF Untouched

(* Every use Gateway makes of the ledger is one its own invariant allows.  *)
LEMMA LedgerKept ==
    ASSUME IInv, GatewayInv, Next
    PROVE  IInv'
  <1>1. TypeOK /\ \A h \in Handler : handlers[h] # None => handlers[h].call \in Calls
    BY Zenon DEF GatewayInv, GatewayTypeOK, IInv
  <1>2. UNCHANGED ledgerVars => IInv'
    BY LedgerUntouched, Zenon
  <1>3. lost => IInv'
    BY ReopenIInv, Zenon DEF lost
  <1>4. ASSUME NEW h \in Handler, HandlerStep(h)
        PROVE  IInv'
    <2> DEFINE c == handlers[h].call
    <2>1. CASE RecordDenial(h)
      BY <1>1, <1>2, <2>1, DenyIInv, Zenon DEF RecordDenial, rejected, at
    <2>2. CASE BeginCall(h)
      BY <1>1, <1>2, <2>2, BeginIInv, Zenon DEF BeginCall, rejected, at
    <2>3. CASE FinishCall(h)
      BY <1>1, <1>2, <2>3, FinishIInv, Zenon DEF FinishCall, rejected, at
    <2>4. CASE DenyPermit(h) \/ ClaimDenial(h) \/ Reserve(h) \/ Rollback(h) \/ Contact(h) \/ AdvanceInfluence(h)
      BY <1>2, <2>4, Zenon DEF DenyPermit, ClaimDenial, Reserve, Rollback, Contact, AdvanceInfluence
    <2> QED  BY <1>4, <2>1, <2>2, <2>3, <2>4, Zenon DEF HandlerStep
  <1>5. ASSUME NEW h \in Handler, NEW c \in Calls, Admit(h, c)
        PROVE  IInv'
    BY <1>2, <1>5, Zenon DEF Admit
  <1>6. ASSUME NEW g \in Grant, ExecutorStep(g)
        PROVE  IInv'
    BY <1>2, <1>6, Zenon DEF ExecutorStep
  <1>7. ASSUME NEW t \in Task, CloseIncomplete(t)
        PROVE  IInv'
    <2>1. pending[t].call \in Calls
      BY <1>1, <1>7, Zenon DEF CloseIncomplete, TypeOK, Record
    <2> QED  BY <1>1, <1>7, <2>1, FinishIInv, Zenon DEF CloseIncomplete
  <1>8. CASE Start \/ FinishOpen \/ VisitRecord
    BY <1>1, <1>8, ReopenIInv, ReplayIInv, Zenon DEF Start, FinishOpen, VisitRecord
  <1>9. CASE Crash \/ CloseAdvance \/ AbandonStart \/ Serve
    BY <1>2, <1>3, <1>9, Zenon DEF Crash, CloseAdvance, AbandonStart, Serve
  <1> QED  BY <1>4, <1>5, <1>6, <1>7, <1>8, <1>9, Zenon DEF Next, StartStep

LEMMA GatewayInit == Init => IInv /\ GatewayInv
  <1> SUFFICES ASSUME Init PROVE IInv /\ GatewayInv
    OBVIOUS
  <1>1. IInv /\ TypeOK
    BY InitIInv, Zenon DEF Init, IInv
  <1>2. file = <<>> /\ Len(file) = 0 /\ mode = "closed" /\ seen = pos /\ pos = 0
    BY Zenon DEF Init, LedgerInit, seen
  <1>3. GatewayTypeOK
    <2>1. GrantsTypeOK
      BY Zenon DEF Init, GrantsInit, GrantsTypeOK
    <2>2. connectorInfluences \in [Grant -> Seq(Nat)]
      BY DEF Init
    <2>3. /\ handlers \in [Handler -> {None} \cup Requests]
          /\ \A h \in Handler : handlers[h] = None
      BY Zenon DEF Init
    <2>4. stops \in 0..MaxStops
      <3>1. stops = 0
        BY Zenon DEF Init
      <3> QED  BY <3>1, GatewayAssumption
    <2>5. /\ connectorSpends \subseteq Task /\ connectorCallCounts \in [Grant -> Nat]
          /\ connectorDenials \subseteq Grant /\ serving \in BOOLEAN /\ closing = None
          /\ effects \in [Task -> Nat]
      BY Zenon DEF Init
    <2> QED  BY <1>1, <2>1, <2>2, <2>3, <2>4, <2>5, Zenon DEF GatewayTypeOK, Requests
  <1>4. \A h \in Handler : handlers[h] = None
    BY Zenon DEF Init
  <1>5. FenceInv
    BY <1>2, <1>4 DEF Init, FenceInv, ServesLive, IdleWhenDown, Fenced, HeldFenced, HeldOnce, UnspentUnwritten,
                SpentOpen, EffectsWritten, EffectOnce, Holding, Unspent, at
  <1>6. CountInv
    <2>1. \A g \in Grant : CallsSeen(g) = {} /\ Reserving(g) = {}
      BY <1>2, <1>4 DEF CallsSeen, Reserving, Unspent, at
    <2>2. Cardinality({}) = 0
      BY FS_EmptySet, Zenon
    <2>3. \A g \in Grant : connectorCallCounts[g] = 0 /\ MaxCallsPerGrant[g] \in Nat
      BY GatewayAssumption, Zenon DEF Init
    <2>4. ASSUME NEW g \in Grant
          PROVE  /\ Cardinality(CallsSeen(g)) = 0 /\ Cardinality(Reserving(g)) = 0
                 /\ connectorCallCounts[g] = 0 /\ MaxCallsPerGrant[g] \in Nat
      BY <2>1, <2>2, <2>3, Zenon
    <2>5. CallBudget
      <3>1. \A g : CallsSeen(g) = {i \in 1..Len(file) : file[i].phase = "authorize" /\ file[i].call.grant = g}
        BY <1>2, Zenon DEF CallsSeen
      <3>2. \A g \in Grant : Cardinality(CallsSeen(g)) <= MaxCallsPerGrant[g]
        BY <2>4
      <3> QED  BY <3>1, <3>2, Zenon DEF CallBudget
    <2> QED  BY <2>4, <2>5 DEF CountInv, Init
  <1>7. DenialInv
    BY <1>2, <1>4 DEF DenialInv, DenialRecordedOnce, at
  <1> QED  BY <1>1, <1>3, <1>5, <1>6, <1>7, LedgerIndexed, Zenon DEF GatewayInv

(* The invariant holds initially, every step keeps it and so does a        *)
(* stuttering step.                                                        *)
LEMMA GatewayInvariant == Spec => [](IInv /\ GatewayInv)
  <1>1. ASSUME IInv, GatewayInv, Next
        PROVE  IInv' /\ GatewayInv'
    <2>1. IInv' /\ TypeOK' /\ Indexed'
      <3>1. IInv'
        BY <1>1, LedgerKept, Zenon
      <3>2. IInv' => Indexed'
        BY LedgerIndexed, PTL
      <3> QED  BY <3>1, <3>2, Zenon DEF IInv
    <2>2. GatewayTypeOK'
      <3>1. \A h \in Handler : Rollback(h) => connectorCallCounts' \in [Grant -> Nat]
        BY <1>1, <2>1, CountRollback, Zenon
      <3>2. GatewayTypeOK /\ MemoryOK'
        BY <1>1, <3>1, MemoryKept, Zenon DEF GatewayInv
      <3> QED  BY <1>1, <2>1, <3>2, GrantsKept, RequestsKept, RestKept, Zenon
               DEF GatewayTypeOK, MemoryOK, Requests
    <2> QED  BY <1>1, <2>1, <2>2, FenceStep, CountStep, DenialStep, Zenon DEF GatewayInv
  <1>2. ASSUME IInv, GatewayInv, UNCHANGED vars
        PROVE  IInv' /\ GatewayInv'
    <2>1. IInv' /\ Untouched /\ TypeOK /\ TypeOK' /\ Indexed'
      <3>1. IInv' /\ Untouched
        BY <1>2, LedgerUntouched, Zenon DEF vars
      <3>2. IInv' => Indexed'
        BY LedgerIndexed, PTL
      <3> QED  BY <1>2, <3>1, <3>2, Zenon DEF IInv
    <2>2. UNCHANGED <<grants, retained, revocations, unregisters, connectorSpends, connectorCallCounts,
                      connectorInfluences, connectorDenials, handlers, serving, closing, effects, stops>>
      BY <1>2, Zenon DEF vars, gatewayVars, grantVars, gatewayMemory
    <2>3. GatewayTypeOK'
      BY <1>2, <2>1, <2>2, Zenon DEF GatewayInv, GatewayTypeOK, GrantsTypeOK
    <2>4. FenceInv'
      BY <1>2, <2>1, <2>2, FenceFrame, Zenon DEF GatewayInv
    <2>5. CountInv'
      <3>1. \A g \in Grant : Reserving(g)' \subseteq Reserving(g)
        BY <2>2, Zenon DEF Reserving, Unspent, at
      <3>2. connectorCallCounts \in [Grant -> Nat] /\ CountInv
        BY <1>2, Zenon DEF GatewayInv, GatewayTypeOK
      <3> QED  BY <2>1, <2>2, <3>1, <3>2, CountFrame, Zenon
    <2>6. DenialInv'
      <3>1. SameRecorders
        BY <2>2, Zenon DEF SameRecorders, at
      <3> QED  BY <1>2, <2>1, <2>2, <3>1, DenialFrame, Zenon DEF GatewayInv
    <2> QED  BY <2>1, <2>3, <2>4, <2>5, <2>6, Zenon DEF GatewayInv
  <1> QED  BY <1>1, <1>2, GatewayInit, PTL DEF Spec

-----------------------------------------------------------------------------
(* The variables keep their types; a request holds a semaphore its grant   *)
(* had, and a count never falls below zero when a reservation is taken     *)
(* back (connector.go:660).                                                *)
THEOREM GatewayTypes == Spec => []GatewayTypeOK
BY GatewayInvariant, PTL DEF GatewayInv

(* The connector is contacted at most once for a task identity, whatever   *)
(* copies arrive together, appends fail, reservations are taken back and   *)
(* processes stop (spendConnectorCall, connector.go:627).                  *)
THEOREM TasksHaveOneEffect == Spec => []EffectOnce
BY GatewayInvariant, PTL DEF GatewayInv, FenceInv

(* An effect starts only after its authorization is in the file and before *)
(* any outcome of its task is (connector.go:203-250).                      *)
THEOREM EffectsAuthorized == Spec => EffectInsideAuthorization
  <1>1. ASSUME GatewayInv, [Next]_vars, NEW t \in Task, effects'[t] # effects[t]
        PROVE  /\ \E i \in 1..Len(file) : file[i].phase = "authorize" /\ file[i].call.task = t
               /\ ~\E i \in 1..Len(file) : file[i].phase = "terminal" /\ file[i].call.task = t
    <2>1. PICK h \in Handler : Contact(h)
      <3>1. effects' # effects
        BY <1>1, Zenon
      <3>2. ASSUME UNCHANGED vars PROVE UNCHANGED effects
        BY <3>2, Zenon DEF vars, gatewayVars
      <3>3. ASSUME NEW h \in Handler, HandlerStep(h), ~Contact(h)
            PROVE  UNCHANGED effects
        BY <3>3, Zenon DEF HandlerStep, DenyPermit, ClaimDenial, RecordDenial, Reserve, BeginCall,
                           Rollback, FinishCall, AdvanceInfluence
      <3>4. ASSUME NEW h \in Handler, NEW c \in Calls, Admit(h, c)
            PROVE  UNCHANGED effects
        BY <3>4, Zenon DEF Admit
      <3>5. ASSUME NEW g \in Grant, ExecutorStep(g)
            PROVE  UNCHANGED effects
        BY <3>5, Zenon DEF ExecutorStep
      <3>6. Crash \/ StartStep => UNCHANGED effects
        BY Zenon DEF Crash, StartStep, Start, VisitRecord, FinishOpen, CloseIncomplete, CloseAdvance,
                     AbandonStart, Serve, lost, gatewayVars
      <3> QED  BY <1>1, <3>1, <3>2, <3>3, <3>4, <3>5, <3>6, Zenon DEF Next
    <2>2. effects \in [Task -> Nat] /\ SpentOpen
      BY <1>1, Zenon DEF GatewayInv, GatewayTypeOK, FenceInv
    <2>3. t = handlers[h].call.task
      BY <1>1, <2>1, <2>2, Zenon DEF Contact
    <2> QED  BY <2>1, <2>2, <2>3, Zenon DEF Contact, SpentOpen, Authorized, Closed
  <1> DEFINE A == \A t \in Task : effects'[t] # effects[t] =>
          /\ \E i \in 1..Len(file) : file[i].phase = "authorize" /\ file[i].call.task = t
          /\ ~\E i \in 1..Len(file) : file[i].phase = "terminal" /\ file[i].call.task = t
  <1>2. GatewayInv /\ [Next]_vars => [A]_vars
    BY <1>1, Zenon
  <1>3. Spec => [][A]_vars
    <2> HIDE DEF A
    <2> QED  BY <1>2, GatewayInvariant, PTL DEF Spec
  <1> QED  BY <1>3, Zenon DEF EffectInsideAuthorization

(* While Gateway serves, memory refuses every task the file may hold as    *)
(* spent and counts every call it holds (connector.go:659).                *)
THEOREM MemoryCoversLedger == Spec => []FenceCoversLedger
  <1>1. GatewayInv => FenceCoversLedger
    <2> SUFFICES ASSUME GatewayInv, serving
                 PROVE  /\ \A i \in 1..Len(file) : file[i].phase = "authorize" =>
                                                       file[i].call.task \in connectorSpends
                        /\ \A g \in Grant :
                              Cardinality({i \in 1..Len(file) : /\ file[i].phase = "authorize"
                                                               /\ file[i].call.grant = g})
                                  <= connectorCallCounts[g]
      BY Zenon DEF FenceCoversLedger
    <2>1. mode = "live" /\ seen = Len(file)
      BY Zenon DEF GatewayInv, FenceInv, ServesLive, seen
    <2>2. \A g : CallsSeen(g) = {i \in 1..Len(file) : file[i].phase = "authorize" /\ file[i].call.grant = g}
      BY <2>1, Zenon DEF CallsSeen
    <2>3. ASSUME NEW g \in Grant
          PROVE  Cardinality(CallsSeen(g)) <= connectorCallCounts[g]
      <3>1. Cardinality(CallsSeen(g)) \in Nat /\ Cardinality(Reserving(g)) \in Nat
        BY FiniteCounts, Zenon DEF GatewayInv, Indexed
      <3>2. connectorCallCounts[g] \in Nat
        BY Zenon DEF GatewayInv, GatewayTypeOK
      <3>3. Cardinality(CallsSeen(g)) + Cardinality(Reserving(g)) <= connectorCallCounts[g]
        BY <2>1, Zenon DEF GatewayInv, CountInv
      <3> QED  BY <3>1, <3>2, <3>3
    <2>4. \A i \in 1..Len(file) : file[i].phase = "authorize" => file[i].call.task \in connectorSpends
      BY <2>1, Zenon DEF GatewayInv, FenceInv, Fenced
    <2> QED  BY <2>2, <2>3, <2>4, Zenon
  <1> QED  BY <1>1, GatewayInvariant, PTL

(* A grant never spends more calls than its budget, over every restart,    *)
(* re-registration and rollback (connector.go:639).                        *)
THEOREM CallsWithinBudget == Spec => []CallBudget
BY GatewayInvariant, PTL DEF GatewayInv, CountInv

(* At most one denial is recorded for a grant, whichever requests are      *)
(* refused together (recordActionPermitDenial, connector_receipts.go:366). *)
THEOREM GrantsDeniedOnce == Spec => []DenialRecordedOnce
BY GatewayInvariant, PTL DEF GatewayInv, DenialInv

=============================================================================
