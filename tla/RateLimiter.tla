----------------------------- MODULE RateLimiter -----------------------------
(* The token buckets that bound inbound requests per source (internal/server
   ratelimit.go): refilled on use, dropped by a sweep that runs inside a later
   request, in a table of bounded size.  Tokens and time are whole units. *)
EXTENDS Integers, FiniteSets, TLC

CONSTANTS
    Sources,     \* client addresses, ports stripped
    RlCases,     \* ratePerTick, burst, idleAfter, sweepEvery, maxSources
    MaxTime

VARIABLES rlCase, clock, buckets, lastSweep, unswept
rlVars == <<rlCase, clock, buckets, lastSweep, unswept>>

fullRefill == (rlCase.burst + rlCase.ratePerTick - 1) \div rlCase.ratePerTick
FaultyThreshold == rlCase.idleAfter
threshold == IF fullRefill > rlCase.idleAfter THEN fullRefill ELSE rlCase.idleAfter

Least(a, b) == IF a < b THEN a ELSE b
Refilled(b) == Least(rlCase.burst, b.tokens + (clock - b.lastSeen) * rlCase.ratePerTick)
sweepLocked(table) == [k \in {k \in DOMAIN table : clock - table[k].lastSeen < threshold} |-> table[k]]

\* allow: the sweep if it is due, then the source's bucket; a new source is
\* refused when the table is full.  unswept holds the buckets no sweep touches.
Tokens(table, k) == IF k \in DOMAIN table THEN Refilled(table[k]) ELSE rlCase.burst
Spend(table, k) ==
    LET n == Tokens(table, k)
    IN (k :> [tokens |-> IF n >= 1 THEN n - 1 ELSE n, lastSeen |-> clock]) @@ table
allow(k) ==
    LET due == clock - lastSweep >= rlCase.sweepEvery
        table == IF due THEN sweepLocked(buckets) ELSE buckets
        refused == k \notin DOMAIN table /\ Cardinality(DOMAIN table) >= rlCase.maxSources
    IN /\ lastSweep' = IF due THEN clock ELSE lastSweep
       /\ buckets' = IF refused THEN table ELSE Spend(table, k)
       /\ unswept' = IF refused THEN unswept ELSE Spend(unswept, k)
       /\ UNCHANGED <<rlCase, clock>>
RlTick ==
    /\ clock < MaxTime
    /\ clock' = clock + 1
    /\ UNCHANGED <<rlCase, buckets, lastSweep, unswept>>

RlInit ==
    /\ rlCase \in RlCases
    /\ clock = 0 /\ lastSweep = 0
    /\ buckets = <<>> /\ unswept = <<>>
RlNext == RlTick \/ \E k \in Sources : allow(k)

\* What a source may still send does not depend on whether a sweep dropped its
\* bucket: sweepLocked drops only buckets that have refilled.
SweepInvisible == \A k \in Sources : Tokens(buckets, k) = Tokens(unswept, k)
===============================================================================
