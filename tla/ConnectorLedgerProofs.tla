------------------------ MODULE ConnectorLedgerProofs ------------------------
(***************************************************************************)
(* Proofs about ConnectorLedger for every set of tasks, calls, runs and    *)
(* budgets that its assumptions allow.                                     *)
(***************************************************************************)
EXTENDS ConnectorLedger, TLAPS

-----------------------------------------------------------------------------
(* The records the operations write.                                       *)

LEMMA AuthorizeRecordType ==
    ASSUME NEW c \in Calls, NEW n \in LineSizes
    PROVE  AuthorizeRecord(c, n) \in Record
BY NoneAssumption, SizeAssumption, Zenon DEF AuthorizeRecord, Record, Phase, Outcome

LEMMA DispatchRecordType ==
    ASSUME NEW c \in Calls, NEW run \in Run, NEW n \in LineSizes
    PROVE  DispatchRecord(c, run, n) \in Record
BY SizeAssumption, Zenon DEF DispatchRecord, Record, Phase, Outcome

LEMMA TerminalRecordType ==
    ASSUME NEW c \in Calls, NEW run \in Run \cup {None},
           NEW outcome \in {"responded", "failed", "unsent"}, NEW n \in LineSizes
    PROVE  TerminalRecord(c, run, outcome, n) \in Record
BY SizeAssumption, Zenon DEF TerminalRecord, Record, Phase, Outcome

LEMMA DenyRecordType ==
    ASSUME NEW c \in Calls, NEW n \in LineSizes
    PROVE  DenyRecord(c, n) \in Record
BY NoneAssumption, SizeAssumption, Zenon DEF DenyRecord, Record, Phase, Outcome

(* The fields of a record that the index is keyed by.                      *)
LEMMA RecordFields ==
    ASSUME NEW r \in Record
    PROVE  /\ r.call \in Calls
           /\ r.call.task \in Task
           /\ r.call.tenant \in Tenant
           /\ r.call.grant \in Grant
           /\ r.run \in Run \cup {None}
           /\ r.size \in Nat \ {0}
BY CallsAssumption, SizeAssumption DEF Record, Call

LEMMA ReservationType ==
    ASSUME NEW r
    PROVE  pendingReservation(r) \in Nat
BY SizeAssumption DEF pendingReservation

(* The reservations of unfinished calls are a natural number, because the  *)
(* tasks are finitely many.                                                *)
LEMMA ReservationsForType ==
    ASSUME NEW pend, NEW tenants
    PROVE  ReservationsFor(pend, tenants) \in Nat
<1> DEFINE open == {t \in Task : pend[t] # None /\ pend[t].call.tenant \in tenants}
           owing == {t \in open : /\ pend[t].call.kind = "lifecycle_task"
                                  /\ pend[t].phase = "authorize"}
<1>1. open \in SUBSET Task /\ owing \in SUBSET Task
  OBVIOUS
<1>2. Cardinality(open) \in Nat /\ Cardinality(owing) \in Nat
  BY <1>1, SizeAssumption, Zenon
<1> HIDE DEF open, owing
<1>3. TerminalReserve * (Cardinality(open) + Cardinality(owing)) \in Nat
  BY <1>2, SizeAssumption
<1> QED  BY <1>3, Zenon DEF ReservationsFor, open, owing

-----------------------------------------------------------------------------
(* Type correctness, one lemma for each way the state changes.             *)

LEMMA IndexType ==
    ASSUME TypeOK, NEW r \in Record, Index(r)
    PROVE  /\ pending' \in [Task -> Record \cup {None}]
           /\ spent' \subseteq Task
           /\ runOwners' \in [Grant \X Run -> Calls \cup {None}]
           /\ inferenceCounts' \in [Grant -> Nat]
<1> USE RecordFields
<1>1. pending' \in [Task -> Record \cup {None}]
  BY Zenon DEF TypeOK, Index
<1>2. spent' \subseteq Task
  BY Zenon DEF TypeOK, Index
<1>3. runOwners' \in [Grant \X Run -> Calls \cup {None}]
  <2> DEFINE owned == <<r.call.grant, r.run>>
  <2>1. r.call \in Calls \cup {None}
    OBVIOUS
  <2>2. [runOwners EXCEPT ![owned] = r.call] \in [Grant \X Run -> Calls \cup {None}]
    <3> HIDE DEF owned
    <3> QED  BY ZenonT(40), <2>1 DEF TypeOK
  <2> QED  BY <2>2, Zenon DEF TypeOK, Index
<1>4. inferenceCounts' \in [Grant -> Nat]
  BY SMTT(40) DEF TypeOK, Index
<1> QED  BY <1>1, <1>2, <1>3, <1>4, Zenon

LEMMA AppendLockedType ==
    ASSUME TypeOK, NEW r \in Record, NEW delta \in Int, appendLocked(r, delta)
    PROVE  TypeOK'
<1>1. file' \in Seq(Record) /\ pos' \in 0..Len(file')
  BY DEF appendLocked, TypeOK
<1>2. reserved' \in Nat
  BY DEF appendLocked, fits, TypeOK
<1>3. tenantBytes' \in [Tenant -> Nat]
  BY RecordFields DEF appendLocked, fits, TypeOK
<1> QED  BY ZenonT(40), <1>1, <1>2, <1>3, IndexType DEF appendLocked, TypeOK

LEMMA AppendAmbiguousType ==
    ASSUME TypeOK, NEW r \in Record, NEW delta, appendAmbiguous(r, delta)
    PROVE  TypeOK'
<1>1. CASE file' = Append(file, r)
  <2>1. file' \in Seq(Record) /\ pos' \in 0..Len(file')
    BY <1>1 DEF appendAmbiguous, TypeOK
  <2>2. torn' \in BOOLEAN /\ failed' \in BOOLEAN
    BY ZenonT(40), <1>1 DEF appendAmbiguous
  <2>3. UNCHANGED <<mode, index>>
    BY Zenon DEF appendAmbiguous
  <2> QED  BY <2>1, <2>2, <2>3, Zenon DEF TypeOK, index
<1>2. CASE file' = file
  BY <1>2, Zenon DEF appendAmbiguous, TypeOK, index
<1> QED  BY <1>1, <1>2, Zenon DEF appendAmbiguous

LEMMA StopType ==
    ASSUME TypeOK, Stop
    PROVE  TypeOK'
<1>1. pos' \in 0..Len(file')
  BY DEF Stop, TypeOK
<1>2. /\ pending' \in [Task -> Record \cup {None}]
      /\ spent' \subseteq Task
      /\ runOwners' \in [Grant \X Run -> Calls \cup {None}]
      /\ reserved' \in Nat
      /\ tenantBytes' \in [Tenant -> Nat]
      /\ inferenceCounts' \in [Grant -> Nat]
  BY Zenon DEF Stop, ResetIndex
<1> QED  BY ZenonT(40), <1>1, <1>2 DEF Stop, TypeOK

LEMMA OpenType ==
    ASSUME TypeOK, Open
    PROVE  TypeOK'
BY Zenon DEF Open, TypeOK, index

LEMMA ReplayType ==
    ASSUME TypeOK, NEW visited, replayVisiting(visited)
    PROVE  TypeOK'
<1> DEFINE r == file[pos + 1]
<1>1. r \in Record
  BY DEF replayVisiting, TypeOK
<1>2. CASE mode' = "refused" /\ UNCHANGED <<file, torn, pos, failed, index>>
  BY <1>2, Zenon DEF TypeOK, index
<1>3. CASE /\ Index(r)
           /\ tenantBytes' = [tenantBytes EXCEPT ![r.call.tenant] = @ + r.size]
           /\ pos' = pos + 1
           /\ UNCHANGED <<file, torn, mode, failed, reserved>>
  <2> HIDE DEF r
  <2>1. tenantBytes' \in [Tenant -> Nat]
    BY <1>1, <1>3, RecordFields DEF TypeOK
  <2>2. pos' \in 0..Len(file')
    BY <1>3 DEF replayVisiting, TypeOK
  <2> QED  BY ZenonT(40), <1>1, <1>3, <2>1, <2>2, IndexType DEF TypeOK
<1> QED  BY <1>2, <1>3, Zenon DEF replayVisiting

LEMMA OpenCompleteType ==
    ASSUME TypeOK, OpenComplete
    PROVE  TypeOK'
<1> DEFINE usage == [t \in Tenant |-> tenantBytes[t] + ReservationsFor(pending, {t})]
<1>1. usage \in [Tenant -> Nat] /\ ReservationsFor(pending, Tenant) \in Nat
  BY ReservationsForType DEF TypeOK
<1>2. CASE mode' = "refused" /\ UNCHANGED <<file, torn, pos, failed, index>>
  BY <1>2, Zenon DEF TypeOK, index
<1>3. CASE /\ mode' = "live"
           /\ tenantBytes' = usage
           /\ reserved' = ReservationsFor(pending, Tenant)
           /\ UNCHANGED <<file, torn, pos, failed, pending, spent, runOwners, inferenceCounts>>
  <2> HIDE DEF usage
  <2> QED  BY <1>1, <1>3, Zenon DEF TypeOK
<1> QED  BY <1>2, <1>3, Zenon DEF OpenComplete

LEMMA InitType == LedgerInit => TypeOK
<1> SUFFICES ASSUME LedgerInit PROVE TypeOK
  OBVIOUS
<1>1. file \in Seq(Record) /\ pos \in 0..Len(file)
  BY DEF LedgerInit
<1>2. /\ pending \in [Task -> Record \cup {None}]
      /\ spent \subseteq Task
      /\ runOwners \in [Grant \X Run -> Calls \cup {None}]
      /\ reserved \in Nat
      /\ tenantBytes \in [Tenant -> Nat]
      /\ inferenceCounts \in [Grant -> Nat]
  BY Zenon DEF LedgerInit, EmptyIndex
<1> QED  BY ZenonT(40), <1>1, <1>2 DEF LedgerInit, TypeOK

-----------------------------------------------------------------------------
(* The steps of LedgerNext, sorted by what they do to the file: a line is  *)
(* appended or left in doubt, or the handle is closed and opened.  An      *)
(* authorization always names a task that was not spent.                   *)
Appends(r) == \E delta \in Int : appendLocked(r, delta) \/ appendAmbiguous(r, delta)

LEMMA NextCases ==
    ASSUME TypeOK, LedgerNext
    PROVE  \/ \E r \in Record : /\ Appends(r)
                                /\ r.phase = "authorize" => begins(r.call)
                                /\ r.phase = "dispatch" => dispatches(r)
                                /\ r.phase = "terminal" => finishes(r)
           \/ Stop
           \/ Open
           \/ replayVisiting(TRUE)
           \/ OpenComplete
<1> DEFINE Goal == \E r \in Record : /\ Appends(r)
                                     /\ r.phase = "authorize" => begins(r.call)
                                     /\ r.phase = "dispatch" => dispatches(r)
                                     /\ r.phase = "terminal" => finishes(r)
<1>1. ASSUME NEW c \in Calls, NEW n \in LineSizes, Begin(c, n) \/ BeginAmbiguous(c, n)
      PROVE  Goal
  <2> DEFINE r == AuthorizeRecord(c, n)
  <2>1. r \in Record /\ r.phase = "authorize" /\ r.call = c
    BY AuthorizeRecordType, Zenon DEF AuthorizeRecord
  <2>2. Appends(r) /\ begins(c)
    BY <1>1, ReservationType DEF Begin, BeginAmbiguous, Appends
  <2> HIDE DEF r
  <2> QED  BY <2>1, <2>2, Zenon
<1>2. ASSUME NEW c \in Calls, NEW n \in LineSizes, NEW run \in Run,
             Dispatch(c, run, n) \/ DispatchAmbiguous(c, run, n)
      PROVE  Goal
  <2> DEFINE r == DispatchRecord(c, run, n)
  <2>1. r \in Record /\ r.phase = "dispatch"
    BY DispatchRecordType, Zenon DEF DispatchRecord
  <2>2. Appends(r) /\ dispatches(r)
    BY <1>2, SizeAssumption DEF Dispatch, DispatchAmbiguous, Appends
  <2> HIDE DEF r
  <2> QED  BY <2>1, <2>2, Zenon
<1>3. ASSUME NEW c \in Calls, NEW n \in LineSizes, NEW run \in Run \cup {None},
             NEW outcome \in {"responded", "failed"},
             Finish(c, run, outcome, n) \/ FinishAmbiguous(c, run, outcome, n)
      PROVE  Goal
  <2> DEFINE r == TerminalRecord(c, run, outcome, n)
  <2>1. r \in Record /\ r.phase = "terminal"
    BY TerminalRecordType, Zenon DEF TerminalRecord
  <2>2. -pendingReservation(pending[c.task]) \in Int
    BY SMTT(40), ReservationType
  <2>3. Appends(r) /\ finishes(r)
    BY <1>3, <2>2, Zenon DEF Finish, FinishAmbiguous, Appends
  <2> HIDE DEF r
  <2> QED  BY <2>1, <2>3, Zenon
<1>4. ASSUME NEW c \in Calls, NEW n \in LineSizes, AppendDeny(c, n) \/ AppendDenyAmbiguous(c, n)
      PROVE  Goal
  <2> DEFINE r == DenyRecord(c, n)
  <2>1. r \in Record /\ r.phase = "deny"
    BY DenyRecordType, Zenon DEF DenyRecord
  <2>2. Appends(r)
    BY <1>4 DEF AppendDeny, AppendDenyAmbiguous, Appends
  <2> HIDE DEF r
  <2> QED  BY <2>1, <2>2, Zenon
<1> HIDE DEF Goal
<1>5. Goal \/ Stop \/ Open \/ replayVisiting(TRUE) \/ OpenComplete
  BY ZenonT(40), <1>1, <1>2, <1>3, <1>4 DEF LedgerNext, ReplayRecord
<1> QED  BY ZenonT(40), <1>5 DEF Goal

LEMMA NextType ==
    ASSUME TypeOK, LedgerNext
    PROVE  TypeOK'
<1>1. ASSUME NEW r \in Record, Appends(r)
      PROVE  TypeOK'
  BY <1>1, AppendLockedType, AppendAmbiguousType, Zenon DEF Appends
<1> QED  BY ZenonT(40), <1>1, NextCases, StopType, OpenType, ReplayType, OpenCompleteType

(* Type correctness of the ledger handle and its file: in particular the   *)
(* reserved and tenant byte counts never become negative, whatever order   *)
(* Begin, Dispatch, Finish and reopening come in (ledger.go:637-655).      *)
THEOREM LedgerTypeCorrect == LedgerSpec => []TypeOK
<1>1. TypeOK /\ UNCHANGED ledgerVars => TypeOK'
  BY Zenon DEF TypeOK, ledgerVars, index
<1> QED  BY <1>1, InitType, NextType, PTL DEF LedgerSpec

-----------------------------------------------------------------------------
(* What the index says of the lines it was built from.  AuthorizedOnce and *)
(* the other properties of the file are not inductive: they need that      *)
(* every line already written is still in the index of a usable handle,    *)
(* and of an open in progress as far as it has come.                       *)
Known == mode = "replay" \/ Writable

verified == IF mode = "replay" THEN pos ELSE Len(file)

SpentKnown(f, n, sp) == \A i \in 1..n : f[i].phase # "deny" => f[i].call.task \in sp

PendingKnown(f, n, sp, pend) ==
    \A t \in Task : pend[t] # None =>
        /\ pend[t].call.task = t
        /\ t \in sp
        /\ \E i \in 1..n : f[i].phase = "authorize" /\ f[i].call = pend[t].call
        /\ \A i \in 1..n : f[i].call.task = t => f[i].phase # "terminal"
        /\ pend[t].phase = "authorize" =>
               \A i \in 1..n : f[i].call.task = t => f[i].phase # "dispatch"

OwnersKnown(f, n, owners) ==
    \A i \in 1..n : f[i].phase = "dispatch" =>
        /\ f[i].run \in Run
        /\ owners[<<f[i].call.grant, f[i].run>>] # None
        /\ f[i].call.target = None =>
               owners[<<f[i].call.grant, f[i].run>>].task = f[i].call.task

OwnersBacked(f, n, owners) ==
    \A g \in Grant, run \in Run : owners[<<g, run>>] # None =>
        \E i \in 1..n : /\ f[i].phase = "dispatch"
                        /\ f[i].call = owners[<<g, run>>]
                        /\ f[i].call.grant = g
                        /\ f[i].run = run

Hist(f, n, sp, pend, owners) ==
    /\ SpentKnown(f, n, sp)
    /\ PendingKnown(f, n, sp, pend)
    /\ OwnersKnown(f, n, owners)
    /\ OwnersBacked(f, n, owners)

HistoryInv ==
    /\ mode = "closed" => pos = 0 /\ pending = [t \in Task |-> None]
                          /\ runOwners = [o \in Grant \X Run |-> None]
    /\ Known => Hist(file, verified, spent, pending, runOwners)

(* The conditions an accepted line satisfies, when written and when read.  *)
Accepted(r) ==
    /\ r.phase = "authorize" => r.call.task \notin spent
                                /\ validateRunControlOwner(r.call, runOwners)
                                /\ validateInferenceScopeOwner(r.call, pending)
    /\ r.phase = "dispatch" => dispatches(r)
    /\ r.phase = "terminal" => finishes(r)

FileInv == AuthorizedOnce /\ RunOwnedByOneTask /\ ScopedInferenceInsideParent

IInv == TypeOK /\ HistoryInv /\ FileInv

(* Only a pending authorization can be dispatched.                         *)
LEMMA DispatchedWasAuthorized ==
    ASSUME TypeOK, NEW r \in Record, r.phase = "dispatch", dispatches(r)
    PROVE  /\ pending[r.call.task] # None
           /\ pending[r.call.task].phase = "authorize"
           /\ pending[r.call.task].call = r.call
           /\ r.run \in Run
<1>1. r.run # None
  BY Zenon DEF dispatches, validateEvent
<1> QED  BY <1>1, RecordFields, Zenon DEF dispatches, validateTransition

(* The index follows the lines: one more line, one more step of Index.     *)
LEMMA HistStep ==
    ASSUME TypeOK, NEW n \in Nat, Hist(file, n, spent, pending, runOwners),
           NEW r \in Record, Accepted(r), Index(r),
           NEW f \in Seq(Record), n + 1 <= Len(f), f[n + 1] = r, n <= Len(file),
           \A i \in 1..n : f[i] = file[i]
    PROVE  Hist(f, n + 1, spent', pending', runOwners')
<1> DEFINE t == r.call.task
<1>0. /\ t \in Task /\ r.call.grant \in Grant /\ r.call \in Calls
      /\ r.phase \in {"authorize", "dispatch", "terminal", "deny"}
  BY RecordFields, Zenon DEF Record, Phase
<1>1. \A i \in 1..(n + 1) : i \in 1..n \/ i = n + 1
  OBVIOUS
<1>2. r.phase # "deny" => t \in spent'
  <2>1. CASE r.phase = "authorize"
    BY <2>1, Zenon DEF Index
  <2>2. CASE r.phase \in {"dispatch", "terminal"}
    BY <1>0, <2>2, Zenon DEF Accepted, dispatches, finishes, Hist, PendingKnown, Index
  <2> QED  BY <1>0, <2>1, <2>2, Zenon
<1>3. SpentKnown(f, n + 1, spent')
  BY ZenonT(40), <1>1, <1>2 DEF Hist, SpentKnown, Index
<1>4. PendingKnown(f, n + 1, spent', pending')
  <2> SUFFICES ASSUME NEW u \in Task, pending'[u] # None
               PROVE  /\ pending'[u].call.task = u
                      /\ u \in spent'
                      /\ \E i \in 1..(n + 1) : f[i].phase = "authorize" /\ f[i].call = pending'[u].call
                      /\ \A i \in 1..(n + 1) : f[i].call.task = u => f[i].phase # "terminal"
                      /\ pending'[u].phase = "authorize" =>
                             \A i \in 1..(n + 1) : f[i].call.task = u => f[i].phase # "dispatch"
    BY Zenon DEF PendingKnown
  <2>1. CASE r.phase = "authorize" /\ u = t
    <3>1. pending'[u] = r
      BY <1>0, <2>1, Zenon DEF Index, TypeOK
    <3>2. \A i \in 1..n : f[i].call.task = u => f[i].phase = "deny"
      BY <2>1, Zenon DEF Hist, SpentKnown, Accepted
    <3>3. n + 1 \in 1..(n + 1)
      OBVIOUS
    <3> QED  BY <1>1, <1>2, <2>1, <3>1, <3>2, <3>3, Zenon
  <2>2. CASE r.phase = "dispatch" /\ u = t
    <3>1. pending'[u] = r
      BY <1>0, <2>2, Zenon DEF Index, TypeOK
    <3>2. pending[u] # None /\ pending[u].call = r.call
      BY <2>2, DispatchedWasAuthorized, Zenon DEF Accepted
    <3>3. /\ \E i \in 1..n : file[i].phase = "authorize" /\ file[i].call = r.call
          /\ \A i \in 1..n : file[i].call.task = u => file[i].phase # "terminal"
      BY SMTT(40), <3>2 DEF Hist, PendingKnown
    <3>4. \E i \in 1..(n + 1) : f[i].phase = "authorize" /\ f[i].call = r.call
      BY SMTT(40), <3>3
    <3>5. \A i \in 1..(n + 1) : f[i].call.task = u => f[i].phase # "terminal"
      BY <1>1, <2>2, <3>3, Zenon
    <3> QED  BY <1>2, <2>2, <3>1, <3>4, <3>5, Zenon
  <2>3. CASE u # t \/ r.phase = "deny"
    <3>1. pending'[u] = pending[u] /\ spent \subseteq spent'
      BY <1>0, <2>3, Zenon DEF Index, TypeOK
    <3>2. r.call.task = u => r.phase = "deny"
      BY <2>3, Zenon
    <3>3. /\ pending[u].call.task = u
          /\ u \in spent
          /\ \E i \in 1..n : file[i].phase = "authorize" /\ file[i].call = pending[u].call
          /\ \A i \in 1..n : file[i].call.task = u => file[i].phase # "terminal"
          /\ pending[u].phase = "authorize" =>
                 \A i \in 1..n : file[i].call.task = u => file[i].phase # "dispatch"
      BY <3>1, Zenon DEF Hist, PendingKnown
    <3>4. \E i \in 1..(n + 1) : f[i].phase = "authorize" /\ f[i].call = pending'[u].call
      BY SMTT(40), <3>1, <3>3
    <3> QED  BY ZenonT(40), <1>1, <3>1, <3>2, <3>3, <3>4
  <2>4. CASE r.phase = "terminal" /\ u = t
    BY <1>0, <2>4, Zenon DEF Index, TypeOK
  <2> QED  BY <1>0, <2>1, <2>2, <2>3, <2>4, Zenon
<1>5. CASE r.phase = "dispatch" /\ r.call.target = None
  <2> DEFINE owned == <<r.call.grant, r.run>>
  <2>1. r.run \in Run /\ ~runConflict(r, runOwners)
    BY <1>5, DispatchedWasAuthorized, Zenon DEF Accepted, dispatches
  <2>2. /\ runOwners' = [runOwners EXCEPT ![owned] = r.call]
        /\ owned \in Grant \X Run
        /\ DOMAIN runOwners = Grant \X Run
    BY <1>0, <1>5, <2>1, Zenon DEF Index, TypeOK
  <2>3. /\ runOwners'[owned] = r.call
        /\ \A o \in Grant \X Run : o # owned => runOwners'[o] = runOwners[o]
    <3> HIDE DEF owned
    <3> QED  BY <2>2, Zenon
  <2>4. r.call # None
    BY <1>0, NoneAssumption, Zenon
  <2>5. runOwners[owned] # None => runOwners[owned].task = r.call.task
    BY <1>5, <2>1, Zenon DEF runConflict
  <2>6. OwnersKnown(f, n + 1, runOwners')
    <3> SUFFICES ASSUME NEW i \in 1..(n + 1), f[i].phase = "dispatch"
                 PROVE  /\ f[i].run \in Run
                        /\ runOwners'[<<f[i].call.grant, f[i].run>>] # None
                        /\ f[i].call.target = None =>
                               runOwners'[<<f[i].call.grant, f[i].run>>].task = f[i].call.task
      BY Zenon DEF OwnersKnown
    <3> DEFINE o == <<f[i].call.grant, f[i].run>>
    <3>1. CASE i = n + 1
      BY <2>1, <2>3, <2>4, <3>1, Zenon
    <3>2. CASE i \in 1..n
      <4>1. /\ f[i].run \in Run
            /\ runOwners[o] # None
            /\ f[i].call.target = None => runOwners[o].task = f[i].call.task
        BY <3>2, Zenon DEF Hist, OwnersKnown
      <4>2. f[i] \in Record /\ o \in Grant \X Run
        BY SMTT(40), <4>1, RecordFields
      <4>3. CASE o = owned
        <5>1. runOwners'[o] # None /\ (f[i].call.target = None => runOwners'[o].task = f[i].call.task)
          <6> HIDE DEF o, owned
          <6> QED  BY <2>3, <2>4, <2>5, <4>1, <4>3, Zenon
        <5> QED  BY <4>1, <5>1, Zenon
      <4>4. CASE o # owned
        <5>1. runOwners'[o] = runOwners[o]
          <6> HIDE DEF o, owned
          <6> QED  BY <2>3, <4>2, <4>4, Zenon
        <5>2. runOwners'[o] # None /\ (f[i].call.target = None => runOwners'[o].task = f[i].call.task)
          <6> HIDE DEF o
          <6> QED  BY <4>1, <5>1, Zenon
        <5> QED  BY <4>1, <5>2, Zenon
      <4> QED  BY <4>3, <4>4, Zenon
    <3> QED  BY <1>1, <3>1, <3>2, Zenon
  <2>7. OwnersBacked(f, n + 1, runOwners')
    <3> SUFFICES ASSUME NEW g \in Grant, NEW run \in Run, runOwners'[<<g, run>>] # None
                 PROVE  \E i \in 1..(n + 1) : /\ f[i].phase = "dispatch"
                                              /\ f[i].call = runOwners'[<<g, run>>]
                                              /\ f[i].call.grant = g
                                              /\ f[i].run = run
      BY ZenonT(40) DEF OwnersBacked
    <3> DEFINE o == <<g, run>>
    <3>1. CASE o = owned
      <4>1. runOwners'[o] = r.call /\ r.call.grant = g /\ r.run = run
        BY <2>3, <3>1, Zenon
      <4> QED  BY SMTT(40), <1>5, <4>1
    <3>2. CASE o # owned
      <4>1. runOwners'[o] = runOwners[o]
        <5>1. o \in Grant \X Run
          OBVIOUS
        <5> HIDE DEF o, owned
        <5> QED  BY <2>3, <3>2, <5>1, Zenon
      <4>2. PICK i \in 1..n : /\ file[i].phase = "dispatch" /\ file[i].call = runOwners[o]
                              /\ file[i].call.grant = g /\ file[i].run = run
        BY <4>1, ZenonT(40) DEF Hist, OwnersBacked
      <4>3. f[i] = file[i] /\ i \in 1..(n + 1)
        OBVIOUS
      <4> QED  BY <4>1, <4>2, <4>3, Zenon
    <3> QED  BY <3>1, <3>2, Zenon
  <2> QED  BY <1>3, <1>4, <2>6, <2>7, Zenon DEF Hist
<1>6. CASE ~(r.phase = "dispatch" /\ r.call.target = None)
  <2>1. runOwners' = runOwners
    BY <1>6, Zenon DEF Index
  <2>2. r.phase = "dispatch" => /\ r.run \in Run
                               /\ r.call.target # None
                               /\ runOwners[<<r.call.grant, r.run>>] # None
    <3> SUFFICES ASSUME r.phase = "dispatch"
                 PROVE  /\ r.run \in Run
                        /\ r.call.target # None
                        /\ runOwners[<<r.call.grant, r.run>>] # None
      OBVIOUS
    <3>1. r.run \in Run /\ r.run # None /\ r.call.target # None
      BY <1>6, DispatchedWasAuthorized, NoneAssumption, Zenon DEF Accepted
    <3>2. r.run = r.call.targetRun
      BY <3>1, Zenon DEF Accepted, dispatches, validateEvent
    <3>3. runOwners[<<r.call.grant, r.call.targetRun>>] # None
      BY <3>1, Zenon DEF Accepted, dispatches, validateRunControlOwner
    <3> QED  BY <3>1, <3>2, <3>3, Zenon
  <2>3. OwnersKnown(f, n + 1, runOwners')
    BY ZenonT(40), <1>1, <2>1, <2>2 DEF Hist, OwnersKnown
  <2>4. OwnersBacked(f, n + 1, runOwners')
    <3> SUFFICES ASSUME NEW g \in Grant, NEW run \in Run, runOwners[<<g, run>>] # None
                 PROVE  \E i \in 1..(n + 1) : /\ f[i].phase = "dispatch"
                                              /\ f[i].call = runOwners[<<g, run>>]
                                              /\ f[i].call.grant = g
                                              /\ f[i].run = run
      BY ZenonT(40), <2>1 DEF OwnersBacked
    <3>1. PICK i \in 1..n : /\ file[i].phase = "dispatch" /\ file[i].call = runOwners[<<g, run>>]
                            /\ file[i].call.grant = g /\ file[i].run = run
      BY ZenonT(40) DEF Hist, OwnersBacked
    <3>2. f[i] = file[i] /\ i \in 1..(n + 1)
      OBVIOUS
    <3> QED  BY <3>1, <3>2, Zenon
  <2> QED  BY <1>3, <1>4, <2>3, <2>4, Zenon DEF Hist
<1> QED  BY <1>5, <1>6, Zenon

-----------------------------------------------------------------------------
(* The file: one more line that the index accepts keeps it well formed.    *)

LEMMA AuthorizedOnceStep ==
    ASSUME TypeOK, Hist(file, Len(file), spent, pending, runOwners), AuthorizedOnce,
           NEW r \in Record, Accepted(r), file' = Append(file, r)
    PROVE  AuthorizedOnce'
<1>1. /\ Len(file') = Len(file) + 1
      /\ file'[Len(file) + 1] = r
      /\ \A i \in 1..Len(file) : file'[i] = file[i]
  BY DEF TypeOK
<1>2. r.phase = "authorize" =>
          \A i \in 1..Len(file) : file[i].phase = "authorize" => file[i].call.task # r.call.task
  BY Zenon DEF Accepted, Hist, SpentKnown
<1>3. \A i \in 1..Len(file') : i \in 1..Len(file) \/ i = Len(file) + 1
  BY <1>1 DEF TypeOK
<1> SUFFICES ASSUME NEW i \in 1..Len(file'), NEW j \in 1..Len(file'),
                    file'[i].phase = "authorize", file'[j].phase = "authorize",
                    file'[i].call.task = file'[j].call.task
             PROVE  i = j
  BY Zenon DEF AuthorizedOnce
<1> QED  BY <1>1, <1>2, <1>3, Zenon DEF AuthorizedOnce

LEMMA RunOwnedStep ==
    ASSUME TypeOK, Hist(file, Len(file), spent, pending, runOwners), RunOwnedByOneTask,
           NEW r \in Record, Accepted(r), file' = Append(file, r)
    PROVE  RunOwnedByOneTask'
<1>1. /\ Len(file') = Len(file) + 1
      /\ file'[Len(file) + 1] = r
      /\ \A i \in 1..Len(file) : file'[i] = file[i] /\ file[i] \in Record
      /\ Len(file) \in Nat
  BY DEF TypeOK
<1>2. \A i \in 1..Len(file') : i \in 1..Len(file) \/ i = Len(file) + 1
  BY SMTT(40), <1>1
<1> SUFFICES ASSUME NEW i \in 1..Len(file'), NEW j \in 1..Len(file'),
                    file'[i].phase = "dispatch", file'[j].phase = "dispatch",
                    file'[i].call.grant = file'[j].call.grant,
                    file'[i].run = file'[j].run,
                    file'[i].call.target = None
             PROVE  i = j \/ (file'[j].call.target = file'[i].call.task /\ i < j)
  BY Zenon DEF RunOwnedByOneTask
<1>3. CASE i \in 1..Len(file) /\ j \in 1..Len(file)
  BY <1>1, <1>3, Zenon DEF RunOwnedByOneTask
<1>4. ASSUME i \in 1..Len(file), j = Len(file) + 1
      PROVE  file'[j].call.target = file'[i].call.task /\ i < j
  <2> DEFINE owner == runOwners[<<r.call.grant, r.run>>]
  <2>1. dispatches(r) /\ r.phase = "dispatch"
    BY <1>1, <1>4, Zenon DEF Accepted
  <2>2. owner # None /\ owner.task = file[i].call.task
    <3>1. file[i].call.grant = r.call.grant /\ file[i].run = r.run
          /\ file[i].phase = "dispatch" /\ file[i].call.target = None
      BY <1>1, <1>4, Zenon
    <3> QED  BY <1>4, <3>1, Zenon DEF Hist, OwnersKnown
  <2>3. CASE r.call.target # None
    <3>1. r.run = r.call.targetRun
      BY <2>1, <2>3, DispatchedWasAuthorized, NoneAssumption, Zenon DEF dispatches, validateEvent
    <3>2. owner.task = r.call.target
      BY <2>1, <2>3, <3>1, Zenon DEF dispatches, validateRunControlOwner
    <3>3. file'[j] = r /\ file'[i] = file[i] /\ i < j
      BY SMTT(40), <1>1, <1>4
    <3> HIDE DEF owner
    <3> QED  BY ZenonT(40), <2>2, <3>2, <3>3
  <2>4. CASE r.call.target = None
    <3>1. owner.task = r.call.task
      BY <2>1, <2>2, <2>4, Zenon DEF dispatches, runConflict
    <3>2. r.call.task \in Task /\ pending[r.call.task] # None /\ pending[r.call.task].phase = "authorize"
      BY <2>1, DispatchedWasAuthorized, RecordFields, Zenon
    <3>3. file[i].call.task = r.call.task
      <4> HIDE DEF owner
      <4> QED  BY <2>2, <3>1, Zenon
    <3>4. file[i].phase # "dispatch"
      BY <1>4, <3>2, <3>3, Zenon DEF Hist, PendingKnown
    <3> QED  BY <1>1, <1>4, <3>4, Zenon
  <2> QED  BY <2>3, <2>4, Zenon
<1>5. ASSUME i = Len(file) + 1, j \in 1..Len(file)
      PROVE  FALSE
  <2> DEFINE owner == runOwners[<<r.call.grant, r.run>>]
  <2>1. dispatches(r) /\ r.phase = "dispatch" /\ r.call.target = None
    BY <1>1, <1>5, Zenon DEF Accepted
  <2>2. owner # None
    <3>1. file[j].call.grant = r.call.grant /\ file[j].run = r.run /\ file[j].phase = "dispatch"
      BY <1>1, <1>5, Zenon
    <3> QED  BY <1>5, <3>1, Zenon DEF Hist, OwnersKnown
  <2>3. owner.task = r.call.task
    BY <2>1, <2>2, Zenon DEF dispatches, runConflict
  <2>4. /\ r.call.task \in Task /\ r.call.grant \in Grant /\ r.run \in Run
        /\ pending[r.call.task] # None /\ pending[r.call.task].phase = "authorize"
    BY <2>1, DispatchedWasAuthorized, RecordFields, Zenon
  <2>5. PICK k \in 1..Len(file) : file[k].phase = "dispatch" /\ file[k].call.task = owner.task
    BY <2>2, <2>4, Zenon DEF Hist, OwnersBacked
  <2> QED  BY <2>3, <2>4, <2>5, SMTT(30) DEF Hist, PendingKnown
<1> QED  BY <1>2, <1>3, <1>4, <1>5, Zenon

LEMMA ScopedInferenceStep ==
    ASSUME TypeOK, Hist(file, Len(file), spent, pending, runOwners), ScopedInferenceInsideParent,
           NEW r \in Record, Accepted(r), file' = Append(file, r)
    PROVE  ScopedInferenceInsideParent'
<1>1. /\ Len(file') = Len(file) + 1
      /\ file'[Len(file) + 1] = r
      /\ \A i \in 1..Len(file) : file'[i] = file[i]
      /\ Len(file) \in Nat
  BY SMTT(40) DEF TypeOK
<1> SUFFICES ASSUME NEW i \in 1..Len(file'), file'[i].phase = "authorize",
                    file'[i].call.scope # None
             PROVE  /\ \E j \in 1..(i - 1) : /\ file'[j].phase = "authorize"
                                              /\ file'[j].call.task = file'[i].call.scope
                                              /\ file'[j].call.permit = file'[i].call.scopePermit
                    /\ \A j \in 1..(i - 1) : file'[j].phase = "terminal" =>
                                                 file'[j].call.task # file'[i].call.scope
  BY Zenon DEF ScopedInferenceInsideParent
<1>2. CASE i \in 1..Len(file)
  <2>1. \A j \in 1..(i - 1) : j \in 1..Len(file) /\ file'[j] = file[j]
    BY SMTT(40), <1>1, <1>2
  <2>2. file'[i] = file[i]
    BY <1>1, <1>2, Zenon
  <2>3. /\ \E j \in 1..(i - 1) : /\ file[j].phase = "authorize"
                                  /\ file[j].call.task = file[i].call.scope
                                  /\ file[j].call.permit = file[i].call.scopePermit
        /\ \A j \in 1..(i - 1) : file[j].phase = "terminal" =>
                                     file[j].call.task # file[i].call.scope
    BY <1>2, <2>2, Zenon DEF ScopedInferenceInsideParent
  <2> QED  BY <2>1, <2>2, <2>3, Zenon
<1>3. CASE i = Len(file) + 1
  <2>1. file'[i] = r /\ r.phase = "authorize" /\ r.call.scope # None /\ i - 1 = Len(file)
    BY SMTT(40), <1>1, <1>3
  <2>2. r.call.scope \in Task
    BY <2>1, RecordFields, CallsAssumption, Zenon DEF Call
  <2>3. pending[r.call.scope] # None /\ pending[r.call.scope].call.permit = r.call.scopePermit
    BY <2>1, Zenon DEF Accepted, validateInferenceScopeOwner
  <2>4. /\ pending[r.call.scope].call.task = r.call.scope
        /\ \E j \in 1..Len(file) : /\ file[j].phase = "authorize"
                                    /\ file[j].call = pending[r.call.scope].call
        /\ \A j \in 1..Len(file) : file[j].call.task = r.call.scope => file[j].phase # "terminal"
    BY <2>2, <2>3, Zenon DEF Hist, PendingKnown
  <2> QED  BY <1>1, <2>1, <2>3, <2>4, SMTT(30)
<1> QED  BY <1>1, <1>2, <1>3, SMTT(30)

-----------------------------------------------------------------------------
(* The inductive invariant.                                                *)

LEMMA InitIInv == LedgerInit => IInv
<1> SUFFICES ASSUME LedgerInit PROVE IInv
  OBVIOUS
<1>1. TypeOK
  BY InitType, Zenon
<1>2. HistoryInv
  BY Zenon DEF LedgerInit, EmptyIndex, HistoryInv, Known, Writable
<1>3. FileInv
  BY SMTT(30) DEF LedgerInit, FileInv, AuthorizedOnce, RunOwnedByOneTask, ScopedInferenceInsideParent
<1> QED  BY <1>1, <1>2, <1>3, Zenon DEF IInv

LEMMA AppendIInv ==
    ASSUME IInv, NEW r \in Record, Appends(r), Accepted(r)
    PROVE  IInv'
<1> USE DEF IInv
<1>1. TypeOK'
  BY AppendLockedType, AppendAmbiguousType, Zenon DEF Appends
<1>2. Writable /\ mode = "live" /\ Hist(file, Len(file), spent, pending, runOwners)
  BY Zenon DEF Appends, appendLocked, appendAmbiguous, Writable, HistoryInv, Known, verified
<1>3. CASE file' = file
  <2>1. FileInv'
    BY <1>3, SMTT(30) DEF FileInv, AuthorizedOnce, RunOwnedByOneTask, ScopedInferenceInsideParent
  <2>2. failed' /\ mode' = "live"
    BY <1>2, <1>3 DEF Appends, appendLocked, appendAmbiguous, TypeOK
  <2>3. HistoryInv'
    BY <2>2, Zenon DEF HistoryInv, Known, Writable
  <2> QED  BY <1>1, <2>1, <2>3, Zenon
<1>4. CASE file' = Append(file, r)
  <2>1. FileInv'
    BY <1>2, <1>4, AuthorizedOnceStep, RunOwnedStep, ScopedInferenceStep, Zenon DEF FileInv
  <2>2. CASE Index(r) /\ mode' = mode
    <3>1. /\ file' \in Seq(Record)
          /\ Len(file) \in Nat
          /\ Len(file') = Len(file) + 1
          /\ file'[Len(file) + 1] = r
          /\ \A i \in 1..Len(file) : file'[i] = file[i]
      BY SMTT(40), <1>4 DEF TypeOK
    <3>2. Hist(file', Len(file) + 1, spent', pending', runOwners')
      BY SMTT(40), <1>2, <2>2, <3>1, HistStep
    <3>3. verified' = Len(file) + 1 /\ mode' = "live"
      BY <1>2, <2>2, <3>1, Zenon DEF verified
    <3>4. HistoryInv'
      BY <3>2, <3>3, Zenon DEF HistoryInv
    <3> QED  BY <1>1, <2>1, <3>4, Zenon
  <2>3. CASE failed' /\ mode' = "live"
    <3>1. HistoryInv'
      BY <2>3, Zenon DEF HistoryInv, Known, Writable
    <3> QED  BY <1>1, <2>1, <3>1, Zenon
  <2>4. (Index(r) /\ mode' = mode) \/ (failed' /\ mode' = "live")
    BY <1>2, Zenon DEF Appends, appendLocked, appendAmbiguous
  <2> QED  BY <2>2, <2>3, <2>4, Zenon
<1> QED  BY <1>3, <1>4, Zenon DEF Appends, appendLocked, appendAmbiguous

LEMMA ReopenIInv ==
    ASSUME IInv, Stop \/ Open \/ OpenComplete
    PROVE  IInv'
<1> USE DEF IInv
<1>1. TypeOK'
  BY StopType, OpenType, OpenCompleteType, Zenon
<1>2. file' = file
  BY Zenon DEF Stop, Open, OpenComplete
<1>3. FileInv'
  BY <1>2, SMTT(30) DEF FileInv, AuthorizedOnce, RunOwnedByOneTask, ScopedInferenceInsideParent
<1>4. CASE Stop
  <2>1. HistoryInv'
    BY <1>4, Zenon DEF Stop, ResetIndex, HistoryInv, Known, Writable
  <2> QED  BY <1>1, <1>3, <2>1, Zenon
<1>5. CASE Open
  <2>1. pos' = 0 /\ pending' = [t \in Task |-> None] /\ runOwners' = [o \in Grant \X Run |-> None]
    BY <1>5, Zenon DEF Open, HistoryInv, index
  <2>2. Hist(file', 0, spent', pending', runOwners')
    BY <2>1 DEF Hist, SpentKnown, PendingKnown, OwnersKnown, OwnersBacked
  <2>3. mode' \in {"refused", "replay"}
    BY <1>5, Zenon DEF Open
  <2>4. HistoryInv'
    BY <2>1, <2>2, <2>3, Zenon DEF HistoryInv, Known, Writable, verified
  <2> QED  BY <1>1, <1>3, <2>4, Zenon
<1>6. CASE OpenComplete
  <2>1. mode = "replay" /\ pos = Len(file) /\ mode' \in {"live", "refused"}
    BY <1>6, Zenon DEF OpenComplete
  <2>2. UNCHANGED <<spent, pending, runOwners>>
    BY <1>6, Zenon DEF OpenComplete, index
  <2>3. Hist(file, pos, spent, pending, runOwners)
    BY <2>1, Zenon DEF HistoryInv, Known, verified
  <2>4. HistoryInv'
    BY <1>2, <2>1, <2>2, <2>3, Zenon DEF HistoryInv, Known, Writable, verified
  <2> QED  BY <1>1, <1>3, <2>4, Zenon
<1> QED  BY <1>4, <1>5, <1>6, Zenon

LEMMA ReplayIInv ==
    ASSUME IInv, NEW visited, replayVisiting(visited)
    PROVE  IInv'
<1> USE DEF IInv
<1> DEFINE r == file[pos + 1]
<1>1. TypeOK'
  BY ReplayType, Zenon
<1>2. file' = file
  BY Zenon DEF replayVisiting
<1>3. FileInv'
  BY <1>2, SMTT(30) DEF FileInv, AuthorizedOnce, RunOwnedByOneTask, ScopedInferenceInsideParent
<1>4. CASE mode' = "refused"
  <2>1. HistoryInv'
    BY <1>4, Zenon DEF HistoryInv, Known, Writable
  <2> QED  BY <1>1, <1>3, <2>1, Zenon
<1>5. CASE mode' = mode /\ Index(r) /\ replays(r) /\ pos' = pos + 1
  <2>1. mode = "replay" /\ pos \in Nat /\ pos + 1 <= Len(file) /\ r \in Record /\ file \in Seq(Record)
    BY SMTT(30) DEF replayVisiting, TypeOK
  <2>2. Accepted(r)
    <3> HIDE DEF r
    <3>1. r.phase \in {"authorize", "dispatch", "terminal", "deny"}
      BY <2>1, Zenon DEF Record, Phase
    <3> QED  BY <1>5, <3>1, Zenon DEF replays, Accepted
  <2>3. Hist(file, pos, spent, pending, runOwners)
    BY <2>1, Zenon DEF HistoryInv, Known, verified
  <2>4. Hist(file, pos + 1, spent', pending', runOwners')
    BY SMTT(40), <1>5, <2>1, <2>2, <2>3, HistStep
  <2>5. HistoryInv'
    BY <1>2, <1>5, <2>1, <2>4, Zenon DEF HistoryInv, verified
  <2> QED  BY <1>1, <1>3, <2>5, Zenon
<1> QED  BY ZenonT(40), <1>4, <1>5 DEF replayVisiting

LEMMA NextIInv ==
    ASSUME IInv, LedgerNext
    PROVE  IInv'
<1>1. ASSUME NEW r \in Record, Appends(r),
             r.phase = "authorize" => begins(r.call),
             r.phase = "dispatch" => dispatches(r),
             r.phase = "terminal" => finishes(r)
      PROVE  IInv'
  <2>1. Accepted(r)
    BY <1>1, Zenon DEF Accepted, begins
  <2> QED  BY <1>1, <2>1, AppendIInv, Zenon
<1> QED  BY ZenonT(40), <1>1, NextCases, ReopenIInv, ReplayIInv DEF IInv

LEMMA UnchangedIInv ==
    ASSUME IInv, UNCHANGED ledgerVars
    PROVE  IInv'
<1> USE DEF IInv
<1>1. UNCHANGED <<file, torn, mode, pos, failed, pending, spent, runOwners, reserved,
                  tenantBytes, inferenceCounts>>
  BY Zenon DEF ledgerVars, index
<1>2. TypeOK'
  BY <1>1, Zenon DEF TypeOK
<1>3. HistoryInv'
  BY <1>1, Zenon DEF HistoryInv, Known, Writable, verified
<1>4. AuthorizedOnce'
  <2>1. AuthorizedOnce /\ file' = file
    BY <1>1, Zenon DEF FileInv
  <2> QED  BY ONLY <2>1 DEF AuthorizedOnce
<1>5. RunOwnedByOneTask'
  <2>1. RunOwnedByOneTask /\ file' = file
    BY <1>1, Zenon DEF FileInv
  <2> QED  BY ONLY <2>1 DEF RunOwnedByOneTask
<1>6. ScopedInferenceInsideParent'
  <2>1. ScopedInferenceInsideParent /\ file' = file
    BY <1>1, Zenon DEF FileInv
  <2> QED  BY ONLY <2>1 DEF ScopedInferenceInsideParent
<1>7. FileInv'
  BY ONLY <1>4, <1>5, <1>6 DEF FileInv
<1> QED  BY <1>2, <1>3, <1>7, Zenon

LEMMA LedgerInvariant == LedgerSpec => []IInv
BY UnchangedIInv, InitIInv, NextIInv, PTL DEF LedgerSpec

(* No task digest is ever authorized twice in the ledger file, for any     *)
(* calls, budgets and line sizes, over ambiguous writes, stops and         *)
(* reopens: the replay fence of Begin (ledger.go:483).                     *)
THEOREM LedgerAuthorizesOnce == LedgerSpec => []AuthorizedOnce
BY LedgerInvariant, PTL DEF IInv, FileInv

(* A run identifier is accepted for one task of a grant, and a stop only   *)
(* after it, against the task that owns it: the run fence of Dispatch      *)
(* (ledger.go:531) and validateRunControlOwner.                            *)
THEOREM LedgerRunsOwned == LedgerSpec => []RunOwnedByOneTask
BY LedgerInvariant, PTL DEF IInv, FileInv

(* A scoped inference attempt is authorized only between the authorization *)
(* and the terminal record of its parent: the check that Begin repeats     *)
(* under the append lock (ledger.go:489).                                  *)
THEOREM LedgerScopeInsideParent == LedgerSpec => []ScopedInferenceInsideParent
BY LedgerInvariant, PTL DEF IInv, FileInv

=============================================================================
