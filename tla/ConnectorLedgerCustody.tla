------------------------ MODULE ConnectorLedgerCustody ------------------------
(***************************************************************************)
(* Two more results about ConnectorLedger: its file implements the         *)
(* abstract custody of tasks (TaskCustody), and a usable handle always has *)
(* room for the records its unfinished calls still need.                   *)
(***************************************************************************)
EXTENDS ConnectorLedgerProofs, FiniteSetTheorems

(* The last clause of SizeAssumption adds nothing: the tasks are finitely  *)
(* many, so every set of tasks has a number of elements.                   *)
LEMMA CountsAreNatural ==
  ASSUME IsFiniteSet(Task), NEW tasks \in SUBSET Task
  PROVE  Cardinality(tasks) \in Nat
BY FS_Subset, FS_CardinalityType

-----------------------------------------------------------------------------
(* Custody as a function of the lines of a file.                           *)
SpendsIn(f, t) == {i \in 1..Len(f) : f[i].phase = "authorize" /\ f[i].call.task = t}
AcceptsIn(f, t) == {i \in 1..Len(f) : f[i].phase = "dispatch" /\ f[i].call.task = t}

HolderIn(f) == [t \in Task |-> IF SpendsIn(f, t) = {} THEN None
                               ELSE f[CHOOSE i \in SpendsIn(f, t) : TRUE].call]
RunIn(f) == [t \in Task |-> IF AcceptsIn(f, t) = {} THEN None
                            ELSE f[CHOOSE i \in AcceptsIn(f, t) : TRUE].run]
ClosedIn(f) == {t \in Task : \E i \in 1..Len(f) : f[i].phase = "terminal" /\ f[i].call.task = t}

(* What the refinement needs of the file besides FileInv: a task is        *)
(* accepted by one line, under the call that spent it.                     *)
OneOf(f, phase) ==
    \A i, j \in 1..Len(f) :
        f[i].phase = phase /\ f[j].phase = phase /\ f[i].call.task = f[j].call.task => i = j

DispatchBacked(f) ==
    \A i \in 1..Len(f) : f[i].phase = "dispatch" =>
        /\ f[i].run \in Run
        /\ \E j \in 1..Len(f) : f[j].phase = "authorize" /\ f[j].call = f[i].call

CustodyFile(f) == OneOf(f, "authorize") /\ OneOf(f, "dispatch") /\ DispatchBacked(f)

CustodyInv == CustodyFile(file)

(* Under those conditions the choice of a line does not matter.            *)
LEMMA HolderIs ==
    ASSUME NEW f \in Seq(Record), CustodyFile(f), NEW i \in 1..Len(f), f[i].phase = "authorize"
    PROVE  HolderIn(f)[f[i].call.task] = f[i].call
<1> DEFINE t == f[i].call.task
<1>1. f[i] \in Record /\ t \in Task
  BY RecordFields
<1>2. i \in SpendsIn(f, t)
  BY Zenon DEF SpendsIn
<1>3. \A j \in SpendsIn(f, t) : j = i
  BY Zenon DEF SpendsIn, CustodyFile, OneOf
<1>4. (CHOOSE j \in SpendsIn(f, t) : TRUE) = i
  BY <1>2, <1>3, Zenon
<1>5. HolderIn(f)[t] = f[CHOOSE j \in SpendsIn(f, t) : TRUE].call
  <2> HIDE DEF t
  <2> QED  BY <1>1, <1>2, Zenon DEF HolderIn
<1> QED  BY Zenon, <1>4, <1>5

LEMMA RunIs ==
    ASSUME NEW f \in Seq(Record), CustodyFile(f), NEW i \in 1..Len(f), f[i].phase = "dispatch"
    PROVE  RunIn(f)[f[i].call.task] = f[i].run
<1> DEFINE t == f[i].call.task
<1>1. f[i] \in Record /\ t \in Task
  BY RecordFields
<1>2. i \in AcceptsIn(f, t)
  BY Zenon DEF AcceptsIn
<1>3. \A j \in AcceptsIn(f, t) : j = i
  BY Zenon DEF AcceptsIn, CustodyFile, OneOf
<1>4. (CHOOSE j \in AcceptsIn(f, t) : TRUE) = i
  BY <1>2, <1>3, Zenon
<1>5. RunIn(f)[t] = f[CHOOSE j \in AcceptsIn(f, t) : TRUE].run
  <2> HIDE DEF t
  <2> QED  BY <1>1, <1>2, Zenon DEF RunIn
<1> QED  BY Zenon, <1>4, <1>5

LEMMA HolderNone ==
    ASSUME NEW f \in Seq(Record), CustodyFile(f), NEW t \in Task
    PROVE  HolderIn(f)[t] = None <=>
               \A i \in 1..Len(f) : f[i].phase = "authorize" => f[i].call.task # t
<1>1. CASE SpendsIn(f, t) = {}
  BY <1>1, Zenon DEF HolderIn, SpendsIn
<1>2. CASE SpendsIn(f, t) # {}
  <2>1. PICK i \in 1..Len(f) : f[i].phase = "authorize" /\ f[i].call.task = t
    BY <1>2, Zenon DEF SpendsIn
  <2>2. HolderIn(f)[t] = f[i].call /\ f[i].call \in Calls
    BY <2>1, HolderIs, RecordFields
  <2> QED  BY <2>1, <2>2, NoneAssumption, Zenon
<1> QED  BY <1>1, <1>2, Zenon

LEMMA RunNone ==
    ASSUME NEW f \in Seq(Record), CustodyFile(f), NEW t \in Task
    PROVE  RunIn(f)[t] = None <=>
               \A i \in 1..Len(f) : f[i].phase = "dispatch" => f[i].call.task # t
<1>1. CASE AcceptsIn(f, t) = {}
  BY <1>1, Zenon DEF RunIn, AcceptsIn
<1>2. CASE AcceptsIn(f, t) # {}
  <2>1. PICK i \in 1..Len(f) : f[i].phase = "dispatch" /\ f[i].call.task = t
    BY <1>2, Zenon DEF AcceptsIn
  <2>2. RunIn(f)[t] = f[i].run /\ f[i].run \in Run
    BY <2>1, RunIs, Zenon DEF CustodyFile, DispatchBacked
  <2> QED  BY <2>1, <2>2, NoneAssumption, Zenon
<1> QED  BY <1>1, <1>2, Zenon

-----------------------------------------------------------------------------
(* One more line.                                                          *)
Extends(g, f, r) ==
    /\ f \in Seq(Record) /\ g \in Seq(Record)
    /\ Len(f) \in Nat
    /\ Len(g) = Len(f) + 1
    /\ g[Len(f) + 1] = r
    /\ \A i \in 1..Len(f) : g[i] = f[i]

LEMMA AppendExtends ==
    ASSUME NEW f \in Seq(Record), NEW r \in Record
    PROVE  Extends(Append(f, r), f, r)
BY DEF Extends

LEMMA HolderStep ==
    ASSUME NEW f, NEW g, NEW r \in Record, Extends(g, f, r)
    PROVE  /\ \A t \in Task : ~(r.phase = "authorize" /\ t = r.call.task) =>
                  SpendsIn(g, t) = SpendsIn(f, t) /\ HolderIn(g)[t] = HolderIn(f)[t]
           /\ \A t \in Task : ~(r.phase = "dispatch" /\ t = r.call.task) =>
                  AcceptsIn(g, t) = AcceptsIn(f, t) /\ RunIn(g)[t] = RunIn(f)[t]
           /\ ClosedIn(g) = IF r.phase = "terminal" THEN ClosedIn(f) \cup {r.call.task}
                            ELSE ClosedIn(f)
<1>0. /\ \A i \in 1..Len(g) : i \in 1..Len(f) \/ i = Len(f) + 1
      /\ \A i \in 1..Len(f) : i \in 1..Len(g) /\ g[i] = f[i]
      /\ Len(f) + 1 \in 1..Len(g) /\ g[Len(f) + 1] = r
      /\ r.call.task \in Task
  BY RecordFields DEF Extends
<1>1. ASSUME NEW t \in Task, ~(r.phase = "authorize" /\ t = r.call.task)
      PROVE  SpendsIn(g, t) = SpendsIn(f, t) /\ HolderIn(g)[t] = HolderIn(f)[t]
  <2>1. SpendsIn(g, t) = SpendsIn(f, t)
    BY <1>0, <1>1, Zenon DEF SpendsIn
  <2>2. CASE SpendsIn(f, t) = {}
    BY <2>1, <2>2, Zenon DEF HolderIn
  <2>3. CASE SpendsIn(f, t) # {}
    <3> DEFINE i == CHOOSE i \in SpendsIn(f, t) : TRUE
    <3>1. i \in SpendsIn(f, t)
      BY <2>3, Zenon
    <3>2. i \in 1..Len(f)
      BY <3>1, Zenon DEF SpendsIn
    <3>3. g[i] = f[i]
      BY <3>2, <1>0, Zenon
    <3>4. HolderIn(g)[t] = g[i].call /\ HolderIn(f)[t] = f[i].call
      BY <2>1, <2>3, Zenon DEF HolderIn
    <3> QED  BY <2>1, <3>3, <3>4, Zenon
  <2> QED  BY <2>2, <2>3, Zenon
<1>2. ASSUME NEW t \in Task, ~(r.phase = "dispatch" /\ t = r.call.task)
      PROVE  AcceptsIn(g, t) = AcceptsIn(f, t) /\ RunIn(g)[t] = RunIn(f)[t]
  <2>1. AcceptsIn(g, t) = AcceptsIn(f, t)
    BY <1>0, <1>2, Zenon DEF AcceptsIn
  <2>2. CASE AcceptsIn(f, t) = {}
    BY <2>1, <2>2, Zenon DEF RunIn
  <2>3. CASE AcceptsIn(f, t) # {}
    <3> DEFINE i == CHOOSE i \in AcceptsIn(f, t) : TRUE
    <3>1. i \in AcceptsIn(f, t)
      BY <2>3, Zenon
    <3>2. i \in 1..Len(f)
      BY <3>1, Zenon DEF AcceptsIn
    <3>3. g[i] = f[i]
      BY <3>2, <1>0, Zenon
    <3>4. RunIn(g)[t] = g[i].run /\ RunIn(f)[t] = f[i].run
      BY <2>1, <2>3, Zenon DEF RunIn
    <3> QED  BY <2>1, <3>3, <3>4, Zenon
  <2> QED  BY <2>2, <2>3, Zenon
<1>3. ClosedIn(g) = IF r.phase = "terminal" THEN ClosedIn(f) \cup {r.call.task} ELSE ClosedIn(f)
  <2>1. CASE r.phase = "terminal"
    BY <1>0, <2>1, Zenon DEF ClosedIn
  <2>2. CASE r.phase # "terminal"
    BY <1>0, <2>2, Zenon DEF ClosedIn
  <2> QED  BY <2>1, <2>2, Zenon
<1> QED  BY <1>1, <1>2, <1>3, Zenon

(* The conditions under which a line is accepted keep CustodyFile.         *)
LEMMA CustodyFileStep ==
    ASSUME IInv, CustodyInv, Known, verified = Len(file), NEW r \in Record, Accepted(r),
           NEW g, Extends(g, file, r)
    PROVE  CustodyFile(g)
<1>0. /\ \A i \in 1..Len(g) : i \in 1..Len(file) \/ i = Len(file) + 1
      /\ \A i \in 1..Len(file) : i \in 1..Len(g) /\ g[i] = file[i]
      /\ Len(file) + 1 \in 1..Len(g) /\ g[Len(file) + 1] = r
      /\ r.call.task \in Task
  BY RecordFields DEF Extends
<1>1. Hist(file, Len(file), spent, pending, runOwners)
  BY Zenon DEF IInv, HistoryInv
<1>2. OneOf(g, "authorize")
  <2>1. r.phase = "authorize" =>
            \A i \in 1..Len(file) : file[i].phase = "authorize" => file[i].call.task # r.call.task
    BY <1>1, Zenon DEF Accepted, Hist, SpentKnown
  <2> QED  BY <1>0, <2>1, Zenon DEF CustodyInv, CustodyFile, OneOf
<1>3. CASE r.phase = "dispatch"
  <2>1. /\ pending[r.call.task] # None
        /\ pending[r.call.task].phase = "authorize"
        /\ pending[r.call.task].call = r.call
        /\ r.run \in Run
    BY <1>3, DispatchedWasAuthorized, Zenon DEF Accepted, IInv
  <2>2. /\ \A i \in 1..Len(file) : file[i].call.task = r.call.task => file[i].phase # "dispatch"
        /\ \E i \in 1..Len(file) : file[i].phase = "authorize" /\ file[i].call = r.call
    BY <1>0, <1>1, <2>1 DEF Hist, PendingKnown
  <2>3. OneOf(g, "dispatch")
    <3> SUFFICES ASSUME NEW i \in 1..Len(g), NEW j \in 1..Len(g), g[i].phase = "dispatch",
                        g[j].phase = "dispatch", g[i].call.task = g[j].call.task
                 PROVE  i = j
      BY Zenon DEF OneOf
    <3>1. OneOf(file, "dispatch")
      BY Zenon DEF CustodyInv, CustodyFile
    <3> QED  BY <1>0, <2>2, <3>1, Zenon DEF OneOf
  <2>4. DispatchBacked(g)
    <3>1. DispatchBacked(file)
      BY Zenon DEF CustodyInv, CustodyFile
    <3> QED  BY <1>0, <2>1, <2>2, <3>1, SMTT(20) DEF DispatchBacked
  <2> QED  BY <1>2, <2>3, <2>4, Zenon DEF CustodyFile
<1>4. CASE r.phase # "dispatch"
  <2>1. OneOf(g, "dispatch")
    <3> SUFFICES ASSUME NEW i \in 1..Len(g), NEW j \in 1..Len(g), g[i].phase = "dispatch",
                        g[j].phase = "dispatch", g[i].call.task = g[j].call.task
                 PROVE  i = j
      BY Zenon DEF OneOf
    <3>1. OneOf(file, "dispatch")
      BY Zenon DEF CustodyInv, CustodyFile
    <3> QED  BY <1>0, <1>4, <3>1, Zenon DEF OneOf
  <2>2. DispatchBacked(g)
    <3>1. DispatchBacked(file)
      BY Zenon DEF CustodyInv, CustodyFile
    <3> QED  BY <1>0, <1>4, <3>1 DEF DispatchBacked
  <2> QED  BY <1>2, <2>1, <2>2, Zenon DEF CustodyFile
<1> QED  BY <1>3, <1>4, Zenon

-----------------------------------------------------------------------------
(* Each line, read as a step of TaskCustody.                               *)
LEMMA Bars ==
    /\ holderBar = HolderIn(file)
    /\ runBar = RunIn(file)
    /\ closedBar = ClosedIn(file)
BY Zenon DEF holderBar, runBar, closedBar, Spends, Accepts, HolderIn, RunIn, ClosedIn, SpendsIn, AcceptsIn

LEMMA BarsPrimed ==
    /\ holderBar' = HolderIn(file')
    /\ runBar' = RunIn(file')
    /\ closedBar' = ClosedIn(file')
BY Zenon DEF holderBar, runBar, closedBar, Spends, Accepts, HolderIn, RunIn, ClosedIn, SpendsIn, AcceptsIn

LEMMA UnchangedCustody ==
    ASSUME file' = file
    PROVE  UNCHANGED Custody!vars
<1>1. UNCHANGED <<holderBar, runBar, closedBar>>
  BY Bars, BarsPrimed, Zenon
<1> QED  BY <1>1, Zenon DEF Custody!vars

LEMMA SpendStep ==
    ASSUME IInv, CustodyInv, Known, verified = Len(file), NEW r \in Record, Accepted(r),
           Extends(file', file, r), r.phase = "authorize"
    PROVE  Custody!Spend(r.call)
<1> DEFINE t == r.call.task
<1>1. t \in Task /\ r.call \in Calls /\ file \in Seq(Record) /\ file' \in Seq(Record)
  BY RecordFields, Zenon DEF Extends
<1>2. CustodyFile(file) /\ CustodyFile(file')
  BY CustodyFileStep, Zenon DEF CustodyInv
<1>3. \A i \in 1..Len(file) : file[i].phase = "authorize" => file[i].call.task # t
  BY Zenon DEF IInv, HistoryInv, Accepted, Hist, SpentKnown
<1>4. HolderIn(file)[t] = None
  BY <1>1, <1>2, <1>3, HolderNone, Zenon
<1>5. HolderIn(file')[t] = r.call
  <2>1. Len(file) + 1 \in 1..Len(file') /\ file'[Len(file) + 1] = r
    BY DEF Extends
  <2> QED  BY <1>1, <1>2, <2>1, HolderIs, Zenon
<1>6. HolderIn(file') = [HolderIn(file) EXCEPT ![t] = r.call]
  <2>1. \A u \in Task : u # t => HolderIn(file')[u] = HolderIn(file)[u]
    BY HolderStep, Zenon
  <2> HIDE DEF t
  <2> QED  BY <1>1, <1>5, <2>1, Zenon DEF HolderIn
<1>7. RunIn(file') = RunIn(file)
  <2>1. \A u \in Task : RunIn(file')[u] = RunIn(file)[u]
    BY HolderStep, Zenon
  <2> QED  BY <2>1, Zenon DEF RunIn
<1>8. ClosedIn(file') = ClosedIn(file)
  BY HolderStep, Zenon
<1> QED  BY <1>4, <1>6, <1>7, <1>8, Bars, BarsPrimed, Zenon DEF Custody!Spend

LEMMA CloseStep ==
    ASSUME IInv, CustodyInv, Known, verified = Len(file), NEW r \in Record, Accepted(r),
           Extends(file', file, r), r.phase = "terminal"
    PROVE  Custody!Close(r.call.task)
<1> DEFINE t == r.call.task
<1>1. t \in Task /\ file \in Seq(Record)
  BY RecordFields, Zenon DEF Extends
<1>2. pending[t] # None
  BY Zenon DEF Accepted, finishes
<1>3. /\ \A i \in 1..Len(file) : file[i].call.task = t => file[i].phase # "terminal"
      /\ \E i \in 1..Len(file) : file[i].phase = "authorize" /\ file[i].call.task = t
  BY <1>1, <1>2 DEF IInv, HistoryInv, Hist, PendingKnown
<1>4. HolderIn(file)[t] # None
  BY <1>1, <1>3, HolderNone DEF CustodyInv
<1>5. t \notin ClosedIn(file)
  BY <1>3, Zenon DEF ClosedIn
<1>6. ClosedIn(file') = ClosedIn(file) \cup {t}
  BY HolderStep
<1>7. HolderIn(file') = HolderIn(file)
  <2>1. \A u \in Task : HolderIn(file')[u] = HolderIn(file)[u]
    BY HolderStep, Zenon
  <2> QED  BY <2>1, Zenon DEF HolderIn
<1>8. RunIn(file') = RunIn(file)
  <2>1. \A u \in Task : RunIn(file')[u] = RunIn(file)[u]
    BY HolderStep, Zenon
  <2> QED  BY <2>1, Zenon DEF RunIn
<1> QED  BY <1>4, <1>5, <1>6, <1>7, <1>8, Bars, BarsPrimed, Zenon DEF Custody!Close

(* A run is accepted under the call that spent its task; a task that runs  *)
(* for itself finds no owner, and a stop finds its target owning the run.  *)
LEMMA AcceptStep ==
    ASSUME IInv, CustodyInv, Known, verified = Len(file), NEW r \in Record, Accepted(r),
           Extends(file', file, r), r.phase = "dispatch"
    PROVE  Custody!Accept(r.call.task, r.run)
<1> DEFINE t == r.call.task
           holder == HolderIn(file)
           run == RunIn(file)
<1>1. /\ t \in Task /\ r.call \in Calls /\ r.call.grant \in Grant
      /\ file \in Seq(Record) /\ file' \in Seq(Record)
  BY RecordFields, Zenon DEF Extends
<1>2. CustodyFile(file) /\ CustodyFile(file')
  BY CustodyFileStep, Zenon DEF CustodyInv
<1>3. Hist(file, Len(file), spent, pending, runOwners) /\ dispatches(r)
  BY Zenon DEF IInv, HistoryInv, Accepted
<1>4. /\ pending[t] # None
      /\ pending[t].phase = "authorize"
      /\ pending[t].call = r.call
      /\ r.run \in Run
      /\ r.run # None
  BY <1>3, DispatchedWasAuthorized, NoneAssumption, Zenon DEF IInv
<1>5. /\ \A i \in 1..Len(file) : file[i].call.task = t => file[i].phase \notin {"dispatch", "terminal"}
      /\ \E i \in 1..Len(file) : file[i].phase = "authorize" /\ file[i].call = r.call
  BY <1>1, <1>3, <1>4 DEF Hist, PendingKnown
<1>6. holder[t] = r.call /\ r.call # None
  BY <1>1, <1>2, <1>5, HolderIs, NoneAssumption, Zenon
<1>7. r.call.kind = "lifecycle_task"
  BY <1>3, Zenon DEF dispatches, validateEvent
<1>8. t \notin ClosedIn(file)
  BY <1>5, Zenon DEF ClosedIn
<1>9. run[t] = None
  BY <1>1, <1>2, <1>5, RunNone
<1>10. ASSUME NEW i \in 1..Len(file), file[i].phase = "dispatch"
       PROVE  holder[file[i].call.task] = file[i].call /\ run[file[i].call.task] = file[i].run
  <2>1. PICK j \in 1..Len(file) : file[j].phase = "authorize" /\ file[j].call = file[i].call
    BY <1>2, <1>10, Zenon DEF CustodyFile, DispatchBacked
  <2>2. holder[file[j].call.task] = file[j].call
    BY <1>1, <1>2, <2>1, HolderIs, Zenon
  <2>3. run[file[i].call.task] = file[i].run
    BY <1>1, <1>2, <1>10, RunIs, Zenon
  <2> QED  BY <2>1, <2>2, <2>3, Zenon
<1>11. ASSUME r.call.target = None, NEW u \in Task, run[u] = r.run, holder[u] # None,
              holder[u].grant = r.call.grant, holder[u].target = None
       PROVE  FALSE
  <2>1. PICK i \in 1..Len(file) : file[i].phase = "dispatch" /\ file[i].call.task = u
    BY <1>1, <1>2, <1>4, <1>11, RunNone
  <2>2. holder[u] = file[i].call /\ run[u] = file[i].run
    BY <1>10, <2>1, Zenon
  <2> HIDE DEF holder, run
  <2>3. /\ file[i].call.grant = r.call.grant /\ file[i].run = r.run /\ file[i].call.target = None
    BY <1>11, <2>2, Zenon
  <2>4. /\ runOwners[<<r.call.grant, r.run>>] # None
        /\ runOwners[<<r.call.grant, r.run>>].task = u
    BY <1>3, <2>1, <2>3, Zenon DEF Hist, OwnersKnown
  <2>5. u = t
    BY <1>3, <1>11, <2>4, Zenon DEF dispatches, runConflict
  <2> QED  BY <1>5, <2>1, <2>5, Zenon
<1>12. ASSUME r.call.target # None
       PROVE  /\ run[r.call.target] = r.run
              /\ holder[r.call.target] # None
              /\ holder[r.call.target].grant = r.call.grant
              /\ holder[r.call.target].target = None
  <2>1. r.run = r.call.targetRun
    BY <1>3, <1>4, <1>12, Zenon DEF dispatches, validateEvent
  <2> DEFINE owner == runOwners[<<r.call.grant, r.run>>]
  <2>2. owner # None /\ owner.task = r.call.target /\ owner.target = None
    BY <1>3, <1>12, <2>1, Zenon DEF dispatches, validateRunControlOwner
  <2>3. PICK i \in 1..Len(file) : /\ file[i].phase = "dispatch"
                                  /\ file[i].call = owner
                                  /\ file[i].call.grant = r.call.grant
                                  /\ file[i].run = r.run
    BY Zenon, <1>1, <1>3, <1>4, <2>2 DEF Hist, OwnersBacked
  <2>4. holder[file[i].call.task] = file[i].call /\ run[file[i].call.task] = file[i].run
    BY <1>10, <2>3, Zenon
  <2> HIDE DEF holder, run, owner
  <2> QED  BY <2>2, <2>3, <2>4, Zenon
<1>13. RunIn(file') = [RunIn(file) EXCEPT ![t] = r.run]
  <2>1. Len(file) + 1 \in 1..Len(file') /\ file'[Len(file) + 1] = r
    BY DEF Extends
  <2>2. RunIn(file')[t] = r.run
    BY <1>1, <1>2, <2>1, RunIs, Zenon
  <2>3. \A u \in Task : u # t => RunIn(file')[u] = RunIn(file)[u]
    BY HolderStep, Zenon
  <2> HIDE DEF t
  <2> QED  BY <1>1, <2>2, <2>3, Zenon DEF RunIn
<1>14. HolderIn(file') = HolderIn(file)
  <2>1. \A u \in Task : HolderIn(file')[u] = HolderIn(file)[u]
    BY HolderStep, Zenon
  <2> QED  BY <2>1, Zenon DEF HolderIn
<1>15. ClosedIn(file') = ClosedIn(file)
  BY HolderStep, Zenon
<1>16. IF r.call.target = None
       THEN \A u \in Task : ~Custody!Owns(u, r.call.grant, r.run)
       ELSE Custody!Owns(r.call.target, r.call.grant, r.run)
  BY <1>11, <1>12, Bars, Zenon DEF Custody!Owns
<1> HIDE DEF t, holder, run
<1> QED  BY <1>6, <1>7, <1>8, <1>9, <1>13, <1>14, <1>15, <1>16, Bars, BarsPrimed, Zenon
         DEF Custody!Accept, t, holder, run

(* Every step of the ledger keeps CustodyFile and is a step of custody.    *)
LEMMA AppendCustody ==
    ASSUME IInv, CustodyInv, NEW r \in Record, Appends(r), Accepted(r)
    PROVE  CustodyInv' /\ (Custody!Next \/ UNCHANGED Custody!vars)
<1>1. Known /\ verified = Len(file)
  BY Zenon DEF Appends, appendLocked, appendAmbiguous, Writable, Known, verified
<1>2. CASE file' = file
  BY <1>2, UnchangedCustody, Zenon DEF CustodyInv
<1>3. CASE file' = Append(file, r)
  <2>1. Extends(file', file, r)
    BY <1>3, AppendExtends, Zenon DEF IInv, TypeOK
  <2>2. CustodyInv'
    BY <1>1, <2>1, CustodyFileStep, Zenon DEF CustodyInv
  <2>3. r.phase \in {"authorize", "dispatch", "terminal", "deny"} /\ r.call \in Calls /\ r.call.task \in Task
    BY RecordFields, Zenon DEF Record, Phase
  <2>4. CASE r.phase = "authorize"
    BY <1>1, <2>1, <2>2, <2>3, <2>4, SpendStep, Zenon DEF Custody!Next
  <2>5. CASE r.phase = "dispatch"
    <3>1. r.run \in Run
      BY <2>5, DispatchedWasAuthorized, Zenon DEF Accepted, IInv
    <3> QED  BY <1>1, <2>1, <2>2, <2>3, <2>5, <3>1, AcceptStep, Zenon DEF Custody!Next
  <2>6. CASE r.phase = "terminal"
    BY <1>1, <2>1, <2>2, <2>3, <2>6, CloseStep, Zenon DEF Custody!Next
  <2>7. CASE r.phase = "deny"
    <3>1. /\ \A t \in Task : HolderIn(file')[t] = HolderIn(file)[t]
          /\ \A t \in Task : RunIn(file')[t] = RunIn(file)[t]
          /\ ClosedIn(file') = ClosedIn(file)
      BY <2>1, <2>7, HolderStep, ZenonT(40)
    <3>2. HolderIn(file') = HolderIn(file)
      BY <3>1, Zenon DEF HolderIn
    <3>3. RunIn(file') = RunIn(file)
      BY <3>1, Zenon DEF RunIn
    <3>4. UNCHANGED <<holderBar, runBar, closedBar>>
      BY <3>1, <3>2, <3>3, Bars, BarsPrimed, Zenon
    <3> QED  BY <2>2, <3>4, Zenon DEF Custody!vars
  <2> QED  BY <2>3, <2>4, <2>5, <2>6, <2>7, Zenon
<1> QED  BY <1>2, <1>3, Zenon DEF Appends, appendLocked, appendAmbiguous

LEMMA NextCustody ==
    ASSUME IInv, CustodyInv, [LedgerNext]_ledgerVars
    PROVE  CustodyInv' /\ [Custody!Next]_(Custody!vars)
<1>1. ASSUME NEW r \in Record, Appends(r),
             r.phase = "authorize" => begins(r.call),
             r.phase = "dispatch" => dispatches(r),
             r.phase = "terminal" => finishes(r)
      PROVE  CustodyInv' /\ [Custody!Next]_(Custody!vars)
  <2>1. Accepted(r)
    BY <1>1, Zenon DEF Accepted, begins
  <2> QED  BY <1>1, <2>1, AppendCustody, Zenon
<1>2. ASSUME file' = file
      PROVE  CustodyInv' /\ [Custody!Next]_(Custody!vars)
  BY <1>2, UnchangedCustody, Zenon DEF CustodyInv
<1>3. Stop \/ Open \/ replayVisiting(TRUE) \/ OpenComplete \/ UNCHANGED ledgerVars => file' = file
  BY Zenon DEF Stop, Open, replayVisiting, OpenComplete, ledgerVars
<1> QED  BY ZenonT(40), <1>1, <1>2, <1>3, NextCases DEF IInv

(* Refinement: the complete lines of the ledger file, through ambiguous    *)
(* writes, stops and reopens, only ever change as TaskCustody allows.  A   *)
(* task is spent once and by one call, accepted as one run that no other   *)
(* task of its grant owns, and stays closed (Begin, Dispatch and Finish of *)
(* ledger.go).                                                             *)
THEOREM LedgerImplementsCustody == LedgerSpec => CustodySpec
<1>1. ASSUME LedgerInit
      PROVE  Custody!Init /\ CustodyInv
  <2>1. file = <<>>
    BY <1>1, Zenon DEF LedgerInit
  <2>2. CustodyInv
    BY <2>1 DEF CustodyInv, CustodyFile, OneOf, DispatchBacked
  <2>3. \A t \in Task : SpendsIn(file, t) = {} /\ AcceptsIn(file, t) = {}
    BY <2>1 DEF SpendsIn, AcceptsIn
  <2>4. HolderIn(file) = [t \in Task |-> None] /\ RunIn(file) = [t \in Task |-> None]
    BY <2>3, Zenon DEF HolderIn, RunIn
  <2>5. ClosedIn(file) = {}
    BY <2>1 DEF ClosedIn
  <2> QED  BY <2>2, <2>4, <2>5, Bars, Zenon DEF Custody!Init
<1>2. LedgerSpec => []CustodyInv
  BY <1>1, NextCustody, LedgerInvariant, PTL DEF LedgerSpec
<1> QED  BY <1>1, <1>2, NextCustody, LedgerInvariant, PTL DEF LedgerSpec, CustodySpec, Custody!Spec

-----------------------------------------------------------------------------
(* Budgets.  What a usable handle has reserved is exactly what its         *)
(* unfinished calls may still need, and each tenant's account covers it.   *)
QuotaInv ==
    Writable =>
        /\ reserved = ReservationsFor(pending, Tenant)
        /\ \A t \in Tenant : /\ ReservationsFor(pending, {t}) <= tenantBytes[t]
                             /\ tenantBytes[t] <= Quota[t]

(* The share of one pending entry in the reservations of some tenants.     *)
Owed(p, tenants) ==
    IF p # None /\ p.call.tenant \in tenants THEN pendingReservation(p) ELSE 0

LEMMA OwedType ==
    ASSUME NEW p, NEW tenants
    PROVE  Owed(p, tenants) \in Nat
BY ReservationType, Zenon DEF Owed

(* Replacing one element of a finite set.                                  *)
LEMMA CardinalityChange ==
    ASSUME NEW A, NEW B, NEW t, IsFiniteSet(A),
           \A u : u # t => (u \in A <=> u \in B)
    PROVE  /\ Cardinality(A) \in Nat /\ Cardinality(B) \in Nat
           /\ Cardinality(B) = Cardinality(A) - (IF t \in A THEN 1 ELSE 0)
                                              + (IF t \in B THEN 1 ELSE 0)
<1> DEFINE C == A \ {t}
<1>1. /\ IsFiniteSet(C) /\ Cardinality(C) \in Nat /\ Cardinality(A) \in Nat
      /\ Cardinality(C) = IF t \in A THEN Cardinality(A) - 1 ELSE Cardinality(A)
  BY FS_RemoveElement, FS_CardinalityType, Zenon
<1>2. (t \in B => B = C \cup {t}) /\ (t \notin B => B = C)
  BY Zenon
<1>3. t \notin C
  OBVIOUS
<1>4. /\ IsFiniteSet(C \cup {t})
      /\ Cardinality(C \cup {t}) = Cardinality(C) + 1
  BY <1>1, <1>3, FS_AddElement, Zenon
<1> HIDE DEF C
<1>5. CASE t \in B
  <2>1. Cardinality(B) = Cardinality(C) + 1
    BY <1>2, <1>4, <1>5, Zenon
  <2> QED  BY ONLY <1>1, <1>5, <2>1
<1>6. CASE t \notin B
  <2>1. Cardinality(B) = Cardinality(C)
    BY <1>2, <1>6, Zenon
  <2> QED  BY ONLY <1>1, <1>6, <2>1
<1> QED  BY <1>5, <1>6, Zenon

LEMMA ReservationChange ==
    ASSUME NEW pend \in [Task -> Record \cup {None}], NEW t \in Task, NEW v \in Record \cup {None},
           NEW tenants
    PROVE  ReservationsFor([pend EXCEPT ![t] = v], tenants) =
               ReservationsFor(pend, tenants) - Owed(pend[t], tenants) + Owed(v, tenants)
<1> DEFINE next == [pend EXCEPT ![t] = v]
           Open1(q) == {u \in Task : q[u] # None /\ q[u].call.tenant \in tenants}
           Owing(q) == {u \in Open1(q) : /\ q[u].call.kind = "lifecycle_task"
                                         /\ q[u].phase = "authorize"}
           a == Cardinality(Open1(pend))
           b == Cardinality(Owing(pend))
           c == Cardinality(Open1(next))
           d == Cardinality(Owing(next))
<1>1. next[t] = v /\ \A u \in Task : u # t => next[u] = pend[u]
  OBVIOUS
<1>2. IsFiniteSet(Open1(pend)) /\ IsFiniteSet(Owing(pend))
  <2>1. Open1(pend) \subseteq Task /\ Owing(pend) \subseteq Task
    OBVIOUS
  <2> QED  BY <2>1, SizeAssumption, FS_Subset, Zenon
<1> HIDE DEF next
<1>3. /\ \A u : u # t => (u \in Open1(pend) <=> u \in Open1(next))
      /\ \A u : u # t => (u \in Owing(pend) <=> u \in Owing(next))
  BY <1>1, Zenon
<1>4. /\ t \in Open1(pend) <=> pend[t] # None /\ pend[t].call.tenant \in tenants
      /\ t \in Owing(pend) <=> /\ t \in Open1(pend)
                               /\ pend[t].call.kind = "lifecycle_task"
                               /\ pend[t].phase = "authorize"
      /\ t \in Open1(next) <=> v # None /\ v.call.tenant \in tenants
      /\ t \in Owing(next) <=> /\ t \in Open1(next)
                               /\ v.call.kind = "lifecycle_task"
                               /\ v.phase = "authorize"
  BY <1>1, Zenon
<1>5. /\ ReservationsFor(pend, tenants) = TerminalReserve * (a + b)
      /\ ReservationsFor(next, tenants) = TerminalReserve * (c + d)
  BY Zenon DEF ReservationsFor
<1> DEFINE i1 == IF t \in Open1(pend) THEN 1 ELSE 0
           i2 == IF t \in Owing(pend) THEN 1 ELSE 0
           i3 == IF t \in Open1(next) THEN 1 ELSE 0
           i4 == IF t \in Owing(next) THEN 1 ELSE 0
<1> HIDE DEF Open1, Owing
<1>6. a \in Nat /\ c \in Nat /\ c = a - i1 + i3
  BY <1>2, <1>3, CardinalityChange, ZenonT(40)
<1>7. b \in Nat /\ d \in Nat /\ d = b - i2 + i4
  BY <1>2, <1>3, CardinalityChange, ZenonT(40)
<1>8. Owed(pend[t], tenants) = TerminalReserve * (i1 + i2)
  BY <1>4, SizeAssumption DEF Owed, pendingReservation
<1>9. Owed(v, tenants) = TerminalReserve * (i3 + i4)
  BY <1>4, SizeAssumption DEF Owed, pendingReservation
<1>10. i1 \in Nat /\ i2 \in Nat /\ i3 \in Nat /\ i4 \in Nat
  OBVIOUS
<1> HIDE DEF a, b, c, d, i1, i2, i3, i4
<1>11. TerminalReserve * (c + d) = TerminalReserve * (a + b) - TerminalReserve * (i1 + i2)
                                     + TerminalReserve * (i3 + i4)
  BY <1>6, <1>7, <1>10, SizeAssumption
<1> QED  BY <1>5, <1>8, <1>9, <1>11, Zenon DEF next

(* An append that moves the pending entry of a task and charges the        *)
(* difference of the reservations keeps the accounts.                      *)
LEMMA ChargeKept ==
    ASSUME TypeOK, Writable, QuotaInv, NEW r \in Record, NEW delta \in Int,
           appendLocked(r, delta), NEW v \in Record \cup {None},
           pending' = [pending EXCEPT ![r.call.task] = v],
           \A S : r.call.tenant \in S => Owed(v, S) = Owed(pending[r.call.task], S) + delta,
           \A S : r.call.tenant \notin S => Owed(v, S) = Owed(pending[r.call.task], S)
    PROVE  QuotaInv'
<1> DEFINE t == r.call.task
           ten == r.call.tenant
<1>1. /\ t \in Task /\ ten \in Tenant /\ r.size \in Nat \ {0}
      /\ pending \in [Task -> Record \cup {None}] /\ tenantBytes \in [Tenant -> Nat]
      /\ Quota \in [Tenant -> Nat]
  BY RecordFields, SizeAssumption, Zenon DEF TypeOK
<1>2. ASSUME NEW S
      PROVE  /\ ReservationsFor(pending, S) \in Nat
             /\ ten \in S => ReservationsFor(pending', S) = ReservationsFor(pending, S) + delta
             /\ ten \notin S => ReservationsFor(pending', S) = ReservationsFor(pending, S)
  <2>1. /\ ReservationsFor(pending, S) \in Nat
        /\ Owed(v, S) \in Nat /\ Owed(pending[t], S) \in Nat
    BY ReservationsForType, OwedType, Zenon
  <2>2. ReservationsFor(pending', S) = ReservationsFor(pending, S) - Owed(pending[t], S) + Owed(v, S)
    BY <1>1, ReservationChange, Zenon
  <2> QED  BY <2>1, <2>2
<1>3. /\ reserved = ReservationsFor(pending, Tenant)
      /\ reserved' = reserved + delta
      /\ tenantBytes' = [tenantBytes EXCEPT ![ten] = @ + r.size + delta]
      /\ tenantBytes[ten] + r.size + delta <= Quota[ten]
  BY Zenon DEF QuotaInv, appendLocked, fits
<1>4. reserved' = ReservationsFor(pending', Tenant)
  BY <1>1, <1>2, <1>3, Zenon
<1>5. ASSUME NEW u \in Tenant
      PROVE  ReservationsFor(pending', {u}) <= tenantBytes'[u] /\ tenantBytes'[u] <= Quota[u]
  <2>1. ReservationsFor(pending, {u}) <= tenantBytes[u] /\ tenantBytes[u] <= Quota[u]
    BY Zenon DEF QuotaInv
  <2>2. ReservationsFor(pending, {u}) \in Nat
    BY <1>2, Zenon
  <2>3. CASE u = ten
    <3>1. ReservationsFor(pending', {u}) = ReservationsFor(pending, {u}) + delta
      BY <1>2, <2>3, Zenon
    <3>2. tenantBytes'[u] = tenantBytes[u] + r.size + delta
      BY <1>1, <1>3, <2>3, Zenon
    <3> HIDE DEF ten
    <3> QED  BY <1>1, <1>3, <2>1, <2>2, <2>3, <3>1, <3>2
  <2>4. CASE u # ten
    <3>1. ReservationsFor(pending', {u}) = ReservationsFor(pending, {u})
      BY <1>2, <2>4, Zenon
    <3>2. tenantBytes'[u] = tenantBytes[u]
      BY <1>1, <1>3, <2>4, Zenon
    <3> QED  BY <2>1, <3>1, <3>2, Zenon
  <2> QED  BY <2>3, <2>4, Zenon
<1> QED  BY <1>4, <1>5, Zenon DEF QuotaInv

LEMMA BeginQuota ==
    ASSUME IInv, QuotaInv, NEW c \in Calls, NEW n \in LineSizes, Begin(c, n)
    PROVE  QuotaInv'
<1> DEFINE r == AuthorizeRecord(c, n)
           d == pendingReservation(r)
<1>1. /\ r \in Record /\ r.phase = "authorize" /\ r.call = c /\ c.task \in Task
      /\ d \in Nat /\ d \in Int /\ r # None
  <2>1. r \in Record /\ d \in Nat
    BY AuthorizeRecordType, ReservationType, Zenon
  <2> QED  BY <2>1, RecordFields, RecordAssumption DEF AuthorizeRecord
<1>2. /\ appendLocked(r, d) /\ Writable /\ c.task \notin spent
  BY Zenon DEF Begin, begins, appendLocked
<1> HIDE DEF r, d
<1>3. pending[c.task] = None
  BY <1>1, <1>2, Zenon DEF IInv, HistoryInv, Known, Hist, PendingKnown
<1>4. pending' = [pending EXCEPT ![r.call.task] = r]
  BY <1>1, <1>2, Zenon DEF appendLocked, Index
<1>5. \A S : Owed(pending[r.call.task], S) = 0
  BY <1>1, <1>3, Zenon DEF Owed
<1>6. \A S : (r.call.tenant \in S => Owed(r, S) = d) /\ (r.call.tenant \notin S => Owed(r, S) = 0)
  BY <1>1, Zenon DEF Owed, d
<1>7. /\ \A S : r.call.tenant \in S => Owed(r, S) = Owed(pending[r.call.task], S) + d
      /\ \A S : r.call.tenant \notin S => Owed(r, S) = Owed(pending[r.call.task], S)
  BY <1>1, <1>5, <1>6
<1> QED  BY <1>1, <1>2, <1>4, <1>7, ChargeKept, Zenon DEF IInv

LEMMA DispatchQuota ==
    ASSUME IInv, QuotaInv, NEW c \in Calls, NEW run \in Run, NEW n \in LineSizes, Dispatch(c, run, n)
    PROVE  QuotaInv'
<1> DEFINE r == DispatchRecord(c, run, n)
           p == pending[r.call.task]
<1>1. r \in Record /\ r.phase = "dispatch" /\ r # None /\ -TerminalReserve \in Int
  BY DispatchRecordType, RecordAssumption, SizeAssumption DEF DispatchRecord
<1>2. appendLocked(r, -TerminalReserve) /\ Writable /\ dispatches(r)
  BY Zenon DEF Dispatch, appendLocked
<1> HIDE DEF r
<1>3. /\ p # None /\ p.phase = "authorize" /\ p.call = r.call /\ r.call.kind = "lifecycle_task"
  BY <1>1, <1>2, DispatchedWasAuthorized, Zenon DEF IInv, dispatches, validateEvent
<1>4. pending' = [pending EXCEPT ![r.call.task] = r]
  BY <1>1, <1>2, Zenon DEF appendLocked, Index
<1>5. /\ pendingReservation(p) = 2 * TerminalReserve
      /\ pendingReservation(r) = TerminalReserve
  BY <1>1, <1>3, Zenon DEF pendingReservation
<1> HIDE DEF p
<1>6. /\ \A S : r.call.tenant \in S => Owed(r, S) = Owed(p, S) + (-TerminalReserve)
      /\ \A S : r.call.tenant \notin S => Owed(r, S) = Owed(p, S)
  BY <1>1, <1>3, <1>5, SizeAssumption DEF Owed
<1> QED  BY <1>1, <1>2, <1>4, <1>6, ChargeKept, Zenon DEF IInv, p

LEMMA FinishQuota ==
    ASSUME IInv, QuotaInv, NEW c \in Calls, NEW run \in Run \cup {None},
           NEW outcome \in {"responded", "failed", "unsent"}, NEW n \in LineSizes,
           Finish(c, run, outcome, n)
    PROVE  QuotaInv'
<1> DEFINE r == TerminalRecord(c, run, outcome, n)
           p == pending[r.call.task]
           d == -pendingReservation(p)
<1>1. r \in Record /\ r.phase = "terminal" /\ r.call = c
  BY TerminalRecordType, Zenon DEF TerminalRecord
<1>2. appendLocked(r, d) /\ Writable /\ finishes(r)
  BY <1>1, Zenon DEF Finish, appendLocked
<1> HIDE DEF r
<1>3. /\ p # None /\ p.call = r.call /\ pendingReservation(p) \in Nat /\ d \in Int
  BY <1>2, ReservationType DEF finishes, validateTransition
<1>4. pending' = [pending EXCEPT ![r.call.task] = None]
  BY <1>1, <1>2, Zenon DEF appendLocked, Index
<1> HIDE DEF p
<1>5. /\ \A S : r.call.tenant \in S => Owed(None, S) = Owed(p, S) + d
      /\ \A S : r.call.tenant \notin S => Owed(None, S) = Owed(p, S)
  BY <1>1, <1>3 DEF Owed
<1> QED  BY <1>1, <1>2, <1>3, <1>4, <1>5, ChargeKept, Zenon DEF IInv, p

LEMMA DenyQuota ==
    ASSUME IInv, QuotaInv, NEW c \in Calls, NEW n \in LineSizes, AppendDeny(c, n)
    PROVE  QuotaInv'
<1> DEFINE r == DenyRecord(c, n)
<1>1. r \in Record /\ r.phase = "deny"
  BY DenyRecordType, Zenon DEF DenyRecord
<1>2. appendLocked(r, 0) /\ Writable
  BY Zenon DEF AppendDeny, appendLocked
<1> HIDE DEF r
<1>3. r.call.task \in Task /\ pending \in [Task -> Record \cup {None}]
  BY <1>1, RecordFields, Zenon DEF IInv, TypeOK
<1>4. pending' = [pending EXCEPT ![r.call.task] = pending[r.call.task]]
  BY <1>1, <1>2, <1>3, Zenon DEF appendLocked, Index
<1>5. /\ \A S : Owed(pending[r.call.task], S) = Owed(pending[r.call.task], S) + 0
      /\ pending[r.call.task] \in Record \cup {None}
      /\ 0 \in Int
  BY <1>3, OwedType
<1> QED  BY <1>1, <1>2, <1>4, <1>5, ChargeKept, Zenon DEF IInv

(* A handle that is not usable owes nothing; opening reserves afresh.      *)
LEMMA NextQuota ==
    ASSUME IInv, QuotaInv, [LedgerNext]_ledgerVars
    PROVE  QuotaInv'
<1>1. ASSUME NEW r, NEW delta, appendAmbiguous(r, delta)
      PROVE  QuotaInv'
  BY <1>1, Zenon DEF appendAmbiguous, QuotaInv, Writable
<1>2. ASSUME NEW c \in Calls, NEW n \in LineSizes,
             \/ BeginAmbiguous(c, n)
             \/ AppendDenyAmbiguous(c, n)
             \/ \E run \in Run : DispatchAmbiguous(c, run, n)
             \/ \E run \in Run \cup {None}, outcome \in {"responded", "failed"} :
                    FinishAmbiguous(c, run, outcome, n)
      PROVE  QuotaInv'
  BY <1>1, <1>2, Zenon DEF BeginAmbiguous, AppendDenyAmbiguous, DispatchAmbiguous, FinishAmbiguous
<1>3. ASSUME Stop \/ Open \/ replayVisiting(TRUE)
      PROVE  QuotaInv'
  <2>1. mode' # "live"
    BY <1>3, Zenon DEF Stop, Open, replayVisiting
  <2> QED  BY <2>1, Zenon DEF QuotaInv, Writable
<1>4. ASSUME OpenComplete
      PROVE  QuotaInv'
  <2>1. CASE mode' # "live"
    BY <2>1, Zenon DEF QuotaInv, Writable
  <2>2. CASE mode' = "live"
    <3>1. /\ tenantBytes' = [t \in Tenant |-> tenantBytes[t] + ReservationsFor(pending, {t})]
          /\ reserved' = ReservationsFor(pending, Tenant)
          /\ pending' = pending
          /\ \A t \in Tenant : tenantBytes[t] + ReservationsFor(pending, {t}) <= Quota[t]
      BY <1>4, <2>2, Zenon DEF OpenComplete
    <3>2. ASSUME NEW t \in Tenant
          PROVE  ReservationsFor(pending', {t}) <= tenantBytes'[t] /\ tenantBytes'[t] <= Quota[t]
      <4>1. ReservationsFor(pending, {t}) \in Nat /\ tenantBytes[t] \in Nat
        BY ReservationsForType, Zenon DEF IInv, TypeOK
      <4> QED  BY <3>1, <4>1
    <3>3. reserved' = ReservationsFor(pending', Tenant)
      BY <3>1, Zenon
    <3> QED  BY <3>2, <3>3, Zenon DEF QuotaInv
  <2> QED  BY <2>1, <2>2, Zenon
<1>5. ASSUME UNCHANGED ledgerVars
      PROVE  QuotaInv'
  BY <1>5, Zenon DEF ledgerVars, index, QuotaInv, Writable
<1>6. {"responded", "failed"} \subseteq {"responded", "failed", "unsent"}
  OBVIOUS
<1> QED  BY ZenonT(40), <1>2, <1>3, <1>4, <1>5, <1>6, BeginQuota, DispatchQuota, FinishQuota, DenyQuota
         DEF LedgerNext, ReplayRecord

LEMMA QuotaFits ==
    ASSUME TypeOK, QuotaInv
    PROVE  RemainingRecordsFit
<1> SUFFICES ASSUME Writable, NEW t \in Task, pending[t] # None
             PROVE  LET p == pending[t]
                        c == p.call
                    IN  /\ fits(TerminalRecord(c, None, "failed", TerminalReserve),
                                -pendingReservation(p))
                        /\ c.kind = "lifecycle_task" /\ p.phase = "authorize" =>
                              fits(TerminalRecord(c, None, "failed", TerminalReserve),
                                   -TerminalReserve)
  BY Zenon DEF RemainingRecordsFit
<1> DEFINE p == pending[t]
           ten == p.call.tenant
           owed == pendingReservation(p)
<1>1. /\ p \in Record /\ pending \in [Task -> Record \cup {None}]
      /\ reserved \in Nat /\ tenantBytes \in [Tenant -> Nat]
  BY Zenon DEF TypeOK
<1>2. ten \in Tenant /\ tenantBytes[ten] \in Nat /\ Quota[ten] \in Nat
  BY <1>1, RecordFields, SizeAssumption, Zenon
<1>3. ASSUME NEW S, ten \in S
      PROVE  owed <= ReservationsFor(pending, S) /\ ReservationsFor(pending, S) \in Nat
  <2>1. /\ ReservationsFor(pending, S) \in Nat
        /\ ReservationsFor([pending EXCEPT ![t] = None], S) \in Nat
    BY ReservationsForType, Zenon
  <2>2. Owed(p, S) = owed /\ Owed(None, S) = 0 /\ owed \in Nat
    BY <1>3, ReservationType, Zenon DEF Owed
  <2>3. ReservationsFor([pending EXCEPT ![t] = None], S)
            = ReservationsFor(pending, S) - Owed(p, S) + Owed(None, S)
    <3>1. None \in Record \cup {None}
      OBVIOUS
    <3> QED  BY <1>1, <3>1, ReservationChange, Zenon
  <2> HIDE DEF owed, p, ten
  <2> QED  BY <2>1, <2>2, <2>3
<1>4. /\ owed <= reserved /\ owed <= tenantBytes[ten] /\ tenantBytes[ten] <= Quota[ten]
  <2>1. owed <= ReservationsFor(pending, Tenant)
    BY <1>2, <1>3, Zenon
  <2>2. owed <= ReservationsFor(pending, {ten}) /\ ReservationsFor(pending, {ten}) \in Nat
    <3>1. ten \in {ten}
      OBVIOUS
    <3> HIDE DEF ten, owed
    <3> QED  BY <1>3, <3>1, Zenon
  <2>3. /\ reserved = ReservationsFor(pending, Tenant)
        /\ ReservationsFor(pending, {ten}) <= tenantBytes[ten]
        /\ tenantBytes[ten] <= Quota[ten]
    BY <1>2, Zenon DEF QuotaInv
  <2>4. owed \in Nat
    BY ReservationType, Zenon
  <2> HIDE DEF owed, ten
  <2> QED  BY <1>2, <2>1, <2>2, <2>3, <2>4
<1>5. /\ owed \in Nat /\ TerminalReserve <= owed
      /\ p.call.kind = "lifecycle_task" /\ p.phase = "authorize" => owed = 2 * TerminalReserve
  BY SizeAssumption DEF pendingReservation
<1> HIDE DEF p, owed
<1> QED  BY <1>1, <1>2, <1>4, <1>5, SizeAssumption DEF fits, TerminalRecord, p, owed

(* An authorized call can always be closed, for any budgets, line sizes    *)
(* and number of concurrent calls: the reservations that Begin makes, that *)
(* Dispatch and Finish release and that OpenWithLimits recomputes cover    *)
(* the remaining records of every unfinished call (ledger.go:456, :637).   *)
THEOREM LedgerRecordsFit == LedgerSpec => []RemainingRecordsFit
<1>1. LedgerInit => QuotaInv
  BY Zenon DEF LedgerInit, QuotaInv, Writable
<1> QED  BY <1>1, NextQuota, QuotaFits, LedgerInvariant, PTL DEF LedgerSpec, IInv

=============================================================================
