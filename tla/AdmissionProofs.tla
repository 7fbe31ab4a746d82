-------------------------- MODULE AdmissionProofs --------------------------
(***************************************************************************)
(* An inductive invariant of Admission, step by step, for any set of       *)
(* signed documents, any profiles and any Gateway configuration its        *)
(* assumptions allow.                                                      *)
(***************************************************************************)
EXTENDS Admission, FiniteSetTheorems, TLAPS

-----------------------------------------------------------------------------
(* An entry once verified stays verified: what VerifyAndAdmit asks for,    *)
(* apart from the fences and the clock, depends on the signed documents.   *)
Verified(x) ==
    VerifyAndAdmit(x.capsule, SitePolicies[x.policy], x.intent, <<x.intent.tenant, ThisNode>>, 0, 0, 0)

Granted(x) == RuntimeGrant(SitePolicies[x.policy], x.intent)

(* An admission between its verification and provisionMu.                  *)
Pending(e) == e.policy = enforced /\ Of(e.intent) \in Workloads /\ Verified(e)

(* A committed admission, which the fences have passed.                    *)
Behind(a) ==
    /\ Of(a.intent) \in Workloads
    /\ SitePolicies[a.policy].epoch <= fenceEpoch
    /\ a.intent.generation <= fenceRecords[Of(a.intent)].generation

Committed(a) ==
    /\ Verified(a)
    /\ a.answered = callAdmissionV4(a.intent, secureResponse(Granted(a)))

AdInv ==
    /\ AdTypeOK
    /\ \A e \in waiting : Pending(e)
    /\ \A k \in DOMAIN admissions : Behind(admissions[k]) /\ Committed(admissions[k])
    /\ AdmissionsAdvance
    /\ InsideDelegation(lastAct)

(* How the record of a workload may change.                                *)
Forward(r, s) ==
    /\ s.generation >= r.generation
    /\ s.generation = r.generation =>
          /\ \A f \in {"capsule", "policy", "lineage", "workload"} : s[f] = r[f]
          /\ r.lease # 0 => s.lease >= r.lease

FencesForward ==
    /\ fenceEpoch' >= fenceEpoch
    /\ \A w \in Workloads : Forward(fenceRecords[w], fenceRecords'[w])

-----------------------------------------------------------------------------
CapsuleNames == DOMAIN Capsules \cup {""}
PolicyNames == DOMAIN SitePolicies \cup {""}
CommandNames == DOMAIN SignedCommands \cup {""}
Lineages == {i.lineage : i \in Intents} \cup {""}

FenceRecord ==
    [generation : Nat, capsule : CapsuleNames, policy : PolicyNames,
     lineage : Lineages, workload : SUBSET Intents, present : BOOLEAN, lease : Int]

Entry == [capsule : DOMAIN Capsules, intent : Intents, policy : DOMAIN SitePolicies,
          command : CommandNames]

Admitted == [capsule : DOMAIN Capsules, intent : Intents, policy : DOMAIN SitePolicies,
             command : CommandNames, answered : BOOLEAN]

(* Epochs and generations.                                                 *)
LEMMA Unsigned ==
    /\ \A n \in DOMAIN SitePolicies : SitePolicies[n].epoch \in Nat
    /\ \A i \in Intents : i.generation \in Nat
  BY SignedDocuments, Zenon

(* FenceStore.Commit keeps the file typed and moves it forward, and leaves *)
(* the epoch and the generation it was given.                              *)
LEMMA CommitFenceForward ==
    ASSUME fenceEpoch \in Nat, fenceRecords \in [Workloads -> FenceRecord],
           NEW w \in Workloads, NEW r \in FenceRecord, NEW epoch \in Nat,
           CommitFence(w, r, epoch)
    PROVE  /\ fenceEpoch' = epoch
           /\ fenceRecords' \in [Workloads -> FenceRecord]
           /\ fenceRecords'[w].generation = r.generation
           /\ FencesForward
  <1> DEFINE current == fenceRecords[w]
             new == IF r.generation = current.generation THEN [r EXCEPT !.lease = current.lease] ELSE r
  <1>1. current \in FenceRecord
    OBVIOUS
  <1>2. new \in FenceRecord /\ new.generation = r.generation
    BY <1>1, Zenon DEF FenceRecord
  <1>3. fenceEpoch' = epoch /\ epoch >= fenceEpoch /\ fenceRecords' = [fenceRecords EXCEPT ![w] = new]
    BY Zenon DEF CommitFence
  <1>4. Forward(current, new)
    <2>1. r.generation >= current.generation
      BY Zenon DEF CommitFence
    <2>2. CASE r.generation = current.generation
      <3>1. \A f \in {"capsule", "policy", "lineage", "workload"} : r[f] = current[f]
        BY <2>2, Zenon DEF CommitFence
      <3>2. new = [r EXCEPT !.lease = current.lease]
        BY <2>2, Zenon
      <3>3. \A f \in {"capsule", "policy", "lineage", "workload"} : new[f] = r[f]
        BY <3>2, Zenon DEF FenceRecord
      <3>4. new.lease = current.lease /\ current.lease \in Int
        BY <3>2, <1>1, Zenon DEF FenceRecord
      <3> HIDE DEF new, current
      <3> QED  BY <1>2, <2>1, <3>1, <3>3, <3>4 DEF Forward
    <2>3. CASE r.generation # current.generation
      <3> HIDE DEF new, current
      <3> QED  BY <1>2, <2>1, <2>3, Zenon DEF Forward
    <2> QED  BY <2>2, <2>3, Zenon
  <1>5. \A v \in Workloads : Forward(fenceRecords[v], fenceRecords[v])
    <2> SUFFICES ASSUME NEW v \in Workloads PROVE Forward(fenceRecords[v], fenceRecords[v])
      OBVIOUS
    <2>1. fenceRecords[v].generation \in Nat /\ fenceRecords[v].lease \in Int
      BY Zenon DEF FenceRecord
    <2> QED  BY <2>1 DEF Forward
  <1> HIDE DEF new
  <1>6. \A v \in Workloads : fenceRecords'[v] = IF v = w THEN new ELSE fenceRecords[v]
    BY <1>3, Zenon
  <1>7. \A v \in Workloads : Forward(fenceRecords[v], fenceRecords'[v])
    BY <1>4, <1>5, <1>6, Zenon
  <1>8. fenceRecords' \in [Workloads -> FenceRecord]
    BY <1>2, <1>3, Zenon
  <1> QED  BY <1>2, <1>3, <1>6, <1>7, <1>8, Zenon DEF FencesForward


(* Types as sets of records.                                               *)
LEMMA AdTypes ==
    AdTypeOK <=>
        /\ enforced \in DOMAIN SitePolicies \cup {""}
        /\ fenceEpoch \in Nat
        /\ fenceRecords \in [Workloads -> FenceRecord]
        /\ waiting \subseteq Entry
        /\ admissions \in Seq(Admitted)
  BY Zenon DEF AdTypeOK, FenceRecord, Entry, Admitted, CapsuleNames, PolicyNames, CommandNames, Lineages

LEMMA AdTypesNext ==
    AdTypeOK' <=>
        /\ enforced' \in DOMAIN SitePolicies \cup {""}
        /\ fenceEpoch' \in Nat
        /\ fenceRecords' \in [Workloads -> FenceRecord]
        /\ waiting' \subseteq Entry
        /\ admissions' \in Seq(Admitted)
  BY Zenon DEF AdTypeOK, FenceRecord, Entry, Admitted, CapsuleNames, PolicyNames, CommandNames, Lineages

(* Steps that leave the fences alone.                                      *)
LEMMA FencesStay ==
    ASSUME AdTypeOK, UNCHANGED adFences
    PROVE  FencesForward
  <1>1. fenceEpoch' = fenceEpoch /\ fenceRecords' = fenceRecords
    BY Zenon DEF adFences
  <1>2. fenceEpoch \in Nat /\ fenceRecords \in [Workloads -> FenceRecord]
    BY AdTypes, Zenon
  <1>3. \A v \in Workloads : fenceRecords[v].generation \in Nat /\ fenceRecords[v].lease \in Int
    BY <1>2, Zenon DEF FenceRecord
  <1> QED  BY <1>1, <1>2, <1>3 DEF FencesForward, Forward

LEMMA AdmissionElements ==
    ASSUME AdTypeOK
    PROVE  /\ DOMAIN admissions = 1..Len(admissions) /\ Len(admissions) \in Nat
           /\ \A k \in DOMAIN admissions : admissions[k] \in Admitted
  <1>1. admissions \in Seq(Admitted)
    BY AdTypes, Zenon
  <1>2. DOMAIN admissions = 1..Len(admissions) /\ Len(admissions) \in Nat
    BY <1>1
  <1> QED  BY <1>1, <1>2

(* Committed admissions stay behind fences that move forward.              *)
LEMMA StaysBehind ==
    ASSUME AdTypeOK, FencesForward, NEW a \in Admitted, Behind(a),
           fenceEpoch' \in Nat, fenceRecords' \in [Workloads -> FenceRecord]
    PROVE  Behind(a)'
  <1>1. SitePolicies[a.policy].epoch \in Nat /\ a.intent.generation \in Nat
    BY Unsigned, Zenon DEF Admitted
  <1>2. Of(a.intent) \in Workloads /\ fenceRecords[Of(a.intent)].generation \in Nat
        /\ fenceRecords'[Of(a.intent)].generation \in Nat
    BY AdTypes, Zenon DEF Behind, FenceRecord
  <1>3. fenceRecords'[Of(a.intent)].generation >= fenceRecords[Of(a.intent)].generation
    BY <1>2, Zenon DEF FencesForward, Forward
  <1>4. fenceEpoch' >= fenceEpoch /\ fenceEpoch \in Nat
    BY AdTypes, Zenon DEF FencesForward
  <1>5. SitePolicies[a.policy].epoch <= fenceEpoch /\ a.intent.generation <= fenceRecords[Of(a.intent)].generation
    BY Zenon DEF Behind
  <1>6. SitePolicies[a.policy].epoch <= fenceEpoch'
    BY <1>1, <1>4, <1>5
  <1>7. a.intent.generation <= fenceRecords'[Of(a.intent)].generation
    BY <1>1, <1>2, <1>3, <1>5
  <1> QED  BY <1>2, <1>6, <1>7, Zenon DEF Behind

(* A step that commits nothing and moves the fences forward keeps what is  *)
(* known of the committed admissions.                                      *)
LEMMA NothingCommitted ==
    ASSUME AdInv, FencesForward, UNCHANGED admissions,
           fenceEpoch' \in Nat, fenceRecords' \in [Workloads -> FenceRecord]
    PROVE  /\ \A k \in DOMAIN admissions' : Behind(admissions[k])' /\ Committed(admissions[k])'
           /\ AdmissionsAdvance'
  <1>1. \A k \in DOMAIN admissions : admissions[k] \in Admitted
    BY AdmissionElements, Zenon DEF AdInv
  <1>2. ASSUME NEW k \in DOMAIN admissions
        PROVE  Behind(admissions[k])' /\ Committed(admissions[k])'
    <2> DEFINE a == admissions[k]
    <2>1. a \in Admitted /\ Behind(a) /\ Committed(a)
      BY <1>1, Zenon DEF AdInv
    <2>2. a' = a
      OBVIOUS
    <2>3. Committed(a)'
      BY <2>1, <2>2, Zenon DEF Committed, Verified, Granted
    <2> HIDE DEF a
    <2>4. Behind(a)'
      BY <2>1, <2>2 , StaysBehind, Zenon DEF AdInv
    <2> QED  BY <2>3, <2>4, Zenon DEF a
  <1>3. AdmissionsAdvance'
    BY Zenon DEF AdInv, AdmissionsAdvance
  <1> QED  BY <1>2, <1>3, Zenon


-----------------------------------------------------------------------------
(* What secureProvision has verified before provisionMu.                   *)
LEMMA ProvisionVerifies ==
    ASSUME AdTypeOK, NEW n, NEW i \in Intents, NEW tenant, NEW generation,
           NEW command \in CommandNames,
           Of(i) \in Workloads,
           secureProvision(n, i, tenant, generation, command)
    PROVE  LET e == [capsule |-> n, intent |-> i, policy |-> enforced, command |-> command]
           IN  e \in Entry /\ Pending(e) /\ waiting' = waiting \cup {e}
  <1> DEFINE e == [capsule |-> n, intent |-> i, policy |-> enforced, command |-> command]
  <1>1. enforced \in DOMAIN SitePolicies /\ Policy = SitePolicies[enforced]
    BY Zenon DEF AdTypeOK, secureProvision, Policy
  <1>2. VerifyAndAdmit(n, Policy, i, <<tenant, ThisNode>>, fenceEpoch, fenceRecords[Of(i)].generation, now)
        /\ i.node = ThisNode /\ waiting' = waiting \cup {e}
    BY Zenon DEF secureProvision
  <1>3. /\ n \in DOMAIN Capsules
        /\ VerifyCapsuleForImport(Capsules[n], Policy, now)
        /\ Intersect(n, Policy, Capsules[n].signer, i, <<tenant, ThisNode>>, fenceEpoch, fenceRecords[Of(i)].generation)
    BY <1>2, Zenon DEF VerifyAndAdmit
  <1>4. VerifyCapsuleForImport(Capsules[n], Policy, 0)
    BY <1>3, Zenon DEF VerifyCapsuleForImport, CapsuleValid
  <1>5. <<tenant, ThisNode>> = <<i.tenant, ThisNode>>
    BY <1>2, <1>3, Zenon DEF Intersect, IntentValid
  <1>6. Policy.epoch >= 0 /\ i.generation >= 0
    BY <1>1, Unsigned
  <1>7. Intersect(n, Policy, Capsules[n].signer, i, <<i.tenant, ThisNode>>, 0, 0)
    BY <1>3, <1>5, <1>6, Zenon DEF Intersect
  <1>8. VerifyAndAdmit(n, Policy, i, <<i.tenant, ThisNode>>, 0, 0, 0)
    BY <1>3, <1>4, <1>7, Zenon DEF VerifyAndAdmit
  <1>9. e \in Entry
    BY <1>1, <1>3, Zenon DEF Entry
  <1>10. Pending(e)
    BY <1>1, <1>8, Zenon DEF Pending, Verified
  <1> QED  BY <1>2, <1>9, <1>10, Zenon


(* Decoding a command records an act inside its delegation.                *)
LEMMA AppliesInside ==
    ASSUME AdTypeOK, NEW n \in DOMAIN SignedCommands, NEW k, Applies(n, k)
    PROVE  InsideDelegation(lastAct')
  <1> DEFINE c == SignedCommands[n]
             d == Delegations[c.delegation]
             p == SitePolicies[enforced]
  <1>1. decodeCommand(c, p, now) /\ lastAct' = [command |-> n, policy |-> enforced, at |-> now]
    BY Zenon DEF Applies, Policy
  <1>2. ASSUME c.delegation # ""
        PROVE  /\ now < d.expires /\ d.tenant = c.tenant /\ c.tenant \in DOMAIN p.tenants
               /\ d.signer \in DOMAIN p.tenants[c.tenant].commandKeys
               /\ c.kind \in p.tenants[c.tenant].commandKeys[d.signer]
    <2>1. DelegationValid(d, now) /\ d.signer \in delegationSignerKeys(p, d.tenant, d.operations)
          /\ Authorize(c.delegation, c)
      BY <1>1, <1>2, Zenon DEF decodeCommand, VerifyDelegatedCommand, VerifyCommandDelegation
    <2>2. now < d.expires
      BY <2>1, Zenon DEF DelegationValid
    <2>3. c.tenant = d.tenant /\ c.kind \in d.operations
      BY <2>1, Zenon DEF Authorize
    <2> HIDE DEF c, d, p
    <2>4. d.tenant \in DOMAIN p.tenants /\ d.signer \in DOMAIN p.tenants[d.tenant].commandKeys
          /\ d.operations \subseteq p.tenants[d.tenant].commandKeys[d.signer]
      BY <2>1, Zenon DEF delegationSignerKeys
    <2> QED  BY <2>2, <2>3, <2>4, Zenon
  <1> QED  BY <1>1, <1>2, Zenon DEF InsideDelegation

(* Where the intent of a step comes from.                                  *)
LEMMA CommandWorkload ==
    ASSUME NEW n \in DOMAIN SignedCommands
    PROVE  Of(SignedCommands[n]) \in Workloads /\ SignedCommands[n].intent \in Intents
  BY Zenon DEF Of, Workloads, Intents

LEMMA HostWorkload ==
    ASSUME NEW r \in HostRequests
    PROVE  Of(r.intent) \in Workloads /\ r.intent \in Intents
  BY Zenon DEF Of, Workloads, Intents

(* The invariant over a step that commits nothing, by what it does to the  *)
(* fences, the waiting admissions and the last act.                        *)
LEMMA QuietStep ==
    ASSUME AdInv, FencesForward, UNCHANGED admissions,
           fenceEpoch' \in Nat, fenceRecords' \in [Workloads -> FenceRecord],
           enforced' \in DOMAIN SitePolicies \cup {""},
           waiting' \subseteq Entry, \A e \in waiting' : Pending(e)',
           InsideDelegation(lastAct')
    PROVE  AdInv'
  <1>1. AdTypeOK'
    <2>1. admissions' \in Seq(Admitted)
      BY AdTypes, Zenon DEF AdInv
    <2> QED  BY <2>1, AdTypesNext, Zenon
  <1>2. InsideDelegation(lastAct)'
    BY Zenon DEF InsideDelegation
  <1>3. /\ \A k \in DOMAIN admissions' : Behind(admissions[k])' /\ Committed(admissions[k])'
        /\ AdmissionsAdvance'
    BY NothingCommitted, Zenon
  <1> QED  BY <1>1, <1>2, <1>3, Zenon DEF AdInv

(* Entries that wait go on waiting while the policy in force stays.        *)
LEMMA StillPending ==
    ASSUME AdInv, UNCHANGED enforced
    PROVE  waiting \subseteq Entry /\ \A e \in waiting : Pending(e)'
  BY AdTypes, Zenon DEF AdInv, Pending, Verified


(* The same for a step that also leaves the fences alone.                  *)
LEMMA FencelessStep ==
    ASSUME AdInv, UNCHANGED <<adFences, admissions>>,
           enforced' \in DOMAIN SitePolicies \cup {""},
           waiting' \subseteq Entry, \A e \in waiting' : Pending(e)',
           InsideDelegation(lastAct')
    PROVE  AdInv' /\ FencesForward
  <1>1. FencesForward
    BY FencesStay, Zenon DEF AdInv
  <1>2. fenceEpoch' \in Nat /\ fenceRecords' \in [Workloads -> FenceRecord]
    BY AdTypes, Zenon DEF AdInv, adFences
  <1> QED  BY <1>1, <1>2, QuietStep, Zenon

LEMMA EnableStep ==
    ASSUME AdInv, NEW n \in DOMAIN SitePolicies, EnableSecureAdmission(n)
    PROVE  AdInv' /\ FencesForward
  <1>1. enforced' \in DOMAIN SitePolicies \cup {""} /\ waiting' = {}
    BY Zenon DEF EnableSecureAdmission
  <1>2. InsideDelegation(lastAct')
    BY Zenon DEF AdInv, EnableSecureAdmission
  <1>3. UNCHANGED <<adFences, admissions>>
    BY Zenon DEF EnableSecureAdmission
  <1> QED  BY <1>1, <1>2, <1>3, FencelessStep, Zenon

LEMMA TimeStep ==
    ASSUME AdInv, TimePasses
    PROVE  AdInv' /\ FencesForward
  <1>1. UNCHANGED <<enforced, adFences, waiting, admissions, lastAct>>
    BY Zenon DEF TimePasses
  <1>2. enforced' \in DOMAIN SitePolicies \cup {""} /\ InsideDelegation(lastAct')
    BY <1>1, Zenon DEF AdInv, AdTypeOK
  <1> QED  BY <1>1, <1>2, StillPending, FencelessStep, Zenon

(* Both ways to ask for an admission.                                      *)
LEMMA ProvisionStep ==
    ASSUME AdInv, NEW n, NEW i \in Intents, NEW tenant, NEW generation,
           NEW command \in CommandNames, Of(i) \in Workloads,
           secureProvision(n, i, tenant, generation, command),
           UNCHANGED <<enforced, adFences, now, restarts, admissions>>,
           InsideDelegation(lastAct')
    PROVE  AdInv' /\ FencesForward
  <1> DEFINE e == [capsule |-> n, intent |-> i, policy |-> enforced, command |-> command]
  <1>1. e \in Entry /\ Pending(e) /\ waiting' = waiting \cup {e}
    BY ProvisionVerifies, Zenon DEF AdInv
  <1> HIDE DEF e
  <1>2. ASSUME NEW x, x = e
        PROVE  Pending(x)'
    BY <1>1, <1>2, Zenon DEF Pending, Verified
  <1>3. waiting' \subseteq Entry /\ \A x \in waiting' : Pending(x)'
    BY <1>1, <1>2, StillPending, Zenon
  <1>4. enforced' \in DOMAIN SitePolicies \cup {""}
    BY Zenon DEF AdInv, AdTypeOK
  <1> QED  BY <1>3, <1>4, FencelessStep, Zenon

LEMMA AdmitCommandStep ==
    ASSUME AdInv, NEW n \in DOMAIN SignedCommands, AdmitCommand(n)
    PROVE  AdInv' /\ FencesForward
  <1> DEFINE c == SignedCommands[n]
  <1>1. c.intent \in Intents /\ Of(c) \in Workloads
    BY CommandWorkload, Zenon
  <1>2. Of(c.intent) = Of(c)
    <2>1. c.intent.tenant = c.tenant /\ c.intent.instance = c.instance
      BY Zenon DEF AdmitCommand
    <2> QED  BY <2>1, Zenon DEF Of
  <1>3. InsideDelegation(lastAct')
    BY AppliesInside, Zenon DEF AdmitCommand, AdInv
  <1>4. n \in CommandNames
    BY Zenon DEF CommandNames
  <1>5. /\ secureProvision(c.capsule, c.intent, c.tenant, c.generation, n)
        /\ UNCHANGED <<enforced, adFences, now, restarts, admissions>>
    BY Zenon DEF AdmitCommand
  <1> HIDE DEF c
  <1> QED  BY <1>1, <1>2, <1>3, <1>4, <1>5, ProvisionStep, Zenon

LEMMA AdmitHostStep ==
    ASSUME AdInv, NEW r \in HostRequests, AdmitHost(r)
    PROVE  AdInv' /\ FencesForward
  <1>1. InsideDelegation(lastAct')
    BY Zenon DEF AdmitHost, AdInv
  <1>2. "" \in CommandNames
    BY Zenon DEF CommandNames
  <1>3. /\ secureProvision(r.capsule, r.intent, r.intent.tenant, r.intent.generation, "")
        /\ UNCHANGED <<enforced, adFences, now, restarts, admissions>>
    BY Zenon DEF AdmitHost
  <1> QED  BY <1>1, <1>2, <1>3, HostWorkload, ProvisionStep, Zenon

(* Commands that change no fence.                                          *)
LEMMA ReadOnlyStep ==
    ASSUME AdInv, NEW n \in DOMAIN SignedCommands, secureStart(n) \/ secureStop(n)
    PROVE  AdInv' /\ FencesForward
  <1>1. InsideDelegation(lastAct')
    BY AppliesInside, Zenon DEF secureStart, secureStop, AdInv
  <1>2. UNCHANGED <<enforced, adFences, waiting, admissions>>
    BY Zenon DEF secureStart, secureStop
  <1>3. enforced' \in DOMAIN SitePolicies \cup {""}
    BY <1>2, Zenon DEF AdInv, AdTypeOK
  <1> QED  BY <1>1, <1>2, <1>3, StillPending, FencelessStep, Zenon

LEMMA DestroyStep ==
    ASSUME AdInv, NEW n \in DOMAIN SignedCommands, secureDestroy(n)
    PROVE  AdInv' /\ FencesForward
  <1> DEFINE w == Of(SignedCommands[n])
             r == [fenceRecords[w] EXCEPT !.present = FALSE]
  <1>1. w \in Workloads
    BY CommandWorkload, Zenon
  <1>2. fenceEpoch \in Nat /\ fenceRecords \in [Workloads -> FenceRecord]
    BY AdTypes, Zenon DEF AdInv
  <1>3. r \in FenceRecord
    BY <1>1, <1>2, Zenon DEF FenceRecord
  <1>4. CommitFence(w, r, fenceEpoch) /\ UNCHANGED <<enforced, waiting, now, restarts, admissions>>
    BY Zenon DEF secureDestroy
  <1>5. InsideDelegation(lastAct')
    BY AppliesInside, Zenon DEF secureDestroy, AdInv
  <1> HIDE DEF w, r
  <1>6. FencesForward /\ fenceEpoch' \in Nat /\ fenceRecords' \in [Workloads -> FenceRecord]
    BY <1>1, <1>2, <1>3, <1>4, CommitFenceForward, Zenon
  <1>7. enforced' \in DOMAIN SitePolicies \cup {""}
    BY <1>4, Zenon DEF AdInv, AdTypeOK
  <1> QED  BY <1>4, <1>5, <1>6, <1>7, StillPending, QuietStep, Zenon


LEMMA RenewStep ==
    ASSUME AdInv, NEW n \in DOMAIN SignedCommands, renewWorkloadLease(n)
    PROVE  AdInv' /\ FencesForward
  <1> DEFINE c == SignedCommands[n]
             w == Of(c)
             r == fenceRecords[w]
             s == [r EXCEPT !.lease = c.lease]
  <1>1. w \in Workloads
    BY CommandWorkload, Zenon
  <1>2. fenceEpoch \in Nat /\ fenceRecords \in [Workloads -> FenceRecord]
    BY AdTypes, Zenon DEF AdInv
  <1>3. c.lease \in Int
    BY SignedDocuments, Zenon
  <1>4. r \in FenceRecord /\ s \in FenceRecord /\ s.generation = r.generation /\ s.lease = c.lease
        /\ \A f \in {"capsule", "policy", "lineage", "workload"} : s[f] = r[f]
    BY <1>1, <1>2, <1>3, Zenon DEF FenceRecord
  <1>5. /\ RenewLease(w, r.generation, c.lease)
        /\ UNCHANGED <<enforced, fenceEpoch, waiting, now, restarts, admissions>>
    BY Zenon DEF renewWorkloadLease
  <1>6. r.lease # 0 => c.lease >= r.lease
    BY <1>5, Zenon DEF RenewLease
  <1>7. fenceRecords' = [fenceRecords EXCEPT ![w] = s]
    BY <1>5, Zenon DEF RenewLease
  <1>8. InsideDelegation(lastAct')
    BY AppliesInside, Zenon DEF renewWorkloadLease, AdInv
  <1>9. r.generation \in Nat /\ r.lease \in Int
    BY <1>4, Zenon DEF FenceRecord
  <1> HIDE DEF s, r, c
  <1>10. Forward(r, s)
    BY <1>4, <1>6, <1>9 DEF Forward
  <1> HIDE DEF w
  <1>11. \A v \in Workloads : Forward(fenceRecords[v], fenceRecords'[v])
    <2> SUFFICES ASSUME NEW v \in Workloads PROVE Forward(fenceRecords[v], fenceRecords'[v])
      OBVIOUS
    <2>1. CASE v = w
      <3>1. fenceRecords'[v] = s /\ fenceRecords[v] = r
        BY <1>1, <1>2, <1>7, <2>1, Zenon DEF r
      <3> QED  BY <3>1, <1>10, Zenon
    <2>2. CASE v # w
      <3>1. fenceRecords'[v] = fenceRecords[v] /\ fenceRecords[v] \in FenceRecord
        BY <1>2, <1>7, <2>2, Zenon
      <3>2. fenceRecords[v].generation \in Nat /\ fenceRecords[v].lease \in Int
        BY <3>1, Zenon DEF FenceRecord
      <3> QED  BY <3>1, <3>2 DEF Forward
    <2> QED  BY <2>1, <2>2, Zenon
  <1>12. FencesForward /\ fenceEpoch' \in Nat
    BY <1>2, <1>5, <1>11 DEF FencesForward
  <1>13. fenceRecords' \in [Workloads -> FenceRecord]
    BY <1>1, <1>2, <1>4, <1>7, Zenon
  <1>14. enforced' \in DOMAIN SitePolicies \cup {""}
    BY <1>5, Zenon DEF AdInv, AdTypeOK
  <1> QED  BY <1>5, <1>8, <1>12, <1>13, <1>14, StillPending, QuietStep, Zenon

LEMMA AbandonStep ==
    ASSUME AdInv, NEW e \in waiting, Abandon(e)
    PROVE  AdInv' /\ FencesForward
  <1>1. UNCHANGED <<enforced, adFences, admissions, lastAct>> /\ waiting' \subseteq waiting
    BY Zenon DEF Abandon
  <1>2. InsideDelegation(lastAct') /\ enforced' \in DOMAIN SitePolicies \cup {""}
    BY <1>1, Zenon DEF AdInv, AdTypeOK
  <1>3. waiting' \subseteq Entry /\ \A x \in waiting' : Pending(x)'
    BY <1>1, StillPending, Zenon
  <1> QED  BY <1>1, <1>2, <1>3, FencelessStep, Zenon


(* A commit appends one admission that is ahead of all earlier ones.       *)
LEMMA CommitStep ==
    ASSUME AdInv, NEW e \in waiting, provisionSecureWorkload(e)
    PROVE  AdInv' /\ FencesForward
  <1> DEFINE w == Of(e.intent)
             g == RuntimeGrant(Policy, e.intent)
             epoch == Policy.epoch
             r == [generation |-> e.intent.generation, capsule |-> e.capsule, policy |-> e.policy,
                   lineage |-> e.intent.lineage, workload |-> {e.intent}, present |-> TRUE, lease |-> 0]
             a == [capsule |-> e.capsule, intent |-> e.intent, policy |-> e.policy,
                   command |-> e.command, answered |-> callAdmissionV4(e.intent, secureResponse(g))]
  <1>1. e \in Entry /\ Pending(e) /\ w \in Workloads /\ enforced \in DOMAIN SitePolicies
        /\ Policy = SitePolicies[e.policy]
    BY AdTypes, Zenon DEF AdInv, Pending, Policy, Entry
  <1>2. fenceEpoch \in Nat /\ fenceRecords \in [Workloads -> FenceRecord]
    BY AdTypes, Zenon DEF AdInv
  <1>3. epoch \in Nat /\ e.intent.generation \in Nat /\ e.intent \in Intents
    BY <1>1, Unsigned, Zenon DEF Entry
  <1>4. r \in FenceRecord
    <2>1. e.capsule \in CapsuleNames /\ e.policy \in PolicyNames
      BY <1>1, Zenon DEF Entry, CapsuleNames, PolicyNames
    <2>2. e.intent.lineage \in Lineages
      BY <1>3, Zenon DEF Lineages
    <2> QED  BY <1>3, <2>1, <2>2 DEF FenceRecord
  <1>5. /\ fenceRecords[w].generation < e.intent.generation
        /\ CommitFence(w, r, epoch)
        /\ admissions' = Append(admissions, a)
        /\ waiting' = waiting \ {e}
        /\ UNCHANGED <<enforced, now, restarts, lastAct>>
    <2>1. ~Consumed(w, e.intent.generation) /\ fenceRecords[w].generation \in Nat
      BY <1>1, <1>2, Zenon DEF provisionSecureWorkload, FenceRecord
    <2>2. fenceRecords[w].generation < e.intent.generation
      BY <2>1, <1>3 DEF Consumed
    <2> QED  BY <2>2, Zenon DEF provisionSecureWorkload
  <1>6. callAdmissionV4(e.intent, secureResponse(g)) \in BOOLEAN
    BY Zenon DEF callAdmissionV4
  <1>7. a \in Admitted
    BY <1>1, <1>6, Zenon DEF Admitted, Entry
  <1>8. Committed(a)
    BY <1>1, Zenon DEF Committed, Granted, Pending, Verified
  <1>9. SitePolicies[a.policy].epoch = epoch /\ a.intent = e.intent
    BY <1>1, Zenon
  <1> HIDE DEF r, a, epoch, g
  <1>10. /\ fenceEpoch' = epoch /\ fenceRecords' \in [Workloads -> FenceRecord]
         /\ fenceRecords'[w].generation = e.intent.generation /\ FencesForward
    <2>1. r.generation = e.intent.generation
      BY Zenon DEF r
    <2> HIDE DEF w
    <2> QED  BY <1>1, <1>2, <1>3, <1>4, <1>5, <2>1, CommitFenceForward, Zenon
  <1>11. fenceEpoch <= epoch
    BY <1>5, Zenon DEF CommitFence
  <1> DEFINE n == Len(admissions)
  <1>12. /\ n \in Nat /\ DOMAIN admissions = 1..n /\ DOMAIN admissions' = 1..(n + 1)
         /\ admissions' \in Seq(Admitted)
         /\ \A k \in 1..n : admissions'[k] = admissions[k] /\ admissions[k] \in Admitted
         /\ admissions'[n + 1] = a
    <2>1. admissions \in Seq(Admitted) /\ admissions' = Append(admissions, a)
      BY <1>5, AdTypes, Zenon DEF AdInv
    <2>2. admissions' \in Seq(Admitted) /\ Len(admissions') = n + 1
          /\ (\A k \in 1..n : admissions'[k] = admissions[k]) /\ admissions'[n + 1] = a
      BY <2>1, <1>7
    <2> QED  BY <2>1, <2>2, AdmissionElements DEF AdInv
  <1>13. \A k \in 1..n : Behind(admissions[k]) /\ Committed(admissions[k])
    BY <1>12, Zenon DEF AdInv
  <1> HIDE DEF n
  <1>14. ASSUME NEW k \in 1..(n + 1)
         PROVE  Behind(admissions[k])' /\ Committed(admissions[k])'
    <2>1. CASE k \in 1..n
      <3> DEFINE b == admissions[k]
      <3>1. admissions'[k] = b /\ b \in Admitted /\ Behind(b) /\ Committed(b)
        BY <1>12, <1>13, <2>1, Zenon
      <3> HIDE DEF b
      <3>2. ASSUME NEW x, x = b
            PROVE  Behind(x)' /\ Committed(x)'
        <4>1. x \in Admitted /\ Behind(x) /\ Committed(x) /\ AdTypeOK
          BY <3>1, <3>2, Zenon DEF AdInv
        <4>2. fenceEpoch' \in Nat
          BY <1>3, <1>10, Zenon
        <4>3. Behind(x)'
          BY <4>1, <4>2, <1>10, StaysBehind, Zenon
        <4> QED  BY <4>1, <4>3, Zenon DEF Committed, Verified, Granted
      <3> QED  BY <3>1, <3>2, Zenon
    <2>2. CASE k = n + 1
      <3>1. admissions'[k] = a
        BY <1>12, <2>2, Zenon
      <3>2. ASSUME NEW x, x = a
            PROVE  Behind(x)' /\ Committed(x)'
        <4>1. Of(x.intent) = w /\ x.intent.generation = e.intent.generation /\ SitePolicies[x.policy].epoch = epoch
          BY <1>9, <3>2, Zenon
        <4>2. Committed(x)'
          BY <1>8, <3>2, Zenon DEF Committed, Verified, Granted
        <4>3. Behind(x)'
          <5> HIDE DEF w
          <5> QED  BY <1>1, <1>3, <1>10, <4>1 DEF Behind
        <4> QED  BY <4>2, <4>3, Zenon
      <3> QED  BY <3>1, <3>2, Zenon
    <2> QED  BY <1>12, <2>1, <2>2
  <1>15. AdmissionsAdvance'
    <2> SUFFICES ASSUME NEW j \in 1..(n + 1), NEW k \in 1..(n + 1), j < k
                 PROVE  LET b == admissions'[j]
                            c == admissions'[k]
                        IN  /\ SitePolicies[b.policy].epoch <= SitePolicies[c.policy].epoch
                            /\ Of(b.intent) = Of(c.intent) => b.intent.generation < c.intent.generation
      BY <1>12, Zenon DEF AdmissionsAdvance
    <2>1. j \in 1..n /\ admissions'[j] = admissions[j] /\ admissions[j] \in Admitted
      BY <1>12
    <2>2. CASE k \in 1..n
      <3>1. admissions'[k] = admissions[k]
        BY <1>12, <2>2, Zenon
      <3> QED  BY <2>1, <2>2, <3>1, <1>12, Zenon DEF AdInv, AdmissionsAdvance
    <2>3. CASE k = n + 1
      <3> DEFINE b == admissions[j]
      <3>1. Behind(b) /\ b \in Admitted
        BY <1>13, <2>1, Zenon
      <3>2. SitePolicies[b.policy].epoch \in Nat /\ b.intent.generation \in Nat
        BY <3>1, Unsigned, Zenon DEF Admitted
      <3>3. SitePolicies[b.policy].epoch <= fenceEpoch
            /\ b.intent.generation <= fenceRecords[Of(b.intent)].generation
        BY <3>1, Zenon DEF Behind
      <3>4. admissions'[k] = a
        BY <1>12, <2>3, Zenon
      <3> HIDE DEF b
      <3>5. SitePolicies[b.policy].epoch <= SitePolicies[a.policy].epoch
        BY <1>2, <1>3, <1>9, <1>11, <3>2, <3>3
      <3>6. ASSUME Of(b.intent) = w
            PROVE  b.intent.generation < e.intent.generation
        <4>1. fenceRecords[w].generation \in Nat
          BY <1>1, <1>2, Zenon DEF FenceRecord
        <4> HIDE DEF w
        <4> QED  BY <1>3, <1>5, <3>2, <3>3, <3>6, <4>1
      <3> QED  BY <2>1, <3>4, <3>5, <3>6, <1>9, Zenon DEF b
    <2> QED  BY <1>12, <2>2, <2>3
  <1>16. AdTypeOK'
    <2>1. waiting' \subseteq Entry /\ enforced' \in DOMAIN SitePolicies \cup {""}
      BY <1>5, AdTypes, Zenon DEF AdInv
    <2> QED  BY <1>3, <1>10, <1>12, <2>1, AdTypesNext, Zenon
  <1>17. \A x \in waiting' : Pending(x)'
    BY <1>5, StillPending, Zenon
  <1>18. InsideDelegation(lastAct)'
    BY <1>5, Zenon DEF AdInv, InsideDelegation
  <1> QED  BY <1>10, <1>12, <1>14, <1>15, <1>16, <1>17, <1>18, Zenon DEF AdInv


-----------------------------------------------------------------------------
LEMMA AdInitially ==
    ASSUME AdInit
    PROVE  AdInv
  <1>1. NoFence \in FenceRecord
    <2>1. "" \in CapsuleNames /\ "" \in PolicyNames /\ "" \in Lineages
      BY Zenon DEF CapsuleNames, PolicyNames, Lineages
    <2>2. NoFence = [generation |-> 0, capsule |-> "", policy |-> "", lineage |-> "", workload |-> {},
                     present |-> FALSE, lease |-> 0]
      BY Zenon DEF NoFence
    <2>3. 0 \in Nat /\ 0 \in Int
      OBVIOUS
    <2> QED  BY <2>1, <2>2, <2>3, Zenon DEF FenceRecord
  <1>2. fenceRecords \in [Workloads -> FenceRecord]
    BY <1>1, Zenon DEF AdInit
  <1>3. enforced \in PolicyNames /\ fenceEpoch \in Nat /\ waiting = {} /\ admissions = <<>>
    BY Zenon DEF AdInit, PolicyNames
  <1>4. AdTypeOK
    <2>1. admissions \in Seq(Admitted)
      BY <1>3
    <2> QED  BY <1>2, <1>3, <2>1, AdTypes, Zenon DEF PolicyNames
  <1>5. DOMAIN admissions = {}
    <2>1. DOMAIN <<>> = {}
      OBVIOUS
    <2> QED  BY <1>3, <2>1, Zenon
  <1>6. InsideDelegation(lastAct)
    BY Zenon DEF AdInit, NoAct, InsideDelegation
  <1> QED  BY <1>3, <1>4, <1>5, <1>6, Zenon DEF AdInv, AdmissionsAdvance

LEMMA AdStep ==
    ASSUME AdInv, AdNext
    PROVE  AdInv' /\ FencesForward
  <1>1. ASSUME NEW n \in DOMAIN SitePolicies, EnableSecureAdmission(n)
        PROVE  AdInv' /\ FencesForward
    BY <1>1, EnableStep, Zenon
  <1>2. CASE TimePasses
    BY <1>2, TimeStep, Zenon
  <1>3. ASSUME NEW n \in DOMAIN SignedCommands, AdmitCommand(n)
        PROVE  AdInv' /\ FencesForward
    BY <1>3, AdmitCommandStep, Zenon
  <1>4. ASSUME NEW n \in DOMAIN SignedCommands, secureStart(n) \/ secureStop(n)
        PROVE  AdInv' /\ FencesForward
    BY <1>4, ReadOnlyStep, Zenon
  <1>5. ASSUME NEW n \in DOMAIN SignedCommands, secureDestroy(n)
        PROVE  AdInv' /\ FencesForward
    BY <1>5, DestroyStep, Zenon
  <1>6. ASSUME NEW n \in DOMAIN SignedCommands, renewWorkloadLease(n)
        PROVE  AdInv' /\ FencesForward
    BY <1>6, RenewStep, Zenon
  <1>7. ASSUME NEW r \in HostRequests, AdmitHost(r)
        PROVE  AdInv' /\ FencesForward
    BY <1>7, AdmitHostStep, Zenon
  <1>8. ASSUME NEW e \in waiting, provisionSecureWorkload(e)
        PROVE  AdInv' /\ FencesForward
    BY <1>8, CommitStep, Zenon
  <1>9. ASSUME NEW e \in waiting, Abandon(e)
        PROVE  AdInv' /\ FencesForward
    BY <1>9, AbandonStep, Zenon
  <1> QED  BY <1>1, <1>2, <1>3, <1>4, <1>5, <1>6, <1>7, <1>8, <1>9, Zenon DEF AdNext

LEMMA AdStutters ==
    ASSUME AdInv, UNCHANGED adVars
    PROVE  AdInv'
  <1>1. UNCHANGED <<enforced, adFences, waiting, admissions, lastAct>>
    BY Zenon DEF adVars, adFences
  <1>2. enforced' \in DOMAIN SitePolicies \cup {""} /\ InsideDelegation(lastAct')
    BY <1>1, Zenon DEF AdInv, AdTypeOK
  <1> QED  BY <1>1, <1>2, StillPending, FencelessStep, Zenon

LEMMA AdInductive == AdSpec => []AdInv
  <1>1. AdInit => AdInv
    BY AdInitially, Zenon
  <1>2. AdInv /\ [AdNext]_adVars => AdInv'
    BY AdStep, AdStutters, Zenon
  <1> QED  BY <1>1, <1>2, PTL DEF AdSpec


-----------------------------------------------------------------------------
(* For any signed documents and any races between admissions verified      *)
(* before provisionMu, destructions and restarts under older or newer      *)
(* policies, committed admissions follow the policy epochs and no          *)
(* generation of a workload is admitted again (FenceStore.Commit and the   *)
(* check under provisionMu).                                               *)
THEOREM AdmissionsOnlyAdvance == AdSpec => []AdmissionsAdvance
  <1>1. AdInv => AdmissionsAdvance
    BY Zenon DEF AdInv
  <1> QED  BY <1>1, AdInductive, PTL

(* No step takes the fence file back: the policy epoch and every           *)
(* generation only grow, a record keeps the documents it was made from     *)
(* while its generation stays, and its lease is never shortened.           *)
THEOREM FencesNeverRetreat == AdSpec => [][FencesForward]_adVars
  <1>1. AdInv /\ [AdNext]_adVars => [FencesForward]_adVars
    BY AdStep, Zenon
  <1> QED  BY <1>1, AdInductive, PTL DEF AdSpec


-----------------------------------------------------------------------------
(* Keys with distinct public keys are as many as their public keys.        *)
LEMMA DistinctPublics ==
    ASSUME NEW keys, NEW S, IsFiniteSet(S), S \subseteq DOMAIN keys,
           \A k, l \in DOMAIN keys : keys[k].public = keys[l].public => k = l
    PROVE  Cardinality({keys[k].public : k \in S}) = Cardinality(S)
  <1> DEFINE T == {keys[k].public : k \in S}
             f == [k \in S |-> keys[k].public]
  <1>1. f \in [S -> T] /\ \A k \in S : f[k] = keys[k].public
    OBVIOUS
  <1>2. \A k, l \in S : keys[k].public = keys[l].public => k = l
    OBVIOUS
  <1>3. \A t \in T : \E k \in S : keys[k].public = t
    OBVIOUS
  <1> HIDE DEF f, T
  <1>4. f \in Injection(S, T)
    BY <1>1, <1>2, Zenon DEF Injection, IsInjective
  <1>5. f \in Surjection(S, T)
    BY <1>1, <1>3, Zenon DEF Surjection
  <1>6. ExistsBijection(S, T)
    BY <1>4, <1>5, Zenon DEF ExistsBijection, Bijection
  <1>7. Cardinality(T) = Cardinality(S)
    BY <1>6, FS_Bijection, Zenon
  <1> QED  BY <1>7, Zenon DEF T

(* A connector that an authorized workload may use has, in the grant, as   *)
(* many distinct public keys as the tenant's policy asks for.              *)
LEMMA EnoughPublics ==
    ASSUME NEW t, NEW selected, NEW c \in selected,
           IsFiniteSet(DOMAIN t.effects.keys), t.effects.min \in Int,
           EffectsValid(t), ActionKeysCover(t, selected)
    PROVE  LET keys == authorizedActionKeys(t, selected) IN
           /\ Cardinality({keys[k].public : k \in {k \in DOMAIN keys : c \in keys[k].connectors}})
                 >= actionApprovalThreshold(t.effects)
           /\ {keys[k].public : k \in {k \in DOMAIN keys : c \in keys[k].connectors}} \subseteq Publics(t.effects.keys)
  <1> DEFINE all == t.effects.keys
             keys == authorizedActionKeys(t, selected)
             S == Approvers(t.effects, c)
             A == {keys[k].public : k \in {k \in DOMAIN keys : c \in keys[k].connectors}}
  <1>1. EnoughApprovers(t.effects) /\ \A k, l \in DOMAIN all : all[k].public = all[l].public => k = l
    BY Zenon DEF EffectsValid, ActionKeysCover
  <1>2. S # {} /\ S \subseteq DOMAIN all /\ \A k \in S : c \in all[k].connectors
    BY Zenon DEF ActionKeysCover, Approvers
  <1>3. Cardinality(S) >= actionApprovalThreshold(t.effects)
    BY <1>1, <1>2, Zenon DEF EnoughApprovers
  <1>4. {k \in DOMAIN keys : c \in keys[k].connectors} = S
    BY Zenon DEF authorizedActionKeys, Approvers
  <1>5. \A k \in S : keys[k].public = all[k].public
    BY Zenon DEF authorizedActionKeys, Approvers
  <1>6. A = {all[k].public : k \in S}
    <2> HIDE DEF keys, S, all
    <2> QED  BY <1>4, <1>5, Zenon
  <1>7. IsFiniteSet(S)
    BY <1>2, FS_Subset, Zenon
  <1> HIDE DEF S, all
  <1>8. Cardinality({all[k].public : k \in S}) = Cardinality(S)
    BY <1>1, <1>2, <1>7, DistinctPublics, Zenon
  <1>9. {all[k].public : k \in S} \subseteq Publics(all)
    BY <1>2, Zenon DEF Publics
  <1> HIDE DEF A
  <1>10. Cardinality(A) >= actionApprovalThreshold(t.effects) /\ A \subseteq Publics(all)
    BY <1>3, <1>6, <1>8, <1>9, Zenon
  <1> QED  BY <1>10, Zenon DEF A, all


(* Tenant, publisher and capsule of a verified admission.                  *)
LEMMA VerifiedFacts ==
    ASSUME NEW a, Verified(a)
    PROVE  LET p == SitePolicies[a.policy]
               c == Capsules[a.capsule]
               t == p.tenants[a.intent.tenant]
           IN  /\ SitePolicyValid(p) /\ a.intent.tenant \in DOMAIN p.tenants
               /\ c.publisher = c.signer /\ ~p.publishers[c.publisher].revoked
               /\ resourcesWithin(a.intent.resources, c.resources)
               /\ resourcesWithin(a.intent.resources, p.publishers[c.publisher].ceiling)
               /\ resourcesWithin(a.intent.resources, t.ceiling)
               /\ validateRequestedCapabilities(a.intent, c, t)
               /\ EffectsValid(t)
  <1> DEFINE p == SitePolicies[a.policy]
             c == Capsules[a.capsule]
             i == a.intent
  <1>1. VerifyCapsuleForImport(c, p, 0) /\ Intersect(a.capsule, p, c.signer, i, <<i.tenant, ThisNode>>, 0, 0)
    BY Zenon DEF Verified, VerifyAndAdmit
  <1>2. SitePolicyValid(p) /\ c.publisher = c.signer /\ PublisherAllows(p, c, c.signer)
    BY <1>1, Zenon DEF VerifyCapsuleForImport
  <1>3. /\ i.tenant \in DOMAIN p.tenants
        /\ resourcesWithin(i.resources, c.resources)
        /\ resourcesWithin(i.resources, p.publishers[c.signer].ceiling)
        /\ resourcesWithin(i.resources, p.tenants[i.tenant].ceiling)
        /\ validateRequestedCapabilities(i, c, p.tenants[i.tenant])
    BY <1>1, Zenon DEF Intersect
  <1> HIDE DEF p, c, i
  <1>4. ~p.publishers[c.signer].revoked
    BY <1>2, Zenon DEF PublisherAllows
  <1>5. EffectsValid(p.tenants[i.tenant])
    BY <1>2, <1>3, Zenon DEF SitePolicyValid, TenantValid
  <1> QED  BY <1>2, <1>3, <1>4, <1>5, Zenon DEF p, c, i

(* A workload with authorized effects has no egress and its connectors are *)
(* covered by action keys.                                                 *)
LEMMA AuthorizedEffects ==
    ASSUME NEW i, NEW t, validateEffectMode(i, t), EffectsValid(t), i.mode = "authorized"
    PROVE  t.effects.mode # "none" /\ i.egress = {} /\ ActionKeysCover(t, i.connectors)
  <1>1. t.effects.mode # "none"
    BY Zenon DEF validateEffectMode
  <1> QED  BY <1>1, Zenon DEF validateEffectMode

LEMMA Thresholds ==
    ASSUME NEW t, EffectsValid(t), t.effects.mode # "none", t.effects.min \in Int
    PROVE  actionApprovalThreshold(t.effects) >= 1
  BY DEF EffectsValid, actionApprovalThreshold

LEMMA VerifiedReachable ==
    ASSUME NEW a, Verified(a), a.policy \in DOMAIN SitePolicies
    PROVE  ApprovalsReachable(a)
  <1> DEFINE p == SitePolicies[a.policy]
             i == a.intent
             t == p.tenants[i.tenant]
             g == RuntimeGrant(p, i)
             keys == authorizedActionKeys(t, i.connectors)
  <1> SUFFICES ASSUME i.mode = "authorized"
               PROVE  /\ g.actions.threshold >= 1
                      /\ \A c \in i.connectors : Cardinality(ApproverKeys(g, c)) >= g.actions.threshold
                      /\ \A c \in i.connectors : \A u \in DOMAIN p.tenants :
                            u # i.tenant => ApproverKeys(g, c) \cap Publics(p.tenants[u].effects.keys) = {}
    BY Zenon DEF ApprovalsReachable
  <1>1. SitePolicyValid(p) /\ i.tenant \in DOMAIN p.tenants /\ validateEffectMode(i, t) /\ EffectsValid(t)
    BY VerifiedFacts, Zenon DEF validateRequestedCapabilities
  <1>2. IsFiniteSet(DOMAIN t.effects.keys) /\ t.effects.min \in Int
    BY <1>1, SignedDocuments, Zenon
  <1>3. g.actions.keys = keys /\ g.actions.threshold = actionApprovalThreshold(t.effects)
    BY Zenon DEF RuntimeGrant, admittedActionAuthorities
  <1> HIDE DEF g, keys, t
  <1>4. t.effects.mode # "none" /\ ActionKeysCover(t, i.connectors)
    BY <1>1, AuthorizedEffects, Zenon
  <1>5. actionApprovalThreshold(t.effects) >= 1
    BY <1>1, <1>2, <1>4, Thresholds, Zenon
  <1>6. ASSUME NEW c \in i.connectors
        PROVE  /\ Cardinality(ApproverKeys(g, c)) >= actionApprovalThreshold(t.effects)
               /\ ApproverKeys(g, c) \subseteq Publics(t.effects.keys)
    <2>1. ApproverKeys(g, c) = {keys[k].public : k \in {k \in DOMAIN keys : c \in keys[k].connectors}}
      BY <1>3, Zenon DEF ApproverKeys
    <2> DEFINE selected == i.connectors
               A(m) == {m[k].public : k \in {k \in DOMAIN m : c \in m[k].connectors}}
    <2> HIDE DEF i
    <2>2. c \in selected /\ ActionKeysCover(t, selected)
      BY <1>4, Zenon
    <2> HIDE DEF selected
    <2>3. /\ Cardinality(A(authorizedActionKeys(t, selected))) >= actionApprovalThreshold(t.effects)
          /\ A(authorizedActionKeys(t, selected)) \subseteq Publics(t.effects.keys)
      BY <2>2, <1>1, <1>2, EnoughPublics, SMTT(20)
    <2>4. ApproverKeys(g, c) = A(authorizedActionKeys(t, selected))
      BY <2>1, Zenon DEF keys, selected
    <2> QED  BY <2>3, <2>4, Zenon
  <1>7. ASSUME NEW u \in DOMAIN p.tenants, u # i.tenant
        PROVE  Publics(t.effects.keys) \cap Publics(p.tenants[u].effects.keys) = {}
    BY <1>1, <1>7, Zenon DEF SitePolicyValid, t
  <1> QED  BY <1>3, <1>5, <1>6, <1>7, Zenon

(* For any signed documents and any rotation of site policies, an admitted *)
(* workload stays inside the ceilings of its capsule, publisher and        *)
(* tenant, its actions can be approved by enough distinct keys of its own  *)
(* tenant and no others (Validate, Intersect), and a delegated command     *)
(* stays inside what its delegator may do (VerifyDelegatedCommand).        *)
THEOREM AdmissionAmplifiesNothing == AdSpec => []NoAmplification
  <1>1. ASSUME AdInv
        PROVE  NoAmplification
    <2>1. ASSUME NEW k \in DOMAIN admissions
          PROVE  LET a == admissions[k]
                     c == Capsules[a.capsule]
                     p == SitePolicies[a.policy] IN
                 /\ \A d \in DOMAIN a.intent.resources :
                       /\ a.intent.resources[d] <= c.resources[d]
                       /\ a.intent.resources[d] <= p.publishers[c.publisher].ceiling[d]
                       /\ a.intent.resources[d] <= p.tenants[a.intent.tenant].ceiling[d]
                 /\ ~p.publishers[c.publisher].revoked
                 /\ p.tenants[a.intent.tenant].effects.mode = "required" => a.intent.egress = {}
                 /\ ApprovalsReachable(a)
      <3> DEFINE a == admissions[k]
                 t == SitePolicies[a.policy].tenants[a.intent.tenant]
      <3>1. Verified(a) /\ a \in Admitted
        BY <1>1, AdmissionElements, Zenon DEF AdInv, Committed
      <3> HIDE DEF a
      <3>2. ApprovalsReachable(a)
        BY <3>1, VerifiedReachable, Zenon DEF Admitted
      <3>3. validateEffectMode(a.intent, t) /\ EffectsValid(t)
        BY <3>1, VerifiedFacts, Zenon DEF validateRequestedCapabilities
      <3>4. t.effects.mode = "required" => a.intent.egress = {}
        BY <3>3, AuthorizedEffects, Zenon DEF validateEffectMode
      <3> DEFINE c == Capsules[a.capsule]
                 p == SitePolicies[a.policy]
      <3>5. /\ ~p.publishers[c.publisher].revoked
            /\ resourcesWithin(a.intent.resources, c.resources)
            /\ resourcesWithin(a.intent.resources, p.publishers[c.publisher].ceiling)
            /\ resourcesWithin(a.intent.resources, t.ceiling)
        BY <3>1, VerifiedFacts, Zenon
      <3>6. \A d \in DOMAIN a.intent.resources :
               /\ a.intent.resources[d] <= c.resources[d]
               /\ a.intent.resources[d] <= p.publishers[c.publisher].ceiling[d]
               /\ a.intent.resources[d] <= t.ceiling[d]
        BY <3>5, Zenon DEF resourcesWithin
      <3> QED  BY <3>2, <3>4, <3>5, <3>6, Zenon DEF a
    <2> QED  BY <1>1, <2>1, Zenon DEF NoAmplification, AdInv
  <1> QED  BY <1>1, AdInductive, PTL


-----------------------------------------------------------------------------
(* The answer to a verified admission without authorized effects, without  *)
(* controller events and with a task key for its service.                  *)
LEMMA PlainAccepted ==
    ASSUME NEW a, Verified(a), a.intent.mode # "authorized",
           "controller_events" \notin a.intent.capabilities,
           "service" \in a.intent.capabilities =>
               TrustedTaskKeys(SitePolicies[a.policy].tenants[a.intent.tenant], a.intent.service) # {}
    PROVE  callAdmissionV4(a.intent, secureResponse(Granted(a)))
  <1> DEFINE i == a.intent
             t == SitePolicies[a.policy].tenants[i.tenant]
             tasks == admittedTaskAuthorities(t, i)
             g == Granted(a)
             h == secureResponse(g)
             need == i.capabilities \cap runtimeCapabilities # {}
             service == IF tasks # {} THEN i.service ELSE ""
  <1>1. validateRequestedCapabilities(i, Capsules[a.capsule], t)
    BY VerifiedFacts, Zenon
  <1>2. /\ "egress" \notin i.capabilities => i.egress = {}
        /\ "connector" \notin i.capabilities => i.connectors = {}
        /\ "egress" \in i.capabilities => i.egress # {}
        /\ "connector" \in i.capabilities => i.connectors # {}
        /\ "service" \in i.capabilities => i.service # ""
    BY <1>1, Zenon DEF validateRequestedCapabilities
  <1>3. /\ tasks # {} <=> "service" \in i.capabilities
        /\ "service" \notin i.capabilities => tasks = {}
    BY Zenon DEF admittedTaskAuthorities
  <1>4. g = [needed |-> need, mode |-> i.mode, tasks |-> tasks, service |-> service, actions |-> NoActions]
    BY Zenon DEF Granted, RuntimeGrant, admittedActionAuthorities
  <1>5. need <=> dispatchNeedsGrant(i)
    BY Zenon DEF runtimeCapabilities, dispatchNeedsGrant
  <1>6. /\ h.needed = need /\ h.actions = NoActions
        /\ h.mode = IF need THEN i.mode ELSE ""
        /\ h.tasks = IF need THEN tasks ELSE {}
        /\ h.service = IF need THEN service ELSE ""
    <2> HIDE DEF need, tasks, service, g
    <2>1. g.needed = need /\ g.mode = i.mode /\ g.tasks = tasks /\ g.service = service /\ g.actions = NoActions
      BY <1>4, Zenon
    <2>2. CASE need
      BY <2>1, <2>2, Zenon DEF secureResponse
    <2>3. CASE ~need
      <3>1. h = [g EXCEPT !.mode = "", !.tasks = {}, !.service = "", !.actions = NoActions]
        BY <2>1, <2>3, Zenon DEF secureResponse
      <3> QED  BY <3>1, <1>4, <2>1, <2>3, Zenon
    <2> QED  BY <2>2, <2>3, Zenon
  <1>7. UnknownFields(h) <=> FALSE
    <2>1. NoActions.threshold = 0
      BY Zenon DEF NoActions
    <2> QED  BY <2>1, <1>6, Zenon DEF UnknownFields
  <1>8. ~need => /\ "egress" \notin i.capabilities /\ "connector" \notin i.capabilities
                 /\ "service" \notin i.capabilities /\ "inference" \notin i.capabilities
    BY Zenon DEF runtimeCapabilities
  <1> HIDE DEF need, tasks, service, h, g, i, t
  <1>9. ~need => i.egress = {} /\ i.connectors = {} /\ tasks = {}
    BY <1>2, <1>3, <1>8, Zenon
  <1>10. h.tasks = tasks
    BY <1>6, <1>9, Zenon
  <1>11. (h.service = "") = (h.tasks = {})
    <2>1. CASE tasks = {}
      BY <2>1, <1>6, <1>10, Zenon DEF service
    <2>2. CASE tasks # {}
      <3>1. need /\ i.service # ""
        BY <2>2, <1>2, <1>3, <1>9, Zenon
      <3>2. h.service # ""
        BY <2>2, <3>1, <1>6, Zenon DEF service
      <3> QED  BY <2>2, <3>2, <1>10, Zenon
    <2> QED  BY <2>1, <2>2, Zenon
  <1>12. runtimeNeedsGatewayPolicy(i, h) =
            (\/ "inference" \in i.capabilities \/ h.tasks # {} \/ i.egress # {} \/ i.connectors # {}
             \/ need /\ i.mode # "")
    <2>0. i.capabilities \cap {"inference", "controller_events"} # {} <=> "inference" \in i.capabilities
      BY Zenon DEF i
    <2>1. CASE need
      <3>1. h.needed /\ h.mode = i.mode
        BY <2>1, <1>6, Zenon
      <3> QED  BY <3>1, <2>0, <2>1, Zenon DEF runtimeNeedsGatewayPolicy
    <2>2. CASE ~need
      <3>1. ~h.needed /\ h.tasks = {}
        BY <2>2, <1>6, <1>9, <1>10, Zenon
      <3> QED  BY <3>1, <2>2, <1>8, <1>9, Zenon DEF runtimeNeedsGatewayPolicy
    <2> QED  BY <2>1, <2>2, Zenon
  <1>13. ProjectionValid(i, h)
    <2>1. "controller_events" \notin i.capabilities
      BY Zenon DEF i
    <2>2. ~h.needed => i.egress = {} /\ i.connectors = {} /\ h.tasks = {}
      BY <1>6, <1>9, <1>10, Zenon
    <2>3. h.tasks # {} \/ i.egress # {} \/ i.connectors # {} => runtimeNeedsGatewayPolicy(i, h)
      BY <1>12, Zenon
    <2> QED  BY <1>11, <2>1, <2>2, <2>3, Zenon DEF ProjectionValid
  <1>14. correlateAdmissionProjection(i, h)
    <2>1. h.needed = dispatchNeedsGrant(i)
      BY <1>5, <1>6, Zenon DEF need, dispatchNeedsGrant
    <2>2. "service" \in i.capabilities => h.service = i.service
      BY <1>3, <1>6, <1>8, Zenon DEF service
    <2> QED  BY <1>5, <1>12, <2>1, <2>2, Zenon DEF correlateAdmissionProjection
  <1>15. h.mode = IF dispatchNeedsGrant(i) THEN i.mode ELSE ""
    BY <1>5, <1>6, Zenon
  <1>16. callAdmissionV4(i, h)
    BY <1>7, <1>13, <1>14, <1>15, Zenon DEF callAdmissionV4
  <1> QED  BY <1>16, Zenon DEF i, h, g

(* For any signed documents, a committed admission without authorized      *)
(* effects and controller events, whose service has a task key, is         *)
(* accepted by the dispatcher that called for it (dispatch.go              *)
(* callAdmissionV4), so that Control hears of it as done.                  *)
THEOREM PlainAdmissionsAnswered == AdSpec => []PlainAnswered
  <1>1. ASSUME AdInv
        PROVE  PlainAnswered
    <2> SUFFICES ASSUME NEW k \in DOMAIN admissions,
                        admissions[k].intent.mode # "authorized",
                        "controller_events" \notin admissions[k].intent.capabilities,
                        "service" \in admissions[k].intent.capabilities =>
                            TrustedTaskKeys(SitePolicies[admissions[k].policy].tenants[admissions[k].intent.tenant],
                                            admissions[k].intent.service) # {}
                 PROVE  admissions[k].answered
      BY Zenon DEF PlainAnswered
    <2>1. Committed(admissions[k])
      BY <1>1, Zenon DEF AdInv
    <2> QED  BY <2>1, PlainAccepted, Zenon DEF Committed
  <1> QED  BY <1>1, AdInductive, PTL


-----------------------------------------------------------------------------
(* Gateway's configuration of connector c names the action keys that the   *)
(* tenant's policy has for it.                                             *)
Configured(tenant, t, c) ==
    /\ c \in DOMAIN ConnectorAuthorities
    /\ DOMAIN ConnectorAuthorities[c] = Approvers(t.effects, c)
    /\ \A k \in Approvers(t.effects, c) :
          /\ ConnectorAuthorities[c][k].tenant = tenant
          /\ ConnectorAuthorities[c][k].public = t.effects.keys[k].public

(* The two checks of one grant agree: when Gateway is configured with the  *)
(* keys of the site policy, validAuthorizedEffectsGrant accepts the action *)
(* authorities of every admission Executor has verified.                   *)
THEOREM GatewayAcceptsVerified ==
    ASSUME NEW a, Verified(a), a.policy \in DOMAIN SitePolicies, a.intent.mode = "authorized",
           \A c \in a.intent.connectors :
               Configured(a.intent.tenant, SitePolicies[a.policy].tenants[a.intent.tenant], c)
    PROVE  validAuthorizedEffectsGrant(a.intent, Granted(a).actions)
  <1> DEFINE i == a.intent
             t == SitePolicies[a.policy].tenants[i.tenant]
             all == t.effects.keys
             selected == i.connectors
             keys == authorizedActionKeys(t, selected)
             actions == Granted(a).actions
             threshold == actionApprovalThreshold(t.effects)
  <1>1. i.tenant \in DOMAIN SitePolicies[a.policy].tenants /\ validateEffectMode(i, t) /\ EffectsValid(t)
    BY VerifiedFacts, Zenon DEF validateRequestedCapabilities
  <1>2. IsFiniteSet(DOMAIN all) /\ t.effects.min \in Int
    BY <1>1, SignedDocuments, Zenon
  <1>3. actions.keys = keys /\ actions.threshold = threshold
    BY Zenon DEF Granted, RuntimeGrant, admittedActionAuthorities
  <1>4. \A c \in selected : Configured(i.tenant, t, c)
    OBVIOUS
  <1> HIDE DEF t, actions
  <1>5. t.effects.mode # "none" /\ ActionKeysCover(t, selected)
    BY <1>1, AuthorizedEffects, Zenon
  <1>6. selected # {}
    BY <1>1, <1>5, Zenon DEF validateEffectMode
  <1> HIDE DEF i, selected
  <1>7. threshold >= 1 /\ EnoughApprovers(t.effects)
        /\ \A k, l \in DOMAIN all : all[k].public = all[l].public => k = l
    BY <1>1, <1>2, <1>5, Thresholds, Zenon DEF EffectsValid
  <1>8. /\ DOMAIN keys = {k \in DOMAIN all : all[k].connectors \cap selected # {}}
        /\ \A k \in DOMAIN keys : keys[k].public = all[k].public /\ keys[k].connectors = all[k].connectors \cap selected
    BY Zenon DEF authorizedActionKeys
  <1> HIDE DEF keys, all, threshold
  <1>9. \A c \in selected : /\ Approvers(t.effects, c) # {}
                            /\ Approvers(t.effects, c) = {k \in DOMAIN keys : c \in keys[k].connectors}
    BY <1>5, <1>8, Zenon DEF ActionKeysCover, Approvers, all
  <1>10. \A c \in selected : Cardinality(Approvers(t.effects, c)) >= threshold
    <2> SUFFICES ASSUME NEW c \in selected
                 PROVE  Cardinality(Approvers(t.effects, c)) >= threshold
      OBVIOUS
    <2>1. PICK k \in Approvers(t.effects, c) : TRUE
      BY <1>9, Zenon
    <2>2. k \in DOMAIN t.effects.keys /\ c \in t.effects.keys[k].connectors
      BY <2>1, Zenon DEF Approvers
    <2> QED  BY <1>7, <2>2, Zenon DEF EnoughApprovers, threshold
  <1>11. threshold <= Cardinality(DOMAIN keys)
    <2>1. PICK c \in selected : TRUE
      BY <1>6, Zenon
    <2>2. Approvers(t.effects, c) \subseteq DOMAIN keys
      BY <1>9, Zenon
    <2>3. IsFiniteSet(DOMAIN keys)
      BY <1>2, <1>8, FS_Subset, Zenon
    <2>4. /\ Cardinality(Approvers(t.effects, c)) <= Cardinality(DOMAIN keys)
          /\ Cardinality(Approvers(t.effects, c)) \in Nat /\ Cardinality(DOMAIN keys) \in Nat
      BY <2>2, <2>3, FS_Subset, FS_CardinalityType, Zenon
    <2>5. threshold \in Int
      BY <1>2 DEF threshold, actionApprovalThreshold
    <2> QED  BY <2>4, <2>5, <1>10
  <1>12. validGrantActionAuthorities(keys, selected)
    <2>1. DOMAIN keys # {}
      BY <1>6, <1>9, Zenon
    <2>2. \A k \in DOMAIN keys : keys[k].connectors # {} /\ keys[k].connectors \subseteq selected
      BY <1>8, Zenon
    <2>3. \A k, l \in DOMAIN keys : keys[k].public = keys[l].public => k = l
      BY <1>7, <1>8, Zenon
    <2>4. \A c \in selected : \E k \in DOMAIN keys : c \in keys[k].connectors
      BY <1>9, Zenon
    <2> QED  BY <2>1, <2>2, <2>3, <2>4 DEF validGrantActionAuthorities
  <1>13. selected \subseteq DOMAIN ConnectorAuthorities
         /\ \A c \in selected : DOMAIN ConnectorAuthorities[c] = Approvers(t.effects, c)
    BY <1>4, Zenon DEF Configured
  <1>14. \A c \in selected : /\ DOMAIN ConnectorAuthorities[c] # {}
                             /\ \A k \in DOMAIN ConnectorAuthorities[c] : ConnectorAuthorities[c][k].tenant = i.tenant
    <2> SUFFICES ASSUME NEW c \in selected
                 PROVE  /\ DOMAIN ConnectorAuthorities[c] # {}
                        /\ \A k \in DOMAIN ConnectorAuthorities[c] : ConnectorAuthorities[c][k].tenant = i.tenant
      OBVIOUS
    <2>1. DOMAIN ConnectorAuthorities[c] = Approvers(t.effects, c) /\ Approvers(t.effects, c) # {}
      BY <1>9, <1>13, Zenon
    <2>2. \A k \in Approvers(t.effects, c) : ConnectorAuthorities[c][k].tenant = i.tenant
      BY <1>4, Zenon DEF Configured
    <2> QED  BY <2>1, <2>2, Zenon
  <1>15. DOMAIN keys = UNION {DOMAIN ConnectorAuthorities[c] : c \in selected}
    <2>1. \A k \in DOMAIN keys : \E c \in selected : k \in Approvers(t.effects, c)
      BY <1>8, <1>9, Zenon
    <2>2. \A c \in selected : DOMAIN ConnectorAuthorities[c] \subseteq DOMAIN keys
      BY <1>9, <1>13, Zenon
    <2>3. \A k \in DOMAIN keys : \E c \in selected : k \in DOMAIN ConnectorAuthorities[c]
      BY <2>1, <1>13, Zenon
    <2> QED  BY <2>2, <2>3, Zenon
  <1>16. \A k \in DOMAIN keys :
            /\ keys[k].connectors = {c \in selected : k \in DOMAIN ConnectorAuthorities[c]}
            /\ \A c \in keys[k].connectors : ConnectorAuthorities[c][k].public = keys[k].public
    <2> SUFFICES ASSUME NEW k \in DOMAIN keys
                 PROVE  /\ keys[k].connectors = {c \in selected : k \in DOMAIN ConnectorAuthorities[c]}
                        /\ \A c \in keys[k].connectors : ConnectorAuthorities[c][k].public = keys[k].public
      OBVIOUS
    <2>1. keys[k].connectors \subseteq selected
      BY <1>8, Zenon
    <2>2. \A c \in selected : c \in keys[k].connectors <=> k \in DOMAIN ConnectorAuthorities[c]
      BY <1>9, <1>13, Zenon
    <2>3. \A c \in keys[k].connectors : ConnectorAuthorities[c][k].public = keys[k].public
      <3> SUFFICES ASSUME NEW c \in keys[k].connectors
                   PROVE  ConnectorAuthorities[c][k].public = keys[k].public
        OBVIOUS
      <3>1. c \in selected /\ k \in Approvers(t.effects, c)
        BY <2>1, <1>9, Zenon
      <3>2. ConnectorAuthorities[c][k].public = t.effects.keys[k].public
        BY <3>1, <1>4, Zenon DEF Configured
      <3> QED  BY <3>2, <1>8, Zenon DEF all
    <2> QED  BY <2>1, <2>2, <2>3, Zenon
  <1>17. \A c \in selected : Cardinality({k \in DOMAIN keys : c \in keys[k].connectors}) >= threshold
    BY <1>9, <1>10, Zenon
  <1> QED  BY <1>3, <1>7, <1>11, <1>12, <1>13, <1>14, <1>15, <1>16, <1>17
           DEF validAuthorizedEffectsGrant, i, selected, actions

=============================================================================
