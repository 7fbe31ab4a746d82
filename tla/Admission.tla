------------------------------ MODULE Admission ------------------------------
(* Signed admission on one node.  A site policy signed by the site root bounds what
   publishers and tenants may do; a publisher signs capsules; a tenant signs commands,
   or a delegation under which a controller key signs them; an administrator of the
   host may ask directly where the node allows it.  Executor verifies each of them
   against the policy it loaded at startup, admits what lies in the intersection, and
   fences policy epochs and generations in a file.

   Keyed lists of the signed documents are functions (their validation refuses a
   duplicate key), other lists are sets.  An envelope names the key that signed it;
   it verifies when that key is among the keys offered. *)
EXTENDS Integers, Sequences, FiniteSets

CONSTANTS
    SitePolicies,        \* by digest: the policies signed by the site root
    Capsules,            \* by digest: the capsule envelopes
    Delegations,         \* by digest: the delegation envelopes
    SignedCommands,      \* by digest: the command envelopes
    HostRequests,        \* what an administrator of the host asks to admit
    Registry,            \* the built-in profiles
    ThisNode,
    ConnectorAuthorities, \* Gateway's: by connector and key, public key and tenant
    Scheduling,          \* isolation, assurance, labels and taints of this node
    HostAdmin,           \* AllowHostAdminIntent
    CommandLifetime, DelegationLifetime, ForkLifetime, LeaseDuration, ClockSkew,
    MaxClock,            \* bound: the clock
    MaxRestarts,         \* bound: restarts, each with any policy
    MaxWaiting           \* bound: admissions verified at the same time

VARIABLES
    enforced,      \* digest of the policy the process loaded, "" when it is down
    fenceEpoch,    \* FenceStore.policyEpoch
    fenceRecords,  \* FenceStore.byInstance
    waiting,       \* admissions verified, before provisionMu
    now,           \* the node's clock
    restarts,
    admissions,    \* history: the admissions committed, in order
    lastAct        \* history: the last command executed, under which policy and when

adVars == <<enforced, fenceEpoch, fenceRecords, waiting, now, restarts, admissions, lastAct>>

commandOperations ==
    {"admit", "renew", "start", "stop", "destroy", "read", "purge", "snapshot-state",
     "clone-state", "delete-snapshot", "activation-canary"}
cleanupCommandOperations == {"stop", "destroy", "purge", "delete-snapshot"}

(* The workloads some envelope names.                                          *)
Workloads ==
    {<<SignedCommands[c].tenant, SignedCommands[c].instance>> : c \in DOMAIN SignedCommands}
        \cup {<<r.intent.tenant, r.intent.instance>> : r \in HostRequests}

Intents == {SignedCommands[n].intent : n \in DOMAIN SignedCommands} \cup {r.intent : r \in HostRequests}

(* Epochs and generations are unsigned, key lists are finite, digests not empty. *)
ASSUME SignedDocuments ==
    /\ "" \notin DOMAIN SitePolicies /\ "" \notin DOMAIN SignedCommands
    /\ \A n \in DOMAIN SitePolicies :
          /\ SitePolicies[n].epoch \in Nat
          /\ \A t \in DOMAIN SitePolicies[n].tenants :
                /\ IsFiniteSet(DOMAIN SitePolicies[n].tenants[t].effects.keys)
                /\ SitePolicies[n].tenants[t].effects.min \in Int
    /\ \A i \in Intents : i.generation \in Nat
    /\ \A n \in DOMAIN SignedCommands : SignedCommands[n].generation \in Nat /\ SignedCommands[n].lease \in Int

-------------------------------------------------------------------------------
(* The site policy.                                                            *)

ResourcesValid(r) == \A d \in DOMAIN r : r[d] > 0
resourcesWithin(r, ceiling) == \A d \in DOMAIN r : r[d] <= ceiling[d]

actionApprovalThreshold(effects) == IF effects.min = 0 THEN 1 ELSE effects.min

(* The action keys of a tenant in scope of a connector.                        *)
Approvers(effects, c) == {k \in DOMAIN effects.keys : c \in effects.keys[k].connectors}

(* Every connector some key may approve has as many approvers as an action needs. *)
EnoughApprovers(effects) ==
    \A k \in DOMAIN effects.keys : \A c \in effects.keys[k].connectors :
        Cardinality(Approvers(effects, c)) >= actionApprovalThreshold(effects)

EffectsValid(t) ==
    t.effects.mode # "none" =>
        LET keys == t.effects.keys IN
        /\ t.effects.mode \in {"optional", "required"}
        /\ DOMAIN keys # {}
        /\ actionApprovalThreshold(t.effects) \in 1..Cardinality(DOMAIN keys)
        /\ \A k, l \in DOMAIN keys : keys[k].public = keys[l].public => k = l
        /\ \A k \in DOMAIN keys : keys[k].connectors # {} /\ keys[k].connectors \subseteq t.connectors
        /\ EnoughApprovers(t.effects)

PublisherValid(r) ==
    /\ ResourcesValid(r.ceiling)
    /\ r.profiles # {} /\ r.repositories # {}
    /\ r.artifacts # {} => r.manifests # {}

TenantValid(p, t) ==
    /\ t.publishers # {} /\ t.publishers \subseteq DOMAIN p.publishers
    /\ ResourcesValid(t.ceiling)
    /\ (t.routes = {}) = (t.aliases = {})
    /\ EffectsValid(t)
    /\ DOMAIN t.commandKeys \cap DOMAIN p.cleanupKeys = {}
    /\ \A k \in DOMAIN t.commandKeys : t.commandKeys[k] # {} /\ t.commandKeys[k] \subseteq commandOperations
    /\ \A k, l \in DOMAIN t.taskKeys : t.taskKeys[k].public = t.taskKeys[l].public => k = l
    /\ \A k \in DOMAIN t.taskKeys : t.taskKeys[k].services # {} /\ t.taskKeys[k].services \subseteq t.services

Publics(keys) == {keys[k].public : k \in DOMAIN keys}

(* SitePolicy.Validate: a policy without tenants needs a cleanup key, and no key
   approves actions or signs tasks for two tenants. *)
SitePolicyValid(p) ==
    /\ p.epoch > 0
    /\ DOMAIN p.publishers # {} /\ \A k \in DOMAIN p.publishers : PublisherValid(p.publishers[k])
    /\ \A k \in DOMAIN p.cleanupKeys : p.cleanupKeys[k] # {} /\ p.cleanupKeys[k] \subseteq cleanupCommandOperations
    /\ DOMAIN p.tenants = {} => DOMAIN p.cleanupKeys # {}
    /\ \A t \in DOMAIN p.tenants : TenantValid(p, p.tenants[t])
    /\ \A s, t \in DOMAIN p.tenants :
          s # t => /\ Publics(p.tenants[s].effects.keys) \cap Publics(p.tenants[t].effects.keys) = {}
                   /\ Publics(p.tenants[s].taskKeys) \cap Publics(p.tenants[t].taskKeys) = {}

-------------------------------------------------------------------------------
(* Capsules and admission.                                                     *)

CapsuleValid(c, t) ==
    /\ ResourcesValid(c.resources)
    /\ ("service" \in c.capabilities) = (c.service # "")
    /\ c.expires # 0 /\ t # 0 => c.expires > t

ValidateProfileContract(c) ==
    /\ c.profile \in DOMAIN Registry
    /\ c.state = Registry[c.profile].state
    /\ Registry[c.profile].command # "" => c.command = Registry[c.profile].command
    /\ Registry[c.profile].service # "" => c.service = Registry[c.profile].service

(* What both verifications ask of the publisher of a capsule.                  *)
PublisherAllows(p, c, k) ==
    /\ k \in DOMAIN p.publishers
    /\ ~p.publishers[k].revoked
    /\ c.profile \in p.publishers[k].profiles
    /\ c.repository \in p.publishers[k].repositories
    /\ p.publishers[k].manifests # {} => c.manifest \in p.publishers[k].manifests
    /\ c.artifacts \subseteq p.publishers[k].artifacts
    /\ c.profile \in DOMAIN Registry

VerifyCapsuleForImport(c, p, t) ==
    /\ SitePolicyValid(p)
    /\ c.signer \in DOMAIN p.publishers
    /\ CapsuleValid(c, t)
    /\ c.publisher = c.signer
    /\ PublisherAllows(p, c, c.signer)
    /\ ValidateProfileContract(c)

(* authorizedActionKeys: scopes narrowed to the selected connectors, each of which
   must be covered; NoKeys when the request is refused. *)
authorizedActionKeys(t, selected) ==
    [k \in {k \in DOMAIN t.effects.keys : t.effects.keys[k].connectors \cap selected # {}} |->
        [public |-> t.effects.keys[k].public, connectors |-> t.effects.keys[k].connectors \cap selected]]
ActionKeysCover(t, selected) ==
    /\ t.effects.mode # "none"
    /\ selected \subseteq t.connectors
    /\ \A c \in selected : Approvers(t.effects, c) # {}

validateEffectMode(i, t) ==
    /\ t.effects.mode = "none" => i.mode = ""
    /\ t.effects.mode = "optional" => i.mode \in {"standard", "authorized"}
    /\ t.effects.mode = "required" => i.mode = "authorized"
    /\ t.effects.mode # "none" /\ i.mode = "authorized" =>
          /\ "connector" \in i.capabilities /\ i.connectors # {}
          /\ "egress" \notin i.capabilities /\ i.egress = {}
          /\ ActionKeysCover(t, i.connectors)

validateRequestedCapabilities(i, c, t) ==
    /\ IF "state" \in i.capabilities THEN i.state \in {"new", "resume"} ELSE i.state = "none"
    /\ IF "inference" \in i.capabilities
       THEN i.route \in t.routes /\ i.alias \in t.aliases
       ELSE i.route = "" /\ i.alias = ""
    /\ IF "service" \in i.capabilities
       THEN i.service # "" /\ i.service = c.service /\ i.service \in t.services
       ELSE i.service = ""
    /\ IF "egress" \in i.capabilities THEN i.egress # {} /\ i.egress \subseteq t.egress ELSE i.egress = {}
    /\ IF "connector" \in i.capabilities
       THEN i.connectors # {} /\ i.connectors \subseteq t.connectors
       ELSE i.connectors = {}
    /\ validateEffectMode(i, t)

IntentValid(i, caller) ==
    /\ i.generation > 0
    /\ caller = <<i.tenant, i.node>>
    /\ ResourcesValid(i.resources)

(* Intersect: capsule n of publisher k under policy p, for a caller and the fences
   read before. *)
Intersect(n, p, k, i, caller, epoch, generation) ==
    LET c == Capsules[n] IN
    /\ CapsuleValid(c, 0) /\ SitePolicyValid(p) /\ IntentValid(i, caller)
    /\ i.capsule = n
    /\ p.epoch >= epoch
    /\ i.generation >= generation
    /\ PublisherAllows(p, c, k)
    /\ i.tenant \in DOMAIN p.tenants
    /\ k \in p.tenants[i.tenant].publishers
    /\ c.artifacts \subseteq p.tenants[i.tenant].artifacts
    /\ c.state = Registry[c.profile].state
    /\ i.capabilities \subseteq c.capabilities
    /\ resourcesWithin(i.resources, c.resources)
    /\ resourcesWithin(i.resources, p.publishers[k].ceiling)
    /\ resourcesWithin(i.resources, p.tenants[i.tenant].ceiling)
    /\ validateRequestedCapabilities(i, c, p.tenants[i.tenant])

VerifyAndAdmit(n, p, i, caller, epoch, generation, t) ==
    /\ n \in DOMAIN Capsules
    /\ VerifyCapsuleForImport(Capsules[n], p, t)
    /\ Intersect(n, p, Capsules[n].signer, i, caller, epoch, generation)

TrustedTaskKeys(t, service) == {k \in DOMAIN t.taskKeys : service \in t.taskKeys[k].services}
admittedTaskAuthorities(t, i) == IF "service" \in i.capabilities THEN TrustedTaskKeys(t, i.service) ELSE {}

NoActions == [keys |-> <<>>, threshold |-> 0, context |-> FALSE]

(* The action authorities and the number of them an approval needs.             *)
admittedActionAuthorities(t, i) ==
    IF i.mode = "authorized"
    THEN [keys |-> authorizedActionKeys(t, i.connectors), threshold |-> actionApprovalThreshold(t.effects),
          context |-> t.effects.context]
    ELSE NoActions

-------------------------------------------------------------------------------
(* Commands and delegations.                                                   *)

TrustedCommandKeys(p, tenant, op) ==
    (IF tenant \in DOMAIN p.tenants
     THEN {k \in DOMAIN p.tenants[tenant].commandKeys : op \in p.tenants[tenant].commandKeys[k]}
     ELSE {})
    \cup (IF op \in cleanupCommandOperations THEN {k \in DOMAIN p.cleanupKeys : op \in p.cleanupKeys[k]} ELSE {})

LeaseValid(expires, t) == expires > t /\ expires <= t + LeaseDuration + ClockSkew

CommandValid(c, t) ==
    /\ c.kind \in commandOperations
    /\ c.delegation # "" => c.context # ""
    /\ c.claim > 0 /\ c.generation > 0
    /\ c.issued < c.expires /\ c.expires - c.issued <= CommandLifetime
    /\ c.issued <= t + ClockSkew /\ t < c.expires
    /\ c.kind = "renew" =>
          /\ LeaseValid(c.lease, t)
          /\ c.issued < c.lease /\ c.lease <= c.issued + LeaseDuration /\ c.lease <= c.expires

(* validDelegatedCapabilityFields.                                              *)
TemplateValid(m) ==
    /\ ResourcesValid(m.resources)
    /\ IF "state" \in m.capabilities THEN m.state \in {"new", "resume"} ELSE m.state = "none"
    /\ "inference" \notin m.capabilities => m.route = "" /\ m.alias = ""
    /\ ("service" \in m.capabilities) = (m.service # "")
    /\ ("egress" \in m.capabilities) = (m.egress # {})
    /\ ("connector" \in m.capabilities) = (m.connectors # {})
    /\ m.mode \in {"", "standard", "authorized"}
    /\ m.mode = "authorized" => "connector" \in m.capabilities /\ "egress" \notin m.capabilities

(* A fork of one instance on one node, which resumes state, may live longer.   *)
delegationLifetime(d) ==
    IF /\ Cardinality(d.nodes) = 1 /\ Cardinality(DOMAIN d.instances) = 1
       /\ "admit" \in d.operations /\ d.template.state = "resume"
       /\ {"clone-state", "purge"} \subseteq d.operations
    THEN ForkLifetime ELSE DelegationLifetime

DelegationValid(d, t) ==
    /\ d.operations # {} /\ d.operations \subseteq commandOperations
    /\ d.nodes # {} /\ DOMAIN d.instances # {}
    /\ \A i \in DOMAIN d.instances : d.instances[i].min > 0 /\ d.instances[i].min <= d.instances[i].max
    /\ \A i, j \in DOMAIN d.instances : d.instances[i].lineage = d.instances[j].lineage => i = j
    /\ d.claim > 0
    /\ ("admit" \in d.operations) = (d.template.capsule # "")
    /\ d.template.capsule # "" => TemplateValid(d.template)
    /\ d.issued < d.expires /\ d.expires - d.issued <= delegationLifetime(d)
    /\ d.issued <= t + ClockSkew /\ t < d.expires

(* Fault: a key that may sign one of the operations may delegate all of them.  *)
FaultyDelegationSignerKeys(p, tenant, ops) ==
    IF tenant \in DOMAIN p.tenants
    THEN {k \in DOMAIN p.tenants[tenant].commandKeys : ops \cap p.tenants[tenant].commandKeys[k] # {}}
    ELSE {}

(* Keys of the tenant in scope of every operation delegated.                   *)
delegationSignerKeys(p, tenant, ops) ==
    IF tenant \in DOMAIN p.tenants
    THEN {k \in DOMAIN p.tenants[tenant].commandKeys : ops \subseteq p.tenants[tenant].commandKeys[k]}
    ELSE {}

VerifyCommandDelegation(d, p, t) ==
    DelegationValid(d, t) /\ d.signer \in delegationSignerKeys(p, d.tenant, d.operations)

(* The intent of a delegated admission takes every field from the template.    *)
matches(m, i, d, c) ==
    /\ i.tenant = d.tenant /\ i.node = c.node
    /\ i.instance = c.instance /\ i.lineage = d.instances[c.instance].lineage
    /\ i.generation = c.generation
    /\ i.capsule = m.capsule /\ i.resources = m.resources /\ i.capabilities = m.capabilities
    /\ i.state = m.state /\ i.route = m.route /\ i.alias = m.alias /\ i.service = m.service
    /\ i.egress = m.egress /\ i.connectors = m.connectors /\ i.mode = m.mode

Authorize(n, c) ==
    LET d == Delegations[n] IN
    /\ c.context = n /\ c.delegation = n
    /\ c.tenant = d.tenant
    /\ c.node \in d.nodes
    /\ c.kind \in d.operations
    /\ c.instance \in DOMAIN d.instances
    /\ c.claim = d.claim
    /\ d.instances[c.instance].min <= c.generation /\ c.generation <= d.instances[c.instance].max
    /\ d.issued <= c.issued /\ c.expires <= d.expires
    /\ c.kind = "admit" => c.capsule = d.template.capsule /\ matches(d.template, c.intent, d, c)

(* VerifyControllerCommand: Control's check before it stores a command; it cannot
   know which tenant keys the node's policy trusts. *)
VerifyControllerCommand(c, n, t) ==
    /\ DelegationValid(Delegations[n], t)
    /\ c.signer = Delegations[n].controller
    /\ CommandValid(c, t)
    /\ Authorize(n, c)

VerifyDelegatedCommand(c, n, p, t) ==
    /\ VerifyCommandDelegation(Delegations[n], p, t)
    /\ c.signer = Delegations[n].controller
    /\ CommandValid(c, t)
    /\ Authorize(n, c)

executorPlacementMatches(placement) ==
    /\ placement.isolation \in {"", Scheduling.isolation}
    /\ placement.assurance \in {"", Scheduling.assurance}
    /\ placement.labels \subseteq Scheduling.labels
    /\ Scheduling.taints \subseteq placement.tolerations

decodeCommand(c, p, t) ==
    /\ IF c.delegation # ""
       THEN /\ c.delegation \in DOMAIN Delegations
            /\ VerifyDelegatedCommand(c, c.delegation, p, t)
            /\ c.kind = "admit" => executorPlacementMatches(Delegations[c.delegation].template.placement)
       ELSE /\ c.signer \in TrustedCommandKeys(p, c.tenant, c.kind)
            /\ CommandValid(c, t)
    /\ c.node = ThisNode

-------------------------------------------------------------------------------
(* Fences.  The digest of a workload is that of the one intent it was made from. *)

NoFence == [generation |-> 0, capsule |-> "", policy |-> "", lineage |-> "", workload |-> {}, present |-> FALSE, lease |-> 0]
NoAct == [command |-> "", policy |-> "", at |-> 0]

AdInit ==
    /\ enforced = ""
    /\ fenceEpoch = 0
    /\ fenceRecords = [w \in Workloads |-> NoFence]
    /\ waiting = {}
    /\ now = 1
    /\ restarts = 0
    /\ admissions = <<>>
    /\ lastAct = NoAct

adFences == <<fenceEpoch, fenceRecords>>

(* FenceStore.Commit.                                                          *)
CommitFence(w, r, epoch) ==
    LET current == fenceRecords[w] IN
    /\ epoch >= fenceEpoch
    /\ r.generation >= current.generation
    /\ r.generation = current.generation =>
          \A f \in {"capsule", "policy", "lineage", "workload"} : r[f] = current[f]
    /\ fenceEpoch' = epoch
    /\ fenceRecords' = [fenceRecords EXCEPT ![w] =
                           IF r.generation = current.generation THEN [r EXCEPT !.lease = current.lease] ELSE r]

-------------------------------------------------------------------------------
(* The grant of an admitted workload, and the answer to its command.           *)

runtimeCapabilities == {"inference", "service", "egress", "connector", "controller_events"}

(* The runtime grant secureProvision derives; a workload without any of these
   capabilities has none. *)
RuntimeGrant(p, i) ==
    LET t == p.tenants[i.tenant]
        tasks == admittedTaskAuthorities(t, i)
    IN  [needed |-> i.capabilities \cap runtimeCapabilities # {}, mode |-> i.mode, tasks |-> tasks,
         service |-> IF tasks # {} THEN i.service ELSE "", actions |-> admittedActionAuthorities(t, i)]

(* The answer to an admission: without a grant there is nothing to say of it.   *)
secureResponse(g) ==
    IF g.needed THEN g
    ELSE [g EXCEPT !.mode = "", !.tasks = {}, !.service = "", !.actions = NoActions]

runtimeNeedsGatewayPolicy(i, g) ==
    /\ g.needed
    /\ \/ i.capabilities \cap {"inference", "controller_events"} # {}
       \/ i.egress # {} \/ i.connectors # {} \/ g.tasks # {} \/ g.mode # ""

validGrantActionAuthorities(keys, connectors) ==
    /\ DOMAIN keys # {}
    /\ \A k \in DOMAIN keys : keys[k].connectors # {} /\ keys[k].connectors \subseteq connectors
    /\ \A k, l \in DOMAIN keys : keys[k].public = keys[l].public => k = l
    /\ UNION {keys[k].connectors : k \in DOMAIN keys} = connectors

(* Gateway registers a grant with authorized effects only when its own configuration
   of the connectors names the same keys, and enough of them for each. *)
validAuthorizedEffectsGrant(i, actions) ==
    LET keys == actions.keys
        configured(c) == ConnectorAuthorities[c] IN
    /\ actions.threshold >= 1 /\ actions.threshold <= Cardinality(DOMAIN keys)
    /\ validGrantActionAuthorities(keys, i.connectors)
    /\ i.connectors \subseteq DOMAIN ConnectorAuthorities
    /\ \A c \in i.connectors :
          /\ DOMAIN configured(c) # {}
          /\ \A k \in DOMAIN configured(c) : configured(c)[k].tenant = i.tenant
    /\ DOMAIN keys = UNION {DOMAIN configured(c) : c \in i.connectors}
    /\ \A k \in DOMAIN keys :
          /\ keys[k].connectors = {c \in i.connectors : k \in DOMAIN configured(c)}
          /\ \A c \in keys[k].connectors : configured(c)[k].public = keys[k].public
    /\ \A c \in i.connectors :
          Cardinality({k \in DOMAIN keys : c \in keys[k].connectors}) >= actions.threshold

(* ExecutorAdmissionProjectionV1.Validate.                                      *)
ProjectionValid(i, g) ==
    /\ ~g.needed => i.egress = {} /\ i.connectors = {} /\ g.tasks = {}
    /\ (g.service = "") = (g.tasks = {})
    /\ g.tasks # {} \/ i.egress # {} \/ i.connectors # {} \/ "controller_events" \in i.capabilities =>
          runtimeNeedsGatewayPolicy(i, g)

(* Fields of the answer the dispatcher's strict decoder does not know.          *)
UnknownFields(g) == g.actions.threshold # 0

dispatchNeedsGrant(i) == i.capabilities \cap {"inference", "service", "egress", "connector"} # {}

correlateAdmissionProjection(i, g) ==
    /\ g.needed = dispatchNeedsGrant(i)
    /\ "service" \in i.capabilities => g.service = i.service
    /\ runtimeNeedsGatewayPolicy(i, g) =
          (\/ "inference" \in i.capabilities \/ g.tasks # {} \/ i.egress # {} \/ i.connectors # {}
           \/ dispatchNeedsGrant(i) /\ i.mode # "")

(* Whether the dispatcher accepts the answer to a committed admission, which it
   reports to Control; otherwise it reports an error. *)
callAdmissionV4(i, g) ==
    /\ ~UnknownFields(g)
    /\ g.mode = IF dispatchNeedsGrant(i) THEN i.mode ELSE ""
    /\ ProjectionValid(i, g)
    /\ correlateAdmissionProjection(i, g)

-------------------------------------------------------------------------------
(* Steps of the process.                                                       *)

Policy == SitePolicies[enforced]
Of(x) == <<x.tenant, x.instance>>

(* The operator puts any signed policy in place and restarts the process, which
   only serves when the policy is valid. *)
EnableSecureAdmission(n) ==
    /\ restarts < MaxRestarts
    /\ restarts' = restarts + 1
    /\ enforced' = IF SitePolicyValid(SitePolicies[n]) THEN n ELSE ""
    /\ waiting' = {}
    /\ UNCHANGED <<adFences, now, admissions, lastAct>>

TimePasses ==
    /\ now < MaxClock
    /\ now' = now + 1
    /\ UNCHANGED <<enforced, adFences, waiting, restarts, admissions, lastAct>>

(* secureProvision up to provisionMu, for a caller and its generation.         *)
secureProvision(n, i, tenant, generation, command) ==
    /\ enforced # ""
    /\ Cardinality(waiting) < MaxWaiting
    /\ i.node = ThisNode
    /\ generation = i.generation
    /\ VerifyAndAdmit(n, Policy, i, <<tenant, ThisNode>>, fenceEpoch, fenceRecords[Of(i)].generation, now)
    /\ waiting' = waiting \cup {[capsule |-> n, intent |-> i, policy |-> enforced, command |-> command]}

(* Apply a command of kind k that the poller has decoded; its use is recorded.  *)
Applies(n, k) ==
    /\ enforced # ""
    /\ SignedCommands[n].kind = k
    /\ decodeCommand(SignedCommands[n], Policy, now)
    /\ lastAct' = [command |-> n, policy |-> enforced, at |-> now]

AdmitCommand(n) ==
    LET c == SignedCommands[n] IN
    /\ Applies(n, "admit")
    /\ c.intent.tenant = c.tenant /\ c.intent.node = ThisNode
    /\ c.intent.instance = c.instance /\ c.intent.generation = c.generation
    /\ secureProvision(c.capsule, c.intent, c.tenant, c.generation, n)
    /\ UNCHANGED <<enforced, adFences, now, restarts, admissions>>

AdmitHost(r) ==
    /\ HostAdmin
    /\ secureProvision(r.capsule, r.intent, r.intent.tenant, r.intent.generation, "")
    /\ UNCHANGED <<enforced, adFences, now, restarts, admissions, lastAct>>

(* Fault: the fences read before provisionMu decide.                            *)
FaultyConsumed(w, generation) == FALSE

(* generation_consumed: the check under provisionMu.                            *)
Consumed(w, generation) == fenceRecords[w].generation >= generation

(* state_in_use: another live instance of the tenant has the lineage.           *)
StateInUse(i) ==
    /\ "state" \in i.capabilities
    /\ \E v \in Workloads : /\ v[1] = i.tenant /\ v[2] # i.instance
                            /\ fenceRecords[v].present /\ fenceRecords[v].lineage = i.lineage

(* provisionSecureWorkload under provisionMu.  A workload that exists is answered or
   refused without a change: Abandon. *)
provisionSecureWorkload(e) ==
    LET w == Of(e.intent)
        g == RuntimeGrant(Policy, e.intent) IN
    /\ ~fenceRecords[w].present
    /\ ~Consumed(w, e.intent.generation)
    /\ ~StateInUse(e.intent)
    /\ g.needed /\ e.intent.mode = "authorized" => validAuthorizedEffectsGrant(e.intent, g.actions)
    /\ CommitFence(w, [generation |-> e.intent.generation, capsule |-> e.capsule, policy |-> e.policy,
                       lineage |-> e.intent.lineage, workload |-> {e.intent}, present |-> TRUE, lease |-> 0], Policy.epoch)
    /\ admissions' = Append(admissions, [capsule |-> e.capsule, intent |-> e.intent, policy |-> e.policy,
                                         command |-> e.command, answered |-> callAdmissionV4(e.intent, secureResponse(g))])
    /\ waiting' = waiting \ {e}
    /\ UNCHANGED <<enforced, now, restarts, lastAct>>

(* A replay, a refusal or a failure before the commit.                          *)
Abandon(e) ==
    /\ waiting' = waiting \ {e}
    /\ UNCHANGED <<enforced, adFences, now, restarts, admissions, lastAct>>

(* secureLifecycleRecord and principalAuthorizesRecord.                         *)
LifecycleRecord(c) == fenceRecords[Of(c)].present /\ fenceRecords[Of(c)].generation = c.generation

currentPolicyAuthorizesRecord(r) == r.policy = enforced

secureStart(n) ==
    LET c == SignedCommands[n] IN
    /\ Applies(n, "start")
    /\ LifecycleRecord(c)
    /\ currentPolicyAuthorizesRecord(fenceRecords[Of(c)])
    /\ fenceRecords[Of(c)].lease # 0 => fenceRecords[Of(c)].lease > now
    /\ UNCHANGED <<enforced, adFences, waiting, now, restarts, admissions>>

secureStop(n) ==
    /\ Applies(n, "stop")
    /\ LifecycleRecord(SignedCommands[n])
    /\ UNCHANGED <<enforced, adFences, waiting, now, restarts, admissions>>

secureDestroy(n) ==
    LET w == Of(SignedCommands[n]) IN
    /\ Applies(n, "destroy")
    /\ LifecycleRecord(SignedCommands[n])
    /\ CommitFence(w, [fenceRecords[w] EXCEPT !.present = FALSE], fenceEpoch)
    /\ UNCHANGED <<enforced, waiting, now, restarts, admissions>>

(* FenceStore.RenewLease.                                                       *)
RenewLease(w, generation, expires) ==
    LET r == fenceRecords[w] IN
    /\ LeaseValid(expires, now)
    /\ r.present /\ r.generation = generation
    /\ r.lease # 0 => expires >= r.lease
    /\ fenceRecords' = [fenceRecords EXCEPT ![w].lease = expires]

renewWorkloadLease(n) ==
    LET c == SignedCommands[n] IN
    /\ Applies(n, "renew")
    /\ LifecycleRecord(c)
    /\ currentPolicyAuthorizesRecord(fenceRecords[Of(c)])
    /\ RenewLease(Of(c), fenceRecords[Of(c)].generation, c.lease)
    /\ UNCHANGED <<enforced, fenceEpoch, waiting, now, restarts, admissions>>

AdNext ==
    \/ \E n \in DOMAIN SitePolicies : EnableSecureAdmission(n)
    \/ TimePasses
    \/ \E n \in DOMAIN SignedCommands : AdmitCommand(n) \/ secureStart(n) \/ secureStop(n) \/ secureDestroy(n) \/ renewWorkloadLease(n)
    \/ \E r \in HostRequests : AdmitHost(r)
    \/ \E e \in waiting : provisionSecureWorkload(e) \/ Abandon(e)

AdSpec == AdInit /\ [][AdNext]_adVars

-------------------------------------------------------------------------------
(* Properties.                                                                 *)

(* Types of the process's state, of the fence file and of the history.        *)
AdTypeOK ==
    /\ enforced \in DOMAIN SitePolicies \cup {""}
    /\ fenceEpoch \in Nat
    /\ fenceRecords \in [Workloads ->
          [generation : Nat, capsule : DOMAIN Capsules \cup {""}, policy : DOMAIN SitePolicies \cup {""},
           lineage : {i.lineage : i \in Intents} \cup {""}, workload : SUBSET Intents,
           present : BOOLEAN, lease : Int]]
    /\ waiting \subseteq [capsule : DOMAIN Capsules, intent : Intents, policy : DOMAIN SitePolicies,
                          command : DOMAIN SignedCommands \cup {""}]
    /\ admissions \in Seq([capsule : DOMAIN Capsules, intent : Intents, policy : DOMAIN SitePolicies,
                            command : DOMAIN SignedCommands \cup {""}, answered : BOOLEAN])

(* The fences only move forward: over any races between admissions verified
   before provisionMu, destructions, and restarts under older or newer policies,
   committed admissions follow one another in the order of the policy epochs, and
   every admission of a workload has a higher generation than all earlier ones. *)
AdmissionsAdvance ==
    \A j, k \in DOMAIN admissions :
        j < k =>
            /\ SitePolicies[admissions[j].policy].epoch <= SitePolicies[admissions[k].policy].epoch
            /\ Of(admissions[j].intent) = Of(admissions[k].intent) =>
                  admissions[j].intent.generation < admissions[k].intent.generation

(* The distinct public keys in a grant that may approve an action on connector c. *)
ApproverKeys(g, c) ==
    {g.actions.keys[k].public : k \in {k \in DOMAIN g.actions.keys : c \in g.actions.keys[k].connectors}}

(* What Gateway is given to approve the actions of an admitted workload can approve
   them, and only its tenant's keys do. *)
ApprovalsReachable(a) ==
    LET p == SitePolicies[a.policy]
        g == RuntimeGrant(p, a.intent) IN
    a.intent.mode = "authorized" =>
        /\ g.actions.threshold >= 1
        /\ \A c \in a.intent.connectors : Cardinality(ApproverKeys(g, c)) >= g.actions.threshold
        /\ \A c \in a.intent.connectors : \A t \in DOMAIN p.tenants :
              t # a.intent.tenant => ApproverKeys(g, c) \cap Publics(p.tenants[t].effects.keys) = {}

(* A delegated command that was applied: the policy in force trusted its delegator
   with that operation itself, and the delegation had not expired. *)
InsideDelegation(act) ==
    LET c == SignedCommands[act.command]
        d == Delegations[c.delegation]
        p == SitePolicies[act.policy] IN
    act.command # "" /\ c.delegation # "" =>
        /\ act.at < d.expires
        /\ d.tenant = c.tenant
        /\ c.tenant \in DOMAIN p.tenants
        /\ d.signer \in DOMAIN p.tenants[c.tenant].commandKeys
        /\ c.kind \in p.tenants[c.tenant].commandKeys[d.signer]

(* No admission or command goes beyond what was signed, whatever policies come and
   go: an admitted workload stays inside the ceilings of its capsule, publisher and
   tenant, its actions can be approved by enough of its own tenant's keys and no
   others, and delegated commands stay inside the scope of the delegator. *)
NoAmplification ==
    /\ \A k \in DOMAIN admissions :
          LET a == admissions[k]
              c == Capsules[a.capsule]
              p == SitePolicies[a.policy] IN
          /\ \A d \in DOMAIN a.intent.resources :
                /\ a.intent.resources[d] <= c.resources[d]
                /\ a.intent.resources[d] <= p.publishers[c.publisher].ceiling[d]
                /\ a.intent.resources[d] <= p.tenants[a.intent.tenant].ceiling[d]
          /\ ~p.publishers[c.publisher].revoked
          /\ p.tenants[a.intent.tenant].effects.mode = "required" => a.intent.egress = {}
          /\ ApprovalsReachable(a)
    /\ InsideDelegation(lastAct)

(* Executor's answer to a committed admission passes the dispatcher's strict decoding
   and correlation, which then reports it to Control, for a workload that has no
   authorized effects and no controller events and whose service, if any, has a task
   key.  For the others the dispatcher reports an error about a committed admission. *)
PlainAnswered ==
    \A k \in DOMAIN admissions :
        LET i == admissions[k].intent IN
        /\ i.mode # "authorized"
        /\ "controller_events" \notin i.capabilities
        /\ "service" \in i.capabilities =>
              TrustedTaskKeys(SitePolicies[admissions[k].policy].tenants[i.tenant], i.service) # {}
        => admissions[k].answered
===============================================================================
