--------------------------- MODULE GatewayGrants ---------------------------
(***************************************************************************)
(* The grants Executor installs in Gateway (internal/gateway/server.go):   *)
(* registered inactive, activated, deactivated and unregistered over the   *)
(* control socket, each under Server.mu and persisted before it takes      *)
(* effect.  A grant identifier is a digest of tenant, instance and         *)
(* generation, so the contents of a grant are fixed by its identifier.     *)
(***************************************************************************)
EXTENDS ConnectorLedger

CONSTANTS
    MaxRevocations,  \* bound, by grant: times it leaves the active state
    MaxUnregisters   \* bound, by grant: times it is unregistered

ASSUME GrantBounds == MaxRevocations \in [Grant -> Nat] /\ MaxUnregisters \in [Grant -> Nat]

VARIABLES
    grants,      \* Server.grants with Grant.Active
    retained,    \* the grants in the state file
    revocations, \* names the grant's lease: revokeGrantLocked cancels it
    unregisters  \* names the grant's semaphores: unregister discards them

grantVars == <<grants, retained, revocations, unregisters>>

active(g) == grants[g] = "active"

GrantsInit ==
    /\ grants = [g \in Grant |-> "absent"]
    /\ retained = {}
    /\ revocations = [g \in Grant |-> 0]
    /\ unregisters = [g \in Grant |-> 0]

(* A failed write leaves memory as it was, and may have replaced the file. *)
Register(g) ==
    /\ grants[g] = "absent"
    /\ retained' = retained \cup {g}
    /\ \/ grants' = [grants EXCEPT ![g] = "inactive"]
       \/ grants' = grants
    /\ UNCHANGED <<revocations, unregisters>>

Activate(g) ==
    /\ grants[g] = "inactive"
    /\ grants' = [grants EXCEPT ![g] = "active"]
    /\ retained' = retained \cup {g}
    /\ UNCHANGED <<revocations, unregisters>>

revokeGrantLocked(g) ==
    /\ active(g) => revocations[g] < MaxRevocations[g]
    /\ revocations' = IF active(g) THEN [revocations EXCEPT ![g] = @ + 1] ELSE revocations

Deactivate(g) ==
    /\ active(g)
    /\ grants' = [grants EXCEPT ![g] = "inactive"]
    /\ retained' = retained \cup {g}
    /\ revokeGrantLocked(g)
    /\ UNCHANGED unregisters

Unregister(g) ==
    /\ grants[g] # "absent"
    /\ unregisters[g] < MaxUnregisters[g]
    /\ retained' = retained \ {g}
    /\ \/ /\ grants' = [grants EXCEPT ![g] = "absent"]
          /\ revokeGrantLocked(g)
          /\ unregisters' = [unregisters EXCEPT ![g] = @ + 1]
       \/ UNCHANGED <<grants, revocations, unregisters>>

(* A new process knows the grants of the state file; loadExisting drops    *)
(* Active.                                                                 *)
loadExisting ==
    /\ grants' = [g \in Grant |-> IF g \in retained THEN "inactive" ELSE "absent"]
    /\ UNCHANGED <<retained, revocations, unregisters>>

GrantsTypeOK ==
    /\ grants \in [Grant -> {"absent", "inactive", "active"}]
    /\ retained \subseteq Grant
    /\ revocations \in [Grant -> Nat]
    /\ unregisters \in [Grant -> Nat]

=============================================================================
