--------------------------- MODULE ControlCommands ---------------------------
(***************************************************************************)
(* The controller's command records for one node (internal/controlstore   *)
(* records.go): submission, leasing by polls, terminal reports and the    *)
(* pruning of terminal history, over the store's transaction log.         *)
(*                                                                         *)
(* A transaction is one record of the write-ahead log.  When the append   *)
(* fails the store is poisoned: memory keeps the state before the         *)
(* transaction, the file may or may not hold it, and every later call is   *)
(* refused until the process reopens the store.                           *)
(***************************************************************************)
EXTENDS Integers, FiniteSets

CONSTANTS
    Command,        \* signed commands
    MaxGeneration,  \* bound: delivery generations
    MaxCommands,    \* limits.MaxCommandsPerNode
    MaxPoisoned,    \* bound: failed appends
    None

VARIABLES
    commands,       \* state.commands of the open store, by command
    stored,         \* the same, as the files would be replayed
    poisoned,       \* the open store refuses every call
    poisonings,     \* appends that failed so far
    frozen          \* the tenant is under an operational freeze

CommandRecord ==
    [state : {"pending", "leased", "terminal"}, generation : 0..MaxGeneration,
     lapsed : BOOLEAN,                      \* LeaseUntil has passed
     status : {"done", "rejected", "failed", "outcome_unknown", None}]

\* Mutant: the append is not synced before memory and the caller follow.
FaultyApplyMutations(next, ok) ==
    /\ ok /\ commands' = next /\ stored' \in {stored, next}
    /\ UNCHANGED <<poisoned, poisonings>>

\* applyMutationsLocked: memory follows the file only when the append is synced.
applyMutationsLocked(next, ok) ==
    \/ /\ ok
       /\ commands' = next /\ stored' = next
       /\ UNCHANGED <<poisoned, poisonings>>
    \/ /\ ~ok /\ poisonings < MaxPoisoned
       /\ poisonings' = poisonings + 1 /\ poisoned' = TRUE
       /\ stored' \in {stored, next} /\ UNCHANGED commands

terminalCommandSafeToPrune(c) ==
    /\ commands[c] # None /\ commands[c].state = "terminal"
    /\ \/ commands[c].status \in {"done", "rejected"}
       \/ c.kind = "activation-canary" /\ commands[c].status = "failed"

\* SubmitCommand.  At capacity one terminal command old enough to go makes
\* room in the same transaction; retention ages are not modelled.
SubmitCommand(c) ==
    /\ ~poisoned /\ commands[c] = None /\ ~frozen
    /\ LET kept   == {k \in Command : commands[k] # None}
           victim == IF Cardinality(kept) < MaxCommands THEN {{}}
                     ELSE {{k} : k \in {k \in Command : terminalCommandSafeToPrune(k)}}
       IN  \E gone \in victim, ok \in BOOLEAN :
             applyMutationsLocked(
                [k \in Command |->
                    IF k = c THEN [state |-> "pending", generation |-> 0,
                                   lapsed |-> FALSE, status |-> None]
                    ELSE IF k \in gone THEN None ELSE commands[k]], ok)
    /\ UNCHANGED frozen

\* Mutant: a lapsed lease is never offered again.
FaultyLeasable ==
    {c \in Command : /\ ~frozen /\ commands[c] # None
                     /\ commands[c].state = "pending"
                     /\ commands[c].generation < MaxGeneration}

\* The commands a poll may lease: pending, or leased and lapsed.
leasable ==
    {c \in Command : /\ ~frozen /\ commands[c] # None
                     /\ \/ commands[c].state = "pending"
                        \/ commands[c].state = "leased" /\ commands[c].lapsed
                     /\ commands[c].generation < MaxGeneration}

\* The batches PollV4 may choose: every leasable command, but one canary at
\* most and none for a node that does not offer to run one.
batches(capable) ==
    LET canaries == {c \in leasable : c.kind = "activation-canary"}
        others   == leasable \ canaries
    IN  IF capable /\ canaries # {} THEN {others \cup {c} : c \in canaries} ELSE {others}

\* PollV4: the leases are durable before the deliveries are returned.
PollV4(batch, ok) ==
    /\ ~poisoned
    /\ IF batch = {}
       THEN ok /\ UNCHANGED <<commands, stored, poisoned, poisonings>>
       ELSE applyMutationsLocked(
               [c \in Command |->
                   IF c \in batch
                   THEN [commands[c] EXCEPT !.state = "leased", !.lapsed = FALSE,
                                            !.generation = @ + 1]
                   ELSE commands[c]], ok)
    /\ UNCHANGED frozen

deliveries(batch) ==
    {[command |-> c, generation |-> commands[c].generation + 1] : c \in batch}

\* ApplyReportV4 answers without a transaction: an older generation, or the
\* report already stored.
reportKnown(r) ==
    /\ ~poisoned /\ commands[r.command] # None
    /\ \/ r.generation < commands[r.command].generation
       \/ /\ r.generation = commands[r.command].generation
          /\ commands[r.command].state = "terminal"
          /\ commands[r.command].status = r.status

\* ApplyReportV4 closes the lease.
reportCloses(r) ==
    /\ ~poisoned /\ commands[r.command] # None
    /\ r.generation = commands[r.command].generation
    /\ commands[r.command].state = "leased"

ApplyReportV4(r, ok) ==
    /\ \/ ok /\ reportKnown(r) /\ UNCHANGED <<commands, stored, poisoned, poisonings>>
       \/ /\ reportCloses(r)
          /\ applyMutationsLocked(
                [commands EXCEPT ![r.command].state = "terminal",
                                 ![r.command].lapsed = FALSE,
                                 ![r.command].status = r.status], ok)
       \/ \* Not found, a conflict, or the store is unavailable.
          /\ ~ok /\ ~reportKnown(r) /\ ~reportCloses(r)
          /\ UNCHANGED <<commands, stored, poisoned, poisonings>>
    /\ UNCHANGED frozen

\* Time passes: a delivery lease lapses.
LeaseLapses(c) ==
    /\ commands[c] # None /\ commands[c].state = "leased" /\ ~commands[c].lapsed
    /\ commands' = [commands EXCEPT ![c].lapsed = TRUE]
    /\ stored' = IF stored[c] = commands[c]
                 THEN [stored EXCEPT ![c].lapsed = TRUE] ELSE stored
    /\ UNCHANGED <<poisoned, poisonings, frozen>>

SetFreeze(value) ==
    /\ ~poisoned /\ frozen # value /\ frozen' = value
    /\ UNCHANGED <<commands, stored, poisoned, poisonings>>

\* The process is restarted and replays its files.
Reopen ==
    /\ poisoned /\ poisoned' = FALSE
    /\ commands' = stored
    /\ UNCHANGED <<stored, poisonings, frozen>>

ControlInit ==
    /\ commands = [c \in Command |-> None] /\ stored = commands
    /\ poisoned = FALSE /\ poisonings = 0 /\ frozen = FALSE

ControlTypeOK ==
    /\ commands \in [Command -> CommandRecord \cup {None}]
    /\ stored \in [Command -> CommandRecord \cup {None}]
    /\ poisoned \in BOOLEAN /\ poisonings \in 0..MaxPoisoned
    /\ frozen \in BOOLEAN
=============================================================================
