---------------------------- MODULE TaskCustody ----------------------------
(***************************************************************************)
(* What the receipt ledger promises about each task identity, whatever     *)
(* crashes, ambiguous writes and reopens happen underneath: a task is      *)
(* spent at most once and by one call, a lifecycle task is accepted as at  *)
(* most one run that no other task of the grant owns, and a closed task    *)
(* stays closed.                                                           *)
(***************************************************************************)
CONSTANTS Task, Calls, Run, None

VARIABLES
    holder,    \* the call that spent the task, or None
    run,       \* the run that accepted it, or None
    closed     \* tasks with a terminal record

vars == <<holder, run, closed>>

Init ==
    /\ holder = [t \in Task |-> None]
    /\ run = [t \in Task |-> None]
    /\ closed = {}

Spend(c) ==
    /\ holder[c.task] = None
    /\ holder' = [holder EXCEPT ![c.task] = c]
    /\ UNCHANGED <<run, closed>>

(* A stop is accepted as the run of the task it stops; any other task owns *)
(* its run alone within the grant.                                         *)
Owns(t, g, r) ==
    /\ run[t] = r
    /\ holder[t] # None
    /\ holder[t].grant = g
    /\ holder[t].target = None

Accept(t, r) ==
    /\ holder[t] # None
    /\ holder[t].kind = "lifecycle_task"
    /\ t \notin closed
    /\ run[t] = None
    /\ IF holder[t].target = None
       THEN \A u \in Task : ~Owns(u, holder[t].grant, r)
       ELSE Owns(holder[t].target, holder[t].grant, r)
    /\ run' = [run EXCEPT ![t] = r]
    /\ UNCHANGED <<holder, closed>>

Close(t) ==
    /\ holder[t] # None
    /\ t \notin closed
    /\ closed' = closed \cup {t}
    /\ UNCHANGED <<holder, run>>

Next ==
    \/ \E c \in Calls : Spend(c)
    \/ \E t \in Task : Close(t) \/ \E r \in Run : Accept(t, r)

Spec == Init /\ [][Next]_vars

=============================================================================
