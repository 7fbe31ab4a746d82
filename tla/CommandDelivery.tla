--------------------------- MODULE CommandDelivery ---------------------------
(***************************************************************************)
(* The signed command path end to end: an operator submits commands to    *)
(* the controller (ControlCommands), the node (ExecutorUplink) polls,     *)
(* executes and reports them over HTTP.                                   *)
(*                                                                         *)
(* The node waits for the answer of one request per thread.  When it      *)
(* gives up, the request may still reach the controller later, or never.  *)
(***************************************************************************)
EXTENDS ExecutorUplink

CONSTANTS
    MaxCommands, MaxPoisoned,   \* as in ControlCommands
    MaxTimeouts,                \* bound: requests the node gives up on
    MaxSubmissions,             \* bound: submissions that create a record
    MaxFreezes                  \* bound: operational freezes

VARIABLES
    commands, stored, poisoned, poisonings, frozen,  \* as in ControlCommands
    latePolls,      \* the capability of abandoned polls still under way
    lateReports,    \* abandoned reports still under way
    timeouts, submissions, freezes                  \* counters for the bounds

Control == INSTANCE ControlCommands

network == <<latePolls, lateReports>>
counters == <<timeouts, submissions, freezes>>
control == <<commands, stored, poisoned, poisonings, frozen>>
systemVars == <<vars, control, network, counters>>

reportOf(w) == [command |-> job[w].command, generation |-> job[w].generation,
                status |-> job[w].status]

\* Any step of the node that needs no answer, and its crash.
NodeAlone ==
    /\ NodeStep \/ Restart
    /\ UNCHANGED <<control, network, counters>>

Submit ==
    /\ submissions < MaxSubmissions /\ submissions' = submissions + 1
    /\ \E c \in Command : Control!SubmitCommand(c)
    /\ UNCHANGED <<vars, network, timeouts, freezes>>

\* The poll is answered in time.  A failed transaction is an error answer.
ServePoll ==
    /\ phase = "polling"
    /\ \/ \E batch \in Control!batches(capable), ok \in BOOLEAN :
             /\ Control!PollV4(batch, ok)
             /\ PollAnswered(IF ok THEN Control!deliveries(batch) ELSE {})
       \/ poisoned /\ PollAnswered({}) /\ UNCHANGED control
    /\ UNCHANGED <<network, counters>>

AbandonPoll ==
    /\ phase = "polling" /\ timeouts < MaxTimeouts /\ timeouts' = timeouts + 1
    /\ latePolls' = latePolls \cup {capable}
    /\ PollAnswered({})
    /\ UNCHANGED <<control, lateReports, submissions, freezes>>

\* The answer of an abandoned poll reaches nobody; its leases stand.
ServeLatePoll ==
    /\ \E offered \in latePolls :
          /\ latePolls' = latePolls \ {offered}
          /\ \E batch \in Control!batches(offered), ok \in BOOLEAN :
                Control!PollV4(batch, ok)
    /\ UNCHANGED <<vars, lateReports, counters>>

ServeReport(w) ==
    /\ at(w, "reporting")
    /\ \E ok \in BOOLEAN :
          /\ Control!ApplyReportV4(reportOf(w), ok)
          /\ IF ok THEN Acknowledged(w) ELSE Unacknowledged(w)
    /\ UNCHANGED <<network, counters>>

AbandonReport(w) ==
    /\ at(w, "reporting") /\ timeouts < MaxTimeouts /\ timeouts' = timeouts + 1
    /\ lateReports' = lateReports \cup {reportOf(w)}
    /\ Unacknowledged(w)
    /\ UNCHANGED <<control, latePolls, submissions, freezes>>

ServeLateReport ==
    /\ \E r \in lateReports, ok \in BOOLEAN :
          /\ lateReports' = lateReports \ {r}
          /\ Control!ApplyReportV4(r, ok)
    /\ UNCHANGED <<vars, latePolls, counters>>

Lapse ==
    /\ \E c \in Command : Control!LeaseLapses(c)
    /\ UNCHANGED <<vars, network, counters>>

Freeze ==
    /\ freezes < MaxFreezes /\ freezes' = freezes + 1
    /\ Control!SetFreeze(TRUE)
    /\ UNCHANGED <<vars, network, timeouts, submissions>>

Unfreeze ==
    /\ Control!SetFreeze(FALSE)
    /\ UNCHANGED <<vars, network, counters>>

ReopenControl ==
    /\ Control!Reopen
    /\ UNCHANGED <<vars, network, counters>>

SystemInit ==
    /\ Init /\ Control!ControlInit
    /\ latePolls = {} /\ lateReports = {}
    /\ timeouts = 0 /\ submissions = 0 /\ freezes = 0

SystemNext ==
    \/ NodeAlone \/ Submit
    \/ ServePoll \/ AbandonPoll \/ ServeLatePoll
    \/ \E w \in Thread : ServeReport(w) \/ AbandonReport(w)
    \/ ServeLateReport
    \/ Lapse \/ Freeze \/ Unfreeze \/ ReopenControl

SystemSpec == SystemInit /\ [][SystemNext]_systemVars

\* Each thread of the node keeps running, both sides answer, leases run out,
\* a freeze is lifted and a controller that failed is restarted.  Faults are
\* bounded, so they stop.
Fairness ==
    /\ \A w \in Thread :
          /\ WF_systemVars(ThreadStep(w) /\ UNCHANGED <<control, network, counters>>)
          /\ WF_systemVars(ServeReport(w))
    /\ WF_systemVars(ServePoll)
    /\ \A c \in Command :
          WF_systemVars(Control!LeaseLapses(c) /\ UNCHANGED <<vars, network, counters>>)
    /\ WF_systemVars(Unfreeze) /\ WF_systemVars(ReopenControl)

FairSystemSpec == SystemSpec /\ Fairness
-----------------------------------------------------------------------------
SystemTypeOK ==
    /\ TypeOK /\ Control!ControlTypeOK
    /\ latePolls \subseteq BOOLEAN /\ lateReports \subseteq Report

\* No acknowledgement is lost: when the node counts a report as settled, the
\* controller's files hold that outcome, or a newer lease that will bring the
\* command back.
SettledIsStored ==
    \A c \in Command :
        /\ recordsDisk[c] # None /\ recordsDisk[c].phase = "terminal"
        /\ recordsDisk[c].settled = recordsDisk[c].generation
        => /\ stored[c] # None
           /\ \/ stored[c].generation > recordsDisk[c].generation
              \/ stored[c].state = "terminal" /\ stored[c].status = recordsDisk[c].status

\* Every command the controller has stored reaches an outcome there, and the
\* node learns that its report arrived.
EveryCommandSettles ==
    \A c \in Command :
        stored[c] # None ~>
            /\ stored[c] # None /\ stored[c].state = "terminal"
            /\ records[c] = None \/ records[c].settled = records[c].generation

=============================================================================
