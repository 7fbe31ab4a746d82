----------------------------- MODULE MCCouriers -----------------------------
(* Work for the couriers between Control and a node: tasks and schedules, or the
   events, questions and answers of its agents.  A scenario moves one of them. *)
EXTENDS TaskCourier, AgentMessages, TLC

-------------------------------------------------------------------------------
(* Tasks. *)
NoTasks == <<>>
NoSchedules == <<>>

\* One signed task, with every kind of fault and operator action.
OneTask ==
    [deadline |-> <<3>>, due |-> NoSchedules, window |-> 1, concurrency |-> 1,
     overlap |-> "skip", inSession |-> {}, maxEvents |-> 3, maxTasks |-> 2, maxReports |-> 2,
     events |-> {"cancel", "lose", "retry", "grant", "target", "quarantine"}]

\* Two tasks that share a batch and a workroom session.
TwoTasks ==
    [deadline |-> <<2, 3>>, due |-> NoSchedules, window |-> 1, concurrency |-> 1,
     overlap |-> "skip", inSession |-> {0}, maxEvents |-> 1, maxTasks |-> 2, maxReports |-> 1,
     events |-> {"cancel", "retry", "session"}]

\* Three runs of one schedule, one at a time; those that would overlap are
\* passed over.  The courier holds two tasks.
SkippedRuns ==
    [deadline |-> NoTasks, due |-> <<<<0, 1, 2>>>>, window |-> 2, concurrency |-> 1,
     overlap |-> "skip", inSession |-> {1}, maxEvents |-> 1, maxTasks |-> 2, maxReports |-> 1,
     events |-> {"lose", "retry", "target", "session", "cancel"}]

\* Runs that wait for one another, beside a task of their own.
QueuedRuns ==
    [deadline |-> <<1>>, due |-> <<<<0, 0>>>>, window |-> 3, concurrency |-> 1,
     overlap |-> "queue", inSession |-> {}, maxEvents |-> 1, maxTasks |-> 2, maxReports |-> 1,
     events |-> {"lose", "quarantine"}]

\* Two schedules, of which one can be retained: a cancelled or completed one may
\* be pushed out and created again.
TwoSchedules ==
    [deadline |-> NoTasks, due |-> <<<<0, 1>>, <<0>>>>, window |-> 3, concurrency |-> 1,
     overlap |-> "skip", inSession |-> {}, maxEvents |-> 1, maxTasks |-> 1, maxReports |-> 1,
     events |-> {"cancelSchedule", "cancel"}]

NoWork == [TwoTasks EXCEPT !.deadline = NoTasks, !.inSession = {}, !.maxEvents = 0]
CourierCases == {NoWork, OneTask, TwoTasks, SkippedRuns, QueuedRuns, TwoSchedules}

-------------------------------------------------------------------------------
(* Messages. *)
TenantDef == ("g1" :> "t1") @@ ("g2" :> "t1") @@ ("g3" :> "t2")
LimitDef == [gwAll |-> 3, gwTenant |-> 2, gwGrant |-> 2, ctAll |-> 2, ctTenant |-> 2, ctAnswers |-> 1, ctTenantAnswers |-> 1, batch |-> 3]

A(n, ok, exp) == [n |-> n, ok |-> ok, exp |-> exp]
Case == [events |-> {}, asks |-> {}, expiries |-> {}, answers |-> {}, withdrawn |-> {},
         reuse |-> FALSE, kinds |-> {}, faults |-> 0]

EventCase ==
    [Case EXCEPT !.events = {<<"g1", 1>>, <<"g1", 2>>, <<"g2", 1>>},
                 !.withdrawn = {"g1"}, !.kinds = {"save", "lose", "reply", "node"}, !.faults = 2]
AnswerCase ==
    [Case EXCEPT !.asks = {<<"g1", 1>>, <<"g3", 1>>}, !.expiries = {2},
                 !.answers = {A(1, TRUE, 1), A(2, TRUE, 2), A(1, FALSE, 2)}, !.withdrawn = {"g1"},
                 !.kinds = {"save", "restart", "lose", "reply", "node"}, !.faults = 2]
FullCase ==
    [Case EXCEPT !.asks = {<<"g1", 1>>, <<"g2", 1>>, <<"g3", 1>>}, !.expiries = {2},
                 !.answers = {A(1, TRUE, 1), A(2, TRUE, 2)},
                 !.kinds = {"save", "reply"}, !.faults = 1]
NoMessages == Case
MessageCases == {NoMessages, EventCase, AnswerCase, FullCase}

-------------------------------------------------------------------------------
MCInit == Init /\ MgInit /\ (Work # {} <=> ~Talking)
MCNext ==
    \/ Work # {} /\ Next /\ UNCHANGED mgVars
    \/ Talking /\ MgNext /\ UNCHANGED vars
MCSpec == MCInit /\ [][MCNext]_<<vars, mgVars>> /\ Fairness /\ MgFairness
===============================================================================
