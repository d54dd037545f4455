------------------------------ MODULE MCRuntime ------------------------------
EXTENDS TaskqRuntime

CONSTANTS p1, p2, q1, q2

\* A schema that is too old for the enabled surface, one without the
\* capability, one newer than the runtime knows, and one that fits.
SomeMetas == {[version |-> 5, active |-> {"dependencies_workflows"}],
              [version |-> 6, active |-> {}],
              [version |-> 35, active |-> {"dependencies_workflows"}],
              [version |-> 34, active |-> {"dependencies_workflows", "schedules"}]}

\* Two requests for one queue and one request after another for two, beside a
\* runtime without tasks of its own; a request beside a runtime with all tasks
\* and beside one that only keeps house.
TwoPolls == [polls |-> {p1, p2}, queues |-> {q1}, jobs |-> 1, drops |-> 1,
             embedded |-> FALSE, housekeeper |-> FALSE, cancels |-> FALSE]
TwoQueues == [polls |-> {p1}, queues |-> {q1, q2}, jobs |-> 1, drops |-> 2,
              embedded |-> FALSE, housekeeper |-> FALSE, cancels |-> FALSE]
AllTasks == [polls |-> {p1}, queues |-> {q1}, jobs |-> 0, drops |-> 1,
             embedded |-> TRUE, housekeeper |-> TRUE, cancels |-> TRUE]
NoWorker == [AllTasks EXCEPT !.embedded = FALSE, !.drops = 0]
SomeTraffic == {TwoPolls, TwoQueues, AllTasks, NoWorker}
==============================================================================
