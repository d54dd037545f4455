---------------------------- MODULE TaskqRuntime ----------------------------
(***************************************************************************)
(* The runtime an API process enters as its lifespan (http/runtime.py): it *)
(* checks the schema it meets, ticks as a housekeeper, embeds a worker,    *)
(* owns the long-poll hub of TaskqLongPoll and the transports, and takes   *)
(* all of it down again.  Six tasks share its state: the start, the        *)
(* housekeeper, the monitor that ends a process whose worker is unsafe,    *)
(* the stop, the host that waits for it, and the requests.  The host is a  *)
(* lifespan: it awaits start() before it serves and calls stop() once,     *)
(* after that; it may be cancelled while it waits.                         *)
(***************************************************************************)
EXTENDS TaskqLongPoll

CONSTANTS Surfaces,     \* the optional surfaces that are enabled
          Metas         \* the schemas the runtime may find

\* The runtime embeds a worker; it ticks as a housekeeper.
Embedded == budget.embedded
Housekeeps == budget.housekeeper

VARIABLES rt,           \* state and flags; fatal is history, for the properties
          tasks,        \* task -> where it is
          worker        \* the embedded WorkerService

rtVars == <<rt, tasks, worker>>
vars == <<pollVars, rtVars>>

Tasks == {"start", "housekeeper", "exit", "stop", "host"}

RuntimeInit ==
  /\ rt = [state |-> "CONSTRUCTED", stopping |-> FALSE, healthy |-> ~Housekeeps,
           closed |-> FALSE, acted |-> FALSE, exited |-> FALSE, fatal |-> FALSE]
  /\ tasks = [t \in Tasks |-> "none"]
  /\ worker = [state |-> "CONSTRUCTED", unsafe |-> FALSE]

Init == PollInit /\ RuntimeInit

\* The releases of the SQL contract, oldest first.  A surface is supported from
\* its first release on; outside the list nothing is.
Releases == 1 .. 34

FirstRelease == [base |-> 1, admission |-> 4, workflow |-> 6, workflow_read |-> 8,
                 worker_presence |-> 9, schedule |-> 13]

Capability == [admission |-> {"admission_reservations"},
               workflow |-> {"dependencies_workflows"},
               workflow_read |-> {"dependencies_workflows", "read_model_workflow"},
               schedule |-> {"schedules"},
               worker_presence |-> {"worker_presence"}]

Supported(meta) ==
  /\ meta.version \in Releases
  /\ \A s \in Surfaces : meta.version >= FirstRelease[s] /\ Capability[s] \subseteq meta.active

\* What a load balancer reads.
Ready == /\ rt.state = "RUNNING"
         /\ rt.healthy
         /\ listener.healthy
         /\ Embedded => worker.state = "RUNNING" /\ ~worker.unsafe

At(t, pc) == tasks[t] = pc /\ ~rt.exited

Goes(t, pc) == tasks' = [tasks EXCEPT ![t] = pc]

-----------------------------------------------------------------------------
(* Parts of several tasks. *)

\* The process is on its way down: in which state, and the hub with it.
Lowered(state) == /\ rt' = [rt EXCEPT !.state = state, !.stopping = TRUE]
                  /\ HubShutdown

\* stop() of the worker: a service that never started is stopped at once,
\* otherwise a task of the service's own does it.
StopWorker == worker' = [worker EXCEPT !.state =
                IF @ = "CONSTRUCTED" THEN "STOPPED" ELSE IF @ = "STOPPED" THEN @ ELSE "STOPPING"]

WorkerStopped == Embedded => worker.state = "STOPPED"

\* Fault: the monitor of the process exit is not cancelled.
CancelledHousekeeper(t) ==
  [u \in Tasks |-> IF u = "housekeeper" /\ u # t /\ tasks[u] \notin {"none", "done"}
                   THEN "done" ELSE tasks[u]]

\* _cleanup_started cancels the loops other than its caller, at the await each
\* is in; a task that was never created or has ended is left alone.
Cancelled(t) ==
  [u \in Tasks |-> IF u \in {"housekeeper", "exit"} \ {t} /\ tasks[u] \notin {"none", "done"}
                   THEN "done" ELSE tasks[u]]

Cleanup(t) == /\ At(t, "cleanup")
              /\ tasks' = [Cancelled(t) EXCEPT ![t] = "join"]
              /\ UNCHANGED <<rt, worker, pollVars>>

\* gather() returns when the cancelled tasks have ended.
Join(t) == /\ At(t, "join")
           /\ \A u \in {"housekeeper", "exit"} \ {t} : tasks[u] \in {"none", "done"}
           /\ Goes(t, "close")
           /\ UNCHANGED <<rt, worker, pollVars>>

\* _close_resources is for the first caller; a later one returns at once.
CloseResources(t) ==
  /\ At(t, "close")
  /\ rt' = [rt EXCEPT !.closed = TRUE]
  /\ Goes(t, IF rt.closed THEN "closed" ELSE "closing")
  /\ UNCHANGED <<worker, pollVars>>

Closing(t) ==
  /\ At(t, "closing")
  /\ IF listener.close # "closed"
     THEN CloseListener /\ UNCHANGED <<tasks, pool>>
     ELSE pool' = FALSE /\ Goes(t, "closed") /\ UNCHANGED <<source, listener>>
  /\ UNCHANGED <<rt, worker, hub, wire, polls, ready, budget>>

-----------------------------------------------------------------------------
(* start() *)

Start == /\ rt.state = "CONSTRUCTED"
         /\ rt' = [rt EXCEPT !.state = "STARTING"]
         /\ Goes("start", "meta")
         /\ UNCHANGED <<worker, pollVars>>

\* start()'s except branch: down again, with the worker cancelled.
Unwind == Lowered("FAILED") /\ Goes("start", "unwind") /\ StopWorker
          /\ UNCHANGED <<source, listener, wire, ready, budget, pool>>

ReadMeta(meta) ==
  /\ At("start", "meta")
  /\ IF Supported(meta)
     THEN /\ Goes("start", IF Housekeeps THEN "tick" ELSE "service")
          /\ UNCHANGED <<rt, worker, pollVars>>
     ELSE Unwind

\* The answers of a tick: fine, an error worth a retry, a fatal one.
Verdicts == {"ok", "retryable", "fatal"}

StartupTick(verdict) ==
  /\ At("start", "tick")
  /\ IF verdict = "fatal" THEN Unwind
     ELSE /\ rt' = [rt EXCEPT !.healthy = (verdict = "ok")]
          /\ tasks' = [tasks EXCEPT !["start"] = "service", !["housekeeper"] = "sleep"]
          /\ UNCHANGED <<worker, pollVars>>

WorkerStarts == /\ At("start", "service")
                /\ Embedded
                /\ IF worker.state = "CONSTRUCTED"
                   THEN /\ worker' = [worker EXCEPT !.state = "STARTING"]
                        /\ Goes("start", "serving")
                        /\ UNCHANGED <<rt, pollVars>>
                   ELSE Unwind

\* A service that was told to stop while it started may still return.
WorkerStarted == /\ At("start", "serving")
                 /\ IF worker.state = "STARTING"
                    THEN worker' = [worker EXCEPT !.state = "RUNNING"]
                    ELSE UNCHANGED worker
                 /\ rt' = [rt EXCEPT !.state = IF rt.healthy THEN "RUNNING" ELSE "DEGRADED"]
                 /\ tasks' = [tasks EXCEPT !["start"] = "up", !["exit"] = "watch"]
                 /\ UNCHANGED pollVars

\* It may as well raise.
WorkerRefuses == /\ At("start", "serving")
                 /\ worker.state # "STARTING"
                 /\ Unwind

Started == /\ At("start", "service")
           /\ ~Embedded
           /\ rt' = [rt EXCEPT !.state = IF rt.healthy THEN "RUNNING" ELSE "DEGRADED"]
           /\ Goes("start", "up")
           /\ UNCHANGED <<worker, pollVars>>

Unwound == /\ At("start", "unwind")
           /\ WorkerStopped
           /\ Goes("start", "cleanup")
           /\ UNCHANGED <<rt, worker, pollVars>>

-----------------------------------------------------------------------------
(* The housekeeper. *)

HousekeeperWakes ==
  /\ At("housekeeper", "sleep")
  /\ Goes("housekeeper", IF rt.stopping THEN "done" ELSE "tick")
  /\ UNCHANGED <<rt, worker, pollVars>>

\* Fault: a tick that recovers does not look at the state.
TickRevives(verdict) ==
  /\ At("housekeeper", "tick")
  /\ verdict # "fatal"
  /\ rt' = [rt EXCEPT !.healthy = (verdict = "ok"),
              !.state = IF verdict = "retryable" THEN "DEGRADED" ELSE "RUNNING"]
  /\ Goes("housekeeper", "sleep")
  /\ UNCHANGED <<worker, pollVars>>

\* _tick: an error leaves the runtime degraded whatever its state was, a
\* success recovers it only from DEGRADED.
Tick(verdict) ==
  /\ At("housekeeper", "tick")
  /\ verdict # "fatal"
  /\ rt' = [rt EXCEPT !.healthy = (verdict = "ok"),
              !.state = IF verdict = "retryable" THEN "DEGRADED"
                        ELSE IF ~rt.healthy /\ @ = "DEGRADED" THEN "RUNNING" ELSE @]
  /\ Goes("housekeeper", "sleep")
  /\ UNCHANGED <<worker, pollVars>>

\* A fatal error takes the runtime down from inside the loop.
TickFatal ==
  /\ At("housekeeper", "tick")
  /\ rt' = [rt EXCEPT !.state = "FAILED", !.healthy = FALSE, !.stopping = TRUE, !.fatal = TRUE]
  /\ HubShutdown
  /\ StopWorker
  /\ Goes("housekeeper", "stopping")
  /\ UNCHANGED <<source, listener, wire, ready, budget, pool>>

HousekeeperLeaves ==
  /\ At("housekeeper", "stopping")
  /\ WorkerStopped
  /\ Goes("housekeeper", "cleanup")
  /\ UNCHANGED <<rt, worker, pollVars>>

HousekeeperEnds == /\ At("housekeeper", "closed")
                   /\ Goes("housekeeper", "done")
                   /\ UNCHANGED <<rt, worker, pollVars>>

-----------------------------------------------------------------------------
(* The monitor of the process exit. *)

\* A handler thread of the worker runs on and cannot be stopped.
WorkerUnsafe == /\ Embedded /\ ~rt.exited
                /\ worker.state \in {"RUNNING", "STOPPING"}
                /\ ~worker.unsafe
                /\ worker' = [worker EXCEPT !.unsafe = TRUE]
                /\ UNCHANGED <<rt, tasks, pollVars>>

WorkerStops == /\ worker.state = "STOPPING" /\ ~rt.exited
               /\ worker' = [worker EXCEPT !.state = "STOPPED"]
               /\ UNCHANGED <<rt, tasks, pollVars>>

\* _act_on_process_exit_requirement, for the caller that is first.
Acts(t) == /\ rt' = [rt EXCEPT !.acted = TRUE, !.state = "FAILED", !.stopping = TRUE]
           /\ HubShutdown
           /\ Goes(t, "prepare")
           /\ UNCHANGED <<worker, source, listener, wire, ready, budget, pool>>

MonitorActs == At("exit", "watch") /\ worker.unsafe /\ ~rt.acted /\ Acts("exit")

MonitorEnds == /\ At("exit", "watch")
               /\ rt.state = "STOPPED" \/ rt.acted
               /\ Goes("exit", "done")
               /\ UNCHANGED <<rt, worker, pollVars>>

\* The worker's own resources are down: the runtime's are next.
Prepared(t) == /\ At(t, "prepare")
               /\ Goes(t, "close")
               /\ UNCHANGED <<rt, worker, pollVars>>

\* os._exit
ProcessExits == /\ At("exit", "closed") \/ (At("stop", "closed") /\ rt.acted)
                /\ rt' = [rt EXCEPT !.exited = TRUE]
                /\ UNCHANGED <<tasks, worker, pollVars>>

-----------------------------------------------------------------------------
(* stop() *)

\* The host calls it: a task of its own does the work, and the host waits.
Stop == /\ At("start", "up")
        /\ At("stop", "none")
        /\ Lowered("STOPPING")
        /\ StopWorker
        /\ tasks' = [tasks EXCEPT !["stop"] = "worker", !["host"] = "waiting"]
        /\ UNCHANGED <<source, listener, wire, ready, budget, pool>>

\* Fault: a host that is cancelled leaves the wait, and the stop behind it.
CancelLeaves == /\ At("host", "waiting") /\ budget.cancels
                /\ Goes("host", "raised")
                /\ UNCHANGED <<rt, worker, pollVars>>

\* The host is cancelled as it waits: shield() keeps that from the stop, and the
\* host goes back to waiting.
StopCancelled == /\ At("host", "waiting") /\ budget.cancels
                 /\ Goes("host", "cancelled")
                 /\ UNCHANGED <<rt, worker, pollVars>>

\* The stop is done; a host that was cancelled meanwhile is told so now.
StopReturns ==
  /\ At("stop", "returned")
  /\ \/ At("host", "waiting") /\ Goes("host", "returned")
     \/ At("host", "cancelled") /\ Goes("host", "raised")
  /\ UNCHANGED <<rt, worker, pollVars>>

\* The worker has stopped: the process must exit, or somebody is seeing to
\* that already, or the rest is taken down.
StopWorkerDone ==
  /\ At("stop", "worker")
  /\ WorkerStopped
  /\ IF worker.unsafe /\ ~rt.acted THEN Acts("stop")
     ELSE /\ Goes("stop", IF rt.acted THEN "returned" ELSE "cleanup")
          /\ UNCHANGED <<rt, worker, pollVars>>

Stopped == /\ At("stop", "closed")
           /\ ~rt.acted
           /\ rt' = [rt EXCEPT !.state = "STOPPED"]
           /\ Goes("stop", "returned")
           /\ UNCHANGED <<worker, pollVars>>

StartFailed == /\ At("start", "closed")
               /\ Goes("start", "raised")
               /\ UNCHANGED <<rt, worker, pollVars>>

-----------------------------------------------------------------------------

StartStep == \/ \E m \in Metas : ReadMeta(m)
             \/ \E v \in Verdicts : StartupTick(v)
             \/ WorkerStarts \/ WorkerStarted \/ WorkerRefuses \/ Started
             \/ Unwound \/ StartFailed

HousekeeperStep == \/ HousekeeperWakes \/ HousekeeperLeaves \/ HousekeeperEnds
                   \/ \E v \in Verdicts : Tick(v)
                   \/ TickFatal

ExitStep == MonitorActs \/ MonitorEnds

StopStep == StopWorkerDone \/ Stopped \/ StopReturns

TearDown(t) == Cleanup(t) \/ Join(t) \/ CloseResources(t) \/ Closing(t) \/ Prepared(t)

\* The host serves requests once its lifespan has started.
Serve == /\ At("start", "up")
         /\ \E p \in Polls, q \in Queues, w \in BOOLEAN : PollArrives(p, q, w)
         /\ UNCHANGED rtVars

Next == \/ ~rt.exited /\ PollNext /\ UNCHANGED rtVars
        \/ Serve
        \/ Start \/ Stop \/ StopCancelled
        \/ StartStep \/ HousekeeperStep \/ ExitStep \/ StopStep
        \/ WorkerUnsafe \/ WorkerStops \/ ProcessExits
        \/ \E t \in Tasks : TearDown(t)

\* Every task that can run does, and every await on the database and on a
\* cancelled task ends.  That the worker stops is not assumed: without
\* soft_stop_timeout it waits for its handlers as long as they take.
Fairness == /\ PollFairness
            /\ WF_vars(StartStep) /\ WF_vars(HousekeeperStep) /\ WF_vars(ExitStep)
            /\ WF_vars(StopStep) /\ WF_vars(ProcessExits)
            /\ \A t \in Tasks : WF_vars(TearDown(t))

Spec == Init /\ [][Next]_vars

FairSpec == Spec /\ Fairness

-----------------------------------------------------------------------------
(* Properties. *)

\* A runtime that reports ready is one that serves: no way down has begun, the
\* hub takes waits and the transports are open.  Ticks that end late, a start
\* that ends after the housekeeper failed and a worker that dies must not bring
\* readiness back.
ReadyHonest == Ready => ~rt.stopping /\ ~hub.closed /\ ~rt.closed /\ pool

\* Everything the runtime owns is down.
Down == rt.state = "STOPPED" /\ listener.close = "closed" /\ ~pool

\* The embedded worker does not stop for ever: no handler keeps it from its end.
WorkerLetsGo == []<>(worker.state # "STOPPING")

\* stop() lets its host go, cancelled or not as it waits, only when everything
\* the runtime owns is closed or the process is on its way out; and a host that
\* called it gets there, provided the worker lets go: no task waits for another
\* for ever.  Only where the housekeeper had failed fatally is it enough that
\* stop() returns: stop() cancels that task in the middle of closing the
\* resources, and they stay open.
StopSettles ==
  /\ [](tasks["host"] \in {"returned", "raised"} => rt.fatal \/ rt.acted \/ Down)
  /\ WorkerLetsGo =>
       (tasks["host"] = "waiting"
          ~> rt.exited \/ (tasks["host"] \in {"returned", "raised"} /\ (rt.fatal \/ Down)))
=============================================================================
