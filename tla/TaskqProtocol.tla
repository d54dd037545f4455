--------------------------- MODULE TaskqProtocol ---------------------------
(***************************************************************************)
(* The metadata of Protocol v1 that the HTTP client and the facade share:  *)
(* the error registry, the SQL command registry (COMMAND_SPECS: outcomes   *)
(* and errors of each SQL function) and the route table                    *)
(* (HTTP_COMMAND_SPECS: what a route asks of its caller, which outcomes it *)
(* maps to which status, and whether a client may send it again).          *)
(***************************************************************************)

\* The entries of two tables.
Joined(f, g) ==
    [c \in DOMAIN f \cup DOMAIN g |-> IF c \in DOMAIN f THEN f[c] ELSE g[c]]

----------------------------------------------------------------------------
(* Error registry *)

\* TQ_ERROR_REGISTRY: code -> HTTP status.
Registry ==
    [TQ001 |-> 404, TQ403 |-> 403, TQ409 |-> 409, TQ422 |-> 422, TQ425 |-> 403,
     TQ426 |-> 426, TQ429 |-> 429, TQ500 |-> 500, TQ501 |-> 501, TQ503 |-> 503]

\* The codes the registry marks retryable, which are also the client's
\* _RETRYABLE_HTTP_CODES.
Retryable == {"TQ429", "TQ500", "TQ503"}

\* Error answers: registry codes and the two codes of the host's authorizer.
Errors == DOMAIN Registry \cup {"AUTH401", "AUTH403"}

----------------------------------------------------------------------------
(* SQL commands *)

\* _spec: the closed outcomes of a SQL function and the errors it raises.
Sql(outcomes, errors) == [outcomes |-> outcomes, errors |-> errors]

SettleReplies == {"ok", "already_settled", "settle_conflict", "lost"}
AdmitErrors   == {"TQ001", "TQ409", "TQ422", "TQ425"}
EnqueueErrors == AdmitErrors \cup {"TQ429", "TQ500"}

\* COMMAND_SPECS, producers and runners.
SqlWork ==
    [RESERVE_ADMISSION |-> Sql({"reserved", "pending", "admitted"}, AdmitErrors),
     FINISH_ADMISSION  |-> Sql({"created", "existed"}, EnqueueErrors),
     CANCEL_ADMISSION  |-> Sql({"cancelled", "already_cancelled", "expired",
                                   "already_admitted"}, AdmitErrors),
     ENQUEUE           |-> Sql({"created", "existed"}, EnqueueErrors),
     ENQUEUE_MANY      |-> Sql({"created", "existed"}, EnqueueErrors),
     CREATE_WORKFLOW   |-> Sql({"created", "existed"}, {"TQ001", "TQ409", "TQ422"}),
     SEAL_WORKFLOW     |-> Sql({"sealed", "already_sealed"}, {"TQ001"}),
     CLAIM             |-> Sql({"claimed", "empty", "paused", "throttled",
                                   "unknown_queue", "unavailable"}, {"TQ422"}),
     HEARTBEAT         |-> Sql({"ok", "lost"}, {"TQ422"}),
     COMPLETE          |-> Sql(SettleReplies, {"TQ422", "TQ501", "TQ425"}),
     FAIL              |-> Sql(SettleReplies \cup {"retry_scheduled", "dead"}, {"TQ422"}),
     SNOOZE            |-> Sql(SettleReplies, {"TQ422"}),
     RELEASE           |-> Sql(SettleReplies, {"TQ422"}),
     CANCEL_RUNNING    |-> Sql(SettleReplies, {}),
     WORKER_HEARTBEAT  |-> Sql({"continue", "shutdown_requested"}, {"TQ422"})]

\* COMMAND_SPECS, observers.
SqlReads ==
    [GET_WORKFLOW_PAGE |-> Sql({"ok"}, {"TQ001", "TQ422", "TQ500", "TQ501"}),
     LIST_WORKFLOWS    |-> Sql({"ok"}, {"TQ422", "TQ501"}),
     LIST_WORKERS      |-> Sql({"ok"}, {"TQ422", "TQ501"}),
     GET_JOB           |-> Sql({"ok", "missing"}, {}),
     LIST_JOB_EVENTS   |-> Sql({"ok"}, {"TQ001", "TQ422", "TQ501"}),
     GET_QUEUE_STATS   |-> Sql({"ok"}, {}),
     LIST_QUEUE_STATS  |-> Sql({"ok"}, {}),
     GET_QUEUE         |-> Sql({"ok", "missing"}, {}),
     LIST_JOBS         |-> Sql({"ok"}, {"TQ001", "TQ422", "TQ501"}),
     META              |-> Sql({"ok"}, {}),
     METRICS           |-> Sql({"ok"}, {}),
     TARGET            |-> Sql({"ok"}, {}),
     SCHEDULER_HEALTH  |-> Sql({"ok"}, {})]

\* COMMAND_SPECS, operators; ENSURE_QUEUE stands for update_queue_profile too,
\* which an If-Match header selects.
SqlOperators ==
    [ENSURE_QUEUE          |-> Sql({"created", "updated", "unchanged", "missing",
                                       "profile_version_conflict"}, {"TQ422"}),
     PAUSE_QUEUE           |-> Sql({"paused", "already_paused"}, {"TQ001"}),
     RESUME_QUEUE          |-> Sql({"resumed", "already_resumed"}, {"TQ001"}),
     SET_CONCURRENCY_LIMIT |-> Sql({"created", "updated", "unchanged"}, {"TQ422"}),
     REQUEST_WORKER_SHUTDOWN |-> Sql({"ok"}, {}),
     PURGE_QUEUED          |-> Sql({"ok"}, {"TQ001", "TQ422"}),
     RUN_NOW               |-> Sql({"ok"}, {"TQ001", "TQ409"}),
     REPRIORITIZE          |-> Sql({"ok"}, {"TQ001", "TQ409", "TQ422"}),
     CANCEL                |-> Sql({"cancelled", "cancel_requested", "already_terminal"},
                                      {"TQ001"}),
     CANCEL_WORKFLOW       |-> Sql({"cancel_requested", "already_requested",
                                       "already_terminal"}, {"TQ001", "TQ422"}),
     PUT_SCHEDULE          |-> Sql({"created", "unchanged", "updated"},
                                      {"TQ001", "TQ409", "TQ422"}),
     GET_SCHEDULE          |-> Sql({"ok"}, {"TQ001"}),
     LIST_SCHEDULES        |-> Sql({"ok"}, {"TQ422", "TQ501"}),
     RETIRE_SCHEDULE       |-> Sql({"retired", "already_retired"},
                                      {"TQ001", "TQ409", "TQ422"}),
     REDRIVE               |-> Sql({"redriven"}, {"TQ001", "TQ409"}),
     EXPIRE_JOB            |-> Sql({"not_running", "expired_and_reaped"}, {"TQ001"}),
     EXPIRE_WORKER_LEASES  |-> Sql({"ok"}, {})]

CommandSpecs == Joined(SqlWork, Joined(SqlReads, SqlOperators))

----------------------------------------------------------------------------
(* Routes *)

\* _http: the action a caller needs, where the queue it needs it for is found,
\* the retry class, and outcome -> HTTP status.
Route(action, source, retry, outcomes) ==
    [action |-> action, source |-> source, retry |-> retry, outcomes |-> outcomes]

Ok      == [ok |-> 200]
Config  == [created |-> 201, updated |-> 200, unchanged |-> 200]
Settles == [ok |-> 200, already_settled |-> 200, settle_conflict |-> 409, lost |-> 409]

\* Discovery, queues, enqueue and admissions.
ProducerRoutes ==
    [META             |-> Route("read", "deployment", "safe", Ok),
     TARGET           |-> Route("read", "global", "safe", Ok),
     SCHEDULER_HEALTH |-> Route("read", "global", "safe", Ok),
     ENSURE_QUEUE     |-> Route("admin", "path", "safe", Config),
     ENQUEUE          |-> Route("enqueue", "path", "keyed_enqueue",
                                   [created |-> 201, existed |-> 200]),
     ENQUEUE_MANY     |-> Route("enqueue", "path", "keyed_batch", Ok),
     RESERVE_ADMISSION |-> Route("enqueue", "path", "safe",
                                   [reserved |-> 200, pending |-> 202, admitted |-> 200]),
     FINISH_ADMISSION |-> Route("enqueue", "path", "safe",
                                   [created |-> 201, existed |-> 200]),
     CANCEL_ADMISSION |-> Route("enqueue", "path", "safe",
                                   [cancelled |-> 200, already_cancelled |-> 200,
                                    expired |-> 200, already_admitted |-> 200])]

\* Workflows and schedules.
PlanRoutes ==
    [CREATE_WORKFLOW   |-> Route("enqueue", "declared", "safe",
                                    [created |-> 201, existed |-> 200]),
     SEAL_WORKFLOW     |-> Route("enqueue", "workflow", "safe",
                                    [sealed |-> 200, already_sealed |-> 200]),
     CANCEL_WORKFLOW   |-> Route("control", "workflow", "safe",
                                    [cancel_requested |-> 202, already_requested |-> 202,
                                     already_terminal |-> 200]),
     GET_WORKFLOW_PAGE |-> Route("read", "workflow", "safe", Ok),
     LIST_WORKFLOWS    |-> Route("read", "global", "safe", Ok),
     GET_SCHEDULE      |-> Route("control", "schedule", "safe", Ok),
     LIST_SCHEDULES    |-> Route("control", "global", "safe", Ok),
     PUT_SCHEDULE      |-> Route("control", "schedule", "safe", Config),
     RETIRE_SCHEDULE   |-> Route("control", "schedule", "safe",
                                    [retired |-> 200, already_retired |-> 200])]

\* Claims, heartbeats and settlements.
RunnerRoutes ==
    [CLAIM            |-> Route("run", "path", "never",
                                   [claimed |-> 200, empty |-> 200, timeout |-> 200,
                                    paused |-> 200, unavailable |-> 200]),
     HEARTBEAT        |-> Route("run", "job", "safe", [ok |-> 200, lost |-> 409]),
     COMPLETE         |-> Route("run", "job", "settlement", Settles),
     FAIL             |-> Route("run", "job", "settlement",
                                   [retry_scheduled |-> 200, dead |-> 200,
                                    already_settled |-> 200, settle_conflict |-> 409,
                                    lost |-> 409]),
     RELEASE          |-> Route("run", "job", "settlement", Settles),
     SNOOZE           |-> Route("run", "job", "settlement", Settles),
     CANCEL_RUNNING   |-> Route("run", "job", "settlement", Settles),
     WORKER_HEARTBEAT |-> Route("run", "declared", "safe",
                                   [continue |-> 200, shutdown_requested |-> 200])]

\* Read models and metrics.
ReadRoutes ==
    [GET_JOB          |-> Route("read", "job", "safe", Ok),
     LIST_JOB_EVENTS  |-> Route("read", "job", "safe", Ok),
     GET_QUEUE_STATS  |-> Route("read", "path", "safe", Ok),
     LIST_QUEUE_STATS |-> Route("read", "global", "safe", Ok),
     METRICS          |-> Route("read", "deployment", "safe", Ok)]

\* Presence, queue profiles and job pages.
PageRoutes ==
    [LIST_WORKERS     |-> Route("read", "global", "safe", Ok),
     GET_QUEUE        |-> Route("read", "path", "safe", Ok),
     LIST_JOBS        |-> Route("read", "query", "safe", Ok)]

\* Operator commands.
OperatorRoutes ==
    [PAUSE_QUEUE  |-> Route("control", "path", "safe", [paused |-> 200, already_paused |-> 200]),
     RESUME_QUEUE |-> Route("control", "path", "safe",
                               [resumed |-> 200, already_resumed |-> 200]),
     CANCEL       |-> Route("control", "job", "safe",
                               [cancelled |-> 200, cancel_requested |-> 202,
                                already_terminal |-> 200]),
     REDRIVE      |-> Route("control", "job", "safe", [redriven |-> 200]),
     EXPIRE_JOB   |-> Route("control", "job", "safe",
                               [expired_and_reaped |-> 200, not_running |-> 409]),
     EXPIRE_WORKER_LEASES |-> Route("control", "global", "safe", Ok),
     PURGE_QUEUED |-> Route("control", "path", "safe", Ok),
     RUN_NOW      |-> Route("control", "job", "safe", Ok),
     REPRIORITIZE |-> Route("control", "job", "safe", Ok),
     SET_CONCURRENCY_LIMIT |-> Route("admin", "global", "safe", Config),
     REQUEST_WORKER_SHUTDOWN |-> Route("control", "global", "safe", [accepted |-> 202])]

Routes ==
    Joined(Joined(ProducerRoutes, PlanRoutes),
           Joined(RunnerRoutes, Joined(ReadRoutes, Joined(PageRoutes, OperatorRoutes))))

\* Commands the routes serve.
AllCommands == DOMAIN Routes
=============================================================================
