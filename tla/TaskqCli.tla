------------------------------ MODULE TaskqCli ------------------------------
(***************************************************************************)
(* The operator console: the command catalogue of cli/specs.py, the        *)
(* transport method each command of cli/app.py calls, and what             *)
(* CliTransport makes of that method over SQL and over HTTP.               *)
(*                                                                         *)
(* A command first reads the target in a transaction of its own and        *)
(* validates it against its flags, then opens a second transaction for the *)
(* operation; in between the identity may be bound or rotated.  What only  *)
(* prints (context, schema, completion) and the polling loops of watch and *)
(* wait are left out; db migrate and target bind are in TaskqInstall.      *)
(***************************************************************************)
EXTENDS TaskqInstall

VARIABLE cli   \* the command under way: flags, the target it read, its gate

-----------------------------------------------------------------------------
(* cli/specs.py *)

Specs(sql, both, mutates, destructive, capability) ==
    [k \in sql \cup both |->
        [http |-> k \in both, mutates |-> k \in mutates,
         destructive |-> k \in destructive, capability |-> k \in capability]]

RootSpecs ==
    Specs({}, {"version", "doctor", "capabilities", "target.show"}, {}, {}, {})

QueueSpecs ==
    LET sql == {"queue.health", "queue.audit", "queue.redrive-failed",
                "queue.set-breaker", "queue.trip-breaker", "queue.close-breaker",
                "queue.set-breaker-rate", "queue.set-breaker-latency",
                "queue.set-aging", "queue.set-flow-limit"}
        both == {"queue.list", "queue.show", "queue.ensure", "queue.update",
                 "queue.pause", "queue.resume", "queue.purge"}
        reads == {"queue.list", "queue.health", "queue.audit", "queue.show"}
    IN Specs(sql, both, (sql \cup both) \ reads,
             {"queue.purge", "queue.redrive-failed"}, {})

JobSpecsForgetful ==
    LET both == {"job.list", "job.show", "job.events", "job.enqueue",
                 "job.enqueue-many", "job.cancel", "job.redrive", "job.run-now",
                 "job.reprioritize", "job.expire"}
        reads == {"job.list", "job.show", "job.events", "job.redrive"}
    IN Specs({}, both, both \ reads, {"job.expire"}, {"job.events"})

JobSpecs ==
    LET both == {"job.list", "job.show", "job.events", "job.enqueue",
                 "job.enqueue-many", "job.cancel", "job.redrive", "job.run-now",
                 "job.reprioritize", "job.expire"}
        reads == {"job.list", "job.show", "job.events"}
    IN Specs({}, both, both \ reads, {"job.expire"}, {"job.events"})

WorkerSpecs ==
    Specs({}, {"worker.run", "worker.list", "worker.shutdown", "worker.expire-leases"},
          {"worker.run", "worker.shutdown", "worker.expire-leases"},
          {"worker.expire-leases"}, {})

WorkflowSpecs ==
    LET both == {"workflow.list", "workflow.show", "workflow.create",
                 "workflow.seal", "workflow.cancel"}
    IN Specs({}, both, both \ {"workflow.list", "workflow.show"},
             {"workflow.cancel"}, {"workflow.list"})

ScheduleSpecs ==
    LET sql == {"schedule.set-smear", "schedule.manifest.plan",
                "schedule.manifest.apply", "schedule.manifest.retire"}
        both == {"schedule.list", "schedule.show", "schedule.pause",
                 "schedule.resume", "schedule.retire"}
        reads == {"schedule.list", "schedule.show", "schedule.manifest.plan"}
    IN Specs(sql, both, (sql \cup both) \ reads,
             {"schedule.retire", "schedule.manifest.retire"}, {"schedule.list"})

ServiceSpecs ==
    LET sql == {"scheduler.run", "scheduler.once", "maintenance.tick",
                "maintenance.janitor", "maintenance.prune-audit"}
    IN Specs(sql, {"scheduler.doctor", "metrics"}, sql,
             {"maintenance.janitor", "maintenance.prune-audit"}, {})

SpecTables ==
    {RootSpecs, QueueSpecs, JobSpecs, WorkerSpecs, WorkflowSpecs, ScheduleSpecs,
     ServiceSpecs}

COMMAND_SPECS == [k \in UNION {DOMAIN t : t \in SpecTables} |-> Entry(SpecTables, k)]

-----------------------------------------------------------------------------
(* cli/app.py: the transport method that carries out a command (the last    *)
(* one, where a command reads before it writes)                             *)

RootCommands ==
    {<<"version", "get_contract_meta">>,
     <<"capabilities", "get_contract_meta">>,
     <<"doctor", "get_scheduler_health">>,
     <<"target.show", "get_target_identity">>}

QueueCommands ==
    {<<"queue.list", "get_queue_stats">>,
     <<"queue.health", "get_queue_health">>,
     <<"queue.audit", "list_queue_audit">>,
     <<"queue.show", "get_queue_profile">>,
     <<"queue.ensure", "ensure_queue">>,
     <<"queue.update", "update_queue_profile">>,
     <<"queue.pause", "pause_queue">>, <<"queue.resume", "resume_queue">>}

QueueTuning ==
    {<<"queue.purge", "purge_queued">>,
     <<"queue.redrive-failed", "redrive_failed">>,
     <<"queue.set-breaker", "set_breaker_config">>,
     <<"queue.trip-breaker", "trip_breaker">>,
     <<"queue.close-breaker", "force_close_breaker">>,
     <<"queue.set-breaker-rate", "set_breaker_rate">>,
     <<"queue.set-breaker-latency", "set_breaker_latency">>,
     <<"queue.set-aging", "set_priority_aging">>,
     <<"queue.set-flow-limit", "set_flow_limit">>}

JobReads ==
    {<<"job.list", "list_jobs">>, <<"job.show", "get_job">>,
     <<"job.events", "list_job_events">>}

JobWrites ==
    {<<"job.enqueue", "enqueue">>, <<"job.enqueue-many", "enqueue_many">>,
     <<"job.cancel", "cancel">>, <<"job.redrive", "redrive">>,
     <<"job.run-now", "run_now">>, <<"job.reprioritize", "reprioritize">>,
     <<"job.expire", "expire_job">>}

\* worker run validates, closes its probe transport and starts the service.
WorkerCommands ==
    {<<"worker.run", "claim">>, <<"worker.list", "list_worker_presence">>,
     <<"worker.shutdown", "request_worker_shutdown">>,
     <<"worker.expire-leases", "expire_worker_leases">>}

WorkflowCommands ==
    {<<"workflow.list", "list_workflows">>,
     <<"workflow.show", "get_workflow_page">>,
     <<"workflow.create", "create_workflow">>,
     <<"workflow.seal", "seal_workflow">>,
     <<"workflow.cancel", "cancel_workflow">>}

ScheduleCommands ==
    {<<"schedule.list", "list_schedules">>,
     <<"schedule.show", "get_schedule">>,
     <<"schedule.pause", "put_schedule">>,
     <<"schedule.resume", "put_schedule">>,
     <<"schedule.retire", "retire_schedule">>,
     <<"schedule.set-smear", "set_schedule_smear">>}

ManifestCommands ==
    {<<"schedule.manifest.plan", "list_managed_schedules">>,
     <<"schedule.manifest.apply", "put_managed_schedule">>,
     <<"schedule.manifest.retire", "retire_schedule">>}

ServiceCommands ==
    {<<"scheduler.run", "claim_schedules">>,
     <<"scheduler.once", "claim_schedules">>,
     <<"scheduler.doctor", "get_scheduler_health">>,
     <<"maintenance.tick", "tick">>, <<"maintenance.janitor", "janitor">>,
     <<"maintenance.prune-audit", "prune_queue_audit">>,
     <<"metrics", "metrics">>}

Commands ==
    UNION {RootCommands, QueueCommands, QueueTuning, JobReads, JobWrites,
           WorkerCommands, WorkflowCommands, ScheduleCommands, ManifestCommands,
           ServiceCommands}

MethodOf(k) == (CHOOSE c \in Commands : c[1] = k)[2]

-----------------------------------------------------------------------------
(* cli/transport.py: what CliTransport does for the method over HTTP        *)

\* Methods CliTransport refuses over HTTP with a capability error.
SqlOnly ==
    {"get_queue_health", "list_queue_audit", "redrive_failed", "set_breaker_config",
     "trip_breaker", "force_close_breaker", "set_breaker_rate",
     "set_breaker_latency", "set_priority_aging", "set_flow_limit",
     "set_schedule_smear", "tick", "janitor", "prune_queue_audit"}

\* job_control builds the bodies of all its actions before it picks one, so
\* the one that reads values["priority"] runs for every action.
JobControl(m) == IF m = "reprioritize" THEN "route" ELSE "crash"

OverHttp(m) ==
    CASE m \in SqlOnly -> "capability"
      [] m \in {"cancel", "redrive", "run_now", "reprioritize", "expire_job"}
           -> JobControl(m)
      [] OTHER -> "route"

-----------------------------------------------------------------------------
(* One command *)

Flags == [env : {"none", "staging", "production"}, pin : {0, 1},
          allow : BOOLEAN, yes : BOOLEAN]

NoCommand == [mode |-> "none", flags |-> [env |-> "none", pin |-> 0, allow |-> FALSE,
              yes |-> FALSE], target |-> NoIdentity,
              destructive |-> FALSE, http |-> "none"]

CliInit == InstallInit /\ cli = NoCommand

\* _validate_target: the target read against the flags.
Validated(spec, f, target) ==
    LET env == target[2]
    IN /\ spec.mutates => f.env # "none"
       /\ f.env # "none" => env = f.env
       /\ f.pin # 0 => target[1] = f.pin
       /\ spec.mutates => env # "unbound"
       /\ spec.destructive => f.yes
       /\ spec.mutates /\ env = "production" => f.pin # 0 /\ f.allow /\ f.yes

\* _transport_operation (and _detached_runtime_operation): transports,
\* target, validation, capability (activated after GuardAt), all before the
\* operation.  What is refused leaves no trace (an SQL mutation without an
\* actor, an HTTP command with one, among them).
Command(k, mode, f) ==
    LET spec == COMMAND_SPECS[k]
        m == MethodOf(k)
    IN /\ mode = "http" => spec.http
       /\ db.env # "none" /\ Validated(spec, f, Identity)
       /\ spec.capability => db.schema >= GuardAt
       /\ cli' = [mode |-> mode, flags |-> f, target |-> Identity,
                  destructive |-> spec.destructive,
                  http |-> IF mode = "http" THEN OverHttp(m) ELSE "none"]
       /\ cl' = [cl EXCEPT !["cli"] =
              [pc |-> IF mode = "sql" THEN "begun" ELSE "idle",
               own |-> TRUE, mac |-> NoIdentity, protected |-> FALSE, call |-> CallOf(m),
               expects |-> [env |-> f.env, pin |-> f.pin,
                            production |-> f.env = "production"],
               effect |-> "none", told |-> "none"]]
       /\ UNCHANGED <<cast, db, lock, share, run, op, vf>>

\* The request of a command over HTTP: the facade's own transport carries it
\* out, or CliTransport fails before anything is sent.
Request ==
    /\ cli.http # "none"
    /\ cli' = [cli EXCEPT !.http = "none"]
    /\ cl' = [cl EXCEPT !["cli"].effect =
                 IF cli.http = "route" /\ cl["cli"].call.writes THEN "committed" ELSE "none"]
    /\ UNCHANGED <<cast, db, lock, share, run, op, vf>>

CliNext ==
    \/ InstallNext /\ UNCHANGED cli
    \/ /\ cast.console /\ cl["cli"].pc = "idle" /\ cli.http = "none"
       /\ \E k \in DOMAIN COMMAND_SPECS, mode \in {"sql", "http"}, f \in Flags :
            Command(k, mode, f)
    \/ Request

CliSpec == CliInit /\ [][CliNext]_<<vars, cli>>

-----------------------------------------------------------------------------
(* Properties *)

\* Every effect a console command has was gated as a mutation on the target
\* it read: a named environment that matches, never unbound, confirmed when
\* destructive, and on production pinned, allowed and confirmed.  The gate
\* rests on the catalogue's mutates flag; a command that writes and is
\* catalogued as a read would pass by it.
GatedEffects ==
    cl["cli"].effect # "none" =>
        LET env == cli.target[2]
            f == cli.flags
        IN /\ env # "unbound" /\ f.env = env
           /\ cli.destructive => f.yes
           /\ env = "production" => f.pin = cli.target[1] /\ f.allow /\ f.yes

=============================================================================
