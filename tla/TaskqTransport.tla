--------------------------- MODULE TaskqTransport ---------------------------
(***************************************************************************)
(* The catalogue of SqlTaskqTransport (sql/transport.py): for each method  *)
(* the SQL function it calls in one statement, whether that call attests   *)
(* the target first, whether it may join a transaction of its caller, and  *)
(* where its reply is checked: inside the transaction, so that an answer   *)
(* outside the contract rolls the call back, or after the commit.          *)
(***************************************************************************)

Row(fn, writes, attests, joins, outside) ==
    [fn |-> fn, writes |-> writes, attests |-> attests, joins |-> joins,
     outside |-> outside]

Read(fn) == Row(fn, FALSE, FALSE, FALSE, FALSE)
ReadIn(fn) == Row(fn, FALSE, FALSE, TRUE, FALSE)
Write(fn) == Row(fn, TRUE, FALSE, FALSE, FALSE)
WriteIn(fn) == Row(fn, TRUE, FALSE, TRUE, FALSE)
Protected(fn) == Row(fn, TRUE, TRUE, FALSE, FALSE)
ProtectedIn(fn) == Row(fn, TRUE, TRUE, TRUE, FALSE)
\* _operator_scalar: the scalar is validated by its caller, after the commit.
Scalar(fn) == Row(fn, TRUE, FALSE, FALSE, TRUE)

ProducerMethods ==
    [enqueue |-> WriteIn("enqueue"), create_workflow |-> WriteIn("create_workflow"),
     seal_workflow |-> WriteIn("seal_workflow")]

AdmissionMethods ==
    [reserve_admission |-> WriteIn("reserve_admission"),
     finish_admission |-> WriteIn("finish_admission"),
     cancel_admission |-> WriteIn("cancel_admission")]

ClaimMethods ==
    [enqueue_many |-> WriteIn("enqueue_many"), claim |-> ProtectedIn("claim_jobs")]

SettleMethods ==
    [heartbeat |-> WriteIn("heartbeat"), complete |-> WriteIn("complete_job"),
     fail |-> WriteIn("fail_job")]

ReturnMethods ==
    [snooze |-> WriteIn("snooze_job"), release |-> WriteIn("release_job"),
     cancel_running |-> WriteIn("cancel_running_job"),
     worker_heartbeat |-> Write("worker_heartbeat")]

PageMethods ==
    [get_authorization_projection |-> Read("get_authorization_projection"),
     get_workflow_authorization_projection |->
         Read("get_workflow_authorization_projection"),
     get_job |-> Read("get_job"), list_jobs |-> Read("list_jobs"),
     list_job_events |-> Read("list_job_events"),
     list_workflows |-> Read("list_workflows"),
     list_worker_presence |-> Read("list_worker_presence")]

StatMethods ==
    [get_queue_profile |-> Read("get_queue_profile"),
     get_workflow_page |-> Read("get_workflow_page"),
     get_queue_stats |-> Read("get_queue_stats"),
     get_contract_meta |-> Read("get_contract_meta"),
     get_target_identity |-> ReadIn("get_target_identity"),
     get_queue_health |-> Read("queue_health"),
     list_queue_audit |-> Read("list_queue_audit")]

\* The owner functions check the target they are given themselves.
OwnerMethods ==
    [prune_queue_audit |-> Write("prune_queue_audit"),
     get_queue_admission_owner |-> Read("get_queue_admission_owner"),
     get_queue_admission_owner_identity |-> Read("get_queue_admission_owner_identity"),
     bind_queue_admission_owner |-> Write("bind_queue_admission_owner"),
     adopt_queue_admission_owner |-> Write("adopt_queue_admission_owner"),
     rotate_queue_admission_owner |-> Write("rotate_queue_admission_owner")]

TargetMethods ==
    [get_scheduler_health |-> Read("get_scheduler_health"),
     bind_target_identity |-> WriteIn("bind_target_identity"),
     metrics |-> Read("metrics")]

QueueMethods ==
    [ensure_queue |-> Write("ensure_queue"),
     update_queue_profile |-> Write("update_queue_profile"),
     pause_queue |-> Scalar("pause_queue"), resume_queue |-> Scalar("resume_queue"),
     set_concurrency_limit |-> Scalar("set_concurrency_limit"),
     request_worker_shutdown |-> Scalar("request_worker_shutdown"),
     purge_queued |-> Scalar("purge_queued"), run_now |-> Scalar("run_now"),
     reprioritize |-> Scalar("reprioritize")]

CancelMethods ==
    [cancel |-> Write("cancel_job"), cancel_workflow |-> Write("cancel_workflow")]

ScheduleMethods ==
    [put_schedule |-> ProtectedIn("put_schedule"), get_schedule |-> ReadIn("get_schedule"),
     list_schedules |-> ReadIn("list_schedules"),
     list_managed_schedules |-> ReadIn("list_managed_schedules"),
     put_managed_schedule |-> ProtectedIn("put_managed_schedule")]

ScheduleStateMethods ==
    [set_schedule_state |-> ProtectedIn("set_schedule_state"),
     retire_schedule |-> ProtectedIn("retire_schedule"),
     get_schedule_authorization_projection |->
         ReadIn("get_schedule_authorization_projection"),
     redrive |-> Scalar("redrive_job"), redrive_failed |-> Write("redrive_failed")]

FlowMethods ==
    [try_enqueue |-> WriteIn("try_enqueue"), set_flow_limit |-> Write("set_flow_limit"),
     set_schedule_smear |-> Write("set_schedule_smear"),
     set_breaker_config |-> Write("set_breaker_config"),
     trip_breaker |-> Write("trip_breaker"),
     force_close_breaker |-> Write("force_close_breaker")]

TuningMethods ==
    [set_breaker_rate |-> Write("set_breaker_rate"),
     set_breaker_latency |-> Write("set_breaker_latency"),
     set_priority_aging |-> Write("set_priority_aging"),
     expire_job |-> Scalar("expire_job"),
     expire_worker_leases |-> Scalar("expire_worker_leases")]

HousekeepingBare ==
    [tick |-> Protected("tick"), janitor |-> Write("janitor"),
     claim_schedules |-> ProtectedIn("claim_schedules"),
     fire_schedule |-> ProtectedIn("fire_schedule"),
     schedule_error |-> ProtectedIn("schedule_error")]

HousekeepingMethods ==
    [tick |-> Protected("tick"), janitor |-> Protected("janitor"),
     claim_schedules |-> ProtectedIn("claim_schedules"),
     fire_schedule |-> ProtectedIn("fire_schedule"),
     schedule_error |-> ProtectedIn("schedule_error")]

MethodTables ==
    {ProducerMethods, AdmissionMethods, ClaimMethods, SettleMethods, ReturnMethods,
     PageMethods, StatMethods, OwnerMethods, TargetMethods, QueueMethods, CancelMethods,
     ScheduleMethods, ScheduleStateMethods, FlowMethods, TuningMethods,
     HousekeepingMethods}

\* The entry of a key in one of several tables.
Entry(tables, key) == (CHOOSE t \in tables : key \in DOMAIN t)[key]

Methods == [m \in UNION {DOMAIN t : t \in MethodTables} |-> Entry(MethodTables, m)]

\* The SQL functions that call require_target_attestation since 0020 (0025
\* and 0031 replace the two claim_jobs and keep the call).
GuardedFunctions ==
    {"put_schedule", "put_managed_schedule", "retire_schedule", "set_schedule_state",
     "claim_schedules", "fire_schedule", "schedule_error", "janitor", "tick",
     "claim_jobs"}

\* What a running call needs to know of its method.
CallOf(m) ==
    [writes |-> Methods[m].writes, attests |-> Methods[m].attests,
     outside |-> Methods[m].outside,
     guarded |-> Methods[m].fn \in GuardedFunctions]

Calls == {CallOf(m) : m \in DOMAIN Methods}
JoiningCalls == {CallOf(m) : m \in {n \in DOMAIN Methods : Methods[n].joins}}
=============================================================================
