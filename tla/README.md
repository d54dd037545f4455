# A TLA+ model of outlabs-taskq

outlabs-taskq is a durable task queue whose whole state lives in one PostgreSQL
schema. Producers, workers, schedulers and operators call SQL functions
(`src/src/taskq/sql/migrations/0001 … 0048`; the last definition of a function
is the one that runs); a Python package (`src/src/taskq/`) supplies the worker
runtime, the scheduler process, an HTTP facade and the CLI on top of them.
This directory models the parts that decide whether work is lost, doubled,
forgotten or stuck, checks them with TLC on small instances, and proves the
central ones with TLAPS for every size. Two implementations of the same
functions, the SQL one and the test kit's, are compared by refinement.

Contents: [inventory](#inventory) · [modules](#modules) · [runs](#runs) ·
[bounds](#bounds) · [fairness](#fairness) · [proofs](#proofs) ·
[met while modelling](#met-while-modelling) ·
[what is not modelled](#what-is-not-modelled) · [plan](#plan)

## Inventory

| Component | State it keeps | Operations | Interacts with |
|---|---|---|---|
| Job lifecycle | `jobs`, `job_attempts`, `concurrency_limits` | `enqueue`, `claim_jobs`, `heartbeat`, `complete/fail/snooze/release_job`, `cancel_running_job`, `reap_job`, `cancel_job`, `purge_queued`, `expire_job`, `expire_worker_leases`, `run_now`, `redrive_job`, `expire_ttl`, `janitor` | everything; workers hold an attempt id as their fence |
| Job dependencies | `job_deps`, `jobs.pending_deps` | edges written by `enqueue`, promotion in `complete_job`, `cancel_dependents`, `finalize_dep_stragglers` | called from every settlement and from the tick |
| Workflows | `workflows`, `workflow_member_counts` | `create_workflow`, `seal_workflow`, `cancel_workflow`, `advance_workflow_cancellations`, `finalize_workflows`, the row trigger `update_workflow_member_counts` | `enqueue` and `complete_job` admit members; `claim_jobs` respects a cancellation |
| Worker | claim loop, one run per slot, heartbeat coroutines, stop flags (`worker.py`) | claim, execute, heartbeat, cancel, settle with retries, soft stop, deadline | calls the job functions; any call or answer may be lost |
| Lease timing | `lease_expires_at` against the worker's clock | `_heartbeat_loop`, `_lease_budget`, `_heartbeat_interval` | the reaper |
| Recurring schedules | `schedules` (definition, cursor, claim, errors), `schedule_occurrences` | `put_schedule`, `put_managed_schedule`, `set_schedule_state`, `retire_schedule`, `set_schedule_smear`, `claim_schedules`, `fire_schedule`, `schedule_error`, pruning; `evaluate_schedule`, `SchedulerEngine`, `SchedulerService` | enqueues jobs |
| Circuit breaker | the `breaker_*` columns of `queue_flow` | `_breaker_gate`, `_breaker_on_settle`, `trip_breaker`, `force_close_breaker`, `set_breaker_config` | gates claims, observes settlements |
| Flow control | `queue_flow`, `queue_counters`, `concurrency_limits`, `flow_limits`, `flow_state` | running cap, saturated keys, advisory locks of keys, `_flow_consume_queue`, `flow_key_admit`, ramp | gates claims |
| Admission | `admissions`, admission owner of a queue | `reserve/finish/cancel_admission`, adoption and rotation of the owner | creates jobs |
| Effect fences | row locks | `lock_active_effect_attempt`, `lock_terminal_effect_job` | host transactions |
| Queue control | `queues` | `ensure_queue`, `pause_queue`, `resume_queue` | gates claims and enqueues |
| Protocol | none: the tables of `protocol.py` | commands, routes, outcomes, retry classes, errors | read by clients, facade and SQL transport |
| HTTP facade and clients | parked claims; per client compatibility, closed flag and (sync) a lock | one route per command, hand-back of undelivered claims, retries by class | the SQL functions; the hub |
| Runtime, hub, listener | runtime state, six tasks (the waiting host is one), hub generations and subscribers, one LISTEN connection | `start`, `stop`, ticks, exit monitor, reconnect, drain, `subscribe`/`publish`/`shutdown` | parked claims sleep on the hub; NOTIFY wakes them; embeds a worker |
| SQL transport | one connection or a host's | one method per SQL function, attestation, validation of the reply | everything above it |
| Installer, verifier | `schema_migrations`, advisory lock, catalog | `migrate` (owned, hosted), `verify`, `db plan/migrate` | in front of all functions |
| Target identity | `target_identity` | initialise, reissue, attest | guards protected functions |
| CLI | the command under way | the command table and its gates | SQL and HTTP transports |
| Test kit | `FakeTaskQClient`'s dictionaries, `drain` | the job and workflow functions in memory | stands in for the SQL functions in tests |
| Read models, typed client, authorization adapter, bench | none of their own | queries, parsing, formatting, measuring | — |

What is hard about it, and what makes it right:

* **Calls that repeat, arrive late or get lost.** A worker may call for an
  attempt long after the reaper gave the job to another worker. The fence
  (`status = 'running'` and `current_attempt_id`) must hold on every path, the
  ledger must answer repeats truthfully, and one job must never run under two
  live attempts.
* **Counters that decide.** `failure_count`, `expiry_streak`, `pending_deps`,
  `workflow_member_counts`: each must agree with the rows it stands for through
  every order of settlements, expiries, snoozes, redrives and retention.
* **Intents that must survive.** A cancel asked of a running job or workflow
  outlives snoozes, releases, lost leases, continuations and crashes.
* **Cascades in pieces.** One settlement reaches one level of dependents, up
  to a limit, skipping locked rows; the tick has to finish the rest.
* **Three reasons to stop one handler.** Shutdown, operator cancel and lease
  loss reach a run in any order while its settlement is being retried.
* **Evaluation outside the transaction.** A scheduler computes what is due from
  a claim it took earlier, while operators change the schedule and other
  schedulers take it over; the database has to accept a proposal once, and only
  for the definition it was made from.
* **Two clocks.** The worker has to give a job up before the queue gives it
  away, with heartbeats that fail, hang and execute after their caller left.
* **Gates read before they bind.** A claim looks at the breaker, the running cap
  and the saturated keys before it waits for the row or picks a job; another
  claim may have changed all three by then.
* **A request that outlives its caller.** An HTTP try that timed out is still
  served; a claim may be parked, granted and have nobody to tell.
* **Sleeping and being woken.** A job becomes ready between the query that found
  nothing and the sleep, or while the LISTEN connection is down.
* **Taking things down.** Start, ticks, the exit monitor, requests and a stop
  share one state and may each be cancelled or fail.
* **A database that changes under its callers.** Installers race, identities are
  bound and rotated, a connection attested one target and meets another.
* **Two implementations.** Applications test against a fake that has to do what
  the SQL functions do.

`PROJECT.json` lists each of these as a hazard at its line, with the
properties that would catch it.

## Modules

| Module | Models | Composes |
|---|---|---|
| `TaskqJobs` | job lifecycle and dependencies | — |
| `TaskqWorkflows` | workflows | extends `TaskqJobs`: takes each of its actions under the workflow conditions, with the counter trigger |
| `TaskqWorker` | one worker process | instantiates `TaskqJobs` as the queue it talks to |
| `TaskqLease` | one job's lease against its heartbeats, in discrete time | — |
| `TaskqSchedules` | recurring schedules, their evaluator and the schedulers | — |
| `TaskqFlow` | the gates of a claim, statement by statement: breaker, running cap, concurrency keys | — |
| `TaskqProtocol` | the tables of Protocol v1 | — |
| `TaskqHttp` | both HTTP clients, the facade, lost requests and answers | extends `TaskqProtocol`, instantiates `TaskqJobs` as the database |
| `TaskqLongPoll` | hub, LISTEN connection, listener, parked claims | — |
| `TaskqRuntime` | the process lifespan around them | extends `TaskqLongPoll` |
| `TaskqTransport` | the method table of the SQL transport | — |
| `TaskqInstall` | migrations, verification, target identity, attested calls | extends `TaskqTransport` |
| `TaskqCli` | the command table and its gates | extends `TaskqInstall` |
| `TaskqFake` | the in-memory client of the test kit and `drain` | refines `TaskqJobs` (`Db == INSTANCE TaskqJobs WITH …`) |
| `TaskqJobsProofs` | the invariants of `TaskqJobs` and its theorems | extends `TaskqJobs` |
| `TaskqWorkflowsProofs` | that a step of the workflows is a step of the jobs; the invariant of the counters | extends `TaskqWorkflows` and `TaskqJobsProofs` |
| `TaskqWorkerProofs` | the invariant of a run against the ledger | extends `TaskqWorker`, instantiates `TaskqJobsProofs` |
| `TaskqInstallProofs` | the invariants of the runners, of attested calls, of the console and of `verify` | extends `TaskqCli` |
| `TaskqServerProofs` | the invariants of the parked claims and of the lifespan; what a call over HTTP did, against the tables | extends `TaskqRuntime` and `TaskqHttp`, instantiates `TaskqJobsProofs` |
| `TaskqClientProofs` | the invariant of the heartbeats against the lease; that the fake implements the jobs | extends `TaskqLease` and `TaskqFake` |
| `TaskqSchedulesProofs`, `TaskqFlowProofs` | the invariants of those modules and their theorems | extend them |
| `MCJobs`, `MCWorkflows`, `MCWorker`, `MCLease`, `MCSchedules`, `MCFlow`, `MCHttp`, `MCRuntime`, `MCInstall`, `MCFake` | TLC instances | — |

Some definitions are wrong variants of the definition that follows them
(`ElectAnyway` before `Elect`, for one); no specification uses them. They are
there to show that the properties notice the mistake.

**TaskqJobs.** `jobs` and `attempts` are the two tables as functions from ids
to records whose fields are the columns the guards read (each is named beside
its field); `deps` is the edge table, `limits` the concurrency limits. A row
that does not exist yet is `absent`, one that retention removed is `deleted`,
so that a stale id can still be asked about. Every SQL function is one
transaction that locks the job row before it decides, hence one action, and
the action contains what the function calls: the attempt row, the job row, the
event, and the dependents the event cancels (`Settle`, `Cascaded`). Passes
that use `SKIP LOCKED` and a `LIMIT` act on an arbitrary subset of their
candidates. Time is reduced to what is compared with `now()`. Any runner call
may be made at any moment for any attempt ever handed out: that is the model of
retries, lost answers, duplicates and paused processes, so no message queue is
needed. `settledBy` and `needs` are history variables that only properties
read.

**TaskqWorkflows.** `flows` is `taskq.workflows`, `counts` and `admitted` are
`taskq.workflow_member_counts`. The trigger is the action conjunct `Triggers`:
it compares each row before and after the call, which is what the row trigger
sees, deletions included. `EnqueueMember`, `ClaimMember` and `CompleteMember`
add the workflow conditions of their functions; `JobStep` is every call that
knows of workflows only through the trigger. `ended` is history.

**TaskqWorker.** One record per attempt is the `_RunControl` and the locals of
its coroutines, `sup` and `svc` are the supervisor and the service. A step is
what the event loop does between two awaits. A call to the queue is one step
that executes it (an action of `TaskqJobs`) and a later one that delivers its
answer; both may be lost. Timers may fire at any time after they are set,
which is why exact timing has a module of its own. `Report` is the common end
of a run, with the soft stop a fatal report starts. Shutdown, cancel and lease
loss only ask a handler to stop (`asked`): it may stop where it awaits, end
otherwise, or go on. The soft-stop timer exists only where `soft_stop_timeout`
was given (`timed`); `ForceStop` is the second signal. Whether a settlement is
tried again is decided when a try fails, before the backoff, so a stop that ends
the backoff early still makes one more call. A settlement may be refused by the
client or the facade, in which case nothing is known of its fence.

**TaskqLease.** `now` ticks in integers and does not pass a timer that is due.
The worker record is the locals of `_heartbeat_loop`. A call that timed out may
still be executed later (`stray`). `faults` is chosen once: with it calls may
fail and hang, without it they are answered within `AnswerDelay`.

**TaskqSchedules.** `rows` is `taskq.schedules`, `occs` is
`taskq.schedule_occurrences` with what became of each job, `claims[t]` is what
the claim with token `t` handed out together with what the package's evaluator
makes of it. A claim may be acted on at any later moment and any number of
times, by `ProcessClaim` (the body of `process_batch` for one claim) or, when
`foreign` is set, by a program with the housekeeper's rights that proposes
anything the bounds of `fire_schedule` accept. Calls that answer `stale` or
`replayed`, or raise, change nothing and are no steps, so the columns
`last_action_*` are not in the state; neither is the audit trail
`schedule_decisions`. Instants are integers; a cron expression is the multiples
of a period, an interval counts from the cursor, and `broken` stands for a
recurrence the evaluator refuses. `janitor` prunes by `due_at`, which is never
later than the `created_at` the code compares. `seen` and `anchor` are history.

**TaskqFlow.** `flow` is the committed row of `queue_flow`, `running` the jobs
that run as committed, `claim[c]` the local state of one claim transaction:
what it read, which rows and keys it has locked, which update of the row it has
not committed. `Gate` to `Commit` are the statements of `claim_jobs` in order,
under READ COMMITTED: a plain read sees what is committed, an UPDATE waits for
the row (`RowFree`) and looks again. `Abort` is a claim that fails or is
cancelled at any of them. `Settle` is a settlement with the trigger on it;
`Returns` every end of a run on which the trigger does not fire. Ages replace
timestamps: `now()` is the start of a transaction, so a claim that waited
compares with an age that is `elapsed` older. A member of `Jobs` is a place in
a backlog and can be claimed again and again. `past` is history.

**TaskqProtocol, TaskqHttp.** The tables are the registries, reduced to what
decides: outcome sets, errors, statuses, required action, retry class. A call
of a client method (`calls`) sends tries; a try is a request (`reqs`) that the
facade serves step by step: authorise, call the database, map the outcome. The
client may give a try up at any time and the server serve it at any later one.
A claim may park, notices a closed connection only where the code looks, and
hands a batch back job by job. A claim may also commit in the database while its
answer is lost on the way to the facade: the facade then answers TQ503 with no
batch in hand, releases nothing, and the attempts go to `stuck`, next to those
whose own release raised. An enqueue is keyed by an idempotency key, by the step
of a workflow (a member of `Steps` is a pair of workflow and step key), or not at
all. Commands that do not touch the job tables answer anything their registry
entry allows.

**TaskqLongPoll, TaskqRuntime.** A step is what runs between two awaits.
`hub` has a generation per queue, `source` the LISTEN connection with its lock,
`listener` the monitor and the drainer; a claim request goes through check,
subscribe, recheck, sleep. The runtime adds `tasks` (start, housekeeper, exit
monitor, stop), each of which may take the process down through the same
cleanup (`Cleanup`, `Join`, `CloseResources`), be cancelled in it, or find it
done, and the host that called `stop()` and may be cancelled as it waits
(`StopCancelled`; the stop itself is shielded). `budget` says how many jobs, lost
connections and requests a behaviour has, and whether the host is cancelled.

**TaskqTransport, TaskqInstall, TaskqCli.** A transport method is a row of a
table: function, writes, attested, joins a host's transaction, validated
outside. A runner plans, locks, rechecks and applies scripts one by one, or all
in a host's transaction; a session may be lost at each step. `db` is what is
committed: schema, ledger, identity, drift. `verify` runs its probes one by
one. A console command reads the target, passes its gate and then opens a
transaction of its own. `cast` chooses who takes part in a behaviour.

**TaskqFake.** One action per method of the fake, which never awaits between two
writes. `rows`, `keys`, `flows` are its dictionaries; a row has the fields of its
command, concurrency key and time to live among them, which the fake stores and
never reads again. `ledger`, `settledBy` and `extra` are history: what the SQL
functions would have stored besides. `ClockReaches` and `TtlRunsOut` are the
clock, against `scheduled_at` and against the `expires_at` the database would
have computed. What neither side of the comparison has, it cannot tell apart:
flow keys and limits, queue defaults, priority and claim order.

## Runs

Twelve runs, all of which pass; each line names the properties of the run.

| Run | Question | Properties |
|---|---|---|
| `jobs_retry` | one job, four attempts, two workers, two budgets, a time to live, a concurrency key whose cap changes: every order of settlements, expiries, cancels and late calls | `LedgerAgrees` (one running attempt per running job, naming it); `ReplayHonest` (answers to repeats); `BudgetBound` (retry and poison limits exact); `SettledFrozen`; `CancelSticks` (a cancel is never forgotten) |
| `jobs_deps` | three jobs, every dependency graph, one idempotency key, one workflow | `PendingCounts` (a blocked job counts its edges, and has one to every parent yet to succeed), `DepsHonoured`, `OneActivePerKey` across redrives |
| `worker_run` | one job through two attempts, every kind of handler, lost calls and answers, operator cancel, lease loss, stop | `ReportTruthful`, `OneVerb`, `VerbFits` (no success after a warning, no finished work released), `NoCallAfterLoss` |
| `worker_stop` | fair event loop, with and without a soft-stop timeout, a claim that a stop may cancel | `StopEnds` (the stop ends, asks for process exit, or is held by a handler that was told to stop and goes on), `SlotFreed` |
| `lease` | one lease of 12 instants, claims of up to 6, answers of up to 3 | `Exclusive`, `UnconfirmedBound`, `KeptWhenHealthy` |
| `workflows` | one workflow, two jobs, limits 1 and 2, with fair ticks | `EndedQuiet` (an ended workflow has no open member), `LimitHolds`, `OutcomeBacked`, `FlowsEnd` (sealed and cancelled workflows end) |
| `schedules` | one schedule, three claims, every operator change, with and without foreign evaluators | `BehindCursor` (no instant is processed twice, pruned or not), `NothingMissed` (`fire_all` processes every instant), `OverlapForbidden`, `CursorByDefinition` |
| `flow` | two claims, settlements and operators interleaved statement by statement | `BreakerHonest` (one probe per opening; no trip without the settlements for it), `CapsHold` (no key above its cap; the queue by no more than what claims at once may take), `NeverWedged` (no breaker stays half open) |
| `http` | a call of any job method over both clients, requests and answers lost on either side of the facade, callers that go away; two calls that share a client | `OnceDespiteRetry` (one batch per claim call; per enqueue call one active job, or one row of its workflow step), `HandedBack` (a batch the facade has and cannot deliver is given back), `NobodyStuck` |
| `runtime` | requests, connection losses, fatal ticks, an unsafe worker, a stop whose host may be cancelled as it waits | `NoLostWakeup`, `ReadyHonest`, `StopSettles` |
| `install` | two runners of different packages, callers, operators who bind and rotate, a verifier, a console | `MigrationsWhole`, `EffectsOnExpected`, `CallsHonest`, `VerifiedWhole`, `GatedEffects` |
| `fake` | three jobs, two attempts, a workflow, an idempotency and a concurrency key, times to live, later starts, `drain` | `FakeImplements`: every step is a step of `TaskqJobs`, but for the three kinds in `Differs` |

Every property has a fault in `PROJECT.json` ("mutants") that TLC finds through
that property. `CHECK_DEADLOCK FALSE` is set throughout: ids are used once, or
behaviours are budgeted, so each instance comes to rest when they are spent.

**Refinement.** `TaskqFake` implements `TaskqJobs`: `DbJob(j)` maps the fake's
row to the columns of `taskq.jobs`, `Edges` the needs that are still open to
`job_deps`, and each call has to be an action of `TaskqJobs` (or change none of
its variables). An enqueue has to be the `enqueue` of the command read off the
row it made (`Enqueued`), so a row that forgets part of its command is not
accepted. The fake disagrees with the database in three ways, which `Differs`
states:

* `Overclaims`: `claim` grants a job whose time to live has passed, and one whose
  concurrency key already runs at its cap; `claim_jobs` withholds both. Otherwise
  the step is that of `claim_jobs`.
* `IgnoresCancel`: `fail`, `snooze` and `release` of a job whose cancellation was
  requested retry, defer, release or dead-letter it; the SQL functions cancel it.
* `CancelsBranch`: a failed or cancelled job cancels all that waits below it in
  one step; the SQL function cancels one level and leaves the rest to later ticks.

Each of them fixes the whole step: the row of the settled job is a given function
of its row before (`Ends`, `Dead`), the rest of the branch is `DepCancelled`, the
edges are those that remain, ledger and verb are recorded, and no other row
changes.

## Bounds

* `Attempts` bounds the number of claims, `Jobs` the number of enqueues and
  followups; nothing else is capped in `TaskqJobs`. Four attempts of one job
  reach the poison limit of three with one attempt to spare, and both sides of
  a budget of two; a budget of five lets poison come first. Three jobs are
  enough for a chain and for two parents.
* `jobs_retry`, `jobs_deps`, `http` and `fake` use symmetry over ids and keys,
  which are only compared for equality. The runs with liveness do not.
* `worker_run` has one slot and two attempts, so that a run of the first
  attempt can still be alive while the second is claimed; `MaxTries = 2`
  leaves a first try, a retry and giving up.
* `lease`: 12 instants make the divisions by 3 and 4 exact. An instant may
  stand for several seconds; the caps of 30 and 60 seconds do not bind at this
  size, they do in the proofs, which hold for every lease.
* `workflows`: two jobs are a member and its continuation or dependent; limit
  1 refuses the second, limit 2 admits it.
* `schedules`: instants 0 to 3 (`MaxTime`) and a claim lease of one, so that a
  claim can expire and be taken over twice; an interval of two and a cron of
  one instant, so that a schedule can be further behind than `max_catchup = 2`;
  one change of the definition after it was made (`MaxVersion = 2`; pausing and
  retiring may go beyond). Tokens are symmetric: they are only compared.
* `flow`: two claims race for every gate; of three jobs two share the key,
  whose cap is one, so a second holder must be refused and the third passes by.
  The queue's cap of one and the batch of two let the cap cut a batch and two
  claims pass it together. Thresholds of two need a first failure that trips
  nothing. `Cooldown = 1` gives the ages 0 to 4 that its comparisons (1 and 3
  ticks) tell apart for transactions up to one tick old (`MaxElapsed`);
  `MaxWindow = 2` settlements fill a window. The proofs need none of these.
* `http`: one try and one retry (`MaxRetries = 1`) are the first and the last;
  two jobs and two attempts make a batch of two, or a retry that could take a
  second batch. Calls that share a client are checked for the pair that can meet
  at its lock.
* `runtime`: two requests for one queue, one request after another for two,
  and one beside all tasks; one or two lost connections, one ready job. A
  second waiter is enough for one to take the job the other was woken for.
* `install`: four migrations stand for the first, the one with the identity,
  the one with the guard, and one that replaces a body; two sessions per runner
  (`MaxTries`) are a crash and its repetition; two bindings are a bind and a
  rotation.
* `fake`: a budget of two is a retry and a dead letter; three jobs are a chain
  on which one-level and transitive cascades differ; `MaxJobs = 1` makes
  `drain` overflow. The constraint `SmallTables` keeps three jobs to tables without
  concurrency keys, times to live and later starts, and a drain to two plain jobs:
  two jobs of one key are enough to pass its cap of one, one to outlive its time to
  live. `Commands` has one command with each column (`SomeCommands`) rather than
  every combination; the proof has all of them.

## Fairness

* `workflows` (`FairFlows`): weak fairness of the reaper, of the cancellation
  pass and of the finaliser, row by row. `taskq.tick` runs every pass each
  time, in savepoints of their own; rows are only skipped while another
  transaction holds them, and transactions are short. A pass ordered by a
  column with a limit serves every row as long as the candidates in front of it
  leave. Nothing is assumed of producers, workers or operators.
* `worker_stop`: the event loop runs what is ready; every call is answered or
  fails; timers that are set fire. The soft-stop timer is set only where
  `soft_stop_timeout` was given, which it is not by default: the run has both
  (`SoftStops`), and without it no deadline is assumed. Giving up a settlement has
  strong fairness: between tries it is enabled again and again, and the time it is
  compared with only grows. Nothing is assumed of handlers, which may go on after
  they were asked to stop, of their threads, or of a second signal. Hence the last
  disjunct of `StopEnds` (`GoesOn`): a stop may wait for a handler that was told to
  stop (whose task was cancelled, where there is a timeout), and for nothing else.
* `flow`: time passes (`Tick`); workers poll for ever (`Gate`); a claim goes on
  and commits with strong fairness, because the row lock is given in turn while
  others keep taking it, and not every call is lost. Nothing is assumed of
  settlements and operators, so `NeverWedged` covers a probe that never reports.
* `runtime`: every task that can run does; awaits of the database and of a
  cancelled task end. Nothing is assumed of NOTIFY, nor of the embedded worker's
  stop, which without `soft_stop_timeout` lasts as long as a handler does: that the
  worker lets go again and again (`WorkerLetsGo`) is the premise of the second
  conjunct of `StopSettles`. The first, that a host is let go only when everything
  is closed, has no premise.

## Proofs

All theorems hold for every value of the constants that satisfies the named
`ASSUME`s of the module they are about.

`TaskqJobsProofs` proves, for any sets of jobs, attempts, workers and keys, any
budgets and any poison limit: types, `LedgerAgrees`, `BudgetBound`,
`NoParkedCancel`, `ReplayHonest`, `OneActivePerKey`, `PendingCounts`,
`DepsHonoured`, and the action properties `SettledFrozen`, `CancelSticks` and
`TerminalFinal`. The inductive invariant `Inv` is the type invariant, a
predicate on single rows (`RowOK`: counters below their limits while a row is
active, no cancel on a waiting row, nothing attached to a row that does not
run) and the two halves of the ledger (`RunsUnder`: a running row names a
running attempt that names it; `Current`: a running attempt is the current one
of its job). `LedgerAgrees` alone is not inductive: that an expired lease is
reaped into a legal row needs the row predicate, and that a settlement touches
no other job needs both halves. The `…Moves` lemmas show once what each kind of
row update does; the lemmas `EndsStep`, `SettleStep`, `ReapStep`,
`QuietStep` and `CancelWaitingStep` lift this to the tables; then there is one
lemma per action. Three more facts rest on it:

* `Recorded`: an attempt that ended carries the verb of the call that ended it
  and a status that verb leaves (`Leaves`), so that a repeat is answered with
  what happened.
* `OneActivePerKey` is kept because a row becomes active only in `enqueue` and
  `redrive_job`, which look for the key, or as a followup, which has none: that
  is `Starts`, the other rows keep their keys.
* `DepInv` says of a blocked job that `pending_deps` is the number of its edges and
  that every parent without an edge has succeeded (or is deleted since), of a job
  that started that it has no edge and that all its parents succeeded, and of a
  row not yet enqueued that it has none of either, since `enqueue` counts the
  edges it adds. An edge may outlive its parent's success until the straggler
  pass: nothing says that each edge stands for a parent still open.
  `GraphStep` says what a step may do to edges and statuses; every action is
  shown to be one, and that is enough for `DepInv`.

Assumptions: NULL is no id, budgets are positive, finitely many ids.

`TaskqWorkflowsProofs` first proves `FlowsImplementJobs`: `SpecFlows` implies
the specification of `TaskqJobs`, so that everything above holds of jobs in
workflows too. Then `EndedQuiet`, `LimitHolds` and `OutcomeBacked`. `FlowInv`
adds to `Inv` that the trigger's counters are the numbers of rows (`Counters`;
`TriggerCounts` shows it of any call, whatever it wrote), that a row which is
not stored belongs to nothing (`Placed`), and per workflow what its row says
(`FlowOK`). The three properties are not inductive without the counters,
because a workflow ends when its counters say so, nor without `RowStep` of
`TaskqJobsProofs`, by which no member that ended is revived. `RowsMove` is the
argument: a call that writes rows brings at most the members it has admitted
(`Arrive`, `Admits`), and only while the workflow runs; `VerdictFacts` is what an
outcome read off the counters says of the members. A redrive is covered because
`redrive_job` refuses members. Assumption: limits are positive.

`TaskqWorkerProofs` proves, for any number of jobs and attempts, any
concurrency and retry limit and every option of the service, `ReportTruthful`,
`OneVerb`, `VerbFits` and the action property `NoCallAfterLoss`. The queue a
worker talks to is an instance of `TaskqJobs`; `TaskqJobsProofs` is instantiated
in the same way, and the `Same…` lemmas show that a call of the one is a call of
the other, so that `Ledger` (`Inv` and `Recorded`) is kept by what the worker
calls and by everything that happens behind its back. An attempt that some call
ended keeps that call's mark, hence an answer that was lost can be believed when
a later try learns `already_settled`. Per run, `Staged` says what has happened
at each stage, `OneCall` that the call under way belongs to the run's verb,
`Fits` how verb and handler's end go together, `Known` that the settlement a run
knows of is in the ledger. `ReportTruthful` alone says nothing of a call that is
executed and not yet answered. `QueueAssumption` restates the assumptions of
`TaskqJobs` on the constants the instance is given.

`TaskqClientProofs` proves `Exclusive`, `UnconfirmedBound` and `KeptWhenHealthy`
for every lease of at least four instants. `LeaseAssumption` states the one
condition the code relies on without checking it: the time from the grant of a
claim to its return, plus an interval, is below the lease (and with the budget
and two intervals below two leases). The invariant says for each phase where
the worker's next deadline comes from and that it, and the end of the budget
(`lastOk + Budget`), come before the end of the lease; `Exclusive` alone does
not say when the worker will act next. The first sleep leaves a whole interval
before the lease ends, because the first call is made even on a spent budget.

`TaskqSchedulesProofs` proves, for any schedules, claims, definitions, offsets
and times, types, `BehindCursor`, `CursorByDefinition`, `OverlapForbidden` and
`NothingMissed`. The invariant `Inv` adds to `BehindCursor` that a claim of the
current version was made from the current definition (`ClaimsCurrent`; versions
only grow), that the token on a row is that of a claim of this row
(`TokenOwned`), and that every instant processed so far lies at or before `now`
and the instant of the current claim (`SeenBefore`). `BehindCursor` alone is not
inductive: a resumed or changed schedule has no valid cursor, and that the first
fire after it moves the cursor beyond the past is known only from `SeenBefore`.
The first three properties do not depend on the evaluator: any proposal within
the bounds is covered, which is what the scheduler specification (§8) asks for
when it says that the fire bounds, not the retained history, keep an old
occurrence from being proposed again. `RowMoves` carries the argument; each
action is an instance of it. `NothingMissed` is about the evaluator.
`OldestComplete` says of its `fire_all` mode that the instants it proposes are
all those of the recurrence before the cursor it proposes, although
`max_catchup` cuts them off (`LargestExists` finds the last one that fits,
`Multiples` says that no multiple of the period lies between one and the next).
The invariant `Account` says that a claim on a running schedule was evaluated at
the cursor the row still has, and that the anchor and the cursor lie on one
recurrence: without the latter an interval schedule could count on from an
instant that is none of it. Nothing is claimed where foreign evaluators take
part, and a new smear offset starts over.

`TaskqFlowProofs` proves, for any number of claims, jobs and keys and any
thresholds, types, `BreakerHonest` and `CapsHold`. For the breaker, the
invariant says that at most one claim has an uncommitted update of the row
(`OneWriter`) and that the row still has the state that update was decided on
(`WriteFits`), which is what makes an election count once; that only a half-open
breaker has elected (`Elections`); and that while the breaker is closed its
streak and window are covered by what was settled since it closed (`Evidence`),
which is where a close that keeps the window would break it. For the keys: a
claim has the lock of the key of each job it took (`KeysOwned`), no two claims
have the same lock (`KeysApart`), and the running jobs of a locked key together
with the claim's own stay within the cap (`RoomKept`). `KeyCapsHold` alone is
not inductive: a commit adds what was counted earlier. For the queue's cap,
which is advisory and may be passed by one batch for each claim that picks jobs
at the same time: `RoomAhead` says that one of the claims in `Picking` read the
cap late enough for its batch, and a batch of every other one, to fit beside the
jobs that run; `BatchKept` bounds what each of them takes. Assumption:
`FlowAssumption` (positive configuration, finitely many jobs).

`TaskqInstallProofs` proves, for any number of migrations and runners, whatever
packages the runners carry, from whatever schema they start, and for any
bindings: `MigrationsWhole`, `CallsHonest`, `EffectsOnExpected`, `GatedEffects`
and `VerifiedWhole`. `RunInv` says that what is committed is a whole prefix of
the migrations and, per runner (`Session`), what its open transaction has done
and has left to do, and that only the holder of the advisory lock is past it; a
plan made before the lock proves nothing, and what is pending counts only from
the recheck under it. `TargetInv` says of each call that the identity it
attested is still the one in the database while it holds its row lock, that a
protected call has no open effect without that lock, and that a call which
raised left nothing behind unless its reply is validated after the commit;
`GateInv` that a console command which writes passed its gate on the target it
had read; `HttpInv` that a command over HTTP has no session of its own. The
table lemmas (`TableOK`, `SpecsOK`) go through the catalogue once: a guarded
function is attested, and what the commands call as reads does not write.
`VerifyInv` says that what `verify` saw at its ledger probe was its own package,
and that every probe made so far is for an aspect that had not drifted then
(drift only grows, so a later probe sees at least as much). Assumption:
`InstallAssumption`.

`TaskqServerProofs` proves, for any number of claim requests, queues, jobs and
lost connections, `NoLostWakeup` and `ReadyHonest`. A request that found nothing
and is about to sleep has subscribed before it looked again; what can still go
wrong is the connection. `PollInv` therefore says who has the listener's lock
while a queue is added and that no request for that queue is past it
(`PollOK`), that a monitor exists once the lock is let go (`Watched`), and
that an announced job is on the wire, pending or has woken the request
(`Heard`). `ReadyHonest` needs that whatever takes the process down has said so
first (`Falling`), what is up at each point of a start (`Starting`), and that a
tick which ends late ends in a runtime already stopping (`LateTick`).
Assumptions: `TrafficBounds` and `NamesApart`.

For HTTP it proves, for any number of jobs, attempts, workers, keys and calls,
`HandedBack` and `OnceDespiteRetry`. The model writes the tables only through
actions of `TaskqJobs`, so `TablesNext` shows that a step of `HttpSpec` is a
step of the jobs or leaves the tables alone, and the invariant of the jobs
(`JP!Inv`, with `JP == INSTANCE TaskqJobsProofs`) comes for nothing;
`TablesClaim` does the same for the batch of a claim (`ClaimBatchStep` in
`TaskqJobsProofs`). `HttpInv` adds what ties a call to the tables: per call
(`CallOK`), that what the client may not send twice stays at its first try; per
try (`ReqOK`), that its request was sent by that call (`Sent`), that only a
claim has a batch and only of attempts that exist (`Batch`), and that what was
handed back is no longer held, unless its release raised (`Returned`; `stuck`
holds those, and the batches of claims whose answer the facade never saw).
`Returned` is `HandedBack` said while the loop is still going: an attempt that
was let go can never be current again, since an attempt id is claimed once.
`MadeOK`, `SingleRow` and `SingleStep` say where the rows an enqueue made are:
such a row has the call's key or step or is deleted, and a call without either
makes one; of the rows of a step at most one is not deleted. Two tries with a
key can make two rows, when the first one's job ended in between; that not both
are active is the jobs' own `OneActivePerKey`, which is therefore part of the
invariant (`TablesOK`, with the job invariant and that no job of this model has
dependencies). `AttemptStep` says what one step of the jobs may do to an
attempt: nothing, a claim, or the one settlement. Assumptions: `HttpAssumption`,
`HttpNullAssumption` and those of the jobs.

For the test kit, `TaskqClientProofs` proves `FakeImplements`, for any finite
number of jobs and any attempts, workers, keys and workflows: the fake starts
where the tables start, and each of its steps is the step of `TaskqJobs` of the
same name, a step of `Differs`, or none. The commands may name any idempotency
and concurrency keys, times to live, start times and budgets. A claim is
`claim_jobs` if the key has room and the time to live has not passed, and
`Overclaims` otherwise (`ClaimSteps`). The mapping is taken row by row: the
image lemmas (`ClaimImage`, `DeadImage`, `PromotedImage` and so on) say that
what the fake writes into a row is, read as columns, what the SQL function
writes. That the guards agree needs the invariant `FakeInv`. `RowOK` says that a
job not enqueued yet has no columns and one that waits no cancel request;
`NeedsOK` that a member depends on members of its own workflow only (a job
outside workflows, whose end the fake does not pass on, has no dependents);
`CountOK` that the history `pending_deps` counts the parents still open, hence
that the child the fake promotes, by looking at its parents, is the one whose
counter reaches zero; `KeyOK` that `_active_keys` names the active job of a key,
so that the fake's `existed` is the answer of the unique index. What `_finish`
does to a branch is told by `Doomed`, the least set closed under dependents;
that it is the first level alone, and that no cancel was asked for, decides
between `fail_job` and `Differs` (`EndsDead`, `EndsBack`). `FakeStep` is the
whole argument, one case per method. Assumption: `FakeAssumption`.

Only model-checked: liveness (`StopEnds`, `SlotFreed`, `FlowsEnd`, `NeverWedged`,
`StopSettles` with its safety half), and `NobodyStuck` of HTTP, which speaks of ENABLED.

## Met while modelling

What the models do here is what the code does; the documents, or a reader, would
expect something else. None of it breaks a property above.

Jobs, workers, workflows, schedules:

* `fail`, `snooze` and `release` that honour a pending cancel mark the attempt
  `cancelled`; the same verb repeated after a lost answer is then answered
  `settle_conflict`, which the worker treats as fatal. `docs/Task Queue Function
  Manifest.md` promises `already_settled` to a repeat.
* An async handler cut off inside `run_sync` is settled while its thread runs
  on; the worker runtime specification forbids settling a live thread.
* Retention deletes a failed member of a workflow that still runs, the trigger
  takes it out of the counters, and the workflow ends `succeeded`; the manifest
  says that failed dominates.
* Setting a smear offset on a running schedule leaves its cursor where it was,
  although `evaluate_schedule` relies on the cursor containing the offset. A
  `fire_once` cron schedule then raises until the offset has passed, and three
  such errors pause it as invalid.
* A fatal report closes admission while a claim is in flight; the claims it
  returns are refused and wait for lease expiry. The claim-loop specification
  says a returned claim is never left outside supervision.
* `retire_schedule` leaves `paused_reason` in place, which
  `schedules_paused_audit_ck` allows on paused rows only, so a schedule paused
  with a reason cannot be retired before it is resumed.
* One job an operator cancelled inside `run_sync` is enough for the CLI's
  process-exit monitor; with `cancel_inflight_claim_on_stop` a granted claim
  waits for lease expiry.

Breaker and flow control:

* With `breaker_half_open_successes` of two or more, probes alone cannot close
  the breaker: after the first success it stays half open, every claim is
  throttled, and the deadline opens it again with the successes at zero. Only
  the other jobs of the probe's batch, or jobs claimed before the trip, supply
  the rest. `docs/Task Queue 0.6 Circuit Breaker Specification.md` speaks of
  consecutive probe successes.
* The deadline of the half-open state counts from the trip, not from the
  election (the comment in 0041 says the latter): a probe elected late can be
  overtaken by the next claim, and its success is then ignored.
* A job claimed before the trip that settles while the breaker is half open
  counts as the probe's.
* The running cap is advisory, as the flow enforcement specification says;
  `CapsHold` states by how much it can be passed.
* `reap_expired` may hold a row of `queue_counters` when it comes to
  `queue_flow`, and a claim the other way round: PostgreSQL would abort one of
  them. The comment in 0025 calls the order uniform. The model has only the lock
  of `queue_flow`.

HTTP:

* `fail_job` with a pending cancel answers `ok`, and a claim may answer
  `throttled`; neither is among the outcomes of its route
  (`HTTP_COMMAND_SPECS`), so the facade answers TQ500 after the commit, and a
  worker that repeats its `fail` gets `settle_conflict`. The models answer TQ500
  there. The HTTP specification wants every outcome mapped.
* `expire_job`, `redrive`, `purge`, `run_now` and `expire_worker_leases` are sent
  again after a lost answer although a second try may hit a later attempt; a
  keyed enqueue repeated after the first job ended creates a second one; a
  repeated `put_schedule` with `If-Match` is refused for its own write.
* `metrics()` neither retries nor maps transport errors; the synchronous client
  holds its lock over the meta request of `start()`.
* `job cancel`, `redrive`, `run-now` and `expire` of the CLI raise KeyError over
  HTTP, because the bodies of all four are built for each of them.

Runtime:

* A stop that cancels a housekeeper in the middle of closing the resources after
  a fatal tick leaves listener and pools open and reports STOPPED; `StopSettles`
  excepts exactly this.
* The exit monitor notes that it acted before it acts; cancelled in between, it
  never ends the process. A fatal tick while the embedded service starts leaves
  DEGRADED with the hub and the resources closed; one that fails during a stop
  writes DEGRADED over STOPPING.
* Release, snooze and reap send no NOTIFY: such jobs wait for the next poll,
  which is why `NoLostWakeup` speaks of jobs a NOTIFY announced.

Installer, transport, CLI:

* A hosted migration can never take a fresh database past 0019: 0020 wants a
  bound target. `db migrate` rechecks ids and checksums under the lock, not the
  target. `verify` does not see function bodies.
* `pause_queue`, `resume_queue`, `set_concurrency_limit`, `run_now`,
  `reprioritize`, `expire_job`, `expire_worker_leases`, `redrive`, `purge` and
  `shutdown` validate the reply after the commit. Mutations of the console that
  are not attested hit whatever target is there when they run.

Worker, stopping:

* Without `soft_stop_timeout`, the default, `stop()` sets no timer: a handler that
  pays no heed to its token keeps the process for as long as it runs. With one, a
  handler that swallows the cancellation does.

Test kit, beside `Differs`: keys of members cancelled by a cascade or by
`cancel_workflow` are never freed; a refused key leaves the admission of its
member counted; a replay is recognised only for a job's latest attempt; the
status of a workflow may be written early and written again.

## What is not modelled

In the modelled parts: claim order (priority, affinity, aging), `reprioritize`,
the batch forms `enqueue_many` and `redrive_failed`, payloads and results,
followup and step-key replays, workflows from before migration 0016; the
starvation of the cancellation pass by its limit. In schedules: the order and
the limit of a claim batch (an exception of one fire ends the batch), the
built-in maintenance schedule, manifest planning and application, the service
loop. In the worker: cancellation of the service task, of a run task or
of a starting handler from outside, notification and presence loops, checkpoints
and host effects, the process exit itself, more than one `run_sync` thread of one
run at a time. In flow control: token buckets
and the ramp, which only refuse or delay a claim (`Cap` may do that at any
time), the latency window, changes of the thresholds, the row lock of
`queue_counters`. In HTTP: schedules, workflows and admissions beyond their
answers, an enqueue that names both an idempotency key and a step, workflow members
in a batch, the death of the facade's process, `aclose`. In the runtime: a stop
concurrent with a start, a second `stop(cancel=True)` beside the first, and a first
connect that is cancelled. In the installer: what a script does to the catalog
beyond which probes it touches. In the CLI: rendering, services, `watch` and
`wait`. In the test kit: schedules, admissions, presence, inline mode, batches.

Without a module: admission reservations and the queue's admission owner, and
host effect fences, which are in the plan; read models, the typed client, the
authorization adapter and the measuring programs, which have no state to check.

## Plan

1. `TaskqJobs`, `TaskqWorker`, `TaskqLease`, `TaskqWorkflows`, `TaskqSchedules`,
   `TaskqFlow`, `TaskqHttp`, `TaskqRuntime`, `TaskqInstall`, `TaskqCli`,
   `TaskqFake` and the proofs of their safety properties and of the refinement: done.
2. `TaskqAdmission`: reservations, receipts, the orphan sweep, the admission
   owner, the host's effect fences: a reservation becomes at most one job and
   never holds its key for ever.
3. `enqueue_many`, and `TaskqFlow` as a refinement of `claim_jobs` of
   `TaskqJobs`; the lock of `queue_counters`.
4. The batch loop of the schedulers: a due schedule is eventually fired, one
   refused target does not starve the rest.
