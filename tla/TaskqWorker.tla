---------------------------- MODULE TaskqWorker ----------------------------
(***************************************************************************)
(* One worker process of outlabs-taskq (src/taskq/worker.py): the claim    *)
(* loop of WorkerService, the jobs WorkerSupervisor runs, their heartbeat  *)
(* coroutines, cancellation, settlement with retries, and the soft stop.   *)
(* The queue it talks to is TaskqJobs itself.                              *)
(*                                                                         *)
(* Everything between two awaits of the event loop is one step.  A call to *)
(* the queue is two steps, the queue's transaction and the answer, and     *)
(* either may be lost on the way.  Time is abstract: a timer that is set   *)
(* may fire at any later moment.                                           *)
(***************************************************************************)
EXTENDS Naturals, FiniteSets

CONSTANTS
    Jobs, Attempts, Workers, IdemKeys, ConcKeys, Workflows, Budgets, Caps, Ttls,
    PoisonLimit, None,
    Me,                  \* worker_id of this process
    Concurrency,         \* WorkerOptions.concurrency
    MaxTries,            \* WorkerOptions.settle_max_attempts
    Kinds,               \* the kinds of job that occur, a subset of AllKinds
    SoftStops,           \* may WorkerOptions.soft_stop_timeout be given: a set of BOOLEANs
    FailOnDeadline,      \* WorkerOptions.fail_on_shutdown_deadline
    CancelClaimOnStop    \* WorkerServiceOptions.cancel_inflight_claim_on_stop

VARIABLES
    jobs, attempts, deps, limits, settledBy, needs,   \* the queue
    run,     \* by attempt: its _RunControl and the locals of its coroutines
    sup,     \* WorkerSupervisor
    svc,     \* WorkerService
    calls    \* history: the settlement verbs sent for each attempt

Db == INSTANCE TaskqJobs

dbVars == <<jobs, attempts, deps, limits, settledBy, needs>>
vars == <<dbVars, run, sup, svc, calls>>

----------------------------------------------------------------------------
(* State *)

\* What _execute_job finds: an async handler, an async handler inside a
\* run_sync section, a sync handler; or no handler to run at all, because the
\* continuation policy is unknown, the type has no handler, or the payload
\* does not validate.
Controlled == {"async", "blocking", "sync"}
AllKinds   == Controlled \cup {"unsupported", "no_handler", "invalid"}

ASSUME WorkerAssumption ==
    /\ Me \in Workers
    /\ Concurrency \in Nat \ {0} /\ MaxTries \in Nat \ {0}
    /\ Kinds \subseteq AllKinds
    /\ SoftStops \subseteq BOOLEAN
    /\ FailOnDeadline \in BOOLEAN /\ CancelClaimOnStop \in BOOLEAN

\* What TaskqJobs assumes of its constants; its columns of NULL are told apart.
ASSUME QueueAssumption ==
    /\ None \notin Jobs \cup Attempts \cup Workers \cup IdemKeys \cup ConcKeys \cup Workflows
    /\ None \notin Db!Outcomes \cup Db!Verbs \cup {"reap"}
    /\ IsFiniteSet(Jobs) /\ IsFiniteSet(Attempts)
    /\ Budgets \subseteq Nat \ {0} /\ Caps \subseteq Nat /\ PoisonLimit \in Nat \ {0}
    /\ Ttls \subseteq {"none", "live"}

Reasons == {"none", "shutdown", "operator", "lease_lost"}
Reports == {"none", "settled", "ownership_lost", "abandoned_sync", "conflict",
            "unknown", "runtime_error"}

Run ==
    [st        : {"none", "accepted", "running", "settling", "done"},
     kind      : AllKinds \cup {"none"},
     handler   : {"none", "running", "done"},
     value     : {"none", "complete", "fail", "snooze", "cancel", "stopped"},
     asked     : BOOLEAN,      \* handler.cancel() was called while it ran
     thread    : BOOLEAN,      \* a run_sync future is not done
     unsafe    : BOOLEAN,      \* and it is in _unsafe_blocking
     abandoned : BOOLEAN,      \* abandoned_sync
     reason    : Reasons,      \* cancellation.reason
     lost      : BOOLEAN,      \* ownership_lost
     failed    : BOOLEAN,      \* runtime_failed
     cut       : BOOLEAN,      \* shutdown_deadline
     grace     : BOOLEAN,      \* the operator_grace task is running
     hb        : {"idle", "ok", "cancel", "gone"},   \* a heartbeat's answer on its way
     verb      : Db!Verbs \cup {"none"},
     tries     : Nat,          \* settlement calls that failed, up to MaxTries
     answer    : {"none", "effective", "already_settled", "settle_conflict", "lost"},
     rejected  : BOOLEAN,      \* the followups were refused: fail instead
     report    : Reports,
     stops     : BOOLEAN,      \* the report stops the service
     warned    : BOOLEAN]      \* history: told to stop while the handler ran

NoRun ==
    [st |-> "none", kind |-> "none", handler |-> "none", value |-> "none",
     asked |-> FALSE, thread |-> FALSE, unsafe |-> FALSE, abandoned |-> FALSE,
     reason |-> "none", lost |-> FALSE, failed |-> FALSE, cut |-> FALSE, grace |-> FALSE,
     hb |-> "idle", verb |-> "none", tries |-> 0, answer |-> "none",
     rejected |-> FALSE, report |-> "none", stops |-> FALSE, warned |-> FALSE]

\* accepting, stopping, deadline: the supervisor's flags; stopped: its event;
\* timed: soft_stop_timeout was given.
Sup == [accepting : BOOLEAN, stopping : BOOLEAN, deadline : BOOLEAN, stopped : BOOLEAN,
        timed : BOOLEAN]

\* claim, room, got: the claim call in flight, the slots it asked for and the
\* attempts it was granted; stray: claims returned but not supervised.
Svc == [claim : {"idle", "sent", "ended"}, room : Nat, got : SUBSET Attempts,
        stray : SUBSET Attempts, stopReq : BOOLEAN, closed : BOOLEAN,
        stopped : BOOLEAN]

ActiveRuns == {a \in Attempts : run[a].st \in {"accepted", "running", "settling"}}

\* The run has a _RunControl registered with the supervisor.
HasControl(r) == r.st \in {"running", "settling"} /\ r.kind \in Controlled

----------------------------------------------------------------------------
(* Cancellation *)

Priority == [none |-> 0, shutdown |-> 1, operator |-> 2, lease_lost |-> 3]

\* Fault: the latest reason wins.
SignalLatest(r, why) ==
    [r EXCEPT !.reason = why,
              !.warned = @ \/ (why # "shutdown" /\ r.handler = "running")]

\* CancellationToken.cancel: a weaker reason never masks a stronger one.
Signal(r, why) ==
    IF Priority[why] <= Priority[r.reason] THEN r
    ELSE [r EXCEPT !.reason = why,
                   !.warned = @ \/ (why # "shutdown" /\ r.handler = "running")]

\* _mark_blocking_unsafe and handler.cancel(), which only asks: the handler
\* hears of it where it awaits and may stop, end otherwise, or go on.  A thread
\* it waits for goes on and is marked unsafe.
HardCancel(r) ==
    IF r.kind = "sync" \/ r.handler # "running" THEN r
    ELSE [r EXCEPT !.asked = TRUE, !.unsafe = @ \/ r.thread, !.abandoned = @ \/ r.thread]

\* _begin_soft_stop as one run sees it.
SoftStopped(r) == IF HasControl(r) THEN Signal(r, "shutdown") ELSE r

\* _enforce_shutdown_deadline
AtDeadline(r) ==
    IF ~HasControl(r) THEN r
    ELSE HardCancel([Signal(r, "shutdown") EXCEPT
                       !.cut = @ \/ (r.kind # "sync" /\ r.handler = "running")])

\* _lose_ownership
Lost(r, failed) ==
    HardCancel([Signal(r, "lease_lost") EXCEPT
                  !.lost = TRUE, !.failed = @ \/ failed, !.hb = "idle",
                  !.abandoned = @ \/ (r.kind = "sync" /\ r.handler = "running")])

\* requires_process_exit
RequiresExit ==
    \E a \in Attempts :
       \/ run[a].unsafe
       \/ /\ HasControl(run[a]) /\ run[a].kind = "sync" /\ run[a].handler = "running"
          /\ sup.deadline \/ run[a].lost

----------------------------------------------------------------------------
(* Claim loop *)

Free == Concurrency - Cardinality(ActiveRuns)

\* The sweep asks for at most the free slots.
ClaimSend(n) ==
    /\ svc.claim = "idle" /\ ~svc.stopReq
    /\ sup.accepting /\ n \in 1..Free
    /\ svc' = [svc EXCEPT !.claim = "sent", !.room = n, !.got = {}]
    /\ UNCHANGED <<dbVars, run, sup, calls>>

\* The queue hands out one of the rows asked for.
ClaimGrant(j, a) ==
    /\ svc.claim = "sent" /\ Cardinality(svc.got) < svc.room
    /\ Db!claim_jobs(j, Me, a)
    /\ svc' = [svc EXCEPT !.got = @ \cup {a}]
    /\ UNCHANGED <<run, sup, calls>>

\* The answer arrives and the claims are submitted one by one.  submit raises
\* when the supervisor is full or no longer accepts, which ends the loop and
\* fails the service.
ClaimReturn ==
    LET room == IF sup.accepting THEN Free ELSE 0 IN
    /\ svc.claim = "sent"
    /\ \E S \in SUBSET svc.got :
          /\ Cardinality(S) <= room /\ (S = svc.got \/ Cardinality(S) = room)
          /\ run' = [a \in Attempts |->
                       IF a \in S THEN [run[a] EXCEPT !.st = "accepted"] ELSE run[a]]
          /\ svc' = IF S = svc.got THEN [svc EXCEPT !.claim = "idle", !.got = {}]
                    ELSE [svc EXCEPT !.claim = "ended", !.got = {},
                                     !.stray = svc.got \ S, !.stopReq = TRUE]
    /\ UNCHANGED <<dbVars, sup, calls>>

\* _note_claim_error: back off, or fail the service when the streak is long.
\* What the queue granted is not known here.
ClaimError(fatal) ==
    /\ svc.claim = "sent"
    /\ svc' = [svc EXCEPT !.claim = IF fatal THEN "ended" ELSE "idle", !.got = {},
                          !.stopReq = @ \/ fatal]
    /\ UNCHANGED <<dbVars, run, sup, calls>>

\* The loop ends once a stop is requested, a claim in flight only when it may
\* be cancelled.
ClaimLoopEnds ==
    /\ svc.stopReq
    /\ svc.claim \in {"idle"} \cup (IF CancelClaimOnStop THEN {"sent"} ELSE {})
    /\ svc' = [svc EXCEPT !.claim = "ended", !.got = {}]
    /\ UNCHANGED <<dbVars, run, sup, calls>>

----------------------------------------------------------------------------
(* Reports *)

\* The report of run a, whose record is r, ends it and frees its slot.  A
\* fatal one, and the release of an unsupported policy, stop the supervisor
\* and the service; an unsupported policy whose release was answered lost
\* only closes admission.
Report(a, r, what, fatal) ==
    LET closes == fatal \/ r.kind = "unsupported"
        stops  == fatal \/ (r.kind = "unsupported" /\ what = "settled")
    IN
    /\ run' = [b \in Attempts |->
                 IF b = a
                   THEN [r EXCEPT !.st = "done", !.report = what, !.stops = stops,
                                  !.hb = "idle", !.grace = FALSE, !.answer = "none",
                                  !.tries = 0]
                 ELSE IF closes THEN SoftStopped(run[b]) ELSE run[b]]
    /\ sup' = IF closes THEN [sup EXCEPT !.accepting = FALSE, !.stopping = TRUE] ELSE sup

\* _ownership_lost_report
ReportLost(a) ==
    LET r == run[a] IN
    Report(a, r, IF r.failed THEN "runtime_error"
                 ELSE IF r.abandoned THEN "abandoned_sync" ELSE "ownership_lost",
           r.failed)

----------------------------------------------------------------------------
(* A run: _execute_job and its handler *)

\* Fault: a run that starts during a stop is not told.
StartUnaware(a, k) ==
    /\ run[a].st = "accepted" /\ k \in Controlled
    /\ run' = [run EXCEPT ![a] = [@ EXCEPT !.st = "running", !.kind = k,
                                           !.handler = "running"]]
    /\ UNCHANGED <<dbVars, sup, svc, calls>>

\* A task that is cancelled before its first step never runs its coroutine.
Unstarted(r) ==
    IF r.kind = "sync" THEN r ELSE [r EXCEPT !.handler = "done", !.value = "stopped"]

\* The first step of _execute_job.  Without a handler it goes straight to the
\* settlement.  A run that starts during a stop is signalled at once.
Start(a, k) ==
    LET settles == [unsupported |-> "release", no_handler |-> "release", invalid |-> "fail"]
        begun   == [run[a] EXCEPT !.st = "running", !.kind = k, !.handler = "running"]
    IN
    /\ run[a].st = "accepted"
    /\ run' = [run EXCEPT ![a] =
                 IF k \notin Controlled
                   THEN [@ EXCEPT !.st = "settling", !.kind = k, !.verb = settles[k]]
                 ELSE IF sup.deadline THEN Unstarted(AtDeadline(begun))
                 ELSE IF sup.stopping THEN Signal(begun, "shutdown")
                 ELSE begun]
    /\ UNCHANGED <<dbVars, sup, svc, calls>>

\* The handler does something: it waits for no thread, or was asked to stop
\* while it did.
Acts(r) == r.handler = "running" /\ (r.thread => r.unsafe)

\* _run_sync
RunSync(a) ==
    /\ Acts(run[a]) /\ run[a].kind = "blocking" /\ ~run[a].thread
    /\ run' = [run EXCEPT ![a].thread = TRUE]
    /\ UNCHANGED <<dbVars, sup, svc, calls>>

\* The handler ends with a result or an error, which _normalize_handler_result
\* turns into an intent.
HandlerReturns(a, v) ==
    /\ Acts(run[a])
    /\ run' = [run EXCEPT ![a].handler = "done", ![a].value = v]
    /\ UNCHANGED <<dbVars, sup, svc, calls>>

\* The handler sees its token and raises TaskCancelled, or lets the
\* CancelledError through.
HandlerStops(a) ==
    /\ Acts(run[a]) /\ run[a].reason # "none"
    /\ run' = [run EXCEPT ![a].handler = "done", ![a].value = "stopped"]
    /\ UNCHANGED <<dbVars, sup, svc, calls>>

\* _finish_blocking
ThreadReturns(a) ==
    /\ run[a].thread
    /\ run' = [run EXCEPT ![a].thread = FALSE, ![a].unsafe = FALSE]
    /\ UNCHANGED <<dbVars, sup, svc, calls>>

\* The verb _execute_job chooses when the handler is done.
Chosen(r) ==
    IF r.reason = "operator" THEN "cancel"
    ELSE IF r.reason = "shutdown" /\ (r.value = "stopped" \/ r.cut)
      THEN IF r.cut /\ FailOnDeadline THEN "fail" ELSE "release"
    ELSE IF r.value = "stopped" THEN "cancel" ELSE r.value

\* _execute_job resumes: ownership first, then cancellation, then the result.
HandlerDone(a) ==
    /\ run[a].st = "running" /\ run[a].handler = "done"
    /\ IF run[a].lost THEN ReportLost(a)
       ELSE /\ run' = [run EXCEPT ![a].st = "settling", ![a].grace = FALSE,
                                  ![a].verb = Chosen(run[a])]
            /\ UNCHANGED sup
    /\ UNCHANGED <<dbVars, svc, calls>>

----------------------------------------------------------------------------
(* Heartbeats *)

HeartbeatSend(a) ==
    /\ HasControl(run[a]) /\ ~run[a].lost /\ run[a].hb = "idle"
    /\ \/ /\ Db!heartbeat(a)
          /\ run' = [run EXCEPT ![a].hb =
                       IF jobs[attempts[a].job].cancel THEN "cancel" ELSE "ok"]
       \/ /\ ~Db!Fenced(a)
          /\ run' = [run EXCEPT ![a].hb = "gone"]
          /\ UNCHANGED dbVars
    /\ UNCHANGED <<sup, svc, calls>>

HeartbeatAnswer(a) ==
    /\ run[a].hb # "idle"
    /\ run' = [run EXCEPT ![a] =
                 IF run[a].hb = "gone" THEN Lost(run[a], FALSE)
                 ELSE IF run[a].hb = "cancel"
                   THEN [Signal(run[a], "operator") EXCEPT !.hb = "idle", !.grace = TRUE]
                 ELSE [run[a] EXCEPT !.hb = "idle"]]
    /\ UNCHANGED <<dbVars, sup, svc, calls>>

\* The request or its answer is lost: retry later.
HeartbeatFails(a) ==
    /\ run[a].hb # "idle"
    /\ run' = [run EXCEPT ![a].hb = "idle"]
    /\ UNCHANGED <<dbVars, sup, svc, calls>>

\* The lease budget passes without a confirmed heartbeat, or, fatal, the
\* heartbeat is refused or crashes.
HeartbeatGivesUp(a, fatal) ==
    /\ HasControl(run[a]) /\ ~run[a].lost
    /\ run' = [run EXCEPT ![a] = Lost(run[a], fatal)]
    /\ UNCHANGED <<dbVars, sup, svc, calls>>

\* _operator_grace
GraceEnds(a) ==
    /\ run[a].grace /\ run[a].handler = "running"
    /\ run' = [run EXCEPT ![a] = [HardCancel(@) EXCEPT !.grace = FALSE]]
    /\ UNCHANGED <<dbVars, sup, svc, calls>>

----------------------------------------------------------------------------
(* Settlement: _settle_with_retry *)

\* The queue executes verb v for attempt a.
Execute(v, a) ==
    \/ v = "complete" /\ Db!complete_job(a, {}, {}, FALSE, 1)
    \/ v = "fail"     /\ \E retryable \in BOOLEAN : Db!fail_job(a, retryable, FALSE)
    \/ v = "snooze"   /\ Db!snooze_job(a, FALSE)
    \/ v = "release"  /\ \E due \in BOOLEAN : Db!release_job(a, due)
    \/ v = "cancel"   /\ Db!cancel_running_job(a)
    \/ ~Db!Fenced(a)  /\ UNCHANGED dbVars

\* Fault: ownership is only looked at when the handler ends.
OwnedAlways(r) == r.st = "settling"

\* A run without control has no heartbeat to lose ownership through.
Owned(r) == r.kind \notin Controlled \/ ~r.lost

\* May the call that just failed be repeated?  Backpressure has a horizon of its
\* own; an outage outlasts the attempt cap while the job is owned and the worker
\* is not draining.  This is asked before the backoff and not after it: a stop
\* that ends the backoff early still finds one more call to make.
MayRetry(r, err) ==
    \/ r.tries + 1 < MaxTries
    \/ err = "busy"
    \/ err = "down" /\ r.kind \in Controlled /\ ~sup.stopping

\* May its horizon have passed?
MayGiveUp(r, err) == err = "busy" \/ r.tries + 1 >= MaxTries

Retried(r) ==
    [r EXCEPT !.answer = "none", !.tries = IF @ < MaxTries THEN @ + 1 ELSE @]

Waiting(r) == r.st = "settling" /\ r.answer = "none"

\* The call reaches the queue and is executed.
SettleSend(a) ==
    /\ Waiting(run[a]) /\ Owned(run[a])
    /\ Execute(run[a].verb, a)
    /\ run' = [run EXCEPT ![a].answer = Db!Reply(run[a].verb, a)]
    /\ calls' = [calls EXCEPT ![a] = @ \cup {run[a].verb}]
    /\ UNCHANGED <<sup, svc>>

\* A call fails: it does not reach the queue, or it was executed and the answer
\* is lost.
CallFails(a, err) ==
    \/ /\ Waiting(run[a]) /\ Owned(run[a])
       /\ calls' = [calls EXCEPT ![a] = @ \cup {run[a].verb}]
    \/ run[a].answer # "none" /\ err = "down" /\ UNCHANGED calls

\* The call is repeated after a backoff.
SettleFails(a, err) ==
    /\ CallFails(a, err) /\ MayRetry(run[a], err)
    /\ run' = [run EXCEPT ![a] = Retried(@)]
    /\ UNCHANGED <<dbVars, sup, svc>>

\* Fault: a settlement that does not get through is replaced by a release.
SettleFallsBack(a, err) ==
    /\ CallFails(a, err) /\ MayGiveUp(run[a], err) /\ run[a].verb # "release"
    /\ run' = [run EXCEPT ![a].verb = "release", ![a].answer = "none", ![a].tries = 0]
    /\ UNCHANGED <<dbVars, sup, svc>>

\* The retries are spent: the settlement is unknown.
SettleGivesUp(a, err) ==
    /\ CallFails(a, err) /\ MayGiveUp(run[a], err)
    /\ IF Owned(run[a]) THEN Report(a, run[a], "unknown", TRUE) ELSE ReportLost(a)
    /\ UNCHANGED <<dbVars, svc>>

\* Fault: any settled attempt counts as settled by this run.
SettleAnswerAny(a) ==
    /\ run[a].answer # "none"
    /\ Report(a, run[a], IF run[a].answer = "lost" THEN "ownership_lost" ELSE "settled", FALSE)
    /\ UNCHANGED <<dbVars, svc, calls>>

\* _report_from_settle.  A fail sent because the followups were refused is
\* fatal when the refusal was a capability skew.
SettleAnswer(a) ==
    LET r == run[a] IN
    /\ r.answer # "none"
    /\ \/ /\ r.answer \in {"effective", "already_settled"}
          /\ \E skew \in {FALSE, r.rejected} : Report(a, r, "settled", skew)
       \/ r.answer = "lost" /\ Report(a, r, "ownership_lost", FALSE)
       \/ r.answer = "settle_conflict" /\ Report(a, r, "conflict", TRUE)
    /\ UNCHANGED <<dbVars, svc, calls>>

\* The call is refused: by the queue, or by the client or the facade before it
\* reaches the queue, so nothing is known of the fence.  Refused followups of a
\* complete are turned into a terminal fail, anything else is a runtime failure.
SettleRefused(a) ==
    LET r == run[a] IN
    /\ Waiting(r) /\ Owned(r)
    /\ calls' = [calls EXCEPT ![a] = @ \cup {r.verb}]
    /\ \/ Report(a, r, "runtime_error", TRUE)
       \/ /\ r.verb = "complete"
          /\ run' = [run EXCEPT ![a] = [r EXCEPT !.verb = "fail", !.rejected = TRUE,
                                                 !.tries = 0]]
          /\ UNCHANGED sup
    /\ UNCHANGED <<dbVars, svc>>

\* Fault: the loss is only noticed in the backoff after a failed call.
SettleLostInBackoff(a) ==
    /\ Waiting(run[a]) /\ ~Owned(run[a]) /\ run[a].tries > 0
    /\ ReportLost(a)
    /\ UNCHANGED <<dbVars, svc, calls>>

\* Ownership went while the call was being retried.
SettleLost(a) ==
    /\ Waiting(run[a]) /\ ~Owned(run[a])
    /\ ReportLost(a)
    /\ UNCHANGED <<dbVars, svc, calls>>

----------------------------------------------------------------------------
(* Stop *)

\* A signal, an operator's shutdown request or _observe_job of a report that
\* stops the service.
StopRequested ==
    /\ ~svc.stopReq
    /\ svc' = [svc EXCEPT !.stopReq = TRUE]
    /\ UNCHANGED <<dbVars, run, sup, calls>>

\* WorkerService._stop once the claim loop is over: supervisor.stop.
CloseAdmission ==
    /\ svc.stopReq /\ svc.claim = "ended" /\ ~svc.closed
    /\ svc' = [svc EXCEPT !.closed = TRUE]
    /\ sup' = [sup EXCEPT !.accepting = FALSE, !.stopping = TRUE]
    /\ run' = [a \in Attempts |-> SoftStopped(run[a])]
    /\ UNCHANGED <<dbVars, calls>>

\* _enforce_all_shutdown_deadlines
EnforceDeadline ==
    /\ ~sup.deadline
    /\ sup' = [sup EXCEPT !.deadline = TRUE]
    /\ run' = [a \in Attempts |-> AtDeadline(run[a])]
    /\ UNCHANGED <<dbVars, svc, calls>>

\* The stop task of the supervisor runs: the service or a report started it.
StopTask == sup.stopping /\ ~sup.stopped /\ (svc.closed \/ \E a \in Attempts : run[a].stops)

\* _stop waits for the runs no longer than soft_stop_timeout, when it is given.
SoftStopTimeout == StopTask /\ sup.timed /\ ActiveRuns # {} /\ EnforceDeadline

\* A second signal, or aclose: stop(cancel=True).
ForceStop == svc.closed /\ ~sup.stopped /\ EnforceDeadline

\* WorkerSupervisor._stop: every run is over and the executor is idle.
SupervisorStops ==
    /\ StopTask
    /\ ActiveRuns = {} /\ \A a \in Attempts : ~run[a].thread
    /\ sup' = [sup EXCEPT !.stopped = TRUE]
    /\ UNCHANGED <<dbVars, run, svc, calls>>

ServiceStops ==
    /\ svc.closed /\ sup.stopped /\ ~svc.stopped
    /\ svc' = [svc EXCEPT !.stopped = TRUE]
    /\ UNCHANGED <<dbVars, run, sup, calls>>

----------------------------------------------------------------------------

\* The queue holds jobs that are ready to run; the service has started.
Init ==
    /\ attempts = [a \in Attempts |-> Db!NoAttempt]
    /\ deps = {}
    /\ limits = [ck \in ConcKeys |-> 1]
    /\ settledBy = [a \in Attempts |-> None]
    /\ needs = [j \in Jobs |-> {}]
    /\ \E max \in Budgets :
          jobs = [j \in Jobs |->
                    Db!NewJob("queued", None, None, None, None, 0, TRUE, "none", max)]
    /\ run = [a \in Attempts |-> NoRun]
    /\ \E timed \in SoftStops :
          sup = [accepting |-> TRUE, stopping |-> FALSE, deadline |-> FALSE, stopped |-> FALSE,
                 timed |-> timed]
    /\ svc = [claim |-> "idle", room |-> 0, got |-> {}, stray |-> {}, stopReq |-> FALSE,
              closed |-> FALSE, stopped |-> FALSE]
    /\ calls = [a \in Attempts |-> {}]

ClaimLoop ==
    \/ \E n \in 1..Concurrency : ClaimSend(n)
    \/ \E j \in Jobs, a \in Attempts : ClaimGrant(j, a)
    \/ ClaimReturn
    \/ \E fatal \in BOOLEAN : ClaimError(fatal)
    \/ ClaimLoopEnds

Handler(a) ==
    \/ \E v \in {"complete", "fail", "snooze", "cancel"} : HandlerReturns(a, v)
    \/ HandlerStops(a)
    \/ RunSync(a) \/ ThreadReturns(a)

Heartbeat(a) ==
    \/ HeartbeatSend(a) \/ HeartbeatAnswer(a) \/ HeartbeatFails(a)
    \/ \E fatal \in BOOLEAN : HeartbeatGivesUp(a, fatal)
    \/ GraceEnds(a)

Settlement(a) ==
    \/ SettleSend(a) \/ SettleRefused(a) \/ SettleAnswer(a) \/ SettleLost(a)
    \/ \E err \in {"down", "busy", "bad"} : SettleFails(a, err) \/ SettleGivesUp(a, err)

Stopping ==
    \/ StopRequested \/ CloseAdmission \/ SoftStopTimeout \/ ForceStop
    \/ SupervisorStops \/ ServiceStops

\* What else happens to the queue meanwhile.
Queue ==
    /\ \E j \in Jobs : Db!LeaseRunsOut(j) \/ Db!reap_expired({j}) \/ Db!cancel_job(j)
    /\ UNCHANGED <<run, sup, svc, calls>>

Next ==
    \/ ClaimLoop \/ Stopping \/ Queue
    \/ \E a \in Attempts :
          (\E k \in Kinds : Start(a, k)) \/ Handler(a) \/ HandlerDone(a) \/ Heartbeat(a)
             \/ Settlement(a)

Spec == Init /\ [][Next]_vars

\* The event loop runs what is ready, every call returns or times out, the timer
\* of a stop that has one fires, and a settlement that is retried for ever meets
\* its horizon: the time it is compared with only grows.  Nothing is assumed of
\* the handlers and their threads, of heartbeats, or of a second signal.
Fairness ==
    /\ WF_vars(ClaimReturn \/ ClaimError(FALSE)) /\ WF_vars(ClaimLoopEnds)
    /\ WF_vars((\E a \in Attempts : run[a].stops) /\ StopRequested)
    /\ WF_vars(CloseAdmission) /\ WF_vars(SoftStopTimeout)
    /\ WF_vars(SupervisorStops) /\ WF_vars(ServiceStops)
    /\ \A a \in Attempts :
          /\ WF_vars(\E k \in Kinds : Start(a, k)) /\ WF_vars(HandlerDone(a))
          /\ WF_vars(Settlement(a))
          /\ SF_vars(\E err \in {"down", "busy", "bad"} : SettleGivesUp(a, err))

FairSpec == Spec /\ Fairness

----------------------------------------------------------------------------
(* Properties *)

\* A run that reports its job settled tells the truth: the attempt was ended
\* by this worker's own verb, however many calls and answers were lost and
\* whatever the reaper and the operators did meanwhile.
ReportTruthful ==
    \A a \in Attempts : run[a].report = "settled" => settledBy[a] = run[a].verb

\* Once ownership is dropped, no further settlement call leaves the worker.
NoCallAfterLoss ==
    [][\A a \in Attempts : run[a].lost => calls'[a] = calls[a]]_vars

\* A run sends one verb, repeated as often as it takes; a second one only when
\* the queue refused the followups of a complete, and then it is fail.
OneVerb ==
    \A a \in Attempts : \/ Cardinality(calls[a]) <= 1
                        \/ run[a].rejected /\ calls[a] = {"complete", "fail"}

\* A handler that was told to stop by an operator or by the loss of its lease
\* cannot succeed any more, whatever it returns.
WarnedNeverSucceeds ==
    \A a \in Attempts : run[a].warned => attempts[a].status # "succeeded"

\* A stop never throws work back that was finished in time: only jobs whose
\* handler was stopped, was still running at the deadline, or never ran, are
\* released.
FinishedWorkKept ==
    \A a \in Attempts : attempts[a].status = "released" =>
       run[a].value = "stopped" \/ run[a].cut \/ run[a].kind \notin Controlled

\* The verb an attempt is settled with fits what its handler did and what it
\* had been told, in whatever order shutdown, cancel and loss arrived.
VerbFits == WarnedNeverSucceeds /\ FinishedWorkKept

\* The handler of a goes on although its token says stop and, where a soft-stop
\* timeout was given, its task was cancelled.
GoesOn(a) ==
    /\ run[a].handler = "running" /\ run[a].reason # "none"
    /\ sup.timed => run[a].asked

\* A stop ends, or the process is told to exit because a thread holds it, or it
\* is held by a handler that was told to stop and goes on.  A stop is never
\* undone, so a stop that does not end is held so again and again.
StopEnds ==
    svc.stopReq ~> svc.stopped \/ RequiresExit \/ \E a \in Attempts : GoesOn(a)

\* Only its handler can hold a slot: a run whose handler is not running always
\* reaches its report.
SlotFreed ==
    \A a \in Attempts :
       a \in ActiveRuns /\ run[a].handler # "running"
          ~> run[a].st = "done" \/ run[a].handler = "running"
=============================================================================
