----------------------------- MODULE TaskqJobs -----------------------------
(***************************************************************************)
(* The job lifecycle of outlabs-taskq: the tables taskq.jobs,              *)
(* taskq.job_attempts, taskq.job_deps and taskq.concurrency_limits, and    *)
(* the SQL functions that write them (the last definition of each function *)
(* over the migrations 0001 .. 0048).                                      *)
(*                                                                         *)
(* Every function is one transaction whose writes are guarded by row locks *)
(* it takes first, so one call is one action.  The loops of the bounded    *)
(* passes skip rows another transaction holds (FOR UPDATE SKIP LOCKED) and *)
(* stop at a LIMIT: a pass acts on an arbitrary subset of its candidates.  *)
(*                                                                         *)
(* Time is abstracted to what the guards compare with now(): a lease is    *)
(* live or expired, scheduled_at is due or not, expires_at is absent, live *)
(* or expired.  The actions of the section "Time" move them.               *)
(*                                                                         *)
(* Workers are not trusted to be on time: any call may be made for any     *)
(* attempt that was ever handed out, at any later moment and any number of *)
(* times, which is what a lost response, a retry, a paused process or a    *)
(* duplicated HTTP request amounts to.                                     *)
(***************************************************************************)
EXTENDS Naturals, FiniteSets

CONSTANTS
    Jobs,        \* job ids (uuid7 values; an id is used once)
    Attempts,    \* attempt ids, the fencing tokens (an id is used once)
    Workers,     \* worker ids
    IdemKeys,    \* idempotency keys
    ConcKeys,    \* concurrency keys
    Workflows,   \* workflow ids
    Budgets,     \* values of max_attempts that producers ask for
    Caps,        \* values of concurrency_limits.max_running operators set
    Ttls,        \* subset of {"none", "live"}: do producers use ttl_seconds?
    PoisonLimit, \* consecutive expiries that quarantine a job (3 in the code)
    None         \* SQL NULL

ASSUME ConstantsAssumption ==
    /\ None \notin Jobs \cup Attempts \cup Workers \cup IdemKeys
                     \cup ConcKeys \cup Workflows
    /\ Budgets \subseteq Nat \ {0}
    /\ Caps \subseteq Nat
    /\ Ttls \subseteq {"none", "live"}
    /\ PoisonLimit \in Nat \ {0}

ASSUME FiniteAssumption == IsFiniteSet(Jobs) /\ IsFiniteSet(Attempts)

VARIABLES
    jobs,       \* taskq.jobs
    attempts,   \* taskq.job_attempts
    deps,       \* taskq.job_deps: pairs <<job_id, depends_on>>
    limits,     \* taskq.concurrency_limits, with 1 for a missing row
    settledBy,  \* history: the call that ended each attempt
    needs       \* history: the depends_on array each job was enqueued with

vars == <<jobs, attempts, deps, limits, settledBy, needs>>

----------------------------------------------------------------------------
(* Rows *)

Active    == {"blocked", "queued", "running"}
Terminal  == {"succeeded", "failed", "cancelled"}
Verbs     == {"complete", "fail", "snooze", "release", "cancel"}

\* The statuses jobs_status_ck allows, a row that is not there yet, and a
\* row retention has deleted.
JobStatus == Active \cup Terminal \cup {"absent", "deleted"}

\* attempts_status_ck without 'running': the attempt is history.
Settled == {"succeeded", "failed", "released", "snoozed", "expired", "cancelled"}

Outcomes == {"success", "canceled", "canceled_after_expiry", "poison",
             "retry_exhausted", "non_retryable", "dep_failed", "expired_ttl"}

ASSUME NullAssumption == None \notin Outcomes \cup Verbs \cup {"reap"}

JobRow ==
    [status   : JobStatus,
     outcome  : Outcomes \cup {None},
     idem     : IdemKeys \cup {None},      \* idempotency_key
     ckey     : ConcKeys \cup {None},      \* concurrency_key
     wf       : Workflows \cup {None},     \* workflow_id
     parent   : Jobs \cup {None},          \* parent_job_id
     pending  : Nat,                       \* pending_deps
     due      : BOOLEAN,                   \* scheduled_at <= now()
     ttl      : {"none", "live", "expired"},  \* expires_at against now()
     att      : Attempts \cup {None},      \* current_attempt_id
     worker   : Workers \cup {None},       \* worker_id
     lease    : {"none", "live", "expired"},  \* lease_expires_at
     cancel   : BOOLEAN,                   \* cancel_requested_at IS NOT NULL
     failures : Nat,                       \* failure_count
     streak   : Nat,                       \* expiry_streak
     max      : Nat,                       \* max_attempts
     finisher : Attempts \cup {None}]      \* finished_by_attempt_id

AttemptRow ==
    [status : Settled \cup {"absent", "running", "deleted"},
     job    : Jobs \cup {None},
     worker : Workers \cup {None}]

NoJob ==
    [status |-> "absent", outcome |-> None, idem |-> None, ckey |-> None,
     wf |-> None, parent |-> None, pending |-> 0, due |-> FALSE,
     ttl |-> "none", att |-> None, worker |-> None, lease |-> "none",
     cancel |-> FALSE, failures |-> 0, streak |-> 0, max |-> 0,
     finisher |-> None]

NoAttempt == [status |-> "absent", job |-> None, worker |-> None]

\* A row INSERT creates: everything else has its column default.
NewJob(status, k, ck, wf, parent, pending, due, ttl, max) ==
    [NoJob EXCEPT !.status = status, !.idem = k, !.ckey = ck, !.wf = wf,
                  !.parent = parent, !.pending = pending, !.due = due,
                  !.ttl = ttl, !.max = max]

\* worker_id = NULL, current_attempt_id = NULL, lease_expires_at = NULL
Detached(r) == [r EXCEPT !.att = None, !.worker = None, !.lease = "none"]

\* The row is terminal, decided by attempt f.
Finished(r, status, outcome, f) ==
    [Detached(r) EXCEPT !.status = status, !.outcome = outcome, !.finisher = f]

\* The row runs under attempt a of worker w.
Claimed(r, a, w) ==
    [r EXCEPT !.status = "running", !.att = a, !.worker = w, !.lease = "live"]

\* The row waits for its next attempt.
Requeued(r, due) == [Detached(r) EXCEPT !.status = "queued", !.due = due]

\* The expiry streak is broken and scheduled_at written.
Unstreaked(r, due) == [r EXCEPT !.streak = 0, !.due = due]

\* A failure is charged to the budget; n is the new expiry streak.
Charged(r, n) == [r EXCEPT !.failures = @ + 1, !.streak = n]

----------------------------------------------------------------------------
(* Dependencies *)

\* Blocked jobs that wait for a job of P.
Dependents(P) ==
    {c \in Jobs : jobs[c].status = "blocked" /\ \E p \in P : <<c, p>> \in deps}

\* DELETE FROM job_deps WHERE job_id is in C
Unlinked(C) == {e \in deps : e[1] \notin C}

\* The row cancel_dependents writes for a blocked child.
DepCancelled(r) == [r EXCEPT !.status = "cancelled", !.outcome = "dep_failed"]

\* The job table once the rows of DOMAIN upd are updated and the children K
\* are cancelled by the events those updates emit.  emit_event calls
\* cancel_dependents for 'failed' and 'cancelled' events; the children are
\* cancelled by a plain INSERT of their event, so the cascade is one level
\* deep.
Cascaded(upd, K) ==
    [i \in Jobs |-> IF i \in DOMAIN upd THEN upd[i]
                    ELSE IF i \in K THEN DepCancelled(jobs[i])
                    ELSE jobs[i]]

\* The children an update of the rows upd may cancel.
Casualties(upd) ==
    Dependents({i \in DOMAIN upd : upd[i].status \in {"failed", "cancelled"}})

\* Fault: promotes at the first parent that succeeds.
PromotedEarly(r) == [r EXCEPT !.pending = @ - 1, !.status = "queued"]

\* Blocked row r after one of its parents succeeded.
Promoted(r) ==
    [r EXCEPT !.pending = @ - 1,
              !.status = IF r.pending = 1 THEN "queued" ELSE @]

----------------------------------------------------------------------------
(* Producer *)

\* jobs_idem_uq: the active row that holds idempotency key k, if any.
KeyHeld(k) ==
    k # None /\ \E i \in Jobs : jobs[i].idem = k /\ jobs[i].status \in Active

\* taskq.enqueue when it creates a row.  Every other outcome (the key is held
\* and the holder is returned with created = false, a replayed workflow step,
\* a rejected argument) changes nothing.
enqueue(j, k, ck, wf, D, due, ttl, max) ==
    LET live == {d \in D : jobs[d].status # "succeeded"} IN
    /\ jobs[j].status = "absent"
    /\ D # {} => wf # None
    /\ \A d \in D : jobs[d].wf = wf /\ jobs[d].status \in Active \cup {"succeeded"}
    /\ ~KeyHeld(k)
    /\ jobs' = [jobs EXCEPT ![j] =
                  NewJob(IF live # {} THEN "blocked" ELSE "queued", k, ck, wf, None,
                         Cardinality(live), due, ttl, max)]
    /\ deps' = deps \cup {<<j, d>> : d \in live}
    /\ needs' = [needs EXCEPT ![j] = D]
    /\ UNCHANGED <<attempts, limits, settledBy>>

----------------------------------------------------------------------------
(* Runner: claim and heartbeat *)

RunningWith(ck) == {i \in Jobs : jobs[i].status = "running" /\ jobs[i].ckey = ck}

\* One row claimed by taskq.claim_jobs.  The scan takes the best candidate
\* that no other transaction has locked, hence any candidate.  Pauses, flow
\* limits and the breaker only withhold claims.
claim_jobs(j, w, a) ==
    LET r == jobs[j] IN
    /\ r.status = "queued" /\ r.due /\ ~r.cancel /\ r.ttl # "expired"
    /\ r.ckey # None => Cardinality(RunningWith(r.ckey)) < limits[r.ckey]
    /\ attempts[a].status = "absent"
    /\ jobs' = [jobs EXCEPT ![j] = Claimed(r, a, w)]
    /\ attempts' = [attempts EXCEPT ![a] =
                      [status |-> "running", job |-> j, worker |-> w]]
    /\ UNCHANGED <<deps, limits, settledBy, needs>>

\* Fault: the fence looks at the job's status only.
FencedByStatus(a) ==
    /\ attempts[a].status \notin {"absent", "deleted"}
    /\ jobs[attempts[a].job].status = "running"

\* The fence of every runner call: the job still runs under this attempt.
Fenced(a) ==
    /\ attempts[a].status \notin {"absent", "deleted"}
    /\ jobs[attempts[a].job].status = "running"
    /\ jobs[attempts[a].job].att = a

\* taskq.heartbeat by the worker that holds attempt a.  It extends whatever
\* lease the attempt has, an expired one too.  Any other call answers
\* ok = false and writes nothing.
heartbeat(a) ==
    LET j == attempts[a].job IN
    /\ Fenced(a)
    /\ jobs[j].worker = attempts[a].worker
    /\ jobs' = [jobs EXCEPT ![j].lease = "live"]
    /\ UNCHANGED <<attempts, deps, limits, settledBy, needs>>

----------------------------------------------------------------------------
(* Runner: settlement *)

\* The answer to settlement verb v for attempt a: the call takes effect iff
\* the fence holds, otherwise the ledger decides.
Reply(v, a) ==
    LET own == [complete |-> "succeeded", fail |-> "failed", snooze |-> "snoozed",
                release |-> "released", cancel |-> "cancelled"]
    IN  IF Fenced(a) THEN "effective"
        ELSE IF attempts[a].status = own[v] THEN "already_settled"
        ELSE IF attempts[a].status \in Settled THEN "settle_conflict"
        ELSE "lost"

\* The attempt's row and the job's row change together, and the event of a
\* failed or cancelled job cancels some of its dependents.
Settle(a, v, s, row) ==
    LET upd == [i \in {attempts[a].job} |-> row] IN
    /\ attempts' = [attempts EXCEPT ![a].status = s]
    /\ settledBy' = [settledBy EXCEPT ![a] = v]
    /\ \E K \in SUBSET Casualties(upd) :
          /\ jobs' = Cascaded(upd, K)
          /\ deps' = Unlinked(K)
    /\ UNCHANGED <<limits, needs>>

\* The row of a job whose pending cancel is honoured by the call of attempt f.
CancelledBy(r, f) == Finished(r, "cancelled", "canceled", f)

\* taskq.complete_job with followups F, of which M are workflow members.
\* It wins over a pending cancel.  Some of the blocked children are promoted
\* (LIMIT 100, SKIP LOCKED), then the followups are inserted; the keys
\* chain:<parent>:<step> they get are reserved, so they never meet idem.
complete_job(a, F, M, due, max) ==
    LET j == attempts[a].job
        r == jobs[j]
    IN
    /\ Fenced(a)
    /\ \A f \in F : jobs[f].status = "absent"
    /\ M # {} => r.wf # None
    /\ attempts' = [attempts EXCEPT ![a].status = "succeeded"]
    /\ settledBy' = [settledBy EXCEPT ![a] = "complete"]
    /\ \E K \in SUBSET Dependents({j}) :
          /\ jobs' = [i \in Jobs |->
               IF i = j THEN Finished(Unstreaked(r, r.due), "succeeded", "success", a)
               ELSE IF i \in K THEN Promoted(jobs[i])
               ELSE IF i \in F THEN NewJob("queued", None, None,
                                          IF i \in M THEN r.wf ELSE None, j, 0,
                                          due, "none", max)
               ELSE jobs[i]]
          /\ deps' = deps \ (K \X {j})
    /\ UNCHANGED <<limits, needs>>

\* Fault: one retry too many.
FailOneMoreTry(a, retryable, due) ==
    LET r == jobs[attempts[a].job] IN
    /\ Fenced(a) /\ ~r.cancel /\ retryable /\ r.failures + 1 <= r.max
    /\ Settle(a, "fail", "failed", Requeued(Charged(r, 0), due))

\* taskq.fail_job: a pending cancel is honoured before any accounting, then
\* the budget decides between a retry and the dead-letter state.
fail_job(a, retryable, due) ==
    LET r == jobs[attempts[a].job] IN
    /\ Fenced(a)
    /\ \/ /\ r.cancel
          /\ Settle(a, "fail", "cancelled", CancelledBy(r, a))
       \/ /\ ~r.cancel /\ retryable /\ r.failures + 1 < r.max
          /\ Settle(a, "fail", "failed", Requeued(Charged(r, 0), due))
       \/ /\ ~r.cancel /\ ~(retryable /\ r.failures + 1 < r.max)
          /\ Settle(a, "fail", "failed",
                    Finished(Charged(r, 0), "failed",
                             IF retryable THEN "retry_exhausted" ELSE "non_retryable",
                             a))

\* taskq.snooze_job: no budget consumed, the expiry streak is broken.  One
\* UPDATE serves both outcomes, so finished_by_attempt_id is not stamped when
\* a cancel is honoured.
snooze_job(a, due) ==
    LET r == Unstreaked(jobs[attempts[a].job], due) IN
    /\ Fenced(a)
    /\ \/ /\ r.cancel
          /\ Settle(a, "snooze", "cancelled",
                    Finished(r, "cancelled", "canceled", r.finisher))
       \/ /\ ~r.cancel
          /\ Settle(a, "snooze", "snoozed", Requeued(r, due))

\* taskq.release_job: no budget consumed, the expiry streak goes on.
release_job(a, due) ==
    LET r == jobs[attempts[a].job] IN
    /\ Fenced(a)
    /\ \/ /\ r.cancel
          /\ Settle(a, "release", "cancelled", CancelledBy(r, a))
       \/ /\ ~r.cancel
          /\ Settle(a, "release", "released", Requeued(r, due))

\* taskq.cancel_running_job: the worker's acknowledgement of a cancel; it
\* does not ask whether one is pending.
cancel_running_job(a) ==
    /\ Fenced(a)
    /\ Settle(a, "cancel", "cancelled", CancelledBy(jobs[attempts[a].job], a))

----------------------------------------------------------------------------
(* Lease expiry: the one reclaim authority *)

\* Fault: an expired lease is retried although a cancel is pending.
ReapedRetriesCancelled(r) ==
    Requeued([Charged(r, r.streak + 1) EXCEPT !.cancel = FALSE], FALSE)

\* The row taskq.reap_job writes.
Reaped(r) ==
    LET poison    == r.streak + 1 >= PoisonLimit
        exhausted == r.failures + 1 >= r.max
        charged   == Charged(r, r.streak + 1)
    IN  IF r.cancel
          THEN Finished(r, "cancelled", "canceled_after_expiry", r.finisher)
        ELSE IF poison \/ exhausted
          THEN Finished(charged, "failed",
                        IF poison THEN "poison" ELSE "retry_exhausted", r.finisher)
        ELSE Requeued(charged, FALSE)

\* Fault: the attempt row is left running.
ReapForgetsAttempt(S) ==
    /\ jobs' = Cascaded([i \in S |-> Reaped(jobs[i])], {})
    /\ UNCHANGED <<attempts, deps, limits, settledBy, needs>>

\* Fault: all attempts of the job are marked, not the current one.
ReapMarksAllAttempts(S) ==
    /\ attempts' = [a \in Attempts |->
                      IF attempts[a].job \in S
                        THEN [attempts[a] EXCEPT !.status = "expired"] ELSE attempts[a]]
    /\ jobs' = Cascaded([i \in S |-> Reaped(jobs[i])], {})
    /\ UNCHANGED <<deps, limits, settledBy, needs>>

\* taskq.reap_job for the running jobs S.
Reap(S) ==
    LET upd   == [i \in S |-> Reaped(jobs[i])]
        ended == {a \in Attempts : /\ attempts[a].status = "running"
                                   /\ \E j \in S : jobs[j].att = a}
    IN
    /\ attempts' = [a \in Attempts |->
                      IF a \in ended THEN [attempts[a] EXCEPT !.status = "expired"]
                      ELSE attempts[a]]
    /\ settledBy' = [a \in Attempts |->
                       IF a \in ended THEN "reap" ELSE settledBy[a]]
    /\ \E K \in SUBSET Casualties(upd) :
          /\ jobs' = Cascaded(upd, K)
          /\ deps' = Unlinked(K)
    /\ UNCHANGED <<limits, needs>>

\* taskq.reap_expired, from the tick's first pass and from a claim that found
\* nothing.
reap_expired(S) ==
    /\ S # {}
    /\ \A j \in S : jobs[j].status = "running" /\ jobs[j].lease = "expired"
    /\ Reap(S)

\* taskq.expire_job: the operator backdates the lease and reaps the row in
\* the same transaction.
expire_job(j) == jobs[j].status = "running" /\ Reap({j})

\* taskq.expire_worker_leases: the same for everything worker w runs.
expire_worker_leases(w) ==
    LET S == {j \in Jobs : jobs[j].status = "running" /\ jobs[j].worker = w} IN
    S # {} /\ Reap(S)

----------------------------------------------------------------------------
(* Operators *)

\* The row of a waiting job that is cancelled before it runs.
CancelledWaiting(r, why) ==
    [r EXCEPT !.status = "cancelled", !.outcome = why, !.cancel = TRUE]

\* Waiting jobs become cancelled together; their events cancel dependents.
CancelWaiting(S, why, unlink) ==
    LET upd == [i \in S |-> CancelledWaiting(jobs[i], why)] IN
    /\ \E K \in SUBSET Casualties(upd) :
          /\ jobs' = Cascaded(upd, K)
          /\ deps' = Unlinked(K \cup unlink)
    /\ UNCHANGED <<attempts, limits, settledBy, needs>>

\* taskq.cancel_job: at once for a waiting job, cooperative for a running one.
cancel_job(j) ==
    \/ /\ jobs[j].status \in {"blocked", "queued"}
       /\ CancelWaiting({j}, "canceled", {j})
    \/ /\ jobs[j].status = "running"
       /\ jobs' = [jobs EXCEPT ![j].cancel = TRUE]
       /\ UNCHANGED <<attempts, deps, limits, settledBy, needs>>

\* taskq.purge_queued: bulk cancel of waiting jobs; it leaves job_deps alone.
purge_queued(S) ==
    /\ S # {}
    /\ \A j \in S : jobs[j].status \in {"blocked", "queued"}
    /\ CancelWaiting(S, "canceled", {})

\* taskq.run_now
run_now(j) ==
    /\ jobs[j].status = "queued"
    /\ jobs' = [jobs EXCEPT ![j].due = TRUE]
    /\ UNCHANGED <<attempts, deps, limits, settledBy, needs>>

\* The row of a failed job that gets a fresh budget; expires_at is kept.
Redriven(r, due) ==
    [r EXCEPT !.status = "queued", !.due = due, !.failures = 0, !.streak = 0,
              !.outcome = None, !.finisher = None, !.cancel = FALSE]

\* Fault: the unique index is not consulted.
RedriveIgnoresKey(j, due) ==
    /\ jobs[j].status = "failed" /\ jobs[j].wf = None
    /\ jobs' = [jobs EXCEPT ![j] = Redriven(@, due)]
    /\ UNCHANGED <<attempts, deps, limits, settledBy, needs>>

\* taskq.redrive_job, and one row of taskq.redrive_failed, which may smear
\* scheduled_at.
redrive_job(j, due) ==
    /\ jobs[j].status = "failed"
    /\ jobs[j].wf = None
    /\ ~KeyHeld(jobs[j].idem)
    /\ jobs' = [jobs EXCEPT ![j] = Redriven(@, due)]
    /\ UNCHANGED <<attempts, deps, limits, settledBy, needs>>

\* taskq.set_concurrency_limit
set_concurrency_limit(ck, n) ==
    /\ n # limits[ck]
    /\ limits' = [limits EXCEPT ![ck] = n]
    /\ UNCHANGED <<jobs, attempts, deps, settledBy, needs>>

----------------------------------------------------------------------------
(* Housekeeping: passes of taskq.tick and taskq.janitor.  tick runs each    *)
(* pass in a savepoint of its own and records its error, so any of them may *)
(* have no effect; the pass finalize_cancel_stragglers has no action here   *)
(* because NoParkedCancel shows it never finds a row.                       *)

\* taskq.expire_ttl: waiting jobs whose expires_at has passed.
expire_ttl(S) ==
    /\ S # {}
    /\ \A j \in S : jobs[j].status \in {"blocked", "queued"} /\ jobs[j].ttl = "expired"
    /\ CancelWaiting(S, "expired_ttl", {})

\* Fault: blocked members are left to the dependency cascade.
AdvanceUnblocked(C, S) ==
    /\ S # {}
    /\ \A j \in S : jobs[j].wf \in C /\ jobs[j].status = "queued"
    /\ jobs' = [i \in Jobs |->
                  IF i \in S THEN CancelledWaiting(jobs[i], "canceled") ELSE jobs[i]]
    /\ deps' = Unlinked(S)
    /\ UNCHANGED <<attempts, limits, settledBy, needs>>

\* taskq.advance_workflow_cancellations for members S of the cancelled
\* workflows C.  It inserts the events itself, so it cancels no dependents.
advance_workflow_cancellations(C, S) ==
    LET waiting == {j \in S : jobs[j].status \in {"blocked", "queued"}} IN
    /\ S # {}
    /\ \A j \in S : /\ jobs[j].wf \in C
                    /\ \/ j \in waiting
                       \/ jobs[j].status = "running" /\ ~jobs[j].cancel
    /\ jobs' = [i \in Jobs |->
                  IF i \in waiting THEN CancelledWaiting(jobs[i], "canceled")
                  ELSE IF i \in S THEN [jobs[i] EXCEPT !.cancel = TRUE]
                  ELSE jobs[i]]
    /\ deps' = Unlinked(waiting)
    /\ UNCHANGED <<attempts, limits, settledBy, needs>>

\* Fault: the edge that was satisfied is kept.
StragglersKeepEdge(c, p) ==
    /\ <<c, p>> \in deps /\ jobs[c].status = "blocked" /\ jobs[p].status = "succeeded"
    /\ jobs' = [jobs EXCEPT ![c] = Promoted(@)]
    /\ UNCHANGED <<attempts, deps, limits, settledBy, needs>>

\* taskq.finalize_dep_stragglers for one edge: what the cascade of a settle
\* did not reach.  For a parent that did not succeed it cancels one blocked
\* child of that parent.
finalize_dep_stragglers(c, p) ==
    /\ <<c, p>> \in deps
    /\ jobs[c].status = "blocked"
    /\ \/ /\ jobs[p].status = "succeeded"
          /\ jobs' = [jobs EXCEPT ![c] = Promoted(@)]
          /\ deps' = deps \ {<<c, p>>}
       \/ /\ jobs[p].status \in {"failed", "cancelled"}
          /\ \E k \in Dependents({p}) :
                /\ jobs' = [jobs EXCEPT ![k] = DepCancelled(@)]
                /\ deps' = Unlinked({k})
    /\ UNCHANGED <<attempts, limits, settledBy, needs>>

\* The retention passes of taskq.janitor: rows S, past their retention, are
\* deleted with their attempts and their own edges (ON DELETE CASCADE).  An
\* edge from a job that stays to a row of S aborts the pass (NO ACTION).
janitor(S) ==
    /\ S # {}
    /\ \/ \A j \in S : jobs[j].status \in {"succeeded", "cancelled"}
       \/ \A j \in S : jobs[j].status = "failed"
    /\ \A e \in deps : e[2] \in S => e[1] \in S
    /\ jobs' = [i \in Jobs |->
                  IF i \in S THEN [NoJob EXCEPT !.status = "deleted"] ELSE jobs[i]]
    /\ attempts' = [a \in Attempts |->
                      IF attempts[a].job \in S
                        THEN [NoAttempt EXCEPT !.status = "deleted"] ELSE attempts[a]]
    /\ deps' = Unlinked(S)
    /\ UNCHANGED <<limits, settledBy, needs>>

----------------------------------------------------------------------------
(* Time *)

\* now() passes lease_expires_at.
LeaseRunsOut(j) ==
    /\ jobs[j].lease = "live"
    /\ jobs' = [jobs EXCEPT ![j].lease = "expired"]
    /\ UNCHANGED <<attempts, deps, limits, settledBy, needs>>

\* now() reaches scheduled_at of a waiting job.
BecomesDue(j) ==
    /\ jobs[j].status \in {"blocked", "queued"} /\ ~jobs[j].due
    /\ jobs' = [jobs EXCEPT ![j].due = TRUE]
    /\ UNCHANGED <<attempts, deps, limits, settledBy, needs>>

\* now() passes expires_at = scheduled_at + ttl, so a job that was never
\* claimed is due by then.  Rows that are neither active nor failed never
\* have their expires_at read again.
TtlRunsOut(j) ==
    /\ jobs[j].ttl = "live" /\ jobs[j].status \in Active \cup {"failed"}
    /\ (\A a \in Attempts : attempts[a].job # j) => jobs[j].due
    /\ jobs' = [jobs EXCEPT ![j].ttl = "expired"]
    /\ UNCHANGED <<attempts, deps, limits, settledBy, needs>>

----------------------------------------------------------------------------

Init ==
    /\ jobs = [j \in Jobs |-> NoJob]
    /\ attempts = [a \in Attempts |-> NoAttempt]
    /\ deps = {}
    /\ limits = [ck \in ConcKeys |-> 1]
    /\ settledBy = [a \in Attempts |-> None]
    /\ needs = [j \in Jobs |-> {}]

Producer ==
    \E j \in Jobs, k \in IdemKeys \cup {None}, ck \in ConcKeys \cup {None},
       wf \in Workflows \cup {None}, D \in SUBSET Jobs, due \in BOOLEAN,
       ttl \in Ttls, max \in Budgets : enqueue(j, k, ck, wf, D, due, ttl, max)

Runner ==
    \/ \E j \in Jobs, w \in Workers, a \in Attempts : claim_jobs(j, w, a)
    \/ \E a \in Attempts :
          \/ heartbeat(a)
          \/ \E F \in SUBSET Jobs : \E M \in SUBSET F, due \in BOOLEAN, max \in Budgets :
                complete_job(a, F, M, due, max)
          \/ \E retryable, due \in BOOLEAN : fail_job(a, retryable, due)
          \/ \E due \in BOOLEAN : snooze_job(a, due)
          \/ \E due \in BOOLEAN : release_job(a, due)
          \/ cancel_running_job(a)

Operator ==
    \/ \E j \in Jobs : \/ expire_job(j)
                       \/ cancel_job(j)
                       \/ run_now(j)
                       \/ \E due \in BOOLEAN : redrive_job(j, due)
    \/ \E w \in Workers : expire_worker_leases(w)
    \/ \E S \in SUBSET Jobs : purge_queued(S)
    \/ \E ck \in ConcKeys, n \in Caps : set_concurrency_limit(ck, n)

Housekeeper ==
    \/ \E S \in SUBSET Jobs : reap_expired(S)
    \/ \E S \in SUBSET Jobs : expire_ttl(S)
    \/ \E S \in SUBSET Jobs : advance_workflow_cancellations(Workflows, S)
    \/ \E c, p \in Jobs : finalize_dep_stragglers(c, p)
    \/ \E S \in SUBSET Jobs : janitor(S)

Time ==
    \E j \in Jobs : LeaseRunsOut(j) \/ BecomesDue(j) \/ TtlRunsOut(j)

Next == Producer \/ Runner \/ Operator \/ Housekeeper \/ Time

Spec == Init /\ [][Next]_vars

----------------------------------------------------------------------------
(* Properties *)

\* Every table holds rows of its type.
TypeOK ==
    /\ jobs \in [Jobs -> JobRow]
    /\ attempts \in [Attempts -> AttemptRow]
    /\ deps \subseteq Jobs \X Jobs
    /\ limits \in [ConcKeys -> Nat]
    /\ settledBy \in [Attempts -> Verbs \cup {"reap", None}]
    /\ needs \in [Jobs -> SUBSET Jobs]

\* The attempt ledger and the job rows tell the same story (jobs_running_shape
\* and uq_job_attempts_running): a job runs under exactly one running attempt,
\* which names that job and its worker, and an attempt is running only while
\* its job runs under it.
LedgerAgrees ==
    /\ \A j \in Jobs :
          IF jobs[j].status = "running"
            THEN /\ jobs[j].att \in Attempts /\ jobs[j].lease # "none"
                 /\ attempts[jobs[j].att] = [status |-> "running", job |-> j,
                                             worker |-> jobs[j].worker]
            ELSE jobs[j].att = None /\ jobs[j].worker = None /\ jobs[j].lease = "none"
    /\ \A a \in Attempts :
          attempts[a].status = "running" =>
            attempts[a].job \in Jobs /\ jobs[attempts[a].job].att = a

\* A settled attempt is history: whatever late, repeated or competing call is
\* made, and whatever reaper runs, its row never changes again.
SettledFrozen ==
    [][\A a \in Attempts : attempts[a].status \in Settled =>
          attempts'[a] = attempts[a] \/ attempts'[a].status = "deleted"]_vars

\* Replays are answered truthfully.  An attempt that some call ended is never
\* settled again and never reported lost; already_settled is only said when
\* that very verb took effect, or, to cancel_running_job, when the attempt
\* ended by honouring a cancel; and a repeated complete_job of the attempt
\* that succeeded is always recognised.
ReplayHonest ==
    \A a \in Attempts : settledBy[a] # None /\ attempts[a].status # "deleted" =>
       /\ \A v \in Verbs :
             /\ Reply(v, a) \in {"already_settled", "settle_conflict"}
             /\ Reply(v, a) = "already_settled" =>
                   \/ settledBy[a] = v
                   \/ v = "cancel" /\ settledBy[a] \in {"fail", "snooze", "release"}
       /\ settledBy[a] = "complete" => Reply("complete", a) = "already_settled"

\* No job runs, or waits to run, on a spent budget or past the poison limit,
\* and the counters stop exactly at their limits.
BudgetBound ==
    \A j \in Jobs : jobs[j].status \notin {"absent", "deleted"} =>
       /\ jobs[j].failures <= jobs[j].max /\ jobs[j].streak <= PoisonLimit
       /\ jobs[j].status \in Active =>
             jobs[j].failures < jobs[j].max /\ jobs[j].streak < PoisonLimit
       /\ jobs[j].outcome = "retry_exhausted" => jobs[j].failures = jobs[j].max
       /\ jobs[j].outcome = "poison" => jobs[j].streak = PoisonLimit

\* A cancel never parks a row: a waiting job has no cancel request, so the
\* claim predicate never hides it and the straggler sweep finds nothing.
NoParkedCancel ==
    \A j \in Jobs : jobs[j].status \in {"blocked", "queued"} => ~jobs[j].cancel

\* A cancel request on a running job is never lost: the job stays under the
\* attempt that was running, and leaves it for cancelled or succeeded, never
\* for another try or the dead-letter state.
CancelSticks ==
    [][\A j \in Jobs : jobs[j].status = "running" /\ jobs[j].cancel =>
          \/ jobs'[j].status = "running" /\ jobs'[j].att = jobs[j].att /\ jobs'[j].cancel
          \/ jobs'[j].status \in {"succeeded", "cancelled"}]_vars

\* The dedup promise across retries and redrives: an idempotency key has at
\* most one active job.
OneActivePerKey ==
    \A i, j \in Jobs : /\ i # j /\ jobs[i].idem # None /\ jobs[i].idem = jobs[j].idem
                       /\ jobs[i].status \in Active
                       => jobs[j].status \notin Active

\* Finished work stays finished: a succeeded or cancelled row is only ever
\* deleted, a failed one may also be redriven, and never inside a workflow.
TerminalFinal ==
    [][\A j \in Jobs :
          /\ jobs[j].status \in {"succeeded", "cancelled"} =>
                jobs'[j] = jobs[j] \/ jobs'[j].status = "deleted"
          /\ jobs[j].status = "failed" =>
                \/ jobs'[j].status \in {"failed", "deleted"}
                \/ jobs'[j].status = "queued" /\ jobs[j].wf = None]_vars

\* pending_deps counts the edges of a blocked job, which has one to every job it
\* depends on that has not succeeded (or been deleted since); a job that is let
\* run has none left.
PendingCounts ==
    \A j \in Jobs :
       LET edges == {e \in deps : e[1] = j} IN
       /\ jobs[j].status = "blocked" =>
             /\ jobs[j].pending > 0 /\ jobs[j].pending = Cardinality(edges)
             /\ \A p \in needs[j] :
                   <<j, p>> \in deps \/ jobs[p].status \in {"succeeded", "deleted"}
       /\ jobs[j].status \in {"queued", "running", "succeeded", "failed"} =>
             edges = {}

\* A job is only ever let run once every job it depends on has succeeded
\* (and possibly been deleted since).
DepsHonoured ==
    \A j \in Jobs : jobs[j].status \in {"queued", "running", "succeeded", "failed"} =>
       \A p \in needs[j] : jobs[p].status \in {"succeeded", "deleted"}

=============================================================================
