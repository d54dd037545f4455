------------------------- MODULE TaskqWorkerProofs -------------------------
(***************************************************************************)
(* Theorems about TaskqWorker for any number of jobs and attempts, any     *)
(* concurrency, any retry limit and every option of the service.           *)
(*                                                                         *)
(* What the queue does is taken from TaskqJobsProofs: every call of the    *)
(* worker and everything else that happens to the queue is a step of       *)
(* TaskqJobs, so the ledger keeps its invariant, and an attempt that a     *)
(* call ended keeps the mark of that call.                                 *)
(***************************************************************************)
EXTENDS TaskqWorker, FiniteSetTheorems, TLAPS

\* The assumptions of TaskqJobs are the conjuncts of QueueAssumption.
JP == INSTANCE TaskqJobsProofs

-----------------------------------------------------------------------------
(* The queue *)

Ledger == JP!Inv /\ JP!Recorded

\* What the lemmas of TaskqJobsProofs assume of their constants.
LEMMA QueueConstants ==
    /\ None \notin Jobs \cup Attempts \cup Workers \cup IdemKeys \cup ConcKeys \cup Workflows
    /\ Budgets \subseteq Nat \ {0} /\ Caps \subseteq Nat /\ Ttls \subseteq {"none", "live"}
    /\ PoisonLimit \in Nat \ {0}
    /\ JP!IsFiniteSet(Jobs) /\ JP!IsFiniteSet(Attempts)
    /\ None \notin JP!Outcomes \cup JP!Verbs \cup {"reap"}
<1>1. JP!IsFiniteSet(Jobs) /\ JP!IsFiniteSet(Attempts)
  BY QueueAssumption DEF JP!IsFiniteSet, IsFiniteSet
<1>2. None \notin JP!Outcomes \cup JP!Verbs \cup {"reap"}
  BY QueueAssumption DEF Db!Outcomes, Db!Verbs, JP!Outcomes, JP!Verbs
<1> QED  BY <1>1, <1>2, QueueAssumption

LEMMA SameClaim ==
    ASSUME NEW j, NEW w, NEW a, Db!claim_jobs(j, w, a) PROVE JP!claim_jobs(j, w, a)
BY DEF Db!claim_jobs, JP!claim_jobs, Db!RunningWith, JP!RunningWith, Db!Claimed, JP!Claimed,
       Db!Cardinality, JP!Cardinality

LEMMA SameFence ==
    ASSUME NEW a PROVE Db!Fenced(a) <=> JP!Fenced(a)
BY DEF Db!Fenced, JP!Fenced

LEMMA SameHeartbeat ==
    ASSUME NEW a, Db!heartbeat(a) PROVE JP!heartbeat(a)
BY DEF Db!heartbeat, JP!heartbeat, Db!Fenced, JP!Fenced

LEMMA SameSettle ==
    ASSUME NEW a, NEW v, NEW s, NEW row, Db!Settle(a, v, s, row) PROVE JP!Settle(a, v, s, row)
BY DEF Db!Settle, JP!Settle, Db!Cascaded, JP!Cascaded, Db!Casualties, JP!Casualties, Db!Dependents,
       JP!Dependents, Db!Unlinked, JP!Unlinked, Db!DepCancelled, JP!DepCancelled

LEMMA SameRows ==
    ASSUME NEW r
    PROVE  /\ Db!Detached(r) = JP!Detached(r) /\ Db!Reaped(r) = JP!Reaped(r)
           /\ \A s, o, f : Db!Finished(r, s, o, f) = JP!Finished(r, s, o, f)
           /\ \A d : Db!Requeued(r, d) = JP!Requeued(r, d)
           /\ \A d : Db!Unstreaked(r, d) = JP!Unstreaked(r, d)
           /\ \A n : Db!Charged(r, n) = JP!Charged(r, n)
           /\ \A f : Db!CancelledBy(r, f) = JP!CancelledBy(r, f)
BY DEF Db!Detached, JP!Detached, Db!Finished, JP!Finished, Db!Requeued, JP!Requeued, Db!Unstreaked,
       JP!Unstreaked, Db!Charged, JP!Charged, Db!CancelledBy, JP!CancelledBy, Db!Reaped, JP!Reaped

LEMMA SameComplete ==
    ASSUME NEW a, Db!complete_job(a, {}, {}, FALSE, 1) PROVE JP!complete_job(a, {}, {}, FALSE, 1)
BY DEF Db!complete_job, JP!complete_job, Db!Fenced, JP!Fenced, Db!Dependents, JP!Dependents,
       Db!Promoted, JP!Promoted, Db!Finished, JP!Finished, Db!Detached, JP!Detached, Db!Unstreaked,
       JP!Unstreaked, Db!NewJob, JP!NewJob, Db!NoJob, JP!NoJob

LEMMA SameVerbs ==
    ASSUME NEW a, NEW due
    PROVE  /\ \A retryable : Db!fail_job(a, retryable, due) => JP!fail_job(a, retryable, due)
           /\ Db!snooze_job(a, due) => JP!snooze_job(a, due)
           /\ Db!release_job(a, due) => JP!release_job(a, due)
           /\ Db!cancel_running_job(a) => JP!cancel_running_job(a)
<1>1. ASSUME NEW retryable, Db!fail_job(a, retryable, due) PROVE JP!fail_job(a, retryable, due)
  BY <1>1, SameFence, SameSettle, SameRows DEF Db!fail_job, JP!fail_job
<1>2. ASSUME Db!snooze_job(a, due) PROVE JP!snooze_job(a, due)
  BY <1>2, SameFence, SameSettle, SameRows DEF Db!snooze_job, JP!snooze_job
<1>3. ASSUME Db!release_job(a, due) PROVE JP!release_job(a, due)
  BY <1>3, SameFence, SameSettle, SameRows DEF Db!release_job, JP!release_job
<1>4. ASSUME Db!cancel_running_job(a) PROVE JP!cancel_running_job(a)
  BY <1>4, SameFence, SameSettle, SameRows DEF Db!cancel_running_job, JP!cancel_running_job
<1> QED  BY <1>1, <1>2, <1>3, <1>4

LEMMA SameOthers ==
    ASSUME NEW j
    PROVE  /\ Db!LeaseRunsOut(j) => JP!LeaseRunsOut(j)
           /\ Db!reap_expired({j}) => JP!reap_expired({j})
           /\ Db!cancel_job(j) => JP!cancel_job(j)
<1>1. ASSUME Db!LeaseRunsOut(j) PROVE JP!LeaseRunsOut(j)
  BY <1>1 DEF Db!LeaseRunsOut, JP!LeaseRunsOut
<1>2. ASSUME Db!reap_expired({j}) PROVE JP!reap_expired({j})
  <2>1. \A r : Db!Reaped(r) = JP!Reaped(r)
    BY SameRows
  <2>2. [i \in {j} |-> Db!Reaped(jobs[i])] = [i \in {j} |-> JP!Reaped(jobs[i])]
    BY <2>1
  <2>3. \A upd, K : Db!Cascaded(upd, K) = JP!Cascaded(upd, K)
    BY DEF Db!Cascaded, JP!Cascaded, Db!DepCancelled, JP!DepCancelled
  <2>4. \A upd : Db!Casualties(upd) = JP!Casualties(upd)
    BY DEF Db!Casualties, JP!Casualties, Db!Dependents, JP!Dependents
  <2>5. \A K : Db!Unlinked(K) = JP!Unlinked(K)
    BY DEF Db!Unlinked, JP!Unlinked
  <2>6. Db!Reap({j}) => JP!Reap({j})
    BY <2>2, <2>3, <2>4, <2>5 DEF Db!Reap, JP!Reap
  <2> QED  BY <1>2, <2>6 DEF Db!reap_expired, JP!reap_expired
<1>3. ASSUME Db!cancel_job(j) PROVE JP!cancel_job(j)
  BY <1>3
  DEF Db!cancel_job, JP!cancel_job, Db!CancelWaiting, JP!CancelWaiting, Db!CancelledWaiting,
      JP!CancelledWaiting, Db!Cascaded, JP!Cascaded, Db!Casualties, JP!Casualties, Db!Dependents,
      JP!Dependents, Db!Unlinked, JP!Unlinked, Db!DepCancelled, JP!DepCancelled
<1> QED  BY <1>1, <1>2, <1>3

\* Of what the queue knows of an attempt the worker depends on two things: who
\* ended it, and whether its id was handed out.
Absent(a) == attempts[a].status = "absent"

Still(a)  == settledBy'[a] = settledBy[a] /\ (Absent(a)' <=> Absent(a))
Reaped(a) == settledBy[a] = None /\ settledBy'[a] = "reap" /\ (Absent(a)' <=> Absent(a))

LEMMA LedgerFacts ==
    ASSUME Ledger, NEW a \in Attempts
    PROVE  /\ settledBy[a] \in Db!Verbs \cup {"reap", None}
           /\ attempts[a].status \in {"absent", "running"} => settledBy[a] = None
           /\ attempts[a].status = "succeeded" => settledBy[a] = "complete"
           /\ attempts[a].status = "failed" => settledBy[a] = "fail"
           /\ attempts[a].status = "snoozed" => settledBy[a] = "snooze"
           /\ attempts[a].status = "released" => settledBy[a] = "release"
           /\ attempts[a].status = "cancelled"
                => settledBy[a] \in {"fail", "snooze", "release", "cancel"}
           /\ Db!Fenced(a) => attempts[a].status = "running"
<1>1. settledBy[a] \in JP!Verbs \cup {"reap", None}
  BY DEF Ledger, JP!Inv, JP!TypeOK
<1>2. attempts[a].status # "deleted" => attempts[a].status \in JP!Leaves(settledBy[a])
  BY DEF Ledger, JP!Recorded
<1>3. settledBy[a] \in {"complete", "fail", "snooze", "release", "cancel", "reap", None}
  BY <1>1 DEF JP!Verbs
<1>4. Db!Fenced(a) => attempts[a].status = "running"
  BY SameFence, JP!FenceFacts, QueueConstants DEF Ledger
<1> QED  BY <1>2, <1>3, <1>4, JP!LeavesFacts, QueueConstants DEF Db!Verbs

\* A step of the queue keeps the ledger.
LEMMA LedgerNext ==
    ASSUME Ledger, JP!Next
    PROVE  Ledger'
BY JP!NextInv, JP!RecordedStep, QueueConstants DEF Ledger

\* Calls and passes that end no attempt.
LEMMA StillAll ==
    ASSUME attempts' = attempts, settledBy' = settledBy, NEW a \in Attempts
    PROVE  Still(a)
BY DEF Still, Absent

LEMMA QueueMoves ==
    ASSUME Ledger, Queue
    PROVE  Ledger' /\ \A a \in Attempts : Still(a) \/ Reaped(a)
<1>1. PICK j \in Jobs : Db!LeaseRunsOut(j) \/ Db!reap_expired({j}) \/ Db!cancel_job(j)
  BY DEF Queue
<1>2. CASE Db!LeaseRunsOut(j)
  <2>1. JP!LeaseRunsOut(j)
    BY <1>2, SameOthers
  <2>2. JP!Next
    BY <2>1 DEF JP!Next, JP!Time
  <2>3. attempts' = attempts /\ settledBy' = settledBy
    BY <1>2 DEF Db!LeaseRunsOut
  <2> QED  BY <2>2, <2>3, LedgerNext, StillAll
<1>3. CASE Db!cancel_job(j)
  <2>1. JP!cancel_job(j)
    BY <1>3, SameOthers
  <2>2. JP!Next
    BY <2>1 DEF JP!Next, JP!Operator
  <2>3. attempts' = attempts /\ settledBy' = settledBy
    BY <1>3 DEF Db!cancel_job, Db!CancelWaiting
  <2> QED  BY <2>2, <2>3, LedgerNext, StillAll
<1>4. CASE Db!reap_expired({j})
  <2>1. JP!reap_expired({j}) /\ {j} \in SUBSET Jobs
    BY <1>4, SameOthers
  <2>2. JP!Next
    BY <2>1 DEF JP!Next, JP!Housekeeper
  <2> DEFINE ended == {a \in Attempts : /\ attempts[a].status = "running"
                                        /\ \E i \in {j} : jobs[i].att = a}
  <2>3. /\ attempts' = [a \in Attempts |->
                          IF a \in ended THEN [attempts[a] EXCEPT !.status = "expired"]
                          ELSE attempts[a]]
        /\ settledBy' = [a \in Attempts |-> IF a \in ended THEN "reap" ELSE settledBy[a]]
    BY <1>4 DEF Db!reap_expired, Db!Reap
  <2>4. \A a \in ended : attempts[a].status = "running" /\ settledBy[a] = None
    BY LedgerFacts
  <2>5. \A a \in Attempts : attempts[a] \in JP!AttemptRow
    BY DEF Ledger, JP!Inv, JP!TypeOK
  <2> HIDE DEF ended
  <2>6. ASSUME NEW a \in Attempts PROVE Still(a) \/ Reaped(a)
    <3>1. CASE a \in ended
      <4>1. attempts'[a].status = "expired" /\ settledBy'[a] = "reap"
        BY <2>3, <2>5, <3>1 DEF JP!AttemptRow
      <4> QED  BY <2>4, <3>1, <4>1 DEF Reaped, Absent
    <3>2. CASE a \notin ended
      BY <2>3, <3>2 DEF Still, Absent
    <3> QED  BY <3>1, <3>2
  <2> QED  BY <2>2, <2>6, LedgerNext
<1> QED  BY <1>1, <1>2, <1>3, <1>4

LEMMA HeartbeatMoves ==
    ASSUME Ledger, NEW a \in Attempts, Db!heartbeat(a)
    PROVE  Ledger' /\ \A b \in Attempts : Still(b)
<1>1. JP!Next
  BY SameHeartbeat DEF JP!Next, JP!Runner
<1>2. attempts' = attempts /\ settledBy' = settledBy
  BY DEF Db!heartbeat
<1> QED  BY <1>1, <1>2, LedgerNext, StillAll

\* A claim hands out an id that was not there, and ends no attempt.
LEMMA ClaimMoves ==
    ASSUME Ledger, NEW j \in Jobs, NEW a \in Attempts, Db!claim_jobs(j, Me, a)
    PROVE  /\ Ledger' /\ Absent(a) /\ ~Absent(a)' /\ settledBy' = settledBy
           /\ \A b \in Attempts \ {a} : Still(b)
<1>1. JP!Next
  BY SameClaim, WorkerAssumption DEF JP!Next, JP!Runner
<1> DEFINE x == [status |-> "running", job |-> j, worker |-> Me]
<1>2. /\ Absent(a) /\ settledBy' = settledBy /\ attempts' = [attempts EXCEPT ![a] = x]
  BY DEF Db!claim_jobs, Absent
<1>3. x.status # "absent"
  OBVIOUS
<1> HIDE DEF x
<1>4. attempts'[a] = x /\ \A b \in Attempts \ {a} : attempts'[b] = attempts[b]
  BY <1>2 DEF Ledger, JP!Inv, JP!TypeOK
<1> QED  BY <1>1, <1>2, <1>3, <1>4, LedgerNext DEF Still, Absent

\* A settlement call takes effect once, for the attempt it is fenced by.
LEMMA ExecuteMoves ==
    ASSUME Ledger, NEW a \in Attempts, NEW v \in Db!Verbs, Execute(v, a)
    PROVE  /\ Ledger' /\ \A b \in Attempts \ {a} : Still(b)
           /\ Absent(a)' <=> Absent(a)
           /\ \/ Db!Fenced(a) /\ settledBy[a] = None /\ settledBy'[a] = v
              \/ ~Db!Fenced(a) /\ settledBy' = settledBy
<1>1. CASE ~Db!Fenced(a) /\ UNCHANGED dbVars
  <2>1. Ledger'
    BY <1>1, JP!NextInv, JP!RecordedStep, QueueConstants DEF dbVars, Ledger, JP!vars
  <2> QED  BY <1>1, <2>1, StillAll DEF dbVars, Still
<1>2. ASSUME NEW s, s # "absent", Db!Fenced(a), Ledger',
             attempts' = [attempts EXCEPT ![a].status = s],
             settledBy' = [settledBy EXCEPT ![a] = v]
      PROVE  /\ Ledger' /\ \A b \in Attempts \ {a} : Still(b)
             /\ Absent(a)' <=> Absent(a)
             /\ Db!Fenced(a) /\ settledBy[a] = None /\ settledBy'[a] = v
  <2>1. attempts[a] \in JP!AttemptRow /\ attempts[a].status = "running" /\ settledBy[a] = None
    BY <1>2, LedgerFacts DEF Ledger, JP!Inv, JP!TypeOK
  <2>2. attempts'[a] = [attempts[a] EXCEPT !.status = s] /\ settledBy'[a] = v
    BY <1>2 DEF Ledger, JP!Inv, JP!TypeOK
  <2>3. attempts'[a].status = s
    BY <2>1, <2>2 DEF JP!AttemptRow
  <2>4. \A b \in Attempts \ {a} : attempts'[b] = attempts[b] /\ settledBy'[b] = settledBy[b]
    BY <1>2 DEF Ledger, JP!Inv, JP!TypeOK
  <2> QED  BY <1>2, <2>1, <2>2, <2>3, <2>4 DEF Still, Absent
<1>3. CASE v = "complete" /\ Db!complete_job(a, {}, {}, FALSE, 1)
  <2>1. JP!complete_job(a, {}, {}, FALSE, 1)
    BY <1>3, SameComplete
  <2>2. /\ Db!Fenced(a) /\ attempts' = [attempts EXCEPT ![a].status = "succeeded"]
        /\ settledBy' = [settledBy EXCEPT ![a] = "complete"]
    BY <1>3 DEF Db!complete_job
  <2>3. JP!Inv'
    <3>1. {} \in SUBSET Jobs /\ {} \in SUBSET {} /\ 1 \in Nat \ {0} /\ FALSE \in BOOLEAN
      OBVIOUS
    <3> QED  BY <2>1, <3>1, JP!CompleteStep, QueueConstants DEF Ledger
  <2>4. JP!Recorded'
    <3>1. "complete" \in JP!Verbs /\ "succeeded" \in JP!Leaves("complete")
      BY JP!LeavesFacts, QueueConstants DEF JP!Verbs
    <3> QED  BY <2>2, <3>1, JP!RecordedEnds, QueueConstants DEF Ledger
  <2> QED  BY <1>2, <1>3, <2>2, <2>3, <2>4 DEF Ledger
<1>4. ASSUME NEW retryable \in BOOLEAN, v = "fail", Db!fail_job(a, retryable, FALSE)
      PROVE  Ledger' /\ \E s, row : Db!Fenced(a) /\ s # "absent" /\ Db!Settle(a, v, s, row)
  <2>1. JP!fail_job(a, retryable, FALSE)
    BY <1>4, SameVerbs
  <2>2. JP!Next
    BY <2>1 DEF JP!Next, JP!Runner
  <2> QED  BY <1>4, <2>2, LedgerNext DEF Db!fail_job
<1>5. ASSUME v = "snooze", Db!snooze_job(a, FALSE)
      PROVE  Ledger' /\ \E s, row : Db!Fenced(a) /\ s # "absent" /\ Db!Settle(a, v, s, row)
  <2>1. JP!snooze_job(a, FALSE)
    BY <1>5, SameVerbs
  <2>2. JP!Next
    BY <2>1 DEF JP!Next, JP!Runner
  <2> QED  BY <1>5, <2>2, LedgerNext DEF Db!snooze_job
<1>6. ASSUME NEW due \in BOOLEAN, v = "release", Db!release_job(a, due)
      PROVE  Ledger' /\ \E s, row : Db!Fenced(a) /\ s # "absent" /\ Db!Settle(a, v, s, row)
  <2>1. JP!release_job(a, due)
    BY <1>6, SameVerbs
  <2>2. JP!Next
    BY <2>1 DEF JP!Next, JP!Runner
  <2> QED  BY <1>6, <2>2, LedgerNext DEF Db!release_job
<1>7. ASSUME v = "cancel", Db!cancel_running_job(a)
      PROVE  Ledger' /\ \E s, row : Db!Fenced(a) /\ s # "absent" /\ Db!Settle(a, v, s, row)
  <2>1. JP!cancel_running_job(a)
    BY <1>7, SameVerbs
  <2>2. JP!Next
    BY <2>1 DEF JP!Next, JP!Runner
  <2> QED  BY <1>7, <2>2, LedgerNext DEF Db!cancel_running_job
<1>8. ASSUME Ledger', \E s, row : Db!Fenced(a) /\ s # "absent" /\ Db!Settle(a, v, s, row)
      PROVE  /\ Ledger' /\ \A b \in Attempts \ {a} : Still(b)
             /\ Absent(a)' <=> Absent(a)
             /\ Db!Fenced(a) /\ settledBy[a] = None /\ settledBy'[a] = v
  BY <1>2, <1>8 DEF Db!Settle
<1> QED  BY <1>1, <1>3, <1>4, <1>5, <1>6, <1>7, <1>8, <1>2 DEF Execute

-----------------------------------------------------------------------------
(* One run *)

Accepted == [NoRun EXCEPT !.st = "accepted"]

\* How far a run has come says which of its fields are still untouched.
Staged(r, c) ==
    /\ r.st = "none" => r = NoRun /\ c = {}
    /\ r.st = "accepted" => r = Accepted /\ c = {}
    /\ r.st = "running" => /\ r.kind \in Controlled /\ c = {} /\ r.verb = "none" /\ ~r.rejected
                           /\ r.report = "none" /\ r.answer = "none"
    /\ r.st = "settling" => r.verb \in Db!Verbs /\ r.report = "none"
    /\ r.st = "done" => r.answer = "none"
    /\ r.handler = "running" => r.st = "running"
    /\ r.handler = "done" => r.value # "none"
    /\ r.hb # "idle" => HasControl(r)
    /\ r.lost => r.kind \in Controlled

\* The calls c of a run are its verb, and before it complete when the queue
\* refused the followups.
OneCall(r, c) ==
    IF r.rejected THEN r.verb = "fail" /\ "complete" \in c /\ c \subseteq {"complete", "fail"}
                  ELSE c \subseteq {r.verb}

\* The verb fits what the run was told and what its handler did.
Fits(r) ==
    /\ r.warned => /\ r.reason \in {"operator", "lease_lost"}
                   /\ r.verb # "complete" /\ ~r.rejected
    /\ r.reason = "lease_lost" => r.lost
    /\ r.verb = "release" => r.value = "stopped" \/ r.cut \/ r.kind \notin Controlled

\* s ended the attempt: nobody, the reaper or a call of this run, and a run
\* that heard it took effect knows which.
Known(r, c, s) ==
    /\ s \in {None, "reap"} \cup c
    /\ r.answer \in {"effective", "already_settled"} => s = r.verb
    /\ r.report = "settled" => s = r.verb /\ r.verb \in Db!Verbs

RunOK(r, c, s) == r \in Run /\ Staged(r, c) /\ OneCall(r, c) /\ Fits(r) /\ Known(r, c, s)

\* A claim on its way has not begun to run, and a run has a claim.
Claims ==
    /\ \A a \in svc.got : run[a].st = "none" /\ ~Absent(a)
    /\ \A a \in Attempts : run[a].st # "none" => ~Absent(a)

WInv ==
    /\ Ledger /\ Claims
    /\ svc \in Svc /\ run \in [Attempts -> Run] /\ calls \in [Attempts -> SUBSET Db!Verbs]
    /\ \A a \in Attempts : RunOK(run[a], calls[a], settledBy[a])

\* The fields a signal, a cancelled handler or a lost lease leave alone.
SameCall(r, e) ==
    /\ e.st = r.st /\ e.kind = r.kind /\ e.verb = r.verb /\ e.rejected = r.rejected
    /\ e.report = r.report /\ e.answer = r.answer

LEMMA NoRunFacts == NoRun \in Run /\ Accepted \in Run /\ NoRun.st = "none" /\ Accepted.st = "accepted"
BY DEF NoRun, Accepted, Run, Reasons, Reports

\* A field of a run's record takes any value of its own set.
LEMMA RunPut ==
    ASSUME NEW r \in Run
    PROVE  /\ \A x \in {"none", "accepted", "running", "settling", "done"} :
                [r EXCEPT !.st = x] \in Run
           /\ \A x \in AllKinds \cup {"none"} : [r EXCEPT !.kind = x] \in Run
           /\ \A x \in {"none", "running", "done"} : [r EXCEPT !.handler = x] \in Run
           /\ \A x \in {"none", "complete", "fail", "snooze", "cancel", "stopped"} :
                [r EXCEPT !.value = x] \in Run
           /\ \A x \in BOOLEAN : [r EXCEPT !.asked = x] \in Run
           /\ \A x \in BOOLEAN : [r EXCEPT !.thread = x] \in Run
           /\ \A x \in BOOLEAN : [r EXCEPT !.unsafe = x] \in Run
           /\ \A x \in BOOLEAN : [r EXCEPT !.abandoned = x] \in Run
           /\ \A x \in Reasons : [r EXCEPT !.reason = x] \in Run
           /\ \A x \in BOOLEAN : [r EXCEPT !.lost = x] \in Run
           /\ \A x \in BOOLEAN : [r EXCEPT !.failed = x] \in Run
           /\ \A x \in BOOLEAN : [r EXCEPT !.cut = x] \in Run
           /\ \A x \in BOOLEAN : [r EXCEPT !.grace = x] \in Run
           /\ \A x \in {"idle", "ok", "cancel", "gone"} :
                [r EXCEPT !.hb = x] \in Run
           /\ \A x \in Db!Verbs \cup {"none"} : [r EXCEPT !.verb = x] \in Run
           /\ \A x \in Nat : [r EXCEPT !.tries = x] \in Run
           /\ \A x \in {"none", "effective", "already_settled", "settle_conflict", "lost"} :
                [r EXCEPT !.answer = x] \in Run
           /\ \A x \in BOOLEAN : [r EXCEPT !.rejected = x] \in Run
           /\ \A x \in Reports : [r EXCEPT !.report = x] \in Run
           /\ \A x \in BOOLEAN : [r EXCEPT !.stops = x] \in Run
           /\ \A x \in BOOLEAN : [r EXCEPT !.warned = x] \in Run
<1>1. \A x \in {"none", "accepted", "running", "settling", "done"} :
        [r EXCEPT !.st = x] \in Run
  BY DEF Run
<1>2. \A x \in AllKinds \cup {"none"} :
        [r EXCEPT !.kind = x] \in Run
  BY DEF Run
<1>3. \A x \in {"none", "running", "done"} :
        [r EXCEPT !.handler = x] \in Run
  BY DEF Run
<1>4. \A x \in {"none", "complete", "fail", "snooze", "cancel", "stopped"} :
        [r EXCEPT !.value = x] \in Run
  BY DEF Run
<1>5. \A x \in BOOLEAN :
        [r EXCEPT !.thread = x] \in Run
  BY DEF Run
<1>6. \A x \in BOOLEAN :
        [r EXCEPT !.abandoned = x] \in Run
  BY DEF Run
<1>7. \A x \in Reasons :
        [r EXCEPT !.reason = x] \in Run
  BY DEF Run
<1>8. \A x \in BOOLEAN :
        [r EXCEPT !.lost = x] \in Run
  BY DEF Run
<1>9. \A x \in BOOLEAN :
        [r EXCEPT !.failed = x] \in Run
  BY DEF Run
<1>10. \A x \in BOOLEAN :
        [r EXCEPT !.cut = x] \in Run
  BY DEF Run
<1>11. \A x \in BOOLEAN :
        [r EXCEPT !.grace = x] \in Run
  BY DEF Run
<1>12. \A x \in {"idle", "ok", "cancel", "gone"} :
        [r EXCEPT !.hb = x] \in Run
  BY DEF Run
<1>13. \A x \in Db!Verbs \cup {"none"} :
        [r EXCEPT !.verb = x] \in Run
  BY DEF Run
<1>14. \A x \in Nat :
        [r EXCEPT !.tries = x] \in Run
  BY DEF Run
<1>15. \A x \in BOOLEAN :
        [r EXCEPT !.asked = x] \in Run
  BY DEF Run
<1>21. \A x \in BOOLEAN :
        [r EXCEPT !.unsafe = x] \in Run
  BY DEF Run
<1>16. \A x \in {"none", "effective", "already_settled", "settle_conflict", "lost"} :
        [r EXCEPT !.answer = x] \in Run
  BY DEF Run
<1>17. \A x \in BOOLEAN :
        [r EXCEPT !.rejected = x] \in Run
  BY DEF Run
<1>18. \A x \in Reports :
        [r EXCEPT !.report = x] \in Run
  BY DEF Run
<1>19. \A x \in BOOLEAN :
        [r EXCEPT !.stops = x] \in Run
  BY DEF Run
<1>20. \A x \in BOOLEAN :
        [r EXCEPT !.warned = x] \in Run
  BY DEF Run
<1> QED  BY <1>1, <1>2, <1>3, <1>4, <1>5, <1>6, <1>7, <1>8, <1>9, <1>10, <1>11, <1>12, <1>13, <1>14, <1>15, <1>16, <1>17, <1>18, <1>19, <1>20, <1>21

\* What a weaker reason meets is left alone; a stronger one tells the handler.
LEMMA SignalRow ==
    ASSUME NEW r \in Run, NEW why \in {"shutdown", "operator", "lease_lost"}
    PROVE  /\ Signal(r, why) \in Run /\ SameCall(r, Signal(r, why))
           /\ Signal(r, why).handler = r.handler /\ Signal(r, why).value = r.value
           /\ Signal(r, why).lost = r.lost /\ Signal(r, why).cut = r.cut
           /\ Signal(r, why).hb = r.hb
           /\ Signal(r, why).reason \in {r.reason, why}
           /\ why = "lease_lost" => Signal(r, why).reason = "lease_lost"
           /\ r.reason \in {"operator", "lease_lost"}
                => Signal(r, why).reason \in {"operator", "lease_lost"}
           /\ Signal(r, why).warned
                => r.warned \/ (r.handler = "running"
                                /\ Signal(r, why).reason \in {"operator", "lease_lost"})
<1>1. CASE Priority[why] <= Priority[r.reason]
  BY <1>1 DEF Signal, SameCall, Priority, Run, Reasons
<1>2. CASE ~(Priority[why] <= Priority[r.reason])
  <2>1. PICK w \in BOOLEAN : w = (r.warned \/ (why # "shutdown" /\ r.handler = "running"))
    BY DEF Run
  <2> DEFINE e == [r EXCEPT !.reason = why, !.warned = w]
  <2>2. Signal(r, why) = e
    BY <1>2, <2>1 DEF Signal
  <2>3. e = [[r EXCEPT !.reason = why] EXCEPT !.warned = w]
    BY DEF Run
  <2>4. [r EXCEPT !.reason = why] \in Run
    BY RunPut DEF Reasons
  <2>5. e \in Run
    BY <2>1, <2>3, <2>4, RunPut
  <2>6. /\ SameCall(r, e) /\ e.handler = r.handler /\ e.value = r.value /\ e.lost = r.lost
        /\ e.cut = r.cut /\ e.hb = r.hb /\ e.reason = why
    BY DEF SameCall, Run
  <2>7. e.warned = w
    BY DEF Run
  <2>8. r.reason \in {"operator", "lease_lost"} => why \in {"operator", "lease_lost"}
    BY <1>2 DEF Priority, Run, Reasons
  <2> HIDE DEF e
  <2> QED  BY <2>1, <2>2, <2>5, <2>6, <2>7, <2>8
<1> QED  BY <1>1, <1>2

LEMMA SignalOK ==
    ASSUME NEW r, NEW c, NEW s, RunOK(r, c, s), r.st \notin {"none", "accepted"},
           NEW why \in {"shutdown", "operator"}
    PROVE  RunOK(Signal(r, why), c, s)
<1> DEFINE e == Signal(r, why)
<1>1. r \in Run
  BY DEF RunOK
<1>2. /\ e \in Run /\ SameCall(r, e) /\ e.handler = r.handler /\ e.value = r.value /\ e.lost = r.lost
      /\ e.cut = r.cut /\ e.hb = r.hb /\ e.reason \in {r.reason, why}
      /\ r.reason \in {"operator", "lease_lost"} => e.reason \in {"operator", "lease_lost"}
      /\ e.warned => r.warned \/ (r.handler = "running" /\ e.reason \in {"operator", "lease_lost"})
  BY <1>1, SignalRow
<1> HIDE DEF e
<1>3. Staged(e, c)
  BY <1>2 DEF RunOK, Staged, SameCall, HasControl
<1>4. OneCall(e, c)
  BY <1>2 DEF RunOK, OneCall, SameCall
<1>5. Fits(e)
  BY <1>2 DEF RunOK, Fits, Staged, SameCall
<1>6. Known(e, c, s)
  BY <1>2 DEF RunOK, Known, SameCall
<1> QED  BY <1>2, <1>3, <1>4, <1>5, <1>6 DEF RunOK, e

\* The handler is asked to stop, and nothing else happens to it.
LEMMA HardCancelRow ==
    ASSUME NEW r \in Run
    PROVE  /\ HardCancel(r) \in Run /\ SameCall(r, HardCancel(r))
           /\ HardCancel(r).lost = r.lost /\ HardCancel(r).cut = r.cut /\ HardCancel(r).hb = r.hb
           /\ HardCancel(r).reason = r.reason /\ HardCancel(r).warned = r.warned
           /\ HardCancel(r).handler = r.handler /\ HardCancel(r).value = r.value
           /\ r.handler # "running" => HardCancel(r) = r
<1>1. CASE r.kind = "sync" \/ r.handler # "running"
  BY <1>1 DEF HardCancel, SameCall
<1>2. CASE ~(r.kind = "sync" \/ r.handler # "running")
  <2>1. PICK u, w \in BOOLEAN : u = (r.unsafe \/ r.thread) /\ w = (r.abandoned \/ r.thread)
    BY DEF Run
  <2> DEFINE e == [r EXCEPT !.asked = TRUE, !.unsafe = u, !.abandoned = w]
  <2>2. HardCancel(r) = e
    BY <1>2, <2>1 DEF HardCancel
  <2>3. e = [[[r EXCEPT !.asked = TRUE] EXCEPT !.unsafe = u] EXCEPT !.abandoned = w]
    BY DEF Run
  <2>4. [r EXCEPT !.asked = TRUE] \in Run
    BY RunPut
  <2>5. [[r EXCEPT !.asked = TRUE] EXCEPT !.unsafe = u] \in Run
    BY <2>4, RunPut
  <2>6. e \in Run
    BY <2>1, <2>3, <2>5, RunPut
  <2>7. /\ SameCall(r, e) /\ e.lost = r.lost /\ e.cut = r.cut /\ e.hb = r.hb
        /\ e.reason = r.reason /\ e.handler = r.handler /\ e.value = r.value
    BY DEF SameCall, Run
  <2>8. e.warned = r.warned
    BY DEF Run
  <2> HIDE DEF e
  <2> QED  BY <1>2, <2>2, <2>6, <2>7, <2>8
<1> QED  BY <1>1, <1>2

LEMMA HardCancelOK ==
    ASSUME NEW r, NEW c, NEW s, RunOK(r, c, s)
    PROVE  RunOK(HardCancel(r), c, s)
<1> DEFINE e == HardCancel(r)
<1>1. r \in Run
  BY DEF RunOK
<1>2. /\ e \in Run /\ SameCall(r, e) /\ e.lost = r.lost /\ e.cut = r.cut /\ e.hb = r.hb
      /\ e.reason = r.reason /\ e.warned = r.warned /\ e.handler = r.handler /\ e.value = r.value
  BY <1>1, HardCancelRow
<1>3. CASE r.handler # "running"
  BY <1>3 DEF HardCancel
<1>4. CASE r.handler = "running"
  <2>1. r.st = "running"
    BY <1>4 DEF RunOK, Staged
  <2> HIDE DEF e
  <2>2. Staged(e, c)
    BY <1>2, <2>1 DEF RunOK, Staged, SameCall, HasControl
  <2>3. OneCall(e, c)
    BY <1>2 DEF RunOK, OneCall, SameCall
  <2>4. Fits(e)
    BY <1>2 DEF RunOK, Fits, SameCall
  <2>5. Known(e, c, s)
    BY <1>2 DEF RunOK, Known, SameCall
  <2> QED  BY <1>2, <2>2, <2>3, <2>4, <2>5 DEF RunOK, e
<1> QED  BY <1>3, <1>4

\* A run under control hears a soft stop; the others have nothing to stop.
LEMMA SoftStoppedOK ==
    ASSUME NEW r, NEW c, NEW s, RunOK(r, c, s)
    PROVE  RunOK(SoftStopped(r), c, s) /\ SoftStopped(r).st = r.st
<1>1. CASE HasControl(r)
  <2>1. r \in Run /\ r.st \notin {"none", "accepted"}
    BY <1>1 DEF RunOK, HasControl
  <2>2. SoftStopped(r) = Signal(r, "shutdown")
    BY <1>1 DEF SoftStopped
  <2> QED  BY <2>1, <2>2, SignalOK, SignalRow DEF SameCall
<1>2. CASE ~HasControl(r)
  BY <1>2 DEF SoftStopped
<1> QED  BY <1>1, <1>2

\* The deadline cuts a handler off and asks it to stop in one step.
LEMMA AtDeadlineOK ==
    ASSUME NEW r, NEW c, NEW s, RunOK(r, c, s)
    PROVE  /\ RunOK(AtDeadline(r), c, s) /\ AtDeadline(r).st = r.st
           /\ AtDeadline(r).handler = r.handler
<1>1. CASE HasControl(r)
  <2>1. r \in Run /\ r.st \notin {"none", "accepted"}
    BY <1>1 DEF RunOK, HasControl
  <2>2. PICK x : x = Signal(r, "shutdown")
    OBVIOUS
  <2>3. RunOK(x, c, s) /\ x \in Run /\ x.st = r.st
    BY <2>1, <2>2, SignalOK, SignalRow DEF SameCall
  <2>4. x.handler = r.handler /\ x.kind = r.kind
    BY <2>1, <2>2, SignalRow DEF SameCall
  <2>5. PICK w \in BOOLEAN : w = (x.cut \/ (r.kind # "sync" /\ r.handler = "running"))
    BY <2>3 DEF Run
  <2> DEFINE y == [x EXCEPT !.cut = w]
  <2>6. AtDeadline(r) = HardCancel(y)
    BY <1>1, <2>2, <2>5 DEF AtDeadline
  <2>7. y \in Run
    BY <2>3, <2>5, RunPut
  <2>8. /\ SameCall(x, y) /\ y.handler = x.handler /\ y.value = x.value /\ y.lost = x.lost
        /\ y.hb = x.hb /\ y.reason = x.reason /\ y.cut = w
    BY <2>3 DEF SameCall, Run
  <2>9. y.warned = x.warned
    BY <2>3 DEF Run
  <2>10. PICK e : e = HardCancel(y)
    OBVIOUS
  <2> HIDE DEF y
  <2>11. /\ e \in Run /\ SameCall(y, e) /\ e.lost = y.lost /\ e.cut = y.cut /\ e.hb = y.hb
         /\ e.reason = y.reason /\ e.warned = y.warned /\ e.handler = y.handler
         /\ e.value = y.value
    BY <2>7, <2>10, HardCancelRow
  <2>12. Staged(e, c)
    BY <2>1, <2>3, <2>8, <2>11 DEF RunOK, Staged, SameCall, HasControl
  <2>13. OneCall(e, c)
    BY <2>3, <2>8, <2>11 DEF RunOK, OneCall, SameCall
  <2>14. Fits(e)
    <3>1. x.cut => e.cut
      BY <2>3, <2>5, <2>8, <2>11 DEF Run
    <3> QED  BY <2>3, <2>8, <2>9, <2>11, <3>1 DEF RunOK, Fits, SameCall
  <2>15. Known(e, c, s)
    BY <2>3, <2>8, <2>11 DEF RunOK, Known, SameCall
  <2> QED  BY <2>3, <2>4, <2>6, <2>8, <2>10, <2>11, <2>12, <2>13, <2>14, <2>15 DEF RunOK, SameCall
<1>2. CASE ~HasControl(r)
  BY <1>2 DEF AtDeadline
<1> QED  BY <1>1, <1>2

\* A run that loses its lease is told, and marked lost, in one step.
LEMMA LostOK ==
    ASSUME NEW r, NEW c, NEW s, RunOK(r, c, s), HasControl(r), NEW failed \in BOOLEAN
    PROVE  RunOK(Lost(r, failed), c, s) /\ Lost(r, failed).st = r.st
<1>1. r \in Run /\ r.st \in {"running", "settling"} /\ r.kind \in Controlled
  BY DEF RunOK, HasControl
<1>2. PICK x : x = Signal(r, "lease_lost")
  OBVIOUS
<1>3. /\ x \in Run /\ SameCall(r, x) /\ x.handler = r.handler /\ x.value = r.value
      /\ x.cut = r.cut /\ x.reason = "lease_lost"
      /\ x.warned => r.warned \/ r.handler = "running"
  BY <1>1, <1>2, SignalRow
<1>4. PICK f \in BOOLEAN : f = (x.failed \/ failed)
  BY <1>3 DEF Run
<1>5. PICK b \in BOOLEAN : b = (x.abandoned \/ (r.kind = "sync" /\ r.handler = "running"))
  BY <1>3 DEF Run
<1> DEFINE y == [x EXCEPT !.lost = TRUE, !.failed = f, !.hb = "idle", !.abandoned = b]
<1>6. Lost(r, failed) = HardCancel(y)
  BY <1>2, <1>4, <1>5 DEF Lost
<1>7. y \in Run
  <2>1. y = [[[[x EXCEPT !.lost = TRUE] EXCEPT !.failed = f] EXCEPT !.hb = "idle"]
               EXCEPT !.abandoned = b]
    BY <1>3 DEF Run
  <2>2. [x EXCEPT !.lost = TRUE] \in Run
    BY <1>3, RunPut
  <2>3. [[x EXCEPT !.lost = TRUE] EXCEPT !.failed = f] \in Run
    BY <1>4, <2>2, RunPut
  <2>4. [[[x EXCEPT !.lost = TRUE] EXCEPT !.failed = f] EXCEPT !.hb = "idle"] \in Run
    BY <2>3, RunPut
  <2> QED  BY <1>5, <2>1, <2>4, RunPut
<1>8. /\ SameCall(x, y) /\ y.handler = x.handler /\ y.value = x.value /\ y.lost
      /\ y.hb = "idle" /\ y.reason = x.reason /\ y.cut = x.cut
  BY <1>3 DEF SameCall, Run
<1>9. y.warned = x.warned
  BY <1>3 DEF Run
<1> HIDE DEF y
<1>10. Staged(y, c)
  BY <1>1, <1>3, <1>8 DEF RunOK, Staged, SameCall, HasControl
<1>11. OneCall(y, c)
  BY <1>3, <1>8 DEF RunOK, OneCall, SameCall
<1>12. Fits(y)
  BY <1>1, <1>3, <1>8, <1>9 DEF RunOK, Fits, Staged, SameCall
<1>13. Known(y, c, s)
  BY <1>3, <1>8 DEF RunOK, Known, SameCall
<1>14. RunOK(y, c, s)
  BY <1>7, <1>10, <1>11, <1>12, <1>13 DEF RunOK
<1> QED  BY <1>3, <1>6, <1>7, <1>8, <1>14, HardCancelOK, HardCancelRow DEF SameCall

-----------------------------------------------------------------------------
(* Steps *)

\* Nothing of the queue moves.
LEMMA LedgerStill ==
    ASSUME Ledger, UNCHANGED dbVars
    PROVE  Ledger' /\ settledBy' = settledBy /\ \A a \in Attempts : Still(a)
<1>1. Ledger'
  BY JP!NextInv, JP!RecordedStep, QueueConstants DEF dbVars, Ledger, JP!vars
<1> QED  BY <1>1, StillAll DEF dbVars

\* Runs go on, and none begins.
LEMMA RunsStep ==
    ASSUME WInv, Ledger', UNCHANGED svc, calls' \in [Attempts -> SUBSET Db!Verbs],
           DOMAIN run' = Attempts, run' = [a \in Attempts |-> run'[a]],
           \A a \in Attempts : /\ RunOK(run'[a], calls'[a], settledBy'[a])
                               /\ run'[a].st = "none" <=> run[a].st = "none"
                               /\ Absent(a)' <=> Absent(a)
    PROVE  WInv'
<1>1. run' \in [Attempts -> Run]
  BY DEF RunOK
<1>2. Claims'
  BY DEF WInv, Claims, Svc
<1> QED  BY <1>1, <1>2 DEF WInv

\* One run goes on.
LEMMA OneRun ==
    ASSUME WInv, Ledger', UNCHANGED svc, calls' \in [Attempts -> SUBSET Db!Verbs],
           NEW a \in Attempts, NEW e, run' = [run EXCEPT ![a] = e],
           Absent(a)' <=> Absent(a),
           \A b \in Attempts \ {a} : Still(b) /\ calls'[b] = calls[b],
           run[a].st # "none", e.st # "none", RunOK(e, calls'[a], settledBy'[a])
    PROVE  WInv'
<1>1. run \in [Attempts -> Run] /\ \A b \in Attempts : RunOK(run[b], calls[b], settledBy[b])
  BY DEF WInv
<1>2. \A b \in Attempts \ {a} : settledBy'[b] = settledBy[b] /\ (Absent(b)' <=> Absent(b))
  BY DEF Still
<1>3. run'[a] = e /\ \A b \in Attempts \ {a} : run'[b] = run[b]
  BY <1>1
<1>4. DOMAIN run' = Attempts /\ run' = [b \in Attempts |-> run'[b]]
  BY <1>1
<1>5. \A b \in Attempts : /\ RunOK(run'[b], calls'[b], settledBy'[b])
                          /\ run'[b].st = "none" <=> run[b].st = "none"
  BY <1>1, <1>2, <1>3
<1> QED  BY <1>2, <1>4, <1>5, RunsStep

\* One run goes on and calls nobody.
LEMMA QuietRun ==
    ASSUME WInv, Ledger', \A b \in Attempts : Still(b), UNCHANGED <<svc, calls>>,
           NEW a \in Attempts, NEW e, run' = [run EXCEPT ![a] = e],
           run[a].st # "none", e.st # "none", RunOK(e, calls[a], settledBy[a])
    PROVE  WInv'
<1>1. calls' \in [Attempts -> SUBSET Db!Verbs] /\ \A b \in Attempts : calls'[b] = calls[b]
  BY DEF WInv
<1>2. settledBy'[a] = settledBy[a] /\ (Absent(a)' <=> Absent(a))
  BY DEF Still
<1> QED  BY <1>1, <1>2, OneRun

\* A report ends its run.
Ended(r, what, stops) ==
    [r EXCEPT !.st = "done", !.report = what, !.stops = stops, !.hb = "idle",
              !.grace = FALSE, !.answer = "none", !.tries = 0]

LEMMA ReportRow ==
    ASSUME NEW r, NEW c, NEW s, RunOK(r, c, s), r.st \notin {"none", "accepted"},
           r.handler # "running", NEW what \in Reports, NEW stops \in BOOLEAN,
           what = "settled" => s = r.verb /\ r.verb \in Db!Verbs
    PROVE  RunOK(Ended(r, what, stops), c, s) /\ Ended(r, what, stops).st = "done"
<1> DEFINE e1 == [r EXCEPT !.st = "done"]
           e2 == [e1 EXCEPT !.report = what]
           e3 == [e2 EXCEPT !.stops = stops]
           e4 == [e3 EXCEPT !.hb = "idle"]
           e5 == [e4 EXCEPT !.grace = FALSE]
           e6 == [e5 EXCEPT !.answer = "none"]
           e  == [r EXCEPT !.st = "done", !.report = what, !.stops = stops, !.hb = "idle",
                           !.grace = FALSE, !.answer = "none", !.tries = 0]
<1>1. r \in Run
  BY DEF RunOK
<1>2. e = [e6 EXCEPT !.tries = 0]
  BY <1>1 DEF Run
<1>3. e \in Run
  <2>1. e1 \in Run
    BY <1>1, RunPut
  <2> HIDE DEF e1
  <2>2. e2 \in Run
    BY <2>1, RunPut
  <2> HIDE DEF e2
  <2>3. e3 \in Run
    BY <2>2, RunPut
  <2> HIDE DEF e3
  <2>4. e4 \in Run
    BY <2>3, RunPut
  <2> HIDE DEF e4
  <2>5. e5 \in Run
    BY <2>4, RunPut
  <2> HIDE DEF e5
  <2>6. e6 \in Run
    BY <2>5, RunPut
  <2> HIDE DEF e6, e
  <2> QED  BY <1>2, <2>6, RunPut
<1>4. /\ e.st = "done" /\ e.kind = r.kind /\ e.verb = r.verb /\ e.rejected = r.rejected
      /\ e.report = what /\ e.answer = "none" /\ e.hb = "idle" /\ e.handler = r.handler
  BY <1>1 DEF Run
<1>5. /\ e.value = r.value /\ e.lost = r.lost /\ e.cut = r.cut /\ e.reason = r.reason
      /\ e.warned = r.warned
  BY <1>1 DEF Run
<1> HIDE DEF e
<1>6. Staged(e, c)
  BY <1>4, <1>5 DEF RunOK, Staged
<1>7. OneCall(e, c)
  BY <1>4 DEF RunOK, OneCall
<1>8. Fits(e)
  BY <1>4, <1>5 DEF RunOK, Fits
<1>9. Known(e, c, s)
  BY <1>4 DEF RunOK, Known
<1> QED  BY <1>3, <1>4, <1>6, <1>7, <1>8, <1>9 DEF RunOK, e, Ended

\* It may stop the others softly.
LEMMA ReportStep ==
    ASSUME WInv, UNCHANGED <<dbVars, svc>>, calls' \in [Attempts -> SUBSET Db!Verbs],
           NEW a \in Attempts, NEW what \in Reports, NEW fatal \in BOOLEAN,
           Report(a, run[a], what, fatal),
           \A b \in Attempts \ {a} : calls'[b] = calls[b],
           run[a].st \notin {"none", "accepted"}, run[a].handler # "running",
           RunOK(run[a], calls'[a], settledBy[a]),
           what = "settled" => settledBy[a] = run[a].verb /\ run[a].verb \in Db!Verbs
    PROVE  WInv'
<1>1. run \in [Attempts -> Run] /\ \A b \in Attempts : RunOK(run[b], calls[b], settledBy[b])
  BY DEF WInv
<1>2. Ledger' /\ settledBy' = settledBy /\ \A b \in Attempts : Absent(b)' <=> Absent(b)
  BY LedgerStill DEF WInv, Still
<1>3. PICK closes, stops \in BOOLEAN :
        run' = [b \in Attempts |->
                 IF b = a THEN Ended(run[a], what, stops)
                 ELSE IF closes THEN SoftStopped(run[b]) ELSE run[b]]
  BY DEF Report, Ended
<1>4. RunOK(run'[a], calls'[a], settledBy'[a]) /\ run'[a].st = "done"
  <2>1. run'[a] = Ended(run[a], what, stops)
    BY <1>3
  <2> QED  BY <1>2, <2>1, ReportRow
<1>5. ASSUME NEW b \in Attempts \ {a}
      PROVE  RunOK(run'[b], calls'[b], settledBy'[b]) /\ run'[b].st = run[b].st
  BY <1>1, <1>2, <1>3, SoftStoppedOK
<1>6. DOMAIN run' = Attempts /\ run' = [b \in Attempts |-> run'[b]]
  BY <1>3
<1> QED  BY <1>2, <1>4, <1>5, <1>6, RunsStep

\* What a run does besides its call changes nothing the others depend on.
LEMMA AsideOK ==
    ASSUME NEW r, NEW c, NEW s, RunOK(r, c, s), r.st \notin {"none", "accepted"},
           NEW e \in Run, SameCall(r, e),
           e.handler = r.handler /\ e.value = r.value /\ e.lost = r.lost /\ e.cut = r.cut,
           e.reason = r.reason /\ e.warned = r.warned,
           e.hb \in {r.hb, "idle"} \/ HasControl(r)
    PROVE  RunOK(e, c, s) /\ e.st = r.st
<1>1. Staged(e, c)
  BY DEF RunOK, Staged, SameCall, HasControl
<1>2. OneCall(e, c)
  BY DEF RunOK, OneCall, SameCall
<1>3. Fits(e)
  BY DEF RunOK, Fits, SameCall
<1>4. Known(e, c, s)
  BY DEF RunOK, Known, SameCall
<1> QED  BY <1>1, <1>2, <1>3, <1>4 DEF RunOK, SameCall

LEMMA BeatOK ==
    ASSUME NEW r, NEW c, NEW s, RunOK(r, c, s), r.st \notin {"none", "accepted"},
           NEW h \in {"idle", "ok", "cancel", "gone"}, h = "idle" \/ HasControl(r)
    PROVE  RunOK([r EXCEPT !.hb = h], c, s) /\ [r EXCEPT !.hb = h].st = r.st
<1> DEFINE e == [r EXCEPT !.hb = h]
<1>1. r \in Run /\ e \in Run
  BY RunPut DEF RunOK
<1>2. /\ SameCall(r, e) /\ e.handler = r.handler /\ e.value = r.value /\ e.lost = r.lost
      /\ e.cut = r.cut /\ e.reason = r.reason /\ e.hb = h
  BY <1>1 DEF SameCall, Run
<1>3. e.warned = r.warned
  BY <1>1 DEF Run
<1> HIDE DEF e
<1>4. RunOK(e, c, s) /\ e.st = r.st
  BY <1>1, <1>2, <1>3, AsideOK
<1> QED  BY <1>4 DEF e

LEMMA GraceOK ==
    ASSUME NEW r, NEW c, NEW s, RunOK(r, c, s), r.st \notin {"none", "accepted"},
           NEW g \in BOOLEAN
    PROVE  RunOK([r EXCEPT !.grace = g], c, s) /\ [r EXCEPT !.grace = g].st = r.st
<1> DEFINE e == [r EXCEPT !.grace = g]
<1>1. r \in Run /\ e \in Run
  BY RunPut DEF RunOK
<1>2. /\ SameCall(r, e) /\ e.handler = r.handler /\ e.value = r.value /\ e.lost = r.lost
      /\ e.cut = r.cut /\ e.reason = r.reason /\ e.hb = r.hb
  BY <1>1 DEF SameCall, Run
<1>3. e.warned = r.warned
  BY <1>1 DEF Run
<1> HIDE DEF e
<1>4. RunOK(e, c, s) /\ e.st = r.st
  BY <1>1, <1>2, <1>3, AsideOK
<1> QED  BY <1>4 DEF e

LEMMA ThreadOK ==
    ASSUME NEW r, NEW c, NEW s, RunOK(r, c, s), r.st \notin {"none", "accepted"},
           NEW t \in BOOLEAN, NEW u \in BOOLEAN
    PROVE  /\ RunOK([r EXCEPT !.thread = t, !.unsafe = u], c, s)
           /\ [r EXCEPT !.thread = t, !.unsafe = u].st = r.st
<1> DEFINE x == [r EXCEPT !.thread = t]
           e == [r EXCEPT !.thread = t, !.unsafe = u]
<1>1. r \in Run /\ x \in Run
  BY RunPut DEF RunOK
<1>2. e = [x EXCEPT !.unsafe = u]
  BY <1>1 DEF Run
<1>3. /\ SameCall(r, e) /\ e.handler = r.handler /\ e.value = r.value /\ e.lost = r.lost
      /\ e.cut = r.cut /\ e.reason = r.reason /\ e.hb = r.hb
  BY <1>1 DEF SameCall, Run
<1>4. e.warned = r.warned
  BY <1>1 DEF Run
<1> HIDE DEF x, e
<1>5. e \in Run
  BY <1>1, <1>2, RunPut
<1>6. RunOK(e, c, s) /\ e.st = r.st
  BY <1>1, <1>3, <1>4, <1>5, AsideOK
<1> QED  BY <1>6 DEF e

\* Two of them at once.
LEMMA BeatGraceOK ==
    ASSUME NEW r, NEW c, NEW s, RunOK(r, c, s), r.st \notin {"none", "accepted"}
    PROVE  LET e == [r EXCEPT !.hb = "idle", !.grace = TRUE] IN RunOK(e, c, s) /\ e.st = r.st
<1>1. r \in Run
  BY DEF RunOK
<1>2. PICK y : y = [r EXCEPT !.hb = "idle"]
  OBVIOUS
<1>3. RunOK(y, c, s) /\ y.st = r.st
  BY <1>2, BeatOK
<1>4. [r EXCEPT !.hb = "idle", !.grace = TRUE] = [y EXCEPT !.grace = TRUE]
  BY <1>1, <1>2 DEF Run
<1>5. RunOK([y EXCEPT !.grace = TRUE], c, s) /\ [y EXCEPT !.grace = TRUE].st = y.st
  BY <1>3, GraceOK
<1> QED  BY <1>3, <1>4, <1>5

\* The handler is over, with a result or stopped.
Over(r, v) == [r EXCEPT !.handler = "done", !.value = v]

LEMMA OverOK ==
    ASSUME NEW r, NEW c, NEW s, RunOK(r, c, s), r.handler = "running",
           NEW v \in {"complete", "fail", "snooze", "cancel", "stopped"}
    PROVE  RunOK(Over(r, v), c, s) /\ Over(r, v).st = r.st
<1> DEFINE x == [r EXCEPT !.handler = "done"]
           e == [r EXCEPT !.handler = "done", !.value = v]
<1>1. r \in Run /\ x \in Run /\ r.st = "running"
  BY RunPut DEF RunOK, Staged
<1>2. e = [x EXCEPT !.value = v]
  BY <1>1 DEF Run
<1> HIDE DEF x
<1>3. [x EXCEPT !.value = v] \in Run
  BY <1>1, RunPut
<1>4. e \in Run
  BY <1>2, <1>3
<1>5. /\ SameCall(r, e) /\ e.handler = "done" /\ e.value = v /\ e.lost = r.lost
      /\ e.cut = r.cut /\ e.reason = r.reason /\ e.hb = r.hb
  BY <1>1 DEF SameCall, Run
<1>6. e.warned = r.warned
  BY <1>1 DEF Run
<1> HIDE DEF e
<1>7. Staged(e, c)
  BY <1>1, <1>5 DEF RunOK, Staged, SameCall, HasControl
<1>8. OneCall(e, c)
  BY <1>5 DEF RunOK, OneCall, SameCall
<1>9. Fits(e)
  BY <1>1, <1>5, <1>6, QueueAssumption DEF RunOK, Fits, Staged, SameCall
<1>10. Known(e, c, s)
  BY <1>5 DEF RunOK, Known, SameCall
<1> QED  BY <1>4, <1>5, <1>7, <1>8, <1>9, <1>10 DEF RunOK, e, Over

LEMMA HandlerStep ==
    ASSUME WInv, NEW a \in Attempts, Handler(a)
    PROVE  WInv'
<1>1. /\ run \in [Attempts -> Run] /\ RunOK(run[a], calls[a], settledBy[a])
      /\ NoRun.handler = "none" /\ Accepted.handler = "none" /\ ~NoRun.thread /\ ~Accepted.thread
  BY DEF WInv, NoRun, Accepted
<1>2. UNCHANGED <<dbVars, sup, svc, calls>>
  BY DEF Handler, HandlerReturns, HandlerStops, RunSync, ThreadReturns
<1>3. Ledger' /\ \A b \in Attempts : Still(b)
  BY <1>2, LedgerStill DEF WInv
<1>4. ASSUME NEW v \in {"complete", "fail", "snooze", "cancel", "stopped"},
             run[a].handler = "running",
             run' = [run EXCEPT ![a].handler = "done", ![a].value = v]
      PROVE  WInv'
  <2>1. run' = [run EXCEPT ![a] = Over(run[a], v)]
    BY <1>1, <1>4 DEF Over
  <2>2. run[a].st \notin {"none", "accepted"}
    BY <1>1, <1>4 DEF RunOK, Staged
  <2>3. RunOK(Over(run[a], v), calls[a], settledBy[a]) /\ Over(run[a], v).st = run[a].st
    BY <1>1, <1>4, OverOK
  <2> QED  BY <1>2, <1>3, <2>1, <2>2, <2>3, QuietRun
<1>5. ASSUME NEW v \in {"complete", "fail", "snooze", "cancel"}, HandlerReturns(a, v) PROVE WInv'
  BY <1>4, <1>5 DEF HandlerReturns, Acts
<1>6. CASE HandlerStops(a)
  BY <1>4, <1>6 DEF HandlerStops, Acts
<1>7. ASSUME NEW t \in BOOLEAN, NEW u \in BOOLEAN, run[a].st \notin {"none", "accepted"},
             run' = [run EXCEPT ![a] = [run[a] EXCEPT !.thread = t, !.unsafe = u]]
      PROVE  WInv'
  <2>1. PICK e : e = [run[a] EXCEPT !.thread = t, !.unsafe = u]
    OBVIOUS
  <2>2. RunOK(e, calls[a], settledBy[a]) /\ e.st = run[a].st
    BY <1>1, <1>7, <2>1, ThreadOK
  <2> QED  BY <1>2, <1>3, <1>7, <2>1, <2>2, QuietRun
<1>8. CASE ThreadReturns(a)
  <2>1. run' = [run EXCEPT ![a] = [run[a] EXCEPT !.thread = FALSE, !.unsafe = FALSE]]
    BY <1>1, <1>8 DEF ThreadReturns
  <2>2. run[a].st \notin {"none", "accepted"}
    BY <1>1, <1>8 DEF RunOK, Staged, ThreadReturns
  <2> QED  BY <1>7, <2>1, <2>2
<1>9. CASE RunSync(a)
  <2>1. run' = [run EXCEPT ![a] = [run[a] EXCEPT !.thread = TRUE]]
    BY <1>1, <1>9 DEF RunSync
  <2>2. run[a].st \notin {"none", "accepted"} /\ run[a].unsafe \in BOOLEAN
    BY <1>1, <1>9 DEF RunOK, Staged, RunSync, Acts, Run
  <2>3. [run[a] EXCEPT !.thread = TRUE]
          = [run[a] EXCEPT !.thread = TRUE, !.unsafe = run[a].unsafe]
    BY <1>1 DEF Run
  <2> QED  BY <1>7, <2>1, <2>2, <2>3
<1> QED  BY <1>5, <1>6, <1>8, <1>9 DEF Handler

LEMMA HeartbeatStep ==
    ASSUME WInv, NEW a \in Attempts, Heartbeat(a)
    PROVE  WInv'
<1> DEFINE r == run[a]
<1>1. /\ run \in [Attempts -> Run] /\ RunOK(r, calls[a], settledBy[a])
      /\ NoRun.handler = "none" /\ Accepted.handler = "none" /\ Ledger
  BY DEF WInv, NoRun, Accepted
<1>2. UNCHANGED <<svc, calls>>
  BY DEF Heartbeat, HeartbeatSend, HeartbeatAnswer, HeartbeatFails, HeartbeatGivesUp, GraceEnds
<1>3. ASSUME UNCHANGED dbVars PROVE Ledger' /\ \A b \in Attempts : Still(b)
  BY <1>1, <1>3, LedgerStill
<1>4. r.hb # "idle" => HasControl(r)
  BY <1>1 DEF RunOK, Staged
<1>5. HasControl(r) => r.st \notin {"none", "accepted"}
  BY DEF HasControl
<1> HIDE DEF r
<1>6. ASSUME NEW e, RunOK(e, calls[a], settledBy[a]), e.st = r.st, r.st \notin {"none", "accepted"},
             run' = [run EXCEPT ![a] = e], Ledger', \A b \in Attempts : Still(b)
      PROVE  WInv'
  BY <1>2, <1>6, QuietRun DEF r
<1>7. ASSUME NEW h \in {"idle", "ok", "cancel", "gone"}, run' = [run EXCEPT ![a].hb = h],
             Ledger', \A b \in Attempts : Still(b), HasControl(r)
      PROVE  WInv'
  <2>1. PICK e : e = [r EXCEPT !.hb = h]
    OBVIOUS
  <2>2. run' = [run EXCEPT ![a] = e]
    BY <1>1, <1>7, <2>1 DEF r
  <2>3. RunOK(e, calls[a], settledBy[a]) /\ e.st = r.st
    BY <1>1, <1>5, <1>7, <2>1, BeatOK
  <2> QED  BY <1>5, <1>6, <1>7, <2>2, <2>3
<1>8. CASE HeartbeatSend(a)
  <2>1. HasControl(r)
    BY <1>8 DEF HeartbeatSend, r
  <2>2. CASE Db!heartbeat(a) /\ run' = [run EXCEPT ![a].hb =
                                          IF jobs[attempts[a].job].cancel THEN "cancel" ELSE "ok"]
    <3>1. PICK h \in {"cancel", "ok"} : h = IF jobs[attempts[a].job].cancel THEN "cancel" ELSE "ok"
      OBVIOUS
    <3>2. run' = [run EXCEPT ![a].hb = h]
      BY <2>2, <3>1
    <3> QED  BY <1>1, <1>7, <2>1, <2>2, <3>2, HeartbeatMoves
  <2>3. CASE UNCHANGED dbVars /\ run' = [run EXCEPT ![a].hb = "gone"]
    BY <1>3, <1>7, <2>1, <2>3
  <2> QED  BY <1>8, <2>2, <2>3 DEF HeartbeatSend
<1>9. ASSUME NEW failed \in BOOLEAN, HasControl(r), UNCHANGED dbVars,
             run' = [run EXCEPT ![a] = Lost(r, failed)]
      PROVE  WInv'
  <2>1. RunOK(Lost(r, failed), calls[a], settledBy[a]) /\ Lost(r, failed).st = r.st
    BY <1>1, <1>9, LostOK
  <2> QED  BY <1>3, <1>5, <1>6, <1>9, <2>1
<1>10. CASE HeartbeatAnswer(a)
  <2>1. UNCHANGED dbVars /\ HasControl(r)
    BY <1>4, <1>10 DEF HeartbeatAnswer, r
  <2>2. CASE r.hb = "gone"
    <3>1. run' = [run EXCEPT ![a] = Lost(r, FALSE)]
      BY <1>10, <2>2 DEF HeartbeatAnswer, r
    <3> QED  BY <1>9, <2>1, <3>1
  <2>3. CASE r.hb = "cancel"
    <3>1. PICK x : x = Signal(r, "operator")
      OBVIOUS
    <3>2. PICK e : e = [x EXCEPT !.hb = "idle", !.grace = TRUE]
      OBVIOUS
    <3>3. run' = [run EXCEPT ![a] = e]
      BY <1>10, <2>3, <3>1, <3>2 DEF HeartbeatAnswer, r
    <3>4. r \in Run
      BY <1>1 DEF RunOK
    <3>5. RunOK(x, calls[a], settledBy[a]) /\ x.st = r.st
      BY <1>1, <1>5, <2>1, <3>1, <3>4, SignalOK, SignalRow DEF SameCall
    <3>6. RunOK(e, calls[a], settledBy[a]) /\ e.st = x.st
      BY <1>5, <2>1, <3>2, <3>5, BeatGraceOK
    <3> QED  BY <1>3, <1>5, <1>6, <2>1, <3>3, <3>5, <3>6
  <2>4. CASE r.hb \notin {"gone", "cancel"}
    <3>1. run' = [run EXCEPT ![a] = [r EXCEPT !.hb = "idle"]]
      BY <1>10, <2>4 DEF HeartbeatAnswer, r
    <3>2. PICK e : e = [r EXCEPT !.hb = "idle"]
      OBVIOUS
    <3>3. RunOK(e, calls[a], settledBy[a]) /\ e.st = r.st
      BY <1>1, <1>5, <2>1, <3>2, BeatOK
    <3> QED  BY <1>3, <1>5, <1>6, <2>1, <3>1, <3>2, <3>3
  <2> QED  BY <2>2, <2>3, <2>4
<1>11. CASE HeartbeatFails(a)
  <2>1. UNCHANGED dbVars /\ HasControl(r) /\ run' = [run EXCEPT ![a].hb = "idle"]
    BY <1>4, <1>11 DEF HeartbeatFails, r
  <2> QED  BY <1>3, <1>7, <2>1
<1>12. ASSUME NEW fatal \in BOOLEAN, HeartbeatGivesUp(a, fatal) PROVE WInv'
  BY <1>9, <1>12 DEF HeartbeatGivesUp, r
<1>13. CASE GraceEnds(a)
  <2>1. r.handler = "running" /\ r.st = "running" /\ UNCHANGED dbVars
    BY <1>1, <1>13 DEF GraceEnds, RunOK, Staged, r
  <2>2. PICK x : x = HardCancel(r)
    OBVIOUS
  <2>3. PICK e : e = [x EXCEPT !.grace = FALSE]
    OBVIOUS
  <2>4. run' = [run EXCEPT ![a] = e]
    BY <1>13, <2>2, <2>3 DEF GraceEnds, r
  <2>5. r \in Run
    BY <1>1 DEF RunOK
  <2>6. RunOK(x, calls[a], settledBy[a]) /\ x.st = r.st
    BY <1>1, <2>2, <2>5, HardCancelOK, HardCancelRow DEF SameCall
  <2>7. RunOK(e, calls[a], settledBy[a]) /\ e.st = x.st
    BY <2>1, <2>3, <2>6, GraceOK
  <2> QED  BY <1>3, <1>6, <2>1, <2>4, <2>6, <2>7
<1> QED  BY <1>8, <1>10, <1>11, <1>12, <1>13 DEF Heartbeat

\* The first record of a run that goes straight to its settlement.
Refused(k, v) == [Accepted EXCEPT !.st = "settling", !.kind = k, !.verb = v]

LEMMA RefusedOK ==
    ASSUME NEW s \in {None, "reap"}, NEW k \in AllKinds \ Controlled, NEW v \in Db!Verbs
    PROVE  RunOK(Refused(k, v), {}, s) /\ Refused(k, v).st = "settling"
<1> DEFINE x == [Accepted EXCEPT !.st = "settling"]
           y == [x EXCEPT !.kind = k]
           e == [Accepted EXCEPT !.st = "settling", !.kind = k, !.verb = v]
<1>1. Accepted \in Run /\ x \in Run
  BY NoRunFacts, RunPut
<1>2. e = [y EXCEPT !.verb = v]
  BY <1>1 DEF Run
<1> HIDE DEF x
<1>3. y \in Run
  BY <1>1, RunPut
<1> HIDE DEF y
<1>4. [y EXCEPT !.verb = v] \in Run
  BY <1>3, RunPut
<1>5. e \in Run
  BY <1>2, <1>4
<1>6. /\ e.st = "settling" /\ e.kind = k /\ e.verb = v /\ e.handler = Accepted.handler
      /\ e.rejected = Accepted.rejected /\ e.report = Accepted.report
      /\ e.answer = Accepted.answer /\ e.hb = Accepted.hb
  BY <1>1 DEF Run
<1>7. /\ e.lost = Accepted.lost /\ e.cut = Accepted.cut /\ e.reason = Accepted.reason
      /\ e.warned = Accepted.warned /\ e.value = Accepted.value
  BY <1>1 DEF Run
<1>8. /\ Accepted.handler = "none" /\ Accepted.rejected = FALSE /\ Accepted.report = "none"
      /\ Accepted.answer = "none" /\ Accepted.hb = "idle"
  BY DEF Accepted, NoRun
<1>9. /\ Accepted.lost = FALSE /\ Accepted.cut = FALSE /\ Accepted.reason = "none"
      /\ Accepted.warned = FALSE
  BY DEF Accepted, NoRun
<1> HIDE DEF e
<1>10. Staged(e, {})
  BY <1>6, <1>7, <1>8, <1>9 DEF Staged
<1>11. OneCall(e, {})
  BY <1>6, <1>8 DEF OneCall
<1>12. Fits(e)
  BY <1>6, <1>7, <1>8, <1>9 DEF Fits
<1>13. Known(e, {}, s)
  BY <1>6, <1>8 DEF Known
<1> QED  BY <1>5, <1>6, <1>10, <1>11, <1>12, <1>13 DEF RunOK, e, Refused

\* The first record of a run under control.
Begun(k) == [Accepted EXCEPT !.st = "running", !.kind = k, !.handler = "running"]

LEMMA BegunOK ==
    ASSUME NEW s \in {None, "reap"}, NEW k \in Controlled
    PROVE  RunOK(Begun(k), {}, s) /\ Begun(k).st = "running" /\ Begun(k).handler = "running"
<1> DEFINE x == [Accepted EXCEPT !.st = "running"]
           y == [x EXCEPT !.kind = k]
           e == [Accepted EXCEPT !.st = "running", !.kind = k, !.handler = "running"]
<1>1. Accepted \in Run /\ x \in Run
  BY NoRunFacts, RunPut
<1>2. e = [y EXCEPT !.handler = "running"]
  BY <1>1 DEF Run
<1> HIDE DEF x
<1>3. y \in Run
  BY <1>1, RunPut DEF AllKinds
<1> HIDE DEF y
<1>4. [y EXCEPT !.handler = "running"] \in Run
  BY <1>3, RunPut
<1>5. e \in Run
  BY <1>2, <1>4
<1>6. /\ e.st = "running" /\ e.kind = k /\ e.verb = Accepted.verb /\ e.handler = "running"
      /\ e.rejected = Accepted.rejected /\ e.report = Accepted.report
      /\ e.answer = Accepted.answer /\ e.hb = Accepted.hb
  BY <1>1 DEF Run
<1>7. /\ e.lost = Accepted.lost /\ e.cut = Accepted.cut /\ e.reason = Accepted.reason
      /\ e.warned = Accepted.warned /\ e.value = Accepted.value
  BY <1>1 DEF Run
<1>8. /\ Accepted.verb = "none" /\ Accepted.rejected = FALSE /\ Accepted.report = "none"
      /\ Accepted.answer = "none" /\ Accepted.hb = "idle"
  BY DEF Accepted, NoRun
<1>9. /\ Accepted.lost = FALSE /\ Accepted.cut = FALSE /\ Accepted.reason = "none"
      /\ Accepted.warned = FALSE
  BY DEF Accepted, NoRun
<1>10. e = Begun(k)
  BY DEF Begun
<1> HIDE DEF e
<1>11. Staged(e, {})
  BY <1>6, <1>7, <1>8, <1>9 DEF Staged
<1>12. OneCall(e, {})
  BY <1>6, <1>8 DEF OneCall
<1>13. Fits(e)
  BY <1>6, <1>7, <1>8, <1>9 DEF Fits
<1>14. Known(e, {}, s)
  BY <1>6, <1>8 DEF Known
<1> QED  BY <1>5, <1>6, <1>10, <1>11, <1>12, <1>13, <1>14 DEF RunOK

\* A task cancelled before its first step is over at once.
LEMMA UnstartedOK ==
    ASSUME NEW r, NEW c, NEW s, RunOK(r, c, s), r.handler = "running"
    PROVE  RunOK(Unstarted(r), c, s) /\ Unstarted(r).st = r.st
<1>1. Unstarted(r) = r \/ Unstarted(r) = Over(r, "stopped")
  BY DEF Unstarted, Over
<1> QED  BY <1>1, OverOK

LEMMA StartStep ==
    ASSUME WInv, NEW a \in Attempts, NEW k \in Kinds, Start(a, k)
    PROVE  WInv'
<1>1. /\ run \in [Attempts -> Run] /\ RunOK(run[a], calls[a], settledBy[a])
      /\ run[a].st = "accepted" /\ UNCHANGED <<dbVars, svc, calls>> /\ k \in AllKinds
  BY WorkerAssumption DEF WInv, Start
<1>2. run[a] = Accepted /\ calls[a] = {} /\ settledBy[a] \in {None, "reap"}
  BY <1>1 DEF RunOK, Staged, Known
<1>3. Ledger' /\ \A b \in Attempts : Still(b)
  BY <1>1, LedgerStill DEF WInv
<1>4. ASSUME NEW e, RunOK(e, calls[a], settledBy[a]), e.st # "none",
             run' = [run EXCEPT ![a] = e]
      PROVE  WInv'
  BY <1>1, <1>3, <1>4, QuietRun
<1>5. CASE k \notin Controlled
  <2> DEFINE settles == [unsupported |-> "release", no_handler |-> "release", invalid |-> "fail"]
  <2>1. settles[k] \in Db!Verbs
    BY <1>1, <1>5 DEF AllKinds, Db!Verbs
  <2>2. run' = [run EXCEPT ![a] = Refused(k, settles[k])]
    BY <1>2, <1>5, <1>1 DEF Start, Refused
  <2> HIDE DEF settles
  <2>3. RunOK(Refused(k, settles[k]), {}, settledBy[a]) /\ Refused(k, settles[k]).st = "settling"
    BY <1>1, <1>2, <1>5, <2>1, RefusedOK
  <2> QED  BY <1>2, <1>4, <2>2, <2>3
<1>6. CASE k \in Controlled
  <2>1. PICK b : b = Begun(k)
    OBVIOUS
  <2>2. RunOK(b, {}, settledBy[a]) /\ b.st = "running" /\ b.handler = "running"
    BY <1>2, <1>6, <2>1, BegunOK
  <2>3. PICK e : e = IF sup.deadline THEN Unstarted(AtDeadline(b))
                     ELSE IF sup.stopping THEN Signal(b, "shutdown") ELSE b
    OBVIOUS
  <2>4. b = [run[a] EXCEPT !.st = "running", !.kind = k, !.handler = "running"]
    BY <1>2, <2>1 DEF Begun
  <2>5. run' = [run EXCEPT ![a] = e]
    BY <1>6, <2>3, <2>4 DEF Start
  <2>6. b \in Run
    BY <2>2 DEF RunOK
  <2>7. RunOK(Signal(b, "shutdown"), {}, settledBy[a]) /\ Signal(b, "shutdown").st = b.st
    BY <2>2, <2>6, SignalOK, SignalRow DEF SameCall
  <2>8. /\ RunOK(Unstarted(AtDeadline(b)), {}, settledBy[a])
        /\ Unstarted(AtDeadline(b)).st = b.st
    <3>1. PICK d : d = AtDeadline(b)
      OBVIOUS
    <3>2. RunOK(d, {}, settledBy[a]) /\ d.st = b.st /\ d.handler = b.handler
      BY <2>2, <3>1, AtDeadlineOK
    <3> QED  BY <2>2, <3>1, <3>2, UnstartedOK
  <2>9. RunOK(e, {}, settledBy[a]) /\ e.st = "running"
    BY <2>2, <2>3, <2>7, <2>8
  <2> QED  BY <1>2, <1>4, <2>5, <2>9
<1> QED  BY <1>5, <1>6

\* The settlement of a run whose handler is over.
Settling(r, v) == [r EXCEPT !.st = "settling", !.grace = FALSE, !.verb = v]

LEMMA SettlingOK ==
    ASSUME NEW r, NEW c, NEW s, RunOK(r, c, s), r.st = "running", r.handler = "done", ~r.lost
    PROVE  RunOK(Settling(r, Chosen(r)), c, s) /\ Settling(r, Chosen(r)).st = "settling"
<1>1. r \in Run /\ r.kind \in Controlled /\ r.value # "none" /\ c = {}
  BY DEF RunOK, Staged
<1>2. PICK v : v = Chosen(r)
  OBVIOUS
<1>3. r.reason \in {"none", "shutdown", "operator"} /\ r.reason # "lease_lost"
  BY <1>1 DEF RunOK, Fits, Run, Reasons
<1>4. v \in {"complete", "fail", "snooze", "release", "cancel"}
  BY <1>1, <1>2 DEF Chosen, Run
<1>5. /\ r.warned => v = "cancel"
      /\ v = "release" => r.value = "stopped" \/ r.cut
  BY <1>1, <1>2, <1>3 DEF RunOK, Fits, Chosen, Run
<1> DEFINE x == [r EXCEPT !.st = "settling"]
           y == [x EXCEPT !.grace = FALSE]
           e == [r EXCEPT !.st = "settling", !.grace = FALSE, !.verb = v]
<1>6. x \in Run
  BY <1>1, RunPut
<1>7. e = [y EXCEPT !.verb = v]
  BY <1>1 DEF Run
<1> HIDE DEF x
<1>8. y \in Run
  BY <1>6, RunPut
<1> HIDE DEF y
<1>9. [y EXCEPT !.verb = v] \in Run
  BY <1>4, <1>8, RunPut DEF Db!Verbs
<1>10. e \in Run
  BY <1>7, <1>9
<1>11. /\ e.st = "settling" /\ e.kind = r.kind /\ e.verb = v /\ e.handler = r.handler
       /\ e.rejected = r.rejected /\ e.report = r.report /\ e.answer = r.answer /\ e.hb = r.hb
  BY <1>1 DEF Run
<1>12. /\ e.lost = r.lost /\ e.cut = r.cut /\ e.reason = r.reason /\ e.warned = r.warned
       /\ e.value = r.value
  BY <1>1 DEF Run
<1> HIDE DEF e
<1>13. Staged(e, c)
  BY <1>1, <1>4, <1>11, <1>12 DEF RunOK, Staged, HasControl, Db!Verbs
<1>14. OneCall(e, c)
  BY <1>1, <1>11 DEF RunOK, OneCall, Staged
<1>15. Fits(e)
  BY <1>5, <1>11, <1>12 DEF RunOK, Fits, Staged
<1>16. Known(e, c, s)
  BY <1>11 DEF RunOK, Known, Staged
<1> QED  BY <1>2, <1>10, <1>11, <1>13, <1>14, <1>15, <1>16 DEF RunOK, e, Settling

LEMMA HandlerDoneStep ==
    ASSUME WInv, NEW a \in Attempts, HandlerDone(a)
    PROVE  WInv'
<1>1. /\ run \in [Attempts -> Run] /\ RunOK(run[a], calls[a], settledBy[a])
      /\ run[a].st = "running" /\ run[a].handler = "done" /\ UNCHANGED <<dbVars, svc, calls>>
      /\ calls \in [Attempts -> SUBSET Db!Verbs]
  BY DEF WInv, HandlerDone
<1>2. CASE run[a].lost
  <2>1. PICK what \in {"runtime_error", "abandoned_sync", "ownership_lost"} :
          Report(a, run[a], what, run[a].failed)
    BY <1>2 DEF HandlerDone, ReportLost
  <2>2. run[a].failed \in BOOLEAN /\ what \in Reports
    BY <1>1 DEF Run, Reports
  <2> QED  BY <1>1, <2>1, <2>2, ReportStep
<1>3. CASE ~run[a].lost
  <2>1. run' = [run EXCEPT ![a] = Settling(run[a], Chosen(run[a]))]
    BY <1>1, <1>3 DEF HandlerDone, Settling
  <2>2. PICK e : e = Settling(run[a], Chosen(run[a]))
    OBVIOUS
  <2>3. RunOK(e, calls[a], settledBy[a]) /\ e.st = "settling"
    BY <1>1, <1>3, <2>2, SettlingOK
  <2>4. Ledger' /\ \A b \in Attempts : Still(b)
    BY <1>1, LedgerStill DEF WInv
  <2> QED  BY <1>1, <2>1, <2>2, <2>3, <2>4, QuietRun
<1> QED  BY <1>2, <1>3

-----------------------------------------------------------------------------
(* Settlement *)

\* A call repeats the verb of its run.
LEMMA CalledOK ==
    ASSUME NEW r, NEW c, NEW s, RunOK(r, c, s), r.st = "settling"
    PROVE  /\ RunOK(r, c \cup {r.verb}, s) /\ r.verb \in Db!Verbs
           /\ r.handler # "running" /\ r.report = "none"
<1>1. Staged(r, c \cup {r.verb})
  BY DEF RunOK, Staged
<1>2. OneCall(r, c \cup {r.verb})
  BY DEF RunOK, OneCall
<1>3. Known(r, c \cup {r.verb}, s)
  BY DEF RunOK, Known
<1> QED  BY <1>1, <1>2, <1>3 DEF RunOK, Staged

\* What the queue answers agrees with who ended the attempt.
LEMMA ReplyFacts ==
    ASSUME Ledger, NEW a \in Attempts, NEW r, NEW c, RunOK(r, c, settledBy[a]),
           r.st = "settling"
    PROVE  /\ Db!Reply(r.verb, a) \in {"effective", "already_settled", "settle_conflict", "lost"}
           /\ Db!Fenced(a) <=> Db!Reply(r.verb, a) = "effective"
           /\ Db!Reply(r.verb, a) = "already_settled" => settledBy[a] = r.verb
<1>1. r.verb \in {"complete", "fail", "snooze", "release", "cancel"}
  BY DEF RunOK, Staged, Db!Verbs
<1>2. /\ Db!Reply(r.verb, a) \in {"effective", "already_settled", "settle_conflict", "lost"}
      /\ Db!Fenced(a) <=> Db!Reply(r.verb, a) = "effective"
  BY DEF Db!Reply
<1>3. ASSUME Db!Reply(r.verb, a) = "already_settled" PROVE settledBy[a] = r.verb
  <2>1. CASE r.verb = "cancel"
    <3>1. attempts[a].status = "cancelled"
      BY <1>3, <2>1 DEF Db!Reply
    <3>2. settledBy[a] \in {"fail", "snooze", "release", "cancel"}
      BY <3>1, LedgerFacts
    <3>3. settledBy[a] \in c
      BY <3>2, QueueAssumption DEF RunOK, Known, Db!Verbs
    <3> QED  BY <2>1, <3>3 DEF RunOK, OneCall
  <2>2. CASE r.verb = "complete"
    <3>1. attempts[a].status = "succeeded"
      BY <1>3, <2>2 DEF Db!Reply
    <3> QED  BY <2>2, <3>1, LedgerFacts
  <2>3. CASE r.verb = "fail"
    <3>1. attempts[a].status = "failed"
      BY <1>3, <2>3 DEF Db!Reply
    <3> QED  BY <2>3, <3>1, LedgerFacts
  <2>4. CASE r.verb = "snooze"
    <3>1. attempts[a].status = "snoozed"
      BY <1>3, <2>4 DEF Db!Reply
    <3> QED  BY <2>4, <3>1, LedgerFacts
  <2>5. CASE r.verb = "release"
    <3>1. attempts[a].status = "released"
      BY <1>3, <2>5 DEF Db!Reply
    <3> QED  BY <2>5, <3>1, LedgerFacts
  <2> QED  BY <1>1, <2>1, <2>2, <2>3, <2>4, <2>5
<1> QED  BY <1>2, <1>3

LEMMA AnsweredOK ==
    ASSUME NEW r, NEW c, NEW s, RunOK(r, c, s), r.st = "settling", r.verb \in c,
           r.answer = "none",
           NEW x \in {"effective", "already_settled", "settle_conflict", "lost"},
           NEW s2, s2 = s \/ s2 = r.verb,
           x \in {"effective", "already_settled"} => s2 = r.verb
    PROVE  RunOK([r EXCEPT !.answer = x], c, s2) /\ [r EXCEPT !.answer = x].st = r.st
<1> DEFINE e == [r EXCEPT !.answer = x]
<1>1. r \in Run /\ e \in Run
  BY RunPut DEF RunOK
<1>2. /\ e.st = r.st /\ e.kind = r.kind /\ e.verb = r.verb /\ e.handler = r.handler
      /\ e.rejected = r.rejected /\ e.report = r.report /\ e.answer = x /\ e.hb = r.hb
  BY <1>1 DEF Run
<1>3. /\ e.lost = r.lost /\ e.cut = r.cut /\ e.reason = r.reason /\ e.warned = r.warned
      /\ e.value = r.value
  BY <1>1 DEF Run
<1> HIDE DEF e
<1>4. Staged(e, c)
  BY <1>2, <1>3 DEF RunOK, Staged, HasControl
<1>5. OneCall(e, c)
  BY <1>2 DEF RunOK, OneCall
<1>6. Fits(e)
  BY <1>2, <1>3 DEF RunOK, Fits
<1>7. Known(e, c, s2)
  BY <1>2 DEF RunOK, Known, Staged
<1> QED  BY <1>1, <1>2, <1>4, <1>5, <1>6, <1>7 DEF RunOK, e

LEMMA SettleSendStep ==
    ASSUME WInv, NEW a \in Attempts, SettleSend(a)
    PROVE  WInv'
<1> DEFINE r == run[a]
           c == calls[a] \cup {r.verb}
           x == Db!Reply(r.verb, a)
<1>1. /\ run \in [Attempts -> Run] /\ calls \in [Attempts -> SUBSET Db!Verbs] /\ Ledger
      /\ RunOK(r, calls[a], settledBy[a]) /\ r.st = "settling" /\ r.answer = "none"
      /\ Execute(r.verb, a) /\ UNCHANGED svc
      /\ calls' = [calls EXCEPT ![a] = calls[a] \cup {r.verb}]
  BY DEF WInv, SettleSend, Waiting
<1>2. /\ RunOK(r, c, settledBy[a]) /\ r.verb \in Db!Verbs
  BY <1>1, CalledOK
<1>3. run' = [run EXCEPT ![a] = [r EXCEPT !.answer = x]]
  BY <1>1 DEF SettleSend
<1>4. /\ x \in {"effective", "already_settled", "settle_conflict", "lost"}
      /\ Db!Fenced(a) <=> x = "effective"
      /\ x = "already_settled" => settledBy[a] = r.verb
  BY <1>1, <1>2, ReplyFacts
<1>5. /\ Ledger' /\ \A b \in Attempts \ {a} : Still(b)
      /\ Absent(a)' <=> Absent(a)
      /\ \/ Db!Fenced(a) /\ settledBy[a] = None /\ settledBy'[a] = r.verb
         \/ ~Db!Fenced(a) /\ settledBy' = settledBy
  BY <1>1, <1>2, ExecuteMoves
<1>6. /\ calls' \in [Attempts -> SUBSET Db!Verbs] /\ calls'[a] = c
      /\ \A b \in Attempts \ {a} : calls'[b] = calls[b]
  BY <1>1, <1>2
<1>7. PICK q, d : q = r /\ d = c
  OBVIOUS
<1>8. PICK y : y = x
  OBVIOUS
<1> HIDE DEF r, c, x
<1>9. PICK e : e = [q EXCEPT !.answer = y]
  OBVIOUS
<1>10. RunOK(q, d, settledBy[a]) /\ q.verb \in d /\ q.st = "settling" /\ q.answer = "none"
  BY <1>1, <1>2, <1>7 DEF c
<1>11. PICK s2 : s2 = settledBy'[a]
  OBVIOUS
<1>12. RunOK(e, d, s2) /\ e.st = q.st
  <2>1. s2 = settledBy[a] \/ s2 = q.verb
    BY <1>5, <1>7, <1>11
  <2>2. y \in {"effective", "already_settled"} => s2 = q.verb
    BY <1>4, <1>5, <1>7, <1>8, <1>11
  <2>3. y \in {"effective", "already_settled", "settle_conflict", "lost"}
    BY <1>4, <1>8
  <2> QED  BY <1>9, <1>10, <2>1, <2>2, <2>3, AnsweredOK
<1>13. run' = [run EXCEPT ![a] = e]
  BY <1>3, <1>7, <1>8, <1>9
<1>14. RunOK(e, calls'[a], settledBy'[a]) /\ e.st # "none" /\ run[a].st # "none"
  BY <1>1, <1>6, <1>7, <1>10, <1>11, <1>12 DEF r
<1> QED  BY <1>1, <1>5, <1>6, <1>13, <1>14, OneRun

\* A call that did not get through, or was not heard, is repeated later.
LEMMA RetriedOK ==
    ASSUME NEW r, NEW c, NEW s, RunOK(r, c, s), r.st = "settling"
    PROVE  RunOK(Retried(r), c, s) /\ Retried(r).st = r.st
<1>1. r \in Run /\ r.tries \in Nat
  BY DEF RunOK, Run
<1>2. PICK n \in Nat : n = IF r.tries < MaxTries THEN r.tries + 1 ELSE r.tries
  BY <1>1
<1> DEFINE x == [r EXCEPT !.answer = "none"]
           e == [r EXCEPT !.answer = "none", !.tries = n]
<1>3. e = Retried(r)
  BY <1>2 DEF Retried
<1>4. x \in Run
  BY <1>1, RunPut
<1>5. e = [x EXCEPT !.tries = n]
  BY <1>1 DEF Run
<1> HIDE DEF x
<1>6. [x EXCEPT !.tries = n] \in Run
  BY <1>4, RunPut
<1>7. e \in Run
  BY <1>5, <1>6
<1>8. /\ e.st = r.st /\ e.kind = r.kind /\ e.verb = r.verb /\ e.handler = r.handler
      /\ e.rejected = r.rejected /\ e.report = r.report /\ e.answer = "none" /\ e.hb = r.hb
  BY <1>1 DEF Run
<1>9. /\ e.lost = r.lost /\ e.cut = r.cut /\ e.reason = r.reason /\ e.warned = r.warned
      /\ e.value = r.value
  BY <1>1 DEF Run
<1> HIDE DEF e
<1>10. Staged(e, c)
  BY <1>8, <1>9 DEF RunOK, Staged, HasControl
<1>11. OneCall(e, c)
  BY <1>8 DEF RunOK, OneCall
<1>12. Fits(e)
  BY <1>8, <1>9 DEF RunOK, Fits
<1>13. Known(e, c, s)
  BY <1>8 DEF RunOK, Known
<1> QED  BY <1>3, <1>7, <1>8, <1>10, <1>11, <1>12, <1>13 DEF RunOK

\* Refused followups turn a complete into a fail.
Rejected(r) == [r EXCEPT !.verb = "fail", !.rejected = TRUE, !.tries = 0]

LEMMA RejectedOK ==
    ASSUME NEW r, NEW c, NEW s, RunOK(r, c, s), r.st = "settling", r.answer = "none",
           r.verb = "complete"
    PROVE  RunOK(Rejected(r), c \cup {r.verb}, s) /\ Rejected(r).st = r.st
<1>1. r \in Run
  BY DEF RunOK
<1> DEFINE x == [r EXCEPT !.verb = "fail"]
           y == [x EXCEPT !.rejected = TRUE]
           e == [r EXCEPT !.verb = "fail", !.rejected = TRUE, !.tries = 0]
<1>2. x \in Run
  BY <1>1, RunPut DEF Db!Verbs
<1>3. e = [y EXCEPT !.tries = 0]
  BY <1>1 DEF Run
<1> HIDE DEF x
<1>4. y \in Run
  BY <1>2, RunPut
<1> HIDE DEF y
<1>5. [y EXCEPT !.tries = 0] \in Run
  BY <1>4, RunPut
<1>6. e \in Run
  BY <1>3, <1>5
<1>7. /\ e.st = r.st /\ e.kind = r.kind /\ e.verb = "fail" /\ e.handler = r.handler
      /\ e.rejected /\ e.report = r.report /\ e.answer = r.answer /\ e.hb = r.hb
  BY <1>1 DEF Run
<1>8. /\ e.lost = r.lost /\ e.cut = r.cut /\ e.reason = r.reason /\ e.warned = r.warned
      /\ e.value = r.value
  BY <1>1 DEF Run
<1> HIDE DEF e
<1>9. Staged(e, c \cup {r.verb})
  BY <1>7, <1>8 DEF RunOK, Staged, HasControl, Db!Verbs
<1>10. OneCall(e, c \cup {r.verb})
  BY <1>7 DEF RunOK, OneCall
<1>11. Fits(e)
  BY <1>7, <1>8 DEF RunOK, Fits
<1>12. Known(e, c \cup {r.verb}, s)
  BY <1>7 DEF RunOK, Known, Staged
<1> QED  BY <1>6, <1>7, <1>9, <1>10, <1>11, <1>12 DEF RunOK, e, Rejected

\* A run sends its verb, and nothing of the queue moves.
LEMMA SentFacts ==
    ASSUME WInv, NEW a \in Attempts, Waiting(run[a]), UNCHANGED <<dbVars, svc>>,
           calls' = [calls EXCEPT ![a] = @ \cup {run[a].verb}]
    PROVE  /\ Ledger' /\ settledBy' = settledBy /\ \A b \in Attempts : Still(b)
           /\ RunOK(run[a], calls'[a], settledBy[a])
           /\ calls'[a] = calls[a] \cup {run[a].verb}
           /\ calls' \in [Attempts -> SUBSET Db!Verbs]
           /\ \A b \in Attempts \ {a} : calls'[b] = calls[b]
           /\ run[a].handler # "running" /\ run[a].st = "settling" /\ run[a].answer = "none"
<1> DEFINE r == run[a]
           c == calls[a] \cup {r.verb}
<1>1. /\ calls \in [Attempts -> SUBSET Db!Verbs] /\ RunOK(r, calls[a], settledBy[a])
      /\ r.st = "settling" /\ r.answer = "none"
  BY DEF WInv, Waiting
<1>2. Ledger' /\ settledBy' = settledBy /\ \A b \in Attempts : Still(b)
  BY LedgerStill DEF WInv
<1>3. RunOK(r, c, settledBy[a]) /\ r.verb \in Db!Verbs /\ r.handler # "running"
  BY <1>1, CalledOK
<1>4. calls'[a] = c /\ \A b \in Attempts \ {a} : calls'[b] = calls[b]
  BY <1>1
<1>5. calls' \in [Attempts -> SUBSET Db!Verbs]
  BY <1>1, <1>3
<1> QED  BY <1>1, <1>2, <1>3, <1>4, <1>5

\* A run sends its verb and goes on, or it reports.
LEMMA SentStep ==
    ASSUME WInv, NEW a \in Attempts, Waiting(run[a]), UNCHANGED <<dbVars, svc>>,
           calls' = [calls EXCEPT ![a] = @ \cup {run[a].verb}], NEW e,
           run' = [run EXCEPT ![a] = e], RunOK(e, calls'[a], settledBy[a]), e.st = "settling"
    PROVE  WInv'
<1>1. run[a].st # "none" /\ e.st # "none" /\ (Absent(a)' <=> Absent(a))
  BY SentFacts DEF Still
<1>2. /\ Ledger' /\ settledBy' = settledBy /\ calls' \in [Attempts -> SUBSET Db!Verbs]
      /\ \A b \in Attempts \ {a} : Still(b) /\ calls'[b] = calls[b]
  BY SentFacts
<1> QED  BY <1>1, <1>2, OneRun

LEMMA SentReport ==
    ASSUME WInv, NEW a \in Attempts, Waiting(run[a]), UNCHANGED <<dbVars, svc>>,
           calls' = [calls EXCEPT ![a] = @ \cup {run[a].verb}],
           NEW what \in Reports \ {"settled"}, NEW fatal \in BOOLEAN,
           Report(a, run[a], what, fatal)
    PROVE  WInv'
<1>1. run[a].st \notin {"none", "accepted"} /\ run[a].handler # "running"
  BY SentFacts
<1>2. /\ RunOK(run[a], calls'[a], settledBy[a]) /\ calls' \in [Attempts -> SUBSET Db!Verbs]
      /\ \A b \in Attempts \ {a} : calls'[b] = calls[b]
  BY SentFacts
<1> QED  BY <1>1, <1>2, ReportStep

\* A run that lost its job says so.
LEMMA LostReport ==
    ASSUME NEW a \in Attempts, ReportLost(a), run[a] \in Run
    PROVE  \E what \in Reports \ {"settled"}, fatal \in BOOLEAN :
              Report(a, run[a], what, fatal)
<1>1. /\ run[a].failed \in BOOLEAN
      /\ {"runtime_error", "abandoned_sync", "ownership_lost"} \subseteq Reports \ {"settled"}
  BY DEF Run, Reports
<1> QED  BY <1>1 DEF ReportLost

LEMMA SettleRefusedStep ==
    ASSUME WInv, NEW a \in Attempts, SettleRefused(a)
    PROVE  WInv'
<1> DEFINE r == run[a]
<1>1. /\ UNCHANGED <<dbVars, svc>> /\ Waiting(r)
      /\ calls' = [calls EXCEPT ![a] = @ \cup {r.verb}]
  BY DEF SettleRefused
<1>2. CASE Report(a, r, "runtime_error", TRUE)
  <2>1. "runtime_error" \in Reports \ {"settled"}
    BY DEF Reports
  <2> QED  BY <1>1, <1>2, <2>1, SentReport
<1>3. CASE r.verb = "complete" /\ run' = [run EXCEPT ![a] = Rejected(r)]
  <2>1. /\ RunOK(r, calls[a], settledBy[a]) /\ r.st = "settling" /\ r.answer = "none"
        /\ calls'[a] = calls[a] \cup {r.verb}
    BY <1>1, SentFacts DEF WInv
  <2>2. PICK e : e = Rejected(r)
    OBVIOUS
  <2>3. RunOK(e, calls'[a], settledBy[a]) /\ e.st = "settling"
    BY <1>3, <2>1, <2>2, RejectedOK
  <2> QED  BY <1>1, <1>3, <2>2, <2>3, SentStep
<1> QED  BY <1>1, <1>2, <1>3 DEF SettleRefused, Rejected

\* A call fails before it reached the queue, or after.
LEMMA CallFailsStep ==
    ASSUME WInv, NEW a \in Attempts, NEW err \in {"down", "busy", "bad"},
           SettleFails(a, err) \/ SettleGivesUp(a, err)
    PROVE  WInv'
<1> DEFINE r == run[a]
<1>1. /\ run \in [Attempts -> Run] /\ calls \in [Attempts -> SUBSET Db!Verbs]
      /\ RunOK(r, calls[a], settledBy[a]) /\ r \in Run /\ UNCHANGED <<dbVars, svc>>
  BY DEF WInv, SettleFails, SettleGivesUp
<1>2. CASE Waiting(r) /\ calls' = [calls EXCEPT ![a] = @ \cup {r.verb}]
  <2>1. CASE SettleFails(a, err)
    <3>1. run' = [run EXCEPT ![a] = Retried(r)]
      BY <2>1 DEF SettleFails
    <3>2. RunOK(r, calls'[a], settledBy[a]) /\ r.st = "settling"
      BY <1>1, <1>2, SentFacts
    <3>3. PICK e : e = Retried(r)
      OBVIOUS
    <3>4. RunOK(e, calls'[a], settledBy[a]) /\ e.st = "settling"
      BY <3>2, <3>3, RetriedOK
    <3> QED  BY <1>1, <1>2, <3>1, <3>3, <3>4, SentStep
  <2>2. CASE SettleGivesUp(a, err)
    <3>1. "unknown" \in Reports \ {"settled"}
      BY DEF Reports
    <3>2. PICK what \in Reports \ {"settled"}, fatal \in BOOLEAN : Report(a, r, what, fatal)
      BY <1>1, <2>2, <3>1, LostReport DEF SettleGivesUp
    <3> QED  BY <1>1, <1>2, <3>2, SentReport
  <2> QED  BY <2>1, <2>2
<1>3. CASE r.answer # "none" /\ UNCHANGED calls
  <2>1. r.st = "settling"
    <3>1. NoRun.answer = "none" /\ Accepted.answer = "none"
      BY DEF NoRun, Accepted
    <3>2. r.st \in {"none", "accepted", "running", "settling", "done"}
      BY <1>1 DEF Run
    <3> QED  BY <1>1, <1>3, <3>1, <3>2 DEF RunOK, Staged
  <2>2. r.handler # "running"
    BY <1>1, <2>1, CalledOK
  <2>3. CASE SettleFails(a, err)
    <3>1. PICK e : e = Retried(r)
      OBVIOUS
    <3>2. run' = [run EXCEPT ![a] = e]
      BY <2>3, <3>1 DEF SettleFails
    <3>3. RunOK(e, calls[a], settledBy[a]) /\ e.st = r.st
      BY <1>1, <2>1, <3>1, RetriedOK
    <3>4. Ledger' /\ \A b \in Attempts : Still(b)
      BY <1>1, LedgerStill DEF WInv
    <3> QED  BY <1>1, <1>3, <2>1, <3>2, <3>3, <3>4, QuietRun
  <2>4. CASE SettleGivesUp(a, err)
    <3>1. "unknown" \in Reports \ {"settled"}
      BY DEF Reports
    <3>2. PICK what \in Reports \ {"settled"}, fatal \in BOOLEAN : Report(a, r, what, fatal)
      BY <1>1, <2>4, <3>1, LostReport DEF SettleGivesUp
    <3>3. RunOK(run[a], calls'[a], settledBy[a]) /\ calls' \in [Attempts -> SUBSET Db!Verbs]
      BY <1>1, <1>3
    <3> QED  BY <1>1, <1>3, <2>1, <2>2, <3>2, <3>3, ReportStep
  <2> QED  BY <2>3, <2>4
<1> QED  BY <1>2, <1>3 DEF SettleFails, SettleGivesUp, CallFails

LEMMA SettlementStep ==
    ASSUME WInv, NEW a \in Attempts, Settlement(a)
    PROVE  WInv'
<1> DEFINE r == run[a]
<1>1. /\ run \in [Attempts -> Run] /\ calls \in [Attempts -> SUBSET Db!Verbs]
      /\ RunOK(r, calls[a], settledBy[a])
  BY DEF WInv
<1>2. r.st = "settling" => r.handler # "running"
  BY <1>1, CalledOK
<1>3. r.answer # "none" => r.st = "settling"
  <2>1. NoRun.answer = "none" /\ Accepted.answer = "none"
    BY DEF NoRun, Accepted
  <2>2. r.st \in {"none", "accepted", "running", "settling", "done"}
    BY <1>1 DEF Run
  <2> QED  BY <1>1, <2>1, <2>2 DEF RunOK, Staged
<1>4. ASSUME NEW what \in Reports, NEW fatal \in BOOLEAN, Report(a, r, what, fatal),
             UNCHANGED <<dbVars, svc, calls>>, r.st = "settling",
             what = "settled" => r.answer \in {"effective", "already_settled"}
      PROVE  WInv'
  <2>1. what = "settled" => settledBy[a] = run[a].verb /\ run[a].verb \in Db!Verbs
    BY <1>1, <1>4 DEF RunOK, Known, Staged
  <2>2. RunOK(run[a], calls'[a], settledBy[a])
    BY <1>1, <1>4
  <2> QED  BY <1>1, <1>2, <1>4, <2>1, <2>2, ReportStep
<1>5. CASE SettleSend(a) \/ SettleRefused(a)
  BY <1>5, SettleSendStep, SettleRefusedStep
<1>6. CASE SettleAnswer(a)
  <2>1. r.st = "settling" /\ UNCHANGED <<dbVars, svc, calls>>
    BY <1>3, <1>6 DEF SettleAnswer
  <2>2. r.rejected \in BOOLEAN /\ {"settled", "ownership_lost", "conflict"} \subseteq Reports
    BY <1>1 DEF Run, Reports
  <2>3. PICK what \in {"settled", "ownership_lost", "conflict"}, fatal \in BOOLEAN :
          /\ Report(a, r, what, fatal)
          /\ what = "settled" => r.answer \in {"effective", "already_settled"}
    BY <1>6, <2>2 DEF SettleAnswer
  <2> QED  BY <1>4, <2>1, <2>2, <2>3
<1>7. ASSUME NEW err \in {"down", "busy", "bad"}, SettleFails(a, err) \/ SettleGivesUp(a, err)
      PROVE  WInv'
  BY <1>7, CallFailsStep
<1>9. CASE SettleLost(a)
  <2>1. r.st = "settling" /\ UNCHANGED <<dbVars, svc, calls>>
    BY <1>9 DEF SettleLost, Waiting
  <2>2. PICK what \in {"runtime_error", "abandoned_sync", "ownership_lost"} :
          Report(a, r, what, r.failed)
    BY <1>9 DEF SettleLost, ReportLost
  <2>3. r.failed \in BOOLEAN /\ what \in Reports
    BY <1>1 DEF Run, Reports
  <2> QED  BY <1>4, <2>1, <2>2, <2>3
<1> QED  BY <1>5, <1>6, <1>7, <1>9 DEF Settlement

-----------------------------------------------------------------------------
(* The claim loop, the stop and the queue *)

\* The service goes on without its runs.
LEMMA ServiceStep ==
    ASSUME WInv, svc' \in Svc, svc'.got \in {{}, svc.got}, UNCHANGED <<dbVars, run, calls>>
    PROVE  WInv'
<1>1. Ledger' /\ settledBy' = settledBy /\ \A a \in Attempts : Absent(a)' <=> Absent(a)
  BY LedgerStill DEF WInv, Still
<1>2. Claims'
  BY <1>1 DEF WInv, Claims, Svc
<1> QED  BY <1>1, <1>2 DEF WInv

LEMMA AcceptedOK ==
    ASSUME NEW c, NEW s, RunOK(NoRun, c, s)
    PROVE  RunOK(Accepted, c, s)
<1>1. /\ Accepted.st = "accepted" /\ Accepted.handler = "none" /\ Accepted.hb = "idle"
      /\ Accepted.lost = FALSE /\ Accepted.rejected = FALSE /\ Accepted.verb = "none"
  BY DEF Accepted, NoRun
<1>2. /\ Accepted.warned = FALSE /\ Accepted.reason = "none" /\ Accepted.cut = FALSE
      /\ Accepted.answer = "none" /\ Accepted.report = "none"
  BY DEF Accepted, NoRun
<1>3. c = {}
  BY NoRunFacts DEF RunOK, Staged
<1>4. s \in {None, "reap"}
  BY <1>3 DEF RunOK, Known
<1>5. Staged(Accepted, c)
  BY <1>1, <1>2, <1>3 DEF Staged
<1>6. OneCall(Accepted, c)
  BY <1>1, <1>3 DEF OneCall
<1>7. Fits(Accepted)
  BY <1>1, <1>2 DEF Fits
<1>8. Known(Accepted, c, s)
  BY <1>1, <1>2, <1>4 DEF Known
<1> QED  BY <1>5, <1>6, <1>7, <1>8, NoRunFacts DEF RunOK

LEMMA ClaimLoopStep ==
    ASSUME WInv, ClaimLoop
    PROVE  WInv'
<1>1. /\ run \in [Attempts -> Run] /\ Ledger /\ Claims /\ svc \in Svc
      /\ \A a \in Attempts : RunOK(run[a], calls[a], settledBy[a])
  BY DEF WInv
<1>2. ASSUME NEW n \in 1..Concurrency, ClaimSend(n) PROVE WInv'
  <2>1. n \in Nat
    BY WorkerAssumption
  <2>2. svc' \in Svc /\ svc'.got = {}
    BY <1>1, <1>2, <2>1 DEF ClaimSend, Svc
  <2> QED  BY <1>2, <2>2, ServiceStep DEF ClaimSend
<1>3. ASSUME NEW fatal \in BOOLEAN, ClaimError(fatal) PROVE WInv'
  <2>1. svc' \in Svc /\ svc'.got = {}
    BY <1>1, <1>3 DEF ClaimError, Svc
  <2> QED  BY <1>3, <2>1, ServiceStep DEF ClaimError
<1>4. CASE ClaimLoopEnds
  <2>1. svc' \in Svc /\ svc'.got = {}
    BY <1>1, <1>4 DEF ClaimLoopEnds, Svc
  <2> QED  BY <1>4, <2>1, ServiceStep DEF ClaimLoopEnds
<1>5. ASSUME NEW j \in Jobs, NEW a \in Attempts, ClaimGrant(j, a) PROVE WInv'
  <2>1. /\ Ledger' /\ Absent(a) /\ ~Absent(a)' /\ settledBy' = settledBy
        /\ \A b \in Attempts \ {a} : Still(b)
    BY <1>1, <1>5, ClaimMoves DEF ClaimGrant
  <2>2. svc' \in Svc /\ svc'.got = svc.got \cup {a}
    BY <1>1, <1>5 DEF ClaimGrant, Svc
  <2>3. UNCHANGED <<run, calls>>
    BY <1>5 DEF ClaimGrant
  <2>4. run[a].st = "none"
    BY <1>1, <2>1 DEF Claims
  <2>5. Claims'
    BY <1>1, <2>1, <2>2, <2>3, <2>4 DEF Claims, Still, Svc
  <2> QED  BY <2>1, <2>2, <2>3, <2>5 DEF WInv
<1>6. CASE ClaimReturn
  <2>1. PICK S \in SUBSET svc.got :
          /\ run' = [a \in Attempts |->
                       IF a \in S THEN [run[a] EXCEPT !.st = "accepted"] ELSE run[a]]
          /\ svc' = IF S = svc.got THEN [svc EXCEPT !.claim = "idle", !.got = {}]
                    ELSE [svc EXCEPT !.claim = "ended", !.got = {},
                                     !.stray = svc.got \ S, !.stopReq = TRUE]
    BY <1>6 DEF ClaimReturn
  <2>2. UNCHANGED <<dbVars, calls>>
    BY <1>6 DEF ClaimReturn
  <2>3. Ledger' /\ settledBy' = settledBy /\ \A a \in Attempts : Absent(a)' <=> Absent(a)
    BY <1>1, <2>2, LedgerStill DEF Still
  <2>4. ASSUME NEW a \in S
        PROVE  a \in Attempts /\ run'[a] = Accepted /\ RunOK(Accepted, calls[a], settledBy[a])
               /\ ~Absent(a)
    <3>1. a \in Attempts /\ run[a].st = "none" /\ ~Absent(a)
      BY <1>1, <2>4 DEF Claims, Svc
    <3>2. run[a] = NoRun
      BY <1>1, <3>1 DEF RunOK, Staged
    <3>3. run'[a] = [run[a] EXCEPT !.st = "accepted"]
      BY <2>1, <2>4, <3>1
    <3> QED  BY <1>1, <3>1, <3>2, <3>3, AcceptedOK DEF Accepted
  <2>5. ASSUME NEW a \in Attempts \ S PROVE run'[a] = run[a]
    BY <2>1, <2>5
  <2>6. svc' \in Svc /\ svc'.got = {}
    <3>1. CASE S = svc.got
      BY <1>1, <2>1, <3>1 DEF Svc
    <3>2. CASE S # svc.got
      <4>1. svc.got \ S \in SUBSET Attempts
        BY <1>1 DEF Svc
      <4>2. PICK T \in SUBSET Attempts : T = svc.got \ S
        BY <4>1
      <4>3. svc' = [svc EXCEPT !.claim = "ended", !.got = {}, !.stray = T, !.stopReq = TRUE]
        BY <2>1, <3>2, <4>2
      <4> QED  BY <1>1, <4>3 DEF Svc
    <3> QED  BY <3>1, <3>2
  <2>7. \A a \in Attempts : RunOK(run'[a], calls'[a], settledBy'[a])
    BY <1>1, <2>2, <2>3, <2>4, <2>5
  <2>8. run' \in [Attempts -> Run]
    BY <2>1, <2>7 DEF RunOK
  <2>9. Claims'
    BY <1>1, <2>3, <2>4, <2>5, <2>6 DEF Claims
  <2>10. calls' \in [Attempts -> SUBSET Db!Verbs]
    BY <2>2 DEF WInv
  <2> QED  BY <2>3, <2>6, <2>7, <2>8, <2>9, <2>10 DEF WInv
<1> QED  BY <1>2, <1>3, <1>4, <1>5, <1>6 DEF ClaimLoop

\* Every run hears the stop at once.
LEMMA AllRuns ==
    ASSUME WInv, svc' \in Svc, svc'.got = svc.got, UNCHANGED <<dbVars, calls>>,
           run' = [a \in Attempts |-> run'[a]],
           \A a \in Attempts : /\ RunOK(run'[a], calls[a], settledBy[a])
                               /\ run'[a].st = run[a].st
    PROVE  WInv'
<1>1. Ledger' /\ settledBy' = settledBy /\ \A a \in Attempts : Absent(a)' <=> Absent(a)
  BY LedgerStill DEF WInv, Still
<1>2. Claims'
  BY <1>1 DEF WInv, Claims, Svc
<1>3. run' \in [Attempts -> Run]
  BY DEF RunOK
<1>4. \A a \in Attempts : RunOK(run'[a], calls'[a], settledBy'[a])
  BY <1>1
<1>5. calls' \in [Attempts -> SUBSET Db!Verbs]
  BY DEF WInv
<1> QED  BY <1>1, <1>2, <1>3, <1>4, <1>5 DEF WInv

LEMMA StoppingStep ==
    ASSUME WInv, Stopping
    PROVE  WInv'
<1>1. svc \in Svc /\ \A a \in Attempts : RunOK(run[a], calls[a], settledBy[a])
  BY DEF WInv
<1>2. CASE StopRequested
  <2>1. svc' \in Svc /\ svc'.got = svc.got
    BY <1>1, <1>2 DEF StopRequested, Svc
  <2> QED  BY <1>2, <2>1, ServiceStep DEF StopRequested
<1>3. CASE ServiceStops
  <2>1. svc' \in Svc /\ svc'.got = svc.got
    BY <1>1, <1>3 DEF ServiceStops, Svc
  <2> QED  BY <1>3, <2>1, ServiceStep DEF ServiceStops
<1>4. CASE SupervisorStops
  <2>1. svc' \in Svc /\ svc'.got = svc.got
    BY <1>1, <1>4 DEF SupervisorStops
  <2> QED  BY <1>4, <2>1, ServiceStep DEF SupervisorStops
<1>5. CASE CloseAdmission
  <2>1. svc' \in Svc /\ svc'.got = svc.got
    BY <1>1, <1>5 DEF CloseAdmission, Svc
  <2>2. run' = [a \in Attempts |-> SoftStopped(run[a])] /\ UNCHANGED <<dbVars, calls>>
    BY <1>5 DEF CloseAdmission
  <2>3. \A a \in Attempts : /\ RunOK(run'[a], calls[a], settledBy[a])
                            /\ run'[a].st = run[a].st
    BY <1>1, <2>2, SoftStoppedOK
  <2>4. run' = [a \in Attempts |-> run'[a]]
    BY <2>2
  <2> QED  BY <2>1, <2>2, <2>3, <2>4, AllRuns
<1>6. CASE SoftStopTimeout \/ ForceStop
  <2>1. svc' \in Svc /\ svc'.got = svc.got
    BY <1>1, <1>6 DEF SoftStopTimeout, ForceStop, EnforceDeadline
  <2>2. run' = [a \in Attempts |-> AtDeadline(run[a])] /\ UNCHANGED <<dbVars, calls>>
    BY <1>6 DEF SoftStopTimeout, ForceStop, EnforceDeadline
  <2>3. \A a \in Attempts : /\ RunOK(run'[a], calls[a], settledBy[a])
                            /\ run'[a].st = run[a].st
    BY <1>1, <2>2, AtDeadlineOK
  <2>4. run' = [a \in Attempts |-> run'[a]]
    BY <2>2
  <2> QED  BY <2>1, <2>2, <2>3, <2>4, AllRuns
<1> QED  BY <1>2, <1>3, <1>4, <1>5, <1>6 DEF Stopping

\* The reaper takes only what nobody has ended.
LEMMA ReapedOK ==
    ASSUME NEW r, NEW c, RunOK(r, c, None)
    PROVE  RunOK(r, c, "reap")
<1>1. r.answer \in {"effective", "already_settled"} => r.st = "settling"
  <2>1. NoRun.answer = "none" /\ Accepted.answer = "none"
    BY DEF NoRun, Accepted
  <2>2. r.st \in {"none", "accepted", "running", "settling", "done"}
    BY DEF RunOK, Run
  <2> QED  BY <2>1, <2>2 DEF RunOK, Staged
<1>2. r.st = "settling" => r.verb # None
  BY QueueAssumption DEF RunOK, Staged
<1>3. r.report = "settled" => r.verb # None
  BY QueueAssumption DEF RunOK, Known
<1>4. Known(r, c, "reap")
  BY <1>1, <1>2, <1>3 DEF RunOK, Known
<1> QED  BY <1>4 DEF RunOK

LEMMA QueueStep ==
    ASSUME WInv, Queue
    PROVE  WInv'
<1>1. Ledger' /\ \A a \in Attempts : Still(a) \/ Reaped(a)
  BY QueueMoves DEF WInv
<1>2. UNCHANGED <<run, sup, svc, calls>>
  BY DEF Queue
<1>3. ASSUME NEW a \in Attempts PROVE RunOK(run'[a], calls'[a], settledBy'[a])
  BY <1>1, <1>2, ReapedOK DEF WInv, Still, Reaped
<1>4. Claims'
  BY <1>1, <1>2 DEF WInv, Claims, Still, Reaped, Svc
<1> QED  BY <1>1, <1>2, <1>3, <1>4 DEF WInv

-----------------------------------------------------------------------------
(* The invariant is inductive *)

LEMMA InitWInv == Init => WInv
<1> SUFFICES ASSUME Init PROVE WInv
  OBVIOUS
<1>1. PICK max \in Budgets :
        jobs = [j \in Jobs |-> Db!NewJob("queued", None, None, None, None, 0, TRUE, "none", max)]
  BY DEF Init
<1> DEFINE e == JP!NewJob("queued", None, None, None, None, 0, TRUE, "none", max)
<1>2. jobs = [j \in Jobs |-> e]
  BY <1>1 DEF Db!NewJob, JP!NewJob, Db!NoJob, JP!NoJob
<1>3. max \in Nat /\ max # 0
  BY <1>1, QueueAssumption
<1>4. e \in JP!JobRow
  <2>1. "queued" \in JP!JobStatus /\ None \in JP!Outcomes \cup {None}
    BY DEF JP!JobStatus, JP!Active
  <2> QED  BY <1>3, <2>1 DEF JP!NewJob, JP!NoJob, JP!JobRow
<1>5. JP!Free(e) /\ e.status = "queued" /\ e.pending = 0
  BY DEF JP!NewJob, JP!NoJob, JP!Free
<1>6. e.cancel = FALSE /\ e.failures = 0 /\ e.streak = 0 /\ e.max = max /\ e.outcome = None
  BY DEF JP!NewJob, JP!NoJob
<1> HIDE DEF e
<1>7. JP!RowOK(e)
  <2>1. JP!NoJob.status = "absent"
    BY DEF JP!NoJob
  <2>2. JP!RowMoves(JP!NoJob, e)
    BY <1>3, <1>4, <1>5, <1>6, <2>1, JP!NewMoves, QueueConstants
  <2> QED  BY <2>2 DEF JP!RowMoves
<1> DEFINE x == [status |-> "absent", job |-> None, worker |-> None]
<1>8. attempts = [a \in Attempts |-> x]
  BY DEF Init, Db!NoAttempt
<1>9. x \in JP!AttemptRow /\ x.status = "absent"
  BY DEF JP!AttemptRow
<1> HIDE DEF x
<1>10. JP!TypeOK
  <2>1. jobs \in [Jobs -> JP!JobRow] /\ attempts \in [Attempts -> JP!AttemptRow]
    BY <1>2, <1>4, <1>8, <1>9
  <2>2. /\ deps = {} /\ limits = [ck \in ConcKeys |-> 1]
        /\ settledBy = [a \in Attempts |-> None] /\ needs = [j \in Jobs |-> {}]
    BY DEF Init
  <2> QED  BY <2>1, <2>2 DEF JP!TypeOK
<1>11. JP!Inv
  <2>1. JP!RunsUnder
    BY <1>2, <1>5 DEF JP!RunsUnder
  <2>2. JP!Current
    BY <1>8, <1>9 DEF JP!Current
  <2> QED  BY <1>2, <1>7, <1>10, <2>1, <2>2 DEF JP!Inv
<1>12. \A a \in Attempts : settledBy[a] = None /\ attempts[a].status = "absent"
  BY <1>8, <1>9 DEF Init
<1>13. JP!Recorded
  BY <1>12, JP!LeavesFacts, QueueConstants DEF JP!Recorded
<1>14. /\ run = [a \in Attempts |-> NoRun] /\ calls = [a \in Attempts |-> {}]
       /\ svc = [claim |-> "idle", room |-> 0, got |-> {}, stray |-> {}, stopReq |-> FALSE,
                 closed |-> FALSE, stopped |-> FALSE]
  BY DEF Init
<1>15. RunOK(NoRun, {}, None)
  <2>1. /\ NoRun.st = "none" /\ NoRun.handler = "none" /\ NoRun.hb = "idle"
        /\ NoRun.lost = FALSE /\ NoRun.rejected = FALSE /\ NoRun.verb = "none"
    BY DEF NoRun
  <2>2. /\ NoRun.warned = FALSE /\ NoRun.reason = "none" /\ NoRun.cut = FALSE
        /\ NoRun.answer = "none" /\ NoRun.report = "none"
    BY DEF NoRun
  <2>3. Staged(NoRun, {})
    BY <2>1 DEF Staged
  <2>4. OneCall(NoRun, {}) /\ Fits(NoRun) /\ Known(NoRun, {}, None)
    BY <2>1, <2>2 DEF OneCall, Fits, Known
  <2> QED  BY <2>3, <2>4, NoRunFacts DEF RunOK
<1>16. Claims /\ svc \in Svc
  BY <1>14, NoRunFacts DEF Claims, Svc
<1>17. run \in [Attempts -> Run] /\ calls \in [Attempts -> SUBSET Db!Verbs]
  BY <1>14, NoRunFacts
<1> QED  BY <1>11, <1>12, <1>13, <1>14, <1>15, <1>16, <1>17 DEF WInv, Ledger

LEMMA NextWInv == WInv /\ [Next]_vars => WInv'
<1> SUFFICES ASSUME WInv, [Next]_vars PROVE WInv'
  OBVIOUS
<1>1. ASSUME NEW a \in Attempts,
             \/ \E k \in Kinds : Start(a, k)
             \/ Handler(a) \/ HandlerDone(a) \/ Heartbeat(a) \/ Settlement(a)
      PROVE  WInv'
  BY <1>1, StartStep, HandlerStep, HandlerDoneStep, HeartbeatStep, SettlementStep
<1>2. CASE UNCHANGED vars
  <2>1. UNCHANGED <<dbVars, run, calls>> /\ svc' = svc
    BY <1>2 DEF vars
  <2>2. svc' \in Svc /\ svc'.got \in {{}, svc.got}
    BY <2>1 DEF WInv
  <2> QED  BY <2>1, <2>2, ServiceStep
<1> QED  BY <1>1, <1>2, ClaimLoopStep, StoppingStep, QueueStep DEF Next

THEOREM WorkerInv == Spec => []WInv
BY InitWInv, NextWInv, PTL DEF Spec

-----------------------------------------------------------------------------
(* The theorems *)

\* A run that reports its job settled tells the truth: the attempt was ended
\* by its own verb, however many calls and answers were lost and whatever the
\* reaper, the operators and the stop did meanwhile (worker.py,
\* _settle_with_retry and _report_from_settle).
THEOREM ReportsAreTrue == Spec => []ReportTruthful
<1>1. WInv => ReportTruthful
  BY DEF WInv, RunOK, Known, ReportTruthful
<1> QED  BY <1>1, WorkerInv, PTL

\* A run sends one verb, repeated as often as it takes, and a second one only
\* when the followups of a complete were refused: then it is fail (worker.py,
\* _settle_with_retry and the refused followups).
THEOREM VerbsAreOne == Spec => []OneVerb
<1>1. ASSUME NEW c, NEW v, c \subseteq {v} PROVE Cardinality(c) <= 1
  <2>1. CASE c = {}
    BY <2>1, FS_EmptySet
  <2>2. CASE c # {}
    <3>1. c = {v}
      BY <1>1, <2>2
    <3>2. Cardinality({v}) = 1
      BY FS_Singleton
    <3>3. Cardinality(c) = 1
      BY <3>1, <3>2
    <3> QED  BY <3>3
  <2> QED  BY <2>1, <2>2
<1>2. ASSUME WInv, NEW a \in Attempts
      PROVE  \/ Cardinality(calls[a]) <= 1
             \/ run[a].rejected /\ calls[a] = {"complete", "fail"}
  <2> DEFINE r == run[a]
             c == calls[a]
  <2>1. OneCall(r, c)
    BY <1>2 DEF WInv, RunOK
  <2> HIDE DEF r, c
  <2>2. CASE r.rejected /\ "fail" \in c
    BY <2>1, <2>2 DEF OneCall, r, c
  <2>3. CASE r.rejected /\ "fail" \notin c
    <3>1. c \subseteq {"complete"}
      BY <2>1, <2>3 DEF OneCall
    <3> QED  BY <1>1, <3>1 DEF c
  <2>4. CASE ~r.rejected
    <3>1. c \subseteq {r.verb}
      BY <2>1, <2>4 DEF OneCall
    <3> QED  BY <1>1, <3>1 DEF c
  <2> QED  BY <2>2, <2>3, <2>4
<1>3. WInv => OneVerb
  BY <1>2 DEF OneVerb
<1> QED  BY <1>3, WorkerInv, PTL

\* A handler that was told to stop by an operator or by the loss of its lease
\* never succeeds, and only work that was stopped, that was not finished at the
\* deadline, or that no handler ran, is thrown back (worker.py, CancellationToken.cancel and _execute_job).
THEOREM VerbsFit == Spec => []VerbFits
<1>1. ASSUME WInv, NEW a \in Attempts
      PROVE  /\ run[a].warned => attempts[a].status # "succeeded"
             /\ attempts[a].status = "released"
                  => run[a].value = "stopped" \/ run[a].cut \/ run[a].kind \notin Controlled
  <2> DEFINE r == run[a]
             c == calls[a]
             s == settledBy[a]
  <2>1. OneCall(r, c) /\ Fits(r) /\ Known(r, c, s) /\ Ledger
    BY <1>1 DEF WInv, RunOK
  <2>2. /\ attempts[a].status = "succeeded" => s = "complete"
        /\ attempts[a].status = "released" => s = "release"
    BY <2>1, LedgerFacts
  <2>3. None \notin {"complete", "release"}
    BY QueueAssumption DEF Db!Verbs
  <2> HIDE DEF r, c, s
  <2>4. ~(r.warned /\ s = "complete")
    BY <2>1, <2>3 DEF OneCall, Fits, Known
  <2>5. s = "release" => r.value = "stopped" \/ r.cut \/ r.kind \notin Controlled
    BY <2>1, <2>3 DEF OneCall, Fits, Known
  <2> QED  BY <2>2, <2>4, <2>5 DEF r
<1>2. WInv => VerbFits
  BY <1>1 DEF VerbFits, WarnedNeverSucceeds, FinishedWorkKept
<1> QED  BY <1>2, WorkerInv, PTL

\* Once ownership is dropped, no further settlement call leaves the worker
\* (worker.py, _settle_with_retry looks at ownership_lost before every call).
THEOREM LossSilences == Spec => NoCallAfterLoss
<1>1. ASSUME WInv, [Next]_vars, NEW a \in Attempts, run[a].lost
      PROVE  calls'[a] = calls[a]
  <2>1. run[a].kind \in Controlled /\ calls \in [Attempts -> SUBSET Db!Verbs]
    BY <1>1 DEF WInv, RunOK, Staged
  <2>2. ~Owned(run[a])
    BY <1>1, <2>1 DEF Owned
  <2>3. ASSUME NEW b \in Attempts, Owned(run[b]),
               calls' = [calls EXCEPT ![b] = @ \cup {run[b].verb}]
        PROVE  calls'[a] = calls[a]
    BY <2>1, <2>2, <2>3
  <2>4. CASE ClaimLoop
    BY <2>4 DEF ClaimLoop, ClaimSend, ClaimGrant, ClaimReturn, ClaimError, ClaimLoopEnds
  <2>5. CASE Stopping
    BY <2>5 DEF Stopping, StopRequested, CloseAdmission, SoftStopTimeout, ForceStop,
                EnforceDeadline, SupervisorStops, ServiceStops
  <2>6. CASE Queue
    BY <2>6 DEF Queue
  <2>7. ASSUME NEW b \in Attempts, NEW k \in Kinds, Start(b, k) PROVE calls'[a] = calls[a]
    BY <2>7 DEF Start
  <2>8. ASSUME NEW b \in Attempts, Handler(b) PROVE calls'[a] = calls[a]
    BY <2>8 DEF Handler, HandlerReturns, HandlerStops, RunSync, ThreadReturns
  <2>9. ASSUME NEW b \in Attempts, HandlerDone(b) PROVE calls'[a] = calls[a]
    BY <2>9 DEF HandlerDone
  <2>10. ASSUME NEW b \in Attempts, Heartbeat(b) PROVE calls'[a] = calls[a]
    BY <2>10 DEF Heartbeat, HeartbeatSend, HeartbeatAnswer, HeartbeatFails, HeartbeatGivesUp,
                 GraceEnds
  <2>11. ASSUME NEW b \in Attempts, Settlement(b) PROVE calls'[a] = calls[a]
    <3>1. CASE SettleSend(b) \/ SettleRefused(b)
      BY <2>3, <2>11, <3>1 DEF SettleSend, SettleRefused
    <3>2. ASSUME NEW err, SettleFails(b, err) \/ SettleGivesUp(b, err)
          PROVE  calls'[a] = calls[a]
      <4>1. CallFails(b, err)
        BY <3>2 DEF SettleFails, SettleGivesUp
      <4> QED  BY <2>3, <2>11, <4>1 DEF CallFails
    <3>3. CASE SettleAnswer(b) \/ SettleLost(b)
      BY <3>3 DEF SettleAnswer, SettleLost
    <3> QED  BY <2>11, <3>1, <3>2, <3>3 DEF Settlement
  <2>12. CASE UNCHANGED vars
    BY <2>12 DEF vars
  <2> QED  BY <1>1, <2>4, <2>5, <2>6, <2>7, <2>8, <2>9, <2>10, <2>11, <2>12 DEF Next
<1>2. WInv /\ [Next]_vars
        => [\A a \in Attempts : run[a].lost => calls'[a] = calls[a]]_vars
  BY <1>1
<1> QED  BY <1>2, WorkerInv, PTL DEF Spec, NoCallAfterLoss

=============================================================================
