-------------------------- MODULE TaskqJobsProofs --------------------------
(***************************************************************************)
(* Theorems about TaskqJobs for every number of jobs, attempts, workers,   *)
(* keys and workflows, every budget and every poison limit.                *)
(*                                                                         *)
(* None of the invariants is inductive alone: the fence of a settlement is *)
(* only meaningful because the ledger and the rows agree, and the budget   *)
(* is only respected because a row that is not running is free of its      *)
(* attempt and a waiting row carries no cancel.  Inv is their conjunction, *)
(* and Steps the part of the action properties that is shown with it.      *)
(*                                                                         *)
(* Three more invariants rest on Inv and Steps: Recorded (an attempt is    *)
(* where the call that ended it left it), OneActivePerKey with Starts (who *)
(* takes a key looked at every active row), and DepInv with GraphStep (the *)
(* edges of a job are exactly what it still waits for).                    *)
(*                                                                         *)
(* The first part is about single rows: what each row operator writes, the *)
(* part of Inv that speaks of one row (RowOK), and what a step may do to   *)
(* one (RowStep).                                                          *)
(***************************************************************************)
EXTENDS TaskqJobs, FiniteSetTheorems, TLAPS

----------------------------------------------------------------------------
(* Rows *)

\* A row without an attempt, worker or lease.
Free(r) == r.att = None /\ r.worker = None /\ r.lease = "none"

\* The columns that only INSERT writes.
SameJob(r, e) ==
    e.idem = r.idem /\ e.ckey = r.ckey /\ e.wf = r.wf /\ e.parent = r.parent /\ e.max = r.max

\* The row before its job exists.
LEMMA NoJobRow == NoJob \in JobRow /\ Free(NoJob) /\ NoJob.status = "absent"
BY DEF NoJob, JobRow, JobStatus, Free

\* A claim.
LEMMA ClaimedRow ==
    ASSUME NEW r \in JobRow, NEW a \in Attempts, NEW w \in Workers
    PROVE  LET e == Claimed(r, a, w) IN
           /\ e \in JobRow /\ SameJob(r, e)
           /\ e.status = "running" /\ e.att = a /\ e.worker = w /\ e.lease = "live"
           /\ e.failures = r.failures /\ e.streak = r.streak /\ e.outcome = r.outcome
<1>1. Claimed(r, a, w) \in JobRow
  BY ZenonT(60) DEF Claimed, JobRow, JobStatus, Active
<1>2. SameJob(r, Claimed(r, a, w))
  BY DEF Claimed, JobRow, SameJob
<1>3. LET e == Claimed(r, a, w) IN
      e.status = "running" /\ e.att = a /\ e.worker = w /\ e.lease = "live"
  BY DEF Claimed, JobRow
<1>4. LET e == Claimed(r, a, w) IN
      e.failures = r.failures /\ e.streak = r.streak /\ e.outcome = r.outcome
  BY DEF Claimed, JobRow
<1> QED  BY <1>1, <1>2, <1>3, <1>4

\* A failure is charged.
LEMMA ChargedRow ==
    ASSUME NEW r \in JobRow, NEW n \in Nat
    PROVE  LET e == Charged(r, n) IN
           /\ e \in JobRow /\ SameJob(r, e)
           /\ e.failures = r.failures + 1 /\ e.streak = n /\ e.cancel = r.cancel
           /\ e.finisher = r.finisher /\ e.outcome = r.outcome
<1> DEFINE m == r.failures + 1
<1>1. m \in Nat
  BY DEF JobRow
<1>2. Charged(r, n) = [r EXCEPT !.failures = m, !.streak = n]
  BY DEF Charged
<1> HIDE DEF m
<1>3. [r EXCEPT !.failures = m, !.streak = n] \in JobRow
  BY <1>1 DEF JobRow
<1>4. LET e == [r EXCEPT !.failures = m, !.streak = n] IN
      /\ SameJob(r, e) /\ e.failures = m /\ e.streak = n
      /\ e.finisher = r.finisher /\ e.outcome = r.outcome
  BY DEF SameJob, JobRow
<1>5. [r EXCEPT !.failures = m, !.streak = n].cancel = r.cancel
  BY DEF JobRow
<1> QED  BY <1>2, <1>3, <1>4, <1>5 DEF m

\* Detaching a row from its attempt.
LEMMA DetachedRow ==
    ASSUME NEW r \in JobRow
    PROVE  LET e == Detached(r) IN
           /\ e \in JobRow /\ SameJob(r, e) /\ Free(e)
           /\ e.failures = r.failures /\ e.streak = r.streak /\ e.outcome = r.outcome
           /\ e.cancel = r.cancel
<1>1. Detached(r) \in JobRow
  BY DEF Detached, JobRow
<1>2. SameJob(r, Detached(r)) /\ Free(Detached(r))
  BY DEF Detached, JobRow, SameJob, Free
<1>3. LET e == Detached(r) IN
      e.failures = r.failures /\ e.streak = r.streak /\ e.outcome = r.outcome
  BY DEF Detached, JobRow
<1>4. Detached(r).cancel = r.cancel
  BY DEF Detached, JobRow
<1> QED  BY <1>1, <1>2, <1>3, <1>4

\* Writes of columns of one row.
LEMMA WriteOutcome ==
    ASSUME NEW d \in JobRow, NEW s \in JobStatus, NEW o \in Outcomes,
           NEW f \in Attempts \cup {None}
    PROVE  [d EXCEPT !.status = s, !.outcome = o, !.finisher = f] \in JobRow
BY DEF JobRow

LEMMA WriteDue ==
    ASSUME NEW d \in JobRow, NEW s \in JobStatus, NEW due \in BOOLEAN
    PROVE  [d EXCEPT !.status = s, !.due = due] \in JobRow
BY DEF JobRow

LEMMA WriteFresh ==
    ASSUME NEW d \in JobRow, NEW s \in JobStatus, NEW due \in BOOLEAN
    PROVE  [d EXCEPT !.status = s, !.due = due, !.failures = 0, !.streak = 0,
                     !.outcome = None, !.finisher = None, !.cancel = FALSE] \in JobRow
BY ZenonT(60) DEF JobRow

\* A terminal row.
LEMMA FinishedRow ==
    ASSUME NEW r \in JobRow, NEW s \in Terminal, NEW o \in Outcomes,
           NEW f \in Attempts \cup {None}
    PROVE  LET e == Finished(r, s, o, f) IN
           /\ e \in JobRow /\ SameJob(r, e) /\ Free(e)
           /\ e.status = s /\ e.outcome = o
           /\ e.failures = r.failures /\ e.streak = r.streak /\ e.cancel = r.cancel
<1> DEFINE d == Detached(r)
           e == [d EXCEPT !.status = s, !.outcome = o, !.finisher = f]
<1>1. Finished(r, s, o, f) = e
  BY DEF Finished
<1>2. /\ d \in JobRow /\ SameJob(r, d) /\ Free(d) /\ d.failures = r.failures
      /\ d.streak = r.streak /\ d.cancel = r.cancel
  BY DetachedRow
<1>d. d \in JobRow
  BY <1>2
<1> HIDE DEF d
<1>s. s \in JobStatus
  BY DEF JobStatus
<1>3. e \in JobRow
  BY <1>d, <1>s, WriteOutcome
<1>4. SameJob(d, e) /\ e.status = s /\ e.outcome = o
  BY <1>d DEF JobRow, SameJob
<1>5. e.att = d.att /\ e.worker = d.worker /\ e.lease = d.lease
  BY <1>d DEF JobRow
<1>6. e.failures = d.failures /\ e.streak = d.streak
  BY <1>d DEF JobRow
<1>7. e.cancel = d.cancel
  BY <1>d DEF JobRow
<1> HIDE DEF e
<1> QED  BY <1>1, <1>2, <1>3, <1>4, <1>5, <1>6, <1>7 DEF SameJob, Free

\* A row that waits again.
LEMMA RequeuedRow ==
    ASSUME NEW r \in JobRow, NEW due \in BOOLEAN
    PROVE  LET e == Requeued(r, due) IN
           /\ e \in JobRow /\ SameJob(r, e) /\ Free(e)
           /\ e.status = "queued" /\ e.outcome = r.outcome
           /\ e.failures = r.failures /\ e.streak = r.streak /\ e.cancel = r.cancel
<1> DEFINE d == Detached(r)
           e == [d EXCEPT !.status = "queued", !.due = due]
<1>1. Requeued(r, due) = e
  BY DEF Requeued
<1>2. /\ d \in JobRow /\ SameJob(r, d) /\ Free(d) /\ d.failures = r.failures
      /\ d.streak = r.streak /\ d.cancel = r.cancel /\ d.outcome = r.outcome
  BY DetachedRow
<1>d. d \in JobRow
  BY <1>2
<1>s. "queued" \in JobStatus
  BY DEF JobStatus, Active
<1> HIDE DEF d
<1>3. e \in JobRow
  BY <1>d, <1>s, WriteDue
<1>4. SameJob(d, e) /\ e.status = "queued" /\ e.outcome = d.outcome
  BY <1>d DEF JobRow, SameJob
<1>5. e.att = d.att /\ e.worker = d.worker /\ e.lease = d.lease
  BY <1>d DEF JobRow
<1>6. e.failures = d.failures /\ e.streak = d.streak
  BY <1>d DEF JobRow
<1>7. e.cancel = d.cancel
  BY <1>d DEF JobRow
<1> HIDE DEF e
<1> QED  BY <1>1, <1>2, <1>3, <1>4, <1>5, <1>6, <1>7 DEF SameJob, Free

\* A broken streak.
LEMMA UnstreakedRow ==
    ASSUME NEW r \in JobRow, NEW due \in BOOLEAN
    PROVE  LET e == Unstreaked(r, due) IN
           /\ e \in JobRow /\ SameJob(r, e) /\ e.streak = 0 /\ e.failures = r.failures
           /\ e.cancel = r.cancel /\ e.finisher = r.finisher /\ e.outcome = r.outcome
<1>1. Unstreaked(r, due) \in JobRow
  BY DEF Unstreaked, JobRow
<1>2. LET e == Unstreaked(r, due) IN
      /\ SameJob(r, e) /\ e.streak = 0 /\ e.failures = r.failures
      /\ e.finisher = r.finisher /\ e.outcome = r.outcome
  BY DEF Unstreaked, JobRow, SameJob
<1>3. Unstreaked(r, due).cancel = r.cancel
  BY DEF Unstreaked, JobRow
<1> QED  BY <1>1, <1>2, <1>3

\* A redriven row.
LEMMA RedrivenRow ==
    ASSUME NEW r \in JobRow, NEW due \in BOOLEAN
    PROVE  LET e == Redriven(r, due) IN
           /\ e \in JobRow /\ SameJob(r, e)
           /\ e.status = "queued" /\ e.att = r.att /\ e.worker = r.worker /\ e.lease = r.lease
           /\ e.failures = 0 /\ e.streak = 0 /\ e.outcome = None /\ ~e.cancel
<1>1. Redriven(r, due) \in JobRow
  <2>1. "queued" \in JobStatus
    BY DEF JobStatus, Active
  <2> QED  BY <2>1, WriteFresh DEF Redriven
<1>2. SameJob(r, Redriven(r, due))
  BY DEF Redriven, JobRow, SameJob
<1>3. LET e == Redriven(r, due) IN
      e.status = "queued" /\ e.att = r.att /\ e.worker = r.worker /\ e.lease = r.lease
  BY DEF Redriven, JobRow
<1>4. LET e == Redriven(r, due) IN
      e.failures = 0 /\ e.streak = 0 /\ e.outcome = None /\ e.cancel = FALSE
  BY DEF Redriven, JobRow
<1> QED  BY <1>1, <1>2, <1>3, <1>4

\* A waiting row that is cancelled.
LEMMA CancelledWaitingRow ==
    ASSUME NEW r \in JobRow, NEW why \in Outcomes
    PROVE  LET e == CancelledWaiting(r, why) IN
           /\ e \in JobRow /\ SameJob(r, e)
           /\ e.status = "cancelled" /\ e.att = r.att /\ e.worker = r.worker /\ e.lease = r.lease
           /\ e.failures = r.failures /\ e.streak = r.streak /\ e.outcome = why
<1>1. CancelledWaiting(r, why) \in JobRow
  BY ZenonT(60) DEF CancelledWaiting, JobRow, JobStatus, Terminal
<1>2. SameJob(r, CancelledWaiting(r, why))
  BY DEF CancelledWaiting, JobRow, SameJob
<1>3. LET e == CancelledWaiting(r, why) IN
      e.status = "cancelled" /\ e.att = r.att /\ e.worker = r.worker /\ e.lease = r.lease
  BY DEF CancelledWaiting, JobRow
<1>4. LET e == CancelledWaiting(r, why) IN
      e.failures = r.failures /\ e.streak = r.streak /\ e.outcome = why
  BY DEF CancelledWaiting, JobRow
<1> QED  BY <1>1, <1>2, <1>3, <1>4

\* A blocked row whose parent did not succeed.
LEMMA DepCancelledRow ==
    ASSUME NEW r \in JobRow
    PROVE  LET e == DepCancelled(r) IN
           /\ e \in JobRow /\ SameJob(r, e)
           /\ e.status = "cancelled" /\ e.att = r.att /\ e.worker = r.worker /\ e.lease = r.lease
           /\ e.failures = r.failures /\ e.streak = r.streak /\ e.outcome = "dep_failed"
<1>1. DepCancelled(r) \in JobRow
  BY ZenonT(60) DEF DepCancelled, JobRow, JobStatus, Terminal, Outcomes
<1>2. SameJob(r, DepCancelled(r))
  BY DEF DepCancelled, JobRow, SameJob
<1>3. LET e == DepCancelled(r) IN
      e.status = "cancelled" /\ e.att = r.att /\ e.worker = r.worker /\ e.lease = r.lease
  BY DEF DepCancelled, JobRow
<1>4. LET e == DepCancelled(r) IN
      e.failures = r.failures /\ e.streak = r.streak /\ e.outcome = "dep_failed"
  BY DEF DepCancelled, JobRow
<1> QED  BY <1>1, <1>2, <1>3, <1>4

\* A blocked row one of whose parents succeeded.
LEMMA PromotedRow ==
    ASSUME NEW r \in JobRow, r.status = "blocked", r.pending # 0
    PROVE  LET e == Promoted(r) IN
           /\ e \in JobRow /\ SameJob(r, e)
           /\ e.status \in {"blocked", "queued"} /\ (e.status = "blocked" => e.pending # 0)
           /\ e.att = r.att /\ e.worker = r.worker /\ e.lease = r.lease
           /\ e.failures = r.failures /\ e.streak = r.streak /\ e.outcome = r.outcome
           /\ e.cancel = r.cancel
<1> DEFINE n == r.pending - 1
           s == IF r.pending = 1 THEN "queued" ELSE "blocked"
           e == [r EXCEPT !.pending = n, !.status = s]
<1>1. n \in Nat /\ s \in {"blocked", "queued"} /\ (s = "blocked" => n # 0)
  BY DEF JobRow
<1>2. s \in JobStatus
  BY DEF JobStatus, Active
<1>3. Promoted(r) = e
  BY DEF Promoted, JobRow
<1> HIDE DEF n, s
<1>4. e \in JobRow
  BY <1>1, <1>2 DEF JobRow
<1>5. SameJob(r, e) /\ e.status = s /\ e.pending = n
  BY DEF JobRow, SameJob
<1>6. e.att = r.att /\ e.worker = r.worker /\ e.lease = r.lease
  BY DEF JobRow
<1>7. e.failures = r.failures /\ e.streak = r.streak /\ e.outcome = r.outcome
  BY DEF JobRow
<1>8. e.cancel = r.cancel
  BY DEF JobRow
<1> HIDE DEF e
<1> QED  BY <1>1, <1>3, <1>4, <1>5, <1>6, <1>7, <1>8

----------------------------------------------------------------------------
(* The invariant of one row, and what one step may do to it *)

\* Everything the inductive invariant says of a single job row.
RowOK(r) ==
    /\ r.status = "blocked" => r.pending # 0
    /\ r.status # "running" => Free(r)
    /\ r.status \in {"blocked", "queued"} => ~r.cancel
    /\ r.failures <= r.max /\ r.streak <= PoisonLimit
    /\ r.status \in Active => /\ r.failures < r.max /\ r.streak < PoisonLimit
                              /\ r.outcome = None
    /\ r.status = "failed" => r.max # 0
    /\ r.outcome = "retry_exhausted" => r.failures = r.max
    /\ r.outcome = "poison" => r.streak = PoisonLimit

\* The life of a job: the statuses one step may lead to.
StatusStep(s, t) ==
    \/ t = s
    \/ s = "absent" /\ t \in {"blocked", "queued"}
    \/ s = "blocked" /\ t \in {"queued", "cancelled"}
    \/ s = "queued" /\ t \in {"running", "cancelled"}
    \/ s = "running" /\ t \in {"queued", "succeeded", "failed", "cancelled"}
    \/ s = "failed" /\ t = "queued"
    \/ s \in Terminal /\ t = "deleted"

\* What a step that turns row r into e may do: the status moves as it may, the
\* key and the workflow it was enqueued with stay, a pending cancel sticks, and
\* terminal rows are final.
RowStep(r, e) ==
    /\ StatusStep(r.status, e.status)
    /\ r.status # "absent" /\ e.status # "deleted" => e.idem = r.idem /\ e.wf = r.wf
    /\ e.status = "deleted" => e = r \/ e.wf = None
    /\ r.status = "running" /\ r.cancel =>
          \/ e.status = "running" /\ e.att = r.att /\ e.cancel
          \/ e.status \in {"succeeded", "cancelled"}
    /\ r.status \in {"succeeded", "cancelled"} => e = r \/ e.status = "deleted"
    /\ r.status = "failed" => \/ e.status \in {"failed", "deleted"}
                              \/ e.status = "queued" /\ r.wf = None

\* r may become e.
RowMoves(r, e) == e \in JobRow /\ RowOK(e) /\ RowStep(r, e)

LEMMA StayMoves ==
    ASSUME NEW r \in JobRow, RowOK(r)
    PROVE  RowMoves(r, r)
BY DEF RowMoves, RowStep, StatusStep

LEMMA DeletedMoves ==
    ASSUME NEW r \in JobRow, r.status \in Terminal
    PROVE  RowMoves(r, [NoJob EXCEPT !.status = "deleted"])
<1> DEFINE e == [NoJob EXCEPT !.status = "deleted"]
<1>1. e \in JobRow
  BY DEF NoJob, JobRow, JobStatus
<1>2. Free(e) /\ e.status = "deleted" /\ e.failures = 0 /\ e.streak = 0 /\ e.max = 0
  BY DEF NoJob, Free
<1>3. e.outcome = None /\ e.wf = None
  BY DEF NoJob
<1>4. None \notin {"retry_exhausted", "poison"}
  BY NullAssumption DEF Outcomes
<1> HIDE DEF e
<1>5. RowOK(e)
  BY <1>2, <1>3, <1>4, ConstantsAssumption DEF RowOK, Active
<1>6. RowStep(r, e)
  BY <1>2, <1>3 DEF RowStep, StatusStep, Terminal
<1> QED  BY <1>1, <1>5, <1>6 DEF RowMoves, e

\* An insert: NewJob with any arguments of the right types writes such a row.
LEMMA NewMoves ==
    ASSUME NEW r, r.status = "absent", NEW e \in JobRow, Free(e),
           e.status \in {"blocked", "queued"}, e.status = "blocked" => e.pending # 0,
           e.cancel = FALSE, e.failures = 0, e.streak = 0, e.max # 0, e.outcome = None
    PROVE  RowMoves(r, e)
<1>1. None \notin {"retry_exhausted", "poison"}
  BY NullAssumption DEF Outcomes
<1>2. e.max \in Nat /\ e.max # 0 /\ PoisonLimit \in Nat \ {0}
  BY ConstantsAssumption DEF JobRow
<1>3. RowOK(e)
  BY <1>1, <1>2 DEF RowOK
<1>4. RowStep(r, e)
  BY DEF RowStep, StatusStep, SameJob
<1> QED  BY <1>3, <1>4 DEF RowMoves

LEMMA ClaimedMoves ==
    ASSUME NEW r \in JobRow, RowOK(r), r.status = "queued",
           NEW a \in Attempts, NEW w \in Workers
    PROVE  LET e == Claimed(r, a, w) IN
           /\ RowMoves(r, e)
           /\ e.status = "running" /\ e.att = a /\ e.worker = w /\ e.lease = "live"
<1> DEFINE e == Claimed(r, a, w)
<1>1. /\ e \in JobRow /\ SameJob(r, e)
      /\ e.status = "running" /\ e.att = a /\ e.worker = w /\ e.lease = "live"
      /\ e.failures = r.failures /\ e.streak = r.streak /\ e.outcome = r.outcome
  BY ClaimedRow
<1> HIDE DEF e
<1>2. RowOK(e)
  BY <1>1, NullAssumption DEF RowOK, SameJob, Active, Outcomes
<1>3. RowStep(r, e)
  BY <1>1 DEF RowStep, StatusStep, SameJob
<1> QED  BY <1>1, <1>2, <1>3 DEF RowMoves, e

\* Any settlement that ends a running job as cancelled or succeeded, without
\* charging it.
LEMMA FinishedMoves ==
    ASSUME NEW r \in JobRow, RowOK(r), r.status = "running", NEW q \in JobRow,
           SameJob(r, q), q.failures = r.failures, q.streak \in {0, r.streak},
           NEW s \in {"succeeded", "cancelled"}, NEW f \in Attempts \cup {None},
           NEW o \in Outcomes \ {"poison", "retry_exhausted"}
    PROVE  /\ RowMoves(r, Finished(q, s, o, f))
           /\ Finished(q, s, o, f).status = s
<1> DEFINE e == Finished(q, s, o, f)
<1>1. s \in Terminal /\ o \in Outcomes
  BY DEF Terminal
<1>2. /\ e \in JobRow /\ SameJob(q, e) /\ Free(e)
      /\ e.status = s /\ e.outcome = o
      /\ e.failures = q.failures /\ e.streak = q.streak
  BY <1>1, FinishedRow
<1> HIDE DEF e
<1>3. RowOK(e)
  BY <1>2, ConstantsAssumption DEF RowOK, SameJob, Active
<1>4. RowStep(r, e)
  BY <1>2 DEF RowStep, StatusStep, SameJob
<1> QED  BY <1>2, <1>3, <1>4 DEF RowMoves, e

\* Any settlement that puts a running job without a pending cancel back in
\* the queue, with budget left.
LEMMA RequeuedMoves ==
    ASSUME NEW r \in JobRow, RowOK(r), r.status = "running", r.cancel = FALSE,
           NEW q \in JobRow, SameJob(r, q), q.cancel = r.cancel, q.outcome = r.outcome,
           q.failures < r.max, q.streak < PoisonLimit, NEW due \in BOOLEAN
    PROVE  /\ RowMoves(r, Requeued(q, due))
           /\ Requeued(q, due).status = "queued"
<1> DEFINE e == Requeued(q, due)
<1>1. /\ e \in JobRow /\ SameJob(q, e) /\ Free(e)
      /\ e.status = "queued" /\ e.outcome = q.outcome
      /\ e.failures = q.failures /\ e.streak = q.streak
  BY RequeuedRow
<1>2. e.cancel = FALSE
  BY RequeuedRow
<1> HIDE DEF e
<1>3. RowOK(e)
  BY <1>1, <1>2, NullAssumption, ConstantsAssumption
  DEF RowOK, SameJob, Active, Outcomes, JobRow
<1>4. RowStep(r, e)
  BY <1>1 DEF RowStep, StatusStep, SameJob
<1> QED  BY <1>1, <1>3, <1>4 DEF RowMoves, e

\* A reap.
LEMMA ReapedMoves ==
    ASSUME NEW r \in JobRow, RowOK(r), r.status = "running"
    PROVE  /\ RowMoves(r, Reaped(r))
           /\ Reaped(r).status \in {"queued", "failed", "cancelled"}
<1> DEFINE n == r.streak + 1
           q == Charged(r, n)
<1>1. /\ n \in Nat /\ r.failures \in Nat /\ r.max \in Nat /\ r.finisher \in Attempts \cup {None}
      /\ r.failures < r.max /\ r.streak < PoisonLimit /\ r.streak \in Nat /\ r.outcome = None
  BY DEF JobRow, RowOK, Active
<1>2. PoisonLimit \in Nat
  BY ConstantsAssumption
<1>3. /\ q \in JobRow /\ SameJob(r, q)
      /\ q.failures = r.failures + 1 /\ q.streak = n /\ q.cancel = r.cancel
      /\ q.finisher = r.finisher /\ q.outcome = r.outcome
  BY <1>1, ChargedRow
<1>4. CASE r.cancel
  <2>1. Reaped(r) = Finished(r, "cancelled", "canceled_after_expiry", r.finisher)
    BY <1>4 DEF Reaped
  <2>2. SameJob(r, r)
    BY DEF SameJob
  <2>3. "canceled_after_expiry" \in Outcomes \ {"poison", "retry_exhausted"}
    BY DEF Outcomes
  <2> QED  BY <1>1, <2>1, <2>2, <2>3, FinishedMoves
<1>5. CASE ~r.cancel /\ (n >= PoisonLimit \/ r.failures + 1 >= r.max)
  <2> DEFINE o == IF n >= PoisonLimit THEN "poison" ELSE "retry_exhausted"
             e == Finished(q, "failed", o, r.finisher)
  <2>1. Reaped(r) = e
    BY <1>5 DEF Reaped
  <2>2. o \in Outcomes /\ "failed" \in Terminal
    BY DEF Outcomes, Terminal
  <2>3. /\ o = "poison" => n = PoisonLimit
        /\ o = "retry_exhausted" => r.failures + 1 = r.max
    BY <1>1, <1>2, <1>5
  <2>4. r.failures + 1 <= r.max /\ n <= PoisonLimit /\ r.max # 0
    BY <1>1, <1>2
  <2> HIDE DEF q, o
  <2>5. /\ e \in JobRow /\ SameJob(q, e) /\ Free(e)
        /\ e.status = "failed" /\ e.outcome = o
        /\ e.failures = q.failures /\ e.streak = q.streak
    BY <1>1, <1>3, <2>2, FinishedRow
  <2> HIDE DEF e, n
  <2>6. RowOK(e)
    BY <1>3, <2>3, <2>4, <2>5 DEF RowOK, SameJob, Active
  <2>7. RowStep(r, e)
    BY <1>3, <1>5, <2>5 DEF RowStep, StatusStep, SameJob
  <2> QED  BY <2>1, <2>5, <2>6, <2>7 DEF RowMoves
<1>6. CASE ~r.cancel /\ ~(n >= PoisonLimit \/ r.failures + 1 >= r.max)
  <2>1. Reaped(r) = Requeued(q, FALSE)
    BY <1>6 DEF Reaped
  <2>2. r.failures + 1 < r.max /\ n < PoisonLimit
    BY <1>1, <1>2, <1>6
  <2>3. r.cancel = FALSE
    BY <1>6 DEF JobRow
  <2> HIDE DEF q, n
  <2> QED  BY <1>1, <1>3, <2>1, <2>2, <2>3, RequeuedMoves
<1> QED  BY <1>4, <1>5, <1>6

\* A dead-letter settlement by fail_job.
LEMMA DeadMoves ==
    ASSUME NEW r \in JobRow, RowOK(r), r.status = "running", r.cancel = FALSE,
           NEW retryable \in BOOLEAN, ~(retryable /\ r.failures + 1 < r.max),
           NEW f \in Attempts
    PROVE  LET o == IF retryable THEN "retry_exhausted" ELSE "non_retryable"
               e == Finished(Charged(r, 0), "failed", o, f)
           IN  RowMoves(r, e) /\ e.status = "failed"
<1> DEFINE o == IF retryable THEN "retry_exhausted" ELSE "non_retryable"
           q == Charged(r, 0)
           e == Finished(q, "failed", o, f)
<1>1. /\ r.failures \in Nat /\ r.max \in Nat
      /\ r.failures < r.max
  BY DEF JobRow, RowOK, Active
<1>2. /\ q \in JobRow /\ SameJob(r, q) /\ q.failures = r.failures + 1 /\ q.streak = 0
  BY ChargedRow
<1>3. o \in Outcomes /\ "failed" \in Terminal /\ o # "poison"
  BY DEF Outcomes, Terminal
<1>4. o = "retry_exhausted" => r.failures + 1 = r.max
  BY <1>1
<1>5. r.failures + 1 <= r.max /\ r.max # 0
  BY <1>1
<1> HIDE DEF q, o
<1>6. /\ e \in JobRow /\ SameJob(q, e) /\ Free(e)
      /\ e.status = "failed" /\ e.outcome = o
      /\ e.failures = q.failures /\ e.streak = q.streak
  BY <1>2, <1>3, FinishedRow
<1> HIDE DEF e
<1>7. RowOK(e)
  BY <1>2, <1>3, <1>4, <1>5, <1>6, ConstantsAssumption DEF RowOK, SameJob, Active
<1>8. RowStep(r, e)
  BY <1>2, <1>6 DEF RowStep, StatusStep, SameJob
<1> QED  BY <1>6, <1>7, <1>8 DEF RowMoves, e, q, o

\* A redrive of a failed job outside any workflow.
LEMMA RedrivenMoves ==
    ASSUME NEW r \in JobRow, RowOK(r), r.status = "failed", r.wf = None,
           NEW due \in BOOLEAN
    PROVE  RowMoves(r, Redriven(r, due)) /\ Redriven(r, due).status = "queued"
<1> DEFINE e == Redriven(r, due)
<1>1. /\ e \in JobRow /\ SameJob(r, e)
      /\ e.status = "queued" /\ e.att = r.att /\ e.worker = r.worker /\ e.lease = r.lease
      /\ e.failures = 0 /\ e.streak = 0 /\ e.outcome = None
  BY RedrivenRow
<1>2. ~e.cancel
  BY RedrivenRow
<1>3. e.max \in Nat \ {0} /\ PoisonLimit \in Nat \ {0}
  BY <1>1, ConstantsAssumption DEF JobRow, SameJob, RowOK
<1>4. None \notin {"retry_exhausted", "poison"}
  BY NullAssumption DEF Outcomes
<1>f. Free(e)
  BY <1>1 DEF RowOK, Free
<1> HIDE DEF e
<1>5. RowOK(e)
  BY <1>1, <1>2, <1>3, <1>4, <1>f DEF RowOK
<1>6. RowStep(r, e)
  BY <1>1 DEF RowStep, StatusStep, SameJob
<1> QED  BY <1>1, <1>5, <1>6 DEF RowMoves, e

\* A cancel of a waiting job, by a call or by a dependency.
LEMMA CancelledWaitingMoves ==
    ASSUME NEW r \in JobRow, RowOK(r), r.status \in {"blocked", "queued"},
           NEW why \in {"canceled", "expired_ttl"}
    PROVE  RowMoves(r, CancelledWaiting(r, why)) /\ CancelledWaiting(r, why).status = "cancelled"
<1> DEFINE e == CancelledWaiting(r, why)
<1>1. why \in Outcomes
  BY DEF Outcomes
<1>2. /\ e \in JobRow /\ SameJob(r, e)
      /\ e.status = "cancelled" /\ e.att = r.att /\ e.worker = r.worker /\ e.lease = r.lease
      /\ e.failures = r.failures /\ e.streak = r.streak /\ e.outcome = why
  BY <1>1, CancelledWaitingRow
<1> HIDE DEF e
<1>3. RowOK(e)
  BY <1>2 DEF RowOK, Free, SameJob, Active
<1>4. RowStep(r, e)
  BY <1>2 DEF RowStep, StatusStep, SameJob
<1> QED  BY <1>2, <1>3, <1>4 DEF RowMoves, e

LEMMA DepCancelledMoves ==
    ASSUME NEW r \in JobRow, RowOK(r), r.status = "blocked"
    PROVE  RowMoves(r, DepCancelled(r)) /\ DepCancelled(r).status = "cancelled"
<1> DEFINE e == DepCancelled(r)
<1>1. /\ e \in JobRow /\ SameJob(r, e)
      /\ e.status = "cancelled" /\ e.att = r.att /\ e.worker = r.worker /\ e.lease = r.lease
      /\ e.failures = r.failures /\ e.streak = r.streak /\ e.outcome = "dep_failed"
  BY DepCancelledRow
<1> HIDE DEF e
<1>2. RowOK(e)
  BY <1>1 DEF RowOK, Free, SameJob, Active
<1>3. RowStep(r, e)
  BY <1>1 DEF RowStep, StatusStep, SameJob
<1> QED  BY <1>1, <1>2, <1>3 DEF RowMoves, e

\* A promotion of a blocked job.
LEMMA PromotedMoves ==
    ASSUME NEW r \in JobRow, RowOK(r), r.status = "blocked"
    PROVE  RowMoves(r, Promoted(r)) /\ Promoted(r).status \in {"blocked", "queued"}
<1> DEFINE e == Promoted(r)
<1>1. r.pending # 0
  BY DEF RowOK
<1>2. /\ e \in JobRow /\ SameJob(r, e)
      /\ e.status \in {"blocked", "queued"} /\ (e.status = "blocked" => e.pending # 0)
      /\ e.att = r.att /\ e.worker = r.worker /\ e.lease = r.lease
      /\ e.failures = r.failures /\ e.streak = r.streak /\ e.outcome = r.outcome
  BY <1>1, PromotedRow
<1>3. e.cancel = r.cancel
  BY <1>1, PromotedRow
<1> HIDE DEF e
<1>4. RowOK(e)
  BY <1>2, <1>3 DEF RowOK, Free, SameJob, Active
<1>5. RowStep(r, e)
  BY <1>2 DEF RowStep, StatusStep, SameJob
<1> QED  BY <1>2, <1>4, <1>5 DEF RowMoves, e

\* Writes of a single column: the lease and the cancel request of a running
\* job, and what time does.
LEMMA LeaseMoves ==
    ASSUME NEW r \in JobRow, RowOK(r), r.status = "running", NEW l \in {"live", "expired"}
    PROVE  LET e == [r EXCEPT !.lease = l] IN
           /\ RowMoves(r, e) /\ e.status = "running" /\ e.att = r.att /\ e.worker = r.worker
           /\ e.lease = l
<1> DEFINE e == [r EXCEPT !.lease = l]
<1>1. e \in JobRow
  BY DEF JobRow
<1>2. /\ e.status = r.status /\ e.att = r.att /\ e.worker = r.worker /\ e.lease = l
      /\ e.failures = r.failures /\ e.streak = r.streak /\ e.outcome = r.outcome
      /\ e.max = r.max /\ e.idem = r.idem
  BY DEF JobRow
<1>3. e.cancel = r.cancel /\ e.wf = r.wf
  BY DEF JobRow
<1> HIDE DEF e
<1>4. RowOK(e)
  BY <1>2 DEF RowOK, Active
<1>5. RowStep(r, e)
  BY <1>2, <1>3 DEF RowStep, StatusStep, SameJob
<1> QED  BY <1>1, <1>2, <1>4, <1>5 DEF RowMoves, e

LEMMA CancelMoves ==
    ASSUME NEW r \in JobRow, RowOK(r), r.status = "running"
    PROVE  LET e == [r EXCEPT !.cancel = TRUE] IN
           /\ RowMoves(r, e) /\ e.status = "running" /\ e.att = r.att /\ e.worker = r.worker
           /\ e.lease = r.lease
<1> DEFINE e == [r EXCEPT !.cancel = TRUE]
<1>1. e \in JobRow
  BY DEF JobRow
<1>2. /\ e.status = r.status /\ e.att = r.att /\ e.worker = r.worker /\ e.lease = r.lease
      /\ e.failures = r.failures /\ e.streak = r.streak /\ e.outcome = r.outcome
      /\ e.max = r.max /\ e.idem = r.idem
  BY DEF JobRow
<1>3. e.cancel = TRUE /\ e.wf = r.wf
  BY DEF JobRow
<1> HIDE DEF e
<1>4. RowOK(e)
  BY <1>2 DEF RowOK, Active
<1>5. RowStep(r, e)
  BY <1>2, <1>3 DEF RowStep, StatusStep, SameJob
<1> QED  BY <1>1, <1>2, <1>4, <1>5 DEF RowMoves, e

LEMMA DueMoves ==
    ASSUME NEW r \in JobRow, RowOK(r), r.status \in {"blocked", "queued"}
    PROVE  LET e == [r EXCEPT !.due = TRUE] IN RowMoves(r, e) /\ e.status = r.status
<1> DEFINE e == [r EXCEPT !.due = TRUE]
<1>1. e \in JobRow
  BY DEF JobRow
<1>2. /\ e.status = r.status /\ e.att = r.att /\ e.worker = r.worker /\ e.lease = r.lease
      /\ e.failures = r.failures /\ e.streak = r.streak /\ e.outcome = r.outcome
      /\ e.max = r.max /\ e.pending = r.pending /\ e.idem = r.idem
  BY DEF JobRow
<1>3. e.cancel = r.cancel /\ e.wf = r.wf
  BY DEF JobRow
<1> HIDE DEF e
<1>4. RowOK(e)
  BY <1>2, <1>3 DEF RowOK, Active, Free
<1>5. RowStep(r, e)
  BY <1>2, <1>3 DEF RowStep, StatusStep, SameJob
<1> QED  BY <1>1, <1>2, <1>4, <1>5 DEF RowMoves, e

LEMMA TtlMoves ==
    ASSUME NEW r \in JobRow, RowOK(r), r.status \in Active \cup {"failed"}
    PROVE  LET e == [r EXCEPT !.ttl = "expired"] IN
           /\ RowMoves(r, e) /\ e.status = r.status /\ e.att = r.att
           /\ e.worker = r.worker /\ e.lease = r.lease
<1> DEFINE e == [r EXCEPT !.ttl = "expired"]
<1>1. e \in JobRow
  BY DEF JobRow
<1>2. /\ e.status = r.status /\ e.att = r.att /\ e.worker = r.worker /\ e.lease = r.lease
      /\ e.failures = r.failures /\ e.streak = r.streak /\ e.outcome = r.outcome
      /\ e.max = r.max /\ e.pending = r.pending /\ e.idem = r.idem
  BY DEF JobRow
<1>3. e.cancel = r.cancel /\ e.wf = r.wf
  BY DEF JobRow
<1> HIDE DEF e
<1>4. RowOK(e)
  BY <1>2, <1>3 DEF RowOK, Active, Free
<1>5. RowStep(r, e)
  BY <1>2, <1>3 DEF RowStep, StatusStep, Active
<1> QED  BY <1>1, <1>2, <1>4, <1>5 DEF RowMoves, e

----------------------------------------------------------------------------
(* The tables *)

\* A job runs under a running attempt that names it and its worker.
RunsUnder ==
    \A j \in Jobs : jobs[j].status = "running" =>
       /\ jobs[j].att \in Attempts /\ jobs[j].lease # "none"
       /\ attempts[jobs[j].att] = [status |-> "running", job |-> j, worker |-> jobs[j].worker]

\* A running attempt is the current one of its job, and an attempt that
\* exists names a job.
Current ==
    \A a \in Attempts :
       /\ attempts[a].status \notin {"absent", "deleted"} => attempts[a].job \in Jobs
       /\ attempts[a].status = "running" => jobs[attempts[a].job].att = a

Inv ==
    /\ TypeOK
    /\ \A j \in Jobs : RowOK(jobs[j])
    /\ RunsUnder
    /\ Current

\* An attempt id is used once: a row x that was handed out stays handed out as
\* y, and only a running one goes on running.
AttemptStep(x, y) ==
    x.status # "absent" =>
       y.status # "absent" /\ (y.status = "running" => x.status = "running")

Steps ==
    /\ \A j \in Jobs : RowStep(jobs[j], jobs'[j])
    /\ \A a \in Attempts : attempts[a].status \in Settled =>
          attempts'[a] = attempts[a] \/ attempts'[a].status = "deleted"
    /\ \A a \in Attempts : AttemptStep(attempts[a], attempts'[a])

----------------------------------------------------------------------------
(* The shape of every action but claim_jobs and janitor: the running        *)
(* attempts E end, exactly their jobs stop running, and every row moves as  *)
(* rows may.                                                                *)

Ends(E) ==
    /\ jobs' = [i \in Jobs |-> jobs'[i]]
    /\ attempts' = [a \in Attempts |-> attempts'[a]]
    /\ \A i \in Jobs :
          /\ RowMoves(jobs[i], jobs'[i])
          /\ jobs'[i].status = "running" =>
                /\ jobs[i].status = "running" /\ jobs[i].att \notin E
                /\ jobs'[i].att = jobs[i].att /\ jobs'[i].worker = jobs[i].worker
                /\ jobs'[i].lease # "none"
          /\ jobs[i].status = "running" /\ jobs'[i].status # "running" => jobs[i].att \in E
    /\ \A a \in Attempts :
          /\ a \notin E => attempts'[a] = attempts[a]
          /\ a \in E => /\ attempts[a].status = "running"
                        /\ attempts'[a] \in AttemptRow /\ attempts'[a].status \in Settled
                        /\ attempts'[a].job = attempts[a].job

LEMMA EndsStep ==
    ASSUME Inv, NEW E \in SUBSET Attempts, Ends(E),
           deps' \subseteq Jobs \X Jobs, limits' \in [ConcKeys -> Nat],
           settledBy' \in [Attempts -> Verbs \cup {"reap", None}],
           needs' \in [Jobs -> SUBSET Jobs]
    PROVE  Inv' /\ Steps
<1>1. TypeOK'
  <2>1. jobs' \in [Jobs -> JobRow]
    BY DEF Ends, RowMoves
  <2>2. \A a \in Attempts : attempts'[a] \in AttemptRow
    BY DEF Ends, Inv, TypeOK
  <2>3. attempts' \in [Attempts -> AttemptRow]
    BY <2>2 DEF Ends
  <2> QED  BY <2>1, <2>3 DEF TypeOK
<1>2. \A j \in Jobs : RowOK(jobs'[j])
  BY DEF Ends, RowMoves
<1>3. RunsUnder'
  <2> SUFFICES ASSUME NEW j \in Jobs, jobs'[j].status = "running"
               PROVE  /\ jobs'[j].att \in Attempts /\ jobs'[j].lease # "none"
                      /\ attempts'[jobs'[j].att] =
                            [status |-> "running", job |-> j, worker |-> jobs'[j].worker]
    BY DEF RunsUnder
  <2>1. /\ jobs[j].status = "running" /\ jobs[j].att \notin E
        /\ jobs'[j].att = jobs[j].att /\ jobs'[j].worker = jobs[j].worker
        /\ jobs'[j].lease # "none"
    BY DEF Ends
  <2>2. /\ jobs[j].att \in Attempts
        /\ attempts[jobs[j].att] = [status |-> "running", job |-> j, worker |-> jobs[j].worker]
    BY <2>1 DEF Inv, RunsUnder
  <2>3. attempts'[jobs[j].att] = attempts[jobs[j].att]
    BY <2>1, <2>2 DEF Ends
  <2> QED  BY <2>1, <2>2, <2>3
<1>4. Current'
  <2> SUFFICES ASSUME NEW a \in Attempts
               PROVE  /\ attempts'[a].status \notin {"absent", "deleted"} =>
                            attempts'[a].job \in Jobs
                      /\ attempts'[a].status = "running" => jobs'[attempts'[a].job].att = a
    BY DEF Current
  <2>1. CASE a \in E
    BY <2>1 DEF Ends, Inv, Current, Settled
  <2>2. CASE a \notin E
    <3>1. attempts'[a] = attempts[a]
      BY <2>2 DEF Ends
    <3>2. CASE attempts[a].status = "running"
      <4> DEFINE j == attempts[a].job
      <4>1. j \in Jobs /\ jobs[j].att = a
        BY <3>2 DEF Inv, Current
      <4>2. jobs[j].status = "running"
        <5>1. None \notin Attempts
          BY ConstantsAssumption
        <5> QED  BY <4>1, <5>1 DEF Inv, RowOK, Free
      <4>3. jobs'[j].status = "running"
        BY <2>2, <4>1, <4>2 DEF Ends
      <4>4. jobs'[j].att = a
        BY <4>1, <4>3 DEF Ends
      <4> QED  BY <3>1, <4>1, <4>4
    <3>3. CASE attempts[a].status # "running"
      BY <3>1, <3>3 DEF Inv, Current
    <3> QED  BY <3>2, <3>3
  <2> QED  BY <2>1, <2>2
<1>5. Steps
  <2>1. \A j \in Jobs : RowStep(jobs[j], jobs'[j])
    BY DEF Ends, RowMoves
  <2>2. \A a \in Attempts : attempts[a].status \in Settled => attempts'[a] = attempts[a]
    BY DEF Ends, Settled
  <2>3. \A a \in Attempts : AttemptStep(attempts[a], attempts'[a])
    BY DEF Ends, Settled, AttemptStep
  <2> QED  BY <2>1, <2>2, <2>3 DEF Steps
<1> QED  BY <1>1, <1>2, <1>3, <1>4, <1>5 DEF Inv

----------------------------------------------------------------------------
(* Cascades, settlements, reaps *)

\* An update of the rows U and the cancels its events cause.
LEMMA CascadeStep ==
    ASSUME Inv, NEW U \in SUBSET Jobs, NEW upd, DOMAIN upd = U,
           \A i \in U : RowMoves(jobs[i], upd[i]),
           NEW K \in SUBSET Casualties(upd), jobs' = Cascaded(upd, K)
    PROVE  /\ jobs' = [i \in Jobs |-> jobs'[i]]
           /\ \A i \in Jobs : RowMoves(jobs[i], jobs'[i])
           /\ \A i \in U : jobs'[i] = upd[i]
           /\ \A i \in Jobs \ U : IF jobs[i].status = "blocked"
                                    THEN jobs'[i].status # "running"
                                    ELSE jobs'[i] = jobs[i]
           /\ Unlinked(K) \subseteq Jobs \X Jobs
<1>1. \A i \in Jobs : jobs'[i] = IF i \in U THEN upd[i]
                                 ELSE IF i \in K THEN DepCancelled(jobs[i]) ELSE jobs[i]
  BY DEF Cascaded
<1>2. jobs' = [i \in Jobs |-> jobs'[i]]
  BY DEF Cascaded
<1>3. \A i \in K : i \in Jobs /\ jobs[i].status = "blocked"
  BY DEF Casualties, Dependents
<1>4. \A i \in Jobs : jobs[i] \in JobRow /\ RowOK(jobs[i])
  BY DEF Inv, TypeOK
<1>5. ASSUME NEW i \in Jobs
      PROVE  /\ RowMoves(jobs[i], jobs'[i])
             /\ i \notin U => IF jobs[i].status = "blocked"
                                THEN jobs'[i].status # "running" ELSE jobs'[i] = jobs[i]
  <2>1. CASE i \in U
    BY <1>1, <2>1
  <2>2. CASE i \notin U /\ i \in K
    BY <1>1, <1>3, <1>4, <2>2, DepCancelledMoves
  <2>3. CASE i \notin U /\ i \notin K
    BY <1>1, <1>4, <2>3, StayMoves
  <2> QED  BY <2>1, <2>2, <2>3
<1>6. Unlinked(K) \subseteq Jobs \X Jobs
  BY DEF Unlinked, Inv, TypeOK
<1> QED  BY <1>1, <1>2, <1>5, <1>6

\* What the fence gives a settlement.
LEMMA FenceFacts ==
    ASSUME Inv, NEW a \in Attempts, Fenced(a)
    PROVE  /\ attempts[a].job \in Jobs
           /\ jobs[attempts[a].job] \in JobRow /\ RowOK(jobs[attempts[a].job])
           /\ jobs[attempts[a].job].status = "running" /\ jobs[attempts[a].job].att = a
           /\ attempts[a].status = "running"
           /\ attempts[a] \in AttemptRow
<1>1. attempts[a].job \in Jobs
  BY DEF Inv, Current, Fenced
<1>2. jobs[attempts[a].job].status = "running" /\ jobs[attempts[a].job].att = a
  BY DEF Fenced
<1>3. attempts[a].status = "running"
  <2> DEFINE j == attempts[a].job
  <2>1. attempts[jobs[j].att] = [status |-> "running", job |-> j, worker |-> jobs[j].worker]
    BY <1>1, <1>2 DEF Inv, RunsUnder
  <2>2. attempts[jobs[j].att].status = "running"
    BY <2>1
  <2> QED  BY <1>2, <2>2
<1> QED  BY <1>1, <1>2, <1>3 DEF Inv, TypeOK

LEMMA SettleStep ==
    ASSUME Inv, NEW a \in Attempts, Fenced(a), NEW v \in Verbs, NEW s \in Settled, NEW row,
           RowMoves(jobs[attempts[a].job], row), row.status # "running",
           Settle(a, v, s, row)
    PROVE  Inv' /\ Steps
<1> DEFINE j == attempts[a].job
           upd == [i \in {j} |-> row]
<1>1. /\ j \in Jobs /\ jobs[j] \in JobRow /\ jobs[j].status = "running" /\ jobs[j].att = a
      /\ attempts[a].status = "running" /\ attempts[a] \in AttemptRow
  BY FenceFacts
<1>2. /\ attempts' = [attempts EXCEPT ![a].status = s]
      /\ settledBy' = [settledBy EXCEPT ![a] = v]
      /\ limits' = limits /\ needs' = needs
  BY DEF Settle
<1>3. PICK K \in SUBSET Casualties(upd) : jobs' = Cascaded(upd, K) /\ deps' = Unlinked(K)
  BY DEF Settle
<1>4. DOMAIN upd = {j} /\ upd[j] = row /\ {j} \in SUBSET Jobs
  BY <1>1
<1> HIDE DEF upd
<1>5. /\ jobs' = [i \in Jobs |-> jobs'[i]]
      /\ \A i \in Jobs : RowMoves(jobs[i], jobs'[i])
      /\ jobs'[j] = row
      /\ \A i \in Jobs \ {j} : IF jobs[i].status = "blocked"
                                 THEN jobs'[i].status # "running" ELSE jobs'[i] = jobs[i]
      /\ deps' \subseteq Jobs \X Jobs
  <2>1. \A i \in {j} : RowMoves(jobs[i], upd[i])
    BY <1>4
  <2> QED  BY <1>3, <1>4, <2>1, CascadeStep
<1>6. \A b \in Attempts : b # a => attempts'[b] = attempts[b]
  BY <1>2 DEF Inv, TypeOK
<1>7. attempts'[a] = [attempts[a] EXCEPT !.status = s]
  BY <1>2 DEF Inv, TypeOK
<1>8. attempts'[a] \in AttemptRow /\ attempts'[a].status \in Settled
      /\ attempts'[a].job = attempts[a].job
  BY <1>1, <1>7 DEF AttemptRow
<1>9. attempts' = [b \in Attempts |-> attempts'[b]]
  BY <1>2 DEF Inv, TypeOK
<1>10. ASSUME NEW i \in Jobs \ {j}, jobs[i].status = "running"
      PROVE  jobs[i].att # a /\ jobs[i].lease # "none"
  <2>1. /\ jobs[i].lease # "none"
        /\ attempts[jobs[i].att] = [status |-> "running", job |-> i, worker |-> jobs[i].worker]
    BY <1>10 DEF Inv, RunsUnder
  <2>2. attempts[jobs[i].att].job = i
    BY <2>1
  <2> QED  BY <2>1, <2>2
<1>11. Ends({a})
  BY <1>1, <1>5, <1>6, <1>8, <1>9, <1>10 DEF Ends
<1>12. settledBy' \in [Attempts -> Verbs \cup {"reap", None}]
  BY <1>2 DEF Inv, TypeOK
<1> QED  BY <1>2, <1>5, <1>11, <1>12, EndsStep DEF Inv, TypeOK

LEMMA ReapStep ==
    ASSUME Inv, NEW S \in SUBSET Jobs, \A j \in S : jobs[j].status = "running", Reap(S)
    PROVE  Inv' /\ Steps
<1> DEFINE upd   == [i \in S |-> Reaped(jobs[i])]
           ended == {a \in Attempts : /\ attempts[a].status = "running"
                                      /\ \E j \in S : jobs[j].att = a}
<1>1. /\ attempts' = [a \in Attempts |->
                        IF a \in ended THEN [attempts[a] EXCEPT !.status = "expired"]
                        ELSE attempts[a]]
      /\ settledBy' = [a \in Attempts |-> IF a \in ended THEN "reap" ELSE settledBy[a]]
      /\ limits' = limits /\ needs' = needs
  BY DEF Reap
<1>2. PICK K \in SUBSET Casualties(upd) : jobs' = Cascaded(upd, K) /\ deps' = Unlinked(K)
  BY DEF Reap
<1>3. /\ DOMAIN upd = S
      /\ \A i \in S : upd[i] = Reaped(jobs[i])
  OBVIOUS
<1>4. \A i \in S : RowMoves(jobs[i], upd[i]) /\ upd[i].status # "running"
  <2> SUFFICES ASSUME NEW i \in S
               PROVE  /\ RowMoves(jobs[i], Reaped(jobs[i]))
                      /\ Reaped(jobs[i]).status # "running"
    BY <1>3
  <2>1. jobs[i] \in JobRow /\ RowOK(jobs[i]) /\ jobs[i].status = "running"
    BY DEF Inv, TypeOK
  <2>2. /\ RowMoves(jobs[i], Reaped(jobs[i]))
        /\ Reaped(jobs[i]).status \in {"queued", "failed", "cancelled"}
    BY <2>1, ReapedMoves
  <2> QED  BY <2>2
<1> HIDE DEF upd
<1>5. /\ jobs' = [i \in Jobs |-> jobs'[i]]
      /\ \A i \in Jobs : RowMoves(jobs[i], jobs'[i])
      /\ \A i \in S : jobs'[i] = upd[i]
      /\ \A i \in Jobs \ S : IF jobs[i].status = "blocked"
                               THEN jobs'[i].status # "running" ELSE jobs'[i] = jobs[i]
      /\ deps' \subseteq Jobs \X Jobs
  BY ZenonT(60), <1>2, <1>3, <1>4, CascadeStep
<1>6. ASSUME NEW i \in Jobs, jobs[i].status = "running"
      PROVE  /\ jobs[i].lease # "none"
             /\ i \in S => jobs[i].att \in ended
             /\ i \notin S => jobs[i].att \notin ended
  <2>1. /\ jobs[i].lease # "none" /\ jobs[i].att \in Attempts
        /\ attempts[jobs[i].att] = [status |-> "running", job |-> i, worker |-> jobs[i].worker]
    BY <1>6 DEF Inv, RunsUnder
  <2>2. attempts[jobs[i].att].status = "running" /\ attempts[jobs[i].att].job = i
    BY <2>1
  <2>3. ASSUME NEW k \in S, jobs[k].att = jobs[i].att
        PROVE  k = i
    <3>1. attempts[jobs[k].att] = [status |-> "running", job |-> k, worker |-> jobs[k].worker]
      BY DEF Inv, RunsUnder
    <3>2. attempts[jobs[k].att].job = k
      BY <3>1
    <3> QED  BY <2>2, <2>3, <3>2
  <2> QED  BY <2>1, <2>2, <2>3
<1>7. ASSUME NEW a \in ended
      PROVE  /\ attempts'[a] \in AttemptRow /\ attempts'[a].status \in Settled
             /\ attempts'[a].job = attempts[a].job
  <2>1. attempts'[a] = [attempts[a] EXCEPT !.status = "expired"] /\ attempts[a] \in AttemptRow
    BY <1>1 DEF Inv, TypeOK
  <2> QED  BY <2>1 DEF AttemptRow, Settled
<1>8. /\ attempts' = [a \in Attempts |-> attempts'[a]]
      /\ \A a \in Attempts : a \notin ended => attempts'[a] = attempts[a]
      /\ \A a \in ended : attempts[a].status = "running"
      /\ ended \in SUBSET Attempts
  BY <1>1
<1>9. settledBy' \in [Attempts -> Verbs \cup {"reap", None}]
  BY <1>1 DEF Inv, TypeOK
<1> HIDE DEF ended
<1>10. Ends(ended)
  BY <1>4, <1>5, <1>6, <1>7, <1>8 DEF Ends
<1> QED  BY <1>1, <1>5, <1>8, <1>9, <1>10, EndsStep DEF Inv, TypeOK

\* Steps that end no attempt and leave every running job as it is.
LEMMA QuietStep ==
    ASSUME Inv, jobs' = [i \in Jobs |-> jobs'[i]], attempts' = attempts,
           \A i \in Jobs : RowMoves(jobs[i], jobs'[i]),
           \A i \in Jobs : IF jobs[i].status = "running"
                             THEN /\ jobs'[i].status = "running" /\ jobs'[i].att = jobs[i].att
                                  /\ jobs'[i].worker = jobs[i].worker /\ jobs'[i].lease # "none"
                             ELSE jobs'[i].status # "running",
           deps' \subseteq Jobs \X Jobs, limits' \in [ConcKeys -> Nat],
           settledBy' = settledBy, needs' \in [Jobs -> SUBSET Jobs]
    PROVE  Inv' /\ Steps
<1>1. attempts' = [a \in Attempts |-> attempts'[a]]
  BY DEF Inv, TypeOK
<1>2. Ends({})
  BY <1>1 DEF Ends
<1> QED  BY <1>2, EndsStep DEF Inv, TypeOK

\* The jobs S are waiting and are cancelled.
LEMMA CancelWaitingStep ==
    ASSUME Inv, NEW S \in SUBSET Jobs, \A j \in S : jobs[j].status \in {"blocked", "queued"},
           NEW why \in {"canceled", "expired_ttl"}, NEW U, CancelWaiting(S, why, U)
    PROVE  Inv' /\ Steps
<1> DEFINE upd == [i \in S |-> CancelledWaiting(jobs[i], why)]
<1>1. PICK K \in SUBSET Casualties(upd) :
         jobs' = Cascaded(upd, K) /\ deps' = Unlinked(K \cup U)
  BY DEF CancelWaiting
<1>2. attempts' = attempts /\ limits' = limits /\ settledBy' = settledBy /\ needs' = needs
  BY DEF CancelWaiting
<1>3. /\ DOMAIN upd = S
      /\ \A i \in S : upd[i] = CancelledWaiting(jobs[i], why)
  OBVIOUS
<1>4. \A i \in S : RowMoves(jobs[i], upd[i]) /\ upd[i].status # "running"
  <2> SUFFICES ASSUME NEW i \in S
               PROVE  /\ RowMoves(jobs[i], CancelledWaiting(jobs[i], why))
                      /\ CancelledWaiting(jobs[i], why).status # "running"
    BY <1>3
  <2>1. jobs[i] \in JobRow /\ RowOK(jobs[i]) /\ jobs[i].status \in {"blocked", "queued"}
    BY DEF Inv, TypeOK
  <2>2. /\ RowMoves(jobs[i], CancelledWaiting(jobs[i], why))
        /\ CancelledWaiting(jobs[i], why).status = "cancelled"
    BY <2>1, CancelledWaitingMoves
  <2> QED  BY <2>2
<1> HIDE DEF upd
<1>5. /\ jobs' = [i \in Jobs |-> jobs'[i]]
      /\ \A i \in Jobs : RowMoves(jobs[i], jobs'[i])
      /\ \A i \in S : jobs'[i] = upd[i]
      /\ \A i \in Jobs \ S : IF jobs[i].status = "blocked"
                               THEN jobs'[i].status # "running" ELSE jobs'[i] = jobs[i]
  BY <1>1, <1>3, <1>4, CascadeStep
<1>6. deps' \subseteq Jobs \X Jobs
  BY <1>1 DEF Unlinked, Inv, TypeOK
<1>7. \A i \in Jobs : jobs[i].status = "running" => jobs[i].lease # "none"
  BY DEF Inv, RunsUnder
<1> QED  BY <1>2, <1>4, <1>5, <1>6, <1>7, QuietStep DEF Inv, TypeOK

\* One row changes and nothing else of the job table.
LEMMA OneRowStep ==
    ASSUME Inv, NEW j \in Jobs, NEW e, jobs' = [jobs EXCEPT ![j] = e], RowMoves(jobs[j], e),
           IF jobs[j].status = "running"
             THEN /\ e.status = "running" /\ e.att = jobs[j].att
                  /\ e.worker = jobs[j].worker /\ e.lease # "none"
             ELSE e.status # "running",
           deps' \subseteq Jobs \X Jobs, limits' = limits, attempts' = attempts,
           settledBy' = settledBy, needs' \in [Jobs -> SUBSET Jobs]
    PROVE  Inv' /\ Steps
<1>1. /\ jobs' = [i \in Jobs |-> jobs'[i]] /\ jobs'[j] = e
      /\ \A i \in Jobs \ {j} : jobs'[i] = jobs[i]
  BY DEF Inv, TypeOK
<1>2. \A i \in Jobs : jobs[i] \in JobRow /\ RowOK(jobs[i])
  BY DEF Inv, TypeOK
<1>3. \A i \in Jobs : RowMoves(jobs[i], jobs'[i])
  BY <1>1, <1>2, StayMoves
<1>4. \A i \in Jobs : jobs[i].status = "running" => jobs[i].lease # "none"
  BY DEF Inv, RunsUnder
<1> QED  BY <1>1, <1>3, <1>4, QuietStep DEF Inv, TypeOK

----------------------------------------------------------------------------
(* One lemma per action *)

LEMMA EnqueueStep ==
    ASSUME Inv, NEW j \in Jobs, NEW k \in IdemKeys \cup {None},
           NEW ck \in ConcKeys \cup {None}, NEW wf \in Workflows \cup {None},
           NEW D \in SUBSET Jobs, NEW due \in BOOLEAN, NEW ttl \in Ttls, NEW max \in Budgets,
           enqueue(j, k, ck, wf, D, due, ttl, max)
    PROVE  Inv' /\ Steps
<1> DEFINE live == {d \in D : jobs[d].status # "succeeded"}
           s    == IF live # {} THEN "blocked" ELSE "queued"
           n    == Cardinality(live)
           e    == NewJob(s, k, ck, wf, None, n, due, ttl, max)
<1>1. /\ jobs[j].status = "absent" /\ jobs' = [jobs EXCEPT ![j] = e]
      /\ deps' = deps \cup {<<j, d>> : d \in live} /\ needs' = [needs EXCEPT ![j] = D]
      /\ attempts' = attempts /\ limits' = limits /\ settledBy' = settledBy
  BY DEF enqueue
<1>2. n \in Nat /\ (s = "blocked" => n # 0)
  <2>1. IsFiniteSet(live)
    BY FiniteAssumption, FS_Subset
  <2> QED  BY <2>1, FS_CardinalityType, FS_EmptySet
<1>3. s \in {"blocked", "queued"} /\ ttl \in {"none", "live"} /\ max \in Nat \ {0}
  BY ConstantsAssumption
<1>4. deps' \subseteq Jobs \X Jobs /\ needs' \in [Jobs -> SUBSET Jobs]
  BY <1>1 DEF Inv, TypeOK
<1> HIDE DEF n, s
<1>5. RowMoves(jobs[j], e) /\ e.status = s
  <2>1. s \in JobStatus /\ max \in Nat
    BY <1>3 DEF JobStatus, Active
  <2>2. e \in JobRow
    BY <1>2, <1>3, <2>1 DEF NewJob, NoJob, JobRow
  <2>3. Free(e) /\ e.status = s /\ e.pending = n
    BY DEF NewJob, NoJob, Free
  <2>4. e.cancel = FALSE
    BY DEF NewJob, NoJob
  <2>5. e.failures = 0 /\ e.streak = 0 /\ e.max = max /\ e.outcome = None
    BY DEF NewJob, NoJob
  <2> HIDE DEF e
  <2> QED  BY <1>1, <1>2, <1>3, <2>2, <2>3, <2>4, <2>5, NewMoves
<1> HIDE DEF e
<1> QED  BY <1>1, <1>3, <1>4, <1>5, OneRowStep

LEMMA ClaimStep ==
    ASSUME Inv, NEW j \in Jobs, NEW w \in Workers, NEW a \in Attempts, claim_jobs(j, w, a)
    PROVE  Inv' /\ Steps
<1> DEFINE r == jobs[j]
           e == Claimed(r, a, w)
           x == [status |-> "running", job |-> j, worker |-> w]
<1>1. /\ r.status = "queued" /\ attempts[a].status = "absent"
      /\ jobs' = [jobs EXCEPT ![j] = e] /\ attempts' = [attempts EXCEPT ![a] = x]
      /\ deps' = deps /\ limits' = limits /\ settledBy' = settledBy /\ needs' = needs
  BY DEF claim_jobs
<1>2. \A i \in Jobs : jobs[i] \in JobRow /\ RowOK(jobs[i])
  BY DEF Inv, TypeOK
<1>3. RowMoves(r, e) /\ e.status = "running" /\ e.att = a /\ e.worker = w /\ e.lease = "live"
  BY <1>1, <1>2, ClaimedMoves
<1>4. x \in AttemptRow
  BY DEF AttemptRow
<1> HIDE DEF e
<1>5. /\ jobs'[j] = e /\ \A i \in Jobs \ {j} : jobs'[i] = jobs[i]
      /\ attempts'[a] = x /\ \A b \in Attempts \ {a} : attempts'[b] = attempts[b]
  BY <1>1 DEF Inv, TypeOK
<1>6. TypeOK'
  <2>1. jobs' \in [Jobs -> JobRow]
    BY <1>1, <1>3 DEF RowMoves, Inv, TypeOK
  <2> HIDE DEF x
  <2>2. attempts' \in [Attempts -> AttemptRow]
    BY <1>1, <1>4 DEF Inv, TypeOK
  <2> QED  BY <1>1, <2>1, <2>2 DEF Inv, TypeOK
<1>7. \A i \in Jobs : RowMoves(jobs[i], jobs'[i])
  BY <1>2, <1>3, <1>5, StayMoves
<1>8. ASSUME NEW i \in Jobs \ {j}, jobs[i].status = "running"
      PROVE  jobs[i].att # a
  <2>1. attempts[jobs[i].att] = [status |-> "running", job |-> i, worker |-> jobs[i].worker]
    BY <1>8 DEF Inv, RunsUnder
  <2>2. attempts[jobs[i].att].status = "running"
    BY <2>1
  <2> QED  BY <1>1, <2>2
<1>9. RunsUnder'
  <2> SUFFICES ASSUME NEW i \in Jobs, jobs'[i].status = "running"
               PROVE  /\ jobs'[i].att \in Attempts /\ jobs'[i].lease # "none"
                      /\ attempts'[jobs'[i].att] =
                            [status |-> "running", job |-> i, worker |-> jobs'[i].worker]
    BY DEF RunsUnder
  <2>1. CASE i = j
    BY <1>3, <1>5, <2>1
  <2>2. CASE i # j
    <3>1. jobs'[i] = jobs[i] /\ jobs[i].att # a
      BY <1>5, <1>8, <2>2
    <3>2. /\ jobs[i].att \in Attempts /\ jobs[i].lease # "none"
          /\ attempts[jobs[i].att] = [status |-> "running", job |-> i, worker |-> jobs[i].worker]
      BY <3>1 DEF Inv, RunsUnder
    <3> QED  BY <1>5, <3>1, <3>2
  <2> QED  BY <2>1, <2>2
<1>10. \A b \in Attempts \ {a} : attempts[b].status = "running" => attempts[b].job # j
  <2> SUFFICES ASSUME NEW b \in Attempts, attempts[b].status = "running", attempts[b].job = j
               PROVE  FALSE
    OBVIOUS
  <2>1. r.att = b
    BY DEF Inv, Current
  <2>2. r.att = None
    BY <1>1, <1>2 DEF RowOK, Free
  <2> QED  BY <2>1, <2>2, ConstantsAssumption
<1>11. Current'
  <2>1. x.job = j
    OBVIOUS
  <2> HIDE DEF x
  <2> QED  BY <1>3, <1>5, <1>10, <2>1 DEF Inv, Current
<1>12. Steps
  <2>1. \A b \in Attempts : attempts[b].status \in Settled => attempts'[b] = attempts[b]
    BY <1>1, <1>5 DEF Settled
  <2>2. \A b \in Attempts : AttemptStep(attempts[b], attempts'[b])
    BY <1>1, <1>5 DEF AttemptStep
  <2> QED  BY <1>7, <2>1, <2>2 DEF Steps, RowMoves
<1> QED  BY <1>6, <1>7, <1>9, <1>11, <1>12 DEF Inv, RowMoves

\* A claim of several rows in one transaction, each under an id of its own.
ClaimsBatch(S, f, w) ==
    /\ \A j \in S : jobs[j].status = "queued" /\ attempts[f[j]].status = "absent"
    /\ \A i, j \in S : f[i] = f[j] => i = j
    /\ jobs' = [j \in Jobs |-> IF j \in S THEN Claimed(jobs[j], f[j], w) ELSE jobs[j]]
    /\ attempts' = [a \in Attempts |->
          IF \E j \in S : f[j] = a
            THEN [status |-> "running", job |-> CHOOSE j \in S : f[j] = a, worker |-> w]
            ELSE attempts[a]]
    /\ UNCHANGED <<deps, limits, settledBy, needs>>

LEMMA ClaimBatchStep ==
    ASSUME Inv, NEW S \in SUBSET Jobs, NEW w \in Workers, NEW f \in [S -> Attempts],
           ClaimsBatch(S, f, w)
    PROVE  /\ Inv' /\ Steps
           /\ \A j \in S : jobs'[j].status = "running" /\ attempts'[f[j]].status = "running"
<1> DEFINE Row(j) == [status |-> "running", job |-> j, worker |-> w]
<1>1. \A i \in Jobs : jobs[i] \in JobRow /\ RowOK(jobs[i])
  BY DEF Inv, TypeOK
<1>2. \A j \in S : /\ jobs[j].status = "queued" /\ attempts[f[j]].status = "absent"
                   /\ jobs'[j] = Claimed(jobs[j], f[j], w)
  BY DEF ClaimsBatch
<1>3. \A j \in S : /\ RowMoves(jobs[j], jobs'[j]) /\ jobs'[j].status = "running"
                   /\ jobs'[j].att = f[j] /\ jobs'[j].worker = w /\ jobs'[j].lease = "live"
  BY <1>1, <1>2, ClaimedMoves
<1>4. \A i \in Jobs \ S : jobs'[i] = jobs[i]
  BY DEF ClaimsBatch
<1>5. \A i \in Jobs : RowMoves(jobs[i], jobs'[i])
  BY <1>1, <1>3, <1>4, StayMoves
<1>6. \A j \in S : f[j] \in Attempts /\ attempts'[f[j]] = Row(j)
  <2> SUFFICES ASSUME NEW j \in S PROVE f[j] \in Attempts /\ attempts'[f[j]] = Row(j)
    OBVIOUS
  <2>1. (CHOOSE i \in S : f[i] = f[j]) = j
    BY DEF ClaimsBatch
  <2>2. f[j] \in Attempts
    OBVIOUS
  <2> QED  BY <2>1, <2>2 DEF ClaimsBatch
<1>7. \A a \in Attempts : (\E j \in S : f[j] = a) \/ attempts'[a] = attempts[a]
  BY DEF ClaimsBatch
<1>8. \A j \in S : Row(j) \in AttemptRow
  BY DEF AttemptRow
<1>9. \A j \in S : Row(j).status = "running" /\ Row(j).job = j
  OBVIOUS
<1>10. jobs' \in [Jobs -> JobRow] /\ attempts' \in [Attempts -> AttemptRow]
  <2>1. jobs' = [i \in Jobs |-> jobs'[i]] /\ attempts' = [a \in Attempts |-> attempts'[a]]
    BY DEF ClaimsBatch
  <2> HIDE DEF Row
  <2>2. \A a \in Attempts : attempts'[a] \in AttemptRow
    BY <1>6, <1>7, <1>8 DEF Inv, TypeOK
  <2> QED  BY <1>5, <2>1, <2>2 DEF RowMoves
<1>11. TypeOK'
  BY <1>10 DEF ClaimsBatch, Inv, TypeOK
<1> HIDE DEF Row
<1>12. RunsUnder'
  <2> SUFFICES ASSUME NEW i \in Jobs, jobs'[i].status = "running"
               PROVE  /\ jobs'[i].att \in Attempts /\ jobs'[i].lease # "none"
                      /\ attempts'[jobs'[i].att] =
                            [status |-> "running", job |-> i, worker |-> jobs'[i].worker]
    BY DEF RunsUnder
  <2>1. CASE i \in S
    BY <1>3, <1>6, <2>1 DEF Row
  <2>2. CASE i \notin S
    <3>1. jobs'[i] = jobs[i]
      BY <1>4, <2>2
    <3>2. /\ jobs[i].att \in Attempts /\ jobs[i].lease # "none"
          /\ attempts[jobs[i].att] = [status |-> "running", job |-> i, worker |-> jobs[i].worker]
      BY <3>1 DEF Inv, RunsUnder
    <3>3. attempts[jobs[i].att].status = "running"
      BY <3>2
    <3>4. attempts'[jobs[i].att] = attempts[jobs[i].att]
      BY <1>2, <1>7, <3>2, <3>3
    <3> QED  BY <3>1, <3>2, <3>4
  <2> QED  BY <2>1, <2>2
<1>13. Current'
  <2> SUFFICES ASSUME NEW a \in Attempts
               PROVE  /\ attempts'[a].status \notin {"absent", "deleted"} =>
                            attempts'[a].job \in Jobs
                      /\ attempts'[a].status = "running" => jobs'[attempts'[a].job].att = a
    BY DEF Current
  <2>1. CASE \E j \in S : f[j] = a
    BY <1>3, <1>6, <1>9, <2>1
  <2>2. CASE attempts'[a] = attempts[a]
    <3>1. CASE attempts[a].status = "running"
      <4>1. attempts[a].job \in Jobs /\ jobs[attempts[a].job].att = a
        BY <3>1 DEF Inv, Current
      <4>2. jobs[attempts[a].job].status = "running"
        BY <1>1, <4>1, ConstantsAssumption DEF RowOK, Free
      <4>3. attempts[a].job \notin S
        BY <1>2, <4>2
      <4> QED  BY <1>4, <2>2, <4>1, <4>3
    <3>2. CASE attempts[a].status # "running"
      BY <2>2, <3>2 DEF Inv, Current
    <3> QED  BY <3>1, <3>2
  <2> QED  BY <1>7, <2>1, <2>2
<1>14. Steps
  <2>1. \A b \in Attempts : attempts[b].status # "absent" => attempts'[b] = attempts[b]
    BY <1>2, <1>7
  <2>2. \A b \in Attempts : /\ attempts[b].status \in Settled => attempts'[b] = attempts[b]
                            /\ AttemptStep(attempts[b], attempts'[b])
    BY <2>1 DEF Settled, AttemptStep
  <2> QED  BY <1>5, <2>2 DEF Steps, RowMoves
<1> QED  BY <1>3, <1>5, <1>6, <1>9, <1>11, <1>12, <1>13, <1>14 DEF Inv, RowMoves

LEMMA HeartbeatStep ==
    ASSUME Inv, NEW a \in Attempts, heartbeat(a)
    PROVE  Inv' /\ Steps
<1> DEFINE j == attempts[a].job
           r == jobs[j]
           e == [r EXCEPT !.lease = "live"]
<1>1. j \in Jobs /\ r \in JobRow /\ RowOK(r) /\ r.status = "running"
  BY FenceFacts DEF heartbeat
<1>2. /\ jobs' = [jobs EXCEPT ![j] = e] /\ deps' = deps /\ attempts' = attempts
      /\ limits' = limits /\ settledBy' = settledBy /\ needs' = needs
  BY DEF heartbeat
<1>3. /\ RowMoves(r, e) /\ e.status = "running" /\ e.att = r.att /\ e.worker = r.worker
      /\ e.lease = "live"
  BY <1>1, LeaseMoves
<1> HIDE DEF e
<1> QED  BY <1>1, <1>2, <1>3, OneRowStep DEF Inv, TypeOK

LEMMA FailStep ==
    ASSUME Inv, NEW a \in Attempts, NEW retryable \in BOOLEAN, NEW due \in BOOLEAN,
           fail_job(a, retryable, due)
    PROVE  Inv' /\ Steps
<1> DEFINE r == jobs[attempts[a].job]
<1>1. Fenced(a) /\ r \in JobRow /\ RowOK(r) /\ r.status = "running"
  BY FenceFacts DEF fail_job
<1>2. "fail" \in Verbs /\ {"failed", "cancelled"} \subseteq Settled
  BY DEF Verbs, Settled
<1>3. CASE r.cancel /\ Settle(a, "fail", "cancelled", CancelledBy(r, a))
  <2>1. SameJob(r, r) /\ "canceled" \in Outcomes \ {"poison", "retry_exhausted"}
    BY DEF SameJob, Outcomes
  <2>2. RowMoves(r, CancelledBy(r, a)) /\ CancelledBy(r, a).status = "cancelled"
    BY <1>1, <2>1, FinishedMoves DEF CancelledBy
  <2> QED  BY <1>1, <1>2, <1>3, <2>2, SettleStep
<1>4. CASE /\ ~r.cancel /\ retryable /\ r.failures + 1 < r.max
           /\ Settle(a, "fail", "failed", Requeued(Charged(r, 0), due))
  <2> DEFINE q == Charged(r, 0)
  <2>1. /\ q \in JobRow /\ SameJob(r, q) /\ q.failures = r.failures + 1 /\ q.streak = 0
        /\ q.outcome = r.outcome
    BY <1>1, ChargedRow
  <2>2. q.cancel = r.cancel /\ r.cancel = FALSE
    BY <1>1, <1>4, ChargedRow DEF JobRow
  <2>3. q.failures < r.max /\ q.streak < PoisonLimit
    BY <1>4, <2>1, ConstantsAssumption
  <2> HIDE DEF q
  <2>4. RowMoves(r, Requeued(q, due)) /\ Requeued(q, due).status = "queued"
    BY <1>1, <2>1, <2>2, <2>3, RequeuedMoves
  <2> QED  BY <1>1, <1>2, <1>4, <2>4, SettleStep DEF q
<1>5. CASE /\ ~r.cancel /\ ~(retryable /\ r.failures + 1 < r.max)
           /\ Settle(a, "fail", "failed",
                     Finished(Charged(r, 0), "failed",
                              IF retryable THEN "retry_exhausted" ELSE "non_retryable", a))
  <2> DEFINE e == Finished(Charged(r, 0), "failed",
                           IF retryable THEN "retry_exhausted" ELSE "non_retryable", a)
  <2>1. r.cancel = FALSE
    BY <1>1, <1>5 DEF JobRow
  <2>2. RowMoves(r, e) /\ e.status = "failed"
    BY <1>1, <1>5, <2>1, DeadMoves
  <2> HIDE DEF e
  <2> QED  BY <1>1, <1>2, <1>5, <2>2, SettleStep DEF e
<1> QED  BY <1>3, <1>4, <1>5 DEF fail_job

LEMMA SnoozeStep ==
    ASSUME Inv, NEW a \in Attempts, NEW due \in BOOLEAN, snooze_job(a, due)
    PROVE  Inv' /\ Steps
<1> DEFINE r == jobs[attempts[a].job]
           q == Unstreaked(r, due)
<1>1. Fenced(a) /\ r \in JobRow /\ RowOK(r) /\ r.status = "running"
  BY FenceFacts DEF snooze_job
<1>2. "snooze" \in Verbs /\ {"snoozed", "cancelled"} \subseteq Settled
  BY DEF Verbs, Settled
<1>3. /\ q \in JobRow /\ SameJob(r, q) /\ q.streak = 0 /\ q.failures = r.failures
      /\ q.finisher = r.finisher /\ q.outcome = r.outcome
  BY <1>1, UnstreakedRow
<1>4. q.cancel = r.cancel /\ q.cancel \in BOOLEAN /\ q.finisher \in Attempts \cup {None}
  BY <1>1, <1>3, UnstreakedRow DEF JobRow
<1> HIDE DEF q
<1>5. CASE q.cancel /\ Settle(a, "snooze", "cancelled",
                              Finished(q, "cancelled", "canceled", q.finisher))
  <2>1. "canceled" \in Outcomes \ {"poison", "retry_exhausted"}
    BY DEF Outcomes
  <2>2. /\ RowMoves(r, Finished(q, "cancelled", "canceled", q.finisher))
        /\ Finished(q, "cancelled", "canceled", q.finisher).status = "cancelled"
    BY <1>1, <1>3, <1>4, <2>1, FinishedMoves
  <2> QED  BY <1>1, <1>2, <1>5, <2>2, SettleStep
<1>6. CASE ~q.cancel /\ Settle(a, "snooze", "snoozed", Requeued(q, due))
  <2>1. r.cancel = FALSE /\ q.failures < r.max /\ q.streak < PoisonLimit
    BY <1>1, <1>3, <1>4, <1>6, ConstantsAssumption DEF RowOK, Active
  <2>2. RowMoves(r, Requeued(q, due)) /\ Requeued(q, due).status = "queued"
    BY <1>1, <1>3, <1>4, <2>1, RequeuedMoves
  <2> QED  BY <1>1, <1>2, <1>6, <2>2, SettleStep
<1> QED  BY <1>5, <1>6 DEF snooze_job, q

LEMMA ReleaseStep ==
    ASSUME Inv, NEW a \in Attempts, NEW due \in BOOLEAN, release_job(a, due)
    PROVE  Inv' /\ Steps
<1> DEFINE r == jobs[attempts[a].job]
<1>1. Fenced(a) /\ r \in JobRow /\ RowOK(r) /\ r.status = "running"
  BY FenceFacts DEF release_job
<1>2. "release" \in Verbs /\ {"released", "cancelled"} \subseteq Settled
  BY DEF Verbs, Settled
<1>3. SameJob(r, r)
  BY DEF SameJob
<1>4. CASE r.cancel /\ Settle(a, "release", "cancelled", CancelledBy(r, a))
  <2>1. "canceled" \in Outcomes \ {"poison", "retry_exhausted"}
    BY DEF Outcomes
  <2>2. RowMoves(r, CancelledBy(r, a)) /\ CancelledBy(r, a).status = "cancelled"
    BY <1>1, <1>3, <2>1, FinishedMoves DEF CancelledBy
  <2> QED  BY <1>1, <1>2, <1>4, <2>2, SettleStep
<1>5. CASE ~r.cancel /\ Settle(a, "release", "released", Requeued(r, due))
  <2>1. r.cancel = FALSE /\ r.failures < r.max /\ r.streak < PoisonLimit
    BY <1>1, <1>5 DEF RowOK, Active, JobRow
  <2>2. RowMoves(r, Requeued(r, due)) /\ Requeued(r, due).status = "queued"
    BY <1>1, <1>3, <2>1, RequeuedMoves
  <2> QED  BY <1>1, <1>2, <1>5, <2>2, SettleStep
<1> QED  BY <1>4, <1>5 DEF release_job

LEMMA CancelRunningStep ==
    ASSUME Inv, NEW a \in Attempts, cancel_running_job(a)
    PROVE  Inv' /\ Steps
<1> DEFINE r == jobs[attempts[a].job]
<1>1. Fenced(a) /\ r \in JobRow /\ RowOK(r) /\ r.status = "running"
  BY FenceFacts DEF cancel_running_job
<1>2. "cancel" \in Verbs /\ "cancelled" \in Settled
  BY DEF Verbs, Settled
<1>3. SameJob(r, r) /\ "canceled" \in Outcomes \ {"poison", "retry_exhausted"}
  BY DEF SameJob, Outcomes
<1>4. RowMoves(r, CancelledBy(r, a)) /\ CancelledBy(r, a).status = "cancelled"
  BY <1>1, <1>3, FinishedMoves DEF CancelledBy
<1> QED  BY <1>1, <1>2, <1>4, SettleStep DEF cancel_running_job

LEMMA CompleteStep ==
    ASSUME Inv, NEW a \in Attempts, NEW F \in SUBSET Jobs, NEW M \in SUBSET F,
           NEW due \in BOOLEAN, NEW max \in Nat \ {0}, complete_job(a, F, M, due, max)
    PROVE  Inv' /\ Steps
<1> DEFINE j    == attempts[a].job
           r    == jobs[j]
           q    == Unstreaked(r, r.due)
           done == Finished(q, "succeeded", "success", a)
           Followup(i) == NewJob("queued", None, None, IF i \in M THEN r.wf ELSE None,
                                 j, 0, due, "none", max)
<1>1. /\ j \in Jobs /\ r \in JobRow /\ RowOK(r) /\ r.status = "running" /\ r.att = a
      /\ attempts[a].status = "running" /\ attempts[a] \in AttemptRow
  BY FenceFacts DEF complete_job
<1>2. /\ \A f \in F : jobs[f].status = "absent"
      /\ attempts' = [attempts EXCEPT ![a].status = "succeeded"]
      /\ settledBy' = [settledBy EXCEPT ![a] = "complete"]
      /\ limits' = limits /\ needs' = needs
  BY DEF complete_job
<1>3. PICK K \in SUBSET Dependents({j}) :
         /\ jobs' = [i \in Jobs |-> IF i = j THEN done
                                    ELSE IF i \in K THEN Promoted(jobs[i])
                                    ELSE IF i \in F THEN Followup(i)
                                    ELSE jobs[i]]
         /\ deps' = deps \ (K \X {j})
  BY DEF complete_job
<1>4. RowMoves(r, done) /\ done.status = "succeeded"
  <2>1. r.due \in BOOLEAN
    BY <1>1 DEF JobRow
  <2>2. q \in JobRow /\ SameJob(r, q) /\ q.streak = 0 /\ q.failures = r.failures
    BY <1>1, <2>1, UnstreakedRow
  <2>3. "success" \in Outcomes \ {"poison", "retry_exhausted"}
    BY DEF Outcomes
  <2> HIDE DEF q
  <2> QED  BY <1>1, <2>2, <2>3, FinishedMoves
<1>5. \A i \in Jobs : jobs[i] \in JobRow /\ RowOK(jobs[i])
  BY DEF Inv, TypeOK
<1>6. ASSUME NEW i \in K
      PROVE  /\ i \in Jobs /\ jobs[i].status = "blocked"
             /\ RowMoves(jobs[i], Promoted(jobs[i]))
             /\ Promoted(jobs[i]).status # "running"
  <2>1. i \in Jobs /\ jobs[i].status = "blocked"
    BY DEF Dependents
  <2>2. /\ RowMoves(jobs[i], Promoted(jobs[i]))
        /\ Promoted(jobs[i]).status \in {"blocked", "queued"}
    BY <1>5, <2>1, PromotedMoves
  <2> QED  BY <2>1, <2>2
<1>7. ASSUME NEW i \in F
      PROVE  RowMoves(jobs[i], Followup(i)) /\ Followup(i).status = "queued"
  <2> DEFINE wf == IF i \in M THEN r.wf ELSE None
  <2>1. /\ jobs[i].status = "absent" /\ wf \in Workflows \cup {None} /\ j \in Jobs \cup {None}
        /\ max \in Nat \ {0} /\ 0 \in Nat
    BY <1>1, <1>2, ConstantsAssumption DEF JobRow
  <2> HIDE DEF wf
  <2> DEFINE e == NewJob("queued", None, None, wf, j, 0, due, "none", max)
  <2>2. e \in JobRow
    <3>1. "queued" \in JobStatus
      BY DEF JobStatus, Active
    <3> QED  BY <2>1, <3>1 DEF NewJob, NoJob, JobRow
  <2>3. Free(e) /\ e.status = "queued"
    BY DEF NewJob, NoJob, Free
  <2>4. e.cancel = FALSE
    BY DEF NewJob, NoJob
  <2>5. e.failures = 0 /\ e.streak = 0 /\ e.max = max /\ e.outcome = None
    BY DEF NewJob, NoJob
  <2> HIDE DEF e
  <2>6. RowMoves(jobs[i], e)
    BY <2>1, <2>2, <2>3, <2>4, <2>5, NewMoves
  <2> QED  BY <2>3, <2>6 DEF wf, e
<1> HIDE DEF done, Followup
<1>8. jobs' = [i \in Jobs |-> jobs'[i]]
  BY <1>3
<1>9. \A i \in Jobs : jobs'[i] = IF i = j THEN done
                                 ELSE IF i \in K THEN Promoted(jobs[i])
                                 ELSE IF i \in F THEN Followup(i)
                                 ELSE jobs[i]
  BY <1>3
<1>10. \A i \in Jobs : RowMoves(jobs[i], jobs'[i])
  BY <1>4, <1>5, <1>6, <1>7, <1>9, StayMoves
<1>11. /\ jobs'[j].status # "running"
       /\ \A i \in Jobs \ {j} : IF jobs[i].status = "running" THEN jobs'[i] = jobs[i]
                                ELSE jobs'[i].status # "running"
  BY <1>1, <1>2, <1>4, <1>6, <1>7, <1>9
<1>12. ASSUME NEW i \in Jobs \ {j}, jobs[i].status = "running"
       PROVE  jobs[i].att # a /\ jobs[i].lease # "none"
  <2>1. /\ jobs[i].lease # "none"
        /\ attempts[jobs[i].att] = [status |-> "running", job |-> i, worker |-> jobs[i].worker]
    BY <1>12 DEF Inv, RunsUnder
  <2>2. attempts[jobs[i].att].job = i
    BY <2>1
  <2> QED  BY <2>1, <2>2
<1>13. \A b \in Attempts : b # a => attempts'[b] = attempts[b]
  BY <1>2 DEF Inv, TypeOK
<1>14. /\ attempts'[a] \in AttemptRow /\ attempts'[a].status \in Settled
       /\ attempts'[a].job = attempts[a].job
  <2>1. attempts'[a] = [attempts[a] EXCEPT !.status = "succeeded"]
    BY <1>2 DEF Inv, TypeOK
  <2> QED  BY <1>1, <2>1 DEF AttemptRow, Settled
<1>15. attempts' = [b \in Attempts |-> attempts'[b]]
  BY <1>2 DEF Inv, TypeOK
<1>16. Ends({a})
  BY <1>1, <1>8, <1>10, <1>11, <1>12, <1>13, <1>14, <1>15 DEF Ends
<1>17. settledBy' \in [Attempts -> Verbs \cup {"reap", None}] /\ deps' \subseteq Jobs \X Jobs
  BY <1>2, <1>3 DEF Inv, TypeOK, Verbs
<1> QED  BY <1>2, <1>16, <1>17, EndsStep DEF Inv, TypeOK

LEMMA CancelJobStep ==
    ASSUME Inv, NEW j \in Jobs, cancel_job(j)
    PROVE  Inv' /\ Steps
<1>1. CASE jobs[j].status \in {"blocked", "queued"} /\ CancelWaiting({j}, "canceled", {j})
  BY <1>1, CancelWaitingStep
<1>2. CASE /\ jobs[j].status = "running"
           /\ jobs' = [jobs EXCEPT ![j].cancel = TRUE]
           /\ UNCHANGED <<attempts, deps, limits, settledBy, needs>>
  <2> DEFINE r == jobs[j]
             e == [r EXCEPT !.cancel = TRUE]
  <2>1. r \in JobRow /\ RowOK(r) /\ r.lease # "none"
    BY <1>2 DEF Inv, TypeOK, RunsUnder
  <2>3. jobs' = [jobs EXCEPT ![j] = e]
    BY <1>2
  <2>2. /\ RowMoves(r, e) /\ e.status = "running" /\ e.att = r.att /\ e.worker = r.worker
        /\ e.lease = r.lease
    BY <1>2, <2>1, CancelMoves
  <2> HIDE DEF e
  <2> QED  BY <1>2, <2>1, <2>2, <2>3, OneRowStep DEF Inv, TypeOK
<1> QED  BY <1>1, <1>2 DEF cancel_job

LEMMA RedriveStep ==
    ASSUME Inv, NEW j \in Jobs, NEW due \in BOOLEAN, redrive_job(j, due)
    PROVE  Inv' /\ Steps
<1>1. /\ jobs[j] \in JobRow /\ RowOK(jobs[j]) /\ jobs[j].status = "failed" /\ jobs[j].wf = None
      /\ jobs' = [jobs EXCEPT ![j] = Redriven(jobs[j], due)]
      /\ UNCHANGED <<attempts, deps, limits, settledBy, needs>>
  BY DEF Inv, TypeOK, redrive_job
<1>2. RowMoves(jobs[j], Redriven(jobs[j], due)) /\ Redriven(jobs[j], due).status = "queued"
  BY <1>1, RedrivenMoves
<1> QED  BY <1>1, <1>2, OneRowStep DEF Inv, TypeOK

LEMMA LimitStep ==
    ASSUME Inv, NEW ck \in ConcKeys, NEW n \in Caps, set_concurrency_limit(ck, n)
    PROVE  Inv' /\ Steps
<1>1. /\ jobs' = jobs /\ attempts' = attempts /\ deps' = deps /\ settledBy' = settledBy
      /\ needs' = needs
  BY DEF set_concurrency_limit
<1>2. limits' \in [ConcKeys -> Nat]
  BY ConstantsAssumption DEF set_concurrency_limit, Inv, TypeOK
<1>3. jobs' = [i \in Jobs |-> jobs'[i]]
  BY <1>1 DEF Inv, TypeOK
<1>4. \A i \in Jobs : RowMoves(jobs[i], jobs'[i])
  BY <1>1, StayMoves DEF Inv, TypeOK
<1>5. \A i \in Jobs : jobs[i].status = "running" => jobs[i].lease # "none"
  BY DEF Inv, RunsUnder
<1> QED  BY <1>1, <1>2, <1>3, <1>4, <1>5, QuietStep DEF Inv, TypeOK

LEMMA AdvanceStep ==
    ASSUME Inv, NEW S \in SUBSET Jobs,
           advance_workflow_cancellations(Workflows, S)
    PROVE  Inv' /\ Steps
<1> DEFINE waiting == {j \in S : jobs[j].status \in {"blocked", "queued"}}
<1>1. /\ \A j \in S : j \in waiting \/ jobs[j].status = "running"
      /\ jobs' = [i \in Jobs |->
                    IF i \in waiting THEN CancelledWaiting(jobs[i], "canceled")
                    ELSE IF i \in S THEN [jobs[i] EXCEPT !.cancel = TRUE]
                    ELSE jobs[i]]
      /\ deps' = Unlinked(waiting)
      /\ attempts' = attempts /\ limits' = limits /\ settledBy' = settledBy /\ needs' = needs
  BY DEF advance_workflow_cancellations
<1>2. \A i \in Jobs : /\ jobs[i] \in JobRow /\ RowOK(jobs[i])
                      /\ jobs[i].status = "running" => jobs[i].lease # "none"
  BY DEF Inv, TypeOK, RunsUnder
<1>3. ASSUME NEW i \in Jobs
      PROVE  /\ RowMoves(jobs[i], jobs'[i])
             /\ IF jobs[i].status = "running"
                  THEN /\ jobs'[i].status = "running" /\ jobs'[i].att = jobs[i].att
                       /\ jobs'[i].worker = jobs[i].worker /\ jobs'[i].lease # "none"
                  ELSE jobs'[i].status # "running"
  <2>1. CASE i \in waiting
    <3>1. jobs'[i] = CancelledWaiting(jobs[i], "canceled")
      BY <1>1, <2>1
    <3>2. jobs[i].status \in {"blocked", "queued"}
      BY <2>1
    <3> QED  BY <1>2, <3>1, <3>2, CancelledWaitingMoves
  <2>2. CASE i \in S /\ i \notin waiting
    <3> DEFINE e == [jobs[i] EXCEPT !.cancel = TRUE]
    <3>1. jobs'[i] = e /\ jobs[i].status = "running"
      BY <1>1, <2>2
    <3>2. /\ RowMoves(jobs[i], e) /\ e.status = "running" /\ e.att = jobs[i].att
          /\ e.worker = jobs[i].worker /\ e.lease = jobs[i].lease
      BY <1>2, <3>1, CancelMoves
    <3> HIDE DEF e
    <3> QED  BY <1>2, <3>1, <3>2
  <2>3. CASE i \notin S
    <3>1. jobs'[i] = jobs[i]
      BY <1>1, <2>3
    <3> QED  BY <1>2, <3>1, StayMoves
  <2> QED  BY <2>1, <2>2, <2>3
<1>4. jobs' = [i \in Jobs |-> jobs'[i]]
  BY <1>1
<1>5. deps' \subseteq Jobs \X Jobs
  BY <1>1 DEF Unlinked, Inv, TypeOK
<1> QED  BY <1>1, <1>3, <1>4, <1>5, QuietStep DEF Inv, TypeOK

LEMMA StragglerStep ==
    ASSUME Inv, NEW c \in Jobs, NEW p \in Jobs, finalize_dep_stragglers(c, p)
    PROVE  Inv' /\ Steps
<1>1. \A i \in Jobs : jobs[i] \in JobRow /\ RowOK(jobs[i])
  BY DEF Inv, TypeOK
<1>2. /\ jobs[c].status = "blocked"
      /\ attempts' = attempts /\ limits' = limits /\ settledBy' = settledBy /\ needs' = needs
  BY DEF finalize_dep_stragglers
<1>3. CASE /\ jobs' = [jobs EXCEPT ![c] = Promoted(@)] /\ deps' = deps \ {<<c, p>>}
  <2>1. RowMoves(jobs[c], Promoted(jobs[c])) /\ Promoted(jobs[c]).status \in {"blocked", "queued"}
    BY <1>1, <1>2, PromotedMoves
  <2> QED  BY <1>2, <1>3, <2>1, OneRowStep DEF Inv, TypeOK
<1>4. CASE \E k \in Dependents({p}) :
             jobs' = [jobs EXCEPT ![k] = DepCancelled(@)] /\ deps' = Unlinked({k})
  <2>1. PICK k \in Jobs : /\ jobs[k].status = "blocked"
                          /\ jobs' = [jobs EXCEPT ![k] = DepCancelled(@)]
                          /\ deps' = Unlinked({k})
    BY <1>4 DEF Dependents
  <2>2. RowMoves(jobs[k], DepCancelled(jobs[k])) /\ DepCancelled(jobs[k]).status = "cancelled"
    BY <1>1, <2>1, DepCancelledMoves
  <2>3. deps' \subseteq Jobs \X Jobs
    BY <2>1 DEF Unlinked, Inv, TypeOK
  <2> QED  BY <1>2, <2>1, <2>2, <2>3, OneRowStep DEF Inv, TypeOK
<1> QED  BY <1>3, <1>4 DEF finalize_dep_stragglers

LEMMA JanitorStep ==
    ASSUME Inv, NEW S \in SUBSET Jobs, janitor(S)
    PROVE  Inv' /\ Steps
<1> DEFINE gone == [NoJob EXCEPT !.status = "deleted"]
           dead == [NoAttempt EXCEPT !.status = "deleted"]
<1>1. /\ \A j \in S : jobs[j].status \in Terminal
      /\ jobs' = [i \in Jobs |-> IF i \in S THEN gone ELSE jobs[i]]
      /\ attempts' = [a \in Attempts |-> IF attempts[a].job \in S THEN dead ELSE attempts[a]]
      /\ deps' = Unlinked(S)
      /\ limits' = limits /\ settledBy' = settledBy /\ needs' = needs
  BY DEF janitor, Terminal
<1>2. \A i \in Jobs : jobs[i] \in JobRow /\ RowOK(jobs[i])
  BY DEF Inv, TypeOK
<1>3. dead \in AttemptRow /\ dead.status = "deleted"
  BY DEF NoAttempt, AttemptRow
<1>4. gone.status = "deleted"
  BY DEF NoJob
<1>5. \A i \in S : RowMoves(jobs[i], gone)
  BY <1>1, <1>2, DeletedMoves
<1> HIDE DEF gone, dead
<1>6. \A i \in Jobs : RowMoves(jobs[i], jobs'[i])
  BY <1>1, <1>2, <1>5, StayMoves
<1>7. TypeOK'
  <2>1. jobs' \in [Jobs -> JobRow]
    BY <1>1, <1>6 DEF RowMoves
  <2>2. attempts' \in [Attempts -> AttemptRow]
    BY <1>1, <1>3 DEF Inv, TypeOK
  <2>3. deps' \subseteq Jobs \X Jobs
    BY <1>1 DEF Unlinked, Inv, TypeOK
  <2> QED  BY <1>1, <2>1, <2>2, <2>3 DEF Inv, TypeOK
<1>8. RunsUnder'
  <2> SUFFICES ASSUME NEW i \in Jobs, jobs'[i].status = "running"
               PROVE  /\ jobs'[i].att \in Attempts /\ jobs'[i].lease # "none"
                      /\ attempts'[jobs'[i].att] =
                            [status |-> "running", job |-> i, worker |-> jobs'[i].worker]
    BY DEF RunsUnder
  <2>1. i \notin S /\ jobs'[i] = jobs[i]
    BY <1>1, <1>4
  <2>2. /\ jobs[i].att \in Attempts /\ jobs[i].lease # "none"
        /\ attempts[jobs[i].att] = [status |-> "running", job |-> i, worker |-> jobs[i].worker]
    BY <2>1 DEF Inv, RunsUnder
  <2>3. attempts[jobs[i].att].job = i
    BY <2>2
  <2>4. attempts'[jobs[i].att] = attempts[jobs[i].att]
    BY <1>1, <2>1, <2>2, <2>3
  <2> QED  BY <2>1, <2>2, <2>4
<1>9. Current'
  <2> SUFFICES ASSUME NEW a \in Attempts
               PROVE  /\ attempts'[a].status \notin {"absent", "deleted"} =>
                            attempts'[a].job \in Jobs
                      /\ attempts'[a].status = "running" => jobs'[attempts'[a].job].att = a
    BY DEF Current
  <2>1. CASE attempts[a].job \in S
    BY <1>1, <1>3, <2>1
  <2>2. CASE attempts[a].job \notin S
    <3>1. attempts'[a] = attempts[a]
      BY <1>1, <2>2
    <3> QED  BY <1>1, <2>2, <3>1 DEF Inv, Current
  <2> QED  BY <2>1, <2>2
<1>10. Steps
  <2>1. \A a \in Attempts : attempts'[a] = attempts[a] \/ attempts'[a].status = "deleted"
    BY <1>1, <1>3
  <2> QED  BY <1>6, <2>1 DEF Steps, RowMoves, AttemptStep
<1> QED  BY <1>6, <1>7, <1>8, <1>9, <1>10 DEF Inv, RowMoves

LEMMA DueStep ==
    ASSUME Inv, NEW j \in Jobs, jobs[j].status \in {"blocked", "queued"},
           jobs' = [jobs EXCEPT ![j].due = TRUE],
           UNCHANGED <<attempts, deps, limits, settledBy, needs>>
    PROVE  Inv' /\ Steps
<1> DEFINE e == [jobs[j] EXCEPT !.due = TRUE]
<1>1. jobs[j] \in JobRow /\ RowOK(jobs[j])
  BY DEF Inv, TypeOK
<1>2. RowMoves(jobs[j], e) /\ e.status = jobs[j].status
  BY <1>1, DueMoves
<1>3. jobs' = [jobs EXCEPT ![j] = e]
  OBVIOUS
<1> HIDE DEF e
<1> QED  BY <1>2, <1>3, OneRowStep DEF Inv, TypeOK

LEMMA LeaseStep ==
    ASSUME Inv, NEW j \in Jobs, LeaseRunsOut(j)
    PROVE  Inv' /\ Steps
<1> DEFINE r == jobs[j]
           e == [r EXCEPT !.lease = "expired"]
<1>1. r \in JobRow /\ RowOK(r)
  BY DEF Inv, TypeOK
<1>2. r.status = "running"
  BY <1>1 DEF RowOK, Free, LeaseRunsOut
<1>3. /\ RowMoves(r, e) /\ e.status = "running" /\ e.att = r.att /\ e.worker = r.worker
      /\ e.lease = "expired"
  BY <1>1, <1>2, LeaseMoves
<1>4. jobs' = [jobs EXCEPT ![j] = e] /\ UNCHANGED <<attempts, deps, limits, settledBy, needs>>
  BY DEF LeaseRunsOut
<1> HIDE DEF e
<1> QED  BY <1>2, <1>3, <1>4, OneRowStep DEF Inv, TypeOK

LEMMA TtlStep ==
    ASSUME Inv, NEW j \in Jobs, TtlRunsOut(j)
    PROVE  Inv' /\ Steps
<1> DEFINE r == jobs[j]
           e == [r EXCEPT !.ttl = "expired"]
<1>1. r \in JobRow /\ RowOK(r)
  BY DEF Inv, TypeOK
<1>2. r.status \in Active \cup {"failed"}
  BY DEF TtlRunsOut
<1>3. /\ RowMoves(r, e) /\ e.status = r.status /\ e.att = r.att
      /\ e.worker = r.worker /\ e.lease = r.lease
  BY <1>1, <1>2, TtlMoves
<1>4. jobs' = [jobs EXCEPT ![j] = e] /\ UNCHANGED <<attempts, deps, limits, settledBy, needs>>
  BY DEF TtlRunsOut
<1>5. r.status = "running" => r.lease # "none"
  BY DEF Inv, RunsUnder
<1> HIDE DEF e
<1> QED  BY <1>3, <1>4, <1>5, OneRowStep DEF Inv, TypeOK

----------------------------------------------------------------------------
(* The invariant is inductive, and every step is one Steps allows *)

LEMMA InitInv == Init => Inv
<1> SUFFICES ASSUME Init PROVE Inv
  OBVIOUS
<1>1. \A j \in Jobs : jobs[j] = NoJob
  BY DEF Init
<1>2. RowOK(NoJob)
  <2>1. /\ Free(NoJob) /\ NoJob.status = "absent" /\ NoJob.outcome = None
        /\ NoJob.failures = 0 /\ NoJob.streak = 0 /\ NoJob.max = 0
    BY DEF NoJob, Free
  <2>2. None \notin {"retry_exhausted", "poison"} /\ PoisonLimit \in Nat
    BY NullAssumption, ConstantsAssumption DEF Outcomes
  <2> QED  BY <2>1, <2>2 DEF RowOK, Active
<1>3. NoAttempt \in AttemptRow /\ NoAttempt.status = "absent"
  BY DEF NoAttempt, AttemptRow
<1>4. NoJob.status = "absent"
  BY DEF NoJob
<1>5. TypeOK
  <2>1. jobs \in [Jobs -> JobRow]
    BY NoJobRow DEF Init
  <2>2. attempts \in [Attempts -> AttemptRow]
    BY <1>3 DEF Init
  <2> QED  BY <2>1, <2>2 DEF Init, TypeOK
<1>6. RunsUnder
  BY <1>1, <1>4 DEF RunsUnder
<1>7. Current
  BY <1>3 DEF Init, Current
<1> QED  BY <1>1, <1>2, <1>5, <1>6, <1>7 DEF Inv

LEMMA NextInv == Inv /\ [Next]_vars => Inv' /\ (Steps \/ UNCHANGED vars)
<1> SUFFICES ASSUME Inv, [Next]_vars PROVE Inv' /\ (Steps \/ UNCHANGED vars)
  OBVIOUS
<1>1. CASE Producer
  BY <1>1, EnqueueStep DEF Producer
<1>2. CASE Runner
  BY <1>2, ClaimStep, HeartbeatStep, CompleteStep, FailStep, SnoozeStep, ReleaseStep,
     CancelRunningStep, ConstantsAssumption DEF Runner
<1>3. CASE Operator
  <2>1. ASSUME NEW j \in Jobs, expire_job(j) PROVE Inv' /\ Steps
    BY <2>1, ReapStep DEF expire_job
  <2>2. ASSUME NEW j \in Jobs, run_now(j) PROVE Inv' /\ Steps
    BY <2>2, DueStep DEF run_now
  <2>3. ASSUME NEW w \in Workers, expire_worker_leases(w) PROVE Inv' /\ Steps
    <3> DEFINE S == {j \in Jobs : jobs[j].status = "running" /\ jobs[j].worker = w}
    <3>1. Reap(S)
      BY <2>3 DEF expire_worker_leases
    <3> QED  BY <3>1, ReapStep
  <2>4. ASSUME NEW S \in SUBSET Jobs, purge_queued(S) PROVE Inv' /\ Steps
    BY <2>4, CancelWaitingStep DEF purge_queued
  <2> QED  BY <1>3, <2>1, <2>2, <2>3, <2>4, CancelJobStep, RedriveStep, LimitStep DEF Operator
<1>4. CASE Housekeeper
  <2>1. ASSUME NEW S \in SUBSET Jobs, reap_expired(S) PROVE Inv' /\ Steps
    BY <2>1, ReapStep DEF reap_expired
  <2>2. ASSUME NEW S \in SUBSET Jobs, expire_ttl(S) PROVE Inv' /\ Steps
    BY <2>2, CancelWaitingStep DEF expire_ttl
  <2> QED  BY <1>4, <2>1, <2>2, AdvanceStep, StragglerStep, JanitorStep DEF Housekeeper
<1>5. CASE Time
  <2>1. ASSUME NEW j \in Jobs, BecomesDue(j) PROVE Inv' /\ Steps
    BY <2>1, DueStep DEF BecomesDue
  <2> QED  BY <1>5, <2>1, LeaseStep, TtlStep DEF Time
<1>6. CASE UNCHANGED vars
  BY <1>6 DEF vars, Inv, TypeOK, RunsUnder, Current
<1> QED  BY <1>1, <1>2, <1>3, <1>4, <1>5, <1>6 DEF Next

----------------------------------------------------------------------------
(* Theorems *)

\* Inv holds in every reachable state.
THEOREM InvHolds == Spec => []Inv
<1>1. Init => Inv
  BY InitInv
<1>2. Inv /\ [Next]_vars => Inv'
  BY NextInv
<1> QED  BY <1>1, <1>2, PTL DEF Spec

\* The tables hold rows of their types: no column of jobs or job_attempts is
\* ever given a value its constraints do not allow.
THEOREM TypesCorrect == Spec => []TypeOK
<1>1. Inv => TypeOK
  BY DEF Inv
<1> QED  BY <1>1, InvHolds, PTL

\* The attempt ledger and the job rows agree whatever calls are late, lost or
\* repeated: the fence (status = running and current_attempt_id = the caller's)
\* is enough to keep one running attempt per running job.
THEOREM LedgerCorrect == Spec => []LedgerAgrees
<1>1. Inv => LedgerAgrees
  <2> SUFFICES ASSUME Inv PROVE LedgerAgrees
    OBVIOUS
  <2>1. \A j \in Jobs : jobs[j].status # "running" =>
           jobs[j].att = None /\ jobs[j].worker = None /\ jobs[j].lease = "none"
    BY DEF Inv, RowOK, Free
  <2>2. \A a \in Attempts : attempts[a].status = "running" =>
           attempts[a].job \in Jobs /\ jobs[attempts[a].job].att = a
    BY DEF Inv, Current
  <2> QED  BY <2>1, <2>2 DEF Inv, RunsUnder, LedgerAgrees
<1> QED  BY <1>1, InvHolds, PTL

\* Retries, reaps and redrives never exceed the budget or the poison limit.
THEOREM BudgetCorrect == Spec => []BudgetBound
<1>1. Inv => BudgetBound
  BY DEF Inv, RowOK, BudgetBound
<1> QED  BY <1>1, InvHolds, PTL

\* No waiting row carries a cancel request: every path that puts a row back in
\* the queue looks at the request first.
THEOREM NeverParked == Spec => []NoParkedCancel
<1>1. Inv => NoParkedCancel
  BY DEF Inv, RowOK, NoParkedCancel
<1> QED  BY <1>1, InvHolds, PTL

\* No call and no reaper rewrites a settled attempt.
THEOREM SettledStay == Spec => SettledFrozen
<1>1. Inv /\ [Next]_vars =>
        [\A a \in Attempts : attempts[a].status \in Settled =>
            attempts'[a] = attempts[a] \/ attempts'[a].status = "deleted"]_vars
  BY NextInv DEF Steps
<1> QED  BY <1>1, InvHolds, PTL DEF Spec, SettledFrozen

\* A cancel request on a running job is honoured or overtaken by success.
THEOREM CancelHonoured == Spec => CancelSticks
<1>1. Inv /\ [Next]_vars =>
        [\A j \in Jobs : jobs[j].status = "running" /\ jobs[j].cancel =>
            \/ jobs'[j].status = "running" /\ jobs'[j].att = jobs[j].att /\ jobs'[j].cancel
            \/ jobs'[j].status \in {"succeeded", "cancelled"}]_vars
  BY NextInv DEF Steps, RowStep
<1> QED  BY <1>1, InvHolds, PTL DEF Spec, CancelSticks

\* Succeeded and cancelled jobs are never touched again but by retention, and
\* failed ones only by a redrive outside workflows.
THEOREM FinalStays == Spec => TerminalFinal
<1>1. Inv /\ [Next]_vars =>
        [\A j \in Jobs :
            /\ jobs[j].status \in {"succeeded", "cancelled"} =>
                  jobs'[j] = jobs[j] \/ jobs'[j].status = "deleted"
            /\ jobs[j].status = "failed" =>
                  \/ jobs'[j].status \in {"failed", "deleted"}
                  \/ jobs'[j].status = "queued" /\ jobs[j].wf = None]_vars
  BY NextInv DEF Steps, RowStep
<1> QED  BY <1>1, InvHolds, PTL DEF Spec, TerminalFinal

----------------------------------------------------------------------------
(* Replies *)

\* The statuses the call that ended an attempt may leave it with.
Leaves(v) ==
    CASE v = "complete" -> {"succeeded"}
      [] v = "fail"     -> {"failed", "cancelled"}
      [] v = "snooze"   -> {"snoozed", "cancelled"}
      [] v = "release"  -> {"released", "cancelled"}
      [] v = "cancel"   -> {"cancelled"}
      [] v = "reap"     -> {"expired"}
      [] OTHER          -> {"absent", "running"}

\* The ledger and the history agree: an attempt no call ended is running or not
\* there yet, and the status of any other is one its call leaves.
Recorded ==
    \A a \in Attempts : attempts[a].status # "deleted" =>
        attempts[a].status \in Leaves(settledBy[a])

LEMMA LeavesFacts ==
    /\ Leaves(None) = {"absent", "running"}
    /\ \A v \in Verbs \cup {"reap"} : Leaves(v) \subseteq Settled
    /\ Leaves("complete") = {"succeeded"} /\ Leaves("fail") = {"failed", "cancelled"}
    /\ Leaves("snooze") = {"snoozed", "cancelled"} /\ Leaves("release") = {"released", "cancelled"}
    /\ Leaves("cancel") = {"cancelled"} /\ Leaves("reap") = {"expired"}
<1>1. None \notin Verbs \cup {"reap"}
  BY NullAssumption
<1>2. Leaves(None) = {"absent", "running"}
  BY <1>1 DEF Leaves, Verbs
<1>3. /\ Leaves("complete") = {"succeeded"} /\ Leaves("fail") = {"failed", "cancelled"}
      /\ Leaves("snooze") = {"snoozed", "cancelled"} /\ Leaves("release") = {"released", "cancelled"}
      /\ Leaves("cancel") = {"cancelled"} /\ Leaves("reap") = {"expired"}
  BY DEF Leaves
<1> QED  BY <1>2, <1>3 DEF Verbs, Settled

\* One attempt is ended by verb v and the others stay.
LEMMA RecordedEnds ==
    ASSUME Inv, Recorded, NEW a \in Attempts, NEW v \in Verbs, NEW s \in Leaves(v),
           attempts' = [attempts EXCEPT ![a].status = s],
           settledBy' = [settledBy EXCEPT ![a] = v]
    PROVE  Recorded'
<1>1. attempts'[a] = [attempts[a] EXCEPT !.status = s] /\ settledBy'[a] = v
  BY DEF Inv, TypeOK
<1>2. attempts'[a].status = s
  BY <1>1 DEF Inv, TypeOK, AttemptRow
<1>3. \A b \in Attempts \ {a} : attempts'[b] = attempts[b] /\ settledBy'[b] = settledBy[b]
  BY DEF Inv, TypeOK
<1> QED  BY <1>1, <1>2, <1>3 DEF Recorded

LEMMA RecordedReap ==
    ASSUME Inv, Recorded, NEW S \in SUBSET Jobs, Reap(S)
    PROVE  Recorded'
<1> DEFINE ended == {a \in Attempts : /\ attempts[a].status = "running"
                                      /\ \E j \in S : jobs[j].att = a}
<1>1. /\ attempts' = [a \in Attempts |->
                        IF a \in ended THEN [attempts[a] EXCEPT !.status = "expired"]
                        ELSE attempts[a]]
      /\ settledBy' = [a \in Attempts |-> IF a \in ended THEN "reap" ELSE settledBy[a]]
  BY DEF Reap
<1>2. \A a \in Attempts : attempts[a] \in AttemptRow
  BY DEF Inv, TypeOK
<1> HIDE DEF ended
<1>3. \A a \in Attempts : IF a \in ended
                            THEN attempts'[a].status = "expired" /\ settledBy'[a] = "reap"
                            ELSE attempts'[a] = attempts[a] /\ settledBy'[a] = settledBy[a]
  BY <1>1, <1>2 DEF AttemptRow
<1> QED  BY <1>3, LeavesFacts DEF Recorded

LEMMA RecordedStep == Inv /\ Recorded /\ [Next]_vars => Recorded'
<1> SUFFICES ASSUME Inv, Recorded, [Next]_vars PROVE Recorded'
  OBVIOUS
<1>1. ASSUME attempts' = attempts, settledBy' = settledBy PROVE Recorded'
  BY <1>1 DEF Recorded
<1>2. CASE Producer
  BY <1>1, <1>2 DEF Producer, enqueue
<1>3. CASE Runner
  <2>1. ASSUME NEW j \in Jobs, NEW w \in Workers, NEW a \in Attempts, claim_jobs(j, w, a)
        PROVE  Recorded'
    <3> DEFINE x == [status |-> "running", job |-> j, worker |-> w]
    <3>1. /\ attempts[a].status = "absent" /\ attempts' = [attempts EXCEPT ![a] = x]
          /\ settledBy' = settledBy
      BY <2>1 DEF claim_jobs
    <3>2. x.status = "running"
      OBVIOUS
    <3>3. /\ attempts'[a] = x /\ \A b \in Attempts \ {a} : attempts'[b] = attempts[b]
      BY <3>1 DEF Inv, TypeOK
    <3>4. settledBy[a] = None
      <4>1. attempts[a].status \in Leaves(settledBy[a]) /\ attempts[a].status \notin Settled
        BY <3>1 DEF Recorded, Settled
      <4>2. settledBy[a] \in Verbs \cup {"reap", None}
        BY DEF Inv, TypeOK
      <4> QED  BY <4>1, <4>2, LeavesFacts
    <3> HIDE DEF x
    <3> QED  BY <3>1, <3>2, <3>3, <3>4, LeavesFacts DEF Recorded
  <2>2. ASSUME NEW a \in Attempts, heartbeat(a) PROVE Recorded'
    BY <1>1, <2>2 DEF heartbeat
  <2>3. ASSUME NEW a \in Attempts, NEW F \in SUBSET Jobs, NEW M \in SUBSET F,
               NEW due \in BOOLEAN, NEW max \in Budgets, complete_job(a, F, M, due, max)
        PROVE  Recorded'
    <3>1. /\ attempts' = [attempts EXCEPT ![a].status = "succeeded"]
          /\ settledBy' = [settledBy EXCEPT ![a] = "complete"]
      BY <2>3 DEF complete_job
    <3>2. "complete" \in Verbs /\ "succeeded" \in Leaves("complete")
      BY LeavesFacts DEF Verbs
    <3> QED  BY <3>1, <3>2, RecordedEnds
  <2>4. ASSUME NEW a \in Attempts, NEW v \in Verbs, NEW s \in Leaves(v), NEW row,
               Settle(a, v, s, row)
        PROVE  Recorded'
    <3>1. /\ attempts' = [attempts EXCEPT ![a].status = s]
          /\ settledBy' = [settledBy EXCEPT ![a] = v]
      BY <2>4 DEF Settle
    <3> QED  BY <3>1, RecordedEnds
  <2>5. ASSUME NEW a \in Attempts, NEW retryable \in BOOLEAN, NEW due \in BOOLEAN,
               fail_job(a, retryable, due)
        PROVE  Recorded'
    <3>1. "fail" \in Verbs /\ "failed" \in Leaves("fail") /\ "cancelled" \in Leaves("fail")
      BY LeavesFacts DEF Verbs
    <3>2. \E s \in Leaves("fail") : \E row : Settle(a, "fail", s, row)
      BY <2>5, <3>1 DEF fail_job
    <3> QED  BY <2>4, <3>1, <3>2
  <2>6. ASSUME NEW a \in Attempts, NEW due \in BOOLEAN, snooze_job(a, due)
        PROVE  Recorded'
    <3>1. "snooze" \in Verbs /\ "snoozed" \in Leaves("snooze") /\ "cancelled" \in Leaves("snooze")
      BY LeavesFacts DEF Verbs
    <3>2. \E s \in Leaves("snooze") : \E row : Settle(a, "snooze", s, row)
      BY <2>6, <3>1 DEF snooze_job
    <3> QED  BY <2>4, <3>1, <3>2
  <2>7. ASSUME NEW a \in Attempts, NEW due \in BOOLEAN, release_job(a, due)
        PROVE  Recorded'
    <3>1. "release" \in Verbs /\ "released" \in Leaves("release") /\ "cancelled" \in Leaves("release")
      BY LeavesFacts DEF Verbs
    <3>2. \E s \in Leaves("release") : \E row : Settle(a, "release", s, row)
      BY <2>7, <3>1 DEF release_job
    <3> QED  BY <2>4, <3>1, <3>2
  <2>8. ASSUME NEW a \in Attempts, cancel_running_job(a) PROVE Recorded'
    <3>1. "cancel" \in Verbs /\ "cancelled" \in Leaves("cancel")
      BY LeavesFacts DEF Verbs
    <3> QED  BY <2>4, <2>8, <3>1 DEF cancel_running_job
  <2> QED  BY <1>3, <2>1, <2>2, <2>3, <2>5, <2>6, <2>7, <2>8 DEF Runner
<1>4. CASE Operator
  <2>1. ASSUME NEW j \in Jobs, expire_job(j) PROVE Recorded'
    BY <2>1, RecordedReap DEF expire_job
  <2>2. ASSUME NEW w \in Workers, expire_worker_leases(w) PROVE Recorded'
    <3> DEFINE S == {j \in Jobs : jobs[j].status = "running" /\ jobs[j].worker = w}
    <3>1. Reap(S)
      BY <2>2 DEF expire_worker_leases
    <3> QED  BY <3>1, RecordedReap
  <2>3. ASSUME NEW j \in Jobs, NEW due \in BOOLEAN, cancel_job(j) \/ run_now(j) \/ redrive_job(j, due)
        PROVE  Recorded'
    BY <1>1, <2>3 DEF cancel_job, CancelWaiting, run_now, redrive_job
  <2>4. ASSUME NEW S \in SUBSET Jobs, purge_queued(S) PROVE Recorded'
    BY <1>1, <2>4 DEF purge_queued, CancelWaiting
  <2>5. ASSUME NEW ck \in ConcKeys, NEW n \in Caps, set_concurrency_limit(ck, n) PROVE Recorded'
    BY <1>1, <2>5 DEF set_concurrency_limit
  <2> QED  BY <1>4, <2>1, <2>2, <2>3, <2>4, <2>5 DEF Operator
<1>5. CASE Housekeeper
  <2>1. ASSUME NEW S \in SUBSET Jobs, reap_expired(S) PROVE Recorded'
    BY <2>1, RecordedReap DEF reap_expired
  <2>2. ASSUME NEW S \in SUBSET Jobs, expire_ttl(S) \/ advance_workflow_cancellations(Workflows, S)
        PROVE  Recorded'
    BY <1>1, <2>2 DEF expire_ttl, CancelWaiting, advance_workflow_cancellations
  <2>3. ASSUME NEW c \in Jobs, NEW p \in Jobs, finalize_dep_stragglers(c, p) PROVE Recorded'
    BY <1>1, <2>3 DEF finalize_dep_stragglers
  <2>4. ASSUME NEW S \in SUBSET Jobs, janitor(S) PROVE Recorded'
    <3> DEFINE dead == [NoAttempt EXCEPT !.status = "deleted"]
    <3>1. /\ attempts' = [a \in Attempts |-> IF attempts[a].job \in S THEN dead ELSE attempts[a]]
          /\ settledBy' = settledBy
      BY <2>4 DEF janitor
    <3>2. dead.status = "deleted"
      BY DEF NoAttempt
    <3> HIDE DEF dead
    <3> QED  BY <3>1, <3>2 DEF Recorded
  <2> QED  BY <1>5, <2>1, <2>2, <2>3, <2>4 DEF Housekeeper
<1>6. CASE Time
  BY <1>1, <1>6 DEF Time, LeaseRunsOut, BecomesDue, TtlRunsOut
<1>7. CASE UNCHANGED vars
  BY <1>1, <1>7 DEF vars
<1> QED  BY <1>2, <1>3, <1>4, <1>5, <1>6, <1>7 DEF Next

\* For any number of jobs, attempts and workers, a settlement that is repeated,
\* late or beaten by the reaper is answered from the ledger with what happened.
THEOREM RepliesHonest == Spec => []ReplayHonest
<1>1. Init => Recorded
  BY LeavesFacts DEF Init, NoAttempt, Recorded
<1>2. Inv /\ Recorded => ReplayHonest
  <2> SUFFICES ASSUME Inv, Recorded, NEW a \in Attempts, settledBy[a] # None,
                      attempts[a].status # "deleted"
               PROVE  /\ \A v \in Verbs :
                            /\ Reply(v, a) \in {"already_settled", "settle_conflict"}
                            /\ Reply(v, a) = "already_settled" =>
                                 \/ settledBy[a] = v
                                 \/ v = "cancel" /\ settledBy[a] \in {"fail", "snooze", "release"}
                      /\ settledBy[a] = "complete" => Reply("complete", a) = "already_settled"
    BY DEF ReplayHonest
  <2> DEFINE own == [complete |-> "succeeded", fail |-> "failed", snooze |-> "snoozed",
                     release |-> "released", cancel |-> "cancelled"]
  <2>1. settledBy[a] \in Verbs \cup {"reap"}
    BY DEF Inv, TypeOK
  <2>2. attempts[a].status \in Leaves(settledBy[a]) /\ attempts[a].status \in Settled
    BY <2>1, LeavesFacts DEF Recorded
  <2>3. ~Fenced(a)
    BY <2>2, FenceFacts DEF Settled
  <2>4. \A v \in Verbs : Reply(v, a) = IF attempts[a].status = own[v] THEN "already_settled"
                                      ELSE "settle_conflict"
    BY <2>2, <2>3 DEF Reply
  <2>5. ASSUME NEW v \in Verbs, attempts[a].status = own[v]
        PROVE  \/ settledBy[a] = v
               \/ v = "cancel" /\ settledBy[a] \in {"fail", "snooze", "release"}
    BY <2>1, <2>2, <2>5, LeavesFacts DEF Verbs
  <2>6. settledBy[a] = "complete" => attempts[a].status = own["complete"]
    BY <2>2, LeavesFacts
  <2>7. "complete" \in Verbs
    BY DEF Verbs
  <2> HIDE DEF own
  <2> QED  BY <2>4, <2>5, <2>6, <2>7
<1> QED  BY <1>1, <1>2, RecordedStep, InvHolds, PTL DEF Spec

----------------------------------------------------------------------------
(* Keys and dependencies *)

\* A row that starts (again) takes no key that another active row holds, and
\* nothing else moves with it.
Starts ==
    \A i \in Jobs : jobs[i].status \in {"absent", "failed"} /\ jobs'[i].status \in Active =>
       \/ jobs'[i].idem = None
       \/ ~KeyHeld(jobs'[i].idem) /\ \A k \in Jobs \ {i} : jobs'[k] = jobs[k]

LEMMA KeyStep ==
    ASSUME Inv, Steps, OneActivePerKey, Starts
    PROVE  OneActivePerKey'
<1> SUFFICES ASSUME NEW i \in Jobs, NEW j \in Jobs, i # j, jobs'[i].idem # None,
                    jobs'[i].idem = jobs'[j].idem, jobs'[i].status \in Active,
                    jobs'[j].status \in Active
             PROVE  FALSE
  BY DEF OneActivePerKey
<1>1. ASSUME NEW k \in Jobs, jobs'[k].status \in Active, jobs[k].status \notin {"absent", "failed"}
      PROVE  jobs[k].status \in Active /\ jobs[k].idem = jobs'[k].idem
  BY <1>1 DEF Steps, RowStep, StatusStep, Active, Terminal, Inv, TypeOK, JobRow, JobStatus
<1>2. ASSUME NEW k \in Jobs, NEW l \in Jobs, k # l, jobs'[k].idem = jobs'[l].idem,
             jobs'[k].idem # None, jobs'[k].status \in Active, jobs'[l].status \in Active,
             jobs[k].status \in {"absent", "failed"}
      PROVE  FALSE
  <2>1. ~KeyHeld(jobs'[k].idem) /\ jobs'[l] = jobs[l]
    BY <1>2 DEF Starts
  <2> QED  BY <1>2, <2>1 DEF KeyHeld
<1>3. CASE jobs[i].status \in {"absent", "failed"} \/ jobs[j].status \in {"absent", "failed"}
  BY <1>2, <1>3
<1>4. CASE jobs[i].status \notin {"absent", "failed"} /\ jobs[j].status \notin {"absent", "failed"}
  BY <1>1, <1>4 DEF OneActivePerKey
<1> QED  BY <1>3, <1>4

\* The jobs a dependent need not wait for any more, and those let run.
Met     == {"succeeded", "deleted"}
Started == {"queued", "running", "succeeded", "failed"}

EdgesOf(j) == {e \in deps : e[1] = j}

\* The edges of a job are what it still waits for, and pending_deps their number.
DepOK(j) ==
    /\ jobs[j].status = "blocked" =>
         /\ jobs[j].pending = Cardinality(EdgesOf(j))
         /\ \A p \in needs[j] : <<j, p>> \in deps \/ jobs[p].status \in Met
    /\ jobs[j].status \in Started =>
         /\ EdgesOf(j) = {}
         /\ \A p \in needs[j] : jobs[p].status \in Met
    /\ jobs[j].status = "absent" => EdgesOf(j) = {} /\ needs[j] = {}

DepInv == \A j \in Jobs : DepOK(j)

\* What a call does to a blocked job: cancels it, leaves it alone, or takes away
\* the edge to a parent that has succeeded and lets it run with the last one.
BlockedMove(i) ==
    \/ jobs'[i].status = "cancelled"
    \/ /\ jobs'[i].status = "blocked" /\ jobs'[i].pending = jobs[i].pending
       /\ EdgesOf(i) \subseteq deps'
    \/ \E p \in Jobs :
         /\ <<i, p>> \in deps /\ jobs'[p].status = "succeeded"
         /\ \A e \in EdgesOf(i) : e \in deps' <=> e # <<i, p>>
         /\ jobs'[i].pending = jobs[i].pending - 1
         /\ jobs'[i].status = IF jobs[i].pending = 1 THEN "queued" ELSE "blocked"

\* Every call but enqueue.
GraphStep ==
    /\ needs' = needs /\ deps' \subseteq deps
    /\ Starts
    /\ \A i \in Jobs : jobs[i].status = "absent" => jobs'[i].status # "blocked"
    /\ \A i \in Jobs : jobs[i].status = "blocked" => BlockedMove(i)

LEMMA EdgesFinite ==
    ASSUME TypeOK, NEW j \in Jobs
    PROVE  IsFiniteSet(EdgesOf(j)) /\ Cardinality(EdgesOf(j)) \in Nat
<1>1. IsFiniteSet(Jobs \X Jobs)
  BY FiniteAssumption, FS_Product
<1>2. EdgesOf(j) \subseteq Jobs \X Jobs
  BY DEF TypeOK, EdgesOf
<1> QED  BY <1>1, <1>2, FS_Subset, FS_CardinalityType

\* What a job's parent gave it stays given.
LEMMA MetStays ==
    ASSUME Steps, NEW p \in Jobs, jobs[p].status \in Met
    PROVE  jobs'[p].status \in Met
BY DEF Steps, RowStep, StatusStep, Met, Terminal

LEMMA DepStep ==
    ASSUME Inv, Inv', Steps, DepInv, GraphStep
    PROVE  DepInv'
<1> SUFFICES ASSUME NEW j \in Jobs PROVE DepOK(j)'
  BY DEF DepInv
<1>0. /\ jobs[j].status \in JobStatus /\ jobs'[j].status \in JobStatus
      /\ StatusStep(jobs[j].status, jobs'[j].status)
      /\ deps \subseteq Jobs \X Jobs /\ needs[j] \subseteq Jobs
      /\ needs' = needs /\ deps' \subseteq deps
      /\ DepOK(j)
  BY DEF Inv, TypeOK, JobRow, Steps, RowStep, DepInv, GraphStep
<1>1. EdgesOf(j)' \subseteq EdgesOf(j)
  BY <1>0 DEF EdgesOf
<1>2. \A p \in needs[j] : jobs[p].status \in Met => jobs'[p].status \in Met
  BY <1>0, MetStays
<1>3. CASE jobs[j].status = "absent"
  <2>1. jobs'[j].status \in {"absent", "queued"}
    <3>1. jobs'[j].status # "blocked"
      BY <1>3 DEF GraphStep
    <3> QED  BY <1>0, <1>3, <3>1 DEF StatusStep, Terminal
  <2> QED  BY <1>0, <1>1, <1>3, <2>1 DEF DepOK, Started
<1>4. CASE jobs[j].status \in Started
  <2>1. jobs'[j].status \in Started \cup {"cancelled", "deleted"}
    BY <1>0, <1>4 DEF StatusStep, Started, Terminal
  <2> QED  BY <1>0, <1>1, <1>2, <1>4, <2>1 DEF DepOK, Started
<1>5. CASE jobs[j].status \in {"cancelled", "deleted"}
  <2>1. jobs'[j].status \in {"cancelled", "deleted"}
    BY <1>0, <1>5 DEF StatusStep, Terminal
  <2> QED  BY <2>1 DEF DepOK, Started
<1>6. CASE jobs[j].status = "blocked"
  <2>0. /\ jobs[j].pending = Cardinality(EdgesOf(j))
        /\ \A p \in needs[j] : <<j, p>> \in deps \/ jobs[p].status \in Met
    BY <1>0, <1>6 DEF DepOK
  <2>1. CASE jobs'[j].status = "cancelled"
    BY <2>1 DEF DepOK, Started
  <2>2. CASE /\ jobs'[j].status = "blocked" /\ jobs'[j].pending = jobs[j].pending
             /\ EdgesOf(j) \subseteq deps'
    <3>1. EdgesOf(j)' = EdgesOf(j)
      BY <1>1, <2>2 DEF EdgesOf
    <3>2. \A p \in needs[j] : <<j, p>> \in deps' \/ jobs'[p].status \in Met
      BY <1>2, <2>0, <2>2 DEF EdgesOf
    <3> QED  BY <1>0, <2>0, <2>2, <3>1, <3>2 DEF DepOK, Started
  <2>3. ASSUME NEW p \in Jobs, <<j, p>> \in deps, jobs'[p].status = "succeeded",
               \A e \in EdgesOf(j) : e \in deps' <=> e # <<j, p>>,
               jobs'[j].pending = jobs[j].pending - 1,
               jobs'[j].status = IF jobs[j].pending = 1 THEN "queued" ELSE "blocked"
        PROVE  DepOK(j)'
    <3>1. <<j, p>> \in EdgesOf(j)
      BY <2>3 DEF EdgesOf
    <3>2. EdgesOf(j)' = EdgesOf(j) \ {<<j, p>>}
      BY <1>1, <2>3 DEF EdgesOf
    <3>3. IsFiniteSet(EdgesOf(j)) /\ Cardinality(EdgesOf(j)) \in Nat
      BY EdgesFinite DEF Inv
    <3>4. /\ IsFiniteSet(EdgesOf(j)')
          /\ Cardinality(EdgesOf(j)') = Cardinality(EdgesOf(j)) - 1
      <4> DEFINE E == EdgesOf(j)
                 x == <<j, p>>
      <4>1. x \in E /\ IsFiniteSet(E) /\ EdgesOf(j)' = E \ {x}
        BY <3>1, <3>2, <3>3
      <4> HIDE DEF E, x
      <4>2. IsFiniteSet(E \ {x}) /\ Cardinality(E \ {x}) = Cardinality(E) - 1
        BY <4>1, FS_RemoveElement
      <4> QED  BY <4>1, <4>2 DEF E
    <3>5. \A q \in needs[j] : <<j, q>> \in deps' \/ jobs'[q].status \in Met
      <4>1. SUFFICES ASSUME NEW q \in needs[j], jobs'[q].status \notin Met
                     PROVE  <<j, q>> \in deps'
        OBVIOUS
      <4>2. <<j, q>> \in deps /\ q # p
        BY <1>2, <2>0, <2>3, <4>1 DEF Met
      <4>3. <<j, q>> \in EdgesOf(j) /\ <<j, q>> # <<j, p>>
        BY <4>2 DEF EdgesOf
      <4> QED  BY <2>3, <4>3
    <3>6. CASE jobs[j].pending = 1
      <4>1. EdgesOf(j)' = {}
        <5>1. PICK E : E = EdgesOf(j)'
          OBVIOUS
        <5>2. IsFiniteSet(E) /\ Cardinality(E) = 0
          BY <2>0, <3>4, <3>6, <5>1
        <5>3. E = {}
          BY <5>2, FS_EmptySet
        <5> QED  BY <5>1, <5>3
      <4>2. \A q \in needs[j] : jobs'[q].status \in Met
        <5>1. \A q : <<j, q>> \in deps' => <<j, q>> \in EdgesOf(j)'
          BY DEF EdgesOf
        <5>2. \A q : <<j, q>> \notin deps'
          BY <4>1, <5>1
        <5> QED  BY <3>5, <5>2
      <4>3. jobs'[j].status = "queued"
        BY <2>3, <3>6
      <4> QED  BY <1>0, <4>1, <4>2, <4>3 DEF DepOK, Started
    <3>7. CASE jobs[j].pending # 1
      <4>1. jobs'[j].status = "blocked" /\ jobs'[j].pending = Cardinality(EdgesOf(j)')
        BY <2>0, <2>3, <3>4, <3>7
      <4> QED  BY <1>0, <3>5, <4>1 DEF DepOK, Started
    <3> QED  BY <3>6, <3>7
  <2>4. BlockedMove(j)
    BY <1>6 DEF GraphStep
  <2> QED  BY <2>1, <2>2, <2>3, <2>4 DEF BlockedMove
<1> QED  BY <1>0, <1>3, <1>4, <1>5, <1>6 DEF JobStatus, Active, Terminal, Started

\* An update of the rows U, none of them waiting afterwards but those that ran,
\* with the cancels its events cause.
LEMMA CascadeGraph ==
    ASSUME Inv, NEW U \in SUBSET Jobs, NEW upd, DOMAIN upd = U,
           \A i \in U : /\ jobs[i].status \in {"blocked", "queued", "running"}
                        /\ jobs[i].status # "running" => upd[i].status = "cancelled",
           NEW K \in SUBSET Casualties(upd), jobs' = Cascaded(upd, K),
           NEW W, K \subseteq W, W \subseteq K \cup U, deps' = Unlinked(W), needs' = needs
    PROVE  GraphStep
<1>1. \A i \in Jobs : jobs'[i] = IF i \in U THEN upd[i]
                                 ELSE IF i \in K THEN DepCancelled(jobs[i]) ELSE jobs[i]
  BY DEF Cascaded
<1>2. \A i \in K : i \in Jobs /\ jobs[i].status = "blocked"
  BY DEF Casualties, Dependents
<1>3. \A i \in Jobs : jobs[i] \in JobRow /\ RowOK(jobs[i])
  BY DEF Inv, TypeOK
<1>4. \A i \in Jobs : jobs[i].status \in {"absent", "failed"} => jobs'[i] = jobs[i]
  BY <1>1, <1>2
<1>5. Starts
  BY <1>4 DEF Starts, Active
<1>6. ASSUME NEW i \in Jobs, jobs[i].status = "blocked" PROVE BlockedMove(i)
  <2>1. CASE i \in U
    BY <1>1, <1>6, <2>1 DEF BlockedMove
  <2>2. CASE i \notin U /\ i \in K
    <3>1. jobs'[i] = DepCancelled(jobs[i])
      BY <1>1, <2>2
    <3> QED  BY <1>3, <1>6, <3>1, DepCancelledMoves DEF BlockedMove
  <2>3. CASE i \notin U /\ i \notin K
    <3>1. jobs'[i] = jobs[i]
      BY <1>1, <2>3
    <3>2. EdgesOf(i) \subseteq deps'
      BY <2>3 DEF EdgesOf, Unlinked
    <3> QED  BY <1>6, <3>1, <3>2 DEF BlockedMove
  <2> QED  BY <2>1, <2>2, <2>3
<1>7. deps' \subseteq deps
  BY DEF Unlinked
<1> QED  BY <1>4, <1>5, <1>6, <1>7 DEF GraphStep

\* A row that does not wait for others changes, or one that does keeps its count.
LEMMA OneRowGraph ==
    ASSUME Inv, NEW j \in Jobs, NEW e, jobs' = [jobs EXCEPT ![j] = e], deps' = deps, needs' = needs,
           jobs[j].status # "absent",
           jobs[j].status = "failed" => e.status \notin Active \/ ~KeyHeld(e.idem),
           jobs[j].status = "blocked" => e.status = "blocked" /\ e.pending = jobs[j].pending
    PROVE  GraphStep
<1>1. jobs'[j] = e /\ \A i \in Jobs \ {j} : jobs'[i] = jobs[i]
  BY DEF Inv, TypeOK
<1>2. Starts
  BY <1>1 DEF Starts, Active
<1>3. \A i \in Jobs : jobs[i].status = "absent" => jobs'[i].status # "blocked"
  BY <1>1
<1>4. ASSUME NEW i \in Jobs, jobs[i].status = "blocked" PROVE BlockedMove(i)
  <2>1. jobs'[i].status = "blocked" /\ jobs'[i].pending = jobs[i].pending
    BY <1>1, <1>4
  <2>2. EdgesOf(i) \subseteq deps'
    BY DEF EdgesOf
  <2> QED  BY <2>1, <2>2 DEF BlockedMove
<1> QED  BY <1>2, <1>3, <1>4 DEF GraphStep

LEMMA SettleGraph ==
    ASSUME Inv, NEW a \in Attempts, Fenced(a), NEW v, NEW s, NEW row, Settle(a, v, s, row)
    PROVE  GraphStep
<1> DEFINE j == attempts[a].job
           upd == [i \in {j} |-> row]
<1>1. j \in Jobs /\ jobs[j].status = "running"
  BY FenceFacts
<1>2. PICK K \in SUBSET Casualties(upd) : jobs' = Cascaded(upd, K) /\ deps' = Unlinked(K)
  BY DEF Settle
<1>3. needs' = needs /\ DOMAIN upd = {j} /\ {j} \in SUBSET Jobs
  BY <1>1 DEF Settle
<1> HIDE DEF upd
<1> QED  BY <1>1, <1>2, <1>3, CascadeGraph

LEMMA ReapGraph ==
    ASSUME Inv, NEW S \in SUBSET Jobs, \A j \in S : jobs[j].status = "running", Reap(S)
    PROVE  GraphStep
<1> DEFINE upd == [i \in S |-> Reaped(jobs[i])]
<1>1. PICK K \in SUBSET Casualties(upd) : jobs' = Cascaded(upd, K) /\ deps' = Unlinked(K)
  BY DEF Reap
<1>2. needs' = needs /\ DOMAIN upd = S
  BY DEF Reap
<1> HIDE DEF upd
<1> QED  BY <1>1, <1>2, CascadeGraph

LEMMA CancelWaitingGraph ==
    ASSUME Inv, NEW S \in SUBSET Jobs, \A j \in S : jobs[j].status \in {"blocked", "queued"},
           NEW why \in {"canceled", "expired_ttl"}, NEW V \in SUBSET S, CancelWaiting(S, why, V)
    PROVE  GraphStep
<1> DEFINE upd == [i \in S |-> CancelledWaiting(jobs[i], why)]
<1>1. PICK K \in SUBSET Casualties(upd) : jobs' = Cascaded(upd, K) /\ deps' = Unlinked(K \cup V)
  BY DEF CancelWaiting
<1>2. needs' = needs /\ DOMAIN upd = S
  BY DEF CancelWaiting
<1>3. \A i \in S : upd[i].status = "cancelled"
  <2> SUFFICES ASSUME NEW i \in S PROVE CancelledWaiting(jobs[i], why).status = "cancelled"
    OBVIOUS
  <2>1. jobs[i] \in JobRow /\ RowOK(jobs[i])
    BY DEF Inv, TypeOK
  <2> QED  BY <2>1, CancelledWaitingMoves
<1>4. K \subseteq K \cup V /\ K \cup V \subseteq K \cup S
  OBVIOUS
<1> HIDE DEF upd
<1> QED  BY <1>1, <1>2, <1>3, <1>4, CascadeGraph

\* complete_job: the children it promotes lose the edge to it, the followups wait
\* for nothing and have no key.
LEMMA CompleteGraph ==
    ASSUME Inv, NEW a \in Attempts, NEW F \in SUBSET Jobs, NEW M \in SUBSET F,
           NEW due, NEW max, complete_job(a, F, M, due, max)
    PROVE  GraphStep
<1> DEFINE j    == attempts[a].job
           r    == jobs[j]
           done == Finished(Unstreaked(r, r.due), "succeeded", "success", a)
           Followup(i) == NewJob("queued", None, None, IF i \in M THEN r.wf ELSE None,
                                 j, 0, due, "none", max)
<1>1. j \in Jobs /\ r \in JobRow /\ r.status = "running" /\ r.due \in BOOLEAN
  BY FenceFacts DEF complete_job, JobRow
<1>2. \A f \in F : jobs[f].status = "absent"
  BY DEF complete_job
<1>3. PICK K \in SUBSET Dependents({j}) :
         /\ jobs' = [i \in Jobs |-> IF i = j THEN done
                                    ELSE IF i \in K THEN Promoted(jobs[i])
                                    ELSE IF i \in F THEN Followup(i)
                                    ELSE jobs[i]]
         /\ deps' = deps \ (K \X {j})
  BY DEF complete_job
<1>4. done.status = "succeeded"
  <2>1. Unstreaked(r, r.due) \in JobRow
    BY <1>1, UnstreakedRow
  <2>2. "succeeded" \in Terminal /\ "success" \in Outcomes
    BY DEF Terminal, Outcomes
  <2> QED  BY <2>1, <2>2, FinishedRow
<1>5. \A i : Followup(i).status = "queued" /\ Followup(i).idem = None
  BY DEF NewJob, NoJob
<1>6. \A i \in K : i \in Jobs /\ jobs[i].status = "blocked" /\ <<i, j>> \in deps
  BY DEF Dependents
<1> HIDE DEF done, Followup
<1>7. \A i \in Jobs : jobs'[i] = IF i = j THEN done
                                 ELSE IF i \in K THEN Promoted(jobs[i])
                                 ELSE IF i \in F THEN Followup(i)
                                 ELSE jobs[i]
  BY <1>3
<1>8. \A i \in Jobs : jobs[i].status \in {"absent", "failed"} =>
         jobs'[i] = jobs[i] \/ (jobs'[i].idem = None /\ jobs'[i].status = "queued")
  <2> SUFFICES ASSUME NEW i \in Jobs, jobs[i].status \in {"absent", "failed"}
               PROVE  jobs'[i] = jobs[i] \/ (jobs'[i].idem = None /\ jobs'[i].status = "queued")
    OBVIOUS
  <2>1. i # j /\ i \notin K
    BY <1>1, <1>6
  <2>2. jobs'[i] = IF i \in F THEN Followup(i) ELSE jobs[i]
    BY <1>7, <2>1
  <2> QED  BY <1>5, <2>2
<1>9. Starts
  BY <1>8 DEF Starts, Active
<1>10. ASSUME NEW i \in Jobs, jobs[i].status = "blocked" PROVE BlockedMove(i)
  <2>1. CASE i \in K
    <3>1. jobs'[i] = Promoted(jobs[i]) /\ jobs'[j].status = "succeeded" /\ <<i, j>> \in deps
      BY <1>1, <1>4, <1>6, <1>7, <1>10, <2>1
    <3>2. /\ Promoted(jobs[i]).pending = jobs[i].pending - 1
          /\ Promoted(jobs[i]).status = IF jobs[i].pending = 1 THEN "queued" ELSE "blocked"
      BY <1>10 DEF Promoted, Inv, TypeOK, JobRow
    <3>3. \A e \in EdgesOf(i) : e \in deps' <=> e # <<i, j>>
      BY <1>3, <2>1 DEF EdgesOf, Inv, TypeOK
    <3> QED  BY <1>1, <3>1, <3>2, <3>3 DEF BlockedMove
  <2>2. CASE i \notin K
    <3>1. jobs'[i] = jobs[i]
      BY <1>1, <1>2, <1>7, <1>10, <2>2
    <3>2. EdgesOf(i) \subseteq deps'
      BY <1>3, <2>2 DEF EdgesOf, Inv, TypeOK
    <3> QED  BY <1>10, <3>1, <3>2 DEF BlockedMove
  <2> QED  BY <2>1, <2>2
<1>11. needs' = needs /\ deps' \subseteq deps
  BY <1>3 DEF complete_job
<1> QED  BY <1>8, <1>9, <1>10, <1>11 DEF GraphStep

\* advance_workflow_cancellations unlinks exactly the waiting jobs it cancels.
LEMMA AdvanceGraph ==
    ASSUME Inv, NEW S \in SUBSET Jobs, advance_workflow_cancellations(Workflows, S)
    PROVE  GraphStep
<1> DEFINE waiting == {j \in S : jobs[j].status \in {"blocked", "queued"}}
<1>1. /\ \A j \in S : j \in waiting \/ jobs[j].status = "running"
      /\ jobs' = [i \in Jobs |->
                    IF i \in waiting THEN CancelledWaiting(jobs[i], "canceled")
                    ELSE IF i \in S THEN [jobs[i] EXCEPT !.cancel = TRUE]
                    ELSE jobs[i]]
      /\ deps' = Unlinked(waiting) /\ needs' = needs
  BY DEF advance_workflow_cancellations
<1>2. \A i \in Jobs : jobs[i].status \in {"absent", "failed"} => jobs'[i] = jobs[i]
  BY <1>1
<1>3. Starts
  BY <1>2 DEF Starts, Active
<1>4. ASSUME NEW i \in Jobs, jobs[i].status = "blocked" PROVE BlockedMove(i)
  <2>1. CASE i \in S
    <3>1. jobs'[i] = CancelledWaiting(jobs[i], "canceled")
      BY <1>1, <1>4, <2>1
    <3>2. jobs[i] \in JobRow /\ RowOK(jobs[i])
      BY DEF Inv, TypeOK
    <3> QED  BY <1>4, <3>1, <3>2, CancelledWaitingMoves DEF BlockedMove
  <2>2. CASE i \notin S
    <3>1. jobs'[i] = jobs[i]
      BY <1>1, <2>2
    <3>2. EdgesOf(i) \subseteq deps'
      BY <1>1, <2>2 DEF EdgesOf, Unlinked
    <3> QED  BY <1>4, <3>1, <3>2 DEF BlockedMove
  <2> QED  BY <2>1, <2>2
<1>5. deps' \subseteq deps
  BY <1>1 DEF Unlinked
<1> QED  BY <1>1, <1>2, <1>3, <1>4, <1>5 DEF GraphStep

\* finalize_dep_stragglers consumes the edge it looks at, or cancels a child.
LEMMA StragglerGraph ==
    ASSUME Inv, NEW c \in Jobs, NEW p \in Jobs, finalize_dep_stragglers(c, p)
    PROVE  GraphStep
<1>0. /\ jobs[c].status = "blocked" /\ <<c, p>> \in deps /\ needs' = needs
      /\ \A i \in Jobs : jobs[i] \in JobRow /\ RowOK(jobs[i])
  BY DEF finalize_dep_stragglers, Inv, TypeOK
<1>1. ASSUME NEW k \in Jobs, jobs[k].status = "blocked", deps' \subseteq deps, BlockedMove(k),
             \A i \in Jobs \ {k} : jobs'[i] = jobs[i],
             \A e \in deps : e[1] # k => e \in deps'
      PROVE  GraphStep
  <2>1. Starts
    BY <1>1 DEF Starts, Active
  <2>2. \A i \in Jobs : jobs[i].status = "absent" => jobs'[i].status # "blocked"
    BY <1>1
  <2>3. ASSUME NEW i \in Jobs, jobs[i].status = "blocked", i # k PROVE BlockedMove(i)
    <3>1. EdgesOf(i) \subseteq deps'
      BY <1>1, <2>3 DEF EdgesOf
    <3> QED  BY <1>1, <2>3, <3>1 DEF BlockedMove
  <2> QED  BY <1>0, <1>1, <2>1, <2>2, <2>3 DEF GraphStep
<1>2. CASE /\ jobs[p].status = "succeeded"
           /\ jobs' = [jobs EXCEPT ![c] = Promoted(@)] /\ deps' = deps \ {<<c, p>>}
  <2>1. jobs'[c] = Promoted(jobs[c]) /\ \A i \in Jobs \ {c} : jobs'[i] = jobs[i]
    BY <1>2 DEF Inv, TypeOK
  <2>2. /\ Promoted(jobs[c]).pending = jobs[c].pending - 1
        /\ Promoted(jobs[c]).status = IF jobs[c].pending = 1 THEN "queued" ELSE "blocked"
    BY <1>0 DEF Promoted, JobRow
  <2>3. jobs'[p].status = "succeeded"
    BY <1>0, <1>2, <2>1
  <2>4. BlockedMove(c)
    BY <1>0, <1>2, <2>1, <2>2, <2>3 DEF BlockedMove, EdgesOf
  <2>5. \A e \in deps : e[1] # c => e \in deps'
    BY <1>2
  <2> QED  BY <1>0, <1>1, <1>2, <2>1, <2>4, <2>5
<1>3. CASE \E k \in Dependents({p}) :
             jobs' = [jobs EXCEPT ![k] = DepCancelled(@)] /\ deps' = Unlinked({k})
  <2>1. PICK k \in Jobs : /\ jobs[k].status = "blocked"
                          /\ jobs' = [jobs EXCEPT ![k] = DepCancelled(@)]
                          /\ deps' = Unlinked({k})
    BY <1>3 DEF Dependents
  <2>2. jobs'[k] = DepCancelled(jobs[k]) /\ \A i \in Jobs \ {k} : jobs'[i] = jobs[i]
    BY <2>1 DEF Inv, TypeOK
  <2>3. BlockedMove(k)
    BY <1>0, <2>1, <2>2, DepCancelledMoves DEF BlockedMove
  <2>4. deps' \subseteq deps /\ \A e \in deps : e[1] # k => e \in deps'
    BY <2>1 DEF Unlinked
  <2> QED  BY <1>1, <2>1, <2>2, <2>3, <2>4
<1> QED  BY <1>2, <1>3 DEF finalize_dep_stragglers

\* Retention takes terminal rows and their own edges.
LEMMA JanitorGraph ==
    ASSUME Inv, NEW S \in SUBSET Jobs, janitor(S)
    PROVE  GraphStep
<1> DEFINE gone == [NoJob EXCEPT !.status = "deleted"]
<1>1. /\ \A j \in S : jobs[j].status \in Terminal
      /\ jobs' = [i \in Jobs |-> IF i \in S THEN gone ELSE jobs[i]]
      /\ deps' = Unlinked(S) /\ needs' = needs
  BY DEF janitor, Terminal
<1>2. gone.status = "deleted"
  BY DEF NoJob
<1> HIDE DEF gone
<1>3. \A i \in Jobs : jobs[i].status \in {"absent", "failed"} =>
         jobs'[i] = jobs[i] \/ jobs'[i].status = "deleted"
  BY <1>1, <1>2
<1>4. Starts
  BY <1>3 DEF Starts, Active
<1>5. ASSUME NEW i \in Jobs, jobs[i].status = "blocked" PROVE BlockedMove(i)
  <2>1. i \notin S /\ jobs'[i] = jobs[i]
    BY <1>1, <1>5 DEF Terminal
  <2>2. EdgesOf(i) \subseteq deps'
    BY <1>1, <2>1 DEF EdgesOf, Unlinked
  <2> QED  BY <1>5, <2>1, <2>2 DEF BlockedMove
<1>6. deps' \subseteq deps
  BY <1>1 DEF Unlinked
<1> QED  BY <1>1, <1>3, <1>4, <1>5, <1>6 DEF GraphStep

\* enqueue links the new job to the parents that have not succeeded yet.
LEMMA EnqueueDeps ==
    ASSUME Inv, Inv', DepInv, NEW j \in Jobs, NEW k \in IdemKeys \cup {None},
           NEW ck \in ConcKeys \cup {None}, NEW wf \in Workflows \cup {None},
           NEW D \in SUBSET Jobs, NEW due \in BOOLEAN, NEW ttl \in Ttls, NEW max \in Budgets,
           enqueue(j, k, ck, wf, D, due, ttl, max)
    PROVE  DepInv' /\ Starts
<1> DEFINE live == {d \in D : jobs[d].status # "succeeded"}
           s    == IF live # {} THEN "blocked" ELSE "queued"
           n    == Cardinality(live)
           e    == NewJob(s, k, ck, wf, None, n, due, ttl, max)
           new  == {<<j, d>> : d \in live}
<1>1. /\ jobs[j].status = "absent" /\ jobs' = [jobs EXCEPT ![j] = e]
      /\ deps' = deps \cup new /\ needs' = [needs EXCEPT ![j] = D]
      /\ \A d \in D : jobs[d].status \in Active \cup {"succeeded"}
      /\ ~KeyHeld(k)
  BY DEF enqueue
<1>2. /\ jobs'[j] = e /\ needs'[j] = D
      /\ \A i \in Jobs \ {j} : jobs'[i] = jobs[i] /\ needs'[i] = needs[i]
  BY <1>1 DEF Inv, TypeOK
<1>3. e.status = s /\ e.pending = n /\ e.idem = k
  BY DEF NewJob, NoJob
<1>4. IsFiniteSet(live)
  BY FiniteAssumption, FS_Subset
<1>5. j \notin D /\ live \subseteq D
  BY <1>1 DEF Active
<1>6. \A d \in D \ live : jobs[d].status = "succeeded"
  OBVIOUS
<1>7. \A x : x \in new <=> \E d \in live : x = <<j, d>>
  OBVIOUS
<1>8. Cardinality(new) = n
  <2> DEFINE f == [d \in live |-> <<j, d>>]
  <2>1. f \in [live -> new] /\ IsInjective(f)
    BY DEF IsInjective
  <2>2. \A t \in new : \E d \in live : f[d] = t
    OBVIOUS
  <2>3. f \in Bijection(live, new)
    BY <2>1, <2>2 DEF Bijection, Injection, Surjection
  <2> QED  BY <1>4, <2>3, FS_Bijection DEF ExistsBijection
<1>9. s = (IF live # {} THEN "blocked" ELSE "queued")
  OBVIOUS
<1> HIDE DEF e, s, n, live, new
<1>10. DepOK(j)'
  <2>1. EdgesOf(j) = {} /\ EdgesOf(j)' = new
    <3>1. EdgesOf(j) = {}
      BY <1>1 DEF DepInv, DepOK
    <3>2. \A x \in new : x[1] = j
      BY <1>7
    <3> QED  BY <1>1, <3>1, <3>2 DEF EdgesOf
  <2>2. \A p \in D : <<j, p>> \in deps' \/ jobs'[p].status \in Met
    BY <1>1, <1>2, <1>5, <1>6, <1>7 DEF Met
  <2>3. CASE live # {}
    <3>1. e.status = "blocked"
      BY <1>3, <1>9, <2>3
    <3> QED  BY <1>2, <1>3, <1>8, <2>1, <2>2, <3>1 DEF DepOK, Started
  <2>4. CASE live = {}
    <3>1. e.status = "queued" /\ new = {}
      BY <1>3, <1>7, <1>9, <2>4
    <3>2. \A p \in D : jobs'[p].status \in Met
      BY <1>2, <1>5, <1>6, <2>4 DEF Met
    <3> QED  BY <1>2, <2>1, <3>1, <3>2 DEF DepOK, Started
  <2> QED  BY <2>3, <2>4
<1>11. ASSUME NEW i \in Jobs \ {j} PROVE DepOK(i)'
  <2>1. EdgesOf(i)' = EdgesOf(i)
    <3>1. \A x \in new : x[1] = j
      BY <1>7
    <3> QED  BY <1>1, <1>11, <3>1 DEF EdgesOf
  <2>2. \A p \in needs[i] : jobs[p].status \in Met => jobs'[p].status \in Met
    BY <1>1, <1>2, <1>11 DEF Inv, TypeOK, Met
  <2>3. jobs'[i] = jobs[i] /\ needs'[i] = needs[i] /\ deps \subseteq deps' /\ DepOK(i)
    BY <1>1, <1>2, <1>11 DEF DepInv
  <2> QED  BY <2>1, <2>2, <2>3 DEF DepOK
<1>12. DepInv'
  BY <1>10, <1>11 DEF DepInv
<1>13. Starts
  BY <1>1, <1>2, <1>3 DEF Starts, Active
<1> QED  BY <1>12, <1>13

LEMMA RunnerGraph ==
    ASSUME Inv, Runner
    PROVE  GraphStep
<1>1. ASSUME NEW j \in Jobs, NEW w \in Workers, NEW a \in Attempts, claim_jobs(j, w, a)
      PROVE  GraphStep
  <2> DEFINE e == Claimed(jobs[j], a, w)
  <2>1. /\ jobs[j].status = "queued" /\ jobs' = [jobs EXCEPT ![j] = e]
        /\ deps' = deps /\ needs' = needs
    BY <1>1 DEF claim_jobs
  <2> HIDE DEF e
  <2> QED  BY <2>1, OneRowGraph
<1>2. ASSUME NEW a \in Attempts, heartbeat(a) PROVE GraphStep
  <2> DEFINE j == attempts[a].job
             e == [jobs[j] EXCEPT !.lease = "live"]
  <2>1. j \in Jobs /\ jobs[j].status = "running"
    BY <1>2, FenceFacts DEF heartbeat
  <2>2. jobs' = [jobs EXCEPT ![j] = e] /\ deps' = deps /\ needs' = needs
    BY <1>2 DEF heartbeat
  <2> HIDE DEF e, j
  <2> QED  BY <2>1, <2>2, OneRowGraph
<1>3. ASSUME NEW a \in Attempts, NEW F \in SUBSET Jobs, NEW M \in SUBSET F,
             NEW due \in BOOLEAN, NEW max \in Budgets, complete_job(a, F, M, due, max)
      PROVE  GraphStep
  BY <1>3, CompleteGraph
<1>4. ASSUME NEW a \in Attempts, NEW retryable \in BOOLEAN, NEW due \in BOOLEAN,
             \/ fail_job(a, retryable, due) \/ snooze_job(a, due)
             \/ release_job(a, due) \/ cancel_running_job(a)
      PROVE  GraphStep
  <2>1. Fenced(a) /\ \E v, t, row : Settle(a, v, t, row)
    BY <1>4 DEF fail_job, snooze_job, release_job, cancel_running_job
  <2> QED  BY <2>1, SettleGraph
<1> QED  BY <1>1, <1>2, <1>3, <1>4 DEF Runner

LEMMA OperatorGraph ==
    ASSUME Inv, Operator
    PROVE  GraphStep
<1>1. ASSUME NEW S \in SUBSET Jobs, \A j \in S : jobs[j].status = "running", Reap(S)
      PROVE  GraphStep
  BY <1>1, ReapGraph
<1>2. ASSUME NEW j \in Jobs, expire_job(j) PROVE GraphStep
  BY <1>1, <1>2 DEF expire_job
<1>3. ASSUME NEW w \in Workers, expire_worker_leases(w) PROVE GraphStep
  BY <1>1, <1>3 DEF expire_worker_leases
<1>4. ASSUME NEW j \in Jobs, cancel_job(j) PROVE GraphStep
  <2>1. CASE jobs[j].status \in {"blocked", "queued"} /\ CancelWaiting({j}, "canceled", {j})
    BY <2>1, CancelWaitingGraph
  <2>2. CASE /\ jobs[j].status = "running"
             /\ jobs' = [jobs EXCEPT ![j].cancel = TRUE]
             /\ UNCHANGED <<attempts, deps, limits, settledBy, needs>>
    <3> DEFINE e == [jobs[j] EXCEPT !.cancel = TRUE]
    <3>1. jobs' = [jobs EXCEPT ![j] = e]
      BY <2>2
    <3> HIDE DEF e
    <3> QED  BY <2>2, <3>1, OneRowGraph
  <2> QED  BY <1>4, <2>1, <2>2 DEF cancel_job
<1>5. ASSUME NEW j \in Jobs, run_now(j) PROVE GraphStep
  <2> DEFINE e == [jobs[j] EXCEPT !.due = TRUE]
  <2>1. /\ jobs[j].status = "queued" /\ jobs' = [jobs EXCEPT ![j] = e]
        /\ deps' = deps /\ needs' = needs
    BY <1>5 DEF run_now
  <2> HIDE DEF e
  <2> QED  BY <2>1, OneRowGraph
<1>6. ASSUME NEW j \in Jobs, NEW due \in BOOLEAN, redrive_job(j, due) PROVE GraphStep
  <2> DEFINE e == Redriven(jobs[j], due)
  <2>1. /\ jobs[j].status = "failed" /\ jobs' = [jobs EXCEPT ![j] = e]
        /\ deps' = deps /\ needs' = needs /\ ~KeyHeld(jobs[j].idem)
    BY <1>6 DEF redrive_job
  <2>2. e.idem = jobs[j].idem
    BY DEF Redriven, Inv, TypeOK, JobRow
  <2> HIDE DEF e
  <2> QED  BY <2>1, <2>2, OneRowGraph
<1>7. ASSUME NEW S \in SUBSET Jobs, purge_queued(S) PROVE GraphStep
  BY <1>7, CancelWaitingGraph DEF purge_queued
<1>8. ASSUME NEW ck \in ConcKeys, NEW n \in Caps, set_concurrency_limit(ck, n) PROVE GraphStep
  BY <1>8 DEF set_concurrency_limit, GraphStep, Starts, BlockedMove, EdgesOf, Active
<1> QED  BY <1>2, <1>3, <1>4, <1>5, <1>6, <1>7, <1>8 DEF Operator

LEMMA HousekeeperGraph ==
    ASSUME Inv, Housekeeper
    PROVE  GraphStep
<1>1. ASSUME NEW S \in SUBSET Jobs, reap_expired(S) PROVE GraphStep
  BY <1>1, ReapGraph DEF reap_expired
<1>2. ASSUME NEW S \in SUBSET Jobs, expire_ttl(S) PROVE GraphStep
  BY <1>2, CancelWaitingGraph DEF expire_ttl
<1> QED  BY <1>1, <1>2, AdvanceGraph, StragglerGraph, JanitorGraph DEF Housekeeper

LEMMA TimeGraph ==
    ASSUME Inv, Time
    PROVE  GraphStep
<1>1. PICK j \in Jobs : LeaseRunsOut(j) \/ BecomesDue(j) \/ TtlRunsOut(j)
  BY DEF Time
<1> DEFINE r == jobs[j]
<1>2. r \in JobRow /\ (r.status = "absent" => r.lease = "none")
  BY DEF Inv, TypeOK, RowOK, Free
<1>3. \A e \in {[r EXCEPT !.lease = "expired"], [r EXCEPT !.due = TRUE],
                [r EXCEPT !.ttl = "expired"]} :
         e.status = r.status /\ e.pending = r.pending
  BY <1>2 DEF JobRow
<1>4. PICK e \in {[r EXCEPT !.lease = "expired"], [r EXCEPT !.due = TRUE],
                  [r EXCEPT !.ttl = "expired"]} :
         jobs' = [jobs EXCEPT ![j] = e] /\ deps' = deps /\ needs' = needs
  BY <1>1 DEF LeaseRunsOut, BecomesDue, TtlRunsOut
<1>5. r.status # "absent"
  BY <1>1, <1>2 DEF LeaseRunsOut, BecomesDue, TtlRunsOut, Active
<1>6. e.status = r.status /\ e.pending = r.pending
  BY <1>3
<1> QED  BY <1>4, <1>5, <1>6, OneRowGraph DEF Active

LEMMA GraphInv == Inv /\ DepInv /\ OneActivePerKey /\ [Next]_vars => DepInv' /\ OneActivePerKey'
<1> SUFFICES ASSUME Inv, DepInv, OneActivePerKey, [Next]_vars
             PROVE  DepInv' /\ OneActivePerKey'
  OBVIOUS
<1>1. Inv' /\ (Steps \/ UNCHANGED vars)
  BY NextInv
<1>2. CASE UNCHANGED vars
  BY <1>2 DEF vars, DepInv, DepOK, EdgesOf, OneActivePerKey
<1>3. CASE Steps /\ Producer
  BY <1>1, <1>3, EnqueueDeps, KeyStep DEF Producer
<1>4. CASE Steps /\ (Runner \/ Operator \/ Housekeeper \/ Time)
  <2>1. GraphStep
    BY <1>4, RunnerGraph, OperatorGraph, HousekeeperGraph, TimeGraph
  <2>2. Starts
    BY <2>1 DEF GraphStep
  <2> QED  BY <1>1, <1>4, <2>1, <2>2, DepStep, KeyStep
<1> QED  BY <1>1, <1>2, <1>3, <1>4 DEF Next

LEMMA GraphHolds == Spec => [](Inv /\ DepInv /\ OneActivePerKey)
<1>1. Init => DepInv /\ OneActivePerKey
  BY DEF Init, NoJob, DepInv, DepOK, EdgesOf, OneActivePerKey, Active, Started
<1> QED  BY <1>1, GraphInv, InvHolds, PTL DEF Spec

\* An idempotency key never has two active jobs, however enqueues, redrives and
\* settlements interleave: who takes a key looks at every active row, and a
\* waiting or running row never changes its key.
THEOREM OneActive == Spec => []OneActivePerKey
BY GraphHolds, PTL

\* pending_deps is the number of edges a blocked job has left, and none to a job
\* that has not succeeded is missing, whichever of the settlement, the cascade,
\* the straggler pass and retention takes them.
THEOREM PendingCorrect == Spec => []PendingCounts
<1>1. Inv /\ DepInv => PendingCounts
  <2> SUFFICES ASSUME Inv, DepInv, NEW j \in Jobs
               PROVE  /\ jobs[j].status = "blocked" =>
                         /\ jobs[j].pending > 0 /\ jobs[j].pending = Cardinality(EdgesOf(j))
                         /\ \A p \in needs[j] : <<j, p>> \in deps \/ jobs[p].status \in Met
                      /\ jobs[j].status \in Started => EdgesOf(j) = {}
    BY DEF PendingCounts, EdgesOf, Started, Met
  <2>1. jobs[j].pending \in Nat /\ (jobs[j].status = "blocked" => jobs[j].pending # 0)
    BY DEF Inv, TypeOK, JobRow, RowOK
  <2> QED  BY <2>1 DEF DepInv, DepOK
<1> QED  BY <1>1, GraphHolds, PTL

\* No job is let run before everything it was enqueued to wait for succeeded.
THEOREM DepsKept == Spec => []DepsHonoured
<1>1. DepInv => DepsHonoured
  BY DEF DepInv, DepOK, DepsHonoured, Started, Met
<1> QED  BY <1>1, GraphHolds, PTL
=============================================================================
