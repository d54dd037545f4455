----------------------------- MODULE TaskqLease -----------------------------
(***************************************************************************)
(* The clock of one claimed job: the claim call, the heartbeat coroutine   *)
(* of src/taskq/worker.py (_heartbeat_loop) against the lease in           *)
(* taskq.jobs, and the reaper that gives the job to someone else.          *)
(*                                                                         *)
(* now is the server's clock and the worker's monotonic clock at once: the *)
(* worker only ever compares instants of its own, so the offset is         *)
(* immaterial.  Instants are integers, Second of them to a second; when    *)
(* Lease is a multiple of 12 the code's divisions are exact.  The event    *)
(* loop is prompt: a timer that is due runs before the clock moves on.     *)
(***************************************************************************)
EXTENDS Integers

CONSTANTS
    Second,       \* instants in a second
    Lease,        \* lease_seconds of the job, in instants
    ClaimDelay,   \* longest time from the grant of a claim to its return
    AnswerDelay,  \* longest time a heartbeat takes when nothing fails
    Horizon       \* bound on now, for model checking

Least(x, y) == IF x <= y THEN x ELSE y
Most(x, y)  == IF x >= y THEN x ELSE y

\* _heartbeat_interval and _lease_budget
Interval == Least(Lease \div 3, 30 * Second)
Budget   == Lease - Least(60 * Second, Lease \div 4)

\* What the exclusion argument needs of the claim call: a job whose claim
\* took longer may run past its lease until its first heartbeat is answered.
ASSUME LeaseAssumption ==
    /\ Second \in Nat \ {0}
    /\ Lease \in Nat /\ Lease >= 4
    /\ ClaimDelay \in Nat /\ AnswerDelay \in Nat /\ Horizon \in Nat
    /\ ClaimDelay + Interval < Lease
    /\ ClaimDelay + Budget + 2 * Interval < 2 * Lease

VARIABLES
    now,
    owner,   \* whose attempt the job row names: "none" before the claim, "me",
             \* "free" after the reaper, "other"
    lease,   \* lease_expires_at
    faults,  \* may calls fail and hang in this behaviour?
    stray,   \* a heartbeat the worker gave up on may still reach the queue
    me        \* the worker: see Worker below

vars == <<now, owner, lease, faults, stray, me>>

\* phase    : "idle" before the claim is sent, "claiming", then "sleeping" and
\*            "calling" in turn until ownership is dropped, "lost"
\* claimed  : the instant the claim was sent (claimed_at)
\* start    : the instant the claim returned and the handler started
\* lastOk   : last_ok, the send instant of the last confirmed call
\* sent     : the send instant of the call in flight
\* until    : when the sleep ends or the call's timer fires
\* call     : the heartbeat in flight: "none", "sent", or its answer
\* attempted, failures : as in the code
Worker ==
    [phase : {"idle", "claiming", "sleeping", "calling", "lost"},
     claimed : Nat, start : Nat, lastOk : Nat, sent : Nat, until : Nat,
     call : {"none", "sent", "ok", "gone"}, attempted : BOOLEAN, failures : Nat]

\* The handler runs and has not been told to stop.
Holding == me.phase \in {"sleeping", "calling"}

----------------------------------------------------------------------------
(* Claim *)

ClaimSend ==
    /\ me.phase = "idle"
    /\ me' = [me EXCEPT !.phase = "claiming", !.claimed = now]
    /\ UNCHANGED <<now, owner, lease, stray, faults>>

\* The claim waits at the queue (long poll) for any time, then is granted.
ClaimGrant ==
    /\ me.phase = "claiming" /\ owner = "none"
    /\ owner' = "me" /\ lease' = now + Lease
    /\ UNCHANGED <<now, stray, me, faults>>

\* Fault: the first heartbeat waits a full interval.
ClaimReturnSleepsInterval ==
    /\ me.phase = "claiming" /\ owner = "me"
    /\ me' = [me EXCEPT !.phase = "sleeping", !.lastOk = me.claimed, !.start = now,
                      !.until = now + Interval]
    /\ UNCHANGED <<now, owner, lease, stray, faults>>

\* The claim returns, the handler starts and the heartbeat coroutine takes its
\* first sleep, shorter when the claim used up much of the budget.
ClaimReturn ==
    /\ me.phase = "claiming" /\ owner = "me"
    /\ me' = [me EXCEPT !.phase = "sleeping", !.lastOk = me.claimed, !.start = now,
                      !.until = now + Most(0, Least(Interval,
                                                    (me.claimed + Budget - now) \div 2))]
    /\ UNCHANGED <<now, owner, lease, stray, faults>>

----------------------------------------------------------------------------
(* Heartbeats *)

Dropped == [me EXCEPT !.phase = "lost", !.call = "none"]

\* The sleep ends: drop the job if the budget is spent, else call, with a
\* timer at the end of the budget; the first call gets at least an interval.
HeartbeatSend ==
    LET left == me.lastOk + Budget - now IN
    /\ me.phase = "sleeping" /\ now >= me.until
    /\ me' = IF me.attempted /\ left <= 0 THEN Dropped
            ELSE [me EXCEPT !.phase = "calling", !.call = "sent", !.sent = now,
                           !.attempted = TRUE,
                           !.until = now + IF me.attempted THEN left
                                           ELSE Most(left, Interval)]
    /\ UNCHANGED <<now, owner, lease, stray, faults>>

\* taskq.heartbeat
Heartbeat ==
    /\ me.call = "sent"
    /\ lease' = IF owner = "me" THEN now + Lease ELSE lease
    /\ me' = [me EXCEPT !.call = IF owner = "me" THEN "ok" ELSE "gone"]
    /\ UNCHANGED <<now, owner, stray, faults>>

\* A heartbeat whose caller is gone.
LateHeartbeat ==
    /\ stray
    /\ lease' = IF owner = "me" THEN now + Lease ELSE lease
    /\ stray' = FALSE
    /\ UNCHANGED <<now, owner, me, faults>>

\* Fault: the budget restarts when the answer arrives.
HeartbeatAnswerLate ==
    /\ me.call = "ok"
    /\ me' = [me EXCEPT !.phase = "sleeping", !.call = "none", !.failures = 0, !.lastOk = now,
                      !.until = now + Interval]
    /\ UNCHANGED <<now, owner, lease, stray, faults>>

\* Fault: the next call is paced from the answer, not from the send.
HeartbeatAnswerPaced ==
    /\ me.call = "ok"
    /\ me' = [me EXCEPT !.phase = "sleeping", !.call = "none", !.failures = 0,
                      !.lastOk = me.sent, !.until = now + Interval]
    /\ UNCHANGED <<now, owner, lease, stray, faults>>

\* The answer: the budget restarts at the send instant, and the next call is
\* paced from it; ok = false drops the job.
HeartbeatAnswer ==
    /\ me.call \in {"ok", "gone"}
    /\ me' = IF me.call = "gone" THEN Dropped
            ELSE [me EXCEPT !.phase = "sleeping", !.call = "none", !.failures = 0,
                           !.lastOk = me.sent, !.until = Most(now, me.sent + Interval)]
    /\ UNCHANGED <<now, owner, lease, stray, faults>>

\* A retryable failure: back off for delay d, at most an interval and never
\* past the budget.
HeartbeatFails(d) ==
    /\ faults /\ me.phase = "calling"
    /\ me' = [me EXCEPT !.phase = "sleeping", !.call = "none", !.failures = @ + 1,
                      !.until = now + Most(0, Least(Least(d, Interval),
                                                    me.lastOk + Budget - now))]
    /\ stray' = (stray \/ me.call = "sent")
    /\ UNCHANGED <<now, owner, lease, faults>>

\* _cancel_after fires before the call returns.
HeartbeatTimeout ==
    /\ me.phase = "calling" /\ now >= me.until
    /\ me' = Dropped
    /\ stray' = (stray \/ me.call = "sent")
    /\ UNCHANGED <<now, owner, lease, faults>>

----------------------------------------------------------------------------
(* The queue and time *)

\* taskq.reap_expired
Reap ==
    /\ owner = "me" /\ lease <= now
    /\ owner' = "free"
    /\ UNCHANGED <<now, lease, stray, me, faults>>

OtherClaims ==
    /\ owner = "free"
    /\ owner' = "other"
    /\ UNCHANGED <<now, lease, stray, me, faults>>

\* The clock does not overtake a timer, nor the promised delays.
Tick ==
    /\ now < Horizon
    /\ Holding => now < me.until
    /\ me.phase = "claiming" /\ owner = "me" => now < lease - Lease + ClaimDelay
    /\ ~faults /\ me.phase = "calling" => now < me.sent + AnswerDelay
    /\ now' = now + 1
    /\ UNCHANGED <<owner, lease, stray, me, faults>>

Init ==
    /\ now = 0 /\ owner = "none" /\ lease = 0 /\ stray = FALSE /\ faults \in BOOLEAN
    /\ me = [phase |-> "idle", claimed |-> 0, start |-> 0, lastOk |-> 0, sent |-> 0,
            until |-> 0, call |-> "none", attempted |-> FALSE, failures |-> 0]

Next ==
    \/ ClaimSend \/ ClaimGrant \/ ClaimReturn
    \/ HeartbeatSend \/ Heartbeat \/ LateHeartbeat \/ HeartbeatAnswer
    \/ \E d \in 1..Interval : HeartbeatFails(d)
    \/ HeartbeatTimeout
    \/ Reap \/ OtherClaims \/ Tick

Spec == Init /\ [][Next]_vars

----------------------------------------------------------------------------
(* Properties *)

\* Every variable has its type.
TypeOK ==
    /\ now \in Nat /\ lease \in Nat /\ stray \in BOOLEAN /\ faults \in BOOLEAN
    /\ owner \in {"none", "me", "free", "other"}
    /\ me \in Worker

\* The worker gives a job up before anyone else can have it: while the handler
\* runs and has not been told to stop, the lease has not run out and the job
\* row still names its attempt, whatever calls fail, hang or arrive late.
Exclusive == Holding => owner = "me" /\ now < lease

\* How long a job runs that no heartbeat has confirmed: within its budget, or
\* two intervals; and when the claim alone used up the whole budget, only the
\* one interval that the first call is given.
UnconfirmedBound ==
    Holding /\ me.lastOk = me.claimed =>
       /\ now <= Most(me.claimed + Budget, me.start + 2 * Interval)
       /\ me.start >= me.claimed + Budget => now <= me.start + Interval

\* A healthy worker keeps its job: if no call fails and each is answered in
\* less than an interval, ownership is never dropped.
KeptWhenHealthy == ~faults /\ AnswerDelay < Interval => me.phase # "lost"
=============================================================================
