-------------------------- MODULE TaskqClientProofs --------------------------
(***************************************************************************)
(* Proofs about two clients of the queue: the clock of a worker that holds *)
(* a job (TaskqLease) and the in-memory client of the test kit             *)
(* (TaskqFake).  The two share no state; each part is for every value of   *)
(* its own constants.                                                      *)
(*                                                                         *)
(* Lease.  The inductive invariant says, for each phase of the worker,     *)
(* that the instant it will act at next (me.until) comes before the end of *)
(* the lease, and where that instant comes from.                           *)
(*                                                                         *)
(* Fake.  FakeImplements is proved in four parts: what each write of the   *)
(* fake is when read as a row of taskq.jobs (the images); the inductive    *)
(* invariant FakeInv, which ties the history columns to the rows; for each *)
(* method, the rows it writes and the SQL function that writes the same;   *)
(* and that each method keeps FakeInv.                                     *)
(***************************************************************************)
EXTENDS TaskqLease, TaskqFake, FiniteSetTheorems, TLAPS

----------------------------------------------------------------------------
(* The lease and the heartbeats *)

\* Before the claim returns: nothing was called, and a grant is recent.
BeforeStart ==
    /\ me.phase = "idle" => owner = "none"
    /\ me.phase \in {"idle", "claiming"} => me.call = "none" /\ ~me.attempted /\ ~stray
    /\ me.phase = "claiming" => me.claimed <= now /\ owner \in {"none", "me"}
    /\ me.phase = "claiming" /\ owner = "me" =>
          /\ me.claimed + Lease <= lease
          /\ now <= lease - Lease + ClaimDelay

\* While the handler runs: the next deadline is within the lease, and so is
\* the end of the budget.
WhileHolding ==
    Holding =>
       /\ owner = "me"
       /\ now <= me.until /\ me.until < lease
       /\ me.claimed <= me.start /\ me.start <= now
       /\ me.claimed <= me.lastOk /\ me.lastOk <= now
       /\ me.lastOk + Budget < lease

\* The first sleep leaves an interval before the lease ends.
FirstSleep ==
    me.phase = "sleeping" /\ ~me.attempted =>
       /\ me.lastOk = me.claimed /\ me.call = "none"
       /\ me.until + Interval < lease
       /\ me.until <= me.start + Interval
       /\ me.start >= me.claimed + Budget => me.until = me.start

\* A call in flight.
InCall ==
    /\ me.phase = "calling" =>
          /\ me.attempted /\ me.call \in {"sent", "ok"}
          /\ me.lastOk <= me.sent /\ me.start <= me.sent /\ me.sent <= now
          /\ me.until <= me.sent + Budget
          /\ me.call = "ok" => me.sent + Lease <= lease
    /\ me.phase # "calling" => me.call = "none"

\* The lease is never further away than one grant.
LeaseNear == owner = "me" => lease <= now + Lease

\* UnconfirmedBound, for the next deadline.
NextUnconfirmed ==
    Holding /\ me.lastOk = me.claimed =>
       /\ me.until <= Most(me.claimed + Budget, me.start + 2 * Interval)
       /\ me.start >= me.claimed + Budget => me.until <= me.start + Interval

\* When nothing fails, every deadline is met.
Healthy ==
    ~faults /\ AnswerDelay < Interval =>
       /\ me.phase # "lost"
       /\ me.phase = "sleeping" /\ me.attempted => me.until <= me.lastOk + Interval
       /\ me.phase = "calling" => /\ me.sent + Interval <= me.until
                                 /\ now <= me.sent + AnswerDelay

Inv == /\ TypeOK /\ BeforeStart /\ WhileHolding /\ FirstSleep /\ InCall /\ LeaseNear
       /\ NextUnconfirmed /\ Healthy

\* What the interval and the budget are to each other, for every lease.
LEMMA Margins ==
    /\ Interval \in Nat /\ Interval >= 1
    /\ Budget \in Nat
    /\ 2 * Interval <= Budget /\ Budget < Lease
<1>1. /\ Second \in Nat /\ Second >= 1
      /\ Lease \in Nat /\ Lease >= 4
  BY LeaseAssumption
<1>2. /\ Lease \div 3 \in Nat /\ 3 * (Lease \div 3) <= Lease /\ Lease \div 3 >= 1
  BY <1>1
<1>3. /\ Lease \div 4 \in Nat /\ 4 * (Lease \div 4) <= Lease /\ Lease \div 4 >= 1
  BY <1>1
<1> QED
  BY <1>1, <1>2, <1>3 DEF Interval, Budget, Least

\* Half of an integer, rounded down.
LEMMA Half ==
    ASSUME NEW x \in Int
    PROVE  x \div 2 \in Int /\ 2 * (x \div 2) <= x
  OBVIOUS

\* The initial state satisfies the invariant.
LEMMA InitInv == Init => Inv
<1> SUFFICES ASSUME Init PROVE Inv
  OBVIOUS
<1> USE LeaseAssumption, Margins
<1>1. TypeOK
  BY DEF Init, TypeOK, Holding, Worker
<1>2. BeforeStart
  BY DEF Init, BeforeStart, Holding, Worker
<1>3. WhileHolding
  BY DEF Init, WhileHolding, Holding, Worker
<1>4. FirstSleep
  BY DEF Init, FirstSleep, Holding, Worker
<1>5. InCall
  BY DEF Init, InCall, Holding, Worker
<1>6. LeaseNear
  BY DEF Init, LeaseNear, Holding, Worker
<1>7. NextUnconfirmed
  BY DEF Init, NextUnconfirmed, Holding, Worker
<1>8. Healthy
  BY DEF Init, Healthy, Holding, Worker
<1> QED
  BY <1>1, <1>2, <1>3, <1>4, <1>5, <1>6, <1>7, <1>8 DEF Inv

\* ClaimSend preserves the invariant.
LEMMA ClaimSendInv ==
    ASSUME Inv, ClaimSend
    PROVE  Inv'
<1> USE LeaseAssumption, Margins DEF Inv, TypeOK, Worker, Least, Most, Holding,
      BeforeStart, WhileHolding, FirstSleep, InCall, LeaseNear, NextUnconfirmed, Healthy
<1>1. TypeOK'
  BY DEF ClaimSend
<1>2. BeforeStart'
  BY DEF ClaimSend
<1>3. WhileHolding'
  BY DEF ClaimSend
<1>4. FirstSleep'
  BY DEF ClaimSend
<1>5. InCall'
  BY DEF ClaimSend
<1>6. LeaseNear'
  BY DEF ClaimSend
<1>7. NextUnconfirmed'
  BY DEF ClaimSend
<1>8. Healthy'
  BY DEF ClaimSend
<1> QED
  BY <1>1, <1>2, <1>3, <1>4, <1>5, <1>6, <1>7, <1>8 DEF Inv

\* ClaimGrant preserves the invariant.
LEMMA ClaimGrantInv ==
    ASSUME Inv, ClaimGrant
    PROVE  Inv'
<1> USE LeaseAssumption, Margins DEF Inv, TypeOK, Worker, Least, Most, Holding,
      BeforeStart, WhileHolding, FirstSleep, InCall, LeaseNear, NextUnconfirmed, Healthy
<1>1. TypeOK'
  BY DEF ClaimGrant
<1>2. BeforeStart'
  BY DEF ClaimGrant
<1>3. WhileHolding'
  BY DEF ClaimGrant
<1>4. FirstSleep'
  BY DEF ClaimGrant
<1>5. InCall'
  BY DEF ClaimGrant
<1>6. LeaseNear'
  BY DEF ClaimGrant
<1>7. NextUnconfirmed'
  BY DEF ClaimGrant
<1>8. Healthy'
  BY DEF ClaimGrant
<1> QED
  BY <1>1, <1>2, <1>3, <1>4, <1>5, <1>6, <1>7, <1>8 DEF Inv

\* ClaimReturn preserves the invariant.
LEMMA ClaimReturnInv ==
    ASSUME Inv, ClaimReturn
    PROVE  Inv'
<1> USE LeaseAssumption, Margins DEF Inv, TypeOK, Worker, Least, Most, Holding,
      BeforeStart, WhileHolding, FirstSleep, InCall, LeaseNear, NextUnconfirmed, Healthy
<1>1. TypeOK'
  <2> DEFINE u == now + Most(0, Least(Interval, (me.claimed + Budget - now) \div 2))
  <2>1. u \in Nat
    BY Half
  <2> HIDE DEF u
  <2>2. me' \in Worker
    BY <2>1 DEF ClaimReturn, u
  <2> QED
    BY <2>2 DEF ClaimReturn
<1>2. BeforeStart'
  BY DEF ClaimReturn
<1>3. WhileHolding'
  BY DEF ClaimReturn
<1>4. FirstSleep'
  BY DEF ClaimReturn
<1>5. InCall'
  BY DEF ClaimReturn
<1>6. LeaseNear'
  BY DEF ClaimReturn
<1>7. NextUnconfirmed'
  BY DEF ClaimReturn
<1>8. Healthy'
  BY DEF ClaimReturn
<1> QED
  BY <1>1, <1>2, <1>3, <1>4, <1>5, <1>6, <1>7, <1>8 DEF Inv

\* HeartbeatSend preserves the invariant.
LEMMA HeartbeatSendInv ==
    ASSUME Inv, HeartbeatSend
    PROVE  Inv'
<1> USE LeaseAssumption, Margins DEF Inv, TypeOK, Worker, Least, Most, Holding,
      BeforeStart, WhileHolding, FirstSleep, InCall, LeaseNear, NextUnconfirmed, Healthy
<1>1. TypeOK'
  <2> DEFINE left == me.lastOk + Budget - now
  <2> DEFINE u == now + IF me.attempted THEN left ELSE Most(left, Interval)
  <2>1. ~(me.attempted /\ left <= 0) => u \in Nat
    OBVIOUS
  <2>2. Dropped \in Worker
    BY DEF Dropped
  <2> HIDE DEF u
  <2>3. CASE me.attempted /\ left <= 0
    BY <2>3, <2>2 DEF HeartbeatSend
  <2>4. CASE ~(me.attempted /\ left <= 0)
    <3>1. me' = [me EXCEPT !.phase = "calling", !.call = "sent", !.sent = now,
                         !.attempted = TRUE, !.until = u]
      BY <2>4 DEF HeartbeatSend, u
    <3>2. me' \in Worker
      BY <3>1, <2>1, <2>4
    <3> QED
      BY <3>2 DEF HeartbeatSend
  <2> QED
    BY <2>3, <2>4
<1>2. BeforeStart'
  BY DEF HeartbeatSend, Dropped
<1>3. WhileHolding'
  BY DEF HeartbeatSend, Dropped
<1>4. FirstSleep'
  BY DEF HeartbeatSend, Dropped
<1>5. InCall'
  BY DEF HeartbeatSend, Dropped
<1>6. LeaseNear'
  BY DEF HeartbeatSend, Dropped
<1>7. NextUnconfirmed'
  BY DEF HeartbeatSend, Dropped
<1>8. Healthy'
  BY DEF HeartbeatSend, Dropped
<1> QED
  BY <1>1, <1>2, <1>3, <1>4, <1>5, <1>6, <1>7, <1>8 DEF Inv

\* Heartbeat preserves the invariant.
LEMMA HeartbeatInv ==
    ASSUME Inv, Heartbeat
    PROVE  Inv'
<1> USE LeaseAssumption, Margins DEF Inv, TypeOK, Worker, Least, Most, Holding,
      BeforeStart, WhileHolding, FirstSleep, InCall, LeaseNear, NextUnconfirmed, Healthy
<1>1. TypeOK'
  BY DEF Heartbeat
<1>2. BeforeStart'
  BY DEF Heartbeat
<1>3. WhileHolding'
  BY DEF Heartbeat
<1>4. FirstSleep'
  BY DEF Heartbeat
<1>5. InCall'
  BY DEF Heartbeat
<1>6. LeaseNear'
  BY DEF Heartbeat
<1>7. NextUnconfirmed'
  BY DEF Heartbeat
<1>8. Healthy'
  BY DEF Heartbeat
<1> QED
  BY <1>1, <1>2, <1>3, <1>4, <1>5, <1>6, <1>7, <1>8 DEF Inv

\* LateHeartbeat preserves the invariant.
LEMMA LateHeartbeatInv ==
    ASSUME Inv, LateHeartbeat
    PROVE  Inv'
<1> USE LeaseAssumption, Margins DEF Inv, TypeOK, Worker, Least, Most, Holding,
      BeforeStart, WhileHolding, FirstSleep, InCall, LeaseNear, NextUnconfirmed, Healthy
<1>1. TypeOK'
  <2>1. lease' \in Nat
    BY DEF LateHeartbeat
  <2>2. /\ now' \in Nat /\ owner' \in {"none", "me", "free", "other"} /\ me' \in Worker
        /\ stray' \in BOOLEAN /\ faults' \in BOOLEAN
    BY DEF LateHeartbeat
  <2> QED
    BY <2>1, <2>2
<1>2. BeforeStart'
  BY DEF LateHeartbeat
<1>3. WhileHolding'
  BY DEF LateHeartbeat
<1>4. FirstSleep'
  BY DEF LateHeartbeat
<1>5. InCall'
  BY DEF LateHeartbeat
<1>6. LeaseNear'
  BY DEF LateHeartbeat
<1>7. NextUnconfirmed'
  BY DEF LateHeartbeat
<1>8. Healthy'
  BY DEF LateHeartbeat
<1> QED
  BY <1>1, <1>2, <1>3, <1>4, <1>5, <1>6, <1>7, <1>8 DEF Inv

\* HeartbeatAnswer preserves the invariant.
LEMMA HeartbeatAnswerInv ==
    ASSUME Inv, HeartbeatAnswer
    PROVE  Inv'
<1> USE LeaseAssumption, Margins DEF Inv, TypeOK, Worker, Least, Most, Holding,
      BeforeStart, WhileHolding, FirstSleep, InCall, LeaseNear, NextUnconfirmed, Healthy
<1>1. TypeOK'
  <2> DEFINE u == Most(now, me.sent + Interval)
  <2>1. u \in Nat
    OBVIOUS
  <2>2. Dropped \in Worker
    BY DEF Dropped
  <2> HIDE DEF u
  <2>3. [me EXCEPT !.phase = "sleeping", !.call = "none", !.failures = 0,
                  !.lastOk = me.sent, !.until = u] \in Worker
    BY <2>1
  <2>4. me' \in Worker
    BY <2>2, <2>3 DEF HeartbeatAnswer, u
  <2> QED
    BY <2>4 DEF HeartbeatAnswer
<1>2. BeforeStart'
  BY DEF HeartbeatAnswer, Dropped
<1>3. WhileHolding'
  BY DEF HeartbeatAnswer, Dropped
<1>4. FirstSleep'
  BY DEF HeartbeatAnswer, Dropped
<1>5. InCall'
  BY DEF HeartbeatAnswer, Dropped
<1>6. LeaseNear'
  BY DEF HeartbeatAnswer, Dropped
<1>7. NextUnconfirmed'
  BY DEF HeartbeatAnswer, Dropped
<1>8. Healthy'
  BY DEF HeartbeatAnswer, Dropped
<1> QED
  BY <1>1, <1>2, <1>3, <1>4, <1>5, <1>6, <1>7, <1>8 DEF Inv

\* HeartbeatFails preserves the invariant.
LEMMA HeartbeatFailsInv ==
    ASSUME Inv, NEW d \in 1..Interval, HeartbeatFails(d)
    PROVE  Inv'
<1> USE LeaseAssumption, Margins DEF Inv, TypeOK, Worker, Least, Most, Holding,
      BeforeStart, WhileHolding, FirstSleep, InCall, LeaseNear, NextUnconfirmed, Healthy
<1>1. TypeOK'
  <2> DEFINE u == now + Most(0, Least(Least(d, Interval), me.lastOk + Budget - now))
  <2> DEFINE n == me.failures + 1
  <2>1. u \in Nat /\ n \in Nat
    OBVIOUS
  <2>2. me' = [me EXCEPT !.phase = "sleeping", !.call = "none", !.failures = n, !.until = u]
    BY DEF HeartbeatFails
  <2> HIDE DEF u, n
  <2>3. me' \in Worker
    BY <2>1, <2>2
  <2>4. stray' \in BOOLEAN
    BY DEF HeartbeatFails
  <2> QED
    BY <2>3, <2>4 DEF HeartbeatFails
<1>2. BeforeStart'
  BY DEF HeartbeatFails, Dropped
<1>3. WhileHolding'
  BY DEF HeartbeatFails, Dropped
<1>4. FirstSleep'
  BY DEF HeartbeatFails, Dropped
<1>5. InCall'
  BY DEF HeartbeatFails, Dropped
<1>6. LeaseNear'
  BY DEF HeartbeatFails, Dropped
<1>7. NextUnconfirmed'
  BY DEF HeartbeatFails, Dropped
<1>8. Healthy'
  BY DEF HeartbeatFails, Dropped
<1> QED
  BY <1>1, <1>2, <1>3, <1>4, <1>5, <1>6, <1>7, <1>8 DEF Inv

\* HeartbeatTimeout preserves the invariant.
LEMMA HeartbeatTimeoutInv ==
    ASSUME Inv, HeartbeatTimeout
    PROVE  Inv'
<1> USE LeaseAssumption, Margins DEF Inv, TypeOK, Worker, Least, Most, Holding,
      BeforeStart, WhileHolding, FirstSleep, InCall, LeaseNear, NextUnconfirmed, Healthy
<1>1. TypeOK'
  BY DEF HeartbeatTimeout, Dropped
<1>2. BeforeStart'
  BY DEF HeartbeatTimeout, Dropped
<1>3. WhileHolding'
  BY DEF HeartbeatTimeout, Dropped
<1>4. FirstSleep'
  BY DEF HeartbeatTimeout, Dropped
<1>5. InCall'
  BY DEF HeartbeatTimeout, Dropped
<1>6. LeaseNear'
  BY DEF HeartbeatTimeout, Dropped
<1>7. NextUnconfirmed'
  BY DEF HeartbeatTimeout, Dropped
<1>8. Healthy'
  BY DEF HeartbeatTimeout, Dropped
<1> QED
  BY <1>1, <1>2, <1>3, <1>4, <1>5, <1>6, <1>7, <1>8 DEF Inv

\* Reap preserves the invariant.
LEMMA ReapInv ==
    ASSUME Inv, Reap
    PROVE  Inv'
<1> USE LeaseAssumption, Margins DEF Inv, TypeOK, Worker, Least, Most, Holding,
      BeforeStart, WhileHolding, FirstSleep, InCall, LeaseNear, NextUnconfirmed, Healthy
<1>1. TypeOK'
  BY DEF Reap
<1>2. BeforeStart'
  BY DEF Reap
<1>3. WhileHolding'
  BY DEF Reap
<1>4. FirstSleep'
  BY DEF Reap
<1>5. InCall'
  BY DEF Reap
<1>6. LeaseNear'
  BY DEF Reap
<1>7. NextUnconfirmed'
  BY DEF Reap
<1>8. Healthy'
  BY DEF Reap
<1> QED
  BY <1>1, <1>2, <1>3, <1>4, <1>5, <1>6, <1>7, <1>8 DEF Inv

\* OtherClaims preserves the invariant.
LEMMA OtherClaimsInv ==
    ASSUME Inv, OtherClaims
    PROVE  Inv'
<1> USE LeaseAssumption, Margins DEF Inv, TypeOK, Worker, Least, Most, Holding,
      BeforeStart, WhileHolding, FirstSleep, InCall, LeaseNear, NextUnconfirmed, Healthy
<1>1. TypeOK'
  BY DEF OtherClaims
<1>2. BeforeStart'
  BY DEF OtherClaims
<1>3. WhileHolding'
  BY DEF OtherClaims
<1>4. FirstSleep'
  BY DEF OtherClaims
<1>5. InCall'
  BY DEF OtherClaims
<1>6. LeaseNear'
  BY DEF OtherClaims
<1>7. NextUnconfirmed'
  BY DEF OtherClaims
<1>8. Healthy'
  BY DEF OtherClaims
<1> QED
  BY <1>1, <1>2, <1>3, <1>4, <1>5, <1>6, <1>7, <1>8 DEF Inv

\* Tick preserves the invariant.
LEMMA TickInv ==
    ASSUME Inv, Tick
    PROVE  Inv'
<1> USE LeaseAssumption, Margins DEF Inv, TypeOK, Worker, Least, Most, Holding,
      BeforeStart, WhileHolding, FirstSleep, InCall, LeaseNear, NextUnconfirmed, Healthy
<1>1. TypeOK'
  BY DEF Tick
<1>2. BeforeStart'
  BY DEF Tick
<1>3. WhileHolding'
  BY DEF Tick
<1>4. FirstSleep'
  BY DEF Tick
<1>5. InCall'
  BY DEF Tick
<1>6. LeaseNear'
  BY DEF Tick
<1>7. NextUnconfirmed'
  BY DEF Tick
<1>8. Healthy'
  BY DEF Tick
<1> QED
  BY <1>1, <1>2, <1>3, <1>4, <1>5, <1>6, <1>7, <1>8 DEF Inv

\* Every step preserves the invariant.
LEMMA NextInv == Inv /\ [Next]_vars => Inv'
<1> SUFFICES ASSUME Inv, [Next]_vars PROVE Inv'
  OBVIOUS
<1>1. CASE UNCHANGED vars
  BY <1>1 DEF vars, Inv, TypeOK, BeforeStart, WhileHolding, FirstSleep, InCall, LeaseNear,
     NextUnconfirmed, Healthy, Holding
<1>2. ASSUME NEW d \in 1..Interval, HeartbeatFails(d) PROVE Inv'
  BY <1>2, HeartbeatFailsInv
<1> QED
  BY <1>1, <1>2, ClaimSendInv, ClaimGrantInv, ClaimReturnInv, HeartbeatSendInv, HeartbeatInv,
     LateHeartbeatInv, HeartbeatAnswerInv, HeartbeatTimeoutInv, ReapInv, OtherClaimsInv,
     TickInv DEF Next

\* The invariant holds throughout.
THEOREM InvHolds == Spec => []Inv
  BY InitInv, NextInv, PTL DEF Spec

\* The worker gives a job up before anyone else can have it, for every lease
\* of four instants and more and every claim delay within the assumption.
THEOREM ExclusionHolds == Spec => []Exclusive
<1>1. Inv => Exclusive
  BY LeaseAssumption DEF Inv, TypeOK, Worker, WhileHolding, Exclusive, Holding
<1> QED
  BY <1>1, InvHolds, PTL

\* A job no heartbeat has confirmed is dropped within its budget or two
\* intervals after it started, and within one when the claim spent the budget.
THEOREM UnconfirmedHolds == Spec => []UnconfirmedBound
<1>1. Inv => UnconfirmedBound
  BY LeaseAssumption, Margins DEF Inv, TypeOK, Worker, WhileHolding, NextUnconfirmed,
     UnconfirmedBound, Holding, Most
<1> QED
  BY <1>1, InvHolds, PTL

\* A worker whose heartbeats are answered in less than an interval never
\* drops its job.
THEOREM HealthyKeeps == Spec => []KeptWhenHealthy
<1>1. Inv => KeptWhenHealthy
  BY DEF Inv, Healthy, KeptWhenHealthy
<1> QED
  BY <1>1, InvHolds, PTL

----------------------------------------------------------------------------
(* The fake: its rows *)

Active == Waiting \cup {"running"}
Verbs  == {"complete", "fail", "snooze", "release", "cancel"}

FakeRow ==
    [status : Active \cup Terminal \cup {"absent"}, key : Keys \cup {None},
     ckey : ConcKeys \cup {None}, ttl : {"none", "live", "expired"},
     wf : Workflows \cup {None}, needs : SUBSET Jobs, due : BOOLEAN,
     att : Attempts \cup {None}, worker : Workers \cup {None}, failures : Nat, max : Nat,
     settled : Verbs \cup {None}, parent : Jobs \cup {None}]

Outcomes == {"success", "canceled", "dep_failed", "retry_exhausted", "non_retryable"}

ExtraRow ==
    [outcome : Outcomes \cup {None}, finisher : Attempts \cup {None}, pending : Nat,
     cancel : BOOLEAN]

----------------------------------------------------------------------------
(* Rows *)

\* A row of taskq.jobs as the fake has it, with the columns k of its command:
\* there is no streak.
Row(s, o, k, w, p, n, d, a, h, l, c, f, m, g) ==
    [status |-> s, outcome |-> o, idem |-> k.key, ckey |-> k.ckey, wf |-> w, parent |-> p,
     pending |-> n, due |-> d, ttl |-> k.ttl, att |-> a, worker |-> h, lease |-> l,
     cancel |-> c, failures |-> f, streak |-> 0, max |-> m, finisher |-> g]

\* One column is written.
SetStatus(e, v) == [e EXCEPT !.status = v]
SetOutcome(e, v) == [e EXCEPT !.outcome = v]
SetPending(e, v) == [e EXCEPT !.pending = v]
SetDue(e, v)   == [e EXCEPT !.due = v]
SetAtt(e, v)   == [e EXCEPT !.att = v]
SetWorker(e, v) == [e EXCEPT !.worker = v]
SetLease(e, v) == [e EXCEPT !.lease = v]
SetCancel(e, v) == [e EXCEPT !.cancel = v]
SetFailures(e, v) == [e EXCEPT !.failures = v]
SetFinisher(e, v) == [e EXCEPT !.finisher = v]
NoStreak(e)    == [e EXCEPT !.streak = 0]

LEMMA OneColumn ==
    ASSUME NEW s, NEW o, NEW k, NEW w, NEW p, NEW n, NEW d, NEW a, NEW h, NEW l, NEW c,
           NEW f, NEW m, NEW g, NEW v
    PROVE  /\ SetStatus(Row(s, o, k, w, p, n, d, a, h, l, c, f, m, g), v)
                = Row(v, o, k, w, p, n, d, a, h, l, c, f, m, g)
           /\ SetOutcome(Row(s, o, k, w, p, n, d, a, h, l, c, f, m, g), v)
                = Row(s, v, k, w, p, n, d, a, h, l, c, f, m, g)
           /\ SetPending(Row(s, o, k, w, p, n, d, a, h, l, c, f, m, g), v)
                = Row(s, o, k, w, p, v, d, a, h, l, c, f, m, g)
           /\ SetDue(Row(s, o, k, w, p, n, d, a, h, l, c, f, m, g), v)
                = Row(s, o, k, w, p, n, v, a, h, l, c, f, m, g)
           /\ SetAtt(Row(s, o, k, w, p, n, d, a, h, l, c, f, m, g), v)
                = Row(s, o, k, w, p, n, d, v, h, l, c, f, m, g)
           /\ SetWorker(Row(s, o, k, w, p, n, d, a, h, l, c, f, m, g), v)
                = Row(s, o, k, w, p, n, d, a, v, l, c, f, m, g)
           /\ SetLease(Row(s, o, k, w, p, n, d, a, h, l, c, f, m, g), v)
                = Row(s, o, k, w, p, n, d, a, h, v, c, f, m, g)
           /\ SetCancel(Row(s, o, k, w, p, n, d, a, h, l, c, f, m, g), v)
                = Row(s, o, k, w, p, n, d, a, h, l, v, f, m, g)
           /\ SetFailures(Row(s, o, k, w, p, n, d, a, h, l, c, f, m, g), v)
                = Row(s, o, k, w, p, n, d, a, h, l, c, v, m, g)
           /\ SetFinisher(Row(s, o, k, w, p, n, d, a, h, l, c, f, m, g), v)
                = Row(s, o, k, w, p, n, d, a, h, l, c, f, m, v)
<1>1. SetStatus(Row(s, o, k, w, p, n, d, a, h, l, c, f, m, g), v)
      = Row(v, o, k, w, p, n, d, a, h, l, c, f, m, g)
  BY DEF Row, SetStatus
<1>2. SetOutcome(Row(s, o, k, w, p, n, d, a, h, l, c, f, m, g), v)
      = Row(s, v, k, w, p, n, d, a, h, l, c, f, m, g)
  BY DEF Row, SetOutcome
<1>3. SetPending(Row(s, o, k, w, p, n, d, a, h, l, c, f, m, g), v)
      = Row(s, o, k, w, p, v, d, a, h, l, c, f, m, g)
  BY DEF Row, SetPending
<1>4. SetDue(Row(s, o, k, w, p, n, d, a, h, l, c, f, m, g), v)
      = Row(s, o, k, w, p, n, v, a, h, l, c, f, m, g)
  BY DEF Row, SetDue
<1>5. SetAtt(Row(s, o, k, w, p, n, d, a, h, l, c, f, m, g), v)
      = Row(s, o, k, w, p, n, d, v, h, l, c, f, m, g)
  BY DEF Row, SetAtt
<1>6. SetWorker(Row(s, o, k, w, p, n, d, a, h, l, c, f, m, g), v)
      = Row(s, o, k, w, p, n, d, a, v, l, c, f, m, g)
  BY DEF Row, SetWorker
<1>7. SetLease(Row(s, o, k, w, p, n, d, a, h, l, c, f, m, g), v)
      = Row(s, o, k, w, p, n, d, a, h, v, c, f, m, g)
  BY DEF Row, SetLease
<1>8. SetCancel(Row(s, o, k, w, p, n, d, a, h, l, c, f, m, g), v)
      = Row(s, o, k, w, p, n, d, a, h, l, v, f, m, g)
  BY DEF Row, SetCancel
<1>9. SetFailures(Row(s, o, k, w, p, n, d, a, h, l, c, f, m, g), v)
      = Row(s, o, k, w, p, n, d, a, h, l, c, v, m, g)
  BY DEF Row, SetFailures
<1>10. SetFinisher(Row(s, o, k, w, p, n, d, a, h, l, c, f, m, g), v)
      = Row(s, o, k, w, p, n, d, a, h, l, c, f, m, v)
  BY DEF Row, SetFinisher
<1> QED  BY <1>1, <1>2, <1>3, <1>4, <1>5, <1>6, <1>7, <1>8, <1>9, <1>10

LEMMA StreakFree ==
    ASSUME NEW s, NEW o, NEW k, NEW w, NEW p, NEW n, NEW d, NEW a, NEW h, NEW l, NEW c,
           NEW f, NEW m, NEW g
    PROVE  NoStreak(Row(s, o, k, w, p, n, d, a, h, l, c, f, m, g))
             = Row(s, o, k, w, p, n, d, a, h, l, c, f, m, g)
BY DEF Row, NoStreak

\* What the functions of TaskqJobs make of a row.
LEMMA ClaimedRow ==
    ASSUME NEW s, NEW o, NEW k, NEW w, NEW p, NEW n, NEW d, NEW a, NEW h, NEW l, NEW c,
           NEW f, NEW m, NEW g, NEW v, NEW u
    PROVE  Db!Claimed(Row(s, o, k, w, p, n, d, a, h, l, c, f, m, g), v, u)
             = Row("running", o, k, w, p, n, d, v, u, "live", c, f, m, g)
<1> DEFINE e == Row(s, o, k, w, p, n, d, a, h, l, c, f, m, g)
<1>1. SetStatus(Row(s, o, k, w, p, n, d, a, h, l, c, f, m, g), "running")
        = Row("running", o, k, w, p, n, d, a, h, l, c, f, m, g)
  BY OneColumn
<1>2. SetAtt(Row("running", o, k, w, p, n, d, a, h, l, c, f, m, g), v)
        = Row("running", o, k, w, p, n, d, v, h, l, c, f, m, g)
  BY OneColumn
<1>3. SetWorker(Row("running", o, k, w, p, n, d, v, h, l, c, f, m, g), u)
        = Row("running", o, k, w, p, n, d, v, u, l, c, f, m, g)
  BY OneColumn
<1>4. SetLease(Row("running", o, k, w, p, n, d, v, u, l, c, f, m, g), "live")
        = Row("running", o, k, w, p, n, d, v, u, "live", c, f, m, g)
  BY OneColumn
<1>5. Db!Claimed(e, v, u)
        = SetLease(SetWorker(SetAtt(SetStatus(e, "running"), v), u), "live")
  BY DEF Db!Claimed, SetStatus, SetAtt, SetWorker, SetLease
<1> QED  BY <1>1, <1>2, <1>3, <1>4, <1>5

LEMMA DetachedRow ==
    ASSUME NEW s, NEW o, NEW k, NEW w, NEW p, NEW n, NEW d, NEW a, NEW h, NEW l, NEW c,
           NEW f, NEW m, NEW g
    PROVE  Db!Detached(Row(s, o, k, w, p, n, d, a, h, l, c, f, m, g))
             = Row(s, o, k, w, p, n, d, None, None, "none", c, f, m, g)
<1> DEFINE e == Row(s, o, k, w, p, n, d, a, h, l, c, f, m, g)
<1>1. SetAtt(Row(s, o, k, w, p, n, d, a, h, l, c, f, m, g), None)
        = Row(s, o, k, w, p, n, d, None, h, l, c, f, m, g)
  BY OneColumn
<1>2. SetWorker(Row(s, o, k, w, p, n, d, None, h, l, c, f, m, g), None)
        = Row(s, o, k, w, p, n, d, None, None, l, c, f, m, g)
  BY OneColumn
<1>3. SetLease(Row(s, o, k, w, p, n, d, None, None, l, c, f, m, g), "none")
        = Row(s, o, k, w, p, n, d, None, None, "none", c, f, m, g)
  BY OneColumn
<1>4. Db!Detached(e)
        = SetLease(SetWorker(SetAtt(e, None), None), "none")
  BY DEF Db!Detached, SetAtt, SetWorker, SetLease
<1> QED  BY <1>1, <1>2, <1>3, <1>4

LEMMA FinishedRow ==
    ASSUME NEW s, NEW o, NEW k, NEW w, NEW p, NEW n, NEW d, NEW a, NEW h, NEW l, NEW c,
           NEW f, NEW m, NEW g, NEW t, NEW v, NEW u
    PROVE  Db!Finished(Row(s, o, k, w, p, n, d, a, h, l, c, f, m, g), t, v, u)
             = Row(t, v, k, w, p, n, d, None, None, "none", c, f, m, u)
<1> DEFINE e == Row(s, o, k, w, p, n, d, a, h, l, c, f, m, g)
<1>1. SetStatus(Row(s, o, k, w, p, n, d, None, None, "none", c, f, m, g), t)
        = Row(t, o, k, w, p, n, d, None, None, "none", c, f, m, g)
  BY OneColumn
<1>2. SetOutcome(Row(t, o, k, w, p, n, d, None, None, "none", c, f, m, g), v)
        = Row(t, v, k, w, p, n, d, None, None, "none", c, f, m, g)
  BY OneColumn
<1>3. SetFinisher(Row(t, v, k, w, p, n, d, None, None, "none", c, f, m, g), u)
        = Row(t, v, k, w, p, n, d, None, None, "none", c, f, m, u)
  BY OneColumn
<1>4. Db!Finished(e, t, v, u)
        = SetFinisher(SetOutcome(SetStatus(Db!Detached(e), t), v), u)
  BY DEF Db!Finished, SetStatus, SetOutcome, SetFinisher
<1> QED  BY DetachedRow, <1>1, <1>2, <1>3, <1>4

LEMMA RequeuedRow ==
    ASSUME NEW s, NEW o, NEW k, NEW w, NEW p, NEW n, NEW d, NEW a, NEW h, NEW l, NEW c,
           NEW f, NEW m, NEW g, NEW v
    PROVE  Db!Requeued(Row(s, o, k, w, p, n, d, a, h, l, c, f, m, g), v)
             = Row("queued", o, k, w, p, n, v, None, None, "none", c, f, m, g)
<1> DEFINE e == Row(s, o, k, w, p, n, d, a, h, l, c, f, m, g)
<1>1. SetStatus(Row(s, o, k, w, p, n, d, None, None, "none", c, f, m, g), "queued")
        = Row("queued", o, k, w, p, n, d, None, None, "none", c, f, m, g)
  BY OneColumn
<1>2. SetDue(Row("queued", o, k, w, p, n, d, None, None, "none", c, f, m, g), v)
        = Row("queued", o, k, w, p, n, v, None, None, "none", c, f, m, g)
  BY OneColumn
<1>3. Db!Requeued(e, v)
        = SetDue(SetStatus(Db!Detached(e), "queued"), v)
  BY DEF Db!Requeued, SetStatus, SetDue
<1> QED  BY DetachedRow, <1>1, <1>2, <1>3

LEMMA UnstreakedRow ==
    ASSUME NEW s, NEW o, NEW k, NEW w, NEW p, NEW n, NEW d, NEW a, NEW h, NEW l, NEW c,
           NEW f, NEW m, NEW g, NEW v
    PROVE  Db!Unstreaked(Row(s, o, k, w, p, n, d, a, h, l, c, f, m, g), v)
             = Row(s, o, k, w, p, n, v, a, h, l, c, f, m, g)
<1> DEFINE e == Row(s, o, k, w, p, n, d, a, h, l, c, f, m, g)
<1>1. NoStreak(Row(s, o, k, w, p, n, d, a, h, l, c, f, m, g))
        = Row(s, o, k, w, p, n, d, a, h, l, c, f, m, g)
  BY StreakFree
<1>2. SetDue(Row(s, o, k, w, p, n, d, a, h, l, c, f, m, g), v)
        = Row(s, o, k, w, p, n, v, a, h, l, c, f, m, g)
  BY OneColumn
<1>3. Db!Unstreaked(e, v)
        = SetDue(NoStreak(e), v)
  BY DEF Db!Unstreaked, NoStreak, SetDue
<1> QED  BY <1>1, <1>2, <1>3

LEMMA ChargedRow ==
    ASSUME NEW s, NEW o, NEW k, NEW w, NEW p, NEW n, NEW d, NEW a, NEW h, NEW l, NEW c,
           NEW f, NEW m, NEW g
    PROVE  Db!Charged(Row(s, o, k, w, p, n, d, a, h, l, c, f, m, g), 0)
             = Row(s, o, k, w, p, n, d, a, h, l, c, f + 1, m, g)
<1> DEFINE e == Row(s, o, k, w, p, n, d, a, h, l, c, f, m, g)
<1>0. e.failures = f
  BY DEF Row
<1>1. SetFailures(Row(s, o, k, w, p, n, d, a, h, l, c, f, m, g), f + 1)
        = Row(s, o, k, w, p, n, d, a, h, l, c, f + 1, m, g)
  BY OneColumn
<1>2. NoStreak(Row(s, o, k, w, p, n, d, a, h, l, c, f + 1, m, g))
        = Row(s, o, k, w, p, n, d, a, h, l, c, f + 1, m, g)
  BY StreakFree
<1>3. Db!Charged(e, 0)
        = NoStreak(SetFailures(e, e.failures + 1))
  BY DEF Db!Charged, NoStreak, SetFailures
<1> QED  BY <1>0, <1>1, <1>2, <1>3

LEMMA DepCancelledRow ==
    ASSUME NEW s, NEW o, NEW k, NEW w, NEW p, NEW n, NEW d, NEW a, NEW h, NEW l, NEW c,
           NEW f, NEW m, NEW g
    PROVE  Db!DepCancelled(Row(s, o, k, w, p, n, d, a, h, l, c, f, m, g))
             = Row("cancelled", "dep_failed", k, w, p, n, d, a, h, l, c, f, m, g)
<1> DEFINE e == Row(s, o, k, w, p, n, d, a, h, l, c, f, m, g)
<1>1. SetStatus(Row(s, o, k, w, p, n, d, a, h, l, c, f, m, g), "cancelled")
        = Row("cancelled", o, k, w, p, n, d, a, h, l, c, f, m, g)
  BY OneColumn
<1>2. SetOutcome(Row("cancelled", o, k, w, p, n, d, a, h, l, c, f, m, g), "dep_failed")
        = Row("cancelled", "dep_failed", k, w, p, n, d, a, h, l, c, f, m, g)
  BY OneColumn
<1>3. Db!DepCancelled(e)
        = SetOutcome(SetStatus(e, "cancelled"), "dep_failed")
  BY DEF Db!DepCancelled, SetStatus, SetOutcome
<1> QED  BY <1>1, <1>2, <1>3

LEMMA PromotedRow ==
    ASSUME NEW s, NEW o, NEW k, NEW w, NEW p, NEW n, NEW d, NEW a, NEW h, NEW l, NEW c,
           NEW f, NEW m, NEW g
    PROVE  Db!Promoted(Row(s, o, k, w, p, n, d, a, h, l, c, f, m, g))
             = Row(IF n = 1 THEN "queued" ELSE s, o, k, w, p, n - 1, d, a, h, l, c, f, m, g)
<1> DEFINE e == Row(s, o, k, w, p, n, d, a, h, l, c, f, m, g)
<1>0. e.pending = n /\ e.status = s
  BY DEF Row
<1>1. SetPending(Row(s, o, k, w, p, n, d, a, h, l, c, f, m, g), n - 1)
        = Row(s, o, k, w, p, n - 1, d, a, h, l, c, f, m, g)
  BY OneColumn
<1>2. SetStatus(Row(s, o, k, w, p, n - 1, d, a, h, l, c, f, m, g), IF n = 1 THEN "queued" ELSE s)
        = Row(IF n = 1 THEN "queued" ELSE s, o, k, w, p, n - 1, d, a, h, l, c, f, m, g)
  BY OneColumn
<1>3. Db!Promoted(e)
        = SetStatus(SetPending(e, e.pending - 1),
                    IF e.pending = 1 THEN "queued" ELSE e.status)
  BY DEF Db!Promoted, SetStatus, SetPending
<1> QED  BY <1>0, <1>1, <1>2, <1>3

\* A cancel is requested.
Told(e) == [e EXCEPT !.cancel = TRUE]

LEMMA ToldTrue ==
    ASSUME NEW b \in BOOLEAN, b
    PROVE  \A e : Told(e) = SetCancel(e, b)
BY DEF Told, SetCancel

LEMMA CancelWrites ==
    ASSUME NEW s, NEW o, NEW k, NEW w, NEW p, NEW n, NEW d, NEW a, NEW h, NEW l, NEW c,
           NEW f, NEW m, NEW g,
           NEW v, NEW b, \A e : Told(e) = SetCancel(e, b)
    PROVE  LET e == Row(s, o, k, w, p, n, d, a, h, l, c, f, m, g) IN
           /\ Told(e)
                = Row(s, o, k, w, p, n, d, a, h, l, b, f, m, g)
           /\ Db!CancelledWaiting(e, v)
                = Row("cancelled", v, k, w, p, n, d, a, h, l, b, f, m, g)
<1> DEFINE e == Row(s, o, k, w, p, n, d, a, h, l, c, f, m, g)
<1>1. Told(e) = Row(s, o, k, w, p, n, d, a, h, l, b, f, m, g)
  BY OneColumn
<1>2. Db!CancelledWaiting(e, v)
      = Row("cancelled", v, k, w, p, n, d, a, h, l, b, f, m, g)
  <2>1. SetStatus(Row(s, o, k, w, p, n, d, a, h, l, c, f, m, g), "cancelled")
          = Row("cancelled", o, k, w, p, n, d, a, h, l, c, f, m, g)
    BY OneColumn
  <2>2. SetOutcome(Row("cancelled", o, k, w, p, n, d, a, h, l, c, f, m, g), v)
          = Row("cancelled", v, k, w, p, n, d, a, h, l, c, f, m, g)
    BY OneColumn
  <2>3. SetCancel(Row("cancelled", v, k, w, p, n, d, a, h, l, c, f, m, g), b)
          = Row("cancelled", v, k, w, p, n, d, a, h, l, b, f, m, g)
    BY OneColumn
  <2>4. Told(SetOutcome(SetStatus(e, "cancelled"), v))
          = SetCancel(SetOutcome(SetStatus(e, "cancelled"), v), b)
    OBVIOUS
  <2>5. Db!CancelledWaiting(e, v) = Told(SetOutcome(SetStatus(e, "cancelled"), v))
    BY DEF Db!CancelledWaiting, SetStatus, SetOutcome, Told
  <2> QED  BY <2>1, <2>2, <2>3, <2>4, <2>5
<1> QED  BY <1>1, <1>2


\* Who runs row r.
HeldBy(r)  == IF r.status = "running" THEN r.att ELSE None
RunBy(r)   == IF r.status = "running" THEN r.worker ELSE None
LeaseOf(r) == IF r.status = "running" THEN "live" ELSE "none"

\* The columns a command gives a row.
Names(k, ck, t) == [key |-> k, ckey |-> ck, ttl |-> t]
Ids(r) == Names(r.key, r.ckey, r.ttl)

LEMMA AsRow ==
    ASSUME NEW r, NEW x
    PROVE  DbRow(r, x)
             = Row(r.status, x.outcome, Ids(r), r.wf, r.parent, x.pending, r.due, HeldBy(r),
                   RunBy(r), LeaseOf(r), x.cancel, r.failures, r.max, x.finisher)
BY DEF DbRow, Row, Ids, Names, HeldBy, RunBy, LeaseOf

\* What the columns of DbRow are.
LEMMA Columns ==
    ASSUME NEW r, NEW x
    PROVE  LET e == DbRow(r, x) IN
           /\ e.status = r.status /\ e.outcome = x.outcome /\ e.idem = r.key /\ e.ckey = r.ckey
           /\ e.wf = r.wf /\ e.parent = r.parent /\ e.pending = x.pending /\ e.due = r.due
           /\ e.ttl = r.ttl /\ e.cancel = x.cancel /\ e.failures = r.failures
           /\ e.max = r.max /\ e.finisher = x.finisher
           /\ r.status = "running" => e.att = r.att /\ e.worker = r.worker
BY DEF DbRow

LEMMA NoImage == DbRow(NoRow, NoExtra) = Db!NoJob
BY DEF DbRow, NoRow, NoExtra, Db!NoJob

\* Rows with the same columns have the same image.

----------------------------------------------------------------------------
(* Images: what a write of the fake makes of the row of taskq.jobs *)

\* A claim.
RunRow(r, a, w) ==
    [r EXCEPT !.status = "running", !.att = a, !.worker = w, !.settled = None]

LEMMA RunRowIs ==
    ASSUME NEW r \in FakeRow, NEW a, NEW w
    PROVE  LET e == RunRow(r, a, w) IN
           /\ e.status = "running" /\ e.att = a /\ e.worker = w /\ e.key = r.key /\ Ids(e) = Ids(r)
           /\ e.wf = r.wf /\ e.parent = r.parent /\ e.due = r.due /\ e.needs = r.needs
           /\ e.failures = r.failures /\ e.max = r.max
           /\ a \in Attempts /\ w \in Workers => e \in FakeRow
<1> DEFINE e == RunRow(r, a, w)
<1>1. /\ e.status = "running" /\ e.att = a /\ e.worker = w /\ e.key = r.key /\ Ids(e) = Ids(r)
      /\ e.wf = r.wf /\ e.parent = r.parent /\ e.due = r.due /\ e.needs = r.needs
      /\ e.failures = r.failures /\ e.max = r.max
  BY DEF FakeRow, RunRow, Ids, Names
<1>2. a \in Attempts /\ w \in Workers => e \in FakeRow
  BY DEF FakeRow, RunRow, Active
<1> QED  BY <1>1, <1>2

LEMMA ClaimImage ==
    ASSUME NEW r \in FakeRow, NEW x, NEW a, NEW w
    PROVE  DbRow(RunRow(r, a, w), x) = Db!Claimed(DbRow(r, x), a, w)
<1> DEFINE e == RunRow(r, a, w)
<1>1. /\ e.status = "running" /\ e.att = a /\ e.worker = w /\ e.key = r.key
      /\ Ids(e) = Ids(r) /\ e.wf = r.wf
      /\ e.parent = r.parent /\ e.due = r.due /\ e.failures = r.failures /\ e.max = r.max
  BY RunRowIs
<1> HIDE DEF e
<1>2. HeldBy(e) = a /\ RunBy(e) = w /\ LeaseOf(e) = "live"
  BY <1>1 DEF HeldBy, RunBy, LeaseOf
<1>3. DbRow(e, x)
        = Row("running", x.outcome, Ids(r), r.wf, r.parent, x.pending, r.due, a, w, "live",
              x.cancel, r.failures, r.max, x.finisher)
  BY <1>1, <1>2, AsRow
<1>4. Db!Claimed(DbRow(r, x), a, w)
        = Row("running", x.outcome, Ids(r), r.wf, r.parent, x.pending, r.due, a, w, "live",
              x.cancel, r.failures, r.max, x.finisher)
  BY AsRow, ClaimedRow
<1> QED  BY <1>3, <1>4 DEF e

\* A row after its attempt ended by verb v, in status s with n failures more.
EndRow(r, s, n, v) == [[r EXCEPT !.status = s, !.failures = @ + n] EXCEPT !.settled = v]

\* A row that waits again.
BackRow(r, due, n, v) ==
    [[r EXCEPT !.status = "queued", !.due = due, !.failures = @ + n] EXCEPT !.settled = v]

LEMMA EndRowIs ==
    ASSUME NEW r \in FakeRow, NEW n \in Nat, NEW s \in Terminal, NEW v \in Verbs
    PROVE  LET e == EndRow(r, s, n, v) IN
           /\ e \in FakeRow /\ e.status = s /\ e.failures = r.failures + n /\ e.settled = v
           /\ e.att = r.att /\ e.worker = r.worker /\ e.key = r.key
           /\ Ids(e) = Ids(r) /\ e.wf = r.wf
           /\ e.parent = r.parent /\ e.due = r.due /\ e.max = r.max /\ e.needs = r.needs
           /\ HeldBy(e) = None /\ RunBy(e) = None /\ LeaseOf(e) = "none"
<1> DEFINE q == r.failures + n
           e == EndRow(r, s, n, v)
<1>1. q \in Nat
  BY DEF FakeRow
<1> HIDE DEF q
<1>2. e = [[[r EXCEPT !.status = s] EXCEPT !.failures = q] EXCEPT !.settled = v]
  BY DEF EndRow, q
<1>3. e \in FakeRow
  BY <1>1, <1>2 DEF FakeRow, Terminal
<1>4. e.status = s /\ e.failures = q /\ e.settled = v
  BY <1>2 DEF FakeRow
<1>5. /\ e.att = r.att /\ e.worker = r.worker /\ e.key = r.key /\ Ids(e) = Ids(r) /\ e.wf = r.wf
      /\ e.parent = r.parent /\ e.due = r.due /\ e.max = r.max /\ e.needs = r.needs
  BY <1>2 DEF FakeRow, Ids, Names
<1>6. HeldBy(e) = None /\ RunBy(e) = None /\ LeaseOf(e) = "none"
  BY <1>4 DEF HeldBy, RunBy, LeaseOf, Terminal
<1> QED  BY <1>3, <1>4, <1>5, <1>6 DEF q

LEMMA BackRowIs ==
    ASSUME NEW r \in FakeRow, NEW n \in Nat, NEW due \in BOOLEAN, NEW v \in Verbs
    PROVE  LET e == BackRow(r, due, n, v) IN
           /\ e \in FakeRow /\ e.status = "queued" /\ e.failures = r.failures + n
           /\ e.due = due /\ e.settled = v
           /\ e.att = r.att /\ e.worker = r.worker /\ e.key = r.key
           /\ Ids(e) = Ids(r) /\ e.wf = r.wf
           /\ e.parent = r.parent /\ e.max = r.max /\ e.needs = r.needs
           /\ HeldBy(e) = None /\ RunBy(e) = None /\ LeaseOf(e) = "none"
<1> DEFINE q == r.failures + n
           e == BackRow(r, due, n, v)
<1>1. q \in Nat
  BY DEF FakeRow
<1> HIDE DEF q
<1>2. e = [[[[r EXCEPT !.status = "queued"] EXCEPT !.due = due] EXCEPT !.failures = q]
             EXCEPT !.settled = v]
  BY DEF BackRow, q
<1>3. e \in FakeRow
  BY <1>1, <1>2 DEF FakeRow, Active, Waiting
<1>4. e.status = "queued" /\ e.failures = q /\ e.settled = v /\ e.due = due
  BY <1>2 DEF FakeRow
<1>5. /\ e.att = r.att /\ e.worker = r.worker /\ e.key = r.key /\ Ids(e) = Ids(r) /\ e.wf = r.wf
      /\ e.parent = r.parent /\ e.max = r.max /\ e.needs = r.needs
  BY <1>2 DEF FakeRow, Ids, Names
<1>6. HeldBy(e) = None /\ RunBy(e) = None /\ LeaseOf(e) = "none"
  BY <1>4 DEF HeldBy, RunBy, LeaseOf
<1> QED  BY <1>3, <1>4, <1>5, <1>6 DEF q

\* What decides a row, and what takes a cancel request back.
Decided(x, o, a) == [x EXCEPT !.outcome = o, !.finisher = a]
Undone(x)        == [x EXCEPT !.cancel = FALSE]

LEMMA DecidedIs ==
    ASSUME NEW x \in ExtraRow, NEW o \in Outcomes, NEW a \in Attempts
    PROVE  LET y == Decided(x, o, a) IN
           /\ y \in ExtraRow /\ y.outcome = o /\ y.finisher = a
           /\ y.pending = x.pending /\ y.cancel = x.cancel
<1> DEFINE y == Decided(x, o, a)
<1>1. y = [[x EXCEPT !.outcome = o] EXCEPT !.finisher = a]
  BY DEF Decided
<1>2. y \in ExtraRow
  BY <1>1 DEF ExtraRow
<1>3. y.outcome = o /\ y.finisher = a /\ y.pending = x.pending /\ y.cancel = x.cancel
  BY <1>1 DEF ExtraRow
<1> QED  BY <1>2, <1>3

LEMMA UndoneIs ==
    ASSUME NEW x \in ExtraRow
    PROVE  LET y == Undone(x) IN
           /\ y \in ExtraRow /\ y.outcome = x.outcome /\ y.finisher = x.finisher
           /\ y.pending = x.pending /\ ~y.cancel
           /\ ~x.cancel => y = x
<1> DEFINE y == Undone(x)
<1>1. y \in ExtraRow
  BY DEF Undone, ExtraRow
<1>2. /\ y.outcome = x.outcome /\ y.finisher = x.finisher /\ y.pending = x.pending
      /\ ~y.cancel
  BY DEF Undone, ExtraRow
<1>3. ~x.cancel => y = x
  BY DEF Undone, ExtraRow
<1> QED  BY <1>1, <1>2, <1>3

\* A settlement that closes the job.
LEMMA CompleteImage ==
    ASSUME NEW r \in FakeRow, NEW x \in ExtraRow, NEW v \in Verbs, NEW a \in Attempts,
           NEW o \in Outcomes
    PROVE  LET e == DbRow(r, x) IN
           DbRow(EndRow(r, "succeeded", 0, v), Decided(x, o, a))
             = Db!Finished(Db!Unstreaked(e, e.due), "succeeded", o, a)
<1> DEFINE e == EndRow(r, "succeeded", 0, v)
           y == Decided(x, o, a)
           f == Row("succeeded", o, Ids(r), r.wf, r.parent, x.pending, r.due, None, None,
                    "none", x.cancel, r.failures, r.max, a)
<1>0. "succeeded" \in Terminal /\ 0 \in Nat
  BY DEF Terminal
<1>1. /\ e.status = "succeeded" /\ e.failures = r.failures + 0 /\ e.key = r.key /\ Ids(e) = Ids(r)
      /\ e.wf = r.wf /\ e.parent = r.parent /\ e.due = r.due /\ e.max = r.max
      /\ HeldBy(e) = None /\ RunBy(e) = None /\ LeaseOf(e) = "none"
  BY <1>0, EndRowIs
<1>2. r.failures + 0 = r.failures
  BY DEF FakeRow
<1>3. y.outcome = o /\ y.finisher = a /\ y.pending = x.pending /\ y.cancel = x.cancel
  BY DecidedIs
<1> HIDE DEF e, y
<1>4. DbRow(e, y) = f
  BY <1>1, <1>2, <1>3, AsRow
<1>5. DbRow(r, x).due = r.due
  BY Columns
<1>6. Db!Unstreaked(DbRow(r, x), r.due) = DbRow(r, x)
  BY AsRow, UnstreakedRow
<1>7. Db!Finished(DbRow(r, x), "succeeded", o, a) = f
  BY AsRow, FinishedRow
<1> QED  BY <1>4, <1>5, <1>6, <1>7 DEF e, y

LEMMA DeadImage ==
    ASSUME NEW r \in FakeRow, NEW x \in ExtraRow, NEW v \in Verbs, NEW a \in Attempts,
           NEW o \in Outcomes
    PROVE  DbRow(EndRow(r, "failed", 1, v), Decided(x, o, a))
             = Db!Finished(Db!Charged(DbRow(r, x), 0), "failed", o, a)
<1> DEFINE e == EndRow(r, "failed", 1, v)
           y == Decided(x, o, a)
           f == Row("failed", o, Ids(r), r.wf, r.parent, x.pending, r.due, None, None,
                    "none", x.cancel, r.failures + 1, r.max, a)
<1>0. "failed" \in Terminal /\ 1 \in Nat
  BY DEF Terminal
<1>1. /\ e.status = "failed" /\ e.failures = r.failures + 1 /\ e.key = r.key /\ Ids(e) = Ids(r)
      /\ e.wf = r.wf /\ e.parent = r.parent /\ e.due = r.due /\ e.max = r.max
      /\ HeldBy(e) = None /\ RunBy(e) = None /\ LeaseOf(e) = "none"
  BY <1>0, EndRowIs
<1>2. y.outcome = o /\ y.finisher = a /\ y.pending = x.pending /\ y.cancel = x.cancel
  BY DecidedIs
<1> HIDE DEF e, y
<1>3. DbRow(e, y) = f
  BY <1>1, <1>2, AsRow
<1>4. Db!Charged(DbRow(r, x), 0)
        = Row(r.status, x.outcome, Ids(r), r.wf, r.parent, x.pending, r.due, HeldBy(r),
              RunBy(r), LeaseOf(r), x.cancel, r.failures + 1, r.max, x.finisher)
  BY AsRow, ChargedRow
<1>5. Db!Finished(Db!Charged(DbRow(r, x), 0), "failed", o, a) = f
  BY <1>4, FinishedRow
<1> QED  BY <1>3, <1>5 DEF e, y

LEMMA CancelImage ==
    ASSUME NEW r \in FakeRow, NEW x \in ExtraRow, NEW v \in Verbs, NEW a \in Attempts,
           NEW o \in Outcomes
    PROVE  DbRow(EndRow(r, "cancelled", 0, v), Decided(x, o, a))
             = Db!Finished(DbRow(r, x), "cancelled", o, a)
<1> DEFINE e == EndRow(r, "cancelled", 0, v)
           y == Decided(x, o, a)
           f == Row("cancelled", o, Ids(r), r.wf, r.parent, x.pending, r.due, None, None,
                    "none", x.cancel, r.failures, r.max, a)
<1>0. "cancelled" \in Terminal /\ 0 \in Nat
  BY DEF Terminal
<1>1. /\ e.status = "cancelled" /\ e.failures = r.failures + 0 /\ e.key = r.key /\ Ids(e) = Ids(r)
      /\ e.wf = r.wf /\ e.parent = r.parent /\ e.due = r.due /\ e.max = r.max
      /\ HeldBy(e) = None /\ RunBy(e) = None /\ LeaseOf(e) = "none"
  BY <1>0, EndRowIs
<1>2. r.failures + 0 = r.failures
  BY DEF FakeRow
<1>3. y.outcome = o /\ y.finisher = a /\ y.pending = x.pending /\ y.cancel = x.cancel
  BY DecidedIs
<1> HIDE DEF e, y
<1>4. DbRow(e, y) = f
  BY <1>1, <1>2, <1>3, AsRow
<1>5. Db!Finished(DbRow(r, x), "cancelled", o, a) = f
  BY AsRow, FinishedRow
<1> QED  BY <1>4, <1>5 DEF e, y

\* A settlement that puts the job back.
LEMMA RetryImage ==
    ASSUME NEW r \in FakeRow, NEW x, NEW v \in Verbs, NEW due \in BOOLEAN
    PROVE  DbRow(BackRow(r, due, 1, v), x) = Db!Requeued(Db!Charged(DbRow(r, x), 0), due)
<1> DEFINE e == BackRow(r, due, 1, v)
           f == Row("queued", x.outcome, Ids(r), r.wf, r.parent, x.pending, due, None, None,
                    "none", x.cancel, r.failures + 1, r.max, x.finisher)
<1>1. /\ e.status = "queued" /\ e.failures = r.failures + 1 /\ e.key = r.key /\ Ids(e) = Ids(r)
      /\ e.wf = r.wf /\ e.parent = r.parent /\ e.due = due /\ e.max = r.max
      /\ HeldBy(e) = None /\ RunBy(e) = None /\ LeaseOf(e) = "none"
  BY BackRowIs
<1> HIDE DEF e
<1>2. DbRow(e, x) = f
  BY <1>1, AsRow
<1>3. Db!Charged(DbRow(r, x), 0)
        = Row(r.status, x.outcome, Ids(r), r.wf, r.parent, x.pending, r.due, HeldBy(r),
              RunBy(r), LeaseOf(r), x.cancel, r.failures + 1, r.max, x.finisher)
  BY AsRow, ChargedRow
<1>4. Db!Requeued(Db!Charged(DbRow(r, x), 0), due) = f
  BY <1>3, RequeuedRow
<1> QED  BY <1>2, <1>4 DEF e

LEMMA BackImage ==
    ASSUME NEW r \in FakeRow, NEW x, NEW v \in Verbs, NEW due \in BOOLEAN
    PROVE  LET e == DbRow(r, x) IN
           /\ DbRow(BackRow(r, due, 0, v), x) = Db!Requeued(e, due)
           /\ DbRow(BackRow(r, due, 0, v), x) = Db!Requeued(Db!Unstreaked(e, due), due)
<1> DEFINE e == BackRow(r, due, 0, v)
           f == Row("queued", x.outcome, Ids(r), r.wf, r.parent, x.pending, due, None, None,
                    "none", x.cancel, r.failures, r.max, x.finisher)
<1>1. /\ e.status = "queued" /\ e.failures = r.failures + 0 /\ e.key = r.key /\ Ids(e) = Ids(r)
      /\ e.wf = r.wf /\ e.parent = r.parent /\ e.due = due /\ e.max = r.max
      /\ HeldBy(e) = None /\ RunBy(e) = None /\ LeaseOf(e) = "none"
  BY BackRowIs
<1>2. r.failures + 0 = r.failures
  BY DEF FakeRow
<1> HIDE DEF e
<1>3. DbRow(e, x) = f
  BY <1>1, <1>2, AsRow
<1>4. Db!Requeued(DbRow(r, x), due) = f
  BY AsRow, RequeuedRow
<1>5. Db!Unstreaked(DbRow(r, x), due)
        = Row(r.status, x.outcome, Ids(r), r.wf, r.parent, x.pending, due, HeldBy(r),
              RunBy(r), LeaseOf(r), x.cancel, r.failures, r.max, x.finisher)
  BY AsRow, UnstreakedRow
<1>6. Db!Requeued(Db!Unstreaked(DbRow(r, x), due), due) = f
  BY <1>5, RequeuedRow
<1> QED  BY <1>3, <1>4, <1>6 DEF e

\* A row that waits is written in one column.
WithStatus(r, s) == [r EXCEPT !.status = s]

LEMMA WithStatusIs ==
    ASSUME NEW r \in FakeRow, r.status \in Waiting, NEW s \in {"queued", "cancelled"}
    PROVE  LET e == WithStatus(r, s) IN
           /\ e \in FakeRow /\ e.status = s /\ e.key = r.key /\ Ids(e) = Ids(r) /\ e.wf = r.wf
           /\ e.parent = r.parent /\ e.due = r.due /\ e.failures = r.failures
           /\ e.max = r.max /\ e.needs = r.needs
           /\ HeldBy(e) = None /\ RunBy(e) = None /\ LeaseOf(e) = "none"
           /\ HeldBy(r) = None /\ RunBy(r) = None /\ LeaseOf(r) = "none"
<1> DEFINE e == WithStatus(r, s)
<1>1. e \in FakeRow
  BY DEF WithStatus, FakeRow, Terminal, Active, Waiting
<1>2. /\ e.status = s /\ e.key = r.key /\ Ids(e) = Ids(r) /\ e.wf = r.wf /\ e.parent = r.parent
      /\ e.due = r.due /\ e.failures = r.failures /\ e.max = r.max /\ e.needs = r.needs
  BY DEF WithStatus, FakeRow, Ids, Names
<1>3. e.status # "running" /\ r.status # "running"
  BY <1>2 DEF Waiting
<1>4. /\ HeldBy(e) = None /\ RunBy(e) = None /\ LeaseOf(e) = "none"
      /\ HeldBy(r) = None /\ RunBy(r) = None /\ LeaseOf(r) = "none"
  BY <1>3 DEF HeldBy, RunBy, LeaseOf
<1> QED  BY <1>1, <1>2, <1>4

\* The history of a row that is cancelled with its parent, by its workflow, or
\* that lost an edge.
DepLost(x)  == [x EXCEPT !.outcome = "dep_failed"]
FlowLost(x) == [x EXCEPT !.outcome = "canceled", !.cancel = TRUE]
Lighter(x)  == [x EXCEPT !.pending = @ - 1]
Asked(x)    == [x EXCEPT !.cancel = TRUE]

LEMMA DepLostIs ==
    ASSUME NEW x \in ExtraRow
    PROVE  LET y == DepLost(x) IN
           /\ y \in ExtraRow /\ y.outcome = "dep_failed" /\ y.finisher = x.finisher
           /\ y.pending = x.pending /\ y.cancel = x.cancel
<1> DEFINE y == DepLost(x)
<1>1. y \in ExtraRow
  BY DEF DepLost, ExtraRow, Outcomes
<1>2. /\ y.outcome = "dep_failed" /\ y.finisher = x.finisher /\ y.pending = x.pending
      /\ y.cancel = x.cancel
  BY DEF DepLost, ExtraRow
<1> QED  BY <1>1, <1>2

LEMMA FlowLostIs ==
    ASSUME NEW x \in ExtraRow
    PROVE  LET y == FlowLost(x) IN
           /\ y \in ExtraRow /\ y.outcome = "canceled" /\ y.finisher = x.finisher
           /\ y.pending = x.pending /\ y.cancel
<1> DEFINE y == FlowLost(x)
<1>0. y = [[x EXCEPT !.outcome = "canceled"] EXCEPT !.cancel = TRUE]
  BY DEF FlowLost
<1>1. y \in ExtraRow
  BY <1>0 DEF ExtraRow, Outcomes
<1>2. y.outcome = "canceled" /\ y.finisher = x.finisher /\ y.pending = x.pending
  BY <1>0 DEF ExtraRow
<1>3. y.cancel
  BY <1>0 DEF ExtraRow
<1> QED  BY <1>1, <1>2, <1>3

LEMMA LighterIs ==
    ASSUME NEW x \in ExtraRow, x.pending # 0
    PROVE  LET y == Lighter(x) IN
           /\ y \in ExtraRow /\ y.pending = x.pending - 1 /\ y.outcome = x.outcome
           /\ y.finisher = x.finisher /\ y.cancel = x.cancel
<1> DEFINE n == x.pending - 1
           y == Lighter(x)
<1>0. n \in Nat
  BY DEF ExtraRow
<1>1. y = [x EXCEPT !.pending = n]
  BY DEF Lighter
<1> HIDE DEF n
<1>2. y \in ExtraRow
  BY <1>0, <1>1 DEF ExtraRow
<1>3. /\ y.pending = n /\ y.outcome = x.outcome /\ y.finisher = x.finisher
      /\ y.cancel = x.cancel
  BY <1>1 DEF ExtraRow
<1> QED  BY <1>2, <1>3 DEF n

LEMMA AskedIs ==
    ASSUME NEW x \in ExtraRow
    PROVE  LET y == Asked(x) IN
           /\ y \in ExtraRow /\ y.outcome = x.outcome /\ y.finisher = x.finisher
           /\ y.pending = x.pending /\ y.cancel
           /\ x.cancel => y = x
<1> DEFINE y == Asked(x)
<1>1. y \in ExtraRow
  BY DEF Asked, ExtraRow
<1>2. y.outcome = x.outcome /\ y.finisher = x.finisher /\ y.pending = x.pending
  BY DEF Asked, ExtraRow
<1>3. y.cancel
  BY DEF Asked, ExtraRow
<1>4. x.cancel => y = x
  BY DEF Asked, ExtraRow
<1> QED  BY <1>1, <1>2, <1>3, <1>4

\* A child of a job that failed or was cancelled.
LEMMA DoomedImage ==
    ASSUME NEW r \in FakeRow, NEW x \in ExtraRow, r.status \in Waiting
    PROVE  DbRow(WithStatus(r, "cancelled"), DepLost(x)) = Db!DepCancelled(DbRow(r, x))
<1> DEFINE e == WithStatus(r, "cancelled")
           y == DepLost(x)
           f == Row("cancelled", "dep_failed", Ids(r), r.wf, r.parent, x.pending, r.due,
                    None, None, "none", x.cancel, r.failures, r.max, x.finisher)
<1>1. /\ e.status = "cancelled" /\ e.key = r.key
      /\ Ids(e) = Ids(r) /\ e.wf = r.wf /\ e.parent = r.parent
      /\ e.due = r.due /\ e.failures = r.failures /\ e.max = r.max
      /\ HeldBy(e) = None /\ RunBy(e) = None /\ LeaseOf(e) = "none"
      /\ HeldBy(r) = None /\ RunBy(r) = None /\ LeaseOf(r) = "none"
  BY WithStatusIs
<1>2. /\ y.outcome = "dep_failed" /\ y.finisher = x.finisher /\ y.pending = x.pending
      /\ y.cancel = x.cancel
  BY DepLostIs
<1> HIDE DEF e, y
<1>3. DbRow(e, y) = f
  BY <1>1, <1>2, AsRow
<1>4. Db!DepCancelled(DbRow(r, x)) = f
  BY <1>1, AsRow, DepCancelledRow
<1> QED  BY <1>3, <1>4 DEF e, y

\* A blocked child of a job that succeeded.
LEMMA PromotedImage ==
    ASSUME NEW r \in FakeRow, NEW x \in ExtraRow, r.status = "blocked", x.pending # 0
    PROVE  /\ x.pending = 1 =>
                DbRow(WithStatus(r, "queued"), Lighter(x)) = Db!Promoted(DbRow(r, x))
           /\ x.pending # 1 => DbRow(r, Lighter(x)) = Db!Promoted(DbRow(r, x))
<1> DEFINE e == WithStatus(r, "queued")
           y == Lighter(x)
           f(s) == Row(s, x.outcome, Ids(r), r.wf, r.parent, x.pending - 1, r.due,
                       None, None, "none", x.cancel, r.failures, r.max, x.finisher)
<1>1. /\ e.status = "queued" /\ e.key = r.key
      /\ Ids(e) = Ids(r) /\ e.wf = r.wf /\ e.parent = r.parent
      /\ e.due = r.due /\ e.failures = r.failures /\ e.max = r.max
      /\ HeldBy(e) = None /\ RunBy(e) = None /\ LeaseOf(e) = "none"
      /\ HeldBy(r) = None /\ RunBy(r) = None /\ LeaseOf(r) = "none"
  BY WithStatusIs DEF Waiting
<1>2. /\ y.pending = x.pending - 1 /\ y.outcome = x.outcome /\ y.finisher = x.finisher
      /\ y.cancel = x.cancel
  BY LighterIs
<1> HIDE DEF e, y
<1>3. DbRow(e, y) = f("queued")
  BY <1>1, <1>2, AsRow
<1>4. DbRow(r, y) = f("blocked")
  BY <1>1, <1>2, AsRow
<1>5. Db!Promoted(DbRow(r, x)) = f(IF x.pending = 1 THEN "queued" ELSE "blocked")
  BY <1>1, AsRow, PromotedRow
<1> QED  BY <1>3, <1>4, <1>5 DEF e, y

\* A waiting member of a cancelled workflow, and a running one.
LEMMA FlowImage ==
    ASSUME NEW r \in FakeRow, NEW x \in ExtraRow, r.status \in Waiting
    PROVE  DbRow(WithStatus(r, "cancelled"), FlowLost(x))
             = Db!CancelledWaiting(DbRow(r, x), "canceled")
<1> DEFINE e == WithStatus(r, "cancelled")
           y == FlowLost(x)
           f == Row("cancelled", "canceled", Ids(r), r.wf, r.parent, x.pending, r.due,
                    None, None, "none", y.cancel, r.failures, r.max, x.finisher)
<1>1. /\ e.status = "cancelled" /\ e.key = r.key
      /\ Ids(e) = Ids(r) /\ e.wf = r.wf /\ e.parent = r.parent
      /\ e.due = r.due /\ e.failures = r.failures /\ e.max = r.max
      /\ HeldBy(e) = None /\ RunBy(e) = None /\ LeaseOf(e) = "none"
      /\ HeldBy(r) = None /\ RunBy(r) = None /\ LeaseOf(r) = "none"
  BY WithStatusIs
<1>2. y.outcome = "canceled" /\ y.finisher = x.finisher /\ y.pending = x.pending
  BY FlowLostIs
<1>3. \A z : Told(z) = SetCancel(z, y.cancel)
  <2>1. y.cancel \in BOOLEAN /\ y.cancel
    BY FlowLostIs DEF ExtraRow
  <2> QED  BY <2>1, ToldTrue
<1> HIDE DEF e, y
<1>4. DbRow(e, y) = f
  BY <1>1, <1>2, AsRow
<1>5. Db!CancelledWaiting(DbRow(r, x), "canceled") = f
  BY <1>1, <1>3, AsRow, CancelWrites
<1> QED  BY <1>4, <1>5 DEF e, y

LEMMA AskedImage ==
    ASSUME NEW r, NEW x \in ExtraRow
    PROVE  DbRow(r, Asked(x)) = Told(DbRow(r, x))
<1> DEFINE y == Asked(x)
           f == Row(r.status, x.outcome, Ids(r), r.wf, r.parent, x.pending, r.due,
                    HeldBy(r), RunBy(r), LeaseOf(r), y.cancel, r.failures, r.max, x.finisher)
<1>1. y.outcome = x.outcome /\ y.finisher = x.finisher /\ y.pending = x.pending
  BY AskedIs
<1>2. \A z : Told(z) = SetCancel(z, y.cancel)
  <2>1. y.cancel \in BOOLEAN /\ y.cancel
    BY AskedIs DEF ExtraRow
  <2> QED  BY <2>1, ToldTrue
<1> HIDE DEF y
<1>3. DbRow(r, y) = f
  BY <1>1, AsRow
<1>4. Told(DbRow(r, x)) = f
  BY <1>2, AsRow, CancelWrites
<1> QED  BY <1>3, <1>4 DEF y

\* A cancel request that is taken back.
Untold(e) == [e EXCEPT !.cancel = FALSE]

LEMMA UndoneImage ==
    ASSUME NEW r, NEW x \in ExtraRow
    PROVE  DbRow(r, Undone(x)) = Untold(DbRow(r, x))
<1> DEFINE y == Undone(x)
           f == Row(r.status, x.outcome, Ids(r), r.wf, r.parent, x.pending, r.due,
                    HeldBy(r), RunBy(r), LeaseOf(r), y.cancel, r.failures, r.max, x.finisher)
<1>1. y.outcome = x.outcome /\ y.finisher = x.finisher /\ y.pending = x.pending
  BY UndoneIs
<1>2. \A z : Untold(z) = SetCancel(z, y.cancel)
  <2>1. y.cancel \in BOOLEAN /\ ~y.cancel
    BY UndoneIs DEF ExtraRow
  <2> HIDE DEF y
  <2> QED  BY <2>1 DEF Untold, SetCancel
<1> HIDE DEF y
<1>3. DbRow(r, y) = f
  BY <1>1, AsRow
<1>4. SetCancel(DbRow(r, x), y.cancel) = f
  BY AsRow, OneColumn
<1> QED  BY <1>2, <1>3, <1>4 DEF y

\* A job that is inserted.
SetIdem(e, v)   == [e EXCEPT !.idem = v]
SetCkey(e, v)   == [e EXCEPT !.ckey = v]
SetTtl(e, v)    == [e EXCEPT !.ttl = v]
SetWf(e, v)     == [e EXCEPT !.wf = v]
SetParent(e, v) == [e EXCEPT !.parent = v]
SetMax(e, v)    == [e EXCEPT !.max = v]

LEMMA OtherColumns ==
    ASSUME NEW s, NEW o, NEW k, NEW w, NEW p, NEW n, NEW d, NEW a, NEW h, NEW l, NEW c,
           NEW f, NEW m, NEW g, NEW v
    PROVE  /\ SetWf(Row(s, o, k, w, p, n, d, a, h, l, c, f, m, g), v)
                = Row(s, o, k, v, p, n, d, a, h, l, c, f, m, g)
           /\ SetParent(Row(s, o, k, w, p, n, d, a, h, l, c, f, m, g), v)
                = Row(s, o, k, w, v, n, d, a, h, l, c, f, m, g)
           /\ SetMax(Row(s, o, k, w, p, n, d, a, h, l, c, f, m, g), v)
                = Row(s, o, k, w, p, n, d, a, h, l, c, f, v, g)
<1>1. SetWf(Row(s, o, k, w, p, n, d, a, h, l, c, f, m, g), v)
      = Row(s, o, k, v, p, n, d, a, h, l, c, f, m, g)
  BY DEF Row, SetWf
<1>2. SetParent(Row(s, o, k, w, p, n, d, a, h, l, c, f, m, g), v)
      = Row(s, o, k, w, v, n, d, a, h, l, c, f, m, g)
  BY DEF Row, SetParent
<1>3. SetMax(Row(s, o, k, w, p, n, d, a, h, l, c, f, m, g), v)
      = Row(s, o, k, w, p, n, d, a, h, l, c, f, v, g)
  BY DEF Row, SetMax
<1> QED  BY <1>1, <1>2, <1>3

LEMMA NameColumns ==
    ASSUME NEW s, NEW o, NEW q, NEW ck, NEW t, NEW w, NEW p, NEW n, NEW d, NEW a, NEW h,
           NEW l, NEW c, NEW f, NEW m, NEW g, NEW v
    PROVE  /\ SetIdem(Row(s, o, Names(q, ck, t), w, p, n, d, a, h, l, c, f, m, g), v)
                = Row(s, o, Names(v, ck, t), w, p, n, d, a, h, l, c, f, m, g)
           /\ SetCkey(Row(s, o, Names(q, ck, t), w, p, n, d, a, h, l, c, f, m, g), v)
                = Row(s, o, Names(q, v, t), w, p, n, d, a, h, l, c, f, m, g)
           /\ SetTtl(Row(s, o, Names(q, ck, t), w, p, n, d, a, h, l, c, f, m, g), v)
                = Row(s, o, Names(q, ck, v), w, p, n, d, a, h, l, c, f, m, g)
<1>1. SetIdem(Row(s, o, Names(q, ck, t), w, p, n, d, a, h, l, c, f, m, g), v)
        = Row(s, o, Names(v, ck, t), w, p, n, d, a, h, l, c, f, m, g)
  BY DEF Row, Names, SetIdem
<1>2. SetCkey(Row(s, o, Names(q, ck, t), w, p, n, d, a, h, l, c, f, m, g), v)
        = Row(s, o, Names(q, v, t), w, p, n, d, a, h, l, c, f, m, g)
  BY DEF Row, Names, SetCkey
<1>3. SetTtl(Row(s, o, Names(q, ck, t), w, p, n, d, a, h, l, c, f, m, g), v)
        = Row(s, o, Names(q, ck, v), w, p, n, d, a, h, l, c, f, m, g)
  BY DEF Row, Names, SetTtl
<1> QED  BY <1>1, <1>2, <1>3

LEMMA NewJobRow ==
    ASSUME NEW s, NEW k, NEW ck, NEW w, NEW p, NEW n, NEW d, NEW t, NEW m
    PROVE  Db!NewJob(s, k, ck, w, p, n, d, t, m)
             = Row(s, None, Names(k, ck, t), w, p, n, d, None, None, "none", Db!NoJob.cancel, 0,
                   m, None)
<1> DEFINE c == Db!NoJob.cancel
           d0 == Db!NoJob.due
           i0 == Names(None, None, "none")
           i1 == Names(k, None, "none")
           i2 == Names(k, ck, "none")
           i3 == Names(k, ck, t)
<1>3. Db!NoJob = Row("absent", None, i0, None, None, 0, d0, None, None, "none", c, 0, 0, None)
  BY DEF Row, Names, Db!NoJob
<1> HIDE DEF c, d0
<1>4. SetStatus(Row("absent", None, i0, None, None, 0, d0, None, None, "none", c, 0, 0,
        None), s)
      = Row(s, None, i0, None, None, 0, d0, None, None, "none", c, 0, 0, None)
  BY OneColumn
<1>5. SetIdem(Row(s, None, i0, None, None, 0, d0, None, None, "none", c, 0, 0, None), k)
      = Row(s, None, i1, None, None, 0, d0, None, None, "none", c, 0, 0, None)
  BY NameColumns
<1>6. SetCkey(Row(s, None, i1, None, None, 0, d0, None, None, "none", c, 0, 0, None), ck)
      = Row(s, None, i2, None, None, 0, d0, None, None, "none", c, 0, 0, None)
  BY NameColumns
<1>7. SetWf(Row(s, None, i2, None, None, 0, d0, None, None, "none", c, 0, 0, None), w)
      = Row(s, None, i2, w, None, 0, d0, None, None, "none", c, 0, 0, None)
  BY OtherColumns
<1>8. SetParent(Row(s, None, i2, w, None, 0, d0, None, None, "none", c, 0, 0, None), p)
      = Row(s, None, i2, w, p, 0, d0, None, None, "none", c, 0, 0, None)
  BY OtherColumns
<1>9. SetPending(Row(s, None, i2, w, p, 0, d0, None, None, "none", c, 0, 0, None), n)
      = Row(s, None, i2, w, p, n, d0, None, None, "none", c, 0, 0, None)
  BY OneColumn
<1>10. SetDue(Row(s, None, i2, w, p, n, d0, None, None, "none", c, 0, 0, None), d)
      = Row(s, None, i2, w, p, n, d, None, None, "none", c, 0, 0, None)
  BY OneColumn
<1>11. SetTtl(Row(s, None, i2, w, p, n, d, None, None, "none", c, 0, 0, None), t)
      = Row(s, None, i3, w, p, n, d, None, None, "none", c, 0, 0, None)
  BY NameColumns
<1>12. SetMax(Row(s, None, i3, w, p, n, d, None, None, "none", c, 0, 0, None), m)
      = Row(s, None, i3, w, p, n, d, None, None, "none", c, 0, m, None)
  BY OtherColumns
<1>13. Db!NewJob(s, k, ck, w, p, n, d, t, m)
      = SetMax(SetTtl(SetDue(SetPending(SetParent(SetWf(SetCkey(SetIdem(SetStatus(Db!NoJob, s),
        k), ck), w), p), n), d), t), m)
  BY DEF Db!NewJob, SetStatus, SetIdem, SetCkey, SetWf, SetParent, SetPending, SetDue,
     SetTtl, SetMax
<1> HIDE DEF i0, i1, i2, i3
<1>14. Db!NewJob(s, k, ck, w, p, n, d, t, m)
      = Row(s, None, i3, w, p, n, d, None, None, "none", c, 0, m, None)
  BY <1>3, <1>4, <1>5, <1>6, <1>7, <1>8, <1>9, <1>10, <1>11, <1>12, <1>13
<1> QED  BY <1>14 DEF c, i3

\* What a command may be.
Command ==
    [key : Keys \cup {None}, ckey : ConcKeys \cup {None}, ttl : {"none", "live"},
     due : BOOLEAN, max : Nat]

LEMMA CommandsAre ==
    /\ \A c \in Commands : c \in Command /\ c.max \in Budgets
    /\ \A due \in BOOLEAN, max \in Budgets : Followup(due, max) \in Command
BY FakeAssumption DEF Command, Followup

\* The rows enqueue and complete insert.
LEMMA NewRowIs ==
    ASSUME NEW s \in Waiting, NEW c \in Command, NEW w \in Workflows \cup {None},
           NEW D \in SUBSET Jobs, NEW p \in Jobs \cup {None}
    PROVE  LET e == NewRow(s, c, w, D, p) IN
           /\ e \in FakeRow /\ e.status = s /\ e.wf = w /\ e.needs = D
           /\ e.key = c.key /\ e.ckey = c.ckey /\ e.ttl = c.ttl
           /\ e.due = c.due /\ e.failures = 0 /\ e.max = c.max /\ e.parent = p
           /\ HeldBy(e) = None /\ RunBy(e) = None /\ LeaseOf(e) = "none"
<1> DEFINE e == NewRow(s, c, w, D, p)
<1>0. /\ c.key \in Keys \cup {None} /\ c.ckey \in ConcKeys \cup {None}
      /\ c.ttl \in {"none", "live", "expired"} /\ c.due \in BOOLEAN /\ c.max \in Nat
  BY DEF Command
<1>1. NoRow \in FakeRow /\ NoRow.failures = 0
  BY DEF NoRow, FakeRow
<1>2. e \in FakeRow
  <2> DEFINE r1 == [NoRow EXCEPT !.status = s]
             r2 == [r1 EXCEPT !.key = c.key]
             r3 == [r2 EXCEPT !.ckey = c.ckey]
             r4 == [r3 EXCEPT !.ttl = c.ttl]
             r5 == [r4 EXCEPT !.wf = w]
             r6 == [r5 EXCEPT !.needs = D]
             r7 == [r6 EXCEPT !.due = c.due]
             r8 == [r7 EXCEPT !.max = c.max]
             r9 == [r8 EXCEPT !.parent = p]
  <2>0. e = r9
    BY DEF NewRow
  <2>1. r1 \in FakeRow
    BY <1>1 DEF FakeRow, Active
  <2> HIDE DEF r1
  <2>2. r2 \in FakeRow
    BY <1>0, <2>1 DEF FakeRow
  <2> HIDE DEF r2
  <2>3. r3 \in FakeRow
    BY <1>0, <2>2 DEF FakeRow
  <2> HIDE DEF r3
  <2>4. r4 \in FakeRow
    BY <1>0, <2>3 DEF FakeRow
  <2> HIDE DEF r4
  <2>5. r5 \in FakeRow
    BY <1>0, <2>4 DEF FakeRow
  <2> HIDE DEF r5
  <2>6. r6 \in FakeRow
    BY <1>0, <2>5 DEF FakeRow
  <2> HIDE DEF r6
  <2>7. r7 \in FakeRow
    BY <1>0, <2>6 DEF FakeRow
  <2> HIDE DEF r7
  <2>8. r8 \in FakeRow
    BY <1>0, <2>7 DEF FakeRow
  <2> HIDE DEF r8
  <2>9. r9 \in FakeRow
    BY <1>0, <2>8 DEF FakeRow
  <2> QED  BY <2>0, <2>9
<1>3. /\ e.status = s /\ e.wf = w /\ e.needs = D
      /\ e.key = c.key /\ e.ckey = c.ckey /\ e.ttl = c.ttl
      /\ e.due = c.due /\ e.failures = 0 /\ e.max = c.max /\ e.parent = p
  BY <1>1 DEF NewRow, FakeRow
<1>4. HeldBy(e) = None /\ RunBy(e) = None /\ LeaseOf(e) = "none"
  BY <1>3 DEF HeldBy, RunBy, LeaseOf, Waiting
<1> QED  BY <1>2, <1>3, <1>4

\* What is known of a new job.
Fresh(n) == [NoExtra EXCEPT !.pending = n]

LEMMA FreshIs ==
    ASSUME NEW n \in Nat
    PROVE  LET x == Fresh(n) IN
           /\ x \in ExtraRow /\ x.outcome = None /\ x.finisher = None /\ x.pending = n
           /\ x.cancel = FALSE
           /\ Fresh(0) = NoExtra
<1>1. /\ NoExtra \in ExtraRow /\ NoExtra.outcome = None /\ NoExtra.finisher = None
      /\ NoExtra.pending = 0 /\ ~NoExtra.cancel
  BY DEF NoExtra, ExtraRow
<1>2. Fresh(n) \in ExtraRow
  BY <1>1 DEF Fresh, ExtraRow
<1>3. Fresh(n).outcome = None /\ Fresh(n).finisher = None /\ Fresh(n).pending = n
  BY <1>1 DEF Fresh, ExtraRow
<1>4. ~Fresh(n).cancel
  BY <1>1 DEF Fresh, ExtraRow
<1>5. Fresh(0) = NoExtra
  BY <1>1 DEF Fresh, ExtraRow
<1>6. Fresh(n).cancel = FALSE
  BY <1>2, <1>4 DEF ExtraRow
<1> QED  BY <1>2, <1>3, <1>5, <1>6

LEMMA NewImage ==
    ASSUME NEW s \in Waiting, NEW c \in Command, NEW w \in Workflows \cup {None},
           NEW D \in SUBSET Jobs, NEW p \in Jobs \cup {None}, NEW n \in Nat
    PROVE  DbRow(NewRow(s, c, w, D, p), Fresh(n))
             = Db!NewJob(s, c.key, c.ckey, w, p, n, c.due, c.ttl, c.max)
<1> DEFINE e == NewRow(s, c, w, D, p)
           x == Fresh(n)
<1>1. /\ e.status = s /\ e.wf = w /\ e.due = c.due /\ e.failures = 0
      /\ e.key = c.key /\ e.ckey = c.ckey /\ e.ttl = c.ttl
      /\ e.max = c.max /\ e.parent = p
      /\ HeldBy(e) = None /\ RunBy(e) = None /\ LeaseOf(e) = "none"
  BY NewRowIs
<1>2. x.outcome = None /\ x.finisher = None /\ x.pending = n /\ x.cancel = FALSE
  BY FreshIs
<1> HIDE DEF e, x
<1>3. Ids(e) = Names(c.key, c.ckey, c.ttl)
  BY <1>1 DEF Ids
<1>4. DbRow(e, x) = Row(s, None, Names(c.key, c.ckey, c.ttl), w, p, n, c.due, None, None, "none",
                        x.cancel, 0, c.max, None)
  BY <1>1, <1>2, <1>3, AsRow
<1>5. x.cancel = Db!NoJob.cancel
  BY <1>2 DEF Db!NoJob
<1> QED  BY <1>4, <1>5, NewJobRow DEF e, x

\* scheduled_at is reached.
AtDue(e) == [e EXCEPT !.due = TRUE]

LEMMA AtDueIs ==
    ASSUME NEW r \in FakeRow
    PROVE  LET e == AtDue(r) IN
           /\ e \in FakeRow /\ e.status = r.status /\ e.key = r.key
           /\ Ids(e) = Ids(r) /\ e.wf = r.wf
           /\ e.att = r.att /\ e.worker = r.worker /\ e.settled = r.settled
           /\ e.parent = r.parent /\ e.failures = r.failures /\ e.max = r.max
           /\ e.needs = r.needs /\ e.due
<1> DEFINE e == AtDue(r)
<1>1. e \in FakeRow
  BY DEF AtDue, FakeRow
<1>2. /\ e.status = r.status /\ e.key = r.key /\ Ids(e) = Ids(r) /\ e.wf = r.wf
      /\ e.att = r.att /\ e.worker = r.worker /\ e.settled = r.settled
      /\ e.parent = r.parent /\ e.failures = r.failures /\ e.max = r.max /\ e.needs = r.needs
  BY DEF AtDue, FakeRow, Ids, Names
<1>3. e.due
  BY DEF AtDue, FakeRow
<1> QED  BY <1>1, <1>2, <1>3

LEMMA DueImage ==
    ASSUME NEW r \in FakeRow, NEW x
    PROVE  DbRow(AtDue(r), x) = AtDue(DbRow(r, x))
<1> DEFINE e == AtDue(r)
           f == Row(r.status, x.outcome, Ids(r), r.wf, r.parent, x.pending, e.due,
                    HeldBy(r), RunBy(r), LeaseOf(r), x.cancel, r.failures, r.max, x.finisher)
<1>1. /\ e.status = r.status /\ e.key = r.key /\ Ids(e) = Ids(r) /\ e.wf = r.wf /\ e.att = r.att
      /\ e.worker = r.worker /\ e.parent = r.parent /\ e.failures = r.failures
      /\ e.max = r.max
  BY AtDueIs
<1>2. \A z : AtDue(z) = SetDue(z, e.due)
  <2>1. e.due \in BOOLEAN /\ e.due
    BY AtDueIs DEF FakeRow
  <2> HIDE DEF e
  <2> QED  BY <2>1 DEF AtDue, SetDue
<1> HIDE DEF e
<1>3. HeldBy(e) = HeldBy(r) /\ RunBy(e) = RunBy(r) /\ LeaseOf(e) = LeaseOf(r)
  BY <1>1 DEF HeldBy, RunBy, LeaseOf
<1>4. DbRow(e, x) = f
  BY <1>1, <1>3, AsRow
<1>5. AtDue(DbRow(r, x)) = f
  BY <1>2, AsRow, OneColumn
<1> QED  BY <1>4, <1>5 DEF e

\* expires_at is passed.
Expired(e) == [e EXCEPT !.ttl = "expired"]

LEMMA ExpiredIs ==
    ASSUME NEW r \in FakeRow
    PROVE  LET e == Expired(r) IN
           /\ e \in FakeRow /\ e.status = r.status /\ e.key = r.key /\ e.wf = r.wf
           /\ e.att = r.att /\ e.worker = r.worker /\ e.settled = r.settled
           /\ e.parent = r.parent /\ e.failures = r.failures /\ e.max = r.max
           /\ e.needs = r.needs /\ e.due = r.due
           /\ Ids(e) = Names(r.key, r.ckey, "expired")
<1> DEFINE e == Expired(r)
<1>1. e \in FakeRow
  BY DEF Expired, FakeRow
<1>2. /\ e.status = r.status /\ e.key = r.key /\ e.wf = r.wf
      /\ e.att = r.att /\ e.worker = r.worker /\ e.settled = r.settled
      /\ e.parent = r.parent /\ e.failures = r.failures /\ e.max = r.max /\ e.needs = r.needs
      /\ e.due = r.due
  BY DEF Expired, FakeRow
<1>3. e.ckey = r.ckey /\ e.ttl = "expired"
  BY DEF Expired, FakeRow
<1> QED  BY <1>1, <1>2, <1>3 DEF Ids

LEMMA ExpiredImage ==
    ASSUME NEW r \in FakeRow, NEW x
    PROVE  DbRow(Expired(r), x) = Expired(DbRow(r, x))
<1> DEFINE e == Expired(r)
           f == Row(r.status, x.outcome, Names(r.key, r.ckey, "expired"), r.wf, r.parent,
                    x.pending, r.due, HeldBy(r), RunBy(r), LeaseOf(r), x.cancel, r.failures,
                    r.max, x.finisher)
<1>1. /\ e.status = r.status /\ e.wf = r.wf /\ e.att = r.att /\ e.due = r.due
      /\ e.worker = r.worker /\ e.parent = r.parent /\ e.failures = r.failures
      /\ e.max = r.max /\ Ids(e) = Names(r.key, r.ckey, "expired")
  BY ExpiredIs
<1> HIDE DEF e
<1>2. HeldBy(e) = HeldBy(r) /\ RunBy(e) = RunBy(r) /\ LeaseOf(e) = LeaseOf(r)
  BY <1>1 DEF HeldBy, RunBy, LeaseOf
<1>3. DbRow(e, x) = f
  BY <1>1, <1>2, AsRow
<1>4. Expired(DbRow(r, x)) = SetTtl(DbRow(r, x), "expired")
  BY DEF Expired, SetTtl
<1>5. DbRow(r, x) = Row(r.status, x.outcome, Names(r.key, r.ckey, r.ttl), r.wf, r.parent,
                        x.pending, r.due, HeldBy(r), RunBy(r), LeaseOf(r), x.cancel, r.failures,
                        r.max, x.finisher)
  BY AsRow DEF Ids
<1>6. SetTtl(DbRow(r, x), "expired") = f
  BY <1>5, NameColumns
<1> QED  BY <1>3, <1>4, <1>6 DEF e

Open(j) == {d \in rows[j].needs : rows[d].status # "succeeded"}

LedgerRow ==
    [status : {"absent", "running", "succeeded", "failed", "snoozed", "released", "cancelled"},
     job : Jobs \cup {None}, worker : Workers \cup {None}]

DrainRec ==
    [pc : {"idle", "claim", "run", "overflow"}, att : Attempts \cup {None}, n : Nat]

Types ==
    /\ rows \in [Jobs -> FakeRow] /\ extra \in [Jobs -> ExtraRow]
    /\ keys \in [Keys -> Jobs \cup {None}]
    /\ ledger \in [Attempts -> LedgerRow]
    /\ \A a \in Attempts : ledger[a].status # "absent" => ledger[a].job \in Jobs

\* drain runs an attempt it claimed.
DrainOK ==
    drain \in DrainRec /\ (drain.pc \in {"run", "overflow"} => drain.att \in Attempts)

\* A row that is not there yet has no columns, one that waits no cancel.
RowOK(j) ==
    /\ rows[j].status = "absent" => rows[j] = NoRow /\ extra[j] = NoExtra
    /\ rows[j].status \in Waiting => ~extra[j].cancel

\* What a step depends on is of its workflow; pending_deps counts what it still
\* waits for, and a step that is let run waits for nothing.
CountOK(j) ==
    /\ rows[j].status = "blocked" => extra[j].pending = Cardinality(Open(j))
    /\ rows[j].status \in {"queued", "running"} => Open(j) = {}

NeedsOK(j) ==
    /\ \A d \in rows[j].needs : rows[d].wf = rows[j].wf /\ rows[j].wf # None
    /\ CountOK(j)

\* The entry of _active_keys of an active job is its own.
KeyOK(j) ==
    rows[j].status \in Active /\ rows[j].key # None => keys[rows[j].key] = j

RowsInv == Types /\ \A j \in Jobs : RowOK(j) /\ NeedsOK(j) /\ KeyOK(j)

FakeInv == RowsInv /\ DrainOK

----------------------------------------------------------------------------
(* The tables *)

Table == [j \in Jobs |-> DbRow(rows[j], extra[j])]

LEMMA TableIs ==
    /\ Table = [j \in Jobs |-> DbJob(j)]
    /\ \A j \in Jobs : Table[j] = DbRow(rows[j], extra[j])
BY DEF Table, DbJob

LEMMA TableNext ==
    /\ Table' = [j \in Jobs |-> DbJob(j)]'
    /\ Table' = [j \in Jobs |-> DbRow(rows'[j], extra'[j])]
    /\ \A j \in Jobs : Table'[j] = DbRow(rows'[j], extra'[j])
<1>1. Table' = [j \in Jobs |-> DbJob(j)]'
  BY DEF Table, DbJob
<1>2. Table' = [j \in Jobs |-> DbRow(rows'[j], extra'[j])]
  BY DEF Table
<1> QED  BY <1>1, <1>2

LEMMA EdgeIs ==
    \A c, p : <<c, p>> \in Edges <=>
       /\ c \in Jobs /\ p \in Jobs
       /\ rows[c].status = "blocked" /\ p \in rows[c].needs /\ rows[p].status # "succeeded"
BY DEF Edges

LEMMA EdgeNext ==
    \A c, p : <<c, p>> \in Edges' <=>
       /\ c \in Jobs /\ p \in Jobs
       /\ rows'[c].status = "blocked" /\ p \in rows'[c].needs /\ rows'[p].status # "succeeded"
BY DEF Edges

LEMMA SameEdges ==
    ASSUME \A c \in Jobs : /\ rows'[c].status = "blocked" <=> rows[c].status = "blocked"
                           /\ rows'[c].status = "succeeded" <=> rows[c].status = "succeeded"
                           /\ rows[c].status = "blocked" => rows'[c].needs = rows[c].needs
    PROVE  Edges' = Edges
BY DEF Edges

LEMMA DbCard ==
    ASSUME NEW S PROVE Db!Cardinality(S) = Cardinality(S)
BY DEF Db!Cardinality, Cardinality

LEMMA RunningCount ==
    ASSUME NEW ck
    PROVE  Cardinality(Db!RunningWith(ck)) \in Nat
<1>1. Db!RunningWith(ck) \subseteq Jobs
  BY DEF Db!RunningWith
<1> QED  BY <1>1, FakeAssumption, FS_Subset, FS_CardinalityType

LEMMA ClaimSteps ==
    ASSUME RowsInv, NEW j \in Jobs, NEW w \in Workers, NEW a \in Attempts, claim(j, w, a)
    PROVE  Db!claim_jobs(j, w, a) \/ Overclaims
<1> DEFINE r == rows[j]
           e == RunRow(r, a, w)
<1>1. r \in FakeRow /\ rows \in [Jobs -> FakeRow] /\ r.status = "queued" /\ r.due
        /\ ~extra[j].cancel
  BY DEF RowsInv, Types, RowOK, claim, Waiting
<1>2. rows' = [rows EXCEPT ![j] = e] /\ extra' = extra
  <2>1. rows' = [rows EXCEPT ![j].status = "running", ![j].att = a, ![j].worker = w,
          ![j].settled = None]
    BY DEF claim
  <2> QED  BY <1>1, <2>1 DEF claim, RunRow
<1>3. e.status = "running" /\ e.needs = r.needs
  BY <1>1, RunRowIs
<1>4. DbRow(e, extra[j]) = Db!Claimed(DbRow(r, extra[j]), a, w)
  BY <1>1, ClaimImage
<1> HIDE DEF e
<1>5. Table' = [Table EXCEPT ![j] = Db!Claimed(Table[j], a, w)]
  BY <1>1, <1>2, <1>4, TableNext, TableIs DEF Table
<1>6. Edges' = Edges
  BY <1>1, <1>2, <1>3, SameEdges
<1>7. [c \in Jobs |-> rows[c].needs]' = [c \in Jobs |-> rows[c].needs]
  BY <1>1, <1>2, <1>3
<1>8. LET q == Table[j] IN /\ q.status = "queued" /\ q.due /\ ~q.cancel
                           /\ q.ckey \in ConcKeys \cup {None}
  BY <1>1, TableIs, Columns DEF FakeRow
<1>9. [c \in Jobs |-> DbJob(c)]' = Table' /\ [c \in Jobs |-> DbJob(c)] = Table
  BY TableIs, TableNext
<1>10. ledger[a].status = "absent"
         /\ ledger' = [ledger EXCEPT ![a] = [status |-> "running", job |-> j, worker |-> w]]
         /\ UNCHANGED settledBy
  BY DEF claim
<1>11. \A c \in Jobs : /\ rows'[c].needs = rows[c].needs
                       /\ DbJob(c)' = Table'[c] /\ DbJob(c) = Table[c]
  BY <1>1, <1>2, <1>3, TableIs, TableNext DEF DbJob
<1>12. \A c \in Jobs : Table'[c] = IF c = j THEN Db!Claimed(Table[j], a, w) ELSE Table[c]
  <2>1. Table = [c \in Jobs |-> DbJob(c)]
    BY TableIs
  <2> HIDE DEF Table
  <2> QED  BY <1>5, <2>1
<1> HIDE DEF Table
<1> DEFINE q == Table[j]
           N == Cardinality(Db!RunningWith(q.ckey))
<1>13. CASE q.ttl = "expired" \/ (q.ckey # None /\ N >= 1)
  <2>1. DbJob(j) = q
    BY <1>11
  <2>2. \A c \in Jobs : /\ DbJob(c)' = IF c = j THEN Db!Claimed(q, a, w) ELSE DbJob(c)
                        /\ rows'[c].needs = rows[c].needs
    BY <1>11, <1>12
  <2>3. q.status = "queued" /\ q.due /\ ~q.cancel
    BY <1>8
  <2> HIDE DEF q
  <2> QED  BY <1>6, <1>10, <1>13, <2>1, <2>2, <2>3 DEF Overclaims
<1>14. CASE q.ttl # "expired" /\ (q.ckey # None => ~(N >= 1))
  <2>1. q.ckey # None => N < 1 /\ N < [c \in ConcKeys |-> 1][q.ckey]
    BY <1>8, <1>14, RunningCount
  <2>2. Db!Cardinality(Db!RunningWith(q.ckey)) = N
    BY DbCard
  <2> HIDE DEF N
  <2> QED  BY <1>5, <1>6, <1>7, <1>8, <1>9, <1>10, <1>14, <2>1, <2>2 DEF Db!claim_jobs
<1> QED  BY <1>13, <1>14

\* Row j is inserted with parents D.
Inserted(j, c, w, D) ==
    LET open == {d \in D : rows[d].status # "succeeded"} IN
    /\ rows[j].status = "absent"
    /\ c.key # None => keys[c.key] = None
    /\ D # {} => w # None
    /\ \A d \in D : rows[d].wf = w /\ rows[d].status \notin {"failed", "cancelled"}
    /\ rows' = [rows EXCEPT ![j] =
                  NewRow(IF open # {} THEN "blocked" ELSE "queued", c, w, D, None)]
    /\ extra' = [extra EXCEPT ![j] = Fresh(Cardinality(open))]
    /\ keys' = IF c.key = None THEN keys ELSE [keys EXCEPT ![c.key] = j]
    /\ UNCHANGED <<ledger, settledBy, drain>>

LEMMA FiniteOpen ==
    ASSUME NEW D \in SUBSET Jobs
    PROVE  IsFiniteSet(D) /\ Cardinality(D) \in Nat
BY FakeAssumption, FS_Subset, FS_CardinalityType

LEMMA FreshExtra ==
    ASSUME RowsInv, NEW j \in Jobs, rows[j].status = "absent"
    PROVE  /\ extra[j] = Fresh(0) /\ extra[j] = NoExtra /\ rows[j] = NoRow
           /\ rows[j].wf = None /\ rows[j].key = None /\ rows[j].needs = {}
           /\ \A c \in Jobs : j \notin rows[c].needs
<1>1. extra[j] = NoExtra /\ rows[j] = NoRow
  BY DEF RowsInv, RowOK
<1>2. extra[j] = Fresh(0)
  BY <1>1, FreshIs
<1>3. rows[j].wf = None /\ rows[j].key = None /\ rows[j].needs = {}
  BY <1>1 DEF NoRow
<1>4. \A c \in Jobs : j \notin rows[c].needs
  BY <1>3 DEF RowsInv, NeedsOK, CountOK
<1> QED  BY <1>1, <1>2, <1>3, <1>4

LEMMA InsertSteps ==
    ASSUME RowsInv, NEW j \in Jobs, NEW cmd \in Command, NEW w \in Workflows \cup {None},
           NEW D \in SUBSET Jobs, Inserted(j, cmd, w, D)
    PROVE  Enqueued(j)
<1> DEFINE open == {d \in D : rows[d].status # "succeeded"}
           s == IF open # {} THEN "blocked" ELSE "queued"
           n == Cardinality(open)
           e == NewRow(s, cmd, w, D, None)
           k == cmd.key
           ck == cmd.ckey
           due == cmd.due
           ttl == cmd.ttl
           max == cmd.max
<1>1. rows \in [Jobs -> FakeRow] /\ extra \in [Jobs -> ExtraRow]
  BY DEF RowsInv, Types
<1>2. /\ rows' = [rows EXCEPT ![j] = e] /\ extra' = [extra EXCEPT ![j] = Fresh(n)]
      /\ ledger' = ledger /\ settledBy' = settledBy
  BY DEF Inserted
<1>3. n \in Nat /\ s \in Waiting /\ None \in Jobs \cup {None}
  BY FiniteOpen DEF Waiting
<1>4. /\ e.status = s /\ e.needs = D /\ e.key = k /\ e.ckey = ck /\ e.wf = w /\ e.due = due
      /\ e.ttl = ttl /\ e.max = max
  BY <1>3, NewRowIs
<1>5. DbRow(e, Fresh(n)) = Db!NewJob(s, k, ck, w, None, n, due, ttl, max)
  BY <1>3, NewImage
<1>6. \A d \in D : rows[d].status \in Db!Active \cup {"succeeded"} /\ rows[d].wf = w
  <2> SUFFICES ASSUME NEW d \in D
    PROVE rows[d].status \in Db!Active \cup {"succeeded"} /\ rows[d].wf = w
    OBVIOUS
  <2>1. rows[d].wf = w /\ w # None /\ rows[d].status \notin {"failed", "cancelled"}
    BY DEF Inserted
  <2>2. rows[d].status # "absent"
    BY <2>1, FreshExtra
  <2>3. rows[d].status \in Active \cup Terminal \cup {"absent"}
    BY <1>1 DEF FakeRow
  <2> QED  BY <2>1, <2>2, <2>3 DEF Active, Waiting, Terminal, Db!Active
<1>7. ~(k # None /\ \E i \in Jobs : Table[i].idem = k /\ Table[i].status \in Db!Active)
  <2> SUFFICES ASSUME k # None, NEW i \in Jobs, Table[i].idem = k, Table[i].status \in Db!Active
               PROVE FALSE
    OBVIOUS
  <2>1. rows[i].key = k /\ rows[i].status \in Active
    BY TableIs, Columns DEF Db!Active, Active, Waiting
  <2>2. keys[k] = i
    BY <2>1 DEF RowsInv, KeyOK
  <2>3. keys[k] = None
    BY DEF Inserted
  <2> QED  BY <2>2, <2>3, FakeAssumption
<1>8. open = {d \in D : Table[d].status # "succeeded"}
  BY TableIs, Columns
<1>9. \A c \in Jobs : j \notin rows[c].needs
  BY FreshExtra DEF Inserted
<1> HIDE DEF e, n, s, k, ck, due, ttl, max
<1>10. Table' = [Table EXCEPT ![j] = Db!NewJob(s, k, ck, w, None, n, due, ttl, max)]
  BY <1>1, <1>2, <1>5, TableNext, TableIs DEF Table
<1>11. [c \in Jobs |-> rows[c].needs]' = [[c \in Jobs |-> rows[c].needs] EXCEPT ![j] = D]
  BY <1>1, <1>2, <1>4
<1>12. Edges' = Edges \cup {<<j, d>> : d \in open}
  <2>0. j \notin D /\ D \subseteq Jobs
    BY <1>4, <1>6 DEF Inserted, Db!Active
  <2>1. \A c, p \in Jobs : <<c, p>> \in Edges' <=> <<c, p>> \in Edges \cup {<<j, d>> : d \in open}
    <3> SUFFICES ASSUME NEW c \in Jobs, NEW p \in Jobs
                 PROVE  <<c, p>> \in Edges' <=> <<c, p>> \in Edges \/ (c = j /\ p \in open)
      OBVIOUS
    <3>2. <<c, p>> \in Edges'
            <=> rows'[c].status = "blocked" /\ p \in rows'[c].needs /\ rows'[p].status # "succeeded"
      BY EdgeNext
    <3>3. <<c, p>> \in Edges
            <=> rows[c].status = "blocked" /\ p \in rows[c].needs /\ rows[p].status # "succeeded"
      BY EdgeIs
    <3>4. CASE c # j
      <4>1. rows'[c] = rows[c] /\ (p = j => p \notin rows[c].needs)
        BY <1>1, <1>2, <1>9, <3>4
      <4>2. p # j => rows'[p] = rows[p]
        BY <1>1, <1>2
      <4> QED  BY <3>2, <3>3, <3>4, <4>1, <4>2
    <3>5. CASE c = j
      <4>1. rows'[j] = e /\ rows[j].status = "absent"
        BY <1>1, <1>2 DEF Inserted
      <4>2. p \in D => rows'[p] = rows[p]
        BY <1>1, <1>2, <2>0
      <4>3. open # {} <=> s = "blocked"
        BY DEF s
      <4> QED  BY <1>4, <3>2, <3>3, <3>5, <4>1, <4>2, <4>3
    <3> QED  BY <3>4, <3>5
  <2>2. Edges \subseteq Jobs \X Jobs /\ Edges' \subseteq Jobs \X Jobs
          /\ {<<j, d>> : d \in open} \subseteq Jobs \X Jobs
    BY <2>0 DEF Edges
  <2> QED  BY <2>1, <2>2
<1>13. [c \in Jobs |-> DbJob(c)]' = Table' /\ [c \in Jobs |-> DbJob(c)] = Table
  BY TableIs, TableNext
<1>15. \A d \in D : Table[d].wf = w /\ Table[d].status \in Db!Active \cup {"succeeded"}
  BY <1>6, TableIs, Columns
<1>16. Table[j].status = "absent"
  BY TableIs, Columns DEF Inserted
<1>17. ~Db!KeyHeld(k)
  BY <1>7, <1>13 DEF Db!KeyHeld
<1>18. D # {} => w # None
  BY DEF Inserted
<1> HIDE DEF Table
<1>19. Db!Cardinality(open) = n
  BY DbCard DEF n
<1>20. {d \in D : [i \in Jobs |-> DbJob(i)][d].status # "succeeded"} = open
  BY <1>8, <1>13
<1>21. rows'[j] = e
  BY <1>1, <1>2
<1> HIDE DEF open, n
<1>22. Db!enqueue(j, k, ck, w, D, due, ttl, max)
  BY <1>2, <1>20, <1>19, <1>10, <1>11, <1>12, <1>13, <1>15, <1>16, <1>17, <1>18
     DEF Db!enqueue, s
<1> DEFINE row == rows'[j]
<1>23. /\ row.key = k /\ row.ckey = ck /\ row.wf = w /\ row.needs = D /\ row.due = due
       /\ row.ttl = ttl /\ row.max = max
  BY <1>4, <1>21
<1> HIDE DEF row
<1>24. Db!enqueue(j, row.key, row.ckey, row.wf, row.needs, row.due, row.ttl, row.max)
  BY <1>22, <1>23 DEF Db!enqueue
<1> QED  BY <1>24 DEF Enqueued, row

LEMMA ClockSteps ==
    ASSUME RowsInv, NEW j \in Jobs, ClockReaches(j)
    PROVE  Db!BecomesDue(j)
<1>1. rows \in [Jobs -> FakeRow] /\ rows[j] \in FakeRow
  BY DEF RowsInv, Types
<1>2. rows' = [rows EXCEPT ![j] = AtDue(rows[j])]
  BY <1>1 DEF ClockReaches, AtDue
<1>3. extra' = extra /\ ledger' = ledger /\ settledBy' = settledBy
  BY DEF ClockReaches
<1>4. /\ rows'[j].status = rows[j].status /\ rows'[j].needs = rows[j].needs
      /\ \A c \in Jobs : c # j => rows'[c] = rows[c]
  BY <1>1, <1>2, AtDueIs
<1>5. DbRow(AtDue(rows[j]), extra[j]) = AtDue(DbRow(rows[j], extra[j]))
  BY <1>1, DueImage
<1>6. Table' = [Table EXCEPT ![j] = AtDue(@)]
  BY <1>1, <1>2, <1>3, <1>5, TableNext, TableIs DEF Table
<1>7. Table' = [Table EXCEPT ![j].due = TRUE]
  BY <1>6 DEF AtDue
<1>8. Edges' = Edges
  BY <1>4, SameEdges
<1>9. [c \in Jobs |-> rows[c].needs]' = [c \in Jobs |-> rows[c].needs]
  BY <1>4
<1>10. [c \in Jobs |-> DbJob(c)]' = Table' /\ [c \in Jobs |-> DbJob(c)] = Table
  BY TableIs, TableNext
<1>11. Table[j].status \in {"blocked", "queued"} /\ ~Table[j].due
  BY TableIs, Columns DEF ClockReaches, Waiting
<1> HIDE DEF Table
<1> QED  BY <1>3, <1>7, <1>8, <1>9, <1>10, <1>11 DEF Db!BecomesDue

LEMMA TtlSteps ==
    ASSUME RowsInv, NEW j \in Jobs, TtlRunsOut(j)
    PROVE  Db!TtlRunsOut(j)
<1>1. rows \in [Jobs -> FakeRow] /\ rows[j] \in FakeRow
  BY DEF RowsInv, Types
<1>2. rows' = [rows EXCEPT ![j] = Expired(rows[j])]
  BY <1>1 DEF TtlRunsOut, Expired
<1>3. extra' = extra /\ ledger' = ledger /\ settledBy' = settledBy
  BY DEF TtlRunsOut
<1>4. /\ rows'[j].status = rows[j].status /\ rows'[j].needs = rows[j].needs
      /\ \A c \in Jobs : c # j => rows'[c] = rows[c]
  BY <1>1, <1>2, ExpiredIs
<1>5. DbRow(Expired(rows[j]), extra[j]) = Expired(DbRow(rows[j], extra[j]))
  BY <1>1, ExpiredImage
<1>6. Table' = [Table EXCEPT ![j] = Expired(@)]
  BY <1>1, <1>2, <1>3, <1>5, TableNext, TableIs DEF Table
<1>7. Table' = [Table EXCEPT ![j].ttl = "expired"]
  BY <1>6 DEF Expired
<1>8. Edges' = Edges
  BY <1>4, SameEdges
<1>9. [c \in Jobs |-> rows[c].needs]' = [c \in Jobs |-> rows[c].needs]
  BY <1>4
<1>10. [c \in Jobs |-> DbJob(c)]' = Table' /\ [c \in Jobs |-> DbJob(c)] = Table
  BY TableIs, TableNext
<1>11. Table[j].status \in Db!Active \cup {"failed"} /\ Table[j].ttl = "live"
  BY TableIs, Columns DEF TtlRunsOut, Waiting, Db!Active
<1>12. (\A a \in Attempts : ledger[a].job # j) => Table[j].due
  BY TableIs, Columns DEF TtlRunsOut
<1> HIDE DEF Table
<1> QED  BY <1>3, <1>7, <1>8, <1>9, <1>10, <1>11, <1>12 DEF Db!TtlRunsOut

\* What cancel_workflow does to the rows.
FlowCancelled(w) ==
    \A c \in Jobs :
       /\ rows[c].wf = w /\ rows[c].status \in Waiting =>
             rows'[c] = WithStatus(rows[c], "cancelled") /\ extra'[c] = FlowLost(extra[c])
       /\ rows[c].wf = w /\ rows[c].status = "running" =>
             rows'[c] = rows[c] /\ extra'[c] = Asked(extra[c])
       /\ rows[c].wf # w \/ rows[c].status \notin Active =>
             rows'[c] = rows[c] /\ extra'[c] = extra[c]

LEMMA FlowWrites ==
    ASSUME RowsInv, NEW w \in Workflows, cancel_workflow(w)
    PROVE  /\ FlowCancelled(w) /\ UNCHANGED <<keys, ledger, settledBy, drain>>
           /\ rows' = [c \in Jobs |-> rows'[c]] /\ extra' = [c \in Jobs |-> extra'[c]]
<1> DEFINE gone == {j \in Members(rows, w) : rows[j].status \in Waiting}
           told == {j \in Members(rows, w) : rows[j].status = "running"}
           R == [j \in Jobs |-> IF j \in gone THEN [rows[j] EXCEPT !.status = "cancelled"]
                                ELSE rows[j]]
           X == [j \in Jobs |->
                   IF j \in gone THEN [extra[j] EXCEPT !.outcome = "canceled", !.cancel = TRUE]
                   ELSE IF j \in told THEN [extra[j] EXCEPT !.cancel = TRUE]
                   ELSE extra[j]]
<1>1. rows' = R /\ extra' = X /\ UNCHANGED <<keys, ledger, settledBy, drain>>
  BY DEF cancel_workflow
<1>2. \A c \in Jobs : /\ c \in gone <=> rows[c].wf = w /\ rows[c].status \in Waiting
                      /\ c \in told <=> rows[c].wf = w /\ rows[c].status = "running"
  BY DEF Members
<1> HIDE DEF gone, told
<1>3. \A c \in Jobs : rows'[c] = IF c \in gone THEN WithStatus(rows[c], "cancelled") ELSE rows[c]
  BY <1>1 DEF WithStatus
<1>4. \A c \in Jobs : extra'[c] = IF c \in gone THEN FlowLost(extra[c])
                                  ELSE IF c \in told THEN Asked(extra[c]) ELSE extra[c]
  BY <1>1 DEF FlowLost, Asked
<1>5. FlowCancelled(w)
  BY <1>2, <1>3, <1>4 DEF FlowCancelled, Active, Waiting
<1> QED  BY <1>1, <1>5

LEMMA CancelSteps ==
    ASSUME RowsInv, NEW w \in Workflows, FlowCancelled(w), ledger' = ledger,
           settledBy' = settledBy
    PROVE  \/ \E S \in SUBSET Jobs : Db!advance_workflow_cancellations(Workflows, S)
           \/ UNCHANGED Db!vars
<1> DEFINE gone == {c \in Jobs : rows[c].wf = w /\ rows[c].status \in Waiting}
           told == {c \in Jobs : rows[c].wf = w /\ rows[c].status = "running" /\ ~extra[c].cancel}
           S == gone \cup told
<1>1. rows \in [Jobs -> FakeRow] /\ extra \in [Jobs -> ExtraRow]
  BY DEF RowsInv, Types
<1>2. \A c \in gone : Table'[c] = Db!CancelledWaiting(Table[c], "canceled")
  BY <1>1, TableIs, TableNext, FlowImage DEF FlowCancelled
<1>3. \A c \in told : Table'[c] = Told(Table[c])
  BY <1>1, TableIs, TableNext, AskedImage DEF FlowCancelled
<1>4. ASSUME NEW c \in Jobs, c \notin S PROVE Table'[c] = Table[c]
  <2>1. CASE rows[c].wf = w /\ rows[c].status = "running"
    <3>1. rows'[c] = rows[c] /\ extra'[c] = Asked(extra[c]) /\ extra[c].cancel
      BY <1>4, <2>1 DEF FlowCancelled
    <3>2. extra'[c] = extra[c]
      BY <1>1, <3>1, AskedIs
    <3> QED  BY <3>1, <3>2, TableIs, TableNext
  <2>2. CASE ~(rows[c].wf = w /\ rows[c].status \in Active)
    <3>1. rows'[c] = rows[c] /\ extra'[c] = extra[c]
      BY <2>2 DEF FlowCancelled
    <3> QED  BY <3>1, TableIs, TableNext
  <2> QED  BY <1>4, <2>1, <2>2 DEF Active
<1>5. \A c \in Jobs : /\ rows'[c].status = IF c \in gone THEN "cancelled" ELSE rows[c].status
                      /\ rows'[c].needs = rows[c].needs
  <2> SUFFICES ASSUME NEW c \in Jobs
               PROVE  /\ rows'[c].status = IF c \in gone THEN "cancelled" ELSE rows[c].status
                      /\ rows'[c].needs = rows[c].needs
    OBVIOUS
  <2>1. CASE c \in gone
    BY <1>1, <2>1, WithStatusIs DEF FlowCancelled
  <2>2. CASE c \notin gone
    BY <2>2 DEF FlowCancelled, Active
  <2> QED  BY <2>1, <2>2
<1>6. Edges' = {e \in Edges : e[1] \notin gone}
  <2>1. \A c, p \in Jobs : <<c, p>> \in Edges' <=> <<c, p>> \in Edges /\ c \notin gone
    <3> SUFFICES ASSUME NEW c \in Jobs, NEW p \in Jobs
                 PROVE  <<c, p>> \in Edges' <=> <<c, p>> \in Edges /\ c \notin gone
      OBVIOUS
    <3>1. <<c, p>> \in Edges'
            <=> rows'[c].status = "blocked" /\ p \in rows'[c].needs /\ rows'[p].status # "succeeded"
      BY EdgeNext
    <3>2. <<c, p>> \in Edges
            <=> rows[c].status = "blocked" /\ p \in rows[c].needs /\ rows[p].status # "succeeded"
      BY EdgeIs
    <3>3. p \in gone => rows[p].status # "succeeded"
      BY DEF Waiting
    <3> HIDE DEF gone
    <3> QED  BY <1>5, <3>1, <3>2, <3>3
  <2>2. Edges \subseteq Jobs \X Jobs /\ Edges' \subseteq Jobs \X Jobs
    BY DEF Edges
  <2> HIDE DEF gone
  <2> QED  BY <2>1, <2>2
<1>7. [c \in Jobs |-> rows[c].needs]' = [c \in Jobs |-> rows[c].needs]
  BY <1>5
<1>8. [c \in Jobs |-> DbJob(c)]' = Table' /\ [c \in Jobs |-> DbJob(c)] = Table
  BY TableIs, TableNext
<1>9. CASE S = {}
  <2>1. Table' = Table
    BY <1>4, <1>9 DEF Table
  <2>2. Edges' = Edges
    BY <1>6, <1>9
  <2> HIDE DEF Table
  <2> QED  BY <1>7, <1>8, <2>1, <2>2 DEF Db!vars
<1>10. CASE S # {}
  <2>1. \A c \in Jobs : Table[c].status = rows[c].status /\ Table[c].wf = rows[c].wf
          /\ Table[c].cancel = extra[c].cancel
    BY TableIs, Columns
  <2>2. {c \in S : Table[c].status \in {"blocked", "queued"}} = gone
    BY <2>1 DEF Waiting
  <2>3. \A c \in S : /\ Table[c].wf \in Workflows
                     /\ \/ c \in gone
                        \/ Table[c].status = "running" /\ ~Table[c].cancel
    BY <2>1
  <2>4. Table' = [c \in Jobs |-> IF c \in gone THEN Db!CancelledWaiting(Table[c], "canceled")
                                 ELSE IF c \in S THEN [Table[c] EXCEPT !.cancel = TRUE]
                                 ELSE Table[c]]
    <3>1. Table' = [c \in Jobs |-> Table'[c]]
      BY TableNext
    <3>2. \A c \in Jobs : Table'[c] = IF c \in gone THEN Db!CancelledWaiting(Table[c], "canceled")
                                      ELSE IF c \in S THEN Told(Table[c]) ELSE Table[c]
      BY <1>2, <1>3, <1>4
    <3> HIDE DEF gone, S, Table
    <3> QED  BY <3>1, <3>2 DEF Told
  <2>5. S \in SUBSET Jobs
    OBVIOUS
  <2>6. {c \in S : [i \in Jobs |-> DbJob(i)][c].status \in {"blocked", "queued"}} = gone
    BY <1>8, <2>2
  <2> HIDE DEF Table, gone, S
  <2>7. Edges' = Db!Unlinked(gone)
    BY <1>6 DEF Db!Unlinked
  <2> HIDE DEF Db!Unlinked
  <2>8. Db!advance_workflow_cancellations(Workflows, S)
    BY <1>7, <1>8, <1>10, <2>3, <2>4, <2>6, <2>7 DEF Db!advance_workflow_cancellations
  <2> QED  BY <2>5, <2>8
<1> QED  BY <1>9, <1>10

\* A change of a row that does not wait leaves the branches as they are.
LEMMA DoomedSame ==
    ASSUME NEW R, NEW j \in Jobs, \A c \in Jobs \ {j} : R[c] = rows[c],
           R[j].status \notin Waiting, rows[j].status \notin Waiting
    PROVE  Doomed(R, j) = Doomed(rows, j)
<1>1. \A S : Children(R, S) = Children(rows, S)
  <2> SUFFICES ASSUME NEW S PROVE Children(R, S) = Children(rows, S)
    OBVIOUS
  <2>1. \A c \in Jobs : (R[c].needs \cap S # {} /\ R[c].status \in Waiting)
                          <=> (rows[c].needs \cap S # {} /\ rows[c].status \in Waiting)
    OBVIOUS
  <2> QED  BY <2>1 DEF Children
<1>2. \A S : Closed(R, j, S) <=> Closed(rows, j, S)
  BY <1>1 DEF Closed
<1>3. \A c : c \in Doomed(R, j) <=> c \in Doomed(rows, j)
  BY <1>2 DEF Doomed
<1> QED  BY <1>3

LEMMA DoomedFacts ==
    ASSUME RowsInv, NEW j \in Jobs
    PROVE  /\ \A c \in Doomed(rows, j) : c \in Jobs /\ rows[c].status \in Waiting
           /\ \A c \in Jobs : j \in rows[c].needs /\ rows[c].status \in Waiting =>
                 c \in Doomed(rows, j)
           /\ rows[j].wf = None => Doomed(rows, j) = {}
<1>1. ASSUME NEW c \in Doomed(rows, j) PROVE c \in Jobs /\ rows[c].status \in Waiting
  <2> DEFINE W == {d \in Jobs : rows[d].status \in Waiting}
  <2>1. W \in SUBSET Jobs /\ Closed(rows, j, W)
    BY DEF Closed, Children
  <2>2. c \in W
    BY <2>1 DEF Doomed
  <2> QED  BY <2>2
<1>2. ASSUME NEW c \in Jobs, j \in rows[c].needs, rows[c].status \in Waiting
      PROVE  c \in Doomed(rows, j)
  <2>1. c \in Children(rows, {j})
    BY <1>2 DEF Children
  <2> QED  BY <2>1 DEF Doomed, Closed
<1>3. ASSUME rows[j].wf = None PROVE Doomed(rows, j) = {}
  <2>1. \A c \in Jobs : j \notin rows[c].needs
    BY <1>3 DEF RowsInv, NeedsOK, CountOK
  <2>2. Children(rows, {j}) = {} /\ Children(rows, {}) = {}
    BY <2>1 DEF Children
  <2>3. Closed(rows, j, {})
    BY <2>2 DEF Closed
  <2> QED  BY <2>3 DEF Doomed
<1> QED  BY <1>1, <1>2, <1>3

LEMMA UnsettledFacts ==
    ASSUME RowsInv, NEW a \in Attempts, Unsettled(a)
    PROVE  LET j == ledger[a].job IN
           /\ j \in Jobs /\ rows[j] \in FakeRow /\ extra[j] \in ExtraRow
           /\ rows[j].status = "running" /\ rows[j].status \notin Waiting
           /\ rows \in [Jobs -> FakeRow] /\ extra \in [Jobs -> ExtraRow]
           /\ Open(j) = {} /\ rows[j].wf \in Workflows \cup {None}
           /\ Db!Fenced(a)
<1> DEFINE j == ledger[a].job
<1>1. ledger[a].status # "absent" /\ rows[j].att = a /\ rows[j].status = "running"
  BY DEF Unsettled
<1>2. /\ j \in Jobs /\ rows \in [Jobs -> FakeRow] /\ extra \in [Jobs -> ExtraRow]
      /\ ledger[a] \in LedgerRow
  BY <1>1 DEF RowsInv, Types
<1>3. rows[j] \in FakeRow /\ extra[j] \in ExtraRow
  BY <1>2
<1>4. Open(j) = {}
  BY <1>1, <1>2 DEF RowsInv, NeedsOK, CountOK
<1>5. ledger[a].status \notin {"absent", "deleted"}
  BY <1>1, <1>2 DEF LedgerRow
<1>6. Table[j].status = "running" /\ Table[j].att = a
  BY <1>1, <1>2, TableIs, Columns
<1>7. Db!Fenced(a)
  <2> HIDE DEF Table
  <2> QED  BY <1>2, <1>5, <1>6, TableIs DEF Db!Fenced
<1>8. rows[j].wf \in Workflows \cup {None}
  BY <1>3 DEF FakeRow
<1> QED  BY <1>1, <1>2, <1>3, <1>4, <1>7, <1>8 DEF Waiting

\* Row j fails or is cancelled, and the branch below it is cancelled.
BranchEnds(j, e, x) ==
    /\ rows'[j] = e /\ extra'[j] = x
    /\ \A c \in Jobs \ {j} :
          /\ c \in Doomed(rows, j) =>
                rows'[c] = WithStatus(rows[c], "cancelled") /\ extra'[c] = DepLost(extra[c])
          /\ c \notin Doomed(rows, j) => rows'[c] = rows[c] /\ extra'[c] = extra[c]

Booked(a, v, s) ==
    ledger' = [ledger EXCEPT ![a].status = s] /\ settledBy' = [settledBy EXCEPT ![a] = v]

KeyFreed(k) == keys' = IF k # None THEN [keys EXCEPT ![k] = None] ELSE keys

LEMMA CloseWrites ==
    ASSUME RowsInv, NEW a \in Attempts, NEW v \in Verbs, NEW s \in {"failed", "cancelled"},
           NEW o \in Outcomes, NEW n \in Nat, Close(a, v, s, o, n, Nothing)
    PROVE  LET j == ledger[a].job IN
           /\ Unsettled(a) /\ Booked(a, v, s) /\ KeyFreed(rows[j].key)
           /\ BranchEnds(j, EndRow(rows[j], s, n, v), Decided(extra[j], o, a))
           /\ rows' = [c \in Jobs |-> rows'[c]] /\ extra' = [c \in Jobs |-> extra'[c]]
<1> DEFINE j == ledger[a].job
           r == [rows[j] EXCEPT !.status = s, !.failures = @ + n]
           R == [rows EXCEPT ![j] = [r EXCEPT !.settled = v]]
           x == [extra[j] EXCEPT !.outcome = o, !.finisher = a]
           A == Advanced(R, j)
<1>1. Finish(a, v, s, r, Nothing, x)
  BY DEF Close
<1>2. Unsettled(a) /\ Booked(a, v, s)
  BY <1>1 DEF Finish, Booked
<1>3. /\ j \in Jobs /\ rows[j] \in FakeRow /\ extra[j] \in ExtraRow
      /\ rows[j].status = "running" /\ rows[j].status \notin Waiting
      /\ rows \in [Jobs -> FakeRow]
  BY <1>2, UnsettledFacts
<1>4. s \in Terminal /\ s \notin Waiting /\ s # "succeeded"
  BY DEF Terminal, Waiting
<1>5. EndRow(rows[j], s, n, v) = [r EXCEPT !.settled = v]
  BY DEF EndRow
<1>6. r.status = s /\ r.key = rows[j].key /\ r.wf = rows[j].wf
  BY <1>3 DEF FakeRow
<1>7. x = Decided(extra[j], o, a)
  BY DEF Decided
<1>8. /\ rows' = [c \in Jobs |-> IF c \in DOMAIN Nothing THEN Nothing[c]
                               ELSE (IF r.status \in Terminal THEN A ELSE R)[c]]
      /\ keys' = KeysAfter(r.key, r.status)
      /\ extra' = [c \in Jobs |->
                   IF c = j THEN x
                   ELSE IF (IF r.status \in Terminal THEN A ELSE R)[c].status = "cancelled"
                           /\ rows[c].status \in Waiting
                     THEN [extra[c] EXCEPT !.outcome = "dep_failed"]
                   ELSE IF r.status = "succeeded" /\ j \in rows[c].needs
                           /\ rows[c].status = "blocked"
                     THEN [extra[c] EXCEPT !.pending = @ - 1]
                   ELSE extra[c]]
  BY <1>1 DEF Finish
<1>9. R[j] = EndRow(rows[j], s, n, v) /\ \A c \in Jobs \ {j} : R[c] = rows[c]
  BY <1>3, <1>5
<1>10. R[j].status = s /\ R[j].wf = rows[j].wf
  BY <1>3, <1>4, <1>9, EndRowIs
<1> HIDE DEF r, x, R, A
<1>11. DOMAIN Nothing = {}
  BY DEF Nothing
<1>12. \A c \in Jobs : rows'[c] = A[c]
  BY <1>4, <1>6, <1>8, <1>11
<1>13. Doomed(R, j) = Doomed(rows, j)
  BY <1>3, <1>4, <1>9, <1>10, DoomedSame
<1>14. \A c \in Jobs : A[c] = IF c \in Doomed(rows, j) THEN [R[c] EXCEPT !.status = "cancelled"]
                              ELSE R[c]
  <2>1. CASE rows[j].wf = None
    <3>1. Doomed(rows, j) = {}
      BY <1>3, <2>1, DoomedFacts
    <3> QED  BY <1>10, <2>1, <3>1 DEF A, Advanced
  <2>2. CASE rows[j].wf # None
    BY <1>4, <1>10, <1>13, <2>2 DEF A, Advanced
  <2> QED  BY <2>1, <2>2
<1>15. \A c \in Doomed(rows, j) : rows[c].status \in Waiting
  BY <1>3, DoomedFacts
<1>16. rows'[j] = EndRow(rows[j], s, n, v)
  BY <1>3, <1>9, <1>12, <1>14, <1>15
<1>17. extra'[j] = Decided(extra[j], o, a)
  BY <1>3, <1>7, <1>8
<1>18. ASSUME NEW c \in Jobs \ {j}, c \in Doomed(rows, j)
       PROVE  rows'[c] = WithStatus(rows[c], "cancelled") /\ extra'[c] = DepLost(extra[c])
  <2>1. A[c] = WithStatus(rows[c], "cancelled")
    BY <1>9, <1>14, <1>18 DEF WithStatus
  <2>2. A[c].status = "cancelled" /\ rows[c].status \in Waiting
    BY <1>3, <1>15, <1>18, <2>1, WithStatusIs
  <2>3. extra'[c] = DepLost(extra[c])
    BY <1>4, <1>6, <1>8, <2>2 DEF DepLost
  <2> QED  BY <1>12, <2>1, <2>3
<1>19. ASSUME NEW c \in Jobs \ {j}, c \notin Doomed(rows, j)
       PROVE  rows'[c] = rows[c] /\ extra'[c] = extra[c]
  <2>1. A[c] = rows[c]
    BY <1>9, <1>14, <1>19
  <2>2. ~(rows[c].status = "cancelled" /\ rows[c].status \in Waiting)
    BY DEF Waiting
  <2>3. extra'[c] = extra[c]
    BY <1>4, <1>6, <1>8, <2>1, <2>2
  <2> QED  BY <1>12, <2>1, <2>3
<1>20. KeyFreed(rows[j].key)
  BY <1>4, <1>6, <1>8 DEF KeyFreed, KeysAfter
<1> QED  BY <1>2, <1>8, <1>16, <1>17, <1>18, <1>19, <1>20 DEF BranchEnds

LEMMA DependentsAre ==
    ASSUME RowsInv, NEW j \in Jobs, rows[j].status = "running"
    PROVE  /\ Db!Dependents({j}) = Children(rows, {j})
           /\ \A c \in Jobs : c \in Children(rows, {j}) <=>
                 j \in rows[c].needs /\ rows[c].status = "blocked"
<1>1. \A c \in Jobs : c \in Children(rows, {j})
        <=> j \in rows[c].needs /\ rows[c].status = "blocked"
  <2> SUFFICES ASSUME NEW c \in Jobs, j \in rows[c].needs
               PROVE  rows[c].status \in Waiting <=> rows[c].status = "blocked"
    BY DEF Children, Waiting
  <2>1. rows[c].status # "queued"
    BY DEF RowsInv, NeedsOK, CountOK, Open
  <2> QED  BY <2>1 DEF Waiting
<1>2. \A c \in Jobs : Table[c].status = rows[c].status
  BY TableIs, Columns
<1>3. Db!Dependents({j}) = {c \in Jobs : Table[c].status = "blocked" /\ <<c, j>> \in Edges}
  <2>1. Table = [c \in Jobs |-> DbJob(c)]
    BY TableIs
  <2> HIDE DEF Table
  <2> QED  BY <2>1 DEF Db!Dependents
<1>4. \A c \in Jobs : Table[c].status = "blocked" /\ <<c, j>> \in Edges
        <=> c \in Children(rows, {j})
  BY <1>1, <1>2, EdgeIs
<1>5. Children(rows, {j}) \subseteq Jobs
  BY DEF Children
<1> HIDE DEF Table
<1> QED  BY <1>1, <1>3, <1>4, <1>5

\* What BranchEnds does to the tables.
LEMMA BranchTables ==
    ASSUME RowsInv, NEW a \in Attempts, NEW e \in FakeRow, NEW x, NEW row,
           Unsettled(a), e.status \in {"failed", "cancelled"},
           e.needs = rows[ledger[a].job].needs, DbRow(e, x) = row,
           BranchEnds(ledger[a].job, e, x)
    PROVE  LET j == ledger[a].job IN
           /\ j \in Jobs /\ row.status \in {"failed", "cancelled"}
           /\ \A c \in Jobs :
                 /\ Table'[c] = IF c = j THEN row
                                ELSE IF c \in Doomed(rows, j) THEN Db!DepCancelled(Table[c])
                                ELSE Table[c]
                 /\ rows'[c].needs = rows[c].needs
           /\ Edges' = Db!Unlinked(Doomed(rows, j))
<1> DEFINE j == ledger[a].job
           K == Doomed(rows, j)
<1>1. /\ j \in Jobs /\ rows[j].status = "running" /\ j \notin K
      /\ rows \in [Jobs -> FakeRow] /\ extra \in [Jobs -> ExtraRow]
  BY UnsettledFacts, DoomedFacts
<1>2. row.status \in {"failed", "cancelled"}
  BY Columns
<1>3. \A c \in K : c \in Jobs /\ rows[c].status \in Waiting
  BY <1>1, DoomedFacts
<1> HIDE DEF K
<1>4. \A c \in Jobs \ {j} :
         /\ c \in K => rows'[c] = WithStatus(rows[c], "cancelled") /\ extra'[c] = DepLost(extra[c])
         /\ c \notin K => rows'[c] = rows[c] /\ extra'[c] = extra[c]
  BY DEF BranchEnds, K
<1>5. rows'[j] = e /\ extra'[j] = x
  BY DEF BranchEnds
<1>6. ASSUME NEW c \in Jobs
      PROVE  Table'[c] = IF c = j THEN row
                         ELSE IF c \in K THEN Db!DepCancelled(Table[c]) ELSE Table[c]
  <2>1. CASE c = j
    BY <1>1, <1>5, <2>1, TableNext
  <2>2. CASE c \in K
    <3>1. /\ rows[c] \in FakeRow /\ extra[c] \in ExtraRow /\ rows[c].status \in Waiting /\ c # j
          /\ rows'[c] = WithStatus(rows[c], "cancelled") /\ extra'[c] = DepLost(extra[c])
      BY <1>1, <1>3, <1>4, <2>2
    <3>2. DbRow(rows'[c], extra'[c]) = Db!DepCancelled(DbRow(rows[c], extra[c]))
      BY <3>1, DoomedImage
    <3> QED  BY <2>2, <3>1, <3>2, TableIs, TableNext
  <2>3. CASE c # j /\ c \notin K
    <3>1. rows'[c] = rows[c] /\ extra'[c] = extra[c]
      BY <1>4, <2>3
    <3> QED  BY <2>3, <3>1, TableIs, TableNext
  <2> QED  BY <2>1, <2>2, <2>3
<1>7. ASSUME NEW c \in Jobs
      PROVE  /\ rows'[c].needs = rows[c].needs
             /\ c # j => rows'[c].status = IF c \in K THEN "cancelled" ELSE rows[c].status
  <2>1. CASE c = j
    BY <1>5, <2>1
  <2>2. CASE c \in K
    <3>1. /\ rows[c] \in FakeRow /\ rows[c].status \in Waiting /\ c # j
          /\ rows'[c] = WithStatus(rows[c], "cancelled")
      BY <1>1, <1>3, <1>4, <2>2
    <3>2. rows'[c].needs = rows[c].needs /\ rows'[c].status = "cancelled"
      BY <3>1, WithStatusIs
    <3> QED  BY <2>2, <3>2
  <2>3. CASE c # j /\ c \notin K
    BY <1>4, <2>3
  <2> QED  BY <2>1, <2>2, <2>3
<1>8. Edges' = Db!Unlinked(K)
  <2>1. \A c, p \in Jobs : <<c, p>> \in Edges' <=> <<c, p>> \in Edges /\ c \notin K
    <3> SUFFICES ASSUME NEW c \in Jobs, NEW p \in Jobs
                 PROVE  <<c, p>> \in Edges' <=> <<c, p>> \in Edges /\ c \notin K
      OBVIOUS
    <3>1. <<c, p>> \in Edges'
            <=> rows'[c].status = "blocked" /\ p \in rows'[c].needs /\ rows'[p].status # "succeeded"
      BY EdgeNext
    <3>2. <<c, p>> \in Edges
            <=> rows[c].status = "blocked" /\ p \in rows[c].needs /\ rows[p].status # "succeeded"
      BY EdgeIs
    <3>3. p \in K => rows[p].status # "succeeded"
      BY <1>3 DEF Waiting
    <3> QED  BY <1>1, <1>5, <1>7, <3>1, <3>2, <3>3
  <2>2. Edges \subseteq Jobs \X Jobs /\ Edges' \subseteq Jobs \X Jobs
    BY DEF Edges
  <2>3. Edges' = {d \in Edges : d[1] \notin K}
    BY <2>1, <2>2
  <2> QED  BY <2>3 DEF Db!Unlinked
<1> HIDE DEF Table
<1> QED  BY <1>1, <1>2, <1>6, <1>7, <1>8 DEF K

LEMMA SettleDead ==
    ASSUME RowsInv, NEW a \in Attempts, NEW v, NEW s, NEW e \in FakeRow, NEW x, NEW row,
           Unsettled(a), Booked(a, v, s), e.status \in {"failed", "cancelled"},
           e.needs = rows[ledger[a].job].needs, DbRow(e, x) = row,
           BranchEnds(ledger[a].job, e, x),
           Doomed(rows, ledger[a].job) = Children(rows, {ledger[a].job})
    PROVE  Db!Settle(a, v, s, row)
<1> DEFINE j == ledger[a].job
           K == Children(rows, {j})
           upd == [i \in {j} |-> row]
<1>1. /\ j \in Jobs /\ rows[j].status = "running"
      /\ rows \in [Jobs -> FakeRow] /\ extra \in [Jobs -> ExtraRow]
  BY UnsettledFacts
<1>2. /\ row.status \in {"failed", "cancelled"}
      /\ \A c \in Jobs :
            /\ Table'[c] = IF c = j THEN row
                           ELSE IF c \in K THEN Db!DepCancelled(Table[c]) ELSE Table[c]
            /\ rows'[c].needs = rows[c].needs
      /\ Edges' = Db!Unlinked(K)
  <2> HIDE DEF Table
  <2> QED  BY BranchTables
<1>3. Db!Casualties(upd) = K
  <2>1. {i \in DOMAIN upd : upd[i].status \in {"failed", "cancelled"}} = {j}
    BY <1>2
  <2> HIDE DEF upd, K
  <2>2. Db!Casualties(upd) = Db!Dependents({j})
    BY <2>1 DEF Db!Casualties
  <2> QED  BY <1>1, <2>2, DependentsAre DEF K
<1>10. [c \in Jobs |-> rows[c].needs]' = [c \in Jobs |-> rows[c].needs]
  BY <1>2
<1>11. [c \in Jobs |-> DbJob(c)]' = Table' /\ [c \in Jobs |-> DbJob(c)] = Table
  BY TableIs, TableNext
<1>12. Table' = Db!Cascaded(upd, K)
  <2>1. Table' = [c \in Jobs |-> Table'[c]]
    BY TableNext
  <2>2. \A c \in Jobs : Table'[c] = IF c \in DOMAIN upd THEN upd[c]
                                    ELSE IF c \in K THEN Db!DepCancelled(Table[c]) ELSE Table[c]
    BY <1>2
  <2> HIDE DEF upd, K, Table
  <2> QED  BY <1>11, <2>1, <2>2 DEF Db!Cascaded
<1> HIDE DEF Table, K
<1>14. K \in SUBSET Db!Casualties(upd)
  BY <1>3
<1>15. \E k \in SUBSET Db!Casualties(upd) :
          [c \in Jobs |-> DbJob(c)]' = Db!Cascaded(upd, k) /\ Edges' = Db!Unlinked(k)
  BY <1>2, <1>11, <1>12, <1>14
<1> QED  BY <1>10, <1>15 DEF Db!Settle, Booked

LEMMA SettleBack ==
    ASSUME RowsInv, NEW a \in Attempts, NEW v, NEW s, NEW e \in FakeRow, NEW row,
           Unsettled(a), Booked(a, v, s), e.status = "queued",
           e.needs = rows[ledger[a].job].needs, DbRow(e, extra[ledger[a].job]) = row,
           rows' = [rows EXCEPT ![ledger[a].job] = e], extra' = extra
    PROVE  Db!Settle(a, v, s, row)
<1> DEFINE j == ledger[a].job
           upd == [i \in {j} |-> row]
<1>1. j \in Jobs /\ rows[j].status = "running" /\ rows \in [Jobs -> FakeRow]
  BY UnsettledFacts
<1>2. \A c \in Jobs : Table'[c] = IF c = j THEN row ELSE Table[c]
  BY <1>1, TableIs, TableNext
<1>3. \A c \in Jobs : rows'[c].needs = rows[c].needs /\ (c # j => rows'[c] = rows[c])
  BY <1>1
<1>4. Edges' = Edges
  BY <1>1, <1>3, SameEdges
<1>5. [c \in Jobs |-> rows[c].needs]' = [c \in Jobs |-> rows[c].needs]
  BY <1>3
<1>6. [c \in Jobs |-> DbJob(c)]' = Table' /\ [c \in Jobs |-> DbJob(c)] = Table
  BY TableIs, TableNext
<1>7. Table' = Db!Cascaded(upd, {})
  <2>1. Table' = [c \in Jobs |-> Table'[c]]
    BY TableNext
  <2>2. \A c \in Jobs : Table'[c] = IF c \in DOMAIN upd THEN upd[c]
                                    ELSE IF c \in {} THEN Db!DepCancelled(Table[c]) ELSE Table[c]
    BY <1>2
  <2> HIDE DEF upd, Table
  <2> QED  BY <1>6, <2>1, <2>2 DEF Db!Cascaded
<1>8. Edges' = Db!Unlinked({})
  BY <1>4 DEF Db!Unlinked
<1> HIDE DEF Table
<1>9. \E k \in SUBSET Db!Casualties(upd) :
          [c \in Jobs |-> DbJob(c)]' = Db!Cascaded(upd, k) /\ Edges' = Db!Unlinked(k)
  BY <1>6, <1>7, <1>8
<1> QED  BY <1>5, <1>9 DEF Db!Settle, Booked

LEMMA BackWrites ==
    ASSUME RowsInv, NEW a \in Attempts, NEW v \in Verbs, NEW s, NEW due \in BOOLEAN,
           NEW n \in Nat, PutBack(a, v, s, due, n)
    PROVE  LET j == ledger[a].job IN
           /\ Unsettled(a) /\ Booked(a, v, s) /\ keys' = keys
           /\ rows' = [rows EXCEPT ![j] = BackRow(rows[j], due, n, v)]
           /\ extra' = [extra EXCEPT ![j] = Undone(extra[j])]
<1> DEFINE j == ledger[a].job
           r == [rows[j] EXCEPT !.status = "queued", !.due = due, !.failures = @ + n]
           R == [rows EXCEPT ![j] = [r EXCEPT !.settled = v]]
           x == [extra[j] EXCEPT !.cancel = FALSE]
           A == Advanced(R, j)
<1>1. Finish(a, v, s, r, Nothing, x)
  BY DEF PutBack
<1>2. Unsettled(a) /\ Booked(a, v, s)
  BY <1>1 DEF Finish, Booked
<1>3. /\ j \in Jobs /\ rows[j] \in FakeRow /\ extra[j] \in ExtraRow
      /\ rows \in [Jobs -> FakeRow] /\ extra \in [Jobs -> ExtraRow]
  BY <1>2, UnsettledFacts
<1>4. BackRow(rows[j], due, n, v) = [r EXCEPT !.settled = v] /\ x = Undone(extra[j])
  BY DEF BackRow, Undone
<1>5. r.status = "queued"
  BY <1>3 DEF FakeRow
<1>6. /\ rows' = [c \in Jobs |-> IF c \in DOMAIN Nothing THEN Nothing[c]
                               ELSE (IF r.status \in Terminal THEN A ELSE R)[c]]
      /\ keys' = KeysAfter(r.key, r.status)
      /\ extra' = [c \in Jobs |->
                   IF c = j THEN x
                   ELSE IF (IF r.status \in Terminal THEN A ELSE R)[c].status = "cancelled"
                           /\ rows[c].status \in Waiting
                     THEN [extra[c] EXCEPT !.outcome = "dep_failed"]
                   ELSE IF r.status = "succeeded" /\ j \in rows[c].needs
                           /\ rows[c].status = "blocked"
                     THEN [extra[c] EXCEPT !.pending = @ - 1]
                   ELSE extra[c]]
  BY <1>1 DEF Finish
<1>7. R = [rows EXCEPT ![j] = BackRow(rows[j], due, n, v)]
  BY <1>4
<1>8. \A c \in Jobs \ {j} : R[c] = rows[c]
  BY <1>3
<1> HIDE DEF r, x, R, A
<1>9. DOMAIN Nothing = {} /\ "queued" \notin Terminal
  BY DEF Nothing, Terminal
<1>10. rows' = [c \in Jobs |-> R[c]]
  BY <1>5, <1>6, <1>9
<1>11. rows' = R
  BY <1>3, <1>7, <1>10
<1>12. \A c \in Jobs \ {j} : extra'[c] = extra[c]
  <2> SUFFICES ASSUME NEW c \in Jobs \ {j} PROVE extra'[c] = extra[c]
    OBVIOUS
  <2>1. ~(R[c].status = "cancelled" /\ rows[c].status \in Waiting)
    BY <1>8 DEF Waiting
  <2> QED  BY <1>5, <1>6, <1>9, <2>1
<1>13. extra' = [c \in Jobs |-> extra'[c]] /\ extra'[j] = Undone(extra[j])
  BY <1>3, <1>4, <1>6
<1>14. extra' = [extra EXCEPT ![j] = Undone(extra[j])]
  BY <1>3, <1>12, <1>13
<1>15. keys' = keys
  BY <1>5, <1>6, <1>9 DEF KeysAfter
<1> QED  BY <1>2, <1>7, <1>11, <1>14, <1>15

LEMMA TableJobs == \A c \in Jobs : DbJob(c)' = Table'[c] /\ DbJob(c) = Table[c]
BY TableIs, TableNext DEF DbJob

LEMMA EndsDead ==
    ASSUME RowsInv, NEW a \in Attempts, NEW v, NEW s, NEW e \in FakeRow, NEW x, NEW row,
           Unsettled(a), Booked(a, v, s), e.status \in {"failed", "cancelled"},
           e.needs = rows[ledger[a].job].needs, DbRow(e, x) = row,
           BranchEnds(ledger[a].job, e, x)
    PROVE  Ends(a, v, s, row)
<1> DEFINE j == ledger[a].job
<1>1. Db!Fenced(a)
  BY UnsettledFacts
<1>2. /\ row.status \in {"failed", "cancelled"}
      /\ \A c \in Jobs :
            /\ Table'[c] = IF c = j THEN row
                           ELSE IF c \in Doomed(rows, j) THEN Db!DepCancelled(Table[c])
                           ELSE Table[c]
            /\ rows'[c].needs = rows[c].needs
      /\ Edges' = Db!Unlinked(Doomed(rows, j))
  <2> HIDE DEF Table
  <2> QED  BY BranchTables
<1>3. (IF row.status = "queued" THEN {} ELSE Doomed(rows, j)) = Doomed(rows, j)
  BY <1>2
<1> HIDE DEF Table, j
<1> QED  BY <1>1, <1>2, <1>3, TableJobs DEF Ends, Booked, j

LEMMA EndsBack ==
    ASSUME RowsInv, NEW a \in Attempts, NEW v, NEW s, NEW e \in FakeRow, NEW x, NEW row,
           Unsettled(a), Booked(a, v, s), e.status = "queued",
           e.needs = rows[ledger[a].job].needs, DbRow(e, x) = row,
           rows' = [rows EXCEPT ![ledger[a].job] = e],
           extra' = [extra EXCEPT ![ledger[a].job] = x]
    PROVE  Ends(a, v, s, row)
<1> DEFINE j == ledger[a].job
<1>1. /\ Db!Fenced(a) /\ j \in Jobs /\ rows[j].status = "running"
      /\ rows \in [Jobs -> FakeRow] /\ extra \in [Jobs -> ExtraRow]
  BY UnsettledFacts
<1>2. \A c \in Jobs : Table'[c] = IF c = j THEN row ELSE Table[c]
  BY <1>1, TableIs, TableNext
<1>3. \A c \in Jobs : rows'[c].needs = rows[c].needs /\ (c # j => rows'[c] = rows[c])
  BY <1>1
<1>4. Edges' = Edges
  BY <1>1, <1>3, SameEdges
<1>5. Edges' = Db!Unlinked({})
  BY <1>4 DEF Db!Unlinked
<1>6. row.status = "queued"
  BY Columns
<1> DEFINE lost == IF row.status = "queued" THEN {} ELSE Doomed(rows, j)
<1>7. lost = {}
  BY <1>6
<1>8. Edges' = Db!Unlinked(lost)
  BY <1>5, <1>7 DEF Db!Unlinked
<1>9. \A c \in Jobs : /\ DbJob(c)' = IF c = j THEN row
                                     ELSE IF c \in lost THEN Db!DepCancelled(DbJob(c))
                                     ELSE DbJob(c)
                      /\ rows'[c].needs = rows[c].needs
  <2> HIDE DEF Table, lost
  <2> QED  BY <1>2, <1>3, <1>7, TableJobs
<1> HIDE DEF Table
<1> QED  BY <1>1, <1>8, <1>9 DEF Ends, Booked

LEMMA OutcomeFacts ==
    /\ {"success", "canceled", "dep_failed", "retry_exhausted",
         "non_retryable"} \subseteq Outcomes
    /\ {"complete", "fail", "snooze", "release", "cancel"} \subseteq Verbs
    /\ {"failed", "cancelled", "succeeded"} \subseteq Terminal
BY DEF Outcomes, Verbs, Terminal

LEMMA CancelledRow ==
    ASSUME RowsInv, NEW a \in Attempts, cancel_running(a)
    PROVE  Db!cancel_running_job(a) \/ Differs
<1> DEFINE j == ledger[a].job
           e == EndRow(rows[j], "cancelled", 0, "cancel")
           x == Decided(extra[j], "canceled", a)
<1>1. /\ Unsettled(a) /\ Booked(a, "cancel", "cancelled") /\ BranchEnds(j, e, x)
  <2>1. /\ "cancel" \in Verbs /\ "canceled" \in Outcomes /\ 0 \in Nat
        /\ "cancelled" \in {"failed", "cancelled"}
    BY OutcomeFacts
  <2>2. Close(a, "cancel", "cancelled", "canceled", 0, Nothing)
    BY DEF cancel_running
  <2> QED  BY <2>1, <2>2, CloseWrites
<1>2. /\ j \in Jobs /\ rows[j] \in FakeRow /\ extra[j] \in ExtraRow /\ Db!Fenced(a)
  BY <1>1, UnsettledFacts
<1>3. e \in FakeRow /\ e.status = "cancelled" /\ e.needs = rows[j].needs
  <2>1. "cancel" \in Verbs /\ "cancelled" \in Terminal /\ 0 \in Nat
    BY OutcomeFacts
  <2> QED  BY <1>2, <2>1, EndRowIs
<1>4. DbRow(e, x) = Db!CancelledBy(Table[j], a)
  BY <1>2, TableIs, CancelImage, OutcomeFacts DEF Db!CancelledBy
<1> HIDE DEF e, x
<1>5. CASE Doomed(rows, j) = Children(rows, {j})
  <2>1. Db!Settle(a, "cancel", "cancelled", Db!CancelledBy(Table[j], a))
    BY <1>1, <1>3, <1>4, <1>5, SettleDead
  <2>2. Table = [c \in Jobs |-> DbJob(c)]
    BY TableIs
  <2> HIDE DEF Table
  <2> QED  BY <1>2, <2>1, <2>2 DEF Db!cancel_running_job
<1>6. CASE Doomed(rows, j) # Children(rows, {j})
  <2>1. Ends(a, "cancel", "cancelled", Db!CancelledBy(Table[j], a))
    BY <1>1, <1>3, <1>4, EndsDead
  <2>2. DbJob(j) = Table[j] /\ ledger[a].status # "absent"
    BY <1>1, <1>2, TableJobs DEF Unsettled
  <2> HIDE DEF Table
  <2>3. CancelsBranch(a)
    BY <1>6, <2>1, <2>2 DEF CancelsBranch
  <2> QED  BY <2>2, <2>3 DEF Differs
<1> QED  BY <1>5, <1>6

LEMMA FailedRow ==
    ASSUME RowsInv, NEW a \in Attempts, NEW retryable \in BOOLEAN, NEW due \in BOOLEAN,
           fail(a, retryable, due)
    PROVE  Db!fail_job(a, retryable, due) \/ Differs
<1> DEFINE j == ledger[a].job
           r == rows[j]
           o == IF retryable THEN "retry_exhausted" ELSE "non_retryable"
<1>0. Table = [c \in Jobs |-> DbJob(c)]
  BY TableIs
<1>1. CASE retryable /\ r.failures + 1 < r.max
  <2> DEFINE e == BackRow(r, due, 1, "fail")
  <2>1. /\ Unsettled(a) /\ Booked(a, "fail", "failed")
        /\ rows' = [rows EXCEPT ![j] = e] /\ extra' = [extra EXCEPT ![j] = Undone(extra[j])]
    <3>1. PutBack(a, "fail", "failed", due, 1)
      BY <1>1 DEF fail
    <3>2. "fail" \in Verbs /\ 1 \in Nat
      BY OutcomeFacts
    <3> QED  BY <3>1, <3>2, BackWrites
  <2>2. /\ j \in Jobs /\ r \in FakeRow /\ extra[j] \in ExtraRow /\ Db!Fenced(a)
        /\ extra \in [Jobs -> ExtraRow]
    BY <2>1, UnsettledFacts
  <2>3. e \in FakeRow /\ e.status = "queued" /\ e.needs = r.needs
    <3>1. "fail" \in Verbs /\ 1 \in Nat
      BY OutcomeFacts
    <3> QED  BY <2>2, <3>1, BackRowIs
  <2>4. DbRow(e, extra[j]) = Db!Requeued(Db!Charged(Table[j], 0), due)
    BY <2>2, TableIs, RetryImage, OutcomeFacts
  <2>5. /\ Table[j].cancel = extra[j].cancel /\ Table[j].failures = r.failures
        /\ Table[j].max = r.max
    BY <2>2, TableIs, Columns
  <2> HIDE DEF e
  <2>6. CASE extra[j].cancel
    <3> DEFINE row == Db!Requeued(Db!Charged([DbJob(j) EXCEPT !.cancel = FALSE], 0), due)
    <3>1. DbRow(e, Undone(extra[j])) = row
      <4>1. DbRow(e, Undone(extra[j]))
              = Db!Requeued(Db!Charged(DbRow(r, Undone(extra[j])), 0), due)
        BY <2>2, RetryImage, OutcomeFacts DEF e
      <4>2. DbRow(r, Undone(extra[j])) = [DbJob(j) EXCEPT !.cancel = FALSE]
        BY <2>2, UndoneImage DEF Untold, DbJob
      <4> QED  BY <4>1, <4>2
    <3> HIDE DEF row
    <3>2. Ends(a, "fail", "failed", row)
      BY <2>1, <2>3, <3>1, EndsBack
    <3>3. DbJob(j) = Table[j] /\ ledger[a].status # "absent"
      BY <2>1, <2>2, TableJobs DEF Unsettled
    <3> HIDE DEF Table
    <3>4. IgnoresCancel(a)
      BY <1>1, <2>5, <2>6, <3>2, <3>3 DEF IgnoresCancel, row
    <3> QED  BY <3>3, <3>4 DEF Differs
  <2>7. CASE ~extra[j].cancel
    <3>1. extra' = extra
      BY <2>1, <2>2, <2>7, UndoneIs
    <3>2. Db!Settle(a, "fail", "failed", Db!Requeued(Db!Charged(Table[j], 0), due))
      BY <2>1, <2>3, <2>4, <3>1, SettleBack
    <3> HIDE DEF Table
    <3> QED  BY <1>0, <1>1, <2>2, <2>5, <2>7, <3>2 DEF Db!fail_job
  <2> QED  BY <2>6, <2>7
<1>2. CASE ~(retryable /\ r.failures + 1 < r.max)
  <2> DEFINE e == EndRow(r, "failed", 1, "fail")
             x == Decided(extra[j], o, a)
  <2>0. o \in Outcomes
    BY OutcomeFacts
  <2>1. /\ Unsettled(a) /\ Booked(a, "fail", "failed") /\ BranchEnds(j, e, x)
    <3>1. Close(a, "fail", "failed", o, 1, Nothing)
      BY <1>2 DEF fail
    <3>2. "fail" \in Verbs /\ 1 \in Nat /\ "failed" \in {"failed", "cancelled"}
      BY OutcomeFacts
    <3> HIDE DEF o
    <3> QED  BY <2>0, <3>1, <3>2, CloseWrites
  <2>2. /\ j \in Jobs /\ r \in FakeRow /\ extra[j] \in ExtraRow /\ Db!Fenced(a)
    BY <2>1, UnsettledFacts
  <2>3. e \in FakeRow /\ e.status = "failed" /\ e.needs = r.needs
    <3>1. "fail" \in Verbs /\ "failed" \in Terminal /\ 1 \in Nat
      BY OutcomeFacts
    <3>2. r \in FakeRow
      BY <2>2
    <3> HIDE DEF r
    <3> QED  BY <3>1, <3>2, EndRowIs
  <2>4. DbRow(e, x) = Db!Finished(Db!Charged(Table[j], 0), "failed", o, a)
    BY <2>0, <2>2, TableIs, DeadImage, OutcomeFacts
  <2>5. /\ Table[j].cancel = extra[j].cancel /\ Table[j].failures = r.failures
        /\ Table[j].max = r.max
    BY <2>2, TableIs, Columns
  <2> HIDE DEF e, x
  <2>6. CASE ~extra[j].cancel /\ Doomed(rows, j) = Children(rows, {j})
    <3>1. Db!Settle(a, "fail", "failed", Db!Finished(Db!Charged(Table[j], 0), "failed", o, a))
      BY <2>1, <2>3, <2>4, <2>6, SettleDead
    <3> HIDE DEF Table
    <3> QED  BY <1>0, <1>2, <2>2, <2>5, <2>6, <3>1 DEF Db!fail_job
  <2>7. CASE extra[j].cancel \/ Doomed(rows, j) # Children(rows, {j})
    <3> DEFINE row == Db!Finished(Db!Charged(Table[j], 0), "failed", o, a)
    <3>1. Ends(a, "fail", "failed", row)
      BY <2>1, <2>3, <2>4, EndsDead
    <3>2. DbJob(j) = Table[j] /\ ledger[a].status # "absent"
      BY <2>1, <2>2, TableJobs DEF Unsettled
    <3> HIDE DEF Table
    <3>3. row \in Dead(DbJob(j), a)
      BY <1>2, <2>5, <3>2 DEF Dead
    <3> HIDE DEF row
    <3>4. IgnoresCancel(a) \/ CancelsBranch(a)
      BY <2>5, <2>7, <3>1, <3>2, <3>3 DEF IgnoresCancel, CancelsBranch
    <3> QED  BY <3>2, <3>4 DEF Differs
  <2> QED  BY <2>6, <2>7
<1> QED  BY <1>1, <1>2

LEMMA BackRows ==
    ASSUME RowsInv, NEW a \in Attempts, NEW due \in BOOLEAN
    PROVE  /\ snooze(a, due) => Db!snooze_job(a, due) \/ Differs
           /\ release(a, due) => Db!release_job(a, due) \/ Differs
<1> DEFINE j == ledger[a].job
           r == rows[j]
<1>0. Table = [c \in Jobs |-> DbJob(c)]
  BY TableIs
<1>1. ASSUME NEW v \in {"snooze", "release"}, NEW s \in {"snoozed", "released"},
             <<v, s>> \in {<<"snooze", "snoozed">>, <<"release", "released">>},
             PutBack(a, v, s, due, 0)
      PROVE  \/ Differs
             \/ /\ Db!Fenced(a) /\ ~Table[j].cancel
                /\ Db!Settle(a, v, s, Db!Requeued(Table[j], due))
                /\ Db!Settle(a, v, s, Db!Requeued(Db!Unstreaked(Table[j], due), due))
                /\ Db!Unstreaked(Table[j], due).cancel = Table[j].cancel
  <2> DEFINE e == BackRow(r, due, 0, v)
  <2>0. v \in Verbs
    BY OutcomeFacts
  <2>1. /\ Unsettled(a) /\ Booked(a, v, s)
        /\ rows' = [rows EXCEPT ![j] = e] /\ extra' = [extra EXCEPT ![j] = Undone(extra[j])]
    BY <1>1, <2>0, BackWrites
  <2>2. /\ j \in Jobs /\ r \in FakeRow /\ extra[j] \in ExtraRow /\ Db!Fenced(a)
        /\ extra \in [Jobs -> ExtraRow]
    BY <2>1, UnsettledFacts
  <2>3. e \in FakeRow /\ e.status = "queued" /\ e.needs = r.needs
    BY <2>0, <2>2, BackRowIs
  <2>4. /\ DbRow(e, extra[j]) = Db!Requeued(Table[j], due)
        /\ DbRow(e, extra[j]) = Db!Requeued(Db!Unstreaked(Table[j], due), due)
    BY <2>0, <2>2, TableIs, BackImage
  <2>5. Table[j].cancel = extra[j].cancel
    BY <2>2, TableIs, Columns
  <2>6. Db!Unstreaked(Table[j], due).cancel = Table[j].cancel
    <3>1. Table[j] = Row(r.status, extra[j].outcome, Ids(r), r.wf, r.parent, extra[j].pending,
            r.due, HeldBy(r),
                   RunBy(r), LeaseOf(r), extra[j].cancel, r.failures, r.max, extra[j].finisher)
      BY <2>2, TableIs, AsRow
    <3>2. Db!Unstreaked(Table[j], due)
            = Row(r.status, extra[j].outcome, Ids(r), r.wf, r.parent, extra[j].pending, due,
                  HeldBy(r),
                   RunBy(r), LeaseOf(r), extra[j].cancel, r.failures, r.max, extra[j].finisher)
      BY <3>1, UnstreakedRow
    <3>3. Db!Unstreaked(Table[j], due).cancel = extra[j].cancel
      BY <3>2 DEF Row
    <3> QED  BY <2>5, <3>3
  <2> HIDE DEF e
  <2>7. CASE extra[j].cancel
    <3> DEFINE row == Db!Requeued([DbJob(j) EXCEPT !.cancel = FALSE], due)
    <3>1. DbRow(e, Undone(extra[j])) = row
      <4>1. DbRow(e, Undone(extra[j])) = Db!Requeued(DbRow(r, Undone(extra[j])), due)
        BY <2>0, <2>2, BackImage DEF e
      <4>2. DbRow(r, Undone(extra[j])) = [DbJob(j) EXCEPT !.cancel = FALSE]
        BY <2>2, UndoneImage DEF Untold, DbJob
      <4> QED  BY <4>1, <4>2
    <3> HIDE DEF row
    <3>2. Ends(a, v, s, row)
      BY <2>1, <2>3, <3>1, EndsBack
    <3>3. DbJob(j) = Table[j] /\ ledger[a].status # "absent"
      BY <2>1, <2>2, TableJobs DEF Unsettled
    <3> HIDE DEF Table
    <3>4. Ends(a, "snooze", "snoozed", row) \/ Ends(a, "release", "released", row)
      BY <1>1, <3>2
    <3>5. IgnoresCancel(a)
      BY <2>5, <2>7, <3>3, <3>4 DEF IgnoresCancel, row
    <3> QED  BY <3>3, <3>5 DEF Differs
  <2>8. CASE ~extra[j].cancel
    <3>1. extra' = extra
      BY <2>1, <2>2, <2>8, UndoneIs
    <3>2. /\ Db!Settle(a, v, s, Db!Requeued(Table[j], due))
          /\ Db!Settle(a, v, s, Db!Requeued(Db!Unstreaked(Table[j], due), due))
      BY <2>1, <2>3, <2>4, <3>1, SettleBack
    <3> HIDE DEF Table
    <3> QED  BY <2>2, <2>5, <2>6, <2>8, <3>2
  <2> QED  BY <2>7, <2>8
<1>2. ASSUME snooze(a, due) PROVE Db!snooze_job(a, due) \/ Differs
  <2> HIDE DEF Table
  <2> QED  BY <1>0, <1>1, <1>2 DEF snooze, Db!snooze_job
<1>3. ASSUME release(a, due) PROVE Db!release_job(a, due) \/ Differs
  <2> HIDE DEF Table
  <2> QED  BY <1>0, <1>1, <1>3 DEF release, Db!release_job
<1> QED  BY <1>2, <1>3

\* Row j succeeded: its blocked children lost an edge, the ones that wait for
\* nothing more are promoted, and the rows F are inserted, M of them into its
\* workflow.
Succeeded(a, F, M, due, max) ==
    LET j == ledger[a].job IN
    /\ rows'[j] = EndRow(rows[j], "succeeded", 0, "complete")
    /\ extra'[j] = Decided(extra[j], "success", a)
    /\ M # {} => rows[j].wf # None
    /\ \A c \in F : /\ rows[c].status = "absent" /\ extra'[c] = extra[c]
                    /\ rows'[c] = NewRow("queued", Followup(due, max),
                                         IF c \in M THEN rows[j].wf ELSE None, {}, j)
    /\ \A c \in Jobs : c # j /\ c \notin F =>
          IF rows[c].status = "blocked" /\ j \in rows[c].needs
            THEN /\ extra'[c] = Lighter(extra[c])
                 /\ Open(c) = {j} => rows'[c] = WithStatus(rows[c], "queued")
                 /\ Open(c) # {j} => rows'[c] = rows[c]
            ELSE rows'[c] = rows[c] /\ extra'[c] = extra[c]

LEMMA CompleteWrites ==
    ASSUME RowsInv, NEW a \in Attempts, NEW F \in SUBSET Jobs, NEW M \in SUBSET F,
      NEW due \in BOOLEAN,
           NEW max \in Budgets, complete(a, F, M, due, max)
    PROVE  /\ Unsettled(a) /\ Booked(a, "complete", "succeeded") /\ Succeeded(a, F, M, due, max)
           /\ KeyFreed(rows[ledger[a].job].key)
           /\ rows' = [c \in Jobs |-> rows'[c]] /\ extra' = [c \in Jobs |-> extra'[c]]
<1> DEFINE j == ledger[a].job
           w == rows[j].wf
           r == [rows[j] EXCEPT !.status = "succeeded", !.failures = @ + 0]
           R == [rows EXCEPT ![j] = [r EXCEPT !.settled = "complete"]]
           x == [extra[j] EXCEPT !.outcome = "success", !.finisher = a]
           A == Advanced(R, j)
           New == [f \in F |-> NewRow("queued", Followup(due, max),
                                      IF f \in M THEN w ELSE None, {}, j)]
<1>0. Finish(a, "complete", "succeeded", r, New, x)
  BY DEF complete, Close
<1>1. Unsettled(a) /\ Booked(a, "complete", "succeeded")
  BY <1>0 DEF Finish, Booked
<1>2. /\ j \in Jobs /\ rows[j] \in FakeRow /\ extra[j] \in ExtraRow
      /\ rows[j].status = "running" /\ rows \in [Jobs -> FakeRow]
  BY <1>1, UnsettledFacts
<1>3. EndRow(rows[j], "succeeded", 0, "complete") = [r EXCEPT !.settled = "complete"]
      /\ x = Decided(extra[j], "success", a)
  BY DEF EndRow, Decided
<1>4. r.status = "succeeded" /\ r.key = rows[j].key
  BY <1>2 DEF FakeRow
<1>5. /\ rows' = [c \in Jobs |-> IF c \in DOMAIN New THEN New[c]
                               ELSE (IF r.status \in Terminal THEN A ELSE R)[c]]
      /\ keys' = KeysAfter(r.key, r.status)
      /\ extra' = [c \in Jobs |->
                   IF c = j THEN x
                   ELSE IF (IF r.status \in Terminal THEN A ELSE R)[c].status = "cancelled"
                           /\ rows[c].status \in Waiting
                     THEN [extra[c] EXCEPT !.outcome = "dep_failed"]
                   ELSE IF r.status = "succeeded" /\ j \in rows[c].needs
                           /\ rows[c].status = "blocked"
                     THEN [extra[c] EXCEPT !.pending = @ - 1]
                   ELSE extra[c]]
  BY <1>0 DEF Finish
<1>6. R[j] = EndRow(rows[j], "succeeded", 0, "complete") /\ \A c \in Jobs \ {j} : R[c] = rows[c]
  BY <1>2, <1>3
<1>7. R[j].status = "succeeded" /\ R[j].wf = w
  <2>1. "complete" \in Verbs /\ "succeeded" \in Terminal /\ 0 \in Nat
    BY OutcomeFacts
  <2> QED  BY <1>2, <1>6, <2>1, EndRowIs
<1>8. \A f \in F : rows[f].status = "absent"
  BY DEF complete
<1>9. M # {} => w # None
  BY DEF complete
<1>10. DOMAIN New = F
         /\ \A f \in F : New[f] = NewRow("queued", Followup(due, max),
                                         IF f \in M THEN w ELSE None, {}, j)
  OBVIOUS
<1>11. "succeeded" \in Terminal
  BY OutcomeFacts
<1> HIDE DEF r, x, R, A, New
<1>12. ASSUME NEW c \in Jobs, c # j
       PROVE  c \in Ready(R, j) <=>
                 rows[c].status = "blocked" /\ j \in rows[c].needs /\ Open(c) = {j}
  <2>1. rows[c].needs \subseteq Jobs
    BY <1>2 DEF FakeRow
  <2>2. \A p \in Jobs : R[p].status = "succeeded" <=> p = j \/ rows[p].status = "succeeded"
    BY <1>6, <1>7
  <2>3. c \in Ready(R, j) <=> /\ rows[c].status = "blocked" /\ j \in rows[c].needs
                              /\ \A p \in rows[c].needs : R[p].status = "succeeded"
    BY <1>6, <1>12 DEF Ready, Children, Waiting
  <2>4. (j \in rows[c].needs /\ \A p \in rows[c].needs : p = j \/ rows[p].status = "succeeded")
          <=> (j \in rows[c].needs /\ Open(c) = {j})
    BY <1>2 DEF Open
  <2> QED  BY <2>1, <2>2, <2>3, <2>4
<1>13. j \notin Ready(R, j)
  BY <1>7 DEF Ready
<1>14. \A c \in Jobs : A[c] = IF c # j /\ rows[c].status = "blocked" /\ j \in rows[c].needs
         /\ Open(c) = {j}
                              THEN [R[c] EXCEPT !.status = "queued"] ELSE R[c]
  <2>1. CASE w = None
    <3>1. \A c \in Jobs : j \notin rows[c].needs
      BY <1>2, <2>1 DEF RowsInv, NeedsOK, CountOK
    <3> QED  BY <1>7, <2>1, <3>1 DEF A, Advanced
  <2>2. CASE w # None
    <3>1. \A c \in Jobs : A[c] =
            IF c \in Ready(R, j) THEN [R[c] EXCEPT !.status = "queued"] ELSE R[c]
      BY <1>7, <2>2 DEF A, Advanced
    <3> QED  BY <1>12, <1>13, <3>1
  <2> QED  BY <2>1, <2>2
<1>15. \A c \in Jobs : rows'[c] = IF c \in F THEN New[c] ELSE A[c]
  BY <1>4, <1>5, <1>10, <1>11
<1>16. j \notin F
  BY <1>2, <1>8
<1>17. rows'[j] = EndRow(rows[j], "succeeded", 0, "complete")
         /\ extra'[j] = Decided(extra[j], "success", a)
  BY <1>2, <1>3, <1>5, <1>6, <1>14, <1>15, <1>16
<1>18. ASSUME NEW c \in Jobs, c # j
       PROVE  extra'[c] = IF rows[c].status = "blocked" /\ j \in rows[c].needs
                          THEN Lighter(extra[c]) ELSE extra[c]
  <2>1. R[c] = rows[c]
    BY <1>6, <1>18
  <2>2. ~(A[c].status = "cancelled" /\ rows[c].status \in Waiting)
    <3>1. CASE rows[c].status = "blocked" /\ j \in rows[c].needs /\ Open(c) = {j}
      <4>1. A[c] = WithStatus(rows[c], "queued")
        BY <1>14, <1>18, <2>1, <3>1 DEF WithStatus
      <4>2. A[c].status = "queued"
        BY <1>2, <3>1, <4>1, WithStatusIs DEF Waiting
      <4> QED  BY <4>2
    <3>2. CASE ~(rows[c].status = "blocked" /\ j \in rows[c].needs /\ Open(c) = {j})
      <4>1. A[c] = rows[c]
        BY <1>14, <2>1, <3>2
      <4> QED  BY <4>1 DEF Waiting
    <3> QED  BY <3>1, <3>2
  <2> QED  BY <1>4, <1>5, <1>11, <1>18, <2>2 DEF Lighter
<1>19. ASSUME NEW c \in F
       PROVE  /\ rows[c].status = "absent" /\ extra'[c] = extra[c]
              /\ rows'[c] = NewRow("queued", Followup(due, max),
                                   IF c \in M THEN rows[j].wf ELSE None, {}, j)
  BY <1>8, <1>10, <1>15, <1>16, <1>18
<1>20. ASSUME NEW c \in Jobs, c # j, c \notin F
       PROVE  IF rows[c].status = "blocked" /\ j \in rows[c].needs
                THEN /\ extra'[c] = Lighter(extra[c])
                     /\ Open(c) = {j} => rows'[c] = WithStatus(rows[c], "queued")
                     /\ Open(c) # {j} => rows'[c] = rows[c]
                ELSE rows'[c] = rows[c] /\ extra'[c] = extra[c]
  BY <1>6, <1>14, <1>15, <1>18, <1>20 DEF WithStatus
<1>21. Succeeded(a, F, M, due, max)
  BY <1>9, <1>17, <1>19, <1>20 DEF Succeeded
<1>22. KeyFreed(rows[j].key)
  BY <1>4, <1>5, <1>11 DEF KeyFreed, KeysAfter
<1> QED  BY <1>1, <1>5, <1>21, <1>22

\* A child of a job that runs still waits for it.
LEMMA ChildWaits ==
    ASSUME RowsInv, NEW j \in Jobs, rows[j].status = "running", NEW c \in Jobs,
           rows[c].status = "blocked", j \in rows[c].needs
    PROVE  /\ j \in Open(c) /\ extra[c].pending # 0
           /\ extra[c].pending = 1 <=> Open(c) = {j}
           /\ extra[c].pending = Cardinality(Open(c)) /\ IsFiniteSet(Open(c))
<1>1. j \in Open(c)
  BY DEF Open
<1>2. rows[c] \in FakeRow
  BY DEF RowsInv, Types
<1>3. Open(c) \in SUBSET Jobs
  BY <1>2 DEF Open, FakeRow
<1>4. IsFiniteSet(Open(c))
  BY <1>3, FiniteOpen
<1>5. extra[c].pending = Cardinality(Open(c))
  BY DEF RowsInv, NeedsOK, CountOK
<1>6. extra[c].pending # 0
  BY <1>1, <1>4, <1>5, FS_EmptySet
<1>7. extra[c].pending = 1 <=> Open(c) = {j}
  <2>1. Cardinality(Open(c)) = 1 <=> \E x : Open(c) = {x}
    BY <1>4, FS_Singleton
  <2>2. \A x : Open(c) = {x} => x = j
    BY <1>1
  <2> QED  BY <1>5, <2>1, <2>2
<1> QED  BY <1>1, <1>4, <1>5, <1>6, <1>7

\* A row that complete inserts for job j.
LEMMA FollowupIs ==
    ASSUME NEW w \in Workflows \cup {None}, NEW due \in BOOLEAN, NEW max \in Budgets,
           NEW j \in Jobs
    PROVE  LET e == NewRow("queued", Followup(due, max), w, {}, j) IN
           /\ e \in FakeRow /\ e.status = "queued" /\ e.needs = {} /\ e.key = None
           /\ e.wf = w
<1> DEFINE c == Followup(due, max)
<1>1. /\ "queued" \in Waiting /\ {} \in SUBSET Jobs /\ j \in Jobs \cup {None}
      /\ c \in Command
  BY CommandsAre DEF Waiting
<1>2. c.key = None
  BY DEF Followup
<1> HIDE DEF c
<1> QED  BY <1>1, <1>2, NewRowIs DEF c

LEMMA CompleteSteps ==
    ASSUME RowsInv, NEW a \in Attempts, NEW F \in SUBSET Jobs, NEW M \in SUBSET F,
      NEW due \in BOOLEAN,
           NEW max \in Budgets, Unsettled(a), Booked(a, "complete", "succeeded"),
           Succeeded(a, F, M, due, max)
    PROVE  Db!complete_job(a, F, M, due, max)
<1> DEFINE j == ledger[a].job
           r == rows[j]
           K == Children(rows, {j})
<1>1. /\ j \in Jobs /\ r.status = "running" /\ Db!Fenced(a) /\ r \in FakeRow
      /\ extra[j] \in ExtraRow /\ r.wf \in Workflows \cup {None}
      /\ rows \in [Jobs -> FakeRow] /\ extra \in [Jobs -> ExtraRow]
  BY UnsettledFacts
<1>2. /\ rows'[j] = EndRow(r, "succeeded", 0, "complete")
      /\ extra'[j] = Decided(extra[j], "success", a)
  BY DEF Succeeded
<1>3. \A f \in F : f # j /\ rows[f].status = "absent" /\ f \notin K
  BY <1>1, DependentsAre DEF Succeeded
<1>4. \A c \in K : c \in Jobs /\ c # j /\ c \notin F /\ rows[c].status = "blocked"
        /\ j \in rows[c].needs
  BY <1>1, <1>3, DependentsAre DEF Children
<1>5. Table'[j] = Db!Finished(Db!Unstreaked(Table[j], Table[j].due), "succeeded", "success", a)
  <2>1. "complete" \in Verbs /\ "success" \in Outcomes
    BY OutcomeFacts
  <2> QED  BY <1>1, <1>2, <2>1, CompleteImage, TableIs, TableNext
<1>6. ASSUME NEW c \in K PROVE Table'[c] = Db!Promoted(Table[c])
  <2>1. /\ rows[c].status = "blocked" /\ c \in Jobs /\ rows[c] \in FakeRow
             /\ extra[c] \in ExtraRow
        /\ extra[c].pending # 0 /\ (extra[c].pending = 1 <=> Open(c) = {j})
    BY <1>1, <1>4, ChildWaits
  <2>2. /\ extra'[c] = Lighter(extra[c])
        /\ Open(c) = {j} => rows'[c] = WithStatus(rows[c], "queued")
        /\ Open(c) # {j} => rows'[c] = rows[c]
    BY <1>4 DEF Succeeded
  <2>3. DbRow(rows'[c], extra'[c]) = Db!Promoted(DbRow(rows[c], extra[c]))
    BY <2>1, <2>2, PromotedImage
  <2> QED  BY <2>1, <2>3, TableIs, TableNext
<1>7. ASSUME NEW c \in F
      PROVE  Table'[c] = Db!NewJob("queued", None, None, IF c \in M THEN Table[j].wf ELSE None,
                                   j, 0, due, "none", max)
  <2> DEFINE q == IF c \in M THEN r.wf ELSE None
  <2>1. extra'[c] = Fresh(0)
    BY <1>3, FreshExtra DEF Succeeded
  <2>2. rows'[c] = NewRow("queued", Followup(due, max), q, {}, j)
    BY DEF Succeeded
  <2>3. /\ q \in Workflows \cup {None} /\ 0 \in Nat /\ "queued" \in Waiting
        /\ {} \in SUBSET Jobs /\ j \in Jobs \cup {None}
    BY <1>1 DEF Waiting
  <2>4. Table[j].wf = r.wf
    BY <1>1, TableIs, Columns
  <2> HIDE DEF q
  <2> DEFINE cmd == Followup(due, max)
  <2>6. cmd \in Command /\ cmd.key = None /\ cmd.ckey = None /\ cmd.ttl = "none"
          /\ cmd.due = due /\ cmd.max = max
    BY CommandsAre DEF Followup
  <2> HIDE DEF cmd
  <2>7. DbRow(NewRow("queued", cmd, q, {}, j), Fresh(0))
          = Db!NewJob("queued", None, None, q, j, 0, due, "none", max)
    BY <2>3, <2>6, NewImage
  <2>5. Table'[c] = Db!NewJob("queued", None, None, q, j, 0, due, "none", max)
    BY <2>1, <2>2, <2>7, TableNext DEF cmd
  <2> QED  BY <2>4, <2>5 DEF q
<1>8. ASSUME NEW c \in Jobs, c # j, c \notin K, c \notin F
        PROVE Table'[c] = Table[c] /\ rows'[c] = rows[c]
  <2>1. rows'[c] = rows[c] /\ extra'[c] = extra[c]
    BY <1>1, <1>8, DependentsAre DEF Succeeded
  <2> QED  BY <2>1, TableIs, TableNext
<1>9. \A c \in Jobs : /\ rows'[c].needs = rows[c].needs
                      /\ rows'[c].status = "blocked" <=>
                            rows[c].status = "blocked" /\ ~(c \in K /\ Open(c) = {j})
                      /\ rows'[c].status = "succeeded" <=> rows[c].status = "succeeded" \/ c = j
  <2> SUFFICES ASSUME NEW c \in Jobs
               PROVE  /\ rows'[c].needs = rows[c].needs
                      /\ rows'[c].status = "blocked" <=>
                            rows[c].status = "blocked" /\ ~(c \in K /\ Open(c) = {j})
                      /\ rows'[c].status = "succeeded" <=> rows[c].status = "succeeded" \/ c = j
    OBVIOUS
  <2>1. CASE c = j
    <3>1. "complete" \in Verbs /\ "succeeded" \in Terminal /\ 0 \in Nat
      BY OutcomeFacts
    <3>2. rows'[j].status = "succeeded" /\ rows'[j].needs = r.needs
      BY <1>1, <1>2, <3>1, EndRowIs
    <3> QED  BY <1>1, <2>1, <3>2
  <2>2. CASE c \in K
    <3>1. /\ c # j /\ rows[c] \in FakeRow /\ rows[c].status = "blocked"
          /\ Open(c) = {j} => rows'[c] = WithStatus(rows[c], "queued")
          /\ Open(c) # {j} => rows'[c] = rows[c]
      BY <1>1, <1>4, <2>2 DEF Succeeded
    <3>2. Open(c) = {j} => rows'[c].status = "queued" /\ rows'[c].needs = rows[c].needs
      BY <3>1, WithStatusIs DEF Waiting
    <3> HIDE DEF K
    <3> QED  BY <2>2, <3>1, <3>2
  <2>3. CASE c \in F
    <3> DEFINE q == IF c \in M THEN r.wf ELSE None
           g == NewRow("queued", Followup(due, max), q, {}, j)
    <3>1. rows'[c] = g
      BY <2>3 DEF Succeeded
    <3>2. q \in Workflows \cup {None} /\ j \in Jobs
      BY <1>1
    <3> HIDE DEF q
    <3>3. g.status = "queued" /\ g.needs = {}
      BY <3>2, FollowupIs
    <3> HIDE DEF g
    <3>4. rows[c].needs = {} /\ rows[c].status = "absent" /\ c # j /\ c \notin K
      BY <1>3, <2>3, FreshExtra
    <3> QED  BY <3>1, <3>3, <3>4
  <2>4. CASE c # j /\ c \notin K /\ c \notin F
    BY <1>8, <2>4
  <2> QED  BY <2>1, <2>2, <2>3, <2>4
<1>10. Edges' = Edges \ (K \X {j})
  <2>1. ASSUME NEW c \in Jobs, NEW p \in Jobs
        PROVE  <<c, p>> \in Edges' <=> <<c, p>> \in Edges /\ ~(c \in K /\ p = j)
    <3>1. <<c, p>> \in Edges'
            <=> rows'[c].status = "blocked" /\ p \in rows'[c].needs /\ rows'[p].status # "succeeded"
      BY EdgeNext
    <3>2. <<c, p>> \in Edges
            <=> rows[c].status = "blocked" /\ p \in rows[c].needs /\ rows[p].status # "succeeded"
      BY EdgeIs
    <3>3. Open(c) = {j} /\ p \in rows[c].needs /\ p # j => rows[p].status = "succeeded"
      BY DEF Open
    <3>4. rows[c].status = "blocked" /\ j \in rows[c].needs <=> c \in K
      BY <1>1, DependentsAre
    <3> HIDE DEF K
    <3> QED  BY <1>9, <3>1, <3>2, <3>3, <3>4
  <2>2. Edges \subseteq Jobs \X Jobs /\ Edges' \subseteq Jobs \X Jobs
    BY DEF Edges
  <2> HIDE DEF K
  <2> QED  BY <2>1, <2>2
<1>11. [c \in Jobs |-> rows[c].needs]' = [c \in Jobs |-> rows[c].needs]
  BY <1>9
<1>12. [c \in Jobs |-> DbJob(c)]' = Table' /\ [c \in Jobs |-> DbJob(c)] = Table
  BY TableIs, TableNext
<1>13. Table' = [c \in Jobs |->
               IF c = j THEN Db!Finished(Db!Unstreaked(Table[j], Table[j].due), "succeeded",
                 "success", a)
               ELSE IF c \in K THEN Db!Promoted(Table[c])
               ELSE IF c \in F THEN Db!NewJob("queued", None, None,
                                          IF c \in M THEN Table[j].wf ELSE None, j, 0,
                                          due, "none", max)
               ELSE Table[c]]
  <2>1. Table' = [c \in Jobs |-> Table'[c]]
    BY TableNext
  <2> HIDE DEF Table, K
  <2> QED  BY <1>5, <1>6, <1>7, <1>8, <2>1
<1>14. K \in SUBSET Db!Dependents({j})
  BY <1>1, DependentsAre
<1>15. (\A f \in F : Table[f].status = "absent") /\ (M # {} => Table[j].wf # None)
  BY <1>1, <1>3, TableIs, Columns DEF Succeeded
<1> DEFINE T == [c \in Jobs |-> DbJob(c)]
           After(k) ==
             [c \in Jobs |->
               IF c = j THEN Db!Finished(Db!Unstreaked(T[j], T[j].due), "succeeded", "success", a)
               ELSE IF c \in k THEN Db!Promoted(T[c])
               ELSE IF c \in F THEN Db!NewJob("queued", None, None,
                                          IF c \in M THEN T[j].wf ELSE None, j, 0,
                                          due, "none", max)
               ELSE T[c]]
<1> HIDE DEF Table, K
<1>16. T' = After(K)
  <2>1. T = Table /\ T' = Table'
    BY <1>12
  <2> HIDE DEF T
  <2> QED  BY <1>13, <2>1
<1>17. \E k \in SUBSET Db!Dependents({j}) : T' = After(k) /\ Edges' = Edges \ (k \X {j})
  <2> HIDE DEF T, After
  <2> QED  BY <1>10, <1>14, <1>16
<1>18. (\A f \in F : T[f].status = "absent") /\ (M # {} => T[j].wf # None)
  BY <1>12, <1>15
<1> QED  BY <1>1, <1>11, <1>17, <1>18 DEF Db!complete_job, Booked

LedgerKept ==
    /\ ledger' \in [Attempts -> LedgerRow]
    /\ \A a \in Attempts : ledger'[a].status # "absent" => ledger'[a].job \in Jobs

\* The jobs that are active keep the entries of their keys.
KeysKept ==
    /\ keys' \in [Keys -> Jobs \cup {None}]
    /\ \A c \in Jobs : rows'[c].status \in Active /\ rows[c].key # None =>
          rows[c].status \in Active /\ keys'[rows[c].key] = keys[rows[c].key]

\* What every step does to a row that was there or is inserted without needs.
Kept(c) ==
    /\ rows'[c] \in FakeRow /\ extra'[c] \in ExtraRow
    /\ rows'[c].needs = rows[c].needs /\ rows'[c].key = rows[c].key
    /\ rows'[c].wf = rows[c].wf \/ rows[c].status = "absent"
    /\ rows'[c].status = "absent" => rows'[c] = rows[c] /\ extra'[c] = extra[c]
    /\ rows'[c].status \in Waiting => ~extra'[c].cancel

AllRows == rows' = [c \in Jobs |-> rows'[c]] /\ extra' = [c \in Jobs |-> extra'[c]]

LEMMA KeptInv ==
    ASSUME RowsInv, AllRows, \A c \in Jobs : Kept(c) /\ CountOK(c)', LedgerKept, KeysKept
    PROVE  RowsInv'
<1>1. Types'
  <2>1. rows' \in [Jobs -> FakeRow]
    BY DEF AllRows, Kept
  <2>2. extra' \in [Jobs -> ExtraRow]
    BY DEF AllRows, Kept
  <2> QED  BY <2>1, <2>2 DEF Types, LedgerKept, KeysKept
<1>2. ASSUME NEW c \in Jobs PROVE RowOK(c)'
  <2>1. Kept(c) /\ RowOK(c)
    BY DEF RowsInv
  <2> QED  BY <2>1 DEF Kept, RowOK
<1>3. ASSUME NEW c \in Jobs PROVE NeedsOK(c)'
  <2>1. Kept(c) /\ CountOK(c)' /\ NeedsOK(c)
    BY DEF RowsInv
  <2>2. ASSUME NEW d \in rows'[c].needs PROVE rows'[d].wf = rows'[c].wf /\ rows'[c].wf # None
    <3>1. d \in rows[c].needs
      BY <2>1, <2>2 DEF Kept
    <3>2. d \in Jobs
      BY <3>1 DEF RowsInv, Types, FakeRow
    <3>3. rows[d].wf = rows[c].wf /\ rows[c].wf # None
      BY <2>1, <3>1 DEF NeedsOK
    <3>4. rows[d].status # "absent" /\ rows[c].status # "absent"
      BY <3>1, <3>2, FreshExtra
    <3> QED  BY <2>1, <3>2, <3>3, <3>4 DEF Kept
  <2> QED  BY <2>1, <2>2 DEF NeedsOK
<1>4. ASSUME NEW c \in Jobs PROVE KeyOK(c)'
  <2>1. rows'[c].key = rows[c].key /\ KeyOK(c)
    BY DEF RowsInv, Kept
  <2> QED  BY <2>1 DEF KeyOK, KeysKept
<1> QED  BY <1>1, <1>2, <1>3, <1>4 DEF RowsInv

\* No job starts to wait for more or for less, nor succeeds.
Quiet(c) ==
    /\ rows'[c].status = "succeeded" <=> rows[c].status = "succeeded"
    /\ rows'[c].status = "blocked" =>
          rows[c].status = "blocked" /\ extra'[c].pending = extra[c].pending
    /\ rows'[c].status \in {"queued", "running"} => rows[c].status \in {"queued", "running"}

LEMMA QuietInv ==
    ASSUME RowsInv, AllRows, \A c \in Jobs : Kept(c) /\ Quiet(c), LedgerKept, KeysKept
    PROVE  RowsInv'
<1> SUFFICES ASSUME NEW c \in Jobs PROVE CountOK(c)'
  BY KeptInv
<1>1. rows[c].needs \subseteq Jobs /\ rows'[c].needs = rows[c].needs
  BY DEF RowsInv, Types, FakeRow, Kept
<1>2. Open(c)' = Open(c)
  BY <1>1 DEF Open, Quiet
<1>3. CountOK(c) /\ Quiet(c)
  BY DEF RowsInv, NeedsOK
<1> HIDE DEF Open
<1> QED  BY <1>2, <1>3 DEF CountOK, Quiet

LEMMA BookedKept ==
    ASSUME RowsInv, NEW a \in Attempts, NEW v,
           NEW s \in {"succeeded", "failed", "snoozed", "released", "cancelled"},
           Unsettled(a), Booked(a, v, s)
    PROVE  LedgerKept
<1>1. ledger \in [Attempts -> LedgerRow] /\ ledger[a].status # "absent"
  BY DEF RowsInv, Types, Unsettled
<1>2. ledger' = [ledger EXCEPT ![a] = [ledger[a] EXCEPT !.status = s]]
  BY <1>1 DEF Booked
<1>3. [ledger[a] EXCEPT !.status = s] \in LedgerRow
      /\ [ledger[a] EXCEPT !.status = s].job = ledger[a].job
  BY <1>1 DEF LedgerRow
<1> QED  BY <1>1, <1>2, <1>3 DEF LedgerKept, RowsInv, Types

LEMMA FreedKept ==
    ASSUME RowsInv, NEW j \in Jobs, rows[j].status = "running", KeyFreed(rows[j].key),
           rows'[j].status \notin Active,
           \A c \in Jobs : rows'[c].status \in Active /\ rows[c].key # None =>
              rows[c].status \in Active
    PROVE  KeysKept
<1>1. keys \in [Keys -> Jobs \cup {None}] /\ rows \in [Jobs -> FakeRow]
  BY DEF RowsInv, Types
<1>2. rows[j].key \in Keys \cup {None}
  BY <1>1 DEF FakeRow
<1>3. keys' \in [Keys -> Jobs \cup {None}]
  BY <1>1, <1>2 DEF KeyFreed
<1>4. ASSUME NEW c \in Jobs, rows'[c].status \in Active, rows[c].key # None
      PROVE  rows[c].status \in Active /\ keys'[rows[c].key] = keys[rows[c].key]
  <2>1. rows[c].status \in Active /\ c # j
    BY <1>4
  <2>2. keys[rows[c].key] = c
    BY <1>4, <2>1 DEF RowsInv, KeyOK
  <2>3. rows[j].key # None => keys[rows[j].key] = j
    BY DEF RowsInv, KeyOK, Active
  <2>4. rows[c].key # rows[j].key
    BY <1>4, <2>1, <2>2, <2>3
  <2>5. rows[c].key \in Keys
    BY <1>1, <1>4 DEF FakeRow
  <2> QED  BY <1>1, <2>1, <2>4, <2>5 DEF KeyFreed
<1> QED  BY <1>3, <1>4 DEF KeysKept

LEMMA SameKept ==
    ASSUME RowsInv
    PROVE  /\ ledger' = ledger => LedgerKept
           /\ \A c \in Jobs : rows'[c] = rows[c] /\ extra'[c] = extra[c] => Kept(c) /\ Quiet(c)
           /\ (keys' = keys /\ \A c \in Jobs : rows'[c].status \in Active /\ rows[c].key # None =>
                                                  rows[c].status \in Active) => KeysKept
<1>1. ledger' = ledger => LedgerKept
  BY DEF RowsInv, Types, LedgerKept
<1>2. \A c \in Jobs : rows'[c] = rows[c] /\ extra'[c] = extra[c] => Kept(c) /\ Quiet(c)
  BY DEF RowsInv, Types, RowOK, Kept, Quiet
<1>3. (keys' = keys /\ \A c \in Jobs : rows'[c].status \in Active /\ rows[c].key # None =>
                                                  rows[c].status \in Active) => KeysKept
  BY DEF RowsInv, Types, KeysKept
<1> QED  BY <1>1, <1>2, <1>3

----------------------------------------------------------------------------
(* The steps keep the invariant *)

LEMMA ClaimInv ==
    ASSUME RowsInv, NEW j \in Jobs, NEW w \in Workers, NEW a \in Attempts, claim(j, w, a)
    PROVE  RowsInv'
<1> DEFINE e == RunRow(rows[j], a, w)
<1>1. /\ rows \in [Jobs -> FakeRow] /\ extra \in [Jobs -> ExtraRow] /\ rows[j] \in FakeRow
      /\ ledger \in [Attempts -> LedgerRow]
  BY DEF RowsInv, Types
<1>2. /\ rows[j].status = "queued" /\ extra' = extra /\ keys' = keys
      /\ ledger' = [ledger EXCEPT ![a] = [status |-> "running", job |-> j, worker |-> w]]
  BY DEF claim
<1>3. rows' = [rows EXCEPT ![j] = e]
  <2>1. rows' = [rows EXCEPT ![j].status = "running", ![j].att = a, ![j].worker = w,
          ![j].settled = None]
    BY DEF claim
  <2> QED  BY <1>1, <2>1 DEF RunRow
<1>4. /\ e.status = "running" /\ e.key = rows[j].key /\ e.wf = rows[j].wf
      /\ e.needs = rows[j].needs /\ e \in FakeRow
  BY <1>1, RunRowIs
<1> HIDE DEF e
<1>5. \A c \in Jobs : c # j => rows'[c] = rows[c] /\ extra'[c] = extra[c]
  BY <1>1, <1>2, <1>3
<1>6. rows'[j] = e /\ extra'[j] = extra[j] /\ extra[j] \in ExtraRow
  BY <1>1, <1>2, <1>3
<1>7. Kept(j) /\ Quiet(j)
  BY <1>2, <1>4, <1>6 DEF Kept, Quiet, Waiting
<1>8. LedgerKept
  <2>1. [status |-> "running", job |-> j, worker |-> w] \in LedgerRow
    BY DEF LedgerRow
  <2> QED  BY <1>1, <1>2, <2>1 DEF LedgerKept, RowsInv, Types
<1>9. KeysKept
  BY <1>2, <1>5, SameKept DEF Active, Waiting
<1>10. AllRows
  BY <1>1, <1>2, <1>3 DEF AllRows
<1> QED  BY <1>5, <1>7, <1>8, <1>9, <1>10, SameKept, QuietInv

LEMMA ClockInv ==
    ASSUME RowsInv, NEW j \in Jobs, ClockReaches(j)
    PROVE  RowsInv'
<1> DEFINE e == AtDue(rows[j])
<1>1. rows \in [Jobs -> FakeRow] /\ extra \in [Jobs -> ExtraRow] /\ rows[j] \in FakeRow
  BY DEF RowsInv, Types
<1>2. /\ extra' = extra /\ keys' = keys /\ ledger' = ledger /\ rows' = [rows EXCEPT ![j] = e]
      /\ rows[j].status \in Waiting
  BY <1>1 DEF ClockReaches, AtDue
<1>3. /\ e.status = rows[j].status /\ e.key = rows[j].key /\ e.wf = rows[j].wf
      /\ e.needs = rows[j].needs /\ e \in FakeRow
  BY <1>1, AtDueIs
<1> HIDE DEF e
<1>4. \A c \in Jobs : c # j => rows'[c] = rows[c] /\ extra'[c] = extra[c]
  BY <1>1, <1>2
<1>5. rows'[j] = e /\ extra'[j] = extra[j] /\ extra[j] \in ExtraRow /\ ~extra[j].cancel
  BY <1>1, <1>2 DEF RowsInv, RowOK
<1>6. Kept(j) /\ Quiet(j)
  BY <1>2, <1>3, <1>5 DEF Kept, Quiet, Waiting
<1>7. KeysKept
  BY <1>2, <1>4, SameKept DEF Active
<1>8. AllRows
  BY <1>1, <1>2 DEF AllRows
<1> QED  BY <1>2, <1>4, <1>6, <1>7, <1>8, SameKept, QuietInv

LEMMA TtlInv ==
    ASSUME RowsInv, NEW j \in Jobs, TtlRunsOut(j)
    PROVE  RowsInv'
<1> DEFINE e == Expired(rows[j])
<1>1. rows \in [Jobs -> FakeRow] /\ extra \in [Jobs -> ExtraRow] /\ rows[j] \in FakeRow
  BY DEF RowsInv, Types
<1>2. /\ extra' = extra /\ keys' = keys /\ ledger' = ledger /\ rows' = [rows EXCEPT ![j] = e]
      /\ rows[j].status \in Active
  BY <1>1 DEF TtlRunsOut, Expired, Active
<1>3. /\ e.status = rows[j].status /\ e.key = rows[j].key /\ e.wf = rows[j].wf
      /\ e.needs = rows[j].needs /\ e \in FakeRow
  BY <1>1, ExpiredIs
<1> HIDE DEF e
<1>4. \A c \in Jobs : c # j => rows'[c] = rows[c] /\ extra'[c] = extra[c]
  BY <1>1, <1>2
<1>5. /\ rows'[j] = e /\ extra'[j] = extra[j] /\ extra[j] \in ExtraRow
      /\ rows[j].status \in Waiting => ~extra[j].cancel
  BY <1>1, <1>2 DEF RowsInv, RowOK
<1>6. Kept(j) /\ Quiet(j)
  BY <1>2, <1>3, <1>5 DEF Kept, Quiet, Active, Waiting
<1>7. KeysKept
  BY <1>2, <1>4, SameKept
<1>8. AllRows
  BY <1>1, <1>2 DEF AllRows
<1> QED  BY <1>2, <1>4, <1>6, <1>7, <1>8, SameKept, QuietInv

LEMMA FlowInv ==
    ASSUME RowsInv, NEW w \in Workflows, cancel_workflow(w)
    PROVE  RowsInv'
<1>1. /\ FlowCancelled(w) /\ keys' = keys /\ ledger' = ledger /\ AllRows
  BY FlowWrites DEF AllRows
<1>2. rows \in [Jobs -> FakeRow] /\ extra \in [Jobs -> ExtraRow]
  BY DEF RowsInv, Types
<1>3. ASSUME NEW c \in Jobs
        PROVE Kept(c) /\ Quiet(c) /\ (rows'[c].status \in Active => rows[c].status \in Active)
  <2>1. rows[c] \in FakeRow /\ extra[c] \in ExtraRow
    BY <1>2
  <2>2. CASE rows[c].wf = w /\ rows[c].status \in Waiting
    <3>1. rows'[c] = WithStatus(rows[c], "cancelled") /\ extra'[c] = FlowLost(extra[c])
      BY <1>1, <2>2 DEF FlowCancelled
    <3>2. /\ rows'[c] \in FakeRow /\ rows'[c].status = "cancelled" /\ rows'[c].key = rows[c].key
          /\ rows'[c].wf = rows[c].wf /\ rows'[c].needs = rows[c].needs
      BY <2>1, <2>2, <3>1, WithStatusIs
    <3>3. extra'[c] \in ExtraRow
      BY <2>1, <3>1, FlowLostIs
    <3> QED  BY <2>2, <3>2, <3>3 DEF Kept, Quiet, Waiting, Active
  <2>3. CASE rows[c].wf = w /\ rows[c].status = "running"
    <3>1. rows'[c] = rows[c] /\ extra'[c] = Asked(extra[c])
      BY <1>1, <2>3 DEF FlowCancelled
    <3>2. extra'[c] \in ExtraRow
      BY <2>1, <3>1, AskedIs
    <3> QED  BY <2>1, <2>3, <3>1, <3>2 DEF Kept, Quiet, Waiting
  <2>4. CASE rows[c].wf # w \/ rows[c].status \notin Active
    <3>1. rows'[c] = rows[c] /\ extra'[c] = extra[c]
      BY <1>1, <2>4 DEF FlowCancelled
    <3> QED  BY <3>1, SameKept
  <2> QED  BY <2>2, <2>3, <2>4 DEF Active
<1>4. KeysKept
  BY <1>1, <1>3, SameKept
<1> QED  BY <1>1, <1>3, <1>4, SameKept, QuietInv

LEMMA CloseInv ==
    ASSUME RowsInv, NEW a \in Attempts, NEW v \in Verbs, NEW s \in {"failed", "cancelled"},
           NEW o \in Outcomes, NEW n \in Nat, Close(a, v, s, o, n, Nothing)
    PROVE  RowsInv'
<1> DEFINE j == ledger[a].job
           e == EndRow(rows[j], s, n, v)
           x == Decided(extra[j], o, a)
<1>1. /\ Unsettled(a) /\ Booked(a, v, s) /\ KeyFreed(rows[j].key) /\ BranchEnds(j, e, x)
      /\ AllRows
  BY CloseWrites DEF AllRows
<1>2. /\ j \in Jobs /\ rows[j] \in FakeRow /\ extra[j] \in ExtraRow /\ rows[j].status = "running"
      /\ rows \in [Jobs -> FakeRow] /\ extra \in [Jobs -> ExtraRow]
  BY <1>1, UnsettledFacts
<1>3. /\ e \in FakeRow /\ e.status = s /\ e.key = rows[j].key /\ e.wf = rows[j].wf
      /\ e.needs = rows[j].needs
  <2>1. s \in Terminal
    BY OutcomeFacts
  <2> QED  BY <1>2, <2>1, EndRowIs
<1>4. x \in ExtraRow
  BY <1>2, DecidedIs
<1> HIDE DEF e, x
<1>5. Kept(j) /\ Quiet(j) /\ rows'[j].status \notin Active
  BY <1>1, <1>2, <1>3, <1>4 DEF BranchEnds, Kept, Quiet, Waiting, Active
<1>6. ASSUME NEW c \in Jobs, c # j
      PROVE  Kept(c) /\ Quiet(c) /\ (rows'[c].status \in Active => rows[c].status \in Active)
  <2>1. rows[c] \in FakeRow /\ extra[c] \in ExtraRow
    BY <1>2
  <2>2. CASE c \in Doomed(rows, j)
    <3>1. rows'[c] = WithStatus(rows[c], "cancelled") /\ extra'[c] = DepLost(extra[c])
      BY <1>1, <1>6, <2>2 DEF BranchEnds
    <3>2. rows[c].status \in Waiting
      BY <1>2, <2>2, DoomedFacts
    <3>3. /\ rows'[c] \in FakeRow /\ rows'[c].status = "cancelled" /\ rows'[c].key = rows[c].key
          /\ rows'[c].wf = rows[c].wf /\ rows'[c].needs = rows[c].needs
      BY <2>1, <3>1, <3>2, WithStatusIs
    <3>4. extra'[c] \in ExtraRow
      BY <2>1, <3>1, DepLostIs
    <3> QED  BY <3>2, <3>3, <3>4 DEF Kept, Quiet, Waiting, Active
  <2>3. CASE c \notin Doomed(rows, j)
    <3>1. rows'[c] = rows[c] /\ extra'[c] = extra[c]
      BY <1>1, <1>6, <2>3 DEF BranchEnds
    <3> QED  BY <3>1, SameKept
  <2> QED  BY <2>2, <2>3
<1>7. KeysKept
  BY <1>1, <1>2, <1>5, <1>6, FreedKept
<1>8. LedgerKept
  BY <1>1, BookedKept
<1> QED  BY <1>1, <1>5, <1>6, <1>7, <1>8, QuietInv

LEMMA BackInv ==
    ASSUME RowsInv, NEW a \in Attempts, NEW v \in Verbs, NEW s \in {"failed", "snoozed",
      "released"},
           NEW due \in BOOLEAN, NEW n \in Nat, PutBack(a, v, s, due, n)
    PROVE  RowsInv'
<1> DEFINE j == ledger[a].job
           e == BackRow(rows[j], due, n, v)
           x == Undone(extra[j])
<1>1. /\ Unsettled(a) /\ Booked(a, v, s) /\ keys' = keys
      /\ rows' = [rows EXCEPT ![j] = e] /\ extra' = [extra EXCEPT ![j] = x]
  BY BackWrites
<1>2. /\ j \in Jobs /\ rows[j] \in FakeRow /\ extra[j] \in ExtraRow /\ rows[j].status = "running"
      /\ rows \in [Jobs -> FakeRow] /\ extra \in [Jobs -> ExtraRow]
  BY <1>1, UnsettledFacts
<1>3. /\ e \in FakeRow /\ e.status = "queued" /\ e.key = rows[j].key /\ e.wf = rows[j].wf
      /\ e.needs = rows[j].needs
  BY <1>2, BackRowIs
<1>4. x \in ExtraRow /\ ~x.cancel
  BY <1>2, UndoneIs
<1> HIDE DEF e, x
<1>5. \A c \in Jobs : c # j => rows'[c] = rows[c] /\ extra'[c] = extra[c]
  BY <1>1, <1>2
<1>6. rows'[j] = e /\ extra'[j] = x
  BY <1>1, <1>2
<1>7. Kept(j) /\ Quiet(j)
  BY <1>2, <1>3, <1>4, <1>6 DEF Kept, Quiet
<1>8. KeysKept
  BY <1>1, <1>2, <1>5, SameKept DEF Active
<1>9. LedgerKept
  BY <1>1, BookedKept
<1>10. AllRows
  BY <1>1, <1>2 DEF AllRows
<1> QED  BY <1>5, <1>7, <1>8, <1>9, <1>10, SameKept, QuietInv

LEMMA CompleteInv ==
    ASSUME RowsInv, NEW a \in Attempts, NEW F \in SUBSET Jobs, NEW M \in SUBSET F,
           NEW due \in BOOLEAN, NEW max \in Budgets, complete(a, F, M, due, max)
    PROVE  RowsInv'
<1> DEFINE j == ledger[a].job
           e == EndRow(rows[j], "succeeded", 0, "complete")
           x == Decided(extra[j], "success", a)
           Child(c) == rows[c].status = "blocked" /\ j \in rows[c].needs
<1>1. /\ Unsettled(a) /\ Booked(a, "complete", "succeeded") /\ KeyFreed(rows[j].key)
      /\ Succeeded(a, F, M, due, max) /\ AllRows
  BY CompleteWrites DEF AllRows
<1>2. /\ j \in Jobs /\ rows[j] \in FakeRow /\ extra[j] \in ExtraRow /\ rows[j].status = "running"
      /\ rows \in [Jobs -> FakeRow] /\ extra \in [Jobs -> ExtraRow]
      /\ rows[j].wf \in Workflows \cup {None}
  BY <1>1, UnsettledFacts
<1>3. /\ e \in FakeRow /\ e.status = "succeeded" /\ e.key = rows[j].key /\ e.wf = rows[j].wf
      /\ e.needs = rows[j].needs
  <2>1. "complete" \in Verbs /\ "succeeded" \in Terminal /\ 0 \in Nat
    BY OutcomeFacts
  <2> QED  BY <1>2, <2>1, EndRowIs
<1>4. x \in ExtraRow
  <2>1. "success" \in Outcomes
    BY OutcomeFacts
  <2> QED  BY <1>2, <2>1, DecidedIs
<1>5. rows'[j] = e /\ extra'[j] = x
  BY <1>1 DEF Succeeded
<1> HIDE DEF e, x
<1>6. Kept(j)
  BY <1>2, <1>3, <1>4, <1>5 DEF Kept, Waiting
<1>7. ASSUME NEW c \in F
      PROVE  /\ Kept(c) /\ rows[c].status = "absent" /\ c # j /\ rows'[c].status = "queued"
             /\ rows'[c].needs = {} /\ rows[c].key = None
  <2> DEFINE q == IF c \in M THEN rows[j].wf ELSE None
  <2>1. /\ rows[c].status = "absent" /\ extra'[c] = extra[c]
        /\ rows'[c] = NewRow("queued", Followup(due, max), q, {}, j)
    BY <1>1 DEF Succeeded
  <2>2. q \in Workflows \cup {None} /\ j \in Jobs
    BY <1>2
  <2> HIDE DEF q
  <2>3. /\ rows'[c] \in FakeRow /\ rows'[c].status = "queued" /\ rows'[c].needs = {}
        /\ rows'[c].key = None
    BY <2>1, <2>2, FollowupIs
  <2>4. rows[c].needs = {} /\ rows[c].key = None /\ extra[c] = NoExtra
    BY <2>1, FreshExtra
  <2>5. extra[c] \in ExtraRow /\ ~extra[c].cancel
    BY <1>2, <2>4 DEF NoExtra
  <2> QED  BY <1>2, <2>1, <2>3, <2>4, <2>5 DEF Kept
<1>8. ASSUME NEW c \in Jobs, c # j, c \notin F, Child(c)
      PROVE  /\ Kept(c) /\ extra'[c].pending = extra[c].pending - 1
             /\ rows'[c].status = IF Open(c) = {j} THEN "queued" ELSE "blocked"
  <2>1. /\ rows[c].status = "blocked" /\ rows[c] \in FakeRow /\ extra[c] \in ExtraRow
        /\ extra[c].pending # 0 /\ ~extra[c].cancel
    BY <1>2, <1>8, ChildWaits DEF RowsInv, RowOK, Waiting
  <2>2. /\ extra'[c] = Lighter(extra[c])
        /\ Open(c) = {j} => rows'[c] = WithStatus(rows[c], "queued")
        /\ Open(c) # {j} => rows'[c] = rows[c]
    BY <1>1, <1>8 DEF Succeeded
  <2>3. extra'[c] \in ExtraRow /\ extra'[c].pending = extra[c].pending - 1 /\ ~extra'[c].cancel
    BY <2>1, <2>2, LighterIs
  <2>4. rows[c].status \in Waiting
    BY <2>1 DEF Waiting
  <2> DEFINE g == WithStatus(rows[c], "queued")
  <2>5. /\ g \in FakeRow /\ g.status = "queued" /\ g.key = rows[c].key
        /\ g.wf = rows[c].wf /\ g.needs = rows[c].needs
    BY <2>1, <2>4, WithStatusIs
  <2> HIDE DEF g
  <2>6. rows'[c] = IF Open(c) = {j} THEN g ELSE rows[c]
    BY <2>2 DEF g
  <2> HIDE DEF Open
  <2>7. CASE Open(c) = {j}
    BY <2>1, <2>3, <2>5, <2>6, <2>7 DEF Kept
  <2>8. CASE Open(c) # {j}
    BY <2>1, <2>3, <2>6, <2>8 DEF Kept
  <2> QED  BY <2>7, <2>8
<1>9. ASSUME NEW c \in Jobs, c # j, c \notin F, ~Child(c)
      PROVE  rows'[c] = rows[c] /\ extra'[c] = extra[c] /\ Kept(c)
  <2>1. rows'[c] = rows[c] /\ extra'[c] = extra[c]
    BY <1>1, <1>9 DEF Succeeded
  <2> QED  BY <2>1, SameKept
<1>10. ASSUME NEW d \in Jobs
       PROVE  rows'[d].status = "succeeded" <=> d = j \/ rows[d].status = "succeeded"
  <2>1. CASE d = j
    BY <1>3, <1>5, <2>1
  <2>2. CASE d \in F
    BY <1>7, <2>2
  <2>3. CASE d # j /\ d \notin F /\ Child(d)
    BY <1>8, <2>3
  <2>4. CASE d # j /\ d \notin F /\ ~Child(d)
    BY <1>9, <2>4
  <2> QED  BY <2>1, <2>2, <2>3, <2>4
<1>11. ASSUME NEW c \in Jobs PROVE Kept(c)
  BY <1>6, <1>7, <1>8, <1>9
<1>12. ASSUME NEW c \in Jobs PROVE Open(c)' = Open(c) \ {j}
  <2>1. rows'[c].needs = rows[c].needs /\ rows[c].needs \subseteq Jobs
    BY <1>2, <1>11 DEF Kept, FakeRow
  <2> QED  BY <1>10, <2>1 DEF Open
<1>13. ASSUME NEW c \in Jobs PROVE CountOK(c)'
  <2>1. CountOK(c) /\ Open(c)' = Open(c) \ {j}
    BY <1>12 DEF RowsInv, NeedsOK
  <2>2. CASE c = j
    BY <1>3, <1>5, <2>2 DEF CountOK
  <2>3. CASE c \in F
    <3>1. Open(c)' = {} /\ rows'[c].status = "queued"
      BY <1>7, <2>3 DEF Open
    <3> HIDE DEF Open
    <3> QED  BY <3>1 DEF CountOK
  <2>4. CASE c # j /\ c \notin F /\ Child(c)
    <3>1. /\ j \in Open(c) /\ extra[c].pending = Cardinality(Open(c)) /\ IsFiniteSet(Open(c))
      BY <1>2, <2>4, ChildWaits
    <3> HIDE DEF Open
    <3>2. Cardinality(Open(c) \ {j}) = Cardinality(Open(c)) - 1
      <4>1. \A S : IsFiniteSet(S) /\ j \in S => Cardinality(S \ {j}) = Cardinality(S) - 1
        BY FS_RemoveElement
      <4> QED  BY <3>1, <4>1
    <3>3. /\ extra'[c].pending = extra[c].pending - 1
          /\ rows'[c].status = IF Open(c) = {j} THEN "queued" ELSE "blocked"
      BY <1>8, <2>4
    <3>4. Open(c) = {j} => Open(c)' = {}
      BY <2>1
    <3>5. extra'[c].pending = Cardinality(Open(c)')
      BY <2>1, <3>1, <3>2, <3>3
    <3> QED  BY <3>3, <3>4, <3>5 DEF CountOK
  <2>5. CASE c # j /\ c \notin F /\ ~Child(c)
    <3>1. rows'[c] = rows[c] /\ extra'[c] = extra[c]
      BY <1>9, <2>5
    <3>2. rows[c].status = "blocked" => j \notin Open(c)
      BY <2>5 DEF Open
    <3> HIDE DEF Open
    <3>3. rows[c].status = "blocked" => Open(c)' = Open(c)
      BY <2>1, <3>2
    <3> QED  BY <2>1, <3>1, <3>3 DEF CountOK
  <2> QED  BY <2>2, <2>3, <2>4, <2>5
<1>14. KeysKept
  <2>1. ASSUME NEW c \in Jobs, rows'[c].status \in Active, rows[c].key # None
        PROVE  rows[c].status \in Active
    <3>1. c # j /\ c \notin F
      BY <1>3, <1>5, <1>7, <2>1 DEF Active, Waiting
    <3>2. CASE Child(c)
      BY <3>2 DEF Active, Waiting
    <3>3. CASE ~Child(c)
      BY <1>9, <2>1, <3>1, <3>3
    <3> QED  BY <3>2, <3>3
  <2>2. rows'[j].status \notin Active
    BY <1>3, <1>5 DEF Active, Waiting
  <2> QED  BY <1>1, <1>2, <2>1, <2>2, FreedKept
<1>15. LedgerKept
  BY <1>1, BookedKept
<1> QED  BY <1>1, <1>11, <1>13, <1>14, <1>15, KeptInv

LEMMA InsertInv ==
    ASSUME RowsInv, NEW j \in Jobs, NEW cmd \in Command, NEW w \in Workflows \cup {None},
           NEW D \in SUBSET Jobs, Inserted(j, cmd, w, D)
    PROVE  RowsInv'
<1> DEFINE open == {d \in D : rows[d].status # "succeeded"}
           s == IF open # {} THEN "blocked" ELSE "queued"
           n == Cardinality(open)
           e == NewRow(s, cmd, w, D, None)
           k == cmd.key
           x == Fresh(n)
<1>1. /\ rows \in [Jobs -> FakeRow] /\ extra \in [Jobs -> ExtraRow]
      /\ keys \in [Keys -> Jobs \cup {None}]
  BY DEF RowsInv, Types
<1>0. k \in Keys \cup {None}
  BY DEF Command
<1>2. /\ rows' = [rows EXCEPT ![j] = e] /\ extra' = [extra EXCEPT ![j] = x]
      /\ ledger' = ledger /\ keys' = IF k = None THEN keys ELSE [keys EXCEPT ![k] = j]
  BY DEF Inserted
<1>3. n \in Nat /\ s \in Waiting /\ None \in Jobs \cup {None}
  BY FiniteOpen DEF Waiting
<1> HIDE DEF s, n
<1>4. e \in FakeRow /\ e.status = s /\ e.needs = D /\ e.key = k /\ e.wf = w
  BY <1>3, NewRowIs
<1>5. x \in ExtraRow /\ x.pending = n /\ ~x.cancel
  BY <1>3, FreshIs
<1>6. \A c \in Jobs : j \notin rows[c].needs
  BY FreshExtra DEF Inserted
<1>7. \A d \in D : rows[d].wf = w /\ w # None
  BY DEF Inserted
<1> HIDE DEF e, x, k
<1>8. \A c \in Jobs : c # j => rows'[c] = rows[c] /\ extra'[c] = extra[c]
  BY <1>1, <1>2
<1>9. rows'[j] = e /\ extra'[j] = x
  BY <1>1, <1>2
<1>10. j \notin D /\ D \subseteq Jobs
  <2>1. rows[j].status = "absent"
    BY DEF Inserted
  <2>2. rows[j].wf = None
    BY <2>1, FreshExtra
  <2> QED  BY <1>7, <2>2
<1>11. Types'
  <2>1. rows' \in [Jobs -> FakeRow] /\ extra' \in [Jobs -> ExtraRow]
    BY <1>1, <1>2, <1>4, <1>5
  <2>2. keys' \in [Keys -> Jobs \cup {None}]
    BY <1>0, <1>1, <1>2
  <2> QED  BY <1>2, <2>1, <2>2 DEF Types, RowsInv
<1>12. ASSUME NEW c \in Jobs PROVE RowOK(c)'
  <2>1. CASE c = j
    BY <1>3, <1>4, <1>5, <1>9, <2>1 DEF RowOK, Waiting
  <2>2. CASE c # j
    BY <1>8, <2>2 DEF RowsInv, RowOK
  <2> QED  BY <2>1, <2>2
<1>13. ASSUME NEW c \in Jobs PROVE NeedsOK(c)'
  <2>1. CASE c = j
    <3>1. \A d \in D : rows'[d] = rows[d]
      BY <1>8, <1>10
    <3>2. Open(c)' = open
      BY <1>4, <1>9, <2>1, <3>1 DEF Open
    <3> HIDE DEF Open
    <3>3. /\ rows'[c].status = "blocked" => extra'[c].pending = Cardinality(Open(c)')
          /\ rows'[c].status \in {"queued", "running"} => Open(c)' = {}
      BY <1>4, <1>5, <1>9, <2>1, <3>2 DEF s, n
    <3> HIDE DEF open
    <3>4. \A d \in rows'[c].needs : rows'[d].wf = rows'[c].wf /\ rows'[c].wf # None
      BY <1>4, <1>7, <1>9, <2>1, <3>1
    <3> QED  BY <3>3, <3>4 DEF NeedsOK, CountOK
  <2>2. CASE c # j
    <3>1. rows'[c] = rows[c] /\ extra'[c] = extra[c]
      BY <1>8, <2>2
    <3>2. \A d \in rows[c].needs : rows'[d] = rows[d]
      <4>1. rows[c].needs \subseteq Jobs
        BY <1>1 DEF FakeRow
      <4> QED  BY <1>6, <1>8, <4>1
    <3>3. Open(c)' = Open(c)
      BY <3>1, <3>2 DEF Open
    <3>4. NeedsOK(c)
      BY DEF RowsInv
    <3> HIDE DEF Open
    <3> QED  BY <3>1, <3>2, <3>3, <3>4 DEF NeedsOK, CountOK
  <2> QED  BY <2>1, <2>2
<1>14. ASSUME NEW c \in Jobs PROVE KeyOK(c)'
  <2>1. CASE c = j
    BY <1>0, <1>1, <1>2, <1>4, <1>9, <2>1 DEF KeyOK
  <2>2. CASE c # j
    <3> SUFFICES ASSUME rows[c].status \in Active, rows[c].key # None
                 PROVE  keys'[rows[c].key] = c
      BY <1>8, <2>2 DEF KeyOK
    <3>1. keys[rows[c].key] = c /\ rows[c].key \in Keys
      BY <1>1 DEF RowsInv, KeyOK, FakeRow
    <3>2. k # None => keys[k] = None
      BY DEF Inserted, k
    <3>3. c # None
      BY FakeAssumption
    <3> QED  BY <1>1, <1>2, <3>1, <3>2, <3>3
  <2> QED  BY <2>1, <2>2
<1> QED  BY <1>11, <1>12, <1>13, <1>14 DEF RowsInv

LEMMA SameTables ==
    ASSUME rows' = rows, extra' = extra, ledger' = ledger, settledBy' = settledBy
    PROVE  UNCHANGED Db!vars
BY DEF Db!vars, DbJob, DbRow, Edges

LEMMA SameRows ==
    ASSUME RowsInv, rows' = rows, extra' = extra, ledger' = ledger, keys' = keys
    PROVE  RowsInv'
BY DEF RowsInv, Types, RowOK, NeedsOK, CountOK, Open, KeyOK

LEMMA EnqueueInserts ==
    ASSUME RowsInv, NEW j \in Jobs, NEW c, enqueue(j, c)
    PROVE  Inserted(j, c, None, {})
<1> DEFINE open == {d \in {} : rows[d].status # "succeeded"}
<1>1. /\ rows[j].status = "absent" /\ (c.key # None => keys[c.key] = None)
      /\ rows' = [rows EXCEPT ![j] = NewRow("queued", c, None, {}, None)]
      /\ keys' = IF c.key = None THEN keys ELSE [keys EXCEPT ![c.key] = j]
      /\ UNCHANGED <<drain, ledger, settledBy, extra>>
  BY DEF enqueue
<1>2. open = {} /\ Cardinality(open) = 0
  BY FS_EmptySet
<1>3. extra[j] = Fresh(0) /\ extra \in [Jobs -> ExtraRow]
  BY <1>1, FreshExtra DEF RowsInv, Types
<1>4. extra' = [extra EXCEPT ![j] = Fresh(Cardinality(open))]
  BY <1>1, <1>2, <1>3
<1> QED  BY <1>1, <1>2, <1>4 DEF Inserted

LEMMA MemberInserts ==
    ASSUME RowsInv, NEW j \in Jobs, NEW c, NEW w \in Workflows, NEW D \in SUBSET Jobs,
           enqueue_workflow_member(j, c, w, D)
    PROVE  \/ Inserted(j, c, w, D)
           \/ UNCHANGED <<rows, keys, extra, ledger, settledBy, drain>>
<1> DEFINE open == {d \in D : rows[d].status # "succeeded"}
           n == Cardinality(open)
<1>1. /\ rows[j].status = "absent" /\ UNCHANGED <<drain, ledger, settledBy>>
      /\ \A d \in D : rows[d].wf = w /\ rows[d].status \notin {"failed", "cancelled"}
      /\ \/ UNCHANGED <<rows, keys, extra>>
         \/ /\ c.key # None => keys[c.key] = None
            /\ rows' = [rows EXCEPT ![j] =
                          NewRow(IF open # {} THEN "blocked" ELSE "queued", c, w, D, None)]
            /\ keys' = IF c.key = None THEN keys ELSE [keys EXCEPT ![c.key] = j]
            /\ extra' = [extra EXCEPT ![j].pending = n]
  BY DEF enqueue_workflow_member
<1>2. extra[j] = NoExtra /\ w # None
  BY <1>1, FreshExtra, FakeAssumption
<1> HIDE DEF n
<1>3. extra' = [extra EXCEPT ![j].pending = n] => extra' = [extra EXCEPT ![j] = Fresh(n)]
  BY <1>2 DEF Fresh
<1> QED  BY <1>1, <1>2, <1>3 DEF Inserted, n

LEMMA FlowsOnly ==
    ASSUME NEW w, create_workflow(w) \/ seal_workflow(w)
    PROVE  UNCHANGED <<rows, keys, extra, ledger, settledBy, drain>>
BY DEF create_workflow, seal_workflow

----------------------------------------------------------------------------
(* The steps of the fake, as steps of the database *)

DbStep ==
    \/ UNCHANGED Db!vars
    \/ \E j \in Jobs : Enqueued(j) \/ Db!BecomesDue(j) \/ Db!TtlRunsOut(j)
    \/ \E S \in SUBSET Jobs : Db!advance_workflow_cancellations(Workflows, S)
    \/ Db!Runner
    \/ Differs

LEMMA ProducerStep ==
    ASSUME RowsInv, Producer
    PROVE  DbStep /\ RowsInv' /\ UNCHANGED drain
<1>1. PICK j \in Jobs, c \in Commands :
         \/ enqueue(j, c)
         \/ \E w \in Workflows, D \in SUBSET Jobs : enqueue_workflow_member(j, c, w, D)
  BY DEF Producer
<1>0. c \in Command
  BY CommandsAre
<1>2. ASSUME NEW w \in Workflows \cup {None}, NEW D \in SUBSET Jobs, Inserted(j, c, w, D)
      PROVE  DbStep /\ RowsInv' /\ UNCHANGED drain
  <2>1. Enqueued(j)
    BY <1>0, <1>2, InsertSteps
  <2>2. RowsInv'
    BY <1>0, <1>2, InsertInv
  <2>3. UNCHANGED drain
    BY <1>2 DEF Inserted
  <2> QED  BY <2>1, <2>2, <2>3 DEF DbStep
<1>3. CASE UNCHANGED <<rows, keys, extra, ledger, settledBy, drain>>
  <2>1. UNCHANGED Db!vars /\ RowsInv'
    BY <1>3, SameTables, SameRows
  <2> QED  BY <1>3, <2>1 DEF DbStep
<1>4. CASE enqueue(j, c)
  <2>1. Inserted(j, c, None, {})
    BY <1>4, EnqueueInserts
  <2>2. None \in Workflows \cup {None} /\ {} \in SUBSET Jobs
    OBVIOUS
  <2> QED  BY <1>2, <2>1, <2>2
<1>5. ASSUME NEW w \in Workflows, NEW D \in SUBSET Jobs, enqueue_workflow_member(j, c, w, D)
      PROVE  DbStep /\ RowsInv' /\ UNCHANGED drain
  <2>1. \/ Inserted(j, c, w, D)
        \/ UNCHANGED <<rows, keys, extra, ledger, settledBy, drain>>
    BY <1>5, MemberInserts
  <2> QED  BY <1>2, <1>3, <2>1
<1> QED  BY <1>1, <1>4, <1>5

LEMMA FlowsStep ==
    ASSUME RowsInv, Flows
    PROVE  DbStep /\ RowsInv' /\ UNCHANGED drain
<1>1. PICK w \in Workflows : create_workflow(w) \/ seal_workflow(w) \/ cancel_workflow(w)
  BY DEF Flows
<1>2. CASE create_workflow(w) \/ seal_workflow(w)
  <2>1. UNCHANGED <<rows, keys, extra, ledger, settledBy, drain>>
    BY <1>2, FlowsOnly
  <2>2. UNCHANGED Db!vars /\ RowsInv'
    BY <2>1, SameTables, SameRows
  <2> QED  BY <2>1, <2>2 DEF DbStep
<1>3. CASE cancel_workflow(w)
  <2>1. FlowCancelled(w) /\ UNCHANGED <<keys, ledger, settledBy, drain>>
    BY <1>3, FlowWrites
  <2>2. \/ \E S \in SUBSET Jobs : Db!advance_workflow_cancellations(Workflows, S)
        \/ UNCHANGED Db!vars
    BY <2>1, CancelSteps
  <2>3. RowsInv'
    BY <1>3, FlowInv
  <2> QED  BY <2>1, <2>2, <2>3 DEF DbStep
<1> QED  BY <1>1, <1>2, <1>3

LEMMA SettlementStep ==
    ASSUME RowsInv, NEW a \in Attempts, Settlement(a)
    PROVE  DbStep /\ RowsInv'
<1>1. ASSUME NEW F \in SUBSET Jobs, NEW max \in Budgets, NEW M \in {{}, F},
             NEW due \in BOOLEAN, complete(a, F, M, due, max)
      PROVE  DbStep /\ RowsInv'
  <2>0. M \in SUBSET F
    OBVIOUS
  <2>1. Unsettled(a) /\ Booked(a, "complete", "succeeded") /\ Succeeded(a, F, M, due, max)
    BY <1>1, <2>0, CompleteWrites
  <2>2. Db!complete_job(a, F, M, due, max)
    BY <2>0, <2>1, CompleteSteps
  <2>3. RowsInv'
    BY <1>1, <2>0, CompleteInv
  <2>4. Db!Runner
    BY <2>0, <2>2 DEF Db!Runner
  <2> QED  BY <2>3, <2>4 DEF DbStep
<1>2. ASSUME NEW retryable \in BOOLEAN, NEW due \in BOOLEAN, fail(a, retryable, due)
      PROVE  DbStep /\ RowsInv'
  <2>0. /\ "fail" \in Verbs /\ "failed" \in {"failed", "cancelled"}
        /\ "failed" \in {"failed", "snoozed", "released"} /\ 1 \in Nat
        /\ (IF retryable THEN "retry_exhausted" ELSE "non_retryable") \in Outcomes
    BY OutcomeFacts
  <2>1. Db!fail_job(a, retryable, due) \/ Differs
    BY <1>2, <2>0, FailedRow
  <2>2. RowsInv'
    BY <1>2, <2>0, CloseInv, BackInv DEF fail
  <2>3. Db!fail_job(a, retryable, due) => Db!Runner
    BY DEF Db!Runner
  <2> QED  BY <2>1, <2>2, <2>3 DEF DbStep
<1>3. ASSUME NEW due \in BOOLEAN, snooze(a, due)
      PROVE  DbStep /\ RowsInv'
  <2>0. /\ "snooze" \in Verbs /\ 0 \in Nat
        /\ "snoozed" \in {"failed", "snoozed", "released"}
    BY OutcomeFacts
  <2>1. Db!snooze_job(a, due) \/ Differs
    BY <1>3, <2>0, BackRows
  <2>2. RowsInv'
    BY <1>3, <2>0, BackInv DEF snooze
  <2>3. Db!snooze_job(a, due) => Db!Runner
    BY DEF Db!Runner
  <2> QED  BY <2>1, <2>2, <2>3 DEF DbStep
<1>4. ASSUME NEW due \in BOOLEAN, release(a, due)
      PROVE  DbStep /\ RowsInv'
  <2>0. /\ "release" \in Verbs /\ 0 \in Nat
        /\ "released" \in {"failed", "snoozed", "released"}
    BY OutcomeFacts
  <2>1. Db!release_job(a, due) \/ Differs
    BY <1>4, <2>0, BackRows
  <2>2. RowsInv'
    BY <1>4, <2>0, BackInv DEF release
  <2>3. Db!release_job(a, due) => Db!Runner
    BY DEF Db!Runner
  <2> QED  BY <2>1, <2>2, <2>3 DEF DbStep
<1>5. CASE cancel_running(a)
  <2>0. /\ "cancel" \in Verbs /\ "canceled" \in Outcomes /\ 0 \in Nat
        /\ "cancelled" \in {"failed", "cancelled"}
    BY OutcomeFacts
  <2>1. Db!cancel_running_job(a) \/ Differs
    BY <1>5, CancelledRow
  <2>2. RowsInv'
    BY <1>5, <2>0, CloseInv DEF cancel_running
  <2>3. Db!cancel_running_job(a) => Db!Runner
    BY DEF Db!Runner
  <2> QED  BY <2>1, <2>2, <2>3 DEF DbStep
<1> QED  BY <1>1, <1>2, <1>3, <1>4, <1>5 DEF Settlement

LEMMA ClaimStep ==
    ASSUME RowsInv, NEW j \in Jobs, NEW w \in Workers, NEW a \in Attempts, claim(j, w, a)
    PROVE  DbStep /\ RowsInv'
<1>1. (Db!claim_jobs(j, w, a) \/ Overclaims) /\ RowsInv'
  BY ClaimSteps, ClaimInv
<1>2. Db!claim_jobs(j, w, a) => Db!Runner
  BY DEF Db!Runner
<1> QED  BY <1>1, <1>2 DEF DbStep, Differs

LEMMA DrainStep ==
    ASSUME FakeInv, Drain
    PROVE  DbStep /\ RowsInv' /\ DrainOK'
<1>1. /\ RowsInv /\ drain \in DrainRec
      /\ drain.pc \in {"run", "overflow"} => drain.att \in Attempts
  BY DEF FakeInv, DrainOK
<1>2. Idle \in DrainRec /\ Idle.pc = "idle"
  BY DEF Idle, DrainRec
<1>3. drain' = Idle => DrainOK'
  BY <1>2 DEF DrainOK
<1>4. ASSUME UNCHANGED <<rows, keys, flows, ledger, settledBy, extra>>
      PROVE  DbStep /\ RowsInv'
  BY <1>1, <1>4, SameTables, SameRows DEF DbStep
<1>5. CASE DrainStart
  <2>1. drain' = [Idle EXCEPT !.pc = "claim"]
        /\ UNCHANGED <<rows, keys, flows, ledger, settledBy, extra>>
    BY <1>5 DEF DrainStart
  <2>2. DrainOK'
    BY <2>1 DEF DrainOK, DrainRec, Idle
  <2> QED  BY <1>4, <2>1, <2>2
<1>6. CASE DrainClaim
  <2>1. CASE drain' = Idle /\ UNCHANGED <<rows, keys, flows, ledger, settledBy, extra>>
    BY <1>3, <1>4, <2>1
  <2>2. ASSUME NEW j \in Jobs, NEW w \in Workers, NEW a \in Attempts, claim(j, w, a),
               drain' = [drain EXCEPT !.att = a,
                           !.pc = IF drain.n < MaxJobs THEN "run" ELSE "overflow"]
        PROVE  DbStep /\ RowsInv' /\ DrainOK'
    <3>1. DrainOK'
      BY <1>1, <2>2 DEF DrainOK, DrainRec
    <3> QED  BY <1>1, <2>2, <3>1, ClaimStep
  <2> QED  BY <1>6, <2>1, <2>2 DEF DrainClaim
<1>7. CASE DrainRun
  <2>1. drain.att \in Attempts
    BY <1>1, <1>7 DEF DrainRun
  <2>2. CASE Settlement(drain.att) /\ drain' = [pc |-> "claim", att |-> None, n |-> drain.n + 1]
    <3>1. DrainOK'
      BY <1>1, <2>2 DEF DrainOK, DrainRec
    <3>2. DbStep /\ RowsInv'
      BY <1>1, <2>1, <2>2, SettlementStep
    <3> QED  BY <3>1, <3>2
  <2>3. CASE drain' = Idle /\ UNCHANGED <<rows, keys, flows, ledger, settledBy, extra>>
    BY <1>3, <1>4, <2>3
  <2> QED  BY <1>7, <2>2, <2>3 DEF DrainRun
<1>8. CASE DrainOverflow
  <2>1. drain.att \in Attempts /\ release(drain.att, TRUE) /\ drain' = Idle
    BY <1>1, <1>8 DEF DrainOverflow
  <2>2. ledger[drain.att].status # "absent"
    BY <2>1 DEF release, PutBack, Finish, Unsettled
  <2>3. Settlement(drain.att)
    BY <2>1, <2>2 DEF Settlement
  <2> QED  BY <1>1, <1>3, <2>1, <2>3, SettlementStep
<1> QED  BY <1>5, <1>6, <1>7, <1>8 DEF Drain

LEMMA FakeStep ==
    ASSUME FakeInv, [FakeNext]_fakeVars
    PROVE  DbStep /\ FakeInv'
<1>1. RowsInv /\ DrainOK
  BY DEF FakeInv
<1>2. drain' = drain => DrainOK'
  BY <1>1 DEF DrainOK
<1>3. CASE Drain
  BY <1>3, DrainStep DEF FakeInv
<1>4. CASE Producer
  BY <1>1, <1>2, <1>4, ProducerStep DEF FakeInv
<1>5. CASE Flows
  BY <1>1, <1>2, <1>5, FlowsStep DEF FakeInv
<1>6. CASE Runner
  <2>1. drain' = drain
    BY <1>6 DEF Runner
  <2>2. DbStep /\ RowsInv'
    BY <1>1, <1>6, ClaimStep, SettlementStep DEF Runner
  <2> QED  BY <1>2, <2>1, <2>2 DEF FakeInv
<1>7. ASSUME NEW j \in Jobs, ClockReaches(j) \/ TtlRunsOut(j)
      PROVE  DbStep /\ FakeInv'
  <2>1. (Db!BecomesDue(j) \/ Db!TtlRunsOut(j)) /\ RowsInv'
    BY <1>1, <1>7, ClockSteps, ClockInv, TtlSteps, TtlInv
  <2>2. drain' = drain
    BY <1>7 DEF ClockReaches, TtlRunsOut
  <2> QED  BY <1>2, <2>1, <2>2 DEF DbStep, FakeInv
<1>8. CASE UNCHANGED fakeVars
  <2>1. /\ rows' = rows /\ extra' = extra /\ ledger' = ledger /\ settledBy' = settledBy
        /\ keys' = keys /\ drain' = drain
    BY <1>8 DEF fakeVars
  <2>2. UNCHANGED Db!vars /\ RowsInv'
    BY <1>1, <2>1, SameTables, SameRows
  <2> QED  BY <1>2, <2>1, <2>2 DEF DbStep, FakeInv
<1> QED  BY <1>3, <1>4, <1>5, <1>6, <1>7, <1>8 DEF FakeNext, Clock

LEMMA FakeStarts ==
    ASSUME FakeInit
    PROVE  FakeInv /\ Db!Init
<1>1. /\ rows = [j \in Jobs |-> NoRow] /\ extra = [j \in Jobs |-> NoExtra]
      /\ keys = [k \in Keys |-> None] /\ drain = Idle
      /\ ledger = [a \in Attempts |-> [status |-> "absent", job |-> None, worker |-> None]]
      /\ settledBy = [a \in Attempts |-> None]
  BY DEF FakeInit
<1>2. NoRow \in FakeRow /\ NoRow.status = "absent" /\ NoRow.needs = {}
  BY DEF NoRow, FakeRow, Active, Terminal, Waiting
<1>3. NoExtra \in ExtraRow /\ ~NoExtra.cancel
  BY DEF NoExtra, ExtraRow
<1>4. Types
  <2>1. rows \in [Jobs -> FakeRow] /\ extra \in [Jobs -> ExtraRow]
    BY <1>1, <1>2, <1>3
  <2>2. ledger \in [Attempts -> LedgerRow]
    BY <1>1 DEF LedgerRow
  <2> QED  BY <1>1, <2>1, <2>2 DEF Types
<1>5. ASSUME NEW j \in Jobs PROVE RowOK(j) /\ NeedsOK(j) /\ KeyOK(j)
  <2>1. rows[j] = NoRow /\ extra[j] = NoExtra
    BY <1>1
  <2> QED  BY <1>2, <1>3, <2>1 DEF RowOK, NeedsOK, CountOK, KeyOK, Waiting, Active
<1>6. DrainOK
  BY <1>1 DEF DrainOK, DrainRec, Idle
<1>7. FakeInv
  BY <1>4, <1>5, <1>6 DEF FakeInv, RowsInv
<1>8. [j \in Jobs |-> DbJob(j)] = [j \in Jobs |-> Db!NoJob]
  BY <1>1, NoImage DEF DbJob
<1>9. Edges = {}
  BY <1>1, <1>2 DEF Edges
<1>10. [j \in Jobs |-> rows[j].needs] = [j \in Jobs |-> {}]
  BY <1>1, <1>2
<1>11. Db!Init
  BY <1>1, <1>8, <1>9, <1>10 DEF Db!Init, Db!NoAttempt
<1> QED  BY <1>7, <1>11

\* The invariant of the fake, in every reachable state: a job that is not there yet
\* has no columns, one that waits has no cancel request, a member depends only on
\* members of its own workflow and pending_deps counts the parents it waits for, and
\* the entry of _active_keys of an active job is its own.
THEOREM FakeConsistent == FakeSpec => []FakeInv
<1>1. FakeInit => FakeInv
  BY FakeStarts
<1>2. FakeInv /\ [FakeNext]_fakeVars => FakeInv'
  BY FakeStep
<1> QED  BY <1>1, <1>2, PTL DEF FakeSpec

\* FakeImplements holds for any number of jobs, attempts, workers, keys and workflows:
\* what a test does with FakeTaskQClient is a behaviour of taskq's tables and SQL
\* functions (TaskqJobs), but for the three kinds of step Differs names: a claim that
\* claim_jobs withholds, a settlement that ignores a cancel request, and one that
\* cancels a whole branch.
THEOREM FakeImplementsJobs == FakeSpec => FakeImplements
<1>1. FakeInit => Db!Init
  BY FakeStarts
<1>2. FakeInv /\ [FakeNext]_fakeVars => [DbStep]_(Db!vars)
  BY FakeStep
<1>3. FakeSpec => []FakeInv
  BY FakeConsistent
<1>4. FakeSpec => Db!Init /\ [][DbStep]_(Db!vars)
  BY <1>1, <1>2, <1>3, PTL DEF FakeSpec
<1> QED  BY <1>4 DEF FakeImplements, DbStep
=============================================================================
