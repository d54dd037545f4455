------------------------- MODULE TaskqServerProofs -------------------------
(***************************************************************************)
(* Theorems about the two surfaces of a taskq server: TaskqLongPoll and    *)
(* TaskqRuntime for any number of claim requests, queues, jobs and lost    *)
(* connections, whatever the runtime embeds; and TaskqHttp for any calls   *)
(* of any clients, any grants and any number of retries.                   *)
(*                                                                         *)
(* The facade calls the functions of TaskqJobs, so the second part is      *)
(* about JP, the theorems of TaskqJobsProofs on the tables behind the      *)
(* facade.  It first shows that Db in TaskqHttp and JP name the same       *)
(* functions, then that every step of the HTTP path keeps their invariants *)
(* and gives no attempt its job back, and from this the invariant HttpInv. *)
(***************************************************************************)
EXTENDS TaskqRuntime, TaskqHttp, FiniteSetTheorems, TLAPS

-----------------------------------------------------------------------------
(* Types *)

Monitors == {"none", "watch", "connect", "connecting", "again", "backoff", "over"}

\* Where a request has the listener's lock to add its queue, and where it is in
\* the claim loop.
Adding  == {"connect", "connecting", "add", "listening"}
Looping == {"begin", "claim", "subscribe", "recheck", "check", "wait"}

HubRow      == [known : SUBSET Queues, generation : [Queues -> Nat], closed : BOOLEAN]
SourceRow   == [connection : {"none", "up", "down"}, lock : Polls \cup {Nobody, Monitor},
                channels : SUBSET Queues, listening : SUBSET Queues, closed : BOOLEAN]
ListenerRow == [queues : SUBSET Queues, lock : Polls \cup {Nobody}, monitor : Monitors,
                healthy : BOOLEAN, pending : SUBSET Queues,
                close : {"open", "source", "monitor", "closed"}]
PollRow     == [pc : {"idle", "ensure", "deliver"} \cup Adding \cup Looping,
                queue : Queues \cup {Idle.queue}, waits : BOOLEAN, seen : Nat,
                event : BOOLEAN]
JobsRow     == [told : Nat, silent : Nat]

PollTypes ==
    /\ hub \in HubRow
    /\ source \in SourceRow
    /\ listener \in ListenerRow
    /\ wire \in SUBSET Queues
    /\ polls \in [Polls -> PollRow]
    /\ ready \in [Queues -> JobsRow]
    /\ budget \in [polls : SUBSET Polls, queues : SUBSET Queues, jobs : Nat, drops : Nat,
                   embedded : BOOLEAN, housekeeper : BOOLEAN, cancels : BOOLEAN]

-----------------------------------------------------------------------------
(* The claim requests *)

\* A request that made sure of its queue and may come to sleep on it.
Past(p) == polls[p].waits /\ polls[p].pc \in Looping

\* NoLostWakeup, of one request.
Heard(p) ==
    LET k == polls[p] IN
    /\ k.pc \in {"check", "wait"} /\ ~k.event
    /\ ready[k.queue].told > 0 /\ k.queue \in source.listening
    => k.queue \in wire \cup listener.pending \/ hub.closed

\* While a request adds its queue it has the listener's lock, and no other
\* request for that queue is past the listener.
PollOK(p) ==
    LET k == polls[p] IN
    /\ k.pc # "idle" => k.queue \in Queues
    /\ k.pc \in Adding =>
         /\ k.waits /\ listener.lock = p /\ listener.close = "open"
         /\ k.queue \in listener.queues
         /\ listener.monitor = "none" <=> k.pc \in {"connect", "connecting"}
         /\ \A o \in Polls : Past(o) => polls[o].queue # k.queue
    /\ k.pc \in {"ensure", "subscribe", "recheck", "check", "wait"} => k.waits
    /\ Past(p) => k.queue \in listener.queues /\ listener.monitor # "none"
    /\ hub.closed /\ Subscribed(p) => k.event
    /\ Heard(p)

\* Whoever adds the first queue lets go of the lock once there is a monitor, and
\* the listener is closed only when the lock is free.
Watched == /\ listener.lock = Nobody /\ listener.queues # {} => listener.monitor # "none"
           /\ listener.lock # Nobody => listener.close = "open"

PollInv == PollTypes /\ Watched /\ \A p \in Polls : PollOK(p)

-----------------------------------------------------------------------------
(* Steps of the claim requests *)

\* One request moves on as k, and the rest of the process waits.
LEMMA PollMoves ==
    ASSUME PollInv, NEW p \in Polls, NEW k \in PollRow, polls' = [polls EXCEPT ![p] = k],
           UNCHANGED <<hub, source, listener, wire, budget>>, ready' \in [Queues -> JobsRow],
           \A q \in Queues : ready'[q].told <= ready[q].told,
           k.pc \in Looping /\ k.waits
             => (Past(p) /\ k.queue = polls[p].queue) \/ listener.lock = Nobody,
           PollOK(p)'
    PROVE  PollInv'
<1>1. /\ polls' \in [Polls -> PollRow] /\ polls'[p] = k
      /\ \A o \in Polls \ {p} : polls'[o] = polls[o]
  BY DEF PollInv, PollTypes
<1>2. ASSUME NEW o \in Polls \ {p} PROVE PollOK(o)'
  <2>1. PollOK(o) /\ polls'[o] = polls[o] /\ polls[o] \in PollRow
    BY <1>1, <1>2 DEF PollInv, PollTypes
  <2>2. ASSUME polls[o].pc \in Adding, Past(p)' PROVE polls[p].queue # polls[o].queue /\ k.queue = polls[p].queue
    <3>1. listener.lock # Nobody
      BY <2>1, <2>2, NamesApart DEF PollOK
    <3>2. Past(p) /\ k.queue = polls[p].queue
      BY <1>1, <2>2, <3>1 DEF Past
    <3> QED  BY <2>1, <2>2, <3>2 DEF PollOK
  <2>3. Heard(o)'
    <3>1. CASE polls[o].pc = "idle"
      BY <2>1, <3>1 DEF Heard
    <3>2. CASE polls[o].queue \in Queues
      <4>1. ready'[polls[o].queue].told \in Nat /\ ready[polls[o].queue].told \in Nat
        BY <3>2 DEF PollInv, PollTypes, JobsRow
      <4>2. ready'[polls[o].queue].told > 0 => ready[polls[o].queue].told > 0
        BY <3>2, <4>1
      <4> QED  BY <2>1, <4>2 DEF PollOK, Heard
    <3> QED  BY <2>1, <3>1, <3>2 DEF PollOK
  <2>4. polls[o].pc \in Adding => \A u \in Polls : Past(u)' => polls'[u].queue # polls[o].queue
    <3>1. ASSUME polls[o].pc \in Adding, NEW u \in Polls, Past(u)'
          PROVE  polls'[u].queue # polls[o].queue
      <4>1. CASE u = p
        BY <1>1, <2>2, <3>1, <4>1
      <4>2. CASE u # p
        BY <1>1, <2>1, <3>1, <4>2 DEF PollOK, Past
      <4> QED  BY <4>1, <4>2
    <3> QED  BY <3>1
  <2> QED  BY <2>1, <2>3, <2>4 DEF PollOK, Past, Subscribed
<1> QED  BY <1>1, <1>2 DEF PollInv, PollTypes, Watched

\* The holder of the listener's lock, or who takes it, moves on as k.
LEMMA HolderMoves ==
    ASSUME PollInv, NEW p \in Polls, NEW k \in PollRow, polls' = [polls EXCEPT ![p] = k],
           UNCHANGED <<hub, wire, ready>>, listener.lock \in {p, Nobody},
           listener' \in ListenerRow, source' \in SourceRow,
           budget' \in [polls : SUBSET Polls, queues : SUBSET Queues, jobs : Nat, drops : Nat,
                        embedded : BOOLEAN, housekeeper : BOOLEAN, cancels : BOOLEAN],
           listener.queues \subseteq listener'.queues,
           listener.monitor # "none" => listener'.monitor # "none",
           listener'.pending = listener.pending,
           listener'.lock = Nobody => listener'.monitor # "none",
           listener'.lock # Nobody => listener'.close = "open",
           \A o \in Polls \ {p} : Past(o) /\ polls[o].queue \in source'.listening
                                    => polls[o].queue \in source.listening,
           PollOK(p)'
    PROVE  PollInv'
<1>1. /\ polls' \in [Polls -> PollRow] /\ polls'[p] = k
      /\ \A o \in Polls \ {p} : polls'[o] = polls[o]
  BY DEF PollInv, PollTypes
<1>2. ASSUME NEW o \in Polls \ {p} PROVE PollOK(o)'
  <2>1. PollOK(o) /\ polls'[o] = polls[o]
    BY <1>1, <1>2 DEF PollInv
  <2>2. polls[o].pc \notin Adding
    BY <2>1, NamesApart DEF PollOK
  <2>3. Heard(o)'
    <3>1. CASE Past(o)
      BY <2>1, <3>1 DEF PollOK, Heard
    <3>2. CASE ~Past(o)
      BY <2>1, <3>2 DEF PollOK, Heard, Past, Looping
    <3> QED  BY <3>1, <3>2
  <2> QED  BY <2>1, <2>2, <2>3 DEF PollOK, Past, Subscribed
<1> QED  BY <1>1, <1>2 DEF PollInv, PollTypes, Watched

\* The requests wait while something around them moves; some are woken.
LEMMA PollsWait ==
    ASSUME PollInv, PollTypes',
           \A p \in Polls : /\ polls'[p].pc = polls[p].pc /\ polls'[p].queue = polls[p].queue
                            /\ polls'[p].waits = polls[p].waits
                            /\ polls[p].event => polls'[p].event
                            /\ hub'.closed /\ ~hub.closed /\ Subscribed(p) => polls'[p].event
                            /\ Heard(p)',
           listener'.queues = listener.queues, listener'.lock = listener.lock,
           listener.lock # Nobody => listener'.close = listener.close
                                     /\ (listener'.monitor = "none" <=> listener.monitor = "none"),
           listener.monitor # "none" => listener'.monitor # "none"
    PROVE  PollInv'
<1>1. ASSUME NEW p \in Polls PROVE PollOK(p)'
  <2>1. PollOK(p) /\ (Past(p)' <=> Past(p)) /\ (Subscribed(p)' <=> Subscribed(p))
    BY <1>1 DEF PollInv, Past, Subscribed
  <2>2. \A o \in Polls : (Past(o)' <=> Past(o)) /\ polls'[o].queue = polls[o].queue
    BY DEF Past
  <2>3. p # Nobody
    BY <1>1, NamesApart
  <2> QED  BY <1>1, <2>1, <2>2, <2>3 DEF PollOK
<1> QED  BY <1>1 DEF PollInv, Watched

\* What the request p is about to be.
LEMMA PollFacts ==
    ASSUME PollInv, NEW p \in Polls
    PROVE  /\ polls \in [Polls -> PollRow] /\ polls[p] \in PollRow /\ PollOK(p)
           /\ ready \in [Queues -> JobsRow] /\ hub \in HubRow /\ source \in SourceRow
           /\ listener \in ListenerRow /\ wire \in SUBSET Queues
           /\ polls[p].pc # "idle" => polls[p].queue \in Queues
BY DEF PollInv, PollTypes, PollOK

\* A step within the claim loop leaves the jobs alone.
LEMMA LoopMoves ==
    ASSUME PollInv, NEW p \in Polls, NEW k \in PollRow, polls' = [polls EXCEPT ![p] = k],
           UNCHANGED <<hub, source, listener, wire, budget, ready>>,
           polls[p].pc \in Looping \cup {"deliver"},
           k.pc \in Looping \cup {"deliver"} => k.queue = polls[p].queue /\ k.waits = polls[p].waits,
           k.pc \in Looping \cup {"deliver", "idle"},
           k.pc \in Looping => polls[p].pc # "deliver",
           k.pc \in {"subscribe", "recheck", "check", "wait"} => k.waits,
           k.pc \in {"recheck", "check", "wait"} /\ hub.closed => k.event,
           k.pc \in {"check", "wait"} => Heard(p)'
    PROVE  PollInv'
<1>1. /\ polls[p] \in PollRow /\ PollOK(p) /\ ready \in [Queues -> JobsRow]
      /\ polls[p].queue \in Queues /\ polls' \in [Polls -> PollRow] /\ polls'[p] = k
  BY PollFacts DEF Looping
<1>2. k.pc \notin Adding
  BY DEF Adding, Looping
<1>3. Heard(p)'
  BY <1>1 DEF Heard
<1>4. PollOK(p)'
  BY <1>1, <1>2, <1>3 DEF PollOK, Past, Subscribed, Looping
<1>5. \A q \in Queues : ready'[q].told <= ready[q].told
  BY <1>1 DEF JobsRow
<1>6. k.pc \in Looping /\ k.waits => Past(p) /\ k.queue = polls[p].queue
  BY DEF Past, Looping
<1> QED  BY <1>1, <1>4, <1>5, <1>6, PollMoves

LEMMA IdleRow == Idle \in PollRow /\ Idle.pc = "idle" /\ ~Idle.waits
<1>1. Idle.queue \in Queues \cup {Idle.queue}
  OBVIOUS
<1> QED  BY <1>1 DEF Idle, PollRow

\* An answer goes out, and the jobs are what they were or one more is ready
\* that nobody announced, or one less.
LEMMA AnsweredInv ==
    ASSUME PollInv, NEW p \in Polls, Answered(p), ready' \in [Queues -> JobsRow],
           \A q \in Queues : ready'[q].told <= ready[q].told,
           UNCHANGED <<hub, source, listener, wire, budget>>
    PROVE  PollInv'
<1>1. polls \in [Polls -> PollRow] /\ polls' = [polls EXCEPT ![p] = Idle]
  BY PollFacts DEF Answered
<1>2. polls'[p] = Idle
  BY <1>1
<1>3. PollOK(p)'
  BY <1>2, IdleRow DEF PollOK, Past, Subscribed, Heard, Adding, Looping
<1> QED  BY <1>1, <1>3, IdleRow, PollMoves DEF Looping

LEMMA SameJobs ==
    ASSUME PollInv, ready' = ready
    PROVE  ready' \in [Queues -> JobsRow] /\ \A q \in Queues : ready'[q].told <= ready[q].told
BY DEF PollInv, PollTypes, JobsRow

LEMMA PollArrivesInv ==
    ASSUME PollInv, NEW p \in Polls, NEW q \in Queues, NEW w \in BOOLEAN, PollArrives(p, q, w)
    PROVE  PollInv'
<1> DEFINE s == IF w THEN "ensure" ELSE "begin"
           k == [polls[p] EXCEPT !.pc = s, !.queue = q, !.waits = w]
<1>1. /\ polls' = [polls EXCEPT ![p] = k]
      /\ UNCHANGED <<hub, source, listener, wire, ready, budget>>
  BY DEF PollArrives
<1>2. s \in {"ensure", "begin"} /\ (s = "begin" <=> ~w)
  OBVIOUS
<1> HIDE DEF s
<1>3. /\ k \in PollRow /\ k.pc = s /\ k.queue = q /\ k.waits = w
  BY <1>2, PollFacts DEF PollRow, Looping
<1> HIDE DEF k
<1>4. polls'[p] = k
  BY <1>1, PollFacts
<1>5. PollOK(p)'
  BY <1>2, <1>3, <1>4 DEF PollOK, Past, Subscribed, Heard, Adding, Looping
<1> QED  BY <1>1, <1>2, <1>3, <1>5, PollMoves, SameJobs DEF Looping

LEMMA BeginInv ==
    ASSUME PollInv, NEW p \in Polls, Begin(p)
    PROVE  PollInv'
<1> DEFINE g == hub.generation[polls[p].queue]
           k == [polls[p] EXCEPT !.pc = "claim", !.seen = g]
<1>1. /\ polls[p].pc = "begin" /\ polls' = [polls EXCEPT ![p] = k]
      /\ UNCHANGED <<hub, source, listener, wire, ready, budget>>
  BY DEF Begin
<1>2. g \in Nat
  BY <1>1, PollFacts DEF HubRow
<1> HIDE DEF g
<1>3. /\ k \in PollRow /\ k.pc = "claim" /\ k.queue = polls[p].queue
      /\ k.waits = polls[p].waits
  BY <1>2, PollFacts DEF PollRow, Looping
<1> HIDE DEF k
<1> QED  BY <1>1, <1>3, LoopMoves DEF Looping

LEMMA StepRow ==
    ASSUME PollInv, NEW p \in Polls, NEW pc \in {"idle", "ensure", "deliver"} \cup Adding \cup Looping
    PROVE  /\ [polls[p] EXCEPT !.pc = pc] \in PollRow
           /\ [polls[p] EXCEPT !.pc = pc].pc = pc
           /\ [polls[p] EXCEPT !.pc = pc].queue = polls[p].queue
           /\ [polls[p] EXCEPT !.pc = pc].waits = polls[p].waits
           /\ [polls[p] EXCEPT !.pc = pc].event = polls[p].event
BY PollFacts DEF PollRow

LEMMA ForgetRow ==
    ASSUME PollInv, NEW p \in Polls, NEW pc \in {"deliver"} \cup Looping
    PROVE  LET k == [polls[p] EXCEPT !.pc = pc, !.seen = 0, !.event = FALSE] IN
           /\ k \in PollRow /\ k.pc = pc
           /\ k.queue = polls[p].queue /\ k.waits = polls[p].waits
BY PollFacts DEF PollRow

\* A claim: it took a job, found none, or ended.
LEMMA ClaimThenInv ==
    ASSUME PollInv, NEW p \in Polls, NEW next \in {"subscribe", "check"},
           polls[p].pc = IF next = "check" THEN "recheck" ELSE "claim",
           ClaimThen(p, next), UNCHANGED <<hub, source, listener, wire, budget>>
    PROVE  PollInv'
<1>1. polls[p].queue \in Queues /\ ready \in [Queues -> JobsRow] /\ polls \in [Polls -> PollRow]
  BY PollFacts
<1>2. CASE Takes(polls[p].queue) /\ Forget(p, "deliver")
  <2> DEFINE k == [polls[p] EXCEPT !.pc = "deliver", !.seen = 0, !.event = FALSE]
  <2>1. polls' = [polls EXCEPT ![p] = k]
    BY <1>2 DEF Forget
  <2>2. k \in PollRow /\ k.pc = "deliver" /\ k.queue = polls[p].queue
    BY ForgetRow
  <2> HIDE DEF k
  <2>3. polls'[p] = k
    BY <1>1, <2>1
  <2>4. PollOK(p)'
    BY <1>1, <2>2, <2>3 DEF PollOK, Past, Subscribed, Heard, Adding, Looping
  <2>5. ready' \in [Queues -> JobsRow] /\ \A q \in Queues : ready'[q].told <= ready[q].told
    <3>1. PICK kind \in {"told", "silent"} :
             /\ ready[polls[p].queue][kind] > 0
             /\ ready' = [ready EXCEPT ![polls[p].queue][kind] = @ - 1]
      BY <1>2 DEF Takes
    <3>2. CASE kind = "told"
      BY <1>1, <3>1, <3>2 DEF JobsRow
    <3>3. CASE kind = "silent"
      BY <1>1, <3>1, <3>3 DEF JobsRow
    <3> QED  BY <3>1, <3>2, <3>3
  <2> QED  BY <2>1, <2>2, <2>4, <2>5, PollMoves DEF Looping
<1>3. CASE Empty(polls[p].queue) /\ polls[p].waits /\ Step(p, next)
  <2> DEFINE k == [polls[p] EXCEPT !.pc = next]
  <2>1. polls' = [polls EXCEPT ![p] = k] /\ ready' = ready /\ ready[polls[p].queue].told = 0
    BY <1>3 DEF Step, Empty
  <2>2. /\ k \in PollRow /\ k.pc = next /\ k.queue = polls[p].queue
        /\ k.waits = polls[p].waits /\ k.event = polls[p].event
    BY StepRow DEF Looping
  <2> HIDE DEF k
  <2>3. polls'[p] = k
    BY <1>1, <2>1
  <2>4. Heard(p)'
    BY <2>1, <2>2, <2>3 DEF Heard
  <2>5. next = "check" /\ hub.closed => k.event
    BY <2>2, PollFacts DEF PollOK, Subscribed
  <2> QED  BY <1>3, <2>1, <2>2, <2>4, <2>5, LoopMoves DEF Looping
<1>4. CASE Answered(p) /\ ready' = ready
  BY <1>4, AnsweredInv, SameJobs
<1> QED  BY <1>2, <1>3, <1>4 DEF ClaimThen, Empty

LEMMA SubscribeInv ==
    ASSUME PollInv, NEW p \in Polls, Subscribe(p)
    PROVE  PollInv'
<1>1. /\ polls[p].pc = "subscribe" /\ polls[p].waits
      /\ UNCHANGED <<hub, source, listener, wire, ready, budget>>
  BY PollFacts DEF Subscribe, PollOK
<1>2. CASE Answered(p)
  BY <1>1, <1>2, AnsweredInv, SameJobs
<1>3. CASE ~Answered(p)
  <2> DEFINE e == hub.generation[polls[p].queue] # polls[p].seen
             k == [polls[p] EXCEPT !.pc = "recheck", !.seen = 0, !.event = e]
  <2>1. polls' = [polls EXCEPT ![p] = k] /\ ~hub.closed
    BY <1>3 DEF Subscribe
  <2>2. e \in BOOLEAN
    OBVIOUS
  <2> HIDE DEF e
  <2>3. /\ k \in PollRow /\ k.pc = "recheck" /\ k.queue = polls[p].queue
        /\ k.waits = polls[p].waits
    BY <2>2, PollFacts DEF PollRow, Looping
  <2> HIDE DEF k
  <2> QED  BY <1>1, <2>1, <2>3, LoopMoves DEF Looping
<1> QED  BY <1>2, <1>3

LEMMA CheckInv ==
    ASSUME PollInv, NEW p \in Polls, Check(p)
    PROVE  PollInv'
<1>1. /\ polls[p].pc = "check" /\ polls[p].waits /\ (hub.closed => polls[p].event) /\ Heard(p)
      /\ UNCHANGED <<hub, source, listener, wire, ready, budget>>
  BY PollFacts DEF Check, PollOK, Subscribed
<1>2. CASE Answered(p)
  BY <1>1, <1>2, AnsweredInv, SameJobs
<1>3. CASE Step(p, "wait")
  <2> DEFINE k == [polls[p] EXCEPT !.pc = "wait"]
  <2>1. polls' = [polls EXCEPT ![p] = k] /\ polls \in [Polls -> PollRow]
    BY <1>3, PollFacts DEF Step
  <2>2. /\ k \in PollRow /\ k.pc = "wait" /\ k.queue = polls[p].queue
        /\ k.waits = polls[p].waits /\ k.event = polls[p].event
    BY StepRow DEF Looping
  <2> HIDE DEF k
  <2>3. polls'[p] = k
    BY <2>1
  <2>4. Heard(p)'
    BY <1>1, <2>2, <2>3 DEF Heard
  <2> QED  BY <1>1, <2>1, <2>2, <2>4, LoopMoves DEF Looping
<1> QED  BY <1>2, <1>3 DEF Check

LEMMA WakeInv ==
    ASSUME PollInv, NEW p \in Polls, Wake(p)
    PROVE  PollInv'
<1> DEFINE k == [polls[p] EXCEPT !.pc = "begin", !.seen = 0, !.event = FALSE]
<1>1. /\ polls[p].pc = "wait" /\ polls' = [polls EXCEPT ![p] = k]
      /\ UNCHANGED <<hub, source, listener, wire, ready, budget>>
  BY DEF Wake, Forget
<1>2. k \in PollRow /\ k.pc = "begin" /\ k.queue = polls[p].queue /\ k.waits = polls[p].waits
  BY ForgetRow DEF Looping
<1> HIDE DEF k
<1> QED  BY <1>1, <1>2, LoopMoves DEF Looping

LEMMA DeliverInv ==
    ASSUME PollInv, NEW p \in Polls, Deliver(p)
    PROVE  PollInv'
<1>1. /\ Answered(p) /\ polls[p].queue \in Queues /\ ready \in [Queues -> JobsRow]
      /\ UNCHANGED <<hub, source, listener, wire, budget>>
  BY PollFacts DEF Deliver
<1>2. CASE ready' = ready
  BY <1>1, <1>2, AnsweredInv, SameJobs
<1>3. CASE ready' = [ready EXCEPT ![polls[p].queue].silent = @ + 1]
  <2>1. ready' \in [Queues -> JobsRow] /\ \A q \in Queues : ready'[q].told <= ready[q].told
    BY <1>1, <1>3 DEF JobsRow
  <2> QED  BY <1>1, <2>1, AnsweredInv
<1> QED  BY <1>2, <1>3 DEF Deliver

LEMMA LoopStepInv ==
    ASSUME PollInv, NEW p \in Polls, LoopStep(p)
    PROVE  PollInv'
<1>1. ASSUME Claim(p) PROVE PollInv'
  BY <1>1, ClaimThenInv DEF Claim
<1>2. ASSUME Recheck(p) PROVE PollInv'
  BY <1>2, ClaimThenInv DEF Recheck
<1> QED  BY <1>1, <1>2, BeginInv, SubscribeInv, CheckInv, WakeInv, DeliverInv DEF LoopStep

-----------------------------------------------------------------------------
(* A request makes sure of its queue *)

Traffics == [polls : SUBSET Polls, queues : SUBSET Queues, jobs : Nat, drops : Nat,
             embedded : BOOLEAN, housekeeper : BOOLEAN, cancels : BOOLEAN]

LEMMA SameTraffic ==
    ASSUME PollInv, budget' = budget
    PROVE  budget' \in Traffics
BY DEF PollInv, PollTypes, Traffics

LEMMA EnsureQueueInv ==
    ASSUME PollInv, NEW p \in Polls, EnsureQueue(p)
    PROVE  PollInv'
<1> DEFINE q == polls[p].queue
<1>1. /\ polls[p].pc = "ensure" /\ listener.lock = Nobody /\ q \in Queues
      /\ UNCHANGED <<hub, source, wire, ready, budget>>
  BY PollFacts DEF EnsureQueue
<1>2. CASE Answered(p) /\ listener' = listener
  BY <1>1, <1>2, AnsweredInv, SameJobs
<1>3. CASE listener.close = "open" /\ q \in listener.queues
  <2> DEFINE k == [polls[p] EXCEPT !.pc = "begin"]
  <2>1. polls' = [polls EXCEPT ![p] = k] /\ polls \in [Polls -> PollRow] /\ listener' = listener
    BY <1>1, <1>3, PollFacts DEF EnsureQueue, Step
  <2>2. /\ k \in PollRow /\ k.pc = "begin" /\ k.queue = polls[p].queue
        /\ k.waits = polls[p].waits
    BY StepRow DEF Looping
  <2> HIDE DEF k
  <2>3. polls'[p] = k /\ listener.monitor # "none"
    BY <1>1, <1>3, <2>1 DEF PollInv, Watched
  <2>4. PollOK(p)'
    BY <1>1, <1>3, <2>1, <2>2, <2>3 DEF PollOK, Past, Subscribed, Heard, Adding, Looping
  <2> QED  BY <1>1, <2>1, <2>2, <2>4, PollMoves, SameJobs
<1>4. CASE listener.close = "open" /\ q \notin listener.queues
  <2> DEFINE t == IF listener.monitor = "none" THEN "connect" ELSE "add"
             k == [polls[p] EXCEPT !.pc = t]
  <2>1. /\ polls' = [polls EXCEPT ![p] = k] /\ polls \in [Polls -> PollRow]
        /\ listener' = [listener EXCEPT !.queues = @ \cup {q}, !.lock = p]
    BY <1>1, <1>4, PollFacts DEF EnsureQueue, Step
  <2>2. t \in {"connect", "add"} /\ (t = "connect" <=> listener.monitor = "none")
    OBVIOUS
  <2> HIDE DEF t
  <2>3. /\ k \in PollRow /\ k.pc = t /\ k.queue = polls[p].queue
        /\ k.waits = polls[p].waits
    BY <2>2, StepRow DEF Adding
  <2> HIDE DEF k
  <2>4. /\ listener' \in ListenerRow /\ listener'.lock = p /\ listener'.close = "open"
        /\ listener'.queues = listener.queues \cup {q} /\ listener'.monitor = listener.monitor
        /\ listener'.pending = listener.pending
    BY <1>1, <1>4, <2>1, PollFacts DEF ListenerRow
  <2>5. polls'[p] = k
    BY <2>1
  <2>6. polls[p].waits
    BY <1>1, PollFacts DEF PollOK
  <2>7. \A o \in Polls : Past(o)' => polls'[o].queue # q
    <3>1. ASSUME NEW o \in Polls, Past(o)' PROVE Past(o) /\ polls'[o] = polls[o]
      BY <2>1, <2>2, <2>3, <3>1 DEF Past, Looping
    <3> QED  BY <1>4, <3>1 DEF PollInv, PollOK
  <2>8. PollOK(p)'
    BY <1>1, <2>2, <2>3, <2>4, <2>5, <2>6, <2>7 DEF PollOK, Past, Subscribed, Heard, Adding, Looping
  <2>9. p # Nobody
    BY NamesApart
  <2> QED  BY <1>1, <2>1, <2>3, <2>4, <2>8, <2>9, HolderMoves, PollFacts, SameTraffic DEF Traffics
<1> QED  BY <1>1, <1>2, <1>3, <1>4 DEF EnsureQueue

\* What holds of a request that adds its queue.
LEMMA AddingFacts ==
    ASSUME PollInv, NEW p \in Polls, polls[p].pc \in Adding
    PROVE  /\ polls[p].waits /\ listener.lock = p /\ listener.close = "open" /\ p # Nobody
           /\ polls[p].queue \in Queues /\ polls[p].queue \in listener.queues
           /\ listener.monitor = "none" <=> polls[p].pc \in {"connect", "connecting"}
           /\ \A o \in Polls : Past(o) => polls[o].queue # polls[p].queue
           /\ listener.monitor = "none" => \A o \in Polls : ~Past(o)
BY PollFacts, NamesApart DEF PollInv, PollOK, Adding

LEMMA FirstConnectInv ==
    ASSUME PollInv, NEW p \in Polls, FirstConnect(p)
    PROVE  PollInv'
<1> DEFINE k == [polls[p] EXCEPT !.pc = "connecting"]
<1>1. /\ polls[p].pc = "connect" /\ polls' = [polls EXCEPT ![p] = k]
      /\ UNCHANGED <<hub, listener, wire, ready, budget>>
      /\ source' = [source EXCEPT !.lock = p, !.channels = @ \cup {polls[p].queue}]
  BY DEF FirstConnect, Connecting, Step
<1>2. /\ k \in PollRow /\ k.pc = "connecting" /\ k.queue = polls[p].queue
      /\ k.waits = polls[p].waits
  BY StepRow DEF Adding
<1> HIDE DEF k
<1>3. polls[p].pc \in Adding
  BY <1>1 DEF Adding
<1>4. source' \in SourceRow /\ source'.listening = source.listening
  <2> DEFINE h == source.channels \cup {polls[p].queue}
  <2>1. h \in SUBSET Queues /\ source \in SourceRow
    BY <1>3, PollFacts, AddingFacts DEF SourceRow
  <2>2. source' = [source EXCEPT !.lock = p, !.channels = h]
    BY <1>1
  <2> HIDE DEF h
  <2> QED  BY <2>1, <2>2 DEF SourceRow
<1>5. polls'[p] = k
  BY <1>1, PollFacts
<1>6. \A o \in Polls : Past(o)' => polls'[o].queue # polls[p].queue
  <2>1. ASSUME NEW o \in Polls, Past(o)' PROVE Past(o) /\ polls'[o] = polls[o]
    BY <1>1, <1>2, <2>1, PollFacts DEF Past, Looping
  <2> QED  BY <1>3, <2>1, AddingFacts
<1>7. PollOK(p)'
  BY <1>1, <1>2, <1>3, <1>5, <1>6, AddingFacts DEF PollOK, Past, Subscribed, Heard, Looping
<1>8. listener' \in ListenerRow /\ listener'.lock # Nobody
  BY <1>1, <1>3, PollFacts, AddingFacts
<1> QED  BY <1>1, <1>2, <1>3, <1>4, <1>7, <1>8, AddingFacts, HolderMoves, SameTraffic DEF Traffics

\* A request that has added its queue goes on to claim.
LEMMA AddedRow ==
    ASSUME PollInv, NEW p \in Polls, NEW k \in PollRow, polls[p].pc \in Adding,
           polls' = [polls EXCEPT ![p] = k], k.pc = "begin", k.queue = polls[p].queue,
           polls[p].queue \in listener'.queues, listener'.monitor # "none"
    PROVE  PollOK(p)'
<1>1. polls'[p] = k
  BY PollFacts
<1> QED  BY <1>1, AddingFacts DEF PollOK, Past, Subscribed, Heard, Adding, Looping

LEMMA FirstConnectedInv ==
    ASSUME PollInv, NEW p \in Polls, FirstConnected(p)
    PROVE  PollInv'
<1> DEFINE k == [polls[p] EXCEPT !.pc = "begin"]
<1>1. /\ polls[p].pc = "connecting" /\ polls' = [polls EXCEPT ![p] = k]
      /\ UNCHANGED <<hub, wire, ready, budget>>
      /\ source' = [source EXCEPT !.lock = Nobody, !.connection = "up",
                                  !.listening = source.channels]
      /\ listener' = [listener EXCEPT !.lock = Nobody, !.healthy = TRUE, !.monitor = "watch"]
  BY DEF FirstConnected, Connected, Step
<1>2. k \in PollRow /\ k.pc = "begin" /\ k.queue = polls[p].queue
  BY StepRow DEF Looping
<1> HIDE DEF k
<1>3. polls[p].pc \in Adding /\ listener.monitor = "none"
  BY <1>1, AddingFacts DEF Adding
<1>4. source' \in SourceRow
  BY <1>1, PollFacts DEF SourceRow
<1>5. /\ listener' \in ListenerRow /\ listener'.queues = listener.queues
      /\ listener'.monitor = "watch" /\ listener'.pending = listener.pending
      /\ listener'.lock = Nobody
  BY <1>1, PollFacts DEF ListenerRow, Monitors
<1>6. PollOK(p)'
  BY <1>1, <1>2, <1>3, <1>5, AddedRow, AddingFacts
<1> QED  BY <1>1, <1>2, <1>3, <1>4, <1>5, <1>6, AddingFacts, HolderMoves, SameTraffic DEF Traffics

LEMMA FirstRefusedInv ==
    ASSUME PollInv, NEW p \in Polls, FirstRefused(p)
    PROVE  PollInv'
<1> DEFINE k == [polls[p] EXCEPT !.pc = "begin"]
<1>1. /\ polls[p].pc = "connecting" /\ polls' = [polls EXCEPT ![p] = k]
      /\ UNCHANGED <<hub, wire, ready>>
      /\ budget.drops > 0 /\ budget' = [budget EXCEPT !.drops = @ - 1]
      /\ source' = [source EXCEPT !.lock = Nobody]
      /\ listener' = [listener EXCEPT !.lock = Nobody, !.healthy = FALSE, !.monitor = "connect"]
  BY DEF FirstRefused, Refused, Step
<1>2. k \in PollRow /\ k.pc = "begin" /\ k.queue = polls[p].queue
  BY StepRow DEF Looping
<1> HIDE DEF k
<1>3. polls[p].pc \in Adding /\ listener.monitor = "none"
  BY <1>1, AddingFacts DEF Adding
<1>4. source' \in SourceRow /\ source'.listening = source.listening
  BY <1>1, PollFacts DEF SourceRow
<1>5. /\ listener' \in ListenerRow /\ listener'.queues = listener.queues
      /\ listener'.monitor = "connect" /\ listener'.pending = listener.pending
      /\ listener'.lock = Nobody
  BY <1>1, PollFacts DEF ListenerRow, Monitors
<1>6. PollOK(p)'
  BY <1>1, <1>2, <1>3, <1>5, AddedRow, AddingFacts
<1>7. budget' \in Traffics
  BY <1>1 DEF PollInv, PollTypes, Traffics
<1> QED  BY <1>1, <1>2, <1>3, <1>4, <1>5, <1>6, <1>7, AddingFacts, HolderMoves DEF Traffics

LEMMA AddChannelInv ==
    ASSUME PollInv, NEW p \in Polls, AddChannel(p)
    PROVE  PollInv'
<1> DEFINE l == IF source.connection = "up" THEN p ELSE Nobody
           t == IF source.connection = "up" THEN "listening" ELSE "begin"
           k == [polls[p] EXCEPT !.pc = t]
<1>1. /\ polls[p].pc = "add" /\ polls' = [polls EXCEPT ![p] = k]
      /\ UNCHANGED <<hub, wire, ready, budget>>
      /\ source' = [source EXCEPT !.channels = @ \cup {polls[p].queue}, !.lock = l]
      /\ listener' = [listener EXCEPT !.lock = l]
  BY DEF AddChannel, Step
<1>2. l \in {p, Nobody} /\ ((t = "listening" /\ l = p) \/ (t = "begin" /\ l = Nobody))
  OBVIOUS
<1> HIDE DEF l, t
<1>3. /\ k \in PollRow /\ k.pc = t /\ k.queue = polls[p].queue /\ k.waits = polls[p].waits
  BY <1>2, StepRow DEF Looping, Adding
<1> HIDE DEF k
<1>4. polls[p].pc \in Adding /\ listener.monitor # "none"
  BY <1>1, AddingFacts DEF Adding
<1>5. source' \in SourceRow /\ source'.listening = source.listening
  <2> DEFINE h == source.channels \cup {polls[p].queue}
  <2>1. h \in SUBSET Queues /\ source \in SourceRow
    BY <1>4, PollFacts, AddingFacts DEF SourceRow
  <2>2. source' = [source EXCEPT !.channels = h, !.lock = l]
    BY <1>1
  <2> HIDE DEF h
  <2> QED  BY <1>2, <2>1, <2>2 DEF SourceRow
<1>6. /\ listener' \in ListenerRow /\ listener'.queues = listener.queues /\ listener'.lock = l
      /\ listener'.monitor = listener.monitor /\ listener'.pending = listener.pending
      /\ listener'.close = listener.close
  BY <1>1, <1>2, PollFacts DEF ListenerRow
<1>7. polls'[p] = k
  BY <1>1, PollFacts
<1>8. PollOK(p)'
  <2>1. CASE t = "begin"
    BY <1>1, <1>3, <1>4, <1>6, <2>1, AddedRow, AddingFacts
  <2>2. CASE t = "listening" /\ l = p
    <3>1. \A o \in Polls : Past(o)' => polls'[o].queue # polls[p].queue
      <4>1. ASSUME NEW o \in Polls, Past(o)' PROVE Past(o) /\ polls'[o] = polls[o]
        BY <1>1, <1>3, <2>2, <4>1, PollFacts DEF Past, Looping
      <4> QED  BY <1>4, <4>1, AddingFacts
    <3> QED  BY <1>1, <1>3, <1>4, <1>6, <1>7, <2>2, <3>1, AddingFacts
             DEF PollOK, Past, Subscribed, Heard, Looping
  <2> QED  BY <1>2, <2>1, <2>2
<1> QED  BY <1>1, <1>3, <1>4, <1>5, <1>6, <1>8, AddingFacts, HolderMoves, SameTraffic DEF Traffics

LEMMA ChannelAddedInv ==
    ASSUME PollInv, NEW p \in Polls, ChannelAdded(p)
    PROVE  PollInv'
<1> DEFINE up == source.connection = "up"
           h == IF up THEN source.listening \cup {polls[p].queue} ELSE source.listening
           k == IF up THEN [polls[p] EXCEPT !.pc = "begin"] ELSE Idle
<1>1. /\ polls[p].pc = "listening" /\ polls' = [polls EXCEPT ![p] = k]
      /\ UNCHANGED <<hub, wire, ready, budget>>
      /\ source' = [source EXCEPT !.lock = Nobody, !.listening = h]
      /\ listener' = [listener EXCEPT !.lock = Nobody]
  BY DEF ChannelAdded, Step, Answered
<1>2. k = Idle \/ (k \in PollRow /\ k.pc = "begin" /\ k.queue = polls[p].queue)
  BY StepRow DEF Looping
<1>3. polls[p].pc \in Adding /\ listener.monitor # "none"
  BY <1>1, AddingFacts DEF Adding
<1>4. h \subseteq Queues /\ h \subseteq source.listening \cup {polls[p].queue}
  BY <1>3, PollFacts, AddingFacts DEF SourceRow
<1> HIDE DEF up, h, k
<1>5. source' \in SourceRow /\ source'.listening = h
  BY <1>1, <1>4, PollFacts DEF SourceRow
<1>6. /\ listener' \in ListenerRow /\ listener'.queues = listener.queues
      /\ listener'.monitor = listener.monitor /\ listener'.pending = listener.pending
      /\ listener'.lock = Nobody
  BY <1>1, PollFacts DEF ListenerRow
<1>7. PollOK(p)'
  <2>1. CASE k = Idle
    <3>1. polls'[p] = Idle
      BY <1>1, <2>1, PollFacts
    <3> QED  BY <3>1, IdleRow DEF PollOK, Past, Subscribed, Heard, Adding, Looping
  <2>2. CASE k \in PollRow /\ k.pc = "begin" /\ k.queue = polls[p].queue
    BY <1>1, <1>3, <1>6, <2>2, AddedRow, AddingFacts
  <2> QED  BY <1>2, <2>1, <2>2
<1>8. \A o \in Polls \ {p} : Past(o) /\ polls[o].queue \in source'.listening
                               => polls[o].queue \in source.listening
  BY <1>3, <1>4, <1>5, AddingFacts
<1>9. k \in PollRow
  BY <1>2, IdleRow
<1> QED  BY <1>1, <1>3, <1>5, <1>6, <1>7, <1>8, <1>9, AddingFacts, HolderMoves, SameTraffic
         DEF Traffics

LEMMA EnsureStepInv ==
    ASSUME PollInv, NEW p \in Polls, EnsureStep(p)
    PROVE  PollInv'
BY EnsureQueueInv, FirstConnectInv, FirstConnectedInv, FirstRefusedInv, AddChannelInv,
   ChannelAddedInv DEF EnsureStep

-----------------------------------------------------------------------------
(* The listener and the hub *)

\* Nobody's request moves but to be woken: what the step does to the rest.
LEMMA Unmoved ==
    ASSUME PollInv, polls' = polls, hub' = hub, PollTypes', \A p \in Polls : Heard(p)',
           listener'.queues = listener.queues, listener'.lock = listener.lock,
           listener.lock # Nobody => listener'.close = listener.close
                                     /\ (listener'.monitor = "none" <=> listener.monitor = "none"),
           listener.monitor # "none" => listener'.monitor # "none"
    PROVE  PollInv'
BY PollsWait

\* The steps that change nothing of what a request is to hear.
LEMMA Unheard ==
    ASSUME PollInv, UNCHANGED <<polls, hub, ready, wire>>,
           listener'.pending = listener.pending,
           source'.listening \subseteq source.listening
    PROVE  \A p \in Polls : Heard(p)'
BY DEF PollInv, PollOK, Heard

LEMMA NudgeInv ==
    ASSUME PollInv, NEW q \in Queues, Nudge(q)
    PROVE  PollInv'
<1> DEFINE d == listener.pending \cup {q}
<1>1. /\ wire' = wire \ {q} /\ listener' = [listener EXCEPT !.pending = d]
      /\ UNCHANGED <<hub, source, polls, ready, budget>>
  BY DEF Nudge
<1>2. d \in SUBSET Queues
  BY PollFacts DEF PollInv, PollTypes, ListenerRow
<1>3. wire \cup listener.pending \subseteq wire' \cup d
  BY <1>1
<1> HIDE DEF d
<1>4. /\ listener' \in ListenerRow /\ listener'.pending = d /\ listener'.queues = listener.queues
      /\ listener'.lock = listener.lock /\ listener'.close = listener.close
      /\ listener'.monitor = listener.monitor
  BY <1>1, <1>2 DEF PollInv, PollTypes, ListenerRow
<1>5. PollTypes'
  BY <1>1, <1>4 DEF PollInv, PollTypes
<1>6. \A p \in Polls : Heard(p)'
  BY <1>1, <1>3, <1>4 DEF PollInv, PollOK, Heard
<1> QED  BY <1>1, <1>4, <1>5, <1>6, Unmoved

LEMMA WokenRows ==
    ASSUME PollInv, NEW queues \in SUBSET Queues, polls' = Woken(queues)
    PROVE  /\ polls' \in [Polls -> PollRow]
           /\ \A p \in Polls :
                /\ polls'[p].pc = polls[p].pc /\ polls'[p].queue = polls[p].queue
                /\ polls'[p].waits = polls[p].waits /\ (polls[p].event => polls'[p].event)
                /\ Subscribed(p) /\ polls[p].queue \in queues => polls'[p].event
<1>1. ASSUME NEW p \in Polls
      PROVE  /\ polls'[p] \in PollRow
             /\ polls'[p].pc = polls[p].pc /\ polls'[p].queue = polls[p].queue
             /\ polls'[p].waits = polls[p].waits /\ (polls[p].event => polls'[p].event)
             /\ Subscribed(p) /\ polls[p].queue \in queues => polls'[p].event
  <2>1. polls[p] \in PollRow
    BY PollFacts
  <2>2. polls'[p] = IF Subscribed(p) /\ polls[p].queue \in queues
                    THEN [polls[p] EXCEPT !.event = TRUE] ELSE polls[p]
    BY <1>1 DEF Woken
  <2>3. CASE Subscribed(p) /\ polls[p].queue \in queues
    BY <2>1, <2>2, <2>3 DEF PollRow
  <2>4. CASE ~(Subscribed(p) /\ polls[p].queue \in queues)
    BY <2>1, <2>2, <2>4
  <2> QED  BY <2>3, <2>4
<1>2. polls' = [p \in Polls |-> polls'[p]]
  BY DEF Woken
<1> QED  BY <1>1, <1>2

LEMMA BumpedType ==
    ASSUME hub \in HubRow, NEW queues
    PROVE  Bumped(queues) \in [Queues -> Nat]
<1>1. ASSUME NEW q \in Queues PROVE Bumped(queues)[q] \in Nat
  BY <1>1 DEF Bumped, HubRow
<1> QED  BY <1>1 DEF Bumped

\* A sweep over every waiter, or over the waiters of some queues.
LEMMA Swept ==
    ASSUME PollInv
    PROVE  /\ NotifyAll => hub' \in HubRow /\ hub'.closed = hub.closed
                           /\ (hub.closed \/ polls' = Woken(Queues))
                           /\ (hub.closed => polls' = polls)
           /\ \A queues \in SUBSET Queues : NotifyQueues(queues) =>
                 /\ hub' \in HubRow /\ hub'.closed = hub.closed
                 /\ hub.closed \/ polls' = Woken(queues)
                 /\ hub.closed => polls' = polls
           /\ HubShutdown => hub' \in HubRow /\ hub'.closed
                           /\ (hub.closed \/ polls' = Woken(Queues))
                           /\ (hub.closed => polls' = polls)
<1>1. hub \in HubRow
  BY DEF PollInv, PollTypes
<1>2. ASSUME NotifyAll
      PROVE  /\ hub' \in HubRow /\ hub'.closed = hub.closed
             /\ hub.closed \/ polls' = Woken(Queues)
             /\ hub.closed => polls' = polls
  <2>1. PICK g \in [Queues -> Nat] : g = Bumped(hub.known)
    BY <1>1, BumpedType
  <2>2. CASE hub.closed
    BY <1>1, <1>2, <2>2 DEF NotifyAll
  <2>3. CASE ~hub.closed
    <3>1. hub' = [hub EXCEPT !.generation = g] /\ polls' = Woken(Queues)
      BY <1>2, <2>1, <2>3 DEF NotifyAll
    <3> QED  BY <1>1, <2>3, <3>1 DEF HubRow
  <2> QED  BY <2>2, <2>3
<1>3. ASSUME NEW queues \in SUBSET Queues, NotifyQueues(queues)
      PROVE  /\ hub' \in HubRow /\ hub'.closed = hub.closed
             /\ hub.closed \/ polls' = Woken(queues)
             /\ hub.closed => polls' = polls
  <2>1. PICK g \in [Queues -> Nat] : g = Bumped(queues)
    BY <1>1, BumpedType
  <2>2. CASE hub.closed
    BY <1>1, <1>3, <2>2 DEF NotifyQueues
  <2>3. CASE ~hub.closed
    <3>1. PICK k \in SUBSET Queues : k = hub.known \cup queues
      BY <1>1 DEF HubRow
    <3>2. hub' = [hub EXCEPT !.known = k, !.generation = g] /\ polls' = Woken(queues)
      BY <1>3, <2>1, <2>3, <3>1 DEF NotifyQueues
    <3> QED  BY <1>1, <2>3, <3>2 DEF HubRow
  <2> QED  BY <2>2, <2>3
<1>4. ASSUME HubShutdown
      PROVE  /\ hub' \in HubRow /\ hub'.closed
             /\ hub.closed \/ polls' = Woken(Queues)
             /\ hub.closed => polls' = polls
  <2>1. PICK g \in [Queues -> Nat] : g = Bumped(hub.known)
    BY <1>1, BumpedType
  <2>2. CASE hub.closed
    BY <1>1, <1>4, <2>2 DEF HubShutdown
  <2>3. CASE ~hub.closed
    <3>1. hub' = [hub EXCEPT !.closed = TRUE, !.generation = g] /\ polls' = Woken(Queues)
      BY <1>4, <2>1, <2>3 DEF HubShutdown
    <3> QED  BY <1>1, <2>3, <3>1 DEF HubRow
  <2> QED  BY <2>2, <2>3
<1> QED  BY <1>2, <1>3, <1>4

\* A request past the listener is for one of the queues.
LEMMA SubscribedQueue ==
    ASSUME PollInv, NEW p \in Polls, Subscribed(p)
    PROVE  polls[p].queue \in Queues
BY PollFacts DEF Subscribed

LEMMA DrainInv ==
    ASSUME PollInv, DrainNotifies
    PROVE  PollInv'
<1>1. /\ listener' = [listener EXCEPT !.pending = {}] /\ NotifyQueues(listener.pending)
      /\ UNCHANGED <<source, wire, ready, budget>>
      /\ listener \in ListenerRow /\ listener.pending \in SUBSET Queues
  BY DEF DrainNotifies, PollInv, PollTypes, ListenerRow
<1>2. /\ hub' \in HubRow /\ hub'.closed = hub.closed
      /\ hub.closed \/ polls' = Woken(listener.pending)
      /\ hub.closed => polls' = polls
  BY <1>1, Swept
<1>3. /\ listener' \in ListenerRow /\ listener'.queues = listener.queues
      /\ listener'.lock = listener.lock /\ listener'.close = listener.close
      /\ listener'.monitor = listener.monitor /\ listener'.pending = {}
  BY <1>1 DEF ListenerRow
<1>4. /\ polls' \in [Polls -> PollRow]
      /\ \A p \in Polls :
           /\ polls'[p].pc = polls[p].pc /\ polls'[p].queue = polls[p].queue
           /\ polls'[p].waits = polls[p].waits /\ (polls[p].event => polls'[p].event)
           /\ ~hub.closed /\ Subscribed(p) /\ polls[p].queue \in listener.pending
                => polls'[p].event
  BY <1>1, <1>2, WokenRows, PollFacts DEF PollInv, PollTypes
<1>5. PollTypes'
  BY <1>1, <1>2, <1>3, <1>4 DEF PollInv, PollTypes
<1>6. ASSUME NEW p \in Polls PROVE Heard(p)'
  <2>1. Heard(p)
    BY DEF PollInv, PollOK
  <2> QED  BY <1>1, <1>2, <1>3, <1>4, <2>1 DEF Heard, Subscribed
<1> QED  BY <1>2, <1>3, <1>4, <1>5, <1>6, PollsWait

\* The monitor goes round on its own.
LEMMA MonitorInv ==
    ASSUME PollInv, MonitorLoop \/ Backoff \/ ReconnectBegins \/ ReconnectFails
    PROVE  PollInv'
<1>1. listener \in ListenerRow /\ source \in SourceRow /\ budget \in Traffics
  BY DEF PollInv, PollTypes, Traffics
<1>2. UNCHANGED <<polls, hub, ready, wire>>
  BY DEF MonitorLoop, Backoff, ReconnectBegins, ReconnectFails
<1>3. /\ listener.monitor # "none" /\ listener' \in ListenerRow
      /\ listener'.queues = listener.queues /\ listener'.lock = listener.lock
      /\ listener'.close = listener.close /\ listener'.pending = listener.pending
      /\ listener'.monitor # "none"
  <2>1. CASE MonitorLoop
    <3>1. PICK m \in {"connect", "backoff"} :
            listener' = [listener EXCEPT !.healthy = FALSE, !.monitor = m]
      BY <2>1 DEF MonitorLoop
    <3> QED  BY <1>1, <2>1, <3>1 DEF MonitorLoop, ListenerRow, Monitors
  <2>2. CASE Backoff
    BY <1>1, <2>2 DEF Backoff, ListenerRow, Monitors
  <2>3. CASE ReconnectBegins
    BY <1>1, <2>3 DEF ReconnectBegins, ListenerRow, Monitors
  <2>4. CASE ReconnectFails
    BY <1>1, <2>4 DEF ReconnectFails, ListenerRow, Monitors
  <2> QED  BY <2>1, <2>2, <2>3, <2>4
<1>4. source' \in SourceRow /\ source'.listening = source.listening
  <2>1. PICK h \in SUBSET Queues : h = source.channels \cup listener.queues
    BY <1>1 DEF SourceRow, ListenerRow
  <2>2. \/ source' = source
        \/ source' = [source EXCEPT !.lock = Monitor, !.channels = h]
        \/ source' = [source EXCEPT !.lock = Nobody]
    BY <2>1 DEF MonitorLoop, Backoff, ReconnectBegins, ReconnectFails, Connecting, Refused
  <2> QED  BY <1>1, <2>2 DEF SourceRow
<1>5. budget' \in Traffics
  <2>1. budget' = budget \/ (budget.drops > 0 /\ budget' = [budget EXCEPT !.drops = @ - 1])
    BY DEF MonitorLoop, Backoff, ReconnectBegins, ReconnectFails, Refused
  <2> QED  BY <1>1, <2>1 DEF Traffics
<1>6. PollTypes'
  BY <1>2, <1>3, <1>4, <1>5 DEF PollInv, PollTypes, Traffics
<1> QED  BY <1>2, <1>3, <1>4, <1>6, Unheard, Unmoved

LEMMA ReconnectedInv ==
    ASSUME PollInv, Reconnected
    PROVE  PollInv'
<1>1. /\ listener.monitor = "connecting" /\ NotifyAll
      /\ listener' = [listener EXCEPT !.healthy = TRUE, !.monitor = "again"]
      /\ source' = [source EXCEPT !.lock = Nobody, !.connection = "up",
                                  !.listening = source.channels]
      /\ UNCHANGED <<wire, ready, budget>>
      /\ listener \in ListenerRow /\ source \in SourceRow
  BY DEF Reconnected, Connected, PollInv, PollTypes
<1>2. /\ hub' \in HubRow /\ hub'.closed = hub.closed
      /\ hub.closed \/ polls' = Woken(Queues)
      /\ hub.closed => polls' = polls
  BY <1>1, Swept
<1>3. /\ listener' \in ListenerRow /\ listener'.queues = listener.queues
      /\ listener'.lock = listener.lock /\ listener'.close = listener.close
      /\ listener'.monitor = "again" /\ source' \in SourceRow
  BY <1>1 DEF ListenerRow, Monitors, SourceRow
<1>4. /\ polls' \in [Polls -> PollRow]
      /\ \A p \in Polls :
           /\ polls'[p].pc = polls[p].pc /\ polls'[p].queue = polls[p].queue
           /\ polls'[p].waits = polls[p].waits /\ (polls[p].event => polls'[p].event)
           /\ ~hub.closed /\ Subscribed(p) => polls'[p].event
  BY <1>2, WokenRows, SubscribedQueue, PollFacts DEF PollInv, PollTypes
<1>5. PollTypes'
  BY <1>1, <1>2, <1>3, <1>4 DEF PollInv, PollTypes
<1>6. ASSUME NEW p \in Polls PROVE Heard(p)'
  BY <1>2, <1>4 DEF Heard, Subscribed
<1> QED  BY <1>1, <1>2, <1>3, <1>4, <1>5, <1>6, PollsWait

LEMMA DropInv ==
    ASSUME PollInv, Drop
    PROVE  PollInv'
<1>1. /\ source' = [source EXCEPT !.connection = "down", !.listening = {}] /\ wire' = {}
      /\ budget.drops > 0 /\ budget' = [budget EXCEPT !.drops = @ - 1]
      /\ UNCHANGED <<hub, listener, polls, ready>>
      /\ source \in SourceRow /\ budget \in Traffics
  BY DEF Drop, PollInv, PollTypes, Traffics
<1>2. source' \in SourceRow /\ source'.listening = {} /\ budget' \in Traffics
  <2>1. source' \in SourceRow /\ source'.listening = {}
    BY <1>1 DEF SourceRow
  <2>2. budget' \in Traffics
    BY <1>1 DEF Traffics
  <2> QED  BY <2>1, <2>2
<1>3. PollTypes'
  BY <1>1, <1>2 DEF PollInv, PollTypes, Traffics
<1>4. \A p \in Polls : Heard(p)'
  BY <1>2 DEF Heard
<1> QED  BY <1>1, <1>3, <1>4, Unmoved

LEMMA JobEnqueuedInv ==
    ASSUME PollInv, NEW q \in Queues, JobEnqueued(q)
    PROVE  PollInv'
<1>1. /\ budget.jobs > 0 /\ budget' = [budget EXCEPT !.jobs = @ - 1]
      /\ ready' = [ready EXCEPT ![q].told = @ + 1]
      /\ wire' = IF q \in source.listening THEN wire \cup {q} ELSE wire
      /\ UNCHANGED <<hub, source, listener, polls>>
      /\ budget \in Traffics /\ ready \in [Queues -> JobsRow] /\ wire \in SUBSET Queues
  BY DEF JobEnqueued, PollInv, PollTypes, Traffics
<1>2. /\ budget' \in Traffics /\ ready' \in [Queues -> JobsRow] /\ wire' \in SUBSET Queues
      /\ \A x \in Queues \ {q} : ready'[x] = ready[x]
  BY <1>1 DEF Traffics, JobsRow
<1>3. PollTypes'
  BY <1>1, <1>2 DEF PollInv, PollTypes, Traffics
<1>4. ASSUME NEW p \in Polls PROVE Heard(p)'
  <2>1. Heard(p) /\ (polls[p].pc # "idle" => polls[p].queue \in Queues)
    BY PollFacts DEF PollOK
  <2>2. CASE polls[p].queue = q
    BY <1>1, <2>1, <2>2 DEF Heard
  <2>3. CASE polls[p].queue # q /\ polls[p].queue \in Queues
    BY <1>1, <1>2, <2>1, <2>3 DEF Heard
  <2>4. CASE polls[p].pc = "idle"
    BY <1>1, <2>4 DEF Heard
  <2> QED  BY <2>1, <2>2, <2>3, <2>4
<1> QED  BY <1>1, <1>3, <1>4, Unmoved

LEMMA JobMaturesInv ==
    ASSUME PollInv, NEW q \in Queues, JobMatures(q)
    PROVE  PollInv'
<1>1. /\ budget.jobs > 0 /\ budget' = [budget EXCEPT !.jobs = @ - 1]
      /\ ready' = [ready EXCEPT ![q].silent = @ + 1]
      /\ UNCHANGED <<hub, source, listener, wire, polls>>
      /\ budget \in Traffics /\ ready \in [Queues -> JobsRow]
  BY DEF JobMatures, PollInv, PollTypes, Traffics
<1>2. /\ budget' \in Traffics /\ ready' \in [Queues -> JobsRow]
      /\ \A x \in Queues : ready'[x].told = ready[x].told
  BY <1>1 DEF Traffics, JobsRow
<1>3. PollTypes'
  BY <1>1, <1>2 DEF PollInv, PollTypes, Traffics
<1>4. ASSUME NEW p \in Polls PROVE Heard(p)'
  <2>1. Heard(p) /\ (polls[p].pc # "idle" => polls[p].queue \in Queues)
    BY PollFacts DEF PollOK
  <2> QED  BY <1>1, <1>2, <2>1 DEF Heard
<1> QED  BY <1>1, <1>3, <1>4, Unmoved

LEMMA PollNextInv ==
    ASSUME PollInv, PollNext
    PROVE  PollInv'
<1>1. budget.queues \subseteq Queues
  BY DEF PollInv, PollTypes
<1> QED  BY <1>1, EnsureStepInv, LoopStepInv, NudgeInv, DrainInv, MonitorInv, ReconnectedInv, DropInv,
            JobEnqueuedInv, JobMaturesInv DEF PollNext, ListenerStep

\* The runtime shuts the hub down.
LEMMA HubShutdownInv ==
    ASSUME PollInv, HubShutdown, UNCHANGED <<source, listener, wire, ready, budget>>
    PROVE  PollInv'
<1>1. /\ hub' \in HubRow /\ hub'.closed
      /\ hub.closed \/ polls' = Woken(Queues)
      /\ hub.closed => polls' = polls
  BY Swept
<1>2. /\ polls' \in [Polls -> PollRow]
      /\ \A p \in Polls :
           /\ polls'[p].pc = polls[p].pc /\ polls'[p].queue = polls[p].queue
           /\ polls'[p].waits = polls[p].waits /\ (polls[p].event => polls'[p].event)
           /\ ~hub.closed /\ Subscribed(p) => polls'[p].event
  BY <1>1, WokenRows, SubscribedQueue, PollFacts DEF PollInv, PollTypes
<1>3. PollTypes'
  BY <1>1, <1>2 DEF PollInv, PollTypes
<1>4. ASSUME NEW p \in Polls PROVE Heard(p)'
  BY <1>1 DEF Heard
<1> QED  BY <1>1, <1>2, <1>3, <1>4, PollsWait

LEMMA CloseListenerInv ==
    ASSUME PollInv, CloseListener, UNCHANGED <<hub, wire, polls, ready, budget>>
    PROVE  PollInv'
<1>1. listener \in ListenerRow /\ source \in SourceRow
  BY DEF PollInv, PollTypes
<1>2. listener.close = "open" => listener.lock = Nobody
  BY DEF CloseListener, ListenerCloses, SourceCloses, MonitorCancelled
<1>3. listener.close # "open" => listener.lock = Nobody
  BY DEF PollInv, Watched
<1>4. /\ listener' \in ListenerRow
      /\ listener'.queues = listener.queues /\ listener'.lock = listener.lock
      /\ listener'.pending = listener.pending
      /\ listener.monitor # "none" => listener'.monitor # "none"
  BY <1>1 DEF CloseListener, ListenerCloses, SourceCloses, MonitorCancelled, ListenerRow, Monitors
<1>5. source' \in SourceRow /\ source'.listening \subseteq source.listening
  BY <1>1 DEF CloseListener, ListenerCloses, SourceCloses, MonitorCancelled, SourceRow
<1>6. PollTypes'
  BY <1>4, <1>5 DEF PollInv, PollTypes
<1> QED  BY <1>2, <1>3, <1>4, <1>5, <1>6, Unheard, Unmoved

-----------------------------------------------------------------------------
(* The runtime *)

\* Where a task is once its process is on the way down.
WayDown == {"unwind", "stopping", "worker", "cleanup", "join", "prepare", "close", "closing",
            "closed"}

RuntimeRow == [state : {"CONSTRUCTED", "STARTING", "RUNNING", "DEGRADED", "STOPPING",
                        "STOPPED", "FAILED"},
               stopping : BOOLEAN, healthy : BOOLEAN, closed : BOOLEAN, acted : BOOLEAN,
               exited : BOOLEAN, fatal : BOOLEAN]

Places == {"none", "meta", "tick", "service", "serving", "up", "raised", "sleep", "watch",
           "waiting", "cancelled", "returned", "done"} \cup WayDown

RuntimeTypes == /\ rt \in RuntimeRow
                /\ tasks \in [Tasks -> Places]
                /\ pool \in BOOLEAN

\* What has gone is gone on the way down, and no way down leaves it running.
Falling == /\ \A t \in Tasks : tasks[t] \in WayDown => rt.stopping
           /\ hub.closed \/ rt.closed \/ ~pool => rt.stopping
           /\ rt.state = "RUNNING" => ~rt.stopping

\* How far a start has come says what else may be going on: nothing but a
\* housekeeper before it has ended, and only that one may take it down.
Starting ==
  LET s == tasks["start"] IN
  /\ rt.state = "CONSTRUCTED" => s = "none"
  /\ s \in {"none", "meta", "tick"} => ~rt.stopping /\ tasks["housekeeper"] = "none"
  /\ s \in {"none", "meta", "tick", "service", "serving"}
       => tasks["exit"] = "none" /\ tasks["stop"] = "none"
  /\ s \in {"service", "serving"} /\ rt.stopping
       => ~rt.healthy /\ tasks["housekeeper"] \notin {"sleep", "tick"}

\* A tick that is still running when the way down began finds a state from
\* which it does not recover.
LateTick == rt.stopping /\ tasks["housekeeper"] = "tick"
              => rt.state \in {"FAILED", "STOPPING", "STOPPED"}

RuntimeInv == RuntimeTypes /\ Falling /\ Starting /\ LateTick

\* The requests and the listener shut no hub and close no transport.
LEMMA PollNextKeeps ==
    ASSUME PollInv, PollNext
    PROVE  hub'.closed = hub.closed /\ pool' = pool
<1>1. budget.queues \subseteq Queues /\ listener.pending \in SUBSET Queues
  BY DEF PollInv, PollTypes, ListenerRow
<1>2. ASSUME NEW p \in Polls, EnsureStep(p) PROVE hub' = hub /\ pool' = pool
  BY <1>2 DEF EnsureStep, EnsureQueue, FirstConnect, FirstConnected, FirstRefused, AddChannel,
              ChannelAdded
<1>3. ASSUME NEW p \in Polls, LoopStep(p) PROVE hub' = hub /\ pool' = pool
  BY <1>3 DEF LoopStep, Begin, Claim, Subscribe, Recheck, Check, Wake, Deliver
<1>4. CASE ListenerStep
  <2>1. CASE DrainNotifies
    BY <1>1, <2>1, Swept DEF DrainNotifies
  <2>2. CASE Reconnected
    BY <2>2, Swept DEF Reconnected
  <2> QED  BY <1>4, <2>1, <2>2
           DEF ListenerStep, MonitorLoop, Backoff, ReconnectBegins, ReconnectFails, Nudge
<1>5. ASSUME Drop \/ \E q \in Queues : JobEnqueued(q) \/ JobMatures(q)
      PROVE  hub' = hub /\ pool' = pool
  BY <1>5 DEF Drop, JobEnqueued, JobMatures
<1> QED  BY <1>1, <1>2, <1>3, <1>4, <1>5 DEF PollNext

\* What the parts of the long poll that the runtime touches leave alone.
LEMMA Aside ==
    ASSUME RuntimeInv, UNCHANGED <<rt, tasks>>, hub'.closed = hub.closed, pool' = pool
    PROVE  RuntimeInv'
BY DEF RuntimeInv, RuntimeTypes, Falling, Starting, LateTick

\* The hub goes down with whoever lowers the runtime.
LEMMA LoweredFacts ==
    ASSUME PollInv, NEW state, Lowered(state)
    PROVE  rt' = [rt EXCEPT !.state = state, !.stopping = TRUE] /\ hub'.closed
BY Swept DEF Lowered

LEMMA TearDownRuntime ==
    ASSUME PollInv, RuntimeInv, NEW t \in Tasks, TearDown(t)
    PROVE  RuntimeInv'
<1>1. /\ tasks \in [Tasks -> Places] /\ rt \in RuntimeRow /\ pool \in BOOLEAN
      /\ tasks[t] \in WayDown => rt.stopping
  BY DEF RuntimeInv, RuntimeTypes, Falling
<1>2. CASE Cleanup(t)
  <2>1. /\ rt.stopping /\ UNCHANGED <<rt, hub, pool>>
        /\ tasks' = [Cancelled(t) EXCEPT ![t] = "join"]
    BY <1>1, <1>2 DEF Cleanup, At, WayDown, pollVars
  <2>2. \A u \in Tasks : \/ tasks'[u] = tasks[u]
                         \/ u = t /\ tasks'[u] = "join"
                         \/ tasks'[u] = "done" /\ tasks[u] \notin {"none", "done"}
    BY <2>1 DEF Cancelled
  <2>3. tasks' \in [Tasks -> Places]
    BY <1>1, <2>1, <2>2 DEF Cancelled, Places, WayDown
  <2> QED  BY <1>2, <2>1, <2>2, <2>3
           DEF RuntimeInv, RuntimeTypes, Falling, Starting, LateTick, Cleanup, At, Tasks, WayDown
<1>3. CASE Join(t)
  BY <1>1, <1>3 DEF RuntimeInv, RuntimeTypes, Falling, Starting, LateTick, Join, At, Goes, Tasks,
                    WayDown, Places, pollVars
<1>4. CASE CloseResources(t)
  <2>1. PICK c \in {"closed", "closing"} : Goes(t, c)
    BY <1>4 DEF CloseResources
  <2>2. /\ rt.stopping /\ tasks[t] = "close" /\ tasks' = [tasks EXCEPT ![t] = c]
        /\ rt' = [rt EXCEPT !.closed = TRUE] /\ UNCHANGED <<hub, pool>>
    BY <1>1, <1>4, <2>1 DEF CloseResources, At, Goes, WayDown, pollVars
  <2> QED  BY <1>1, <2>2 DEF RuntimeInv, RuntimeTypes, RuntimeRow, Falling, Starting, LateTick, Tasks,
                             WayDown, Places
<1>5. CASE Closing(t)
  <2>1. rt.stopping /\ tasks[t] = "closing" /\ UNCHANGED <<rt, hub>>
    BY <1>1, <1>5 DEF Closing, At, WayDown
  <2>2. \/ UNCHANGED <<tasks, pool>>
        \/ pool' = FALSE /\ tasks' = [tasks EXCEPT ![t] = "closed"]
    BY <1>5 DEF Closing, Goes
  <2> QED  BY ZenonT(60), <1>1, <2>1, <2>2
           DEF RuntimeInv, RuntimeTypes, Falling, Starting, LateTick, Tasks, WayDown, Places
<1>6. CASE Prepared(t)
  BY <1>1, <1>6 DEF RuntimeInv, RuntimeTypes, Falling, Starting, LateTick, Prepared, At, Goes, Tasks,
                    WayDown, Places, pollVars
<1> QED  BY <1>2, <1>3, <1>4, <1>5, <1>6 DEF TearDown

\* start() that fails takes the runtime down itself.
LEMMA UnwindRuntime ==
    ASSUME PollInv, RuntimeInv, Unwind,
           tasks["start"] \in {"meta", "tick", "service", "serving"}
    PROVE  RuntimeInv'
<1>1. /\ rt' = [rt EXCEPT !.state = "FAILED", !.stopping = TRUE] /\ pool' = pool
      /\ tasks' = [tasks EXCEPT !["start"] = "unwind"]
  BY LoweredFacts DEF Unwind, Goes
<1> QED  BY <1>1 DEF RuntimeInv, RuntimeTypes, RuntimeRow, Falling, Starting, LateTick, Tasks, WayDown,
                     Places

LEMMA StartRuntime ==
    ASSUME PollInv, RuntimeInv, Start \/ StartStep
    PROVE  RuntimeInv'
<1>1. tasks \in [Tasks -> Places] /\ rt \in RuntimeRow /\ pool \in BOOLEAN
  BY DEF RuntimeInv, RuntimeTypes
<1>2. CASE Start
  BY <1>1, <1>2 DEF Start, Goes, RuntimeInv, RuntimeTypes, RuntimeRow, Falling, Starting, LateTick, Tasks,
                    WayDown, Places, pollVars
<1>3. ASSUME NEW m \in Metas, ReadMeta(m) PROVE RuntimeInv'
  <2>1. CASE Supported(m)
    <3>1. PICK c \in {"tick", "service"} : Goes("start", c)
      BY <1>3, <2>1 DEF ReadMeta
    <3> QED  BY <1>1, <1>3, <2>1, <3>1
             DEF ReadMeta, At, Goes, RuntimeInv, RuntimeTypes, Falling, Starting, LateTick, Tasks,
                 WayDown, Places, pollVars
  <2>2. CASE ~Supported(m)
    BY <1>3, <2>2, UnwindRuntime DEF ReadMeta, At
  <2> QED  BY <2>1, <2>2
<1>4. ASSUME NEW v \in Verdicts, StartupTick(v) PROVE RuntimeInv'
  <2>1. CASE v = "fatal"
    BY <1>4, <2>1, UnwindRuntime DEF StartupTick, At
  <2>2. CASE v # "fatal"
    <3>1. PICK h \in BOOLEAN : h = (v = "ok")
      OBVIOUS
    <3>2. /\ rt' = [rt EXCEPT !.healthy = h] /\ tasks["start"] = "tick" /\ UNCHANGED <<hub, pool>>
          /\ tasks' = [tasks EXCEPT !["start"] = "service", !["housekeeper"] = "sleep"]
      BY <1>4, <2>2, <3>1 DEF StartupTick, At, pollVars
    <3> QED  BY <1>1, <3>2 DEF RuntimeInv, RuntimeTypes, RuntimeRow, Falling, Starting, LateTick, Tasks,
                               WayDown, Places
  <2> QED  BY <2>1, <2>2
<1>5. CASE WorkerStarts
  <2>1. CASE worker.state = "CONSTRUCTED"
    BY <1>1, <1>5, <2>1
    DEF WorkerStarts, At, Goes, RuntimeInv, RuntimeTypes, Falling, Starting, LateTick, Tasks, WayDown,
        Places, pollVars
  <2>2. CASE worker.state # "CONSTRUCTED"
    BY <1>5, <2>2, UnwindRuntime DEF WorkerStarts, At
  <2> QED  BY <2>1, <2>2
<1>6. CASE WorkerStarted
  <2>1. PICK s \in {"RUNNING", "DEGRADED"} : s = IF rt.healthy THEN "RUNNING" ELSE "DEGRADED"
    OBVIOUS
  <2>2. /\ tasks["start"] = "serving" /\ rt' = [rt EXCEPT !.state = s] /\ UNCHANGED <<hub, pool>>
        /\ tasks' = [tasks EXCEPT !["start"] = "up", !["exit"] = "watch"]
    BY <1>6, <2>1 DEF WorkerStarted, At, pollVars
  <2> QED  BY <1>1, <2>1, <2>2 DEF RuntimeInv, RuntimeTypes, RuntimeRow, Falling, Starting, LateTick,
                                   Tasks, WayDown, Places
<1>7. CASE WorkerRefuses
  BY <1>7, UnwindRuntime DEF WorkerRefuses, At
<1>8. CASE Started
  <2>1. PICK s \in {"RUNNING", "DEGRADED"} : s = IF rt.healthy THEN "RUNNING" ELSE "DEGRADED"
    OBVIOUS
  <2>2. /\ tasks["start"] = "service" /\ rt' = [rt EXCEPT !.state = s] /\ UNCHANGED <<hub, pool>>
        /\ tasks' = [tasks EXCEPT !["start"] = "up"]
    BY <1>8, <2>1 DEF Started, At, Goes, pollVars
  <2> QED  BY <1>1, <2>1, <2>2 DEF RuntimeInv, RuntimeTypes, RuntimeRow, Falling, Starting, LateTick,
                                   Tasks, WayDown, Places
<1>9. CASE Unwound \/ StartFailed
  BY <1>1, <1>9 DEF Unwound, StartFailed, At, Goes, RuntimeInv, RuntimeTypes, Falling, Starting,
                    LateTick, Tasks, WayDown, Places, pollVars
<1> QED  BY <1>2, <1>3, <1>4, <1>5, <1>6, <1>7, <1>8, <1>9 DEF StartStep

LEMMA HousekeeperRuntime ==
    ASSUME PollInv, RuntimeInv, HousekeeperStep
    PROVE  RuntimeInv'
<1>1. tasks \in [Tasks -> Places] /\ rt \in RuntimeRow /\ pool \in BOOLEAN
  BY DEF RuntimeInv, RuntimeTypes
<1>2. CASE HousekeeperWakes
  <2>1. PICK c \in {"done", "tick"} : Goes("housekeeper", c) /\ (rt.stopping => c = "done")
    BY <1>2 DEF HousekeeperWakes
  <2> QED  BY <1>1, <1>2, <2>1
           DEF HousekeeperWakes, At, Goes, RuntimeInv, RuntimeTypes, Falling, Starting, LateTick, Tasks,
               WayDown, Places, pollVars
<1>3. CASE HousekeeperLeaves \/ HousekeeperEnds
  BY <1>1, <1>3 DEF HousekeeperLeaves, HousekeeperEnds, At, Goes, RuntimeInv, RuntimeTypes, Falling,
                    Starting, LateTick, Tasks, WayDown, Places, pollVars
<1>4. ASSUME NEW v \in Verdicts, Tick(v) PROVE RuntimeInv'
  <2>1. PICK h \in BOOLEAN : h = (v = "ok")
    OBVIOUS
  <2>2. PICK s \in RuntimeRow : s.state = IF v = "retryable" THEN "DEGRADED"
                                          ELSE IF ~rt.healthy /\ rt.state = "DEGRADED" THEN "RUNNING"
                                          ELSE rt.state
    <3>1. \A x \in {"DEGRADED", "RUNNING", rt.state} : [rt EXCEPT !.state = x] \in RuntimeRow
      BY <1>1 DEF RuntimeRow
    <3> QED  BY <1>1, <3>1 DEF RuntimeRow
  <2>3. /\ rt' = [rt EXCEPT !.healthy = h, !.state = s.state] /\ UNCHANGED <<hub, pool>>
        /\ tasks["housekeeper"] = "tick" /\ tasks' = [tasks EXCEPT !["housekeeper"] = "sleep"]
    BY <1>4, <2>1, <2>2 DEF Tick, At, Goes, pollVars
  <2>4. /\ rt' \in RuntimeRow /\ rt'.stopping = rt.stopping /\ rt'.closed = rt.closed
        /\ rt'.state = s.state
    BY <1>1, <2>2, <2>3 DEF RuntimeRow
  <2>5. tasks["start"] \in {"service", "serving"} => ~rt.stopping
    BY <2>3 DEF RuntimeInv, Starting
  <2>6. s.state = "RUNNING" => ~rt.stopping
    BY <2>2, <2>3 DEF RuntimeInv, Falling, LateTick
  <2>7. s.state # "CONSTRUCTED"
    BY <2>2, <2>3 DEF RuntimeInv, Starting
  <2> QED  BY <1>1, <2>3, <2>4, <2>5, <2>6, <2>7
           DEF RuntimeInv, RuntimeTypes, Falling, Starting, LateTick, Tasks, WayDown, Places
<1>5. CASE TickFatal
  <2>1. /\ hub'.closed /\ pool' = pool
        /\ rt' = [rt EXCEPT !.state = "FAILED", !.healthy = FALSE, !.stopping = TRUE, !.fatal = TRUE]
        /\ tasks["housekeeper"] = "tick" /\ tasks' = [tasks EXCEPT !["housekeeper"] = "stopping"]
    BY <1>5, Swept DEF TickFatal, At, Goes
  <2> QED  BY <1>1, <2>1 DEF RuntimeInv, RuntimeTypes, RuntimeRow, Falling, Starting, LateTick, Tasks,
                             WayDown, Places
<1> QED  BY <1>2, <1>3, <1>4, <1>5 DEF HousekeeperStep

LEMMA ActsRuntime ==
    ASSUME PollInv, RuntimeInv, NEW t \in {"exit", "stop"}, Acts(t), tasks[t] \in {"watch", "worker"}
    PROVE  RuntimeInv'
<1>1. /\ hub'.closed /\ pool' = pool
      /\ rt' = [rt EXCEPT !.acted = TRUE, !.state = "FAILED", !.stopping = TRUE]
      /\ tasks' = [tasks EXCEPT ![t] = "prepare"]
  BY Swept DEF Acts, Goes
<1> QED  BY <1>1 DEF RuntimeInv, RuntimeTypes, RuntimeRow, Falling, Starting, LateTick, Tasks, WayDown,
                     Places

LEMMA ExitRuntime ==
    ASSUME PollInv, RuntimeInv, ExitStep \/ StopStep \/ Stop \/ StopCancelled \/ ProcessExits
    PROVE  RuntimeInv'
<1>1. tasks \in [Tasks -> Places] /\ rt \in RuntimeRow /\ pool \in BOOLEAN
  BY DEF RuntimeInv, RuntimeTypes
<1>2. CASE MonitorActs
  BY <1>2, ActsRuntime DEF MonitorActs, At
<1>3. CASE MonitorEnds
  BY <1>1, <1>3 DEF MonitorEnds, At, Goes, RuntimeInv, RuntimeTypes, Falling, Starting, LateTick, Tasks,
                    WayDown, Places, pollVars
<1>4. CASE StopWorkerDone
  <2>1. CASE worker.unsafe /\ ~rt.acted
    BY <1>4, <2>1, ActsRuntime DEF StopWorkerDone, At
  <2>2. CASE ~(worker.unsafe /\ ~rt.acted)
    <3>1. PICK c \in {"returned", "cleanup"} : Goes("stop", c)
      BY <1>4, <2>2 DEF StopWorkerDone
    <3> QED  BY <1>1, <1>4, <2>2, <3>1
             DEF StopWorkerDone, At, Goes, RuntimeInv, RuntimeTypes, Falling, Starting, LateTick, Tasks,
                 WayDown, Places, pollVars
  <2> QED  BY <2>1, <2>2
<1>5. CASE Stopped
  BY <1>1, <1>5 DEF Stopped, At, Goes, RuntimeInv, RuntimeTypes, RuntimeRow, Falling, Starting, LateTick,
                    Tasks, WayDown, Places, pollVars
<1>6. CASE Stop
  <2>1. /\ rt' = [rt EXCEPT !.state = "STOPPING", !.stopping = TRUE] /\ pool' = pool
        /\ tasks["start"] = "up"
        /\ tasks' = [tasks EXCEPT !["stop"] = "worker", !["host"] = "waiting"]
    BY <1>6, LoweredFacts DEF Stop, At
  <2> QED  BY <1>1, <2>1 DEF RuntimeInv, RuntimeTypes, RuntimeRow, Falling, Starting, LateTick, Tasks,
                             WayDown, Places
<1>7. CASE ProcessExits
  BY <1>1, <1>7 DEF ProcessExits, RuntimeInv, RuntimeTypes, RuntimeRow, Falling, Starting, LateTick,
                    pollVars
<1>8. ASSUME NEW c \in {"cancelled", "returned", "raised"}, Goes("host", c),
             UNCHANGED <<rt, pollVars>>
      PROVE  RuntimeInv'
  BY <1>1, <1>8 DEF Goes, RuntimeInv, RuntimeTypes, Falling, Starting, LateTick, Tasks, WayDown, Places,
                    pollVars
<1>9. CASE StopCancelled \/ StopReturns
  BY <1>8, <1>9 DEF StopCancelled, StopReturns
<1> QED  BY <1>2, <1>3, <1>4, <1>5, <1>6, <1>7, <1>9 DEF ExitStep, StopStep

-----------------------------------------------------------------------------
(* Both together *)

\* Shutting the hub down and closing the listener are all that the runtime's own
\* tasks do to the requests.
LEMMA TasksPoll ==
    ASSUME PollInv,
           Start \/ Stop \/ StopCancelled \/ StartStep \/ HousekeeperStep \/ ExitStep \/ StopStep
             \/ WorkerUnsafe \/ WorkerStops \/ ProcessExits \/ \E t \in Tasks : TearDown(t)
    PROVE  PollInv'
<1>1. ASSUME UNCHANGED pollVars PROVE PollInv'
  BY <1>1 DEF pollVars, PollInv, PollTypes, Watched, PollOK, Past, Subscribed, Heard
<1>2. ASSUME Unwind PROVE PollInv'
  BY <1>2, HubShutdownInv DEF Unwind, Lowered
<1>3. ASSUME NEW t, Acts(t) PROVE PollInv'
  BY <1>3, HubShutdownInv DEF Acts
<1>4. ASSUME NEW t, Closing(t) PROVE PollInv'
  <2>1. CASE listener.close # "closed"
    BY <1>4, <2>1, CloseListenerInv DEF Closing
  <2>2. CASE listener.close = "closed"
    <3>1. UNCHANGED <<hub, source, listener, wire, polls, ready, budget>>
      BY <1>4, <2>2 DEF Closing
    <3> QED  BY <3>1 DEF PollInv, PollTypes, Watched, PollOK, Past, Subscribed, Heard
  <2> QED  BY <2>1, <2>2
<1>5. ASSUME Stop PROVE PollInv'
  BY <1>5, HubShutdownInv DEF Stop, Lowered
<1>6. ASSUME StartStep PROVE PollInv'
  BY <1>1, <1>2, <1>6 DEF StartStep, ReadMeta, StartupTick, WorkerStarts, WorkerStarted, WorkerRefuses,
                          Started, Unwound, StartFailed
<1>7. ASSUME HousekeeperStep PROVE PollInv'
  <2>1. CASE TickFatal
    BY <2>1, HubShutdownInv DEF TickFatal
  <2> QED  BY <1>1, <1>7, <2>1
           DEF HousekeeperStep, HousekeeperWakes, HousekeeperLeaves, HousekeeperEnds, Tick
<1>8. ASSUME ExitStep \/ StopStep PROVE PollInv'
  BY <1>1, <1>3, <1>8 DEF ExitStep, StopStep, MonitorActs, MonitorEnds, StopWorkerDone, Stopped,
                          StopReturns
<1>9. ASSUME NEW t \in Tasks, TearDown(t) PROVE PollInv'
  BY <1>1, <1>4, <1>9 DEF TearDown, Cleanup, Join, CloseResources, Prepared
<1>10. ASSUME Start \/ StopCancelled \/ WorkerUnsafe \/ WorkerStops \/ ProcessExits PROVE PollInv'
  BY <1>1, <1>10 DEF Start, StopCancelled, WorkerUnsafe, WorkerStops, ProcessExits
<1> QED  BY <1>5, <1>6, <1>7, <1>8, <1>9, <1>10

Inv == PollInv /\ RuntimeInv

LEMMA InitInv == Init => Inv
<1> SUFFICES ASSUME Init PROVE Inv
  OBVIOUS
<1>1. budget \in Traffics /\ budget.housekeeper \in BOOLEAN
  BY TrafficBounds DEF Init, PollInit, Traffics
<1>2. PollTypes
  <2>1. hub \in HubRow
    BY DEF Init, PollInit, NewHub, HubRow
  <2>2. source \in SourceRow
    BY DEF Init, PollInit, NewSource, SourceRow
  <2>3. listener \in ListenerRow
    BY DEF Init, PollInit, NewListener, ListenerRow, Monitors
  <2>4. polls \in [Polls -> PollRow]
    BY IdleRow DEF Init, PollInit
  <2>5. ready \in [Queues -> JobsRow]
    BY DEF Init, PollInit, JobsRow
  <2> QED  BY <1>1, <2>1, <2>2, <2>3, <2>4, <2>5 DEF PollTypes, Init, PollInit, Traffics
<1>3. Watched
  BY DEF Watched, Init, PollInit, NewListener
<1>4. ASSUME NEW p \in Polls PROVE PollOK(p)
  <2>1. polls[p] = Idle
    BY DEF Init, PollInit
  <2> QED  BY <2>1, IdleRow DEF PollOK, Past, Subscribed, Heard, Adding, Looping
<1>5. rt \in RuntimeRow
  BY <1>1 DEF Init, RuntimeInit, RuntimeRow, Housekeeps
<1>6. RuntimeInv
  BY <1>5 DEF Init, PollInit, RuntimeInit, NewHub, RuntimeInv, RuntimeTypes, Falling, Starting, LateTick,
              Tasks, WayDown, Places
<1> QED  BY <1>2, <1>3, <1>4, <1>6 DEF Inv, PollInv

LEMMA NextInv == Inv /\ [Next]_vars => Inv'
<1> SUFFICES ASSUME Inv, [Next]_vars PROVE Inv'
  OBVIOUS
<1>1. PollInv /\ RuntimeInv
  BY DEF Inv
<1>2. CASE PollNext /\ UNCHANGED rtVars
  BY <1>1, <1>2, PollNextInv, PollNextKeeps, Aside DEF rtVars, Inv
<1>3. CASE Serve
  <2>1. PICK p \in Polls, q \in Queues, w \in BOOLEAN : PollArrives(p, q, w) /\ UNCHANGED rtVars
    BY <1>3 DEF Serve
  <2>2. UNCHANGED <<hub, pool>>
    BY <2>1 DEF PollArrives
  <2> QED  BY <1>1, <2>1, <2>2, PollArrivesInv, Aside DEF rtVars, Inv
<1>4. CASE WorkerUnsafe \/ WorkerStops
  BY <1>1, <1>4, TasksPoll, Aside DEF WorkerUnsafe, WorkerStops, pollVars, Inv
<1>5. CASE Start \/ StartStep
  BY <1>1, <1>5, TasksPoll, StartRuntime DEF Inv
<1>6. CASE HousekeeperStep
  BY <1>1, <1>6, TasksPoll, HousekeeperRuntime DEF Inv
<1>7. CASE ExitStep \/ StopStep \/ Stop \/ StopCancelled \/ ProcessExits
  BY <1>1, <1>7, TasksPoll, ExitRuntime DEF Inv
<1>8. CASE \E t \in Tasks : TearDown(t)
  BY <1>1, <1>8, TasksPoll, TearDownRuntime DEF Inv
<1>9. CASE UNCHANGED vars
  <2>1. UNCHANGED pollVars /\ UNCHANGED rtVars
    BY <1>9 DEF vars
  <2>2. PollInv'
    BY <1>1, <2>1 DEF pollVars, PollInv, PollTypes, Watched, PollOK, Past, Subscribed, Heard
  <2> QED  BY <1>1, <2>1, <2>2, Aside DEF pollVars, rtVars, Inv
<1> QED  BY <1>2, <1>3, <1>4, <1>5, <1>6, <1>7, <1>8, <1>9 DEF Next

LEMMA Invariant == Spec => []Inv
BY InitInv, NextInv, PTL DEF Spec

\* TaskqLongPoll.NoLostWakeup: a claim request never sleeps with its event unset
\* beside a job that was announced while the process listened, unless the hint
\* is still on its way, and nobody sleeps through the shutdown of the hub.
THEOREM WakeupsAreKept == Spec => []NoLostWakeup
<1>1. Inv => NoLostWakeup
  <2> SUFFICES ASSUME Inv PROVE NoLostWakeup
    OBVIOUS
  <2>1. \A p \in Polls : PollOK(p) /\ Heard(p)
    BY DEF Inv, PollInv, PollOK
  <2> QED  BY <2>1 DEF NoLostWakeup, Heard, PollOK, Subscribed
<1> QED  BY <1>1, Invariant, PTL

\* TaskqRuntime.ReadyHonest: a runtime that reports ready has not begun its way
\* down, its hub takes waits and its transports are open.
THEOREM ReadyIsHonest == Spec => []ReadyHonest
<1>1. Inv => ReadyHonest
  BY DEF Inv, RuntimeInv, Falling, ReadyHonest, Ready
<1> QED  BY <1>1, Invariant, PTL

-----------------------------------------------------------------------------
(* The HTTP path *)

\* The constants the job tables are used with are those of Db in TaskqHttp.
JP == INSTANCE TaskqJobsProofs WITH
        Workers <- {Worker}, ConcKeys <- {}, Workflows <- Steps, Budgets <- {2},
        Caps <- {}, Ttls <- {"none"}, PoisonLimit <- 3

----------------------------------------------------------------------------
(* The job tables *)

\* What the lemmas of TaskqJobsProofs assume of their constants.
LEMMA TableConstants ==
    /\ None \notin Jobs \cup Attempts \cup {Worker} \cup IdemKeys \cup {} \cup Steps
    /\ {2} \subseteq Nat \ {0} /\ {} \subseteq Nat /\ {"none"} \subseteq {"none", "live"}
    /\ 3 \in Nat \ {0}
    /\ JP!IsFiniteSet(Jobs) /\ JP!IsFiniteSet(Attempts)
    /\ None \notin JP!Outcomes \cup JP!Verbs \cup {"reap"}
<1>1. JP!IsFiniteSet(Jobs) /\ JP!IsFiniteSet(Attempts)
  BY HttpAssumption DEF JP!IsFiniteSet, IsFiniteSet
<1>2. None \notin JP!Outcomes \cup JP!Verbs \cup {"reap"}
  BY HttpNullAssumption DEF Db!Outcomes, Db!Verbs, JP!Outcomes, JP!Verbs
<1> QED  BY <1>1, <1>2, HttpAssumption

LEMMA TableFence ==
    ASSUME NEW a PROVE Db!Fenced(a) <=> JP!Fenced(a)
BY DEF Db!Fenced, JP!Fenced

LEMMA TableEnqueue ==
    ASSUME NEW j, NEW k, NEW s, Db!enqueue(j, k, None, s, {}, TRUE, "none", 2)
    PROVE  JP!enqueue(j, k, None, s, {}, TRUE, "none", 2)
BY DEF Db!enqueue, JP!enqueue, Db!KeyHeld, JP!KeyHeld, Db!NewJob, JP!NewJob, Db!NoJob, JP!NoJob,
       Db!Active, JP!Active, Db!Cardinality, JP!Cardinality

LEMMA TableComplete ==
    ASSUME NEW a, Db!complete_job(a, {}, {}, FALSE, 2) PROVE JP!complete_job(a, {}, {}, FALSE, 2)
BY DEF Db!complete_job, JP!complete_job, Db!Fenced, JP!Fenced, Db!Dependents, JP!Dependents,
       Db!Promoted, JP!Promoted, Db!Finished, JP!Finished, Db!Detached, JP!Detached, Db!Unstreaked,
       JP!Unstreaked, Db!NewJob, JP!NewJob, Db!NoJob, JP!NoJob

LEMMA TableRows ==
    ASSUME NEW r
    PROVE  /\ Db!Detached(r) = JP!Detached(r) /\ Db!Reaped(r) = JP!Reaped(r)
           /\ \A s, o, f : Db!Finished(r, s, o, f) = JP!Finished(r, s, o, f)
           /\ \A d : Db!Requeued(r, d) = JP!Requeued(r, d)
           /\ \A d : Db!Unstreaked(r, d) = JP!Unstreaked(r, d)
           /\ \A d : Db!Redriven(r, d) = JP!Redriven(r, d)
           /\ \A n : Db!Charged(r, n) = JP!Charged(r, n)
           /\ \A f : Db!CancelledBy(r, f) = JP!CancelledBy(r, f)
           /\ \A w : Db!CancelledWaiting(r, w) = JP!CancelledWaiting(r, w)
           /\ \A a, w : Db!Claimed(r, a, w) = JP!Claimed(r, a, w)
BY DEF Db!Detached, JP!Detached, Db!Finished, JP!Finished, Db!Requeued, JP!Requeued, Db!Unstreaked,
       JP!Unstreaked, Db!Charged, JP!Charged, Db!CancelledBy, JP!CancelledBy, Db!Reaped, JP!Reaped,
       Db!Redriven, JP!Redriven, Db!CancelledWaiting, JP!CancelledWaiting, Db!Claimed, JP!Claimed

LEMMA TableCascade ==
    /\ \A upd, K : Db!Cascaded(upd, K) = JP!Cascaded(upd, K)
    /\ \A upd : Db!Casualties(upd) = JP!Casualties(upd)
    /\ \A K : Db!Unlinked(K) = JP!Unlinked(K)
BY DEF Db!Cascaded, JP!Cascaded, Db!DepCancelled, JP!DepCancelled, Db!Casualties, JP!Casualties,
       Db!Dependents, JP!Dependents, Db!Unlinked, JP!Unlinked

LEMMA TableSettle ==
    ASSUME NEW a, NEW v, NEW s, NEW row, Db!Settle(a, v, s, row) PROVE JP!Settle(a, v, s, row)
BY TableCascade DEF Db!Settle, JP!Settle

LEMMA TableVerbs ==
    ASSUME NEW a, NEW due
    PROVE  /\ \A retryable : Db!fail_job(a, retryable, due) => JP!fail_job(a, retryable, due)
           /\ Db!snooze_job(a, due) => JP!snooze_job(a, due)
           /\ Db!release_job(a, due) => JP!release_job(a, due)
           /\ Db!cancel_running_job(a) => JP!cancel_running_job(a)
           /\ Db!heartbeat(a) => JP!heartbeat(a)
<1>1. ASSUME NEW retryable, Db!fail_job(a, retryable, due) PROVE JP!fail_job(a, retryable, due)
  BY <1>1, TableFence, TableSettle, TableRows DEF Db!fail_job, JP!fail_job
<1>2. ASSUME Db!snooze_job(a, due) PROVE JP!snooze_job(a, due)
  BY <1>2, TableFence, TableSettle, TableRows DEF Db!snooze_job, JP!snooze_job
<1>3. ASSUME Db!release_job(a, due) PROVE JP!release_job(a, due)
  BY <1>3, TableFence, TableSettle, TableRows DEF Db!release_job, JP!release_job
<1>4. ASSUME Db!cancel_running_job(a) PROVE JP!cancel_running_job(a)
  BY <1>4, TableFence, TableSettle, TableRows DEF Db!cancel_running_job, JP!cancel_running_job
<1>5. ASSUME Db!heartbeat(a) PROVE JP!heartbeat(a)
  BY <1>5, TableFence DEF Db!heartbeat, JP!heartbeat
<1> QED  BY <1>1, <1>2, <1>3, <1>4, <1>5

LEMMA TableReap ==
    ASSUME NEW S, Db!Reap(S) PROVE JP!Reap(S)
<1>1. [i \in S |-> Db!Reaped(jobs[i])] = [i \in S |-> JP!Reaped(jobs[i])]
  BY TableRows
<1> QED  BY <1>1, TableCascade DEF Db!Reap, JP!Reap

LEMMA TableCancel ==
    ASSUME NEW S, NEW why, NEW U, Db!CancelWaiting(S, why, U) PROVE JP!CancelWaiting(S, why, U)
<1>1. [i \in S |-> Db!CancelledWaiting(jobs[i], why)]
        = [i \in S |-> JP!CancelledWaiting(jobs[i], why)]
  BY TableRows
<1> QED  BY <1>1, TableCascade DEF Db!CancelWaiting, JP!CancelWaiting

LEMMA TableOperators ==
    ASSUME NEW j
    PROVE  /\ Db!expire_job(j) => JP!expire_job(j)
           /\ Db!cancel_job(j) => JP!cancel_job(j)
           /\ Db!run_now(j) => JP!run_now(j)
           /\ Db!redrive_job(j, TRUE) => JP!redrive_job(j, TRUE)
           /\ Db!janitor({j}) => JP!janitor({j})
           /\ Db!expire_worker_leases(j) => JP!expire_worker_leases(j)
           /\ Db!purge_queued(j) => JP!purge_queued(j)
<1>1. Db!expire_job(j) => JP!expire_job(j)
  BY TableReap DEF Db!expire_job, JP!expire_job
<1>2. Db!cancel_job(j) => JP!cancel_job(j)
  BY TableCancel DEF Db!cancel_job, JP!cancel_job
<1>3. Db!run_now(j) => JP!run_now(j)
  BY DEF Db!run_now, JP!run_now
<1>4. Db!redrive_job(j, TRUE) => JP!redrive_job(j, TRUE)
  BY TableRows DEF Db!redrive_job, JP!redrive_job, Db!KeyHeld, JP!KeyHeld, Db!Active, JP!Active
<1>5. Db!janitor({j}) => JP!janitor({j})
  BY TableCascade DEF Db!janitor, JP!janitor, Db!NoJob, JP!NoJob, Db!NoAttempt, JP!NoAttempt
<1>6. Db!expire_worker_leases(j) => JP!expire_worker_leases(j)
  BY TableReap DEF Db!expire_worker_leases, JP!expire_worker_leases
<1>7. Db!purge_queued(j) => JP!purge_queued(j)
  BY TableCancel DEF Db!purge_queued, JP!purge_queued
<1> QED  BY <1>1, <1>2, <1>3, <1>4, <1>5, <1>6, <1>7
----------------------------------------------------------------------------
(* What a step does to the job tables *)

TablesOK == JP!Inv /\ JP!DepInv /\ JP!OneActivePerKey

\* A row or an attempt that exists goes on existing or is deleted, under the key
\* and step it has, and no attempt gets its job back.
TablesMove ==
    /\ \A j \in Jobs : jobs[j].status # "absent" =>
          /\ jobs'[j].status # "absent"
          /\ jobs[j].status = "deleted" => jobs'[j].status = "deleted"
          /\ \/ jobs'[j].status = "deleted"
             \/ jobs'[j].idem = jobs[j].idem /\ jobs'[j].wf = jobs[j].wf
    /\ \A a \in Attempts : attempts[a].status # "absent" =>
          attempts'[a].status # "absent" /\ (JP!Fenced(a)' => JP!Fenced(a))

\* A fenced attempt is running, and a running attempt is fenced.
LEMMA FencedRuns ==
    JP!Inv => \A a \in Attempts : JP!Fenced(a) <=> attempts[a].status = "running"
<1> SUFFICES ASSUME JP!Inv, NEW a \in Attempts
             PROVE  JP!Fenced(a) <=> attempts[a].status = "running"
  OBVIOUS
<1> DEFINE j == attempts[a].job
<1>1. ASSUME JP!Fenced(a) PROVE attempts[a].status = "running"
  <2>1. j \in Jobs /\ jobs[j].status = "running" /\ jobs[j].att = a
    BY <1>1 DEF JP!Fenced, JP!Inv, JP!Current
  <2>2. attempts[a] = [status |-> "running", job |-> j, worker |-> jobs[j].worker]
    BY <2>1 DEF JP!Inv, JP!RunsUnder
  <2> QED  BY <2>2
<1>2. ASSUME attempts[a].status = "running" PROVE JP!Fenced(a)
  <2>1. j \in Jobs /\ jobs[j].att = a
    BY <1>2 DEF JP!Inv, JP!Current
  <2>2. jobs[j].status = "running"
    BY <2>1, HttpAssumption DEF JP!Inv, JP!RowOK, JP!Free
  <2> QED  BY <1>2, <2>1, <2>2 DEF JP!Fenced
<1> QED  BY <1>1, <1>2

LEMMA FencedRunsNext ==
    ASSUME JP!Inv'
    PROVE  \A a \in Attempts : JP!Fenced(a)' <=> attempts'[a].status = "running"
<1>1. (JP!Inv => \A a \in Attempts : JP!Fenced(a) <=> attempts[a].status = "running")'
  BY FencedRuns, PTL
<1> QED  BY <1>1

LEMMA MovesWithSteps ==
    ASSUME JP!Inv, JP!Inv', JP!Steps
    PROVE  TablesMove
<1>1. ASSUME NEW j \in Jobs, jobs[j].status # "absent"
      PROVE  /\ jobs'[j].status # "absent"
             /\ jobs[j].status = "deleted" => jobs'[j].status = "deleted"
             /\ \/ jobs'[j].status = "deleted"
                \/ jobs'[j].idem = jobs[j].idem /\ jobs'[j].wf = jobs[j].wf
  <2>1. JP!RowStep(jobs[j], jobs'[j])
    BY DEF JP!Steps
  <2> QED  BY <1>1, <2>1 DEF JP!RowStep, JP!StatusStep, JP!Terminal
<1>2. ASSUME NEW a \in Attempts, attempts[a].status # "absent"
      PROVE  attempts'[a].status # "absent" /\ (JP!Fenced(a)' => JP!Fenced(a))
  <2>1. JP!AttemptStep(attempts[a], attempts'[a])
    BY DEF JP!Steps
  <2>2. JP!Fenced(a)' <=> attempts'[a].status = "running"
    BY FencedRunsNext
  <2> QED  BY <1>2, <2>1, <2>2, FencedRuns DEF JP!AttemptStep
<1> QED  BY <1>1, <1>2 DEF TablesMove

LEMMA TablesStay ==
    ASSUME TablesOK, UNCHANGED dbVars PROVE TablesOK' /\ TablesMove
<1>1. TablesOK'
  <2>1. JP!vars' = JP!vars
    BY DEF dbVars, JP!vars
  <2> QED  BY <2>1, TableConstants, JP!NextInv, JP!GraphInv DEF TablesOK
<1>2. jobs' = jobs /\ attempts' = attempts
  BY DEF dbVars
<1> QED  BY <1>1, <1>2 DEF TablesMove, JP!Fenced

LEMMA TablesNext ==
    ASSUME TablesOK, JP!Next PROVE TablesOK' /\ TablesMove
<1>1. JP!Inv' /\ (JP!Steps \/ UNCHANGED JP!vars)
  BY TableConstants, JP!NextInv DEF TablesOK
<1>2. JP!DepInv' /\ JP!OneActivePerKey'
  BY TableConstants, JP!GraphInv DEF TablesOK
<1>3. CASE JP!Steps
  BY <1>1, <1>2, <1>3, MovesWithSteps DEF TablesOK
<1>4. CASE UNCHANGED JP!vars
  BY <1>4, TablesStay DEF JP!vars, dbVars
<1> QED  BY <1>1, <1>3, <1>4

LEMMA TablesEnqueue ==
    ASSUME TablesOK, NEW j \in Jobs, NEW k \in IdemKeys \cup {None},
           NEW s \in Steps \cup {None}, Db!enqueue(j, k, None, s, {}, TRUE, "none", 2)
    PROVE  /\ TablesOK' /\ TablesMove
           /\ jobs[j].status = "absent" /\ jobs'[j].status = "queued"
           /\ jobs'[j].idem = k /\ jobs'[j].wf = s
<1>1. JP!enqueue(j, k, None, s, {}, TRUE, "none", 2)
  BY TableEnqueue
<1>2. JP!Next
  BY <1>1 DEF JP!Next, JP!Producer
<1>3. jobs[j].status = "absent" /\ jobs \in [Jobs -> JP!JobRow]
  BY <1>1 DEF JP!enqueue, TablesOK, JP!Inv, JP!TypeOK
<1>4. jobs' = [jobs EXCEPT ![j] = JP!NewJob("queued", k, None, s, None,
                                             JP!Cardinality({}), TRUE, "none", 2)]
  <2> DEFINE live == {d \in {} : jobs[d].status # "succeeded"}
  <2>1. live = {}
    OBVIOUS
  <2> QED  BY <1>1, <2>1 DEF JP!enqueue
<1> DEFINE n == JP!Cardinality({})
           e == JP!NewJob("queued", k, None, s, None, n, TRUE, "none", 2)
<1>5. e.status = "queued" /\ e.idem = k /\ e.wf = s
  <2> HIDE DEF n
  <2> QED  BY DEF JP!NewJob, JP!NoJob
<1>6. jobs'[j] = e
  BY <1>3, <1>4
<1> QED  BY <1>2, <1>3, <1>5, <1>6, TablesNext

\* The calls for an attempt.
LEMMA TablesRunner ==
    ASSUME TablesOK, NEW a \in Attempts,
           \/ Db!complete_job(a, {}, {}, FALSE, 2)
           \/ \E again \in BOOLEAN : Db!fail_job(a, again, TRUE)
           \/ Db!snooze_job(a, TRUE) \/ Db!release_job(a, TRUE)
           \/ Db!cancel_running_job(a) \/ Db!heartbeat(a)
    PROVE  TablesOK' /\ TablesMove
<1>1. \/ JP!complete_job(a, {}, {}, FALSE, 2)
      \/ \E again \in BOOLEAN : JP!fail_job(a, again, TRUE)
      \/ JP!snooze_job(a, TRUE) \/ JP!release_job(a, TRUE)
      \/ JP!cancel_running_job(a) \/ JP!heartbeat(a)
  BY TableComplete, TableVerbs
<1>2. JP!Runner
  <2>1. CASE JP!complete_job(a, {}, {}, FALSE, 2)
    <3>1. {} \in SUBSET Jobs /\ FALSE \in BOOLEAN /\ 2 \in {2}
      OBVIOUS
    <3>2. \E due \in BOOLEAN, max \in {2} : JP!complete_job(a, {}, {}, due, max)
      BY <2>1, <3>1
    <3>3. \E F \in SUBSET Jobs : \E M \in SUBSET F, due \in BOOLEAN, max \in {2} :
             JP!complete_job(a, F, M, due, max)
      BY <3>1, <3>2
    <3> QED  BY <3>3 DEF JP!Runner
  <2>2. CASE \E again \in BOOLEAN : JP!fail_job(a, again, TRUE)
    BY <2>2 DEF JP!Runner
  <2>3. CASE JP!snooze_job(a, TRUE) \/ JP!release_job(a, TRUE)
    BY <2>3 DEF JP!Runner
  <2>4. CASE JP!cancel_running_job(a) \/ JP!heartbeat(a)
    BY <2>4 DEF JP!Runner
  <2> QED  BY <1>1, <2>1, <2>2, <2>3, <2>4
<1> QED  BY <1>2, TablesNext DEF JP!Next

\* The calls for a job, or for all of them.
LEMMA TablesOperator ==
    ASSUME TablesOK,
           \/ \E j \in Jobs : \/ Db!expire_job(j) \/ Db!cancel_job(j) \/ Db!run_now(j)
                              \/ Db!redrive_job(j, TRUE) \/ Db!janitor({j})
           \/ Db!expire_worker_leases(Worker)
           \/ \E S \in SUBSET Jobs : Db!purge_queued(S)
    PROVE  TablesOK' /\ TablesMove
<1>1. ASSUME NEW j \in Jobs,
             Db!expire_job(j) \/ Db!cancel_job(j) \/ Db!run_now(j) \/ Db!redrive_job(j, TRUE)
      PROVE  JP!Operator
  <2>1. JP!expire_job(j) \/ JP!cancel_job(j) \/ JP!run_now(j) \/ JP!redrive_job(j, TRUE)
    BY <1>1, TableOperators
  <2> QED  BY <2>1 DEF JP!Operator
<1>2. ASSUME NEW j \in Jobs, Db!janitor({j}) PROVE JP!Housekeeper
  BY <1>2, TableOperators DEF JP!Housekeeper
<1>3. ASSUME Db!expire_worker_leases(Worker) PROVE JP!Operator
  BY <1>3, TableOperators DEF JP!Operator
<1>4. ASSUME NEW S \in SUBSET Jobs, Db!purge_queued(S) PROVE JP!Operator
  BY <1>4, TableOperators DEF JP!Operator
<1>5. JP!Next
  BY <1>1, <1>2, <1>3, <1>4 DEF JP!Next
<1> QED  BY <1>5, TablesNext

\* A claim of a batch.
LEMMA TablesClaim ==
    ASSUME TablesOK, NEW S \in SUBSET Claimable,
           NEW f \in [S -> {a \in Attempts : attempts[a].status = "absent"}],
           \A i, j \in S : f[i] = f[j] => i = j,
           jobs' = [j \in Jobs |-> IF j \in S THEN Db!Claimed(jobs[j], f[j], Worker) ELSE jobs[j]],
           attempts' = [a \in Attempts |->
              IF \E j \in S : f[j] = a
                THEN [status |-> "running", job |-> CHOOSE j \in S : f[j] = a, worker |-> Worker]
                ELSE attempts[a]],
           UNCHANGED <<deps, limits, settledBy, needs>>
    PROVE  /\ TablesOK' /\ TablesMove
           /\ \A j \in S : f[j] \in Attempts /\ attempts'[f[j]].status = "running"
<1>1. /\ S \in SUBSET Jobs /\ f \in [S -> Attempts] /\ Worker \in {Worker}
      /\ \A j \in S : jobs[j].status = "queued" /\ attempts[f[j]].status = "absent"
  BY DEF Claimable
<1>2. jobs' = [j \in Jobs |-> IF j \in S THEN JP!Claimed(jobs[j], f[j], Worker) ELSE jobs[j]]
  BY DEF Db!Claimed, JP!Claimed
<1>3. JP!ClaimsBatch(S, f, Worker)
  BY <1>1, <1>2 DEF JP!ClaimsBatch
<1>4. /\ JP!Inv' /\ JP!Steps
      /\ \A j \in S : jobs'[j].status = "running" /\ attempts'[f[j]].status = "running"
  BY <1>1, <1>3, TableConstants, JP!ClaimBatchStep DEF TablesOK
<1>5. \A j \in S : jobs[j].status = "queued" /\ jobs'[j].status = "running"
  BY <1>1, <1>4
<1>6. \A j \in Jobs \ S : jobs'[j] = jobs[j]
  BY <1>2
<1>7. JP!DepInv'
  <2> SUFFICES ASSUME NEW j \in Jobs PROVE JP!DepOK(j)'
    BY DEF JP!DepInv
  <2>1. JP!DepOK(j)
    BY DEF TablesOK, JP!DepInv
  <2>2. \A p \in needs[j] : jobs[p].status \in JP!Met => jobs'[p].status \in JP!Met
    <3>1. needs[j] \subseteq Jobs
      BY DEF TablesOK, JP!Inv, JP!TypeOK
    <3> QED  BY <1>5, <1>6, <3>1 DEF JP!Met
  <2>3. JP!EdgesOf(j)' = JP!EdgesOf(j)
    BY DEF JP!EdgesOf
  <2>4. CASE j \in S
    BY <1>5, <2>1, <2>2, <2>3, <2>4 DEF JP!DepOK, JP!Started
  <2>5. CASE j \notin S
    BY <1>6, <2>1, <2>2, <2>3, <2>5 DEF JP!DepOK, JP!Started
  <2> QED  BY <2>4, <2>5
<1>8. JP!OneActivePerKey'
  <2>1. JP!Starts
    BY <1>5, <1>6 DEF JP!Starts, JP!Active
  <2> QED  BY <1>4, <2>1, TableConstants, JP!KeyStep DEF TablesOK
<1> QED  BY <1>1, <1>4, <1>7, <1>8, MovesWithSteps DEF TablesOK

----------------------------------------------------------------------------
(* The routes the properties speak of *)

LEMMA JoinedDomain ==
    ASSUME NEW f, NEW g PROVE DOMAIN Joined(f, g) = DOMAIN f \cup DOMAIN g
BY DEF Joined

LEMMA JoinedFirst ==
    ASSUME NEW f, NEW g, NEW c \in DOMAIN f PROVE Joined(f, g)[c] = f[c]
BY DEF Joined

LEMMA JoinedSecond ==
    ASSUME NEW f, NEW g, NEW c \in DOMAIN g, c \notin DOMAIN f PROVE Joined(f, g)[c] = g[c]
BY DEF Joined

LEMMA RouteTables ==
    /\ "ENQUEUE" \in DOMAIN ProducerRoutes /\ "ENQUEUE_MANY" \in DOMAIN ProducerRoutes
    /\ \A c \in {"CLAIM", "CANCEL", "REDRIVE", "EXPIRE_JOB", "RUN_NOW"} :
          c \notin DOMAIN ProducerRoutes /\ c \notin DOMAIN PlanRoutes
    /\ "CLAIM" \in DOMAIN RunnerRoutes
    /\ \A c \in {"CANCEL", "REDRIVE", "EXPIRE_JOB", "RUN_NOW"} :
          /\ c \notin DOMAIN RunnerRoutes /\ c \notin DOMAIN ReadRoutes
          /\ c \notin DOMAIN PageRoutes /\ c \in DOMAIN OperatorRoutes
<1>1. DOMAIN ProducerRoutes = {"META", "TARGET", "SCHEDULER_HEALTH", "ENSURE_QUEUE", "ENQUEUE",
        "ENQUEUE_MANY", "RESERVE_ADMISSION", "FINISH_ADMISSION", "CANCEL_ADMISSION"}
  BY DEF ProducerRoutes
<1>2. DOMAIN PlanRoutes = {"CREATE_WORKFLOW", "SEAL_WORKFLOW", "CANCEL_WORKFLOW",
        "GET_WORKFLOW_PAGE", "LIST_WORKFLOWS", "GET_SCHEDULE", "LIST_SCHEDULES", "PUT_SCHEDULE",
        "RETIRE_SCHEDULE"}
  BY DEF PlanRoutes
<1>3. DOMAIN RunnerRoutes = {"CLAIM", "HEARTBEAT", "COMPLETE", "FAIL", "RELEASE", "SNOOZE",
        "CANCEL_RUNNING", "WORKER_HEARTBEAT"}
  BY DEF RunnerRoutes
<1>4. DOMAIN ReadRoutes = {"GET_JOB", "LIST_JOB_EVENTS", "GET_QUEUE_STATS", "LIST_QUEUE_STATS",
        "METRICS"}
  BY DEF ReadRoutes
<1>5. DOMAIN PageRoutes = {"LIST_WORKERS", "GET_QUEUE", "LIST_JOBS"}
  BY DEF PageRoutes
<1>6. DOMAIN OperatorRoutes = {"PAUSE_QUEUE", "RESUME_QUEUE", "CANCEL", "REDRIVE", "EXPIRE_JOB",
        "EXPIRE_WORKER_LEASES", "PURGE_QUEUED", "RUN_NOW", "REPRIORITIZE",
        "SET_CONCURRENCY_LIMIT", "REQUEST_WORKER_SHUTDOWN"}
  BY DEF OperatorRoutes
<1> QED  BY <1>1, <1>2, <1>3, <1>4, <1>5, <1>6

\* A claim is never sent again, an enqueue only with a key, and a job command
\* names its job.
LEMMA RouteFacts ==
    /\ Routes["CLAIM"].retry = "never"
    /\ Routes["ENQUEUE"].retry = "keyed_enqueue" /\ Routes["ENQUEUE_MANY"].retry = "keyed_batch"
    /\ \A c \in {"CANCEL", "REDRIVE", "EXPIRE_JOB", "RUN_NOW"} : Routes[c].source = "job"
<1> DEFINE work  == Joined(ProducerRoutes, PlanRoutes)
           pages == Joined(PageRoutes, OperatorRoutes)
           reads == Joined(ReadRoutes, pages)
           rest  == Joined(RunnerRoutes, reads)
<1>0. Routes = Joined(work, rest)
  BY DEF Routes
<1>1. DOMAIN work = DOMAIN ProducerRoutes \cup DOMAIN PlanRoutes
  BY JoinedDomain, JoinedFirst, JoinedSecond
<1>2. work["ENQUEUE"] = ProducerRoutes["ENQUEUE"]
      /\ work["ENQUEUE_MANY"] = ProducerRoutes["ENQUEUE_MANY"]
  BY JoinedDomain, JoinedFirst, JoinedSecond, RouteTables
<1>3. DOMAIN rest = DOMAIN RunnerRoutes \cup DOMAIN reads
      /\ rest["CLAIM"] = RunnerRoutes["CLAIM"]
  <2>1. DOMAIN rest = DOMAIN RunnerRoutes \cup DOMAIN reads
    BY JoinedDomain
  <2>2. "CLAIM" \in DOMAIN RunnerRoutes
    BY RouteTables
  <2>3. rest["CLAIM"] = RunnerRoutes["CLAIM"]
    BY <2>2, JoinedFirst
  <2> QED  BY <2>1, <2>3
<1>4. DOMAIN pages = DOMAIN PageRoutes \cup DOMAIN OperatorRoutes
      /\ \A c \in {"CANCEL", "REDRIVE", "EXPIRE_JOB", "RUN_NOW"} : pages[c] = OperatorRoutes[c]
  <2>1. ASSUME NEW c \in {"CANCEL", "REDRIVE", "EXPIRE_JOB", "RUN_NOW"}
        PROVE  pages[c] = OperatorRoutes[c]
    <3>1. c \in DOMAIN OperatorRoutes /\ c \notin DOMAIN PageRoutes
      BY RouteTables
    <3> QED  BY <3>1, JoinedSecond
  <2> QED  BY <2>1, JoinedDomain
<1> HIDE DEF pages
<1>5. DOMAIN reads = DOMAIN ReadRoutes \cup DOMAIN pages
      /\ \A c \in {"CANCEL", "REDRIVE", "EXPIRE_JOB", "RUN_NOW"} : reads[c] = pages[c]
  <2>1. ASSUME NEW c \in {"CANCEL", "REDRIVE", "EXPIRE_JOB", "RUN_NOW"} PROVE reads[c] = pages[c]
    <3>1. c \in DOMAIN pages /\ c \notin DOMAIN ReadRoutes
      BY <1>4, RouteTables
    <3> QED  BY <3>1, JoinedSecond
  <2> QED  BY <2>1, JoinedDomain
<1> HIDE DEF reads
<1>6. \A c \in {"CANCEL", "REDRIVE", "EXPIRE_JOB", "RUN_NOW"} : rest[c] = reads[c]
  BY <1>4, <1>5, JoinedDomain, JoinedFirst, JoinedSecond, RouteTables
<1> HIDE DEF work, rest
<1>7. /\ Routes["ENQUEUE"] = ProducerRoutes["ENQUEUE"]
      /\ Routes["ENQUEUE_MANY"] = ProducerRoutes["ENQUEUE_MANY"]
  BY <1>0, <1>1, <1>2, JoinedDomain, JoinedFirst, JoinedSecond, RouteTables
<1>8. /\ Routes["CLAIM"] = RunnerRoutes["CLAIM"]
      /\ \A c \in {"CANCEL", "REDRIVE", "EXPIRE_JOB", "RUN_NOW"} : Routes[c] = OperatorRoutes[c]
  BY <1>0, <1>1, <1>3, <1>4, <1>5, <1>6, JoinedDomain, JoinedFirst, JoinedSecond, RouteTables
<1>9. ProducerRoutes["ENQUEUE"].retry = "keyed_enqueue"
      /\ ProducerRoutes["ENQUEUE_MANY"].retry = "keyed_batch"
  BY DEF ProducerRoutes, Route
<1>10. RunnerRoutes["CLAIM"].retry = "never"
  BY DEF RunnerRoutes, Route
<1>11. \A c \in {"CANCEL", "REDRIVE", "EXPIRE_JOB", "RUN_NOW"} : OperatorRoutes[c].source = "job"
  BY DEF OperatorRoutes, Route
<1> QED  BY <1>7, <1>8, <1>9, <1>10, <1>11

----------------------------------------------------------------------------
(* The inductive invariant *)

Enqueues    == {"ENQUEUE", "ENQUEUE_MANY"}
AttemptCmds == Settlements \cup {"HEARTBEAT"}
JobCmds     == {"CANCEL", "REDRIVE", "EXPIRE_JOB", "RUN_NOW"}
Reqs        == Calls \X Tries

IsCall(e) ==
    e = [pc |-> e.pc, client |-> e.client, goal |-> e.goal, cmd |-> e.cmd, target |-> e.target,
         key |-> e.key, n |-> e.n, answer |-> e.answer]

IsReq(q) == q = [st |-> q.st, got |-> q.got, todo |-> q.todo, ans |-> q.ans]

Shape ==
    /\ calls = [c \in Calls |-> calls[c]] /\ \A c \in Calls : IsCall(calls[c])
    /\ reqs = [r \in Reqs |-> reqs[r]] /\ \A r \in Reqs : IsReq(reqs[r])

\* What the client may not send twice stays at its first try.
Once(e) == e.cmd = "CLAIM" \/ (e.cmd \in Enqueues /\ e.key = None)

\* What a call e asks for.
CallOK(e) ==
    /\ e.n \in Tries
    /\ e.pc \in {"idle", "starting"} => e.n = 0
    /\ e.cmd \in {e.goal, "META"}
    /\ e.goal \in AttemptCmds => e.target \in Attempts
    /\ e.goal \in JobCmds => e.target \in Jobs
    /\ e.key \in IdemKeys \cup Steps \cup {None}
    /\ Once(e) => e.n = 0

\* Requests come from tries that were sent.
Sent(r) ==
    LET e == calls[r[1]] IN
    reqs[r].st # "none" => r[2] < e.n \/ (r[2] = e.n /\ e.pc \in {"waiting", "done"})

\* Only a claim that was granted has a batch.
Batch(r) ==
    LET q == reqs[r] IN
    /\ q.got \subseteq Attempts /\ q.todo \subseteq q.got
    /\ q.got # {} => calls[r[1]].cmd = "CLAIM"
    /\ q.st \in {"none", "sent", "admitted"} => q.got = {}
    /\ \A a \in q.got : attempts[a].status # "absent"

\* The attempts of a request whose hand-back is over.
Over(q) ==
    CASE q.st = "releasing"                       -> q.got \ q.todo
      [] q.st = "answered" /\ q.ans # "claimed"   -> q.got
      [] OTHER                                    -> {}

Returned(r) == \A a \in Over(reqs[r]) : JP!Fenced(a) => a \in stuck

ReqOK(r) == Sent(r) /\ Batch(r) /\ Returned(r)

\* Where a row an enqueue call created is now, and what the call may still do.
MadeOK(p) ==
    LET e == calls[p[1]] IN
    /\ p \in Calls \X Jobs
    /\ e.cmd \in Enqueues /\ e.pc \notin {"idle", "starting"}
    /\ jobs[p[2]].status # "absent"
    /\ \/ jobs[p[2]].status = "deleted"
       \/ jobs[p[2]].idem = IdemOf(e.key) /\ jobs[p[2]].wf = StepOf(e.key)
    /\ e.key = None => reqs[<<p[1], 0>>].st = "answered"

\* Without a key a call creates one row.
SingleRow == \A p, q \in made : p[1] = q[1] /\ calls[p[1]].key = None => p = q

\* With a step a call has one row that is not deleted.
SingleStep ==
    \A p, q \in made :
       p[1] = q[1] /\ p[2] # q[2] /\ calls[p[1]].key \in Steps =>
          "deleted" \in {jobs[p[2]].status, jobs[q[2]].status}

HttpInv ==
    /\ TablesOK /\ Shape
    /\ \A c \in Calls : CallOK(calls[c])
    /\ \A r \in Reqs : ReqOK(r)
    /\ \A p \in made : MadeOK(p)
    /\ SingleRow /\ SingleStep

LEMMA TriesFacts ==
    /\ 0 \in Tries /\ Tries \subseteq Nat
    /\ \A n \in Tries : n < MaxRetries => n + 1 \in Tries
    /\ \A r \in Reqs : r[1] \in Calls /\ r[2] \in Tries /\ r = <<r[1], r[2]>>
    /\ \A c \in Calls, n \in Tries : <<c, n>> \in Reqs
BY HttpAssumption DEF Tries, Reqs

----------------------------------------------------------------------------
(* The client *)

\* A step of call c: other calls and their requests stay as they are, and so do
\* the tables.
ClientFrame(c) ==
    /\ calls' = [d \in Calls |-> calls'[d]] /\ IsCall(calls'[c])
    /\ reqs' = [r \in Reqs |-> reqs'[r]] /\ \A r \in Reqs : IsReq(reqs'[r])
    /\ \A d \in Calls : d # c => calls'[d] = calls[d]
    /\ \A r \in Reqs : r[1] # c => reqs'[r] = reqs[r]
    /\ UNCHANGED <<dbVars, made, stuck>>

LEMMA ClientKeeps ==
    ASSUME HttpInv, NEW c \in Calls, ClientFrame(c), CallOK(calls'[c]),
           \A r \in Reqs : r[1] = c => ReqOK(r)',
           \A p \in made : p[1] = c => MadeOK(p)' /\ calls'[c].key = calls[c].key
    PROVE  HttpInv'
<1>1. TablesOK' /\ jobs' = jobs /\ attempts' = attempts /\ made' = made /\ stuck' = stuck
  BY TablesStay DEF HttpInv, ClientFrame, dbVars
<1>2. Shape'
  BY DEF HttpInv, Shape, ClientFrame
<1>3. \A d \in Calls : CallOK(calls'[d])
  BY DEF HttpInv, ClientFrame
<1>4. \A r \in Reqs : ReqOK(r)'
  <2> SUFFICES ASSUME NEW r \in Reqs, r[1] # c PROVE ReqOK(r)'
    OBVIOUS
  <2>1. r[1] \in Calls
    BY TriesFacts
  <2>2. reqs'[r] = reqs[r] /\ calls'[r[1]] = calls[r[1]]
    BY <2>1 DEF ClientFrame
  <2>3. ReqOK(r)
    BY DEF HttpInv
  <2> QED  BY <1>1, <2>2, <2>3 DEF ReqOK, Sent, Batch, Returned, JP!Fenced
<1>5. \A p \in made' : MadeOK(p)'
  <2> SUFFICES ASSUME NEW p \in made, p[1] # c PROVE MadeOK(p)'
    BY <1>1
  <2>1. MadeOK(p) /\ p[1] \in Calls /\ <<p[1], 0>> \in Reqs
    BY TriesFacts DEF HttpInv, MadeOK
  <2>2. calls'[p[1]] = calls[p[1]] /\ reqs'[<<p[1], 0>>] = reqs[<<p[1], 0>>]
    BY <2>1 DEF ClientFrame
  <2> QED  BY <1>1, <2>1, <2>2 DEF MadeOK
<1>6. SingleRow' /\ SingleStep'
  <2>1. \A p \in made : p[1] \in Calls /\ calls'[p[1]].key = calls[p[1]].key
    BY DEF HttpInv, MadeOK, ClientFrame
  <2> QED  BY <1>1, <2>1 DEF HttpInv, SingleRow, SingleStep
<1> QED  BY <1>1, <1>2, <1>3, <1>4, <1>5, <1>6 DEF HttpInv

\* The call starts on a command: it has no request yet and has created nothing.
LEMMA CallBegins ==
    ASSUME HttpInv, NEW c \in Calls, ClientFrame(c), CallOK(calls'[c]),
           \A r \in Reqs : r[1] = c => reqs'[r].st = "none" /\ reqs'[r].got = {}
                                       /\ reqs'[r].todo = {},
           \A p \in made : p[1] # c
    PROVE  HttpInv'
<1>1. \A r \in Reqs : r[1] = c => ReqOK(r)'
  BY DEF ReqOK, Sent, Batch, Returned, Over
<1> QED  BY <1>1, ClientKeeps

\* The call goes on with the same command, and may have sent its try.
LEMMA CallGoesOn ==
    ASSUME HttpInv, NEW c \in Calls, ClientFrame(c), CallOK(calls'[c]),
           calls'[c].cmd = calls[c].cmd, calls'[c].key = calls[c].key,
           calls'[c].pc \notin {"idle", "starting"},
           \A r \in Reqs : r[1] = c =>
              /\ Sent(r)'
              /\ \/ reqs'[r] = reqs[r]
                 \/ reqs[r].st = "none" /\ reqs'[r] = [reqs[r] EXCEPT !.st = "sent"]
    PROVE  HttpInv'
<1>1. jobs' = jobs /\ attempts' = attempts /\ stuck' = stuck
  BY DEF ClientFrame, dbVars
<1>2. ASSUME NEW r \in Reqs, r[1] = c PROVE ReqOK(r)'
  <2>1. ReqOK(r)
    BY DEF HttpInv
  <2>2. CASE reqs'[r] = reqs[r]
    BY <1>1, <1>2, <2>1, <2>2 DEF ReqOK, Batch, Returned, JP!Fenced
  <2>3. CASE reqs[r].st = "none" /\ reqs'[r] = [reqs[r] EXCEPT !.st = "sent"]
    <3>1. IsReq(reqs[r])
      BY DEF HttpInv, Shape
    <3>2. reqs'[r].st = "sent" /\ reqs'[r].got = {} /\ reqs'[r].todo = {}
      BY <2>1, <2>3, <3>1 DEF IsReq, ReqOK, Batch
    <3> QED  BY <1>2, <3>2 DEF ReqOK, Batch, Returned, Over
  <2> QED  BY <1>2, <2>2, <2>3
<1>3. ASSUME NEW p \in made, p[1] = c PROVE MadeOK(p)'
  <2>1. MadeOK(p) /\ <<p[1], 0>> \in Reqs
    BY TriesFacts DEF HttpInv, MadeOK
  <2>2. <<p[1], 0>>[1] = c
    BY <1>3
  <2>3. reqs[<<p[1], 0>>].st = "answered" => reqs'[<<p[1], 0>>] = reqs[<<p[1], 0>>]
    BY <2>1, <2>2
  <2> QED  BY <1>1, <1>3, <2>1, <2>3 DEF MadeOK
<1> QED  BY <1>2, <1>3, ClientKeeps

\* Before its first try a call has no request and has created nothing.
LEMMA NothingYet ==
    ASSUME HttpInv, NEW c \in Calls, calls[c].pc \in {"idle", "starting"}
    PROVE  /\ calls[c].n = 0 /\ \A p \in made : p[1] # c
           /\ \A r \in Reqs : r[1] = c =>
                reqs[r].st = "none" /\ reqs[r].got = {} /\ reqs[r].todo = {}
<1>1. calls[c].n = 0
  BY DEF HttpInv, CallOK
<1>2. \A p \in made : p[1] # c
  BY DEF HttpInv, MadeOK
<1>3. ASSUME NEW r \in Reqs, r[1] = c
      PROVE  reqs[r].st = "none" /\ reqs[r].got = {} /\ reqs[r].todo = {}
  <2>1. Sent(r) /\ Batch(r)
    BY DEF HttpInv, ReqOK
  <2>2. r[2] \in Nat
    BY TriesFacts
  <2>3. reqs[r].st = "none"
    BY <1>1, <1>3, <2>1, <2>2 DEF Sent
  <2> QED  BY <2>1, <2>3 DEF Batch
<1> QED  BY <1>1, <1>2, <1>3

\* Writes of single columns of a call record.
LEMMA PcWritten ==
    ASSUME NEW e, IsCall(e), NEW x
    PROVE  LET g == [e EXCEPT !.pc = x] IN
           /\ IsCall(g) /\ g.pc = x /\ g.goal = e.goal /\ g.cmd = e.cmd
           /\ g.target = e.target /\ g.key = e.key /\ g.n = e.n
BY DEF IsCall

LEMMA CmdWritten ==
    ASSUME NEW e, IsCall(e), NEW x
    PROVE  LET g == [e EXCEPT !.cmd = x] IN
           /\ IsCall(g) /\ g.pc = e.pc /\ g.goal = e.goal /\ g.cmd = x
           /\ g.target = e.target /\ g.key = e.key /\ g.n = e.n
BY DEF IsCall

LEMMA TryWritten ==
    ASSUME NEW e, IsCall(e), NEW x
    PROVE  LET g == [e EXCEPT !.n = x] IN
           /\ IsCall(g) /\ g.pc = e.pc /\ g.goal = e.goal /\ g.cmd = e.cmd
           /\ g.target = e.target /\ g.key = e.key /\ g.n = x
BY DEF IsCall

LEMMA AnswerWritten ==
    ASSUME NEW e, IsCall(e), NEW x
    PROVE  LET g == [e EXCEPT !.answer = x] IN
           /\ IsCall(g) /\ g.pc = e.pc /\ g.goal = e.goal /\ g.cmd = e.cmd
           /\ g.target = e.target /\ g.key = e.key /\ g.n = e.n
BY DEF IsCall

LEMMA ClientWritten ==
    ASSUME NEW e, IsCall(e), NEW x
    PROVE  LET g == [e EXCEPT !.client = x] IN
           /\ IsCall(g) /\ g.pc = e.pc /\ g.goal = e.goal /\ g.cmd = e.cmd
           /\ g.target = e.target /\ g.key = e.key /\ g.n = e.n
BY DEF IsCall

LEMMA GoalWritten ==
    ASSUME NEW e, IsCall(e), NEW x
    PROVE  LET g == [e EXCEPT !.goal = x] IN
           /\ IsCall(g) /\ g.pc = e.pc /\ g.goal = x /\ g.cmd = e.cmd
           /\ g.target = e.target /\ g.key = e.key /\ g.n = e.n
BY DEF IsCall

LEMMA TargetWritten ==
    ASSUME NEW e, IsCall(e), NEW x
    PROVE  LET g == [e EXCEPT !.target = x] IN
           /\ IsCall(g) /\ g.pc = e.pc /\ g.goal = e.goal /\ g.cmd = e.cmd
           /\ g.target = x /\ g.key = e.key /\ g.n = e.n
BY DEF IsCall

LEMMA KeyWritten ==
    ASSUME NEW e, IsCall(e), NEW x
    PROVE  LET g == [e EXCEPT !.key = x] IN
           /\ IsCall(g) /\ g.pc = e.pc /\ g.goal = e.goal /\ g.cmd = e.cmd
           /\ g.target = e.target /\ g.key = x /\ g.n = e.n
BY DEF IsCall

\* What a call record becomes when it ends, is tried again or turns to another
\* command.
EndRow(e, x)    == [e EXCEPT !.pc = "done", !.answer = x]
PhaseRow(e, p)  == [e EXCEPT !.pc = p]
AgainRow(e, m)  == [e EXCEPT !.pc = "ready", !.n = m]
MetaRow(e)      == [e EXCEPT !.pc = "ready", !.cmd = "META"]
ReturnRow(e, p) == [e EXCEPT !.pc = p, !.cmd = e.goal, !.n = 0]

LEMMA PhaseWritten ==
    ASSUME NEW e, IsCall(e), NEW p
    PROVE  LET f == PhaseRow(e, p) IN
           /\ IsCall(f) /\ f.pc = p /\ f.n = e.n /\ f.cmd = e.cmd /\ f.goal = e.goal
           /\ f.target = e.target /\ f.key = e.key
BY PcWritten DEF PhaseRow

LEMMA EndWritten ==
    ASSUME NEW e, IsCall(e), NEW x
    PROVE  LET f == EndRow(e, x) IN
           /\ IsCall(f) /\ f.pc = "done" /\ f.n = e.n /\ f.cmd = e.cmd /\ f.goal = e.goal
           /\ f.target = e.target /\ f.key = e.key
<1> DEFINE d == [e EXCEPT !.pc = "done"]
<1>1. IsCall(d) /\ d.pc = "done" /\ d.n = e.n /\ d.cmd = e.cmd /\ d.goal = e.goal
      /\ d.target = e.target /\ d.key = e.key
  BY PcWritten
<1> HIDE DEF d
<1> DEFINE f == [d EXCEPT !.answer = x]
<1>2. IsCall(f) /\ f.pc = "done" /\ f.n = d.n /\ f.cmd = d.cmd /\ f.goal = d.goal
      /\ f.target = d.target /\ f.key = d.key
  BY <1>1, AnswerWritten
<1> HIDE DEF f
<1>3. EndRow(e, x) = f
  BY DEF EndRow, d, f
<1> QED  BY <1>1, <1>2, <1>3

LEMMA AgainWritten ==
    ASSUME NEW e, IsCall(e), NEW m
    PROVE  LET f == AgainRow(e, m) IN
           /\ IsCall(f) /\ f.pc = "ready" /\ f.n = m /\ f.cmd = e.cmd /\ f.goal = e.goal
           /\ f.target = e.target /\ f.key = e.key
<1> DEFINE d == [e EXCEPT !.pc = "ready"]
<1>1. IsCall(d) /\ d.pc = "ready" /\ d.n = e.n /\ d.cmd = e.cmd /\ d.goal = e.goal
      /\ d.target = e.target /\ d.key = e.key
  BY PcWritten
<1> HIDE DEF d
<1> DEFINE f == [d EXCEPT !.n = m]
<1>2. IsCall(f) /\ f.pc = "ready" /\ f.n = m /\ f.cmd = d.cmd /\ f.goal = d.goal
      /\ f.target = d.target /\ f.key = d.key
  BY <1>1, TryWritten
<1> HIDE DEF f
<1>3. AgainRow(e, m) = f
  BY DEF AgainRow, d, f
<1> QED  BY <1>1, <1>2, <1>3

LEMMA MetaWritten ==
    ASSUME NEW e, IsCall(e)
    PROVE  LET f == MetaRow(e) IN
           /\ IsCall(f) /\ f.pc = "ready" /\ f.n = e.n /\ f.cmd = "META" /\ f.goal = e.goal
           /\ f.target = e.target /\ f.key = e.key
<1> DEFINE d == [e EXCEPT !.pc = "ready"]
<1>1. IsCall(d) /\ d.pc = "ready" /\ d.n = e.n /\ d.cmd = e.cmd /\ d.goal = e.goal
      /\ d.target = e.target /\ d.key = e.key
  BY PcWritten
<1> HIDE DEF d
<1> DEFINE f == [d EXCEPT !.cmd = "META"]
<1>2. IsCall(f) /\ f.pc = "ready" /\ f.n = d.n /\ f.cmd = "META" /\ f.goal = d.goal
      /\ f.target = d.target /\ f.key = d.key
  BY <1>1, CmdWritten
<1> HIDE DEF f
<1>3. MetaRow(e) = f
  BY DEF MetaRow, d, f
<1> QED  BY <1>1, <1>2, <1>3

LEMMA ReturnWritten ==
    ASSUME NEW e, IsCall(e), NEW p
    PROVE  LET f == ReturnRow(e, p) IN
           /\ IsCall(f) /\ f.pc = p /\ f.n = 0 /\ f.cmd = e.goal /\ f.goal = e.goal
           /\ f.target = e.target /\ f.key = e.key
<1> DEFINE d == [e EXCEPT !.pc = p]
<1>1. IsCall(d) /\ d.pc = p /\ d.n = e.n /\ d.cmd = e.cmd /\ d.goal = e.goal
      /\ d.target = e.target /\ d.key = e.key
  BY PcWritten
<1> HIDE DEF d
<1> DEFINE f == [d EXCEPT !.cmd = e.goal]
<1>2. IsCall(f) /\ f.pc = p /\ f.n = d.n /\ f.cmd = e.goal /\ f.goal = d.goal
      /\ f.target = d.target /\ f.key = d.key
  BY <1>1, CmdWritten
<1> HIDE DEF f
<1> DEFINE g == [f EXCEPT !.n = 0]
<1>3. IsCall(g) /\ g.pc = p /\ g.n = 0 /\ g.cmd = f.cmd /\ g.goal = f.goal
      /\ g.target = f.target /\ g.key = f.key
  BY <1>2, TryWritten
<1> HIDE DEF g
<1>4. ReturnRow(e, p) = g
  BY DEF ReturnRow, d, f, g
<1> QED  BY <1>1, <1>2, <1>3, <1>4

LEMMA InvokeKeeps ==
    ASSUME HttpInv, NEW c \in Calls, Invoke(c) PROVE HttpInv'
<1>1. PICK cl \in Clients, cmd \in AllCommands : \E t \in Targets(cmd), k \in Keys(cmd) :
         /\ calls[c].pc = "idle"
         /\ calls' = [calls EXCEPT ![c] =
              [NoCall EXCEPT !.pc = IF cmd \in {"CLAIM", "META"} THEN "starting" ELSE "ready",
                             !.client = cl, !.goal = cmd, !.cmd = cmd, !.target = t, !.key = k]]
         /\ UNCHANGED <<dbVars, client, reqs, made, stuck>>
  <2>1. \A mix \in Mixes : mix[c] \subseteq AllCommands
    BY HttpAssumption
  <2> QED  BY <2>1 DEF Invoke
<1>t. PICK t \in Targets(cmd), k \in Keys(cmd) :
         /\ calls[c].pc = "idle"
         /\ calls' = [calls EXCEPT ![c] =
              [NoCall EXCEPT !.pc = IF cmd \in {"CLAIM", "META"} THEN "starting" ELSE "ready",
                             !.client = cl, !.goal = cmd, !.cmd = cmd, !.target = t, !.key = k]]
         /\ UNCHANGED <<dbVars, client, reqs, made, stuck>>
  BY <1>1
<1> DEFINE p == IF cmd \in {"CLAIM", "META"} THEN "starting" ELSE "ready"
           e0 == [NoCall EXCEPT !.pc = p]
<1>p. IsCall(NoCall) /\ NoCall.n = 0
  BY DEF NoCall, IsCall
<1> HIDE DEF p
<1>e0. IsCall(e0) /\ e0.n = 0
  BY <1>p, PcWritten
<1> HIDE DEF e0
<1> DEFINE e1 == [e0 EXCEPT !.client = cl]
<1>e1. IsCall(e1) /\ e1.n = 0
  BY <1>e0, ClientWritten
<1> HIDE DEF e1
<1> DEFINE e2 == [e1 EXCEPT !.goal = cmd]
<1>e2. IsCall(e2) /\ e2.n = 0 /\ e2.goal = cmd
  BY <1>e1, GoalWritten
<1> HIDE DEF e2
<1> DEFINE e3 == [e2 EXCEPT !.cmd = cmd]
<1>e3. IsCall(e3) /\ e3.n = 0 /\ e3.goal = cmd /\ e3.cmd = cmd
  BY <1>e2, CmdWritten
<1> HIDE DEF e3
<1> DEFINE e4 == [e3 EXCEPT !.target = t]
<1>e4. IsCall(e4) /\ e4.n = 0 /\ e4.goal = cmd /\ e4.cmd = cmd /\ e4.target = t
  BY <1>e3, TargetWritten
<1> HIDE DEF e4
<1> DEFINE e == [e4 EXCEPT !.key = k]
<1>3. IsCall(e) /\ e.n = 0 /\ e.goal = cmd /\ e.cmd = cmd /\ e.target = t /\ e.key = k
  BY <1>e4, KeyWritten
<1> HIDE DEF e
<1>2. calls' = [calls EXCEPT ![c] = e]
  <2>1. [NoCall EXCEPT !.pc = p, !.client = cl, !.goal = cmd, !.cmd = cmd, !.target = t,
                       !.key = k] = e
    BY DEF e0, e1, e2, e3, e4, e
  <2> QED  BY <1>t, <2>1 DEF p
<1>4. calls' = [d \in Calls |-> IF d = c THEN e ELSE calls[d]]
  BY <1>2 DEF HttpInv, Shape
<1>5. ClientFrame(c)
  BY <1>t, <1>3, <1>4 DEF ClientFrame, HttpInv, Shape
<1>6. k \in IdemKeys \cup Steps \cup {None}
  BY DEF Keys
<1>7. cmd \in AttemptCmds => t \in Attempts
  BY DEF Targets, AttemptCmds
<1>8. cmd \in JobCmds => t \in Jobs
  <2>1. cmd \in JobCmds => cmd \notin Settlements \cup {"HEARTBEAT"} /\ Routes[cmd].source = "job"
    BY RouteFacts DEF JobCmds, Settlements
  <2> QED  BY <2>1 DEF Targets
<1>9. CallOK(calls'[c])
  BY <1>3, <1>4, <1>6, <1>7, <1>8, TriesFacts DEF CallOK
<1> QED  BY <1>t, <1>5, <1>9, NothingYet, CallBegins

LEMMA EndWrites ==
    ASSUME HttpInv, NEW c \in Calls, NEW ans, End(c, ans)
    PROVE  /\ calls' = [d \in Calls |-> calls'[d]] /\ \A d \in Calls : d # c => calls'[d] = calls[d]
           /\ calls'[c] = EndRow(calls[c], ans)
BY DEF End, EndRow, HttpInv, Shape

LEMMA AgainWrites ==
    ASSUME HttpInv, NEW c \in Calls, NEW ans, Again(c, ans)
    PROVE  /\ calls' = [d \in Calls |-> calls'[d]] /\ \A d \in Calls : d # c => calls'[d] = calls[d]
           /\ \/ calls'[c] = EndRow(calls[c], ans)
              \/ /\ calls'[c] = AgainRow(calls[c], calls[c].n + 1)
                 /\ CanRetry(calls[c].cmd, calls[c].key) /\ calls[c].n < MaxRetries
<1>1. CASE End(c, ans)
  BY <1>1, EndWrites
<1>2. CASE /\ CanRetry(calls[c].cmd, calls[c].key) /\ calls[c].n < MaxRetries
           /\ calls' = [calls EXCEPT ![c].pc = "ready", ![c].n = @ + 1]
  BY <1>2 DEF AgainRow, HttpInv, Shape
<1> QED  BY <1>1, <1>2 DEF Again

LEMMA StartKeeps ==
    ASSUME HttpInv, NEW c \in Calls, StartClient(c) PROVE HttpInv'
<1> DEFINE e == calls[c]
           e2 == calls'[c]
<1>1. e.pc = "starting" /\ UNCHANGED <<dbVars, reqs, made, stuck>>
  BY DEF StartClient
<1>2. /\ calls' = [d \in Calls |-> calls'[d]] /\ \A d \in Calls : d # c => calls'[d] = calls[d]
      /\ \/ \E ans : e2 = EndRow(e, ans)
         \/ e2 = PhaseRow(e, "ready")
         \/ e2 = MetaRow(e)
  <2>1. ASSUME End(c, "ok")
        PROVE  <1>2!1 /\ <1>2!2 /\ e2 = EndRow(e, "ok")
    BY <2>1, EndWrites
  <2>2. ASSUME calls' = [calls EXCEPT ![c].pc = "ready"]
        PROVE  <1>2!1 /\ <1>2!2 /\ e2 = PhaseRow(e, "ready")
    BY <2>2 DEF PhaseRow, HttpInv, Shape
  <2>3. ASSUME calls' = [calls EXCEPT ![c].pc = "ready", ![c].cmd = "META"]
        PROVE  <1>2!1 /\ <1>2!2 /\ e2 = MetaRow(e)
    BY <2>3 DEF MetaRow, HttpInv, Shape
  <2> QED  BY <2>1, <2>2, <2>3 DEF StartClient
<1>3. IsCall(e) /\ CallOK(e)
  BY DEF HttpInv, Shape
<1>4. IsCall(e2) /\ CallOK(e2)
  <2>1. e.n = 0 /\ e.n \in Tries
    BY <1>1, <1>3 DEF CallOK
  <2>2. CASE \E ans : e2 = EndRow(e, ans)
    BY <1>3, <2>1, <2>2, EndWritten DEF CallOK, Once
  <2>3. CASE e2 = PhaseRow(e, "ready")
    BY <1>3, <2>1, <2>3, PhaseWritten DEF CallOK, Once
  <2>4. CASE e2 = MetaRow(e)
    <3>1. /\ IsCall(e2) /\ e2.pc = "ready" /\ e2.n = e.n /\ e2.cmd = "META" /\ e2.goal = e.goal
          /\ e2.target = e.target /\ e2.key = e.key
      BY <1>3, <2>4, MetaWritten
    <3> QED  BY <1>3, <2>1, <3>1 DEF CallOK, Once
  <2> QED  BY <1>2, <2>2, <2>3, <2>4
<1>5. ClientFrame(c)
  BY <1>1, <1>2, <1>4 DEF ClientFrame, HttpInv, Shape
<1> QED  BY <1>1, <1>4, <1>5, NothingYet, CallBegins

\* The call ends or goes on to its next try.
LEMMA AgainKeeps ==
    ASSUME HttpInv, NEW c \in Calls, NEW ans, Again(c, ans) \/ End(c, ans),
           calls[c].pc \in {"ready", "waiting"}, UNCHANGED <<dbVars, reqs, made, stuck>>,
           calls[c].pc = "ready" => End(c, ans)
    PROVE  HttpInv'
<1> DEFINE e == calls[c]
           e2 == calls'[c]
           Ended == e2 = EndRow(e, ans)
           Tried == /\ e2 = AgainRow(e, e.n + 1)
                    /\ CanRetry(e.cmd, e.key) /\ e.n < MaxRetries /\ e.pc = "waiting"
<1>1. /\ calls' = [d \in Calls |-> calls'[d]] /\ \A d \in Calls : d # c => calls'[d] = calls[d]
      /\ Ended \/ Tried
  BY EndWrites, AgainWrites
<1>2. IsCall(e) /\ CallOK(e) /\ e.n \in Tries
  BY DEF HttpInv, Shape, CallOK
<1>3. /\ IsCall(e2) /\ e2.cmd = e.cmd /\ e2.goal = e.goal /\ e2.target = e.target /\ e2.key = e.key
      /\ \/ e2.pc = "done" /\ e2.n = e.n
         \/ /\ e2.pc = "ready" /\ e2.n = e.n + 1 /\ e.pc = "waiting"
            /\ CanRetry(e.cmd, e.key) /\ e.n < MaxRetries
  <2>1. CASE Ended
    BY <1>2, <2>1, EndWritten
  <2>2. CASE Tried
    BY <1>2, <2>2, AgainWritten
  <2> QED  BY <1>1, <2>1, <2>2
<1> HIDE DEF Ended, Tried
<1>4. Once(e) => ~CanRetry(e.cmd, e.key)
  BY RouteFacts, HttpAssumption DEF Once, CanRetry, Enqueues
<1>5. CallOK(e2)
  <2>1. e2.n \in Tries
    BY <1>2, <1>3, TriesFacts
  <2> QED  BY <1>2, <1>3, <1>4, <2>1 DEF CallOK, Once
<1>6. ClientFrame(c)
  BY <1>1, <1>3 DEF ClientFrame, HttpInv, Shape
<1>7. ASSUME NEW r \in Reqs, r[1] = c PROVE Sent(r)'
  <2>1. Sent(r)
    BY DEF HttpInv, ReqOK
  <2>2. r[2] \in Nat /\ e.n \in Nat
    BY <1>2, TriesFacts
  <2> QED  BY <1>3, <1>7, <2>1, <2>2 DEF Sent
<1> QED  BY <1>3, <1>5, <1>6, <1>7, CallGoesOn

LEMMA SendKeeps ==
    ASSUME HttpInv, NEW c \in Calls, Send(c) PROVE HttpInv'
<1> DEFINE e == calls[c]
           e2 == calls'[c]
           s == <<c, e.n>>
<1>1. CASE End(c, "closed") /\ UNCHANGED reqs
  BY <1>1, AgainKeeps DEF Send
<1>2. CASE /\ calls' = [calls EXCEPT ![c].pc = "waiting"]
           /\ reqs' = [reqs EXCEPT ![s].st = "sent"]
  <2>1. e.pc = "ready" /\ IsCall(e) /\ CallOK(e) /\ e.n \in Nat /\ s \in Reqs
        /\ UNCHANGED <<dbVars, made, stuck>>
    BY TriesFacts DEF Send, HttpInv, Shape, CallOK
  <2>2. /\ calls' = [d \in Calls |-> calls'[d]] /\ \A d \in Calls : d # c => calls'[d] = calls[d]
        /\ e2 = PhaseRow(e, "waiting")
    BY <1>2 DEF PhaseRow, HttpInv, Shape
  <2>3. /\ IsCall(e2) /\ e2.pc = "waiting" /\ e2.n = e.n /\ e2.cmd = e.cmd /\ e2.goal = e.goal
        /\ e2.target = e.target /\ e2.key = e.key
    BY <2>1, <2>2, PhaseWritten
  <2>4. CallOK(e2)
    BY <2>1, <2>3 DEF CallOK, Once
  <2>5. /\ reqs' = [r \in Reqs |-> reqs'[r]] /\ reqs'[s] = [reqs[s] EXCEPT !.st = "sent"]
        /\ \A r \in Reqs : r # s => reqs'[r] = reqs[r]
    BY <1>2, <2>1 DEF HttpInv, Shape
  <2>6. \A r \in Reqs : IsReq(reqs'[r])
    <3>1. \A r \in Reqs : IsReq(reqs[r])
      BY DEF HttpInv, Shape
    <3> DEFINE q == reqs[s]
    <3>2. IsReq([q EXCEPT !.st = "sent"])
      <4>1. IsReq(q)
        BY <2>1, <3>1
      <4> HIDE DEF q
      <4> QED  BY <4>1 DEF IsReq
    <3> QED  BY <2>5, <3>1, <3>2
  <2>7. ASSUME NEW r \in Reqs, r[1] = c
        PROVE  /\ Sent(r)'
               /\ \/ reqs'[r] = reqs[r]
                  \/ reqs[r].st = "none" /\ reqs'[r] = [reqs[r] EXCEPT !.st = "sent"]
    <3>1. Sent(r) /\ r[2] \in Nat /\ r = <<r[1], r[2]>>
      BY TriesFacts DEF HttpInv, ReqOK
    <3>2. reqs[r].st # "none" => r[2] < e.n
      BY <2>1, <2>7, <3>1 DEF Sent
    <3>3. CASE r = s
      <4>1. r[2] = e.n
        BY <3>3
      <4> QED  BY <2>1, <2>3, <2>5, <2>7, <3>2, <3>3, <4>1 DEF Sent
    <3>4. CASE r # s
      BY <2>1, <2>3, <2>5, <2>7, <3>2, <3>4 DEF Sent
    <3> QED  BY <3>3, <3>4
  <2>8. \A r \in Reqs : r[1] # c => reqs'[r] = reqs[r]
    BY <2>5
  <2>9. ClientFrame(c)
    BY <2>1, <2>2, <2>3, <2>5, <2>6, <2>8 DEF ClientFrame
  <2> QED  BY <2>3, <2>4, <2>7, <2>9, CallGoesOn
<1> QED  BY <1>1, <1>2 DEF Send

LEMMA TransportErrorKeeps ==
    ASSUME HttpInv, NEW c \in Calls, TransportError(c) PROVE HttpInv'
BY AgainKeeps DEF TransportError

LEMMA ReceiveKeeps ==
    ASSUME HttpInv, NEW c \in Calls, Receive(c) PROVE HttpInv'
<1> DEFINE e == calls[c]
           e2 == calls'[c]
           ans == Decoded(e.cmd, reqs[<<c, e.n>>].ans)
           p == IF e.goal = "META" THEN "done" ELSE "ready"
<1>1. e.pc = "waiting" /\ UNCHANGED <<dbVars, made, stuck>>
  BY DEF Receive
<1>2. CASE (Again(c, ans) \/ End(c, ans)) /\ UNCHANGED reqs
  BY <1>1, <1>2, AgainKeeps
<1>3. CASE /\ e.cmd = "META"
           /\ calls' = [calls EXCEPT ![c].pc = p, ![c].cmd = e.goal, ![c].n = 0]
           /\ reqs' = [s \in DOMAIN reqs |-> IF s[1] = c THEN NoReq ELSE reqs[s]]
  <2>1. IsCall(e) /\ CallOK(e) /\ p \in {"done", "ready"}
    BY DEF HttpInv, Shape
  <2> HIDE DEF p
  <2>2. /\ calls' = [d \in Calls |-> calls'[d]] /\ \A d \in Calls : d # c => calls'[d] = calls[d]
        /\ e2 = ReturnRow(e, p)
    BY <1>3 DEF ReturnRow, HttpInv, Shape
  <2>3. /\ IsCall(e2) /\ e2.pc = p /\ e2.n = 0 /\ e2.cmd = e.goal /\ e2.goal = e.goal
        /\ e2.target = e.target /\ e2.key = e.key
    BY <2>1, <2>2, ReturnWritten
  <2>4. CallOK(e2)
    BY <2>1, <2>3, TriesFacts DEF CallOK
  <2>5. /\ reqs' = [r \in Reqs |-> reqs'[r]]
        /\ \A r \in Reqs : reqs'[r] = IF r[1] = c THEN NoReq ELSE reqs[r]
    <3>1. DOMAIN reqs = Reqs
      BY DEF HttpInv, Shape
    <3> QED  BY <1>3, <3>1
  <2>6. IsReq(NoReq) /\ NoReq.st = "none" /\ NoReq.got = {} /\ NoReq.todo = {}
    BY DEF NoReq, IsReq
  <2>7. ClientFrame(c)
    BY <1>1, <2>2, <2>3, <2>5, <2>6 DEF ClientFrame, HttpInv, Shape
  <2>8. \A q \in made : q[1] # c
    BY <1>3 DEF HttpInv, MadeOK, Enqueues
  <2> QED  BY <2>4, <2>5, <2>6, <2>7, <2>8, CallBegins
<1> QED  BY <1>2, <1>3 DEF Receive

----------------------------------------------------------------------------
(* The facade *)

\* What a request becomes.
StateRow(q, x)  == [q EXCEPT !.st = x]
AnswerRow(q, x) == [q EXCEPT !.st = "answered", !.ans = x]
GrantRow(q, G)  == [q EXCEPT !.st = "granted", !.got = G]
LostRow(q, G, x) == [q EXCEPT !.st = "answered", !.got = G, !.ans = x]
BackRow(q)      == [q EXCEPT !.st = "releasing", !.todo = q.got]
HandRow(q, a)   == [q EXCEPT !.todo = q.todo \ {a}]

LEMMA StWritten ==
    ASSUME NEW q, IsReq(q), NEW x
    PROVE  LET f == StateRow(q, x) IN
           IsReq(f) /\ f.st = x /\ f.got = q.got /\ f.todo = q.todo /\ f.ans = q.ans
BY DEF IsReq, StateRow

LEMMA TodoWritten ==
    ASSUME NEW q, IsReq(q), NEW x
    PROVE  LET f == [q EXCEPT !.todo = x] IN
           IsReq(f) /\ f.st = q.st /\ f.got = q.got /\ f.todo = x /\ f.ans = q.ans
BY DEF IsReq

LEMMA HandWritten ==
    ASSUME NEW q, IsReq(q), NEW a
    PROVE  LET f == HandRow(q, a) IN
           IsReq(f) /\ f.st = q.st /\ f.got = q.got /\ f.todo = q.todo \ {a} /\ f.ans = q.ans
BY TodoWritten DEF HandRow

LEMMA AnswerWrittenRow ==
    ASSUME NEW q, IsReq(q), NEW x
    PROVE  LET f == AnswerRow(q, x) IN
           IsReq(f) /\ f.st = "answered" /\ f.got = q.got /\ f.todo = q.todo /\ f.ans = x
<1> DEFINE d == StateRow(q, "answered")
<1>1. IsReq(d) /\ d.st = "answered" /\ d.got = q.got /\ d.todo = q.todo
  BY StWritten
<1>2. AnswerRow(q, x) = [d EXCEPT !.ans = x]
  BY DEF AnswerRow, StateRow
<1> HIDE DEF d
<1> QED  BY <1>1, <1>2 DEF IsReq

LEMMA GrantWritten ==
    ASSUME NEW q, IsReq(q), NEW G
    PROVE  LET f == GrantRow(q, G) IN
           IsReq(f) /\ f.st = "granted" /\ f.got = G /\ f.todo = q.todo
<1> DEFINE d == StateRow(q, "granted")
<1>1. IsReq(d) /\ d.st = "granted" /\ d.got = q.got /\ d.todo = q.todo
  BY StWritten
<1>2. GrantRow(q, G) = [d EXCEPT !.got = G]
  BY DEF GrantRow, StateRow
<1> HIDE DEF d
<1> QED  BY <1>1, <1>2 DEF IsReq

LEMMA LostWritten ==
    ASSUME NEW q, IsReq(q), NEW G, NEW x
    PROVE  LET f == LostRow(q, G, x) IN
           IsReq(f) /\ f.st = "answered" /\ f.got = G /\ f.todo = q.todo
<1> DEFINE d == AnswerRow(q, x)
<1>1. IsReq(d) /\ d.st = "answered" /\ d.got = q.got /\ d.todo = q.todo
  BY AnswerWrittenRow
<1>2. LostRow(q, G, x) = [d EXCEPT !.got = G]
  BY DEF LostRow, AnswerRow
<1> HIDE DEF d
<1> QED  BY <1>1, <1>2 DEF IsReq

LEMMA BackWritten ==
    ASSUME NEW q, IsReq(q)
    PROVE  LET f == BackRow(q) IN
           IsReq(f) /\ f.st = "releasing" /\ f.got = q.got /\ f.todo = q.got
<1> DEFINE d == StateRow(q, "releasing")
<1>1. IsReq(d) /\ d.st = "releasing" /\ d.got = q.got
  BY StWritten
<1>2. BackRow(q) = [d EXCEPT !.todo = q.got]
  BY DEF BackRow, StateRow
<1> HIDE DEF d
<1> QED  BY <1>1, <1>2 DEF IsReq

\* A step of request r: it turns into f, and the calls and the other requests
\* stay as they are.
FacadeFrame(r, f) ==
    /\ calls' = calls /\ reqs[r].st \in {"sent", "admitted", "granted", "releasing"}
    /\ reqs' = [s \in Reqs |-> reqs'[s]] /\ reqs'[r] = f /\ IsReq(f)
    /\ \A s \in Reqs : s # r => reqs'[s] = reqs[s]

\* A row is created for a step only when the rows the step had are deleted.
StepIsNew ==
    \A p \in made, q \in made' \ made :
       p[1] = q[1] /\ calls[p[1]].key \in Steps => jobs[p[2]].status = "deleted"

LEMMA FacadeKeeps ==
    ASSUME HttpInv, NEW r \in Reqs, NEW f, FacadeFrame(r, f), TablesOK', TablesMove,
           stuck \subseteq stuck', Batch(r)', Returned(r)', made \subseteq made',
           \A p \in made' : p \in made \/ (p[1] = r[1] /\ reqs[r].st = "admitted" /\ MadeOK(p)'),
           \A p, q \in made' \ made : p = q, StepIsNew
    PROVE  HttpInv'
<1>1. Shape' /\ \A c \in Calls : CallOK(calls'[c])
  BY DEF HttpInv, Shape, FacadeFrame
<1>2. \A s \in Reqs : Sent(s)'
  <2> SUFFICES ASSUME NEW s \in Reqs PROVE Sent(s)'
    OBVIOUS
  <2>1. Sent(s) /\ calls' = calls /\ (reqs'[s].st # "none" => reqs[s].st # "none")
    BY DEF HttpInv, ReqOK, FacadeFrame
  <2> QED  BY <2>1 DEF Sent
<1>3. ASSUME NEW s \in Reqs, s # r PROVE Batch(s)' /\ Returned(s)'
  <2>1. Batch(s) /\ Returned(s) /\ reqs'[s] = reqs[s] /\ calls' = calls
    BY <1>3 DEF HttpInv, ReqOK, FacadeFrame
  <2>2. reqs[s].got \subseteq Attempts
    BY <2>1 DEF Batch
  <2>3. Batch(s)'
    BY <2>1, <2>2 DEF Batch, TablesMove
  <2>4. Over(reqs[s]) \subseteq reqs[s].got
    BY <2>1 DEF Over, Batch
  <2>5. \A a \in Over(reqs[s]) : a \in Attempts /\ attempts[a].status # "absent"
    BY <2>1, <2>2, <2>4 DEF Batch
  <2>6. \A a \in Over(reqs[s]) : JP!Fenced(a)' => a \in stuck'
    BY <2>1, <2>5 DEF TablesMove, Returned
  <2> QED  BY <2>1, <2>3, <2>6 DEF Returned
<1>4. \A s \in Reqs : ReqOK(s)'
  BY <1>2, <1>3 DEF ReqOK
<1>5. ASSUME NEW p \in made PROVE MadeOK(p)'
  <2>1. MadeOK(p) /\ p[2] \in Jobs /\ <<p[1], 0>> \in Reqs
    BY TriesFacts DEF HttpInv, MadeOK
  <2>2. reqs[<<p[1], 0>>].st = "answered" => reqs'[<<p[1], 0>>].st = "answered"
    BY <2>1 DEF FacadeFrame
  <2>3. /\ jobs'[p[2]].status # "absent"
        /\ \/ jobs'[p[2]].status = "deleted"
           \/ /\ jobs'[p[2]].idem = IdemOf(calls[p[1]].key)
              /\ jobs'[p[2]].wf = StepOf(calls[p[1]].key)
    BY <2>1 DEF MadeOK, TablesMove
  <2> QED  BY <2>1, <2>2, <2>3 DEF MadeOK, FacadeFrame
<1>6. \A p \in made' : MadeOK(p)'
  BY <1>5
<1>7. ASSUME NEW p \in made, NEW q \in made' \ made, p[1] = q[1], calls[p[1]].key = None
      PROVE  FALSE
  <2>1. q[1] = r[1] /\ reqs[r].st = "admitted"
    BY <1>7
  <2>2. MadeOK(p) /\ p[1] \in Calls
    BY DEF HttpInv, MadeOK
  <2>3. reqs[<<p[1], 0>>].st = "answered" /\ calls[p[1]].n = 0
    BY <1>7, <2>2 DEF MadeOK, HttpInv, CallOK, Once
  <2>4. r = <<p[1], 0>>
    <3>1. Sent(r) /\ r[2] \in Nat /\ r = <<r[1], r[2]>>
      BY TriesFacts DEF HttpInv, ReqOK
    <3> QED  BY <1>7, <2>1, <2>3, <3>1 DEF Sent
  <2> QED  BY <2>1, <2>3, <2>4
<1>8. SingleRow'
  <2>1. calls' = calls /\ SingleRow
    BY DEF HttpInv, FacadeFrame
  <2>2. SUFFICES ASSUME NEW p \in made', NEW q \in made', p[1] = q[1], calls[p[1]].key = None
                 PROVE  p = q
    BY <2>1 DEF SingleRow
  <2>3. CASE p \in made /\ q \in made
    BY <2>1, <2>2, <2>3 DEF SingleRow
  <2>4. CASE p \notin made /\ q \notin made
    BY <2>4
  <2>5. CASE p \in made /\ q \notin made
    BY <1>7, <2>2, <2>5
  <2>6. CASE p \notin made /\ q \in made
    BY <1>7, <2>2, <2>6
  <2> QED  BY <2>3, <2>4, <2>5, <2>6
<1>9. SingleStep'
  <2>1. calls' = calls /\ SingleStep
    BY DEF HttpInv, FacadeFrame
  <2>2. ASSUME NEW p \in made, jobs[p[2]].status = "deleted" PROVE jobs'[p[2]].status = "deleted"
    <3>1. p[2] \in Jobs
      BY DEF HttpInv, MadeOK
    <3> QED  BY <2>2, <3>1 DEF TablesMove
  <2>3. SUFFICES ASSUME NEW p \in made', NEW q \in made', p[1] = q[1], p[2] # q[2],
                        calls[p[1]].key \in Steps
                 PROVE  "deleted" \in {jobs'[p[2]].status, jobs'[q[2]].status}
    BY <2>1 DEF SingleStep
  <2>4. CASE p \in made /\ q \in made
    BY <2>1, <2>2, <2>3, <2>4 DEF SingleStep
  <2>5. CASE p \notin made /\ q \notin made
    BY <2>3, <2>5
  <2>6. CASE p \in made /\ q \notin made
    BY <2>2, <2>3, <2>6 DEF StepIsNew
  <2>7. CASE p \notin made /\ q \in made
    BY <2>2, <2>3, <2>7 DEF StepIsNew
  <2> QED  BY <2>4, <2>5, <2>6, <2>7
<1> QED  BY <1>1, <1>4, <1>6, <1>8, <1>9 DEF HttpInv

\* A request that has taken no batch goes on or is answered.
LEMMA NoBatchKeeps ==
    ASSUME HttpInv, NEW r \in Reqs, reqs[r].st \in {"sent", "admitted"}, NEW f, FacadeFrame(r, f),
           f.got = reqs[r].got, f.todo = reqs[r].todo, TablesOK', TablesMove, stuck' = stuck,
           made \subseteq made',
           \A p \in made' : p \in made \/ (p[1] = r[1] /\ reqs[r].st = "admitted" /\ MadeOK(p)'),
           \A p, q \in made' \ made : p = q, StepIsNew
    PROVE  HttpInv'
<1>1. Batch(r)
  BY DEF HttpInv, ReqOK
<1>2. reqs'[r] = f /\ f.got = {} /\ f.todo = {}
  BY <1>1 DEF Batch, FacadeFrame
<1>3. Batch(r)'
  BY <1>2 DEF Batch
<1>4. Returned(r)'
  BY <1>2 DEF Returned, Over
<1> QED  BY <1>3, <1>4, FacadeKeeps

LEMMA AnswersWrites ==
    ASSUME HttpInv, NEW r \in Reqs, NEW ans, Answers(r, ans), calls' = calls,
           reqs[r].st \in {"sent", "admitted", "granted", "releasing"}
    PROVE  \E x : /\ FacadeFrame(r, AnswerRow(reqs[r], x))
                  /\ ans = "claimed" => x = "claimed"
<1> DEFINE x == Seen(r, ans)
<1>1. reqs' = [reqs EXCEPT ![r].st = "answered", ![r].ans = x]
  BY DEF Answers
<1>2. ans = "claimed" => x = "claimed"
  BY DEF Seen
<1> HIDE DEF x
<1>3. /\ reqs' = [s \in Reqs |-> reqs'[s]] /\ reqs'[r] = AnswerRow(reqs[r], x)
      /\ \A s \in Reqs : s # r => reqs'[s] = reqs[s]
  BY <1>1 DEF HttpInv, Shape, AnswerRow
<1>4. IsReq(AnswerRow(reqs[r], x))
  BY AnswerWrittenRow DEF HttpInv, Shape
<1> QED  BY <1>2, <1>3, <1>4 DEF FacadeFrame

\* A request is answered, or let through, without a batch and without an effect.
LEMMA RefusedKeeps ==
    ASSUME HttpInv, NEW r \in Reqs, reqs[r].st \in {"sent", "admitted"},
           \/ \E ans : Answers(r, ans)
           \/ reqs' = [reqs EXCEPT ![r].st = "admitted"],
           calls' = calls, made' = made, stuck' = stuck, TablesOK', TablesMove
    PROVE  HttpInv'
<1>0. IsReq(reqs[r])
  BY DEF HttpInv, Shape
<1>1. CASE \E ans : Answers(r, ans)
  <2>1. PICK x : FacadeFrame(r, AnswerRow(reqs[r], x))
    BY <1>1, AnswersWrites
  <2>2. LET f == AnswerRow(reqs[r], x) IN f.got = reqs[r].got /\ f.todo = reqs[r].todo
    BY <1>0, AnswerWrittenRow
  <2> QED  BY <2>1, <2>2, NoBatchKeeps DEF StepIsNew
<1>2. CASE reqs' = [reqs EXCEPT ![r].st = "admitted"]
  <2> DEFINE f == StateRow(reqs[r], "admitted")
  <2>1. /\ reqs' = [s \in Reqs |-> reqs'[s]] /\ reqs'[r] = f
        /\ \A s \in Reqs : s # r => reqs'[s] = reqs[s]
    BY <1>2 DEF HttpInv, Shape, StateRow
  <2>2. IsReq(f) /\ f.got = reqs[r].got /\ f.todo = reqs[r].todo
    BY <1>0, StWritten
  <2> HIDE DEF f
  <2>3. FacadeFrame(r, f)
    BY <2>1, <2>2 DEF FacadeFrame
  <2> QED  BY <2>2, <2>3, NoBatchKeeps DEF StepIsNew
<1> QED  BY <1>1, <1>2

LEMMA AdmitKeeps ==
    ASSUME HttpInv, NEW r \in Reqs, Admit(r) PROVE HttpInv'
<1>1. TablesOK' /\ TablesMove
  BY TablesStay DEF Admit, HttpInv
<1> QED  BY <1>1, RefusedKeeps DEF Admit

LEMMA ClaimEmptyKeeps ==
    ASSUME HttpInv, NEW r \in Reqs, ClaimEmpty(r) PROVE HttpInv'
<1>1. TablesOK' /\ TablesMove
  BY TablesStay DEF ClaimEmpty, HttpInv
<1> QED  BY <1>1, RefusedKeeps DEF ClaimEmpty

\* What the commands for an attempt and for a job are about.
LEMMA TargetFacts ==
    ASSUME HttpInv, NEW r \in Reqs
    PROVE  /\ Cmd(r) \in AttemptCmds => Target(r) \in Attempts
           /\ Cmd(r) \in JobCmds => Target(r) \in Jobs
<1>1. CallOK(calls[r[1]])
  BY TriesFacts DEF HttpInv
<1> QED  BY <1>1 DEF CallOK, Cmd, Target, AttemptCmds, JobCmds, Settlements

LEMMA RunnerKeeps ==
    ASSUME HttpInv, NEW r \in Reqs, NEW o, ExecuteRunner(r, o)
    PROVE  TablesOK' /\ TablesMove /\ made' = made
<1> DEFINE a == Target(r)
<1>1. \/ UNCHANGED dbVars
      \/ /\ a \in Attempts
         /\ \/ Db!complete_job(a, {}, {}, FALSE, 2)
            \/ \E again \in BOOLEAN : Db!fail_job(a, again, TRUE)
            \/ Db!snooze_job(a, TRUE) \/ Db!release_job(a, TRUE)
            \/ Db!cancel_running_job(a) \/ Db!heartbeat(a)
  <2>1. CASE SettleCall(r, o)
    BY <2>1, TargetFacts DEF SettleCall, AttemptCmds
  <2>2. CASE /\ Cmd(r) = "HEARTBEAT"
             /\ \/ Db!heartbeat(a) /\ o = "ok"
                \/ ~Db!Fenced(a) /\ o = "lost" /\ UNCHANGED dbVars
    BY <2>2, TargetFacts DEF AttemptCmds
  <2> QED  BY <2>1, <2>2 DEF ExecuteRunner
<1> QED  BY <1>1, TablesStay, TablesRunner DEF HttpInv, ExecuteRunner

LEMMA OperatorKeeps ==
    ASSUME HttpInv, NEW r \in Reqs, NEW o, ExecuteOperator(r, o)
    PROVE  TablesOK' /\ TablesMove /\ made' = made
<1> DEFINE waiting == {i \in Jobs : jobs[i].status \in {"blocked", "queued"}}
           j == Target(r)
<1>1. \/ UNCHANGED dbVars
      \/ \E i \in Jobs : \/ Db!expire_job(i) \/ Db!cancel_job(i) \/ Db!run_now(i)
                         \/ Db!redrive_job(i, TRUE) \/ Db!janitor({i})
      \/ Db!expire_worker_leases(Worker)
      \/ \E S \in SUBSET Jobs : Db!purge_queued(S)
  <2>1. Cmd(r) \in JobCmds => j \in Jobs
    BY TargetFacts
  <2>2. waiting \in SUBSET Jobs
    OBVIOUS
  <2> HIDE DEF waiting
  <2>3. \/ UNCHANGED dbVars
        \/ /\ Cmd(r) \in JobCmds
           /\ Db!expire_job(j) \/ Db!cancel_job(j) \/ Db!run_now(j) \/ Db!redrive_job(j, TRUE)
        \/ Db!expire_worker_leases(Worker)
        \/ Db!purge_queued(waiting)
    BY DEF ExecuteOperator, JobCmds, waiting
  <2> QED  BY <2>1, <2>2, <2>3
<1> QED  BY <1>1, TablesStay, TablesOperator DEF HttpInv, ExecuteOperator

LEMMA OthersKeep ==
    ASSUME HttpInv, NEW r \in Reqs, NEW o,
           \/ ExecutePlans(r, o) \/ ExecuteSchedules(r, o) \/ ExecuteReads(r, o)
           \/ ExecutePages(r, o) \/ ExecuteQueues(r, o)
    PROVE  TablesOK' /\ TablesMove /\ made' = made
<1>1. UNCHANGED <<dbVars, made>>
  BY DEF ExecutePlans, ExecuteSchedules, ExecuteReads, ExecutePages, ExecuteQueues, AnswersAny
<1> QED  BY <1>1, TablesStay DEF HttpInv

\* A row is created, and the answer is on its way.
LEMMA CreatedKeeps ==
    ASSUME HttpInv, NEW r \in Reqs, reqs[r].st = "admitted", Cmd(r) \in Enqueues, NEW j \in Jobs,
           ~StepHeld(StepOf(calls[r[1]].key)),
           Db!enqueue(j, IdemOf(calls[r[1]].key), None, StepOf(calls[r[1]].key), {}, TRUE, "none", 2),
           made' = made \cup {<<r[1], j>>}, NEW ans, Answers(r, ans), calls' = calls, stuck' = stuck
    PROVE  HttpInv'
<1> DEFINE k == calls[r[1]].key
           p == <<r[1], j>>
<1>1. CallOK(calls[r[1]]) /\ r[1] \in Calls /\ r = <<r[1], r[2]>>
  BY TriesFacts DEF HttpInv
<1>2. /\ TablesOK' /\ TablesMove /\ jobs'[j].status = "queued"
      /\ jobs'[j].idem = IdemOf(k) /\ jobs'[j].wf = StepOf(k)
  <2> DEFINE i == IdemOf(k)
             s == StepOf(k)
  <2>1. i \in IdemKeys \cup {None} /\ s \in Steps \cup {None}
    BY DEF IdemOf, StepOf
  <2>2. Db!enqueue(j, i, None, s, {}, TRUE, "none", 2)
    OBVIOUS
  <2>3. TablesOK
    BY DEF HttpInv
  <2> HIDE DEF i, s
  <2>4. /\ TablesOK' /\ TablesMove /\ jobs'[j].status = "queued"
        /\ jobs'[j].idem = i /\ jobs'[j].wf = s
    BY <2>1, <2>2, <2>3, TablesEnqueue
  <2> QED  BY <2>4 DEF i, s
<1>3. PICK x : FacadeFrame(r, AnswerRow(reqs[r], x))
  BY AnswersWrites
<1> DEFINE f == AnswerRow(reqs[r], x)
<1>4. f.st = "answered" /\ f.got = reqs[r].got /\ f.todo = reqs[r].todo
  BY AnswerWrittenRow DEF HttpInv, Shape
<1> HIDE DEF f
<1>5. k = None => r = <<r[1], 0>>
  <2>1. k = None => calls[r[1]].n = 0
    BY <1>1 DEF CallOK, Once, Cmd
  <2>2. Sent(r) /\ r[2] \in Nat
    BY TriesFacts DEF HttpInv, ReqOK
  <2> QED  BY <1>1, <2>1, <2>2 DEF Sent
<1>6. MadeOK(p)'
  <2>1. p[1] = r[1] /\ p[2] = j /\ p \in Calls \X Jobs
    BY <1>1
  <2>2. calls[r[1]].pc \notin {"idle", "starting"}
    <3>1. Sent(r) /\ r[2] \in Nat
      BY TriesFacts DEF HttpInv, ReqOK
    <3> QED  BY <1>1, <3>1 DEF Sent, CallOK
  <2>3. reqs'[r].st = "answered"
    BY <1>3, <1>4 DEF FacadeFrame, f
  <2> QED  BY <1>2, <1>5, <2>1, <2>2, <2>3 DEF MadeOK, Cmd
<1>7. \A q \in made' : q \in made \/ (q[1] = r[1] /\ MadeOK(q)')
  BY <1>6
<1>8. StepIsNew
  <2> SUFFICES ASSUME NEW q \in made, q[1] = r[1], k \in Steps
               PROVE  jobs[q[2]].status = "deleted"
    BY DEF StepIsNew
  <2>1. q[2] \in Jobs /\ (jobs[q[2]].status = "deleted" \/ jobs[q[2]].wf = StepOf(k))
    BY DEF HttpInv, MadeOK
  <2>2. StepOf(k) # None
    BY HttpAssumption DEF StepOf
  <2> QED  BY <2>1, <2>2 DEF StepHeld
<1> QED  BY <1>2, <1>3, <1>4, <1>7, <1>8, NoBatchKeeps DEF f

LEMMA ExecuteKeeps ==
    ASSUME HttpInv, NEW r \in Reqs, Execute(r) PROVE HttpInv'
<1>0. reqs[r].st = "admitted" /\ calls' = calls /\ stuck' = stuck
  BY DEF Execute
<1>1. ASSUME NEW o, ExecuteEnqueue(r, o), NEW ans, Answers(r, ans)
      PROVE  HttpInv'
  <2> DEFINE idem == IdemOf(calls[r[1]].key)
             step == StepOf(calls[r[1]].key)
  <2>1. CASE /\ ~StepHeld(step)
             /\ \E j \in Jobs : /\ Db!enqueue(j, idem, None, step, {}, TRUE, "none", 2)
                                /\ made' = made \cup {<<r[1], j>>}
    <3>1. PICK j \in Jobs : /\ Db!enqueue(j, idem, None, step, {}, TRUE, "none", 2)
                            /\ made' = made \cup {<<r[1], j>>}
      BY <2>1
    <3>2. Cmd(r) \in Enqueues
      BY <1>1 DEF ExecuteEnqueue, Enqueues
    <3> QED  BY <1>0, <1>1, <2>1, <3>1, <3>2, CreatedKeeps
  <2>2. CASE UNCHANGED <<dbVars, made>>
    <3>1. TablesOK' /\ TablesMove
      BY <2>2, TablesStay DEF HttpInv
    <3> QED  BY <1>0, <1>1, <2>2, <3>1, RefusedKeeps
  <2> QED  BY <1>1, <2>1, <2>2 DEF ExecuteEnqueue
<1>2. ASSUME NEW o, \/ ExecuteRunner(r, o) \/ ExecuteOperator(r, o)
                    \/ ExecutePlans(r, o) \/ ExecuteSchedules(r, o) \/ ExecuteReads(r, o)
                    \/ ExecutePages(r, o) \/ ExecuteQueues(r, o),
             NEW ans, Answers(r, ans)
      PROVE  HttpInv'
  <2>1. TablesOK' /\ TablesMove /\ made' = made
    BY <1>2, RunnerKeeps, OperatorKeeps, OthersKeep
  <2> QED  BY <1>0, <1>2, <2>1, RefusedKeeps
<1>3. ASSUME NEW ans, Answers(r, ans), UNCHANGED <<dbVars, made>> PROVE HttpInv'
  <2>1. TablesOK' /\ TablesMove
    BY <1>3, TablesStay DEF HttpInv
  <2> QED  BY <1>0, <1>3, <2>1, RefusedKeeps
<1> QED  BY <1>1, <1>2, <1>3 DEF Execute

LEMMA GrantsKeep ==
    ASSUME HttpInv, NEW r \in Reqs, ClaimGrants(r) PROVE HttpInv'
<1>1. PICK S \in SUBSET Claimable \ {{}} :
         \E f \in [S -> {a \in Attempts : attempts[a].status = "absent"}] :
           /\ ClaimsBatch(S, f)
           /\ \/ /\ reqs' = [reqs EXCEPT ![r].st = "granted", ![r].got = {f[j] : j \in S}]
                 /\ UNCHANGED stuck
              \/ /\ reqs' = [reqs EXCEPT ![r].st = "answered", ![r].got = {f[j] : j \in S},
                                         ![r].ans = Seen(r, "TQ503")]
                 /\ stuck' = stuck \cup {f[j] : j \in S}
  BY DEF ClaimGrants
<1>2. PICK f \in [S -> {a \in Attempts : attempts[a].status = "absent"}] :
         /\ ClaimsBatch(S, f)
         /\ \/ /\ reqs' = [reqs EXCEPT ![r].st = "granted", ![r].got = {f[j] : j \in S}]
               /\ UNCHANGED stuck
            \/ /\ reqs' = [reqs EXCEPT ![r].st = "answered", ![r].got = {f[j] : j \in S},
                                       ![r].ans = Seen(r, "TQ503")]
               /\ stuck' = stuck \cup {f[j] : j \in S}
  BY <1>1
<1>3. Cmd(r) = "CLAIM" /\ reqs[r].st = "admitted" /\ calls' = calls /\ made' = made
  BY DEF ClaimGrants
<1>4. /\ TablesOK' /\ TablesMove
      /\ \A j \in S : f[j] \in Attempts /\ attempts'[f[j]].status = "running"
  BY <1>1, <1>2, TablesClaim DEF HttpInv, ClaimsBatch
<1> DEFINE G == {f[j] : j \in S}
<1>5. G \subseteq Attempts /\ \A a \in G : attempts'[a].status = "running"
  BY <1>4
<1>6. \/ /\ reqs' = [reqs EXCEPT ![r].st = "granted", ![r].got = G]
         /\ stuck' = stuck
      \/ /\ reqs' = [reqs EXCEPT ![r].st = "answered", ![r].got = G,
                                 ![r].ans = Seen(r, "TQ503")]
         /\ stuck' = stuck \cup G
  BY <1>2
<1> HIDE DEF G
<1>7. reqs[r].todo = {} /\ IsReq(reqs[r])
  BY <1>3 DEF HttpInv, ReqOK, Batch, Shape
<1>8. ASSUME NEW q, reqs' = [reqs EXCEPT ![r] = q], IsReq(q), q.got = G, q.todo = {},
             q.st \in {"granted", "answered"}, stuck \subseteq stuck',
             q.st = "answered" => G \subseteq stuck'
      PROVE  HttpInv'
  <2>1. /\ reqs' = [s \in Reqs |-> reqs'[s]] /\ reqs'[r] = q
        /\ \A s \in Reqs : s # r => reqs'[s] = reqs[s]
    BY <1>8 DEF HttpInv, Shape
  <2>2. Batch(r)'
    BY <1>3, <1>5, <1>8, <2>1 DEF Batch, Cmd
  <2>3. Returned(r)'
    BY <1>8, <2>1 DEF Returned, Over
  <2>4. FacadeFrame(r, q)
    BY <1>3, <1>8, <2>1 DEF FacadeFrame
  <2> QED  BY <1>3, <1>4, <1>8, <2>2, <2>3, <2>4, FacadeKeeps DEF StepIsNew
<1>9. CASE reqs' = [reqs EXCEPT ![r].st = "granted", ![r].got = G] /\ stuck' = stuck
  <2> DEFINE q == GrantRow(reqs[r], G)
  <2>1. IsReq(q) /\ q.st = "granted" /\ q.got = G /\ q.todo = {}
    BY <1>7, GrantWritten
  <2>2. reqs' = [reqs EXCEPT ![r] = q]
    BY <1>9 DEF HttpInv, Shape, GrantRow
  <2> HIDE DEF q
  <2> QED  BY <1>8, <1>9, <2>1, <2>2
<1>10. CASE /\ reqs' = [reqs EXCEPT ![r].st = "answered", ![r].got = G,
                                   ![r].ans = Seen(r, "TQ503")]
            /\ stuck' = stuck \cup G
  <2> DEFINE x == Seen(r, "TQ503")
             q == LostRow(reqs[r], G, x)
  <2>1. IsReq(q) /\ q.st = "answered" /\ q.got = G /\ q.todo = {}
    BY <1>7, LostWritten
  <2>2. reqs' = [reqs EXCEPT ![r] = q]
    <3> HIDE DEF x
    <3>1. reqs' = [reqs EXCEPT ![r].st = "answered", ![r].got = G, ![r].ans = x]
      BY <1>10 DEF x
    <3> QED  BY <3>1 DEF HttpInv, Shape, LostRow
  <2> HIDE DEF q
  <2> QED  BY <1>8, <1>10, <2>1, <2>2
<1> QED  BY <1>6, <1>9, <1>10

LEMMA DeliveryKeeps ==
    ASSUME HttpInv, NEW r \in Reqs, CheckDelivery(r) PROVE HttpInv'
<1>1. /\ reqs[r].st = "granted" /\ calls' = calls /\ made' = made /\ stuck' = stuck
      /\ UNCHANGED dbVars
  BY DEF CheckDelivery
<1>2. TablesOK' /\ TablesMove /\ attempts' = attempts /\ jobs' = jobs
  BY <1>1, TablesStay DEF HttpInv, dbVars
<1>3. Batch(r) /\ IsReq(reqs[r])
  BY DEF HttpInv, ReqOK, Shape
<1>4. CASE Answers(r, "claimed")
  <2>1. PICK x : FacadeFrame(r, AnswerRow(reqs[r], x)) /\ x = "claimed"
    BY <1>1, <1>4, AnswersWrites
  <2> DEFINE q == AnswerRow(reqs[r], x)
  <2>2. q.st = "answered" /\ q.got = reqs[r].got /\ q.todo = reqs[r].todo /\ q.ans = "claimed"
    BY <1>3, <2>1, AnswerWrittenRow
  <2>3. reqs'[r] = q
    BY <2>1 DEF FacadeFrame
  <2> HIDE DEF q
  <2>4. Batch(r)'
    BY <1>1, <1>2, <1>3, <2>2, <2>3 DEF Batch
  <2>5. Returned(r)'
    BY <2>2, <2>3 DEF Returned, Over
  <2> QED  BY <1>1, <1>2, <2>1, <2>4, <2>5, FacadeKeeps DEF StepIsNew
<1>5. CASE reqs' = [reqs EXCEPT ![r].st = "releasing", ![r].todo = reqs[r].got]
  <2> DEFINE q == BackRow(reqs[r])
  <2>1. /\ reqs' = [s \in Reqs |-> reqs'[s]] /\ reqs'[r] = q
        /\ \A s \in Reqs : s # r => reqs'[s] = reqs[s]
    BY <1>5 DEF HttpInv, Shape, BackRow
  <2>2. IsReq(q) /\ q.st = "releasing" /\ q.got = reqs[r].got /\ q.todo = reqs[r].got
    BY <1>3, BackWritten
  <2> HIDE DEF q
  <2>3. Batch(r)'
    BY <1>1, <1>2, <1>3, <2>1, <2>2 DEF Batch
  <2>4. Returned(r)'
    BY <2>1, <2>2 DEF Returned, Over
  <2>5. FacadeFrame(r, q)
    BY <1>1, <2>1, <2>2 DEF FacadeFrame
  <2> QED  BY <1>1, <1>2, <2>3, <2>4, <2>5, FacadeKeeps DEF StepIsNew
<1> QED  BY <1>4, <1>5 DEF CheckDelivery

\* An attempt that is released is not current any more.
LEMMA ReleasedAttempt ==
    ASSUME TablesOK, NEW a \in Attempts, Db!release_job(a, TRUE)
    PROVE  TablesOK' /\ TablesMove /\ ~JP!Fenced(a)'
<1>1. TablesOK' /\ TablesMove
  BY TablesRunner
<1>2. \E s \in {"released", "cancelled"} : attempts' = [attempts EXCEPT ![a].status = s]
  BY DEF Db!release_job, Db!Settle
<1>3. attempts \in [Attempts -> JP!AttemptRow]
  BY DEF TablesOK, JP!Inv, JP!TypeOK
<1>4. attempts'[a].status # "running"
  BY <1>2, <1>3 DEF JP!AttemptRow
<1> QED  BY <1>1, <1>4, FencedRunsNext DEF TablesOK

LEMMA HandBackKeeps ==
    ASSUME HttpInv, NEW r \in Reqs, HandBack(r) PROVE HttpInv'
<1>1. reqs[r].st = "releasing" /\ calls' = calls /\ made' = made
  BY DEF HandBack
<1>2. Batch(r) /\ Returned(r) /\ IsReq(reqs[r])
  BY DEF HttpInv, ReqOK, Shape
<1>3. ASSUME NEW a \in reqs[r].todo, reqs' = [reqs EXCEPT ![r].todo = @ \ {a}],
             \/ Db!release_job(a, TRUE) /\ UNCHANGED stuck
             \/ ~Db!Fenced(a) /\ UNCHANGED <<dbVars, stuck>>
             \/ stuck' = stuck \cup {a} /\ UNCHANGED dbVars
      PROVE  HttpInv'
  <2>1. a \in Attempts /\ a \in reqs[r].got
    BY <1>2 DEF Batch
  <2>2. /\ TablesOK' /\ TablesMove /\ stuck \subseteq stuck'
        /\ JP!Fenced(a)' => a \in stuck'
    <3>1. CASE Db!release_job(a, TRUE) /\ UNCHANGED stuck
      BY <2>1, <3>1, ReleasedAttempt DEF HttpInv
    <3>2. CASE ~Db!Fenced(a) /\ UNCHANGED <<dbVars, stuck>>
      <4>1. ~JP!Fenced(a) /\ jobs' = jobs /\ attempts' = attempts
        BY <3>2, TableFence DEF dbVars
      <4>2. ~JP!Fenced(a)'
        BY <4>1 DEF JP!Fenced
      <4> QED  BY <3>2, <4>2, TablesStay DEF HttpInv
    <3>3. CASE stuck' = stuck \cup {a} /\ UNCHANGED dbVars
      BY <3>3, TablesStay DEF HttpInv
    <3> QED  BY <1>3, <3>1, <3>2, <3>3
  <2> DEFINE q == HandRow(reqs[r], a)
  <2>3. /\ reqs' = [s \in Reqs |-> reqs'[s]] /\ reqs'[r] = q
        /\ \A s \in Reqs : s # r => reqs'[s] = reqs[s]
    BY <1>3 DEF HttpInv, Shape, HandRow
  <2>4. /\ IsReq(q) /\ q.st = "releasing" /\ q.got = reqs[r].got
        /\ q.todo = reqs[r].todo \ {a}
    BY <1>1, <1>2, HandWritten
  <2> HIDE DEF q
  <2>5. Batch(r)'
    BY <1>1, <1>2, <2>2, <2>3, <2>4 DEF Batch, TablesMove
  <2>6. Returned(r)'
    <3> SUFFICES ASSUME NEW b \in q.got \ q.todo, JP!Fenced(b)' PROVE b \in stuck'
      BY <2>3, <2>4 DEF Returned, Over
    <3>1. CASE b = a
      BY <2>2, <3>1
    <3>2. CASE b # a
      <4>1. b \in reqs[r].got \ reqs[r].todo /\ b \in Attempts /\ attempts[b].status # "absent"
        BY <1>2, <2>4, <3>2 DEF Batch
      <4>2. JP!Fenced(b) => b \in stuck
        BY <1>1, <1>2, <4>1 DEF Returned, Over
      <4> QED  BY <2>2, <4>1, <4>2 DEF TablesMove
    <3> QED  BY <3>1, <3>2
  <2>7. FacadeFrame(r, q)
    BY <1>1, <2>3, <2>4 DEF FacadeFrame
  <2> QED  BY <1>1, <2>2, <2>5, <2>6, <2>7, FacadeKeeps DEF StepIsNew
<1>4. CASE reqs[r].todo = {} /\ Answers(r, "TQ503") /\ UNCHANGED <<dbVars, stuck>>
  <2>1. TablesOK' /\ TablesMove /\ attempts' = attempts /\ jobs' = jobs
    BY <1>4, TablesStay DEF HttpInv, dbVars
  <2>2. PICK x : FacadeFrame(r, AnswerRow(reqs[r], x))
    BY <1>1, <1>4, AnswersWrites
  <2> DEFINE q == AnswerRow(reqs[r], x)
  <2>3. q.st = "answered" /\ q.got = reqs[r].got /\ q.todo = {}
    BY <1>2, <1>4, AnswerWrittenRow
  <2>4. reqs'[r] = q
    BY <2>2 DEF FacadeFrame
  <2> HIDE DEF q
  <2>5. Batch(r)'
    BY <1>1, <1>2, <2>1, <2>3, <2>4 DEF Batch
  <2>6. \A b \in reqs[r].got : JP!Fenced(b) => b \in stuck
    BY <1>1, <1>2, <1>4 DEF Returned, Over
  <2>7. Over(reqs'[r]) \subseteq reqs[r].got
    BY <2>3, <2>4 DEF Over
  <2>8. Returned(r)'
    BY <1>4, <2>1, <2>6, <2>7 DEF Returned, JP!Fenced
  <2> QED  BY <1>1, <1>4, <2>1, <2>2, <2>5, <2>8, FacadeKeeps DEF StepIsNew
<1> QED  BY <1>3, <1>4 DEF HandBack

----------------------------------------------------------------------------
(* The whole system *)

LEMMA CloseKeeps ==
    ASSUME HttpInv, UNCHANGED <<dbVars, calls, reqs, made, stuck>> PROVE HttpInv'
<1>1. TablesOK' /\ jobs' = jobs /\ attempts' = attempts
  BY TablesStay DEF HttpInv, dbVars
<1>2. \A r \in Reqs : ReqOK(r)'
  BY <1>1 DEF HttpInv, ReqOK, Sent, Batch, Returned, JP!Fenced
<1>3. \A p \in made' : MadeOK(p)'
  BY <1>1 DEF HttpInv, MadeOK
<1>4. Shape' /\ SingleRow' /\ SingleStep' /\ \A c \in Calls : CallOK(calls'[c])
  BY <1>1 DEF HttpInv, Shape, SingleRow, SingleStep
<1> QED  BY <1>1, <1>2, <1>3, <1>4 DEF HttpInv

LEMMA ElsewhereKeeps ==
    ASSUME HttpInv, Elsewhere PROVE HttpInv'
<1>1. TablesOK' /\ TablesMove
  <2>1. \E j \in Jobs : Db!expire_job(j) \/ Db!cancel_job(j) \/ Db!janitor({j})
    BY DEF Elsewhere
  <2> QED  BY <2>1, TablesOperator DEF HttpInv
<1>2. calls' = calls /\ reqs' = reqs /\ made' = made /\ stuck' = stuck
  BY DEF Elsewhere
<1>3. ASSUME NEW r \in Reqs PROVE ReqOK(r)'
  <2>1. Sent(r) /\ Batch(r) /\ Returned(r)
    BY DEF HttpInv, ReqOK
  <2>2. Batch(r)'
    BY <1>1, <1>2, <2>1 DEF Batch, TablesMove
  <2>3. Over(reqs[r]) \subseteq reqs[r].got
    BY <2>1 DEF Over, Batch
  <2>4. \A a \in Over(reqs[r]) : a \in Attempts /\ attempts[a].status # "absent"
    BY <2>1, <2>3 DEF Batch
  <2>5. Returned(r)'
    BY <1>1, <1>2, <2>1, <2>4 DEF Returned, TablesMove
  <2> QED  BY <1>2, <2>1, <2>2, <2>5 DEF ReqOK, Sent
<1>4. ASSUME NEW p \in made PROVE MadeOK(p)'
  <2>1. MadeOK(p) /\ p[2] \in Jobs
    BY DEF HttpInv, MadeOK
  <2> QED  BY <1>1, <1>2, <2>1 DEF MadeOK, TablesMove
<1>5. Shape' /\ SingleRow' /\ \A c \in Calls : CallOK(calls'[c])
  BY <1>2 DEF HttpInv, Shape, SingleRow
<1>6. SingleStep'
  <2>1. \A p \in made : p[2] \in Jobs
    BY DEF HttpInv, MadeOK
  <2> QED  BY <1>1, <1>2, <2>1 DEF HttpInv, SingleStep, TablesMove
<1> QED  BY <1>1, <1>2, <1>3, <1>4, <1>5, <1>6 DEF HttpInv

LEMMA HttpNextInv == HttpInv /\ [HttpNext]_httpVars => HttpInv'
<1> SUFFICES ASSUME HttpInv, [HttpNext]_httpVars PROVE HttpInv'
  OBVIOUS
<1>1. ASSUME NEW c \in Calls, Invoke(c) \/ ClientStep(c) PROVE HttpInv'
  BY <1>1, InvokeKeeps, StartKeeps, SendKeeps, TransportErrorKeeps, ReceiveKeeps DEF ClientStep
<1>2. ASSUME NEW r \in Reqs, Facade(r) PROVE HttpInv'
  BY <1>2, AdmitKeeps, ExecuteKeeps, GrantsKeep, ClaimEmptyKeeps, DeliveryKeeps, HandBackKeeps
     DEF Facade
<1>3. ASSUME NEW cl \in Clients, Close(cl) PROVE HttpInv'
  BY <1>3, CloseKeeps DEF Close
<1>4. CASE UNCHANGED httpVars
  BY <1>4, CloseKeeps DEF httpVars
<1> QED  BY <1>1, <1>2, <1>3, <1>4, ElsewhereKeeps DEF HttpNext, Reqs

\* The rows the system starts with.
\* A row JP!RowOK speaks of, and the key it was enqueued with.
GoodRow(e, s) == e \in JP!JobRow /\ JP!RowOK(e) /\ e.idem = None /\ e.status = s

LEMMA MovesGood ==
    ASSUME NEW r, NEW s, NEW e, GoodRow(r, s), s # "absent", JP!RowMoves(r, e), e.status # "deleted"
    PROVE  GoodRow(e, e.status)
BY DEF GoodRow, JP!RowMoves, JP!RowStep

LEMMA NoJobGood == GoodRow(Db!NoJob, "absent")
<1>1. Db!NoJob = JP!NoJob
  BY DEF Db!NoJob, JP!NoJob
<1>2. JP!NoJob \in JP!JobRow /\ JP!Free(JP!NoJob) /\ JP!NoJob.status = "absent"
  BY TableConstants, JP!NoJobRow
<1>3. /\ JP!NoJob.outcome = None /\ JP!NoJob.failures = 0 /\ JP!NoJob.streak = 0
      /\ JP!NoJob.max = 0 /\ JP!NoJob.idem = None
  BY DEF JP!NoJob
<1>4. None \notin {"retry_exhausted", "poison"}
  BY TableConstants DEF JP!Outcomes
<1> QED  BY <1>1, <1>2, <1>3, <1>4 DEF GoodRow, JP!RowOK, JP!Active

LEMMA WaitsGood ==
    /\ GoodRow(Waits, "queued") /\ Waits.cancel = FALSE /\ Waits.failures = 0
    /\ Waits.streak = 0 /\ Waits.max = 2
<1>1. Waits = JP!NewJob("queued", None, None, None, None, 0, TRUE, "none", 2)
  BY DEF Waits, Db!NewJob, JP!NewJob, Db!NoJob, JP!NoJob
<1> DEFINE e == JP!NewJob("queued", None, None, None, None, 0, TRUE, "none", 2)
<1>2. e \in JP!JobRow
  BY DEF JP!NewJob, JP!NoJob, JP!JobRow, JP!JobStatus, JP!Active
<1>3. JP!Free(e) /\ e.status = "queued" /\ e.cancel = FALSE
  BY DEF JP!NewJob, JP!NoJob, JP!Free
<1>4. e.failures = 0 /\ e.streak = 0 /\ e.max = 2 /\ e.outcome = None /\ e.idem = None
  BY DEF JP!NewJob, JP!NoJob
<1> HIDE DEF e
<1>5. JP!RowMoves(JP!NoJob, e)
  <2>1. JP!NoJob.status = "absent"
    BY TableConstants, JP!NoJobRow
  <2> QED  BY <1>2, <1>3, <1>4, <2>1, TableConstants, JP!NewMoves
<1> QED  BY <1>1, <1>3, <1>4, <1>5 DEF GoodRow, JP!RowMoves, e

LEMMA ClaimedGood ==
    ASSUME NEW r, GoodRow(r, "queued"), NEW a \in Attempts
    PROVE  LET e == Db!Claimed(r, a, Worker) IN
           /\ GoodRow(e, "running") /\ e.att = a /\ e.worker = Worker /\ e.lease = "live"
           /\ e.cancel = r.cancel /\ e.failures = r.failures /\ e.streak = r.streak
           /\ e.max = r.max
<1> DEFINE e == JP!Claimed(r, a, Worker)
<1>1. Db!Claimed(r, a, Worker) = e
  BY TableRows
<1>2. r \in JP!JobRow /\ JP!RowOK(r) /\ r.status = "queued" /\ Worker \in {Worker}
  BY DEF GoodRow
<1>3. /\ JP!RowMoves(r, e) /\ e.status = "running"
      /\ e.att = a /\ e.worker = Worker /\ e.lease = "live"
  BY <1>2, TableConstants, JP!ClaimedMoves
<1>4. /\ JP!SameJob(r, e) /\ e.failures = r.failures /\ e.streak = r.streak
  BY <1>2, TableConstants, JP!ClaimedRow
<1>5. e.cancel = r.cancel
  BY <1>2 DEF JP!Claimed, JP!JobRow
<1> HIDE DEF e
<1>6. GoodRow(e, "running")
  BY <1>3, MovesGood
<1> QED  BY <1>1, <1>3, <1>4, <1>5, <1>6 DEF JP!SameJob

\* The first lease that runs out returns the row to its queue.
LEMMA LostOnce ==
    ASSUME NEW a \in Attempts PROVE GoodRow(LeaseLost(Waits, a), "queued")
<1> DEFINE r == Db!Claimed(Waits, a, Worker)
<1>1. /\ GoodRow(r, "running") /\ r.cancel = FALSE /\ r.failures = 0 /\ r.streak = 0 /\ r.max = 2
  BY WaitsGood, ClaimedGood
<1>2. LeaseLost(Waits, a) = JP!Reaped(r)
  BY TableRows DEF LeaseLost
<1> HIDE DEF r
<1>3. r \in JP!JobRow /\ JP!RowOK(r) /\ r.status = "running"
  BY <1>1 DEF GoodRow
<1>4. JP!RowMoves(r, JP!Reaped(r)) /\ JP!Reaped(r).status # "deleted"
  BY <1>3, TableConstants, JP!ReapedMoves
<1>5. JP!Reaped(r) = JP!Requeued(JP!Charged(r, 1), FALSE)
  <2>1. ~r.cancel
    BY <1>1
  <2>2. r.streak + 1 = 1 /\ ~(1 >= 3) /\ ~(r.failures + 1 >= r.max)
    BY <1>1
  <2>3. JP!Charged(r, r.streak + 1) = JP!Charged(r, 1)
    BY <2>2
  <2> QED  BY <2>1, <2>2, <2>3, Zenon DEF JP!Reaped
<1>6. JP!Charged(r, 1) \in JP!JobRow
  BY <1>3, TableConstants, JP!ChargedRow
<1>7. JP!Reaped(r).status = "queued"
  BY <1>5, <1>6, TableConstants, JP!RequeuedRow
<1> QED  BY <1>1, <1>2, <1>4, <1>7, MovesGood

LEMMA LostTwice ==
    ASSUME NEW a \in Attempts
    PROVE  LET e == LeaseLost(LeaseLost(Waits, a), a) IN
           GoodRow(e, e.status) /\ e.status \in {"queued", "failed", "cancelled"}
<1> DEFINE r == Db!Claimed(LeaseLost(Waits, a), a, Worker)
<1>1. GoodRow(r, "running")
  BY LostOnce, ClaimedGood
<1>2. LeaseLost(LeaseLost(Waits, a), a) = JP!Reaped(r)
  BY TableRows DEF LeaseLost
<1> HIDE DEF r
<1>3. r \in JP!JobRow /\ JP!RowOK(r) /\ r.status = "running"
  BY <1>1 DEF GoodRow
<1>4. JP!RowMoves(r, JP!Reaped(r)) /\ JP!Reaped(r).status \in {"queued", "failed", "cancelled"}
  BY <1>3, TableConstants, JP!ReapedMoves
<1> QED  BY <1>1, <1>2, <1>4, MovesGood

LEMMA HttpInitInv == HttpInit => HttpInv
<1> SUFFICES ASSUME HttpInit PROVE HttpInv
  OBVIOUS
<1>1. PICK a \in Attempts, f \in [Jobs -> {"absent", "queued", "running", "failed"}] :
         /\ \A i, j \in Jobs : f[i] = "running" /\ f[j] = "running" => i = j
         /\ jobs = [j \in Jobs |->
              CASE f[j] = "absent"  -> Db!NoJob
                [] f[j] = "queued"  -> Waits
                [] f[j] = "running" -> Db!Claimed(Waits, a, Worker)
                [] f[j] = "failed"  -> LeaseLost(LeaseLost(Waits, a), a)]
         /\ attempts = [b \in Attempts |->
              IF b = a /\ \E j \in Jobs : f[j] = "running"
                THEN [status |-> "running", job |-> CHOOSE j \in Jobs : f[j] = "running",
                      worker |-> Worker]
                ELSE Db!NoAttempt]
  BY DEF HttpInit
<1>2. /\ deps = {} /\ limits = [ck \in {} |-> 1] /\ settledBy = [b \in Attempts |-> None]
      /\ needs = [j \in Jobs |-> {}] /\ calls = [c \in Calls |-> NoCall]
      /\ reqs = [r \in Reqs |-> NoReq] /\ made = {} /\ stuck = {}
  BY DEF HttpInit, Reqs
<1> DEFINE Run == Db!Claimed(Waits, a, Worker)
<1>3. /\ GoodRow(Run, "running") /\ Run.att = a /\ Run.worker = Worker /\ Run.lease = "live"
  BY WaitsGood, ClaimedGood
<1> HIDE DEF Run
<1>4. ASSUME NEW j \in Jobs
      PROVE  /\ GoodRow(jobs[j], jobs[j].status)
             /\ jobs[j].status \in {"absent", "queued", "running", "failed", "cancelled"}
             /\ jobs[j].status = "running" <=> f[j] = "running"
             /\ f[j] = "running" => jobs[j] = Run
  <2>1. CASE f[j] = "absent"
    BY <1>1, <2>1, NoJobGood DEF GoodRow
  <2>2. CASE f[j] = "queued"
    BY <1>1, <2>2, WaitsGood DEF GoodRow
  <2>3. CASE f[j] = "running"
    BY <1>1, <1>3, <2>3 DEF GoodRow, Run
  <2>4. CASE f[j] = "failed"
    BY <1>1, <2>4, LostTwice
  <2> QED  BY <2>1, <2>2, <2>3, <2>4
<1> DEFINE Row(j) == [status |-> "running", job |-> j, worker |-> Worker]
<1>5. ASSUME NEW j \in Jobs, f[j] = "running" PROVE attempts[a] = Row(j)
  <2>1. (CHOOSE i \in Jobs : f[i] = "running") = j
    BY <1>1, <1>5
  <2> QED  BY <1>1, <1>5, <2>1
<1>6. \A b \in Attempts : attempts[b] = Db!NoAttempt \/ (b = a /\ \E j \in Jobs : f[j] = "running")
  BY <1>1
<1>7. Db!NoAttempt \in JP!AttemptRow /\ Db!NoAttempt.status = "absent"
  BY DEF Db!NoAttempt, JP!AttemptRow
<1>8. \A j \in Jobs : Row(j) \in JP!AttemptRow /\ Row(j).status = "running" /\ Row(j).job = j
  BY DEF JP!AttemptRow
<1> HIDE DEF Row
<1>9. JP!Inv
  <2>1. jobs \in [Jobs -> JP!JobRow]
    <3>1. jobs = [j \in Jobs |-> jobs[j]]
      BY <1>1
    <3>2. \A j \in Jobs : jobs[j] \in JP!JobRow
      BY <1>4 DEF GoodRow
    <3> QED  BY <3>1, <3>2
  <2>2. attempts \in [Attempts -> JP!AttemptRow]
    <3>1. attempts = [b \in Attempts |-> attempts[b]]
      BY <1>1
    <3>2. \A b \in Attempts : attempts[b] \in JP!AttemptRow
      BY <1>5, <1>6, <1>7, <1>8
    <3> QED  BY <3>1, <3>2
  <2>3. JP!TypeOK
    BY <1>2, <2>1, <2>2 DEF JP!TypeOK
  <2>4. \A j \in Jobs : JP!RowOK(jobs[j])
    BY <1>4 DEF GoodRow
  <2>5. JP!RunsUnder
    <3> SUFFICES ASSUME NEW j \in Jobs, jobs[j].status = "running"
                 PROVE  /\ jobs[j].att \in Attempts /\ jobs[j].lease # "none"
                        /\ attempts[jobs[j].att]
                             = [status |-> "running", job |-> j, worker |-> jobs[j].worker]
      BY DEF JP!RunsUnder
    <3>1. jobs[j] = Run /\ f[j] = "running"
      BY <1>4
    <3>2. jobs[j].att = a /\ jobs[j].worker = Worker /\ jobs[j].lease = "live"
      BY <1>3, <3>1
    <3> QED  BY <1>5, <3>1, <3>2 DEF Row
  <2>6. JP!Current
    <3> SUFFICES ASSUME NEW b \in Attempts, attempts[b].status \notin {"absent", "deleted"}
                 PROVE  attempts[b].job \in Jobs /\ jobs[attempts[b].job].att = b
      BY DEF JP!Current
    <3>1. PICK j \in Jobs : b = a /\ f[j] = "running"
      BY <1>6, <1>7
    <3>2. attempts[b] = Row(j) /\ jobs[j] = Run
      BY <1>4, <1>5, <3>1
    <3> QED  BY <1>3, <1>8, <3>1, <3>2
  <2> QED  BY <2>3, <2>4, <2>5, <2>6 DEF JP!Inv
<1>10. JP!DepInv /\ JP!OneActivePerKey
  <2>1. JP!DepInv
    BY <1>2, <1>4 DEF JP!DepInv, JP!DepOK, JP!EdgesOf
  <2>2. JP!OneActivePerKey
    BY <1>4 DEF GoodRow, JP!OneActivePerKey
  <2> QED  BY <2>1, <2>2
<1>11. Shape /\ \A c \in Calls : CallOK(calls[c])
  <2>1. IsCall(NoCall) /\ IsReq(NoReq) /\ CallOK(NoCall)
    BY TriesFacts DEF NoCall, NoReq, IsCall, IsReq, CallOK, AttemptCmds, JobCmds, Settlements,
                      Once, Enqueues
  <2> QED  BY <1>2, <2>1 DEF Shape
<1>12. \A r \in Reqs : ReqOK(r)
  <2>1. NoReq.st = "none" /\ NoReq.got = {} /\ NoReq.todo = {}
    BY DEF NoReq
  <2> QED  BY <1>2, <2>1 DEF ReqOK, Sent, Batch, Returned, Over
<1> QED  BY <1>2, <1>9, <1>10, <1>11, <1>12 DEF HttpInv, TablesOK, SingleRow, SingleStep

LEMMA HttpInvHolds == HttpSpec => []HttpInv
BY HttpInitInv, HttpNextInv, PTL DEF HttpSpec

----------------------------------------------------------------------------
(* Theorems *)

\* Once the facade answers a claim with anything but the jobs, no job of the
\* batch it took is still held by the attempt nobody was told of, except a job
\* whose own hand-back raised (_release_if_undeliverable) and the batch of a claim
\* whose committed answer never reached the facade (_claim, SqlTransport._run).
THEOREM HandedBackHolds == HttpSpec => []HandedBack
<1>1. HttpInv => HandedBack
  <2> SUFFICES ASSUME HttpInv, NEW r \in Reqs, reqs[r].st = "answered", reqs[r].ans # "claimed",
                      NEW a \in reqs[r].got, Db!Fenced(a)
               PROVE  a \in stuck
    BY DEF HandedBack, Reqs
  <2>1. Returned(r) /\ a \in Over(reqs[r])
    BY DEF HttpInv, ReqOK, Over
  <2> QED  BY <2>1, TableFence DEF Returned
<1> QED  BY <1>1, HttpInvHolds, PTL

\* A call the client sends again by itself (_can_retry) takes effect once: at
\* most one batch was ever taken for one call of claim(), and one call of
\* enqueue() leads to one active job and one row of the step it names.
THEOREM OnceDespiteRetryHolds == HttpSpec => []OnceDespiteRetry
<1>1. HttpInv => OnceDespiteRetry
  <2> SUFFICES ASSUME HttpInv PROVE OnceDespiteRetry
    OBVIOUS
  <2>1. ASSUME NEW c \in Calls
        PROVE  Cardinality({n \in Tries : reqs[<<c, n>>].got # {}}) <= 1
    <3> DEFINE B == {n \in Tries : reqs[<<c, n>>].got # {}}
    <3>1. ASSUME NEW n \in B PROVE n = 0
      <4>1. <<c, n>> \in Reqs /\ n \in Nat /\ reqs[<<c, n>>].got # {}
        BY TriesFacts
      <4>2. Sent(<<c, n>>) /\ Batch(<<c, n>>) /\ CallOK(calls[c])
        BY <4>1 DEF HttpInv, ReqOK
      <4>3. <<c, n>>[1] = c /\ <<c, n>>[2] = n
        OBVIOUS
      <4>4. calls[c].cmd = "CLAIM" /\ reqs[<<c, n>>].st # "none"
        BY <4>1, <4>2, <4>3 DEF Batch
      <4>5. calls[c].n = 0
        BY <4>2, <4>4 DEF CallOK, Once
      <4> QED  BY <4>1, <4>2, <4>3, <4>4, <4>5 DEF Sent
    <3>2. B \subseteq {0}
      BY <3>1
    <3>3. B = {} \/ B = {0}
      BY <3>2
    <3>4. Cardinality({}) = 0 /\ Cardinality({0}) = 1
      BY FS_EmptySet, FS_Singleton
    <3> HIDE DEF B
    <3>5. Cardinality(B) <= 1
      BY <3>3, <3>4
    <3> QED  BY <3>5 DEF B
  <2>2. ASSUME NEW p \in made, NEW q \in made, p[1] = q[1], p[2] # q[2]
        PROVE  /\ calls[p[1]].key # None
               /\ ~(jobs[p[2]].status \in Db!Active /\ jobs[q[2]].status \in Db!Active)
               /\ calls[p[1]].key \in Steps =>
                     "deleted" \in {jobs[p[2]].status, jobs[q[2]].status}
    <3>1. MadeOK(p) /\ MadeOK(q) /\ p[2] \in Jobs /\ q[2] \in Jobs
      BY DEF HttpInv, MadeOK
    <3>2. calls[p[1]].key # None
      BY <2>2 DEF HttpInv, SingleRow
    <3>3. calls[p[1]].key \in Steps => "deleted" \in {jobs[p[2]].status, jobs[q[2]].status}
      BY <2>2 DEF HttpInv, SingleStep
    <3>4. ASSUME jobs[p[2]].status \in Db!Active, jobs[q[2]].status \in Db!Active PROVE FALSE
      <4> DEFINE k == calls[p[1]].key
      <4>1. k \in IdemKeys \cup Steps
        BY <3>1, <3>2 DEF HttpInv, MadeOK, CallOK
      <4>2. k \notin Steps
        BY <3>3, <3>4 DEF Db!Active
      <4>3. IdemOf(k) = k
        BY <4>1, <4>2 DEF IdemOf
      <4>4. jobs[p[2]].idem = k /\ jobs[q[2]].idem = k
        BY <2>2, <3>1, <3>4, <4>3 DEF MadeOK, Db!Active
      <4>5. JP!OneActivePerKey /\ Db!Active = JP!Active
        BY DEF HttpInv, TablesOK, Db!Active, JP!Active
      <4> QED  BY <2>2, <3>1, <3>2, <3>4, <4>4, <4>5 DEF JP!OneActivePerKey
    <3> QED  BY <3>2, <3>3, <3>4
  <2> QED  BY <2>1, <2>2 DEF OnceDespiteRetry
<1> QED  BY <1>1, HttpInvHolds, PTL
=============================================================================
