--------------------------- MODULE TaskqLongPoll ---------------------------
(***************************************************************************)
(* How a claim request waits for work inside one API process: the hub that *)
(* counts hints per queue (http/hub.py), the connection that LISTENs for   *)
(* them (sql/notifications.py), the listener that keeps that connection    *)
(* alive (http/runtime.py), and the claim handler that asks the database,  *)
(* subscribes, asks again and sleeps (http/facade.py).                     *)
(*                                                                         *)
(* All of it runs on one event loop, so a step here is what the code does  *)
(* between two suspensions.  The hub suspends nowhere while it holds its   *)
(* lock and every hub operation is one step; connecting and LISTENing      *)
(* suspend while they hold the locks of the source and of the listener.    *)
(***************************************************************************)
EXTENDS Integers, FiniteSets

CONSTANTS Queues,       \* the queues that are polled
          Polls,        \* the claim requests that may be in the process at once
          Traffic       \* the bounds a behaviour is checked under: which requests
                        \* and queues there are, how many jobs become
                        \* ready, how many connections are lost or refused,
                        \* whether a host that stops is cancelled

ASSUME TrafficBounds ==
  Traffic \subseteq [polls : SUBSET Polls, queues : SUBSET Queues, jobs : Nat, drops : Nat,
                     embedded : BOOLEAN, housekeeper : BOOLEAN, cancels : BOOLEAN]

VARIABLES hub,          \* generations, and whether it was shut down
          source,       \* the LISTEN connection
          listener,     \* the task that owns the connection, and its hints
          wire,         \* queues with a notification on its way to the process
          polls,        \* the claim requests
          ready,        \* queue -> ready jobs, by whether a NOTIFY announced them
          budget,       \* what is left to the environment
          pool          \* the request transport is open

pollVars == <<hub, source, listener, wire, polls, ready, budget, pool>>

Nobody == "nobody"
Monitor == "monitor"

\* A lock names its holder.
ASSUME NamesApart == Nobody \notin Polls /\ Monitor \notin Polls

Idle == [pc |-> "idle", queue |-> CHOOSE q \in Queues : TRUE, waits |-> FALSE,
         seen |-> 0, event |-> FALSE]

\* Where a request holds a subscription of the hub.
Subscribed(p) == polls[p].pc \in {"recheck", "check", "wait"}

NewHub == [known |-> {}, generation |-> [q \in Queues |-> 0], closed |-> FALSE]

NewSource == [connection |-> "none", lock |-> Nobody, channels |-> {},
              listening |-> {}, closed |-> FALSE]

NewListener == [queues |-> {}, lock |-> Nobody, monitor |-> "none", healthy |-> TRUE,
                pending |-> {}, close |-> "open"]

PollInit == /\ hub = NewHub
            /\ source = NewSource
            /\ listener = NewListener
            /\ wire = {}
            /\ polls = [p \in Polls |-> Idle]
            /\ ready = [q \in Queues |-> [told |-> 0, silent |-> 0]]
            /\ budget \in Traffic
            /\ pool = TRUE

-----------------------------------------------------------------------------
(* The hub. *)

Bumped(queues) == [q \in Queues |-> hub.generation[q] + (IF q \in queues THEN 1 ELSE 0)]

\* The subscribers of some queues are woken.
Woken(queues) ==
  [p \in Polls |-> IF Subscribed(p) /\ polls[p].queue \in queues
                   THEN [polls[p] EXCEPT !.event = TRUE] ELSE polls[p]]

\* notify(queue), for each queue of a set.
NotifyQueues(queues) ==
  IF hub.closed THEN UNCHANGED <<hub, polls>>
  ELSE /\ hub' = [hub EXCEPT !.known = @ \cup queues, !.generation = Bumped(queues)]
       /\ polls' = Woken(queues)

\* notify(): every queue that was ever named is bumped, every subscriber woken.
NotifyAll ==
  IF hub.closed THEN UNCHANGED <<hub, polls>>
  ELSE /\ hub' = [hub EXCEPT !.generation = Bumped(hub.known)]
       /\ polls' = Woken(Queues)

HubShutdown ==
  IF hub.closed THEN UNCHANGED <<hub, polls>>
  ELSE /\ hub' = [hub EXCEPT !.closed = TRUE, !.generation = Bumped(hub.known)]
       /\ polls' = Woken(Queues)

-----------------------------------------------------------------------------
(* The source: one LISTEN connection, its lock held over every round trip. *)

\* connect() has the lock and waits for the server.
Connecting(who, queues) ==
  source' = [source EXCEPT !.lock = who, !.channels = @ \cup queues]

\* Every channel ever asked for is LISTENed to.
Connected == source' = [source EXCEPT !.lock = Nobody, !.connection = "up",
                                      !.listening = source.channels]

Refused == /\ budget.drops > 0
           /\ budget' = [budget EXCEPT !.drops = @ - 1]
           /\ source' = [source EXCEPT !.lock = Nobody]

\* The server or the network ends the connection; what was on the wire is lost.
Drop == /\ source.connection = "up"
        /\ budget.drops > 0
        /\ budget' = [budget EXCEPT !.drops = @ - 1]
        /\ source' = [source EXCEPT !.connection = "down", !.listening = {}]
        /\ wire' = {}
        /\ UNCHANGED <<hub, listener, polls, ready, pool>>

-----------------------------------------------------------------------------
(* The listener. *)

\* A NOTIFY arrives: its queue joins the hints that one task drains.
Nudge(q) == /\ q \in wire
            /\ wire' = wire \ {q}
            /\ listener' = [listener EXCEPT !.pending = @ \cup {q}]
            /\ UNCHANGED <<hub, source, polls, ready, budget, pool>>

DrainNotifies == /\ listener.pending # {}
                 /\ listener' = [listener EXCEPT !.pending = {}]
                 /\ NotifyQueues(listener.pending)
                 /\ UNCHANGED <<source, wire, ready, budget, pool>>

\* The watched connection ended: the first watch reconnects at once, a watch
\* of the reconnect loop backs off first.
MonitorLoop ==
  /\ listener.monitor \in {"watch", "again"}
  /\ source.connection # "up"
  /\ listener' = [listener EXCEPT !.healthy = FALSE,
                    !.monitor = IF @ = "watch" THEN "connect" ELSE "backoff"]
  /\ UNCHANGED <<hub, source, wire, polls, ready, budget, pool>>

Backoff ==
  /\ listener.monitor = "backoff"
  /\ listener' = [listener EXCEPT !.monitor = "connect"]
  /\ UNCHANGED <<hub, source, wire, polls, ready, budget, pool>>

\* One round of the reconnect loop asks for the connection.
ReconnectBegins ==
  /\ listener.monitor = "connect"
  /\ IF listener.close # "open"
     THEN listener' = [listener EXCEPT !.monitor = "over"] /\ UNCHANGED source
     ELSE /\ source.lock = Nobody
          /\ Connecting(Monitor, listener.queues)
          /\ listener' = [listener EXCEPT !.monitor = "connecting"]
  /\ UNCHANGED <<hub, wire, polls, ready, budget, pool>>

\* Fault: the reconnect makes no sweep over the waiters.
ReconnectedSilently ==
  /\ listener.monitor = "connecting"
  /\ Connected
  /\ listener' = [listener EXCEPT !.healthy = TRUE, !.monitor = "again"]
  /\ UNCHANGED <<hub, wire, polls, ready, budget, pool>>

\* It is up again: hints may have been lost, so everybody is woken.
Reconnected ==
  /\ listener.monitor = "connecting"
  /\ Connected
  /\ listener' = [listener EXCEPT !.healthy = TRUE, !.monitor = "again"]
  /\ NotifyAll
  /\ UNCHANGED <<wire, ready, budget, pool>>

ReconnectFails ==
  /\ listener.monitor = "connecting"
  /\ Refused
  /\ listener' = [listener EXCEPT !.healthy = FALSE, !.monitor = "backoff"]
  /\ UNCHANGED <<hub, wire, polls, ready, pool>>

\* The three parts of aclose(): no more queues, no more connection, no more
\* monitor.  Each waits for the lock it needs.
ListenerCloses ==
  /\ listener.close = "open"
  /\ listener.lock = Nobody
  /\ listener' = [listener EXCEPT !.close = "source"]
  /\ UNCHANGED source

SourceCloses ==
  /\ listener.close = "source"
  /\ source.lock = Nobody
  /\ source' = [source EXCEPT !.closed = TRUE, !.connection = "none", !.listening = {}]
  /\ listener' = [listener EXCEPT !.close = "monitor"]

MonitorCancelled ==
  /\ listener.close = "monitor"
  /\ listener' = [listener EXCEPT !.close = "closed", !.monitor = "over"]
  /\ UNCHANGED source

CloseListener == ListenerCloses \/ SourceCloses \/ MonitorCancelled

-----------------------------------------------------------------------------
(* A claim request makes sure that its queue is listened to. *)

Step(p, pc) == polls' = [polls EXCEPT ![p].pc = pc]

\* What the request knew of the hub is behind it.
Forget(p, pc) == polls' = [polls EXCEPT ![p].pc = pc, ![p].seen = 0, ![p].event = FALSE]

Answered(p) == polls' = [polls EXCEPT ![p] = Idle]

\* A request comes in, with or without a time to wait.
PollArrives(p, q, waits) ==
  /\ polls[p].pc = "idle" /\ p \in budget.polls /\ q \in budget.queues
  /\ waits => ~hub.closed
  /\ polls' = [polls EXCEPT ![p].pc = IF waits THEN "ensure" ELSE "begin",
                            ![p].queue = q, ![p].waits = waits]
  /\ UNCHANGED <<hub, source, listener, wire, ready, budget, pool>>

\* ensure_queue under the listener's lock.
EnsureQueue(p) ==
  LET q == polls[p].queue IN
  /\ polls[p].pc = "ensure"
  /\ listener.lock = Nobody
  /\ CASE listener.close # "open" -> Answered(p) /\ UNCHANGED listener
       [] listener.close = "open" /\ q \in listener.queues ->
            Step(p, "begin") /\ UNCHANGED listener
       [] OTHER ->
            /\ listener' = [listener EXCEPT !.queues = @ \cup {q}, !.lock = p]
            /\ Step(p, IF listener.monitor = "none" THEN "connect" ELSE "add")
  /\ UNCHANGED <<hub, source, wire, ready, budget, pool>>

\* The first queue opens the connection.
FirstConnect(p) ==
  /\ polls[p].pc = "connect"
  /\ source.lock = Nobody
  /\ Connecting(p, {polls[p].queue})
  /\ Step(p, "connecting")
  /\ UNCHANGED <<hub, listener, wire, ready, budget, pool>>

FirstConnected(p) ==
  /\ polls[p].pc = "connecting"
  /\ Connected
  /\ listener' = [listener EXCEPT !.lock = Nobody, !.healthy = TRUE, !.monitor = "watch"]
  /\ Step(p, "begin")
  /\ UNCHANGED <<hub, wire, ready, budget, pool>>

\* A refused first connection is left to the reconnect loop.
FirstRefused(p) ==
  /\ polls[p].pc = "connecting"
  /\ Refused
  /\ listener' = [listener EXCEPT !.lock = Nobody, !.healthy = FALSE, !.monitor = "connect"]
  /\ Step(p, "begin")
  /\ UNCHANGED <<hub, wire, ready, pool>>

\* add_channels: with no connection the channel is only remembered.
AddChannel(p) ==
  /\ polls[p].pc = "add"
  /\ source.lock = Nobody
  /\ source' = [source EXCEPT !.channels = @ \cup {polls[p].queue},
                  !.lock = IF source.connection = "up" THEN p ELSE Nobody]
  /\ listener' = [listener EXCEPT !.lock = IF source.connection = "up" THEN p ELSE Nobody]
  /\ Step(p, IF source.connection = "up" THEN "listening" ELSE "begin")
  /\ UNCHANGED <<hub, wire, ready, budget, pool>>

\* The LISTEN is answered, or its connection ended and the request fails.
ChannelAdded(p) ==
  /\ polls[p].pc = "listening"
  /\ source' = [source EXCEPT !.lock = Nobody,
                  !.listening = IF source.connection = "up" THEN @ \cup {polls[p].queue} ELSE @]
  /\ listener' = [listener EXCEPT !.lock = Nobody]
  /\ IF source.connection = "up" THEN Step(p, "begin") ELSE Answered(p)
  /\ UNCHANGED <<hub, wire, ready, budget, pool>>

-----------------------------------------------------------------------------
(* The claim loop: generation, claim, subscribe, claim again, sleep. *)

Begin(p) ==
  /\ polls[p].pc = "begin"
  /\ polls' = [polls EXCEPT ![p].pc = "claim", ![p].seen = hub.generation[polls[p].queue]]
  /\ UNCHANGED <<hub, source, listener, wire, ready, budget, pool>>

\* The database hands out a job of the queue.
Takes(q) == \E kind \in {"told", "silent"} :
              /\ ready[q][kind] > 0
              /\ ready' = [ready EXCEPT ![q][kind] = @ - 1]

Empty(q) == ready[q].told = 0 /\ ready[q].silent = 0 /\ UNCHANGED ready

\* A claim that finds a job goes to deliver it; one that finds none goes on to
\* `next`; a closed transport, or a verdict other than empty, ends the request.
ClaimThen(p, next) ==
  \/ pool /\ Takes(polls[p].queue) /\ Forget(p, "deliver")
  \/ /\ pool
     /\ Empty(polls[p].queue)
     /\ IF polls[p].waits THEN Step(p, next) ELSE Answered(p)
  \/ Answered(p) /\ UNCHANGED ready

Claim(p) == /\ polls[p].pc = "claim"
            /\ ClaimThen(p, "subscribe")
            /\ UNCHANGED <<hub, source, listener, wire, budget, pool>>

\* The time is up, the hub is closed, or there is a new subscription: its event
\* is set when the generation has moved.
Subscribe(p) ==
  /\ polls[p].pc = "subscribe"
  /\ \/ Answered(p)
     \/ /\ ~hub.closed
        /\ polls' = [polls EXCEPT ![p].pc = "recheck", ![p].seen = 0,
                       ![p].event = hub.generation[polls[p].queue] # polls[p].seen]
  /\ UNCHANGED <<hub, source, listener, wire, ready, budget, pool>>

Recheck(p) == /\ polls[p].pc = "recheck"
              /\ ClaimThen(p, "check")
              /\ UNCHANGED <<hub, source, listener, wire, budget, pool>>

\* The client has gone, the time is up, or the request goes to sleep.
Check(p) == /\ polls[p].pc = "check"
            /\ Answered(p) \/ Step(p, "wait")
            /\ UNCHANGED <<hub, source, listener, wire, ready, budget, pool>>

\* The event, the poll interval or the deadline ends the sleep.
Wake(p) == /\ polls[p].pc = "wait"
           /\ Forget(p, "begin")
           /\ UNCHANGED <<hub, source, listener, wire, ready, budget, pool>>

\* The answer goes out, or its client has gone or waited too long and the job
\* is released: it is ready again and no NOTIFY says so.  A release that fails
\* leaves the job to its lease.
Deliver(p) == /\ polls[p].pc = "deliver"
              /\ Answered(p)
              /\ \/ UNCHANGED ready
                 \/ pool /\ ready' = [ready EXCEPT ![polls[p].queue].silent = @ + 1]
              /\ UNCHANGED <<hub, source, listener, wire, budget, pool>>

-----------------------------------------------------------------------------
(* Jobs become ready: a producer's commit notifies, the passing of a delay or *)
(* of a lease does not.                                                       *)

JobEnqueued(q) ==
  /\ budget.jobs > 0
  /\ budget' = [budget EXCEPT !.jobs = @ - 1]
  /\ ready' = [ready EXCEPT ![q].told = @ + 1]
  /\ wire' = IF q \in source.listening THEN wire \cup {q} ELSE wire
  /\ UNCHANGED <<hub, source, listener, polls, pool>>

JobMatures(q) ==
  /\ budget.jobs > 0
  /\ budget' = [budget EXCEPT !.jobs = @ - 1]
  /\ ready' = [ready EXCEPT ![q].silent = @ + 1]
  /\ UNCHANGED <<hub, source, listener, wire, polls, pool>>

EnsureStep(p) == \/ EnsureQueue(p) \/ FirstConnect(p) \/ FirstConnected(p)
                 \/ FirstRefused(p) \/ AddChannel(p) \/ ChannelAdded(p)

LoopStep(p) == \/ Begin(p) \/ Claim(p) \/ Subscribe(p) \/ Recheck(p)
               \/ Check(p) \/ Wake(p) \/ Deliver(p)

ListenerStep == \/ DrainNotifies \/ MonitorLoop \/ Backoff
                \/ ReconnectBegins \/ Reconnected \/ ReconnectFails
                \/ \E q \in Queues : Nudge(q)

PollNext == \/ \E p \in Polls : EnsureStep(p) \/ LoopStep(p)
            \/ ListenerStep \/ Drop
            \/ \E q \in budget.queues : JobEnqueued(q) \/ JobMatures(q)

\* The event loop runs what is runnable and every await on the database ends.
PollFairness == /\ \A p \in Polls : /\ WF_pollVars(EnsureStep(p))
                                    /\ WF_pollVars(LoopStep(p))
                /\ WF_pollVars(ListenerStep)

-----------------------------------------------------------------------------
(* Properties. *)

\* No request sleeps for ever.  While the process listens to a queue, one that
\* sleeps on it is never left behind a job that a NOTIFY announced: its event is
\* set, or the hint is on the wire or with the drainer (generation, recheck and
\* the sweep after a reconnect have to close every gap between the claim and the
\* sleep).  Once the hub is shut down everyone who slept was woken, and who was
\* between the claim and the subscription is refused.
NoLostWakeup ==
  /\ \A p \in Polls :
       LET q == polls[p].queue IN
       (/\ polls[p].pc \in {"check", "wait"} /\ ~polls[p].event
        /\ ready[q].told > 0 /\ q \in source.listening)
         => q \in wire \cup listener.pending \/ hub.closed
  /\ hub.closed => \A p \in Polls : polls[p].pc = "wait" => polls[p].event
=============================================================================
