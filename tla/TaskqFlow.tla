------------------------------ MODULE TaskqFlow ------------------------------
(***************************************************************************)
(* The gates of a claim under READ COMMITTED: the circuit breaker of 0031  *)
(* with the corrections of 0038, 0040 and 0041, the queue's running cap    *)
(* and the concurrency keys of 0042, with any number of claims,            *)
(* settlements and operators at once on one queue.                         *)
(*                                                                         *)
(* A statement sees what is committed, a writer waits for the row lock of  *)
(* queue_flow, and now() is the start of the transaction.  Times are ages  *)
(* in ticks: elapsed is how long ago a claim began, flow.age how long ago  *)
(* the breaker was tripped, exact as far as any comparison can tell.       *)
(*                                                                         *)
(* A member of Jobs is a place in a queue with a backlog: when its job     *)
(* ends the next job of the kind is ready to be claimed there.             *)
(***************************************************************************)
EXTENDS Naturals, FiniteSets

CONSTANTS Jobs, Claims, Keys, None,
          KeyOf,      \* [Jobs -> Keys \cup {None}]: concurrency_key
          KeyCap,     \* running jobs per key (concurrency_limits, or 1)
          QueueCap,   \* max_running of the queue
          Batch,      \* p_batch of a claim
          Threshold,  \* breaker_failure_threshold
          Cooldown,   \* breaker_cooldown_seconds
          Needed,     \* breaker_half_open_successes
          Volume,     \* breaker_min_volume, for a failure ratio of one half
          MaxElapsed, \* bound on the ticks a transaction waits for the row
          MaxWindow   \* bound on the settlements of one rate window

ASSUME FlowAssumption ==
    /\ KeyOf \in [Jobs -> Keys \cup {None}] /\ IsFiniteSet(Jobs)
    /\ IsFiniteSet(Claims)     \* as many as there are connections
    /\ None \notin Keys \cup {"half_open", "open"}
    /\ {KeyCap, QueueCap, Batch, Threshold, Cooldown, Needed, Volume} \subseteq Nat \ {0}
    /\ {MaxElapsed, MaxWindow} \subseteq Nat /\ Volume <= MaxWindow

VARIABLES running,  \* the jobs that are running, as committed
          flow,     \* the committed row of queue_flow
          claim,    \* the claims under way
          past      \* what happened, for the properties only

vars == <<running, flow, claim, past>>

NoWindow == [fail |-> 0, all |-> 0]

FlowInit == flow = [on |-> TRUE, state |-> "closed", age |-> 0, streak |-> 0,
                    probes |-> 0, window |-> NoWindow]

\* saturated are the keys a claim found full, took the rows it claims, skip those
\* it locked and left, keys the advisory locks it has; write is its update of the row.
NoClaim == [pc |-> "idle", elapsed |-> 0, write |-> None, batch |-> 0,
            saturated |-> {}, took |-> {}, skip |-> {}, keys |-> {}]

\* The settlements since the breaker last closed, the probes since it last
\* opened, and whether it was ever opened without the settlements for it.
PastInit == past = [fail |-> 0, all |-> 0, elections |-> 0, groundless |-> FALSE]

Init ==
    /\ running = {}
    /\ FlowInit
    /\ claim = [c \in Claims |-> NoClaim]
    /\ PastInit

AtMost(n, bound) == IF n < bound THEN n ELSE bound

MaxAge == 2 * Cooldown + 1 + MaxElapsed

Becomes(c, state) == claim' = [claim EXCEPT ![c] = state]

RowFree == \A c \in Claims : claim[c].write = None

Owns(c) == claim[c].took \cup claim[c].skip

RowLocked(j) == \E c \in Claims : j \in Owns(c)

\* now() - breaker_tripped_at >= t, as a transaction of that age sees it.
Past(t, elapsed) == flow.age >= t + elapsed

-----------------------------------------------------------------------------
(* The row of queue_flow, as a transaction leaves it. *)

Opened(elapsed) == [flow EXCEPT !.state = "open", !.age = elapsed, !.probes = 0]

Closed == [flow EXCEPT !.state = "closed", !.age = 0, !.streak = 0, !.probes = 0,
                       !.window = NoWindow]

Forget == past' = [past EXCEPT !.fail = 0, !.all = 0, !.elections = 0]

-----------------------------------------------------------------------------
(* A claim. *)

\* A claim that is not let through ends as throttled, and its transaction
\* commits what the gate wrote.
Throttled(c) == [claim[c] EXCEPT !.pc = "commit", !.elapsed = 0]

Through(c) == [claim[c] EXCEPT !.pc = "cap", !.elapsed = 0]

WaitsTo(c, update) == [claim[c] EXCEPT !.pc = update]

GateWaitsForever(c) ==
    /\ claim[c].pc = "idle"
    /\ Becomes(c, CASE ~flow.on \/ flow.state = "closed" -> Through(c)
                    [] flow.on /\ flow.state = "open" /\ Past(Cooldown, 0) ->
                         WaitsTo(c, "elect")
                    [] OTHER -> Throttled(c))
    /\ UNCHANGED <<running, flow, past>>

\* _breaker_gate reads the row.  An open breaker whose cooldown is over may
\* elect this claim as its probe; one half open for too long is opened again.
Gate(c) ==
    /\ claim[c].pc = "idle"
    /\ Becomes(c, CASE ~flow.on \/ flow.state = "closed" -> Through(c)
                    [] flow.on /\ flow.state = "open" /\ Past(Cooldown, 0) ->
                         WaitsTo(c, "elect")
                    [] flow.on /\ flow.state = "half_open" /\ Past(2 * Cooldown + 1, 0) ->
                         WaitsTo(c, "reopen")
                    [] OTHER -> Throttled(c))
    /\ UNCHANGED <<running, flow, past>>

\* The two UPDATEs of the gate wait for the row lock and look at the row again.
ElectAnyway(c) ==
    /\ claim[c].pc = "elect" /\ RowFree
    /\ Becomes(c, [Through(c) EXCEPT !.write = "half_open"])
    /\ UNCHANGED <<running, flow, past>>

Elect(c) ==
    /\ claim[c].pc = "elect" /\ RowFree
    /\ Becomes(c, IF flow.state = "open" /\ Past(Cooldown, claim[c].elapsed)
                  THEN [Through(c) EXCEPT !.write = "half_open"]
                  ELSE Throttled(c))
    /\ UNCHANGED <<running, flow, past>>

\* The row it writes keeps now() of this transaction until it commits.
Reopen(c) ==
    /\ claim[c].pc = "reopen" /\ RowFree
    /\ Becomes(c, IF flow.state = "half_open" /\ Past(2 * Cooldown + 1, claim[c].elapsed)
                  THEN [claim[c] EXCEPT !.pc = "commit", !.write = "open"]
                  ELSE Throttled(c))
    /\ UNCHANGED <<running, flow, past>>

RunningOf(k) == {j \in running : KeyOf[j] = k}

\* queue_counters.running against the cap, without a lock, bounds the batch, and
\* the keys that are full are left out; a paused queue, a dry rate bucket and a
\* refusal end here as well.
Cap(c) ==
    /\ claim[c].pc = "cap"
    /\ \/ Becomes(c, Throttled(c))
       \/ /\ Cardinality(running) < QueueCap
          /\ Becomes(c, [claim[c] EXCEPT
                 !.pc = "pick", !.batch = AtMost(QueueCap - Cardinality(running), Batch),
                 !.saturated = {k \in Keys : Cardinality(RunningOf(k)) >= KeyCap}])
    /\ UNCHANGED <<running, flow, past>>

\* FOR UPDATE SKIP LOCKED: what the claim may still look at.
Candidates(c) ==
    {j \in Jobs \ running : ~RowLocked(j) /\ KeyOf[j] \notin claim[c].saturated}

KeyBusy(c, k) == \E d \in Claims \ {c} : k \in claim[d].keys

PickUncounted(c, j) ==
    /\ claim[c].pc = "pick" /\ j \in Candidates(c)
    /\ Cardinality(claim[c].took) < claim[c].batch
    /\ Becomes(c, [claim[c] EXCEPT !.took = @ \cup {j}])
    /\ UNCHANGED <<running, flow, past>>

\* One round of the loop: a row is locked; with a key it is taken only under
\* the key's lock and when a fresh count, the claim's own jobs included, has room.
Pick(c, j) ==
    /\ claim[c].pc = "pick" /\ j \in Candidates(c)
    /\ Cardinality(claim[c].took) < claim[c].batch
    /\ LET k == KeyOf[j]
           own == {i \in claim[c].took : KeyOf[i] = k}
           room == Cardinality(RunningOf(k) \cup own) < KeyCap
       IN \/ /\ k = None
             /\ Becomes(c, [claim[c] EXCEPT !.took = @ \cup {j}])
          \/ /\ k # None /\ KeyBusy(c, k)
             /\ Becomes(c, [claim[c] EXCEPT !.skip = @ \cup {j}])
          \/ /\ k # None /\ ~KeyBusy(c, k)
             /\ Becomes(c, IF room
                           THEN [claim[c] EXCEPT !.keys = @ \cup {k}, !.took = @ \cup {j}]
                           ELSE [claim[c] EXCEPT !.keys = @ \cup {k}, !.skip = @ \cup {j}])
    /\ UNCHANGED <<running, flow, past>>

\* What the claim wrote is committed and its locks are gone.
Commit(c) ==
    /\ \/ claim[c].pc = "commit"
       \/ /\ claim[c].pc = "pick"
          /\ Cardinality(claim[c].took) = claim[c].batch \/ Candidates(c) = {}
    /\ running' = running \cup claim[c].took
    /\ CASE claim[c].write = None -> UNCHANGED <<flow, past>>
         [] claim[c].write = "half_open" ->
              /\ flow' = [flow EXCEPT !.state = "half_open"]
              /\ past' = [past EXCEPT !.elections = @ + 1]
         [] claim[c].write = "open" -> flow' = Opened(claim[c].elapsed) /\ Forget
    /\ Becomes(c, NoClaim)

\* The connection is lost or the call cancelled: nothing of it remains.
Abort(c) ==
    /\ claim[c].pc # "idle"
    /\ Becomes(c, NoClaim)
    /\ UNCHANGED <<running, flow, past>>

-----------------------------------------------------------------------------
(* A running job ends. *)

\* _breaker_on_settle while the breaker is half open: any settlement of the
\* queue counts as the probe's.
HalfOpenSettle(bad, elapsed) ==
    /\ flow' = CASE bad -> Opened(elapsed)
                 [] ~bad /\ flow.probes + 1 >= Needed -> Closed
                 [] OTHER -> [flow EXCEPT !.probes = @ + 1]
    /\ IF flow'.state = "half_open" THEN UNCHANGED past ELSE Forget

\* ... and while it is closed: the streak of failures, or the rate of the window
\* (a new one when there is none or the old one is over) trips it.
ClosedSettle(bad, elapsed, fresh) ==
    LET one == IF bad THEN 1 ELSE 0
        old == IF fresh THEN NoWindow ELSE flow.window
        window == [fail |-> old.fail + one, all |-> old.all + 1]
        streak == IF bad THEN flow.streak + 1 ELSE 0
        byStreak == bad /\ streak >= Threshold
        byRate == bad /\ window.all >= Volume /\ 2 * window.fail >= window.all
        fail == past.fail + one
        all == past.all + 1
        grounds == (byStreak /\ fail >= Threshold) \/ (~byStreak /\ all >= Volume)
        row == IF byStreak \/ byRate THEN Opened(elapsed) ELSE flow
    IN /\ ~fresh => flow.window.all \in 1..(MaxWindow - 1)
       /\ flow' = [row EXCEPT !.streak = streak, !.window = window]
       /\ past' = IF byStreak \/ byRate
                  THEN [fail |-> 0, all |-> 0, elections |-> 0,
                        groundless |-> past.groundless \/ ~grounds]
                  ELSE [past EXCEPT !.fail = AtMost(fail, Threshold),
                                    !.all = AtMost(all, Volume)]

\* A settlement (or a reap that quarantines the job) that began elapsed ticks ago
\* commits; the trigger has the row lock, tripped_at is when it began.
Settle(j, bad, fresh, elapsed) ==
    /\ j \in running /\ RowFree
    /\ running' = running \ {j}
    /\ CASE ~flow.on \/ flow.state = "open" -> UNCHANGED <<flow, past>>
         [] flow.on /\ flow.state = "half_open" -> HalfOpenSettle(bad, elapsed)
         [] OTHER -> ClosedSettle(bad, elapsed, fresh)
    /\ UNCHANGED claim

\* Retried, released, snoozed, cancelled, requeued by the reaper: the trigger
\* of the breaker does not fire.
Returns(j) ==
    /\ j \in running
    /\ running' = running \ {j}
    /\ UNCHANGED <<flow, claim, past>>

-----------------------------------------------------------------------------
(* The operator; each verb is one UPDATE of the row. *)

Operates == RowFree /\ UNCHANGED <<running, claim>>

set_breaker_config(on) == Operates /\ flow' = [flow EXCEPT !.on = on] /\ UNCHANGED past

trip_breaker ==
    /\ Operates /\ flow.on
    /\ flow' = [Opened(0) EXCEPT !.window = NoWindow] /\ Forget

force_close_breaker == Operates /\ flow.on /\ flow' = Closed /\ Forget

-----------------------------------------------------------------------------

Waits(c) == claim[c].pc \in {"elect", "reopen"} \/ claim[c].write = "open"

\* No claim waits for the row for longer than MaxElapsed.
Tick ==
    /\ \A c \in Claims : Waits(c) => claim[c].elapsed < MaxElapsed
    /\ flow' = [flow EXCEPT !.age = IF flow.state = "closed" THEN 0 ELSE AtMost(@ + 1, MaxAge)]
    /\ claim' = [c \in Claims |-> [claim[c] EXCEPT !.elapsed = IF Waits(c) THEN @ + 1 ELSE @]]
    /\ UNCHANGED <<running, past>>

ClaimStep(c) == Elect(c) \/ Reopen(c) \/ Cap(c) \/ (\E j \in Jobs : Pick(c, j)) \/ Commit(c)

Next ==
    \/ \E c \in Claims : Gate(c) \/ ClaimStep(c) \/ Abort(c)
    \/ \E j \in Jobs, bad, fresh \in BOOLEAN, elapsed \in 0..MaxElapsed :
           Settle(j, bad, fresh, elapsed)
    \/ \E j \in Jobs : Returns(j)
    \/ \E on \in BOOLEAN : set_breaker_config(on)
    \/ trip_breaker \/ force_close_breaker
    \/ Tick

Spec == Init /\ [][Next]_vars

\* Workers poll for ever, the row lock is given in turn, not every call is lost
\* on its way, and time passes.
FairSpec ==
    /\ Spec
    /\ WF_vars(Tick)
    /\ \A c \in Claims : WF_vars(Gate(c)) /\ SF_vars(ClaimStep(c)) /\ SF_vars(Commit(c))

-----------------------------------------------------------------------------
(* Properties *)

FlowType ==
    [on : BOOLEAN, state : {"closed", "open", "half_open"}, age : Nat, streak : Nat,
     probes : Nat, window : [fail : Nat, all : Nat]]

ClaimType ==
    [pc : {"idle", "elect", "reopen", "cap", "pick", "commit"}, elapsed : Nat,
     write : {None, "half_open", "open"}, batch : Nat, saturated : SUBSET Keys,
     took : SUBSET Jobs, skip : SUBSET Jobs, keys : SUBSET Keys]

PastType == [fail : Nat, all : Nat, elections : Nat, groundless : BOOLEAN]

FlowTypeOK ==
    /\ running \subseteq Jobs
    /\ flow \in FlowType
    /\ claim \in [Claims -> ClaimType]
    /\ past \in PastType

\* However many claims read the same open row, one opening of the breaker lets
\* at most one of them through as its probe (_breaker_gate's election).
OneProbe == past.elections <= 1

\* A breaker that settlements open had the failures for it since it last closed:
\* recovery, and the operator's close (0040), leave no window or streak behind
\* that trips it again.
TripsOnEvidence == ~past.groundless

\* The breaker opens for a reason and probes one claim at a time.
BreakerHonest == OneProbe /\ TripsOnEvidence

\* A concurrency key is never over its cap: saturated is stale when the rows are
\* picked, so the key's lock and the recount under it have to hold.
KeyCapsHold == \A k \in Keys : Cardinality(RunningOf(k)) <= KeyCap

\* ... and the queue's cap, which claims compare without a lock, is passed by no
\* more than what the claims that ran at the same time may take.
CapsHold == KeyCapsHold /\ Cardinality(running) <= QueueCap * Cardinality(Claims)

\* A probe that finds no job, dies or is given back does not hold the breaker
\* half open for ever.
NeverWedged == flow.on /\ flow.state = "half_open" ~> ~flow.on \/ flow.state # "half_open"
=============================================================================
