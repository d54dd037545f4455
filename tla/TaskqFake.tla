----------------------------- MODULE TaskqFake -----------------------------
(***************************************************************************)
(* The in-memory test kit of taskq.testing: FakeTaskQClient, which stands  *)
(* in for the database in unit tests, and drain, which runs a queue empty  *)
(* through it.                                                             *)
(*                                                                         *)
(* No method of the fake awaits between two writes, so a call is one       *)
(* action; claim is one row of its batch, as in TaskqJobs.  There is one   *)
(* queue.  Answers that change nothing (existed, replays, lost, rejected   *)
(* arguments) are stuttering steps.                                        *)
(*                                                                         *)
(* The fake keeps less than the tables do.  The variables ledger,          *)
(* settledBy and extra are history: the attempt rows and the columns the   *)
(* SQL functions would have written.  With them the fake is compared with  *)
(* the specification of the database, TaskqJobs.                           *)
(***************************************************************************)
EXTENDS Naturals, FiniteSets

CONSTANTS
    Jobs, Attempts, Workers, Keys, ConcKeys, Workflows, None,
    Budgets,      \* values of max_attempts that tests ask for
    Ttls,         \* subset of {"none", "live"}: do tests use ttl_seconds?
    Commands,     \* EnqueueCommands; due and ttl say how the clock stands to
                  \* scheduled_at and ttl_seconds
    MemberLimit,  \* member_limit of the workflows
    MaxJobs       \* max_jobs of drain

ASSUME FakeAssumption ==
    /\ None \notin Jobs \cup Attempts \cup Workers \cup Keys \cup ConcKeys \cup Workflows
    /\ Ttls \subseteq {"none", "live"}
    /\ Commands \subseteq [key : Keys \cup {None}, ckey : ConcKeys \cup {None}, ttl : Ttls,
                           due : BOOLEAN, max : Budgets]
    /\ Budgets \subseteq Nat \ {0} /\ MemberLimit \in Nat /\ MaxJobs \in Nat \ {0}
    /\ IsFiniteSet(Jobs)

VARIABLES
    rows,       \* _jobs
    keys,       \* _active_keys
    flows,      \* _workflows
    drain,      \* the state of one drain() call
    ledger,     \* history: the attempts handed out
    settledBy,  \* history: the call that ended each attempt
    extra       \* history: columns of taskq.jobs the fake does not keep

fakeVars == <<rows, keys, flows, drain, ledger, settledBy, extra>>

----------------------------------------------------------------------------
(* Records *)

Terminal == {"succeeded", "failed", "cancelled"}
Waiting  == {"blocked", "queued"}

\* The command of a followup; its key is reserved, so that it meets no other.
Followup(due, max) ==
    [key |-> None, ckey |-> None, ttl |-> "none", due |-> due, max |-> max]

\* _FakeJob with the fields of its command.  The fake keeps ckey and ttl, as part
\* of the command, and reads them nowhere.
NoRow ==
    [status |-> "absent", key |-> None, ckey |-> None, ttl |-> "none", wf |-> None,
     needs |-> {}, due |-> FALSE, att |-> None, worker |-> None, failures |-> 0,
     max |-> 0, settled |-> None, parent |-> None]

\* The row a command c creates.
NewRow(status, c, wf, D, parent) ==
    [NoRow EXCEPT !.status = status, !.key = c.key, !.ckey = c.ckey, !.ttl = c.ttl,
                  !.wf = wf, !.needs = D, !.due = c.due, !.max = c.max,
                  !.parent = parent]

\* _FakeWorkflow; its steps are the rows that name it.
NoFlow == [status |-> "absent", sealed |-> FALSE, cancel |-> FALSE, total |-> 0]

NoExtra == [outcome |-> None, finisher |-> None, pending |-> 0, cancel |-> FALSE]

Members(R, w) == {j \in Jobs : R[j].wf = w}

\* _refresh_workflow over the job table R.
Refreshed(f, w, R) ==
    LET st == {R[j].status : j \in Members(R, w)} IN
    IF ~f.sealed THEN f
    ELSE IF f.cancel
      THEN IF "running" \in st THEN f ELSE [f EXCEPT !.status = "cancelled"]
    ELSE IF "failed" \in st THEN [f EXCEPT !.status = "failed"]
    ELSE IF "cancelled" \in st THEN [f EXCEPT !.status = "cancelled"]
    ELSE IF st \subseteq {"succeeded"} THEN [f EXCEPT !.status = "succeeded"]
    ELSE f

----------------------------------------------------------------------------
(* Producer *)

\* enqueue of a job outside workflows when it creates one; a key that is in
\* _active_keys answers existed.
enqueue(j, c) ==
    /\ rows[j].status = "absent"
    /\ c.key # None => keys[c.key] = None
    /\ rows' = [rows EXCEPT ![j] = NewRow("queued", c, None, {}, None)]
    /\ keys' = IF c.key = None THEN keys ELSE [keys EXCEPT ![c.key] = j]
    /\ UNCHANGED <<flows, drain, ledger, settledBy, extra>>

\* _enqueue_workflow_member of a new step with parents D.  A key that is
\* taken undoes the insert but not the increment of admitted_total.
enqueue_workflow_member(j, c, w, D) ==
    LET open == {d \in D : rows[d].status # "succeeded"} IN
    /\ flows[w].status # "absent"
    /\ ~flows[w].sealed /\ ~flows[w].cancel
    /\ flows[w].total < MemberLimit
    /\ rows[j].status = "absent"
    /\ \A d \in D : rows[d].wf = w /\ rows[d].status \notin {"failed", "cancelled"}
    /\ flows' = [flows EXCEPT ![w].total = @ + 1]
    /\ \/ /\ c.key # None /\ keys[c.key] # None
          /\ UNCHANGED <<rows, keys, extra>>
       \/ /\ c.key # None => keys[c.key] = None
          /\ rows' = [rows EXCEPT ![j] =
                        NewRow(IF open # {} THEN "blocked" ELSE "queued", c, w, D, None)]
          /\ keys' = IF c.key = None THEN keys ELSE [keys EXCEPT ![c.key] = j]
          /\ extra' = [extra EXCEPT ![j].pending = Cardinality(open)]
    /\ UNCHANGED <<drain, ledger, settledBy>>

\* create_workflow when it creates one.
create_workflow(w) ==
    /\ flows[w].status = "absent"
    /\ flows' = [flows EXCEPT ![w].status = "running"]
    /\ UNCHANGED <<rows, keys, drain, ledger, settledBy, extra>>

\* seal_workflow
seal_workflow(w) ==
    /\ flows[w].status # "absent"
    /\ flows' = [flows EXCEPT ![w] = Refreshed([@ EXCEPT !.sealed = TRUE], w, rows)]
    /\ UNCHANGED <<rows, keys, drain, ledger, settledBy, extra>>

\* cancel_workflow: waiting members are cancelled at once, running ones learn
\* of it from their next heartbeat.  The keys of the cancelled members stay
\* in _active_keys.
cancel_workflow(w) ==
    LET gone == {j \in Members(rows, w) : rows[j].status \in Waiting}
        told == {j \in Members(rows, w) : rows[j].status = "running"}
        R == [j \in Jobs |-> IF j \in gone THEN [rows[j] EXCEPT !.status = "cancelled"]
                             ELSE rows[j]]
    IN
    /\ flows[w].status = "running" /\ ~flows[w].cancel
    /\ rows' = R
    /\ flows' = [flows EXCEPT ![w] =
                   Refreshed([@ EXCEPT !.cancel = TRUE, !.sealed = TRUE], w, R)]
    /\ extra' = [j \in Jobs |->
                   IF j \in gone THEN [extra[j] EXCEPT !.outcome = "canceled", !.cancel = TRUE]
                   ELSE IF j \in told THEN [extra[j] EXCEPT !.cancel = TRUE]
                   ELSE extra[j]]
    /\ UNCHANGED <<keys, drain, ledger, settledBy>>

----------------------------------------------------------------------------
(* Runner *)

\* claim, one row: filters, affinity and policy hashes only withhold rows,
\* and they can make any due row the first of the FIFO order.  What runs under
\* the same concurrency key, and whether the job outlived its ttl, is not asked.
claim(j, w, a) ==
    /\ rows[j].status = "queued" /\ rows[j].due
    /\ ledger[a].status = "absent"
    /\ rows' = [rows EXCEPT ![j].status = "running", ![j].att = a, ![j].worker = w,
                            ![j].settled = None]
    /\ ledger' = [ledger EXCEPT ![a] = [status |-> "running", job |-> j, worker |-> w]]
    /\ UNCHANGED <<keys, flows, settledBy, extra>>

\* _replay_or_lost lets the call of attempt a through.
Unsettled(a) ==
    LET r == rows[ledger[a].job] IN
    /\ ledger[a].status # "absent"
    /\ r.att = a /\ r.worker = ledger[a].worker
    /\ r.settled = None /\ r.status = "running"

Children(R, S) == {c \in Jobs : R[c].needs \cap S # {} /\ R[c].status \in Waiting}

\* S holds the children of j and those of its own members.
Closed(R, j, S) == Children(R, {j}) \cup Children(R, S) \subseteq S

\* The waiting rows the frontier loop of _advance_fake_workflow reaches from j:
\* the least such set.
Doomed(R, j) == {c \in Jobs : \A S \in SUBSET Jobs : Closed(R, j, S) => c \in S}

\* Fault: a child is promoted by the first parent that succeeds.
ReadyAfterOne(R, j) == {c \in Children(R, {j}) : R[c].status = "blocked"}

\* Blocked children of j whose parents have all succeeded.
Ready(R, j) ==
    {c \in Children(R, {j}) : /\ R[c].status = "blocked"
                              /\ \A p \in R[c].needs : R[p].status = "succeeded"}

\* _advance_fake_workflow after row j became terminal in R.
Advanced(R, j) ==
    IF R[j].wf = None THEN R
    ELSE IF R[j].status = "succeeded"
      THEN [c \in Jobs |-> IF c \in Ready(R, j) THEN [R[c] EXCEPT !.status = "queued"]
                           ELSE R[c]]
    ELSE [c \in Jobs |-> IF c \in Doomed(R, j) THEN [R[c] EXCEPT !.status = "cancelled"]
                         ELSE R[c]]

\* _active_keys.pop in _finish, only for a terminal row.
KeysAfter(k, status) ==
    IF status \in Terminal /\ k # None THEN [keys EXCEPT ![k] = None] ELSE keys

\* _finish: attempt a ends by verb v and its row becomes r, then a terminal
\* row advances its workflow, which is refreshed.  New holds the rows a
\* complete inserts afterwards, so the refresh does not see them.  s is the
\* attempt status the SQL function would write, x the job's extra columns.
Finish(a, v, s, r, New, x) ==
    LET j == ledger[a].job
        R == [rows EXCEPT ![j] = [r EXCEPT !.settled = v]]
        ended == r.status \in Terminal
        A == IF ended THEN Advanced(R, j) ELSE R
        members == Cardinality({f \in DOMAIN New : New[f].wf # None})
    IN
    /\ Unsettled(a)
    /\ rows' = [c \in Jobs |-> IF c \in DOMAIN New THEN New[c] ELSE A[c]]
    /\ keys' = KeysAfter(r.key, r.status)
    /\ flows' = [w \in Workflows |->
                   IF w = r.wf /\ ended
                     THEN [Refreshed(flows[w], w, A) EXCEPT !.total = @ + members]
                   ELSE flows[w]]
    /\ ledger' = [ledger EXCEPT ![a].status = s]
    /\ settledBy' = [settledBy EXCEPT ![a] = v]
    /\ extra' = [c \in Jobs |->
                   IF c = j THEN x
                   ELSE IF A[c].status = "cancelled" /\ rows[c].status \in Waiting
                     THEN [extra[c] EXCEPT !.outcome = "dep_failed"]
                   ELSE IF r.status = "succeeded" /\ j \in rows[c].needs
                           /\ rows[c].status = "blocked"
                     THEN [extra[c] EXCEPT !.pending = @ - 1]
                   ELSE extra[c]]

Nothing == [f \in {} |-> NoRow]

\* Attempt a ends in the terminal status of job and attempt alike.
Close(a, v, status, outcome, charge, New) ==
    LET j == ledger[a].job IN
    Finish(a, v, status, [rows[j] EXCEPT !.status = status, !.failures = @ + charge], New,
           [extra[j] EXCEPT !.outcome = outcome, !.finisher = a])

\* Attempt a ends and its job is pending again.
PutBack(a, v, s, due, charge) ==
    LET j == ledger[a].job IN
    Finish(a, v, s, [rows[j] EXCEPT !.status = "queued", !.due = due, !.failures = @ + charge],
           Nothing, [extra[j] EXCEPT !.cancel = FALSE])

\* complete with followups F, members M among them; admitted_total and the
\* limit are checked before anything is written.
complete(a, F, M, due, max) ==
    LET j == ledger[a].job
        w == rows[j].wf
    IN
    /\ \A f \in F : rows[f].status = "absent"
    /\ M # {} => w # None /\ flows[w].total + Cardinality(M) <= MemberLimit
    /\ Close(a, "complete", "succeeded", "success", 0,
             [f \in F |-> NewRow("queued", Followup(due, max), IF f \in M THEN w ELSE None,
                                 {}, j)])

\* fail: the failure is charged first, then retry or dead.
fail(a, retryable, due) ==
    LET r == rows[ledger[a].job] IN
    IF retryable /\ r.failures + 1 < r.max
      THEN PutBack(a, "fail", "failed", due, 1)
      ELSE Close(a, "fail", "failed",
                 IF retryable THEN "retry_exhausted" ELSE "non_retryable", 1, Nothing)

snooze(a, due) == PutBack(a, "snooze", "snoozed", due, 0)

release(a, due) == PutBack(a, "release", "released", due, 0)

cancel_running(a) == Close(a, "cancel", "cancelled", "canceled", 0, Nothing)

\* One settlement call for attempt a that takes effect.
Settlement(a) ==
    /\ ledger[a].status # "absent"
    /\ \/ \E F \in SUBSET Jobs, due \in BOOLEAN, max \in Budgets :
             \E M \in {{}, F} : complete(a, F, M, due, max)
       \/ \E retryable, due \in BOOLEAN : fail(a, retryable, due)
       \/ \E due \in BOOLEAN : snooze(a, due) \/ release(a, due)
       \/ cancel_running(a)

----------------------------------------------------------------------------
(* drain: claim and supervise one job after the other, at most MaxJobs.  The *)
(* fake never suspends its caller, so nothing else runs between two steps of *)
(* drain but while a handler does.                                           *)

Idle == [pc |-> "idle", att |-> None, n |-> 0]

Claimable == {j \in Jobs : rows[j].status = "queued" /\ rows[j].due}

DrainStart ==
    /\ drain = Idle
    /\ drain' = [drain EXCEPT !.pc = "claim"]
    /\ UNCHANGED <<rows, keys, flows, ledger, settledBy, extra>>

\* The claim of the loop, or the one that looks for overflow once the limit
\* is reached; an empty queue ends the drain.
DrainClaim ==
    /\ drain.pc = "claim"
    /\ \/ /\ Claimable = {}
          /\ drain' = Idle
          /\ UNCHANGED <<rows, keys, flows, ledger, settledBy, extra>>
       \/ \E j \in Jobs, w \in Workers, a \in Attempts :
             /\ claim(j, w, a)
             /\ drain' = [drain EXCEPT !.att = a,
                            !.pc = IF drain.n < MaxJobs THEN "run" ELSE "overflow"]

\* supervisor.run_job and the count of its settlement.  When the attempt was
\* settled behind its back the report is fatal and drain raises.
DrainRun ==
    /\ drain.pc = "run"
    /\ \/ /\ Settlement(drain.att)
          /\ drain' = [pc |-> "claim", att |-> None, n |-> drain.n + 1]
       \/ /\ ~Unsettled(drain.att)
          /\ drain' = Idle
          /\ UNCHANGED <<rows, keys, flows, ledger, settledBy, extra>>

\* The job claimed over the limit is handed back, then drain raises.
DrainOverflow ==
    /\ drain.pc = "overflow"
    /\ release(drain.att, TRUE)
    /\ drain' = Idle

----------------------------------------------------------------------------

FakeInit ==
    /\ rows = [j \in Jobs |-> NoRow]
    /\ keys = [k \in Keys |-> None]
    /\ flows = [w \in Workflows |-> NoFlow]
    /\ drain = Idle
    /\ ledger = [a \in Attempts |-> [status |-> "absent", job |-> None, worker |-> None]]
    /\ settledBy = [a \in Attempts |-> None]
    /\ extra = [j \in Jobs |-> NoExtra]

\* The fake's clock reaches scheduled_at.
ClockReaches(j) ==
    /\ rows[j].status \in Waiting /\ ~rows[j].due
    /\ rows' = [rows EXCEPT ![j].due = TRUE]
    /\ UNCHANGED <<keys, flows, drain, ledger, settledBy, extra>>

\* The clock passes the expires_at an enqueue in the database would have
\* computed from scheduled_at and ttl_seconds.
TtlRunsOut(j) ==
    /\ rows[j].status \in Waiting \cup {"running"} /\ rows[j].ttl = "live"
    /\ (\A a \in Attempts : ledger[a].job # j) => rows[j].due
    /\ rows' = [rows EXCEPT ![j].ttl = "expired"]
    /\ UNCHANGED <<keys, flows, drain, ledger, settledBy, extra>>

Clock == \E j \in Jobs : ClockReaches(j) \/ TtlRunsOut(j)

Producer ==
    \E j \in Jobs, c \in Commands :
       \/ enqueue(j, c)
       \/ \E w \in Workflows, D \in SUBSET Jobs : enqueue_workflow_member(j, c, w, D)

Flows ==
    \E w \in Workflows : create_workflow(w) \/ seal_workflow(w) \/ cancel_workflow(w)

Runner ==
    /\ \/ \E j \in Jobs, w \in Workers, a \in Attempts : claim(j, w, a)
       \/ \E a \in Attempts : Settlement(a)
    /\ UNCHANGED drain

Drain == DrainStart \/ DrainClaim \/ DrainRun \/ DrainOverflow

FakeNext ==
    \/ Drain
    \/ /\ drain.pc \in {"idle", "run"}
       /\ Producer \/ Flows \/ Runner \/ Clock

FakeSpec == FakeInit /\ [][FakeNext]_fakeVars

----------------------------------------------------------------------------
(* Refinement: the tables the fake stands for *)

\* The columns of a row r with what the SQL functions would have written, x.
DbRow(r, x) ==
    LET on == r.status = "running" IN
        [status |-> r.status, outcome |-> x.outcome, idem |-> r.key, ckey |-> r.ckey,
         wf |-> r.wf, parent |-> r.parent, pending |-> x.pending, due |-> r.due,
         ttl |-> r.ttl, att |-> IF on THEN r.att ELSE None,
         worker |-> IF on THEN r.worker ELSE None,
         lease |-> IF on THEN "live" ELSE "none", cancel |-> x.cancel,
         failures |-> r.failures, streak |-> 0, max |-> r.max, finisher |-> x.finisher]

DbJob(j) == DbRow(rows[j], extra[j])

Edges ==
    {e \in Jobs \X Jobs : /\ rows[e[1]].status = "blocked" /\ e[2] \in rows[e[1]].needs
                          /\ rows[e[2]].status # "succeeded"}

\* Nobody set a concurrency limit: a key has the default cap.
Db == INSTANCE TaskqJobs WITH
        jobs <- [j \in Jobs |-> DbJob(j)],
        attempts <- ledger, deps <- Edges, limits <- [c \in ConcKeys |-> 1],
        needs <- [j \in Jobs |-> rows[j].needs],
        IdemKeys <- Keys, Caps <- {}, PoisonLimit <- 3

\* Three steps of the fake are steps of no SQL function.  First, it grants a job
\* that claim_jobs withholds, because its ttl has passed or its concurrency key
\* runs at the cap; otherwise the claim is that of claim_jobs.
Overclaims ==
    \E j \in Jobs, w \in Workers, a \in Attempts :
       LET r == DbJob(j) IN
       /\ r.status = "queued" /\ r.due /\ ~r.cancel
       /\ \/ r.ttl = "expired"
          \/ r.ckey # None /\ Cardinality(Db!RunningWith(r.ckey)) >= 1
       /\ ledger[a].status = "absent"
       /\ \A c \in Jobs : DbJob(c)' = IF c = j THEN Db!Claimed(r, a, w) ELSE DbJob(c)
       /\ ledger' = [ledger EXCEPT ![a] = [status |-> "running", job |-> j, worker |-> w]]
       /\ UNCHANGED <<Edges, settledBy>>
       /\ \A c \in Jobs : rows'[c].needs = rows[c].needs

\* Attempt a, which runs, ends by verb v in status s and its job's row becomes
\* row; a job that failed or was cancelled takes all that waits below it along.
\* Nothing else changes.
Ends(a, v, s, row) ==
    LET j == ledger[a].job
        lost == IF row.status = "queued" THEN {} ELSE Doomed(rows, j)
    IN
    /\ Db!Fenced(a)
    /\ ledger' = [ledger EXCEPT ![a].status = s]
    /\ settledBy' = [settledBy EXCEPT ![a] = v]
    /\ \A c \in Jobs : /\ DbJob(c)' = IF c = j THEN row
                                      ELSE IF c \in lost THEN Db!DepCancelled(DbJob(c))
                                      ELSE DbJob(c)
                       /\ rows'[c].needs = rows[c].needs
    /\ Edges' = Db!Unlinked(lost)

\* The row of a job that is dead: its failure is charged and attempt a decides.
Dead(r, a) ==
    {Db!Finished(Db!Charged(r, 0), "failed", o, a) :
       o \in {"non_retryable"} \cup (IF r.failures + 1 < r.max THEN {} ELSE {"retry_exhausted"})}

\* Second, a cancel that was asked for is not honoured: the job is retried, snoozed
\* or released, and the request forgotten, or it is dead-lettered.
IgnoresCancel(a) ==
    LET r == DbJob(ledger[a].job)
        again == [r EXCEPT !.cancel = FALSE]
    IN
    /\ r.cancel
    /\ \/ \E due \in BOOLEAN :
             \/ /\ r.failures + 1 < r.max
                /\ Ends(a, "fail", "failed", Db!Requeued(Db!Charged(again, 0), due))
             \/ Ends(a, "snooze", "snoozed", Db!Requeued(again, due))
             \/ Ends(a, "release", "released", Db!Requeued(again, due))
       \/ \E row \in Dead(r, a) : Ends(a, "fail", "failed", row)

\* Third, a failed or cancelled job cancels the whole branch below it and not only
\* the first level.
CancelsBranch(a) ==
    LET j == ledger[a].job
        r == DbJob(j)
    IN
    /\ \/ Ends(a, "cancel", "cancelled", Db!CancelledBy(r, a))
       \/ \E row \in Dead(r, a) : Ends(a, "fail", "failed", row)
    /\ Doomed(rows, j) # Children(rows, {j})

Differs ==
    \/ Overclaims
    \/ \E a \in Attempts : ledger[a].status # "absent" /\ (IgnoresCancel(a) \/ CancelsBranch(a))

----------------------------------------------------------------------------
(* Properties *)

\* The row of job j is one that taskq.enqueue created from the same command.
Enqueued(j) ==
    LET r == rows'[j] IN
    Db!enqueue(j, r.key, r.ckey, r.wf, r.needs, r.due, r.ttl, r.max)

\* The fake implements the database's specification of jobs, attempts and
\* dependencies: every call a test makes is a step of a producer, a runner,
\* the workflow cancellation pass or the clock, but for the three kinds of step
\* Differs names, and each of those does to the tables what is said there and
\* nothing else.
FakeImplements ==
    /\ Db!Init
    /\ [][\/ UNCHANGED Db!vars
          \/ \E j \in Jobs : Enqueued(j) \/ Db!BecomesDue(j) \/ Db!TtlRunsOut(j)
          \/ \E S \in SUBSET Jobs : Db!advance_workflow_cancellations(Workflows, S)
          \/ Db!Runner
          \/ Differs]_(Db!vars)
=============================================================================
