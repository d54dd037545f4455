------------------------------ MODULE TaskqHttp ------------------------------
(***************************************************************************)
(* The HTTP path: a client method call, the tries it sends, the facade     *)
(* that serves each try as a request of its own, and the database the      *)
(* facade calls.                                                           *)
(*                                                                         *)
(* A try whose answer does not come (a timeout, a reset connection) is     *)
(* over for the client and not for the server: the request may still be    *)
(* served at any later moment, also after the next try.  A database call   *)
(* may fail before it takes effect or after it committed.  The facade      *)
(* sees at most that a connection is gone, and only where it looks.        *)
(*                                                                         *)
(* The job tables are those of TaskqJobs.  A command that does not touch   *)
(* them (admissions, workflows, schedules, queue control, presence, reads) *)
(* answers any outcome or error COMMAND_SPECS lists for it.                *)
(***************************************************************************)
EXTENDS Naturals, FiniteSets, TaskqProtocol

CONSTANTS
    Jobs, Attempts, IdemKeys, None,  \* as in TaskqJobs
    Steps,        \* a pair workflow_id, step_key each, of open workflows
    Worker,       \* the worker id the calls carry
    Calls,        \* calls of client methods
    Mixes,        \* what may be called together: sets of commands per call
    Granted,      \* actions the host's authorizer grants the caller
    MaxRetries    \* max_retries of the clients (0 .. 10, 2 by default)

ASSUME HttpAssumption ==
    /\ MaxRetries \in 0 .. 10
    /\ Mixes \subseteq [Calls -> SUBSET AllCommands]
    /\ Granted \subseteq {"read", "enqueue", "run", "control", "admin"}
    /\ None \notin Jobs \cup Attempts \cup IdemKeys \cup Steps \cup {Worker}
    /\ IdemKeys \cap Steps = {}
    /\ IsFiniteSet(Jobs) /\ IsFiniteSet(Attempts)

VARIABLES
    jobs, attempts, deps, limits, settledBy, needs,  \* TaskqJobs
    client,  \* per client object: compatible, closed, and who holds its lock
    calls,   \* per call: what it asks for and how far it is
    reqs,    \* per call and try: the request at the facade
    made,    \* history: <<call, job>> for each row an enqueue call created
    stuck    \* history: attempts left to their lease: their hand-back raised, or
             \* the facade never saw the answer of the claim that took them

dbVars   == <<jobs, attempts, deps, limits, settledBy, needs>>
httpVars == <<dbVars, client, calls, reqs, made, stuck>>

Db == INSTANCE TaskqJobs WITH
        Workers <- {Worker}, ConcKeys <- {}, Workflows <- Steps, Budgets <- {2},
        Caps <- {}, Ttls <- {"none"}, PoisonLimit <- 3

ASSUME HttpNullAssumption == None \notin Db!Outcomes \cup Db!Verbs \cup {"reap"}

----------------------------------------------------------------------------
(* The client methods *)

Clients == {"async", "sync"}

Settlements == {"COMPLETE", "FAIL", "SNOOZE", "RELEASE", "CANCEL_RUNNING"}

\* Every command has a method, written by hand or generated, in both clients;
\* metrics() sends its request outside _request and is left out.
Methods == AllCommands \ {"METRICS"}

\* Fault: a claim is sent again like a read.
CanRetryClaims(cmd, key) == Routes[cmd].retry \in {"safe", "never"}

\* _can_retry: may the client send this command again by itself?  An enqueue may
\* when it names an idempotency key or a step of a workflow, a batch when every
\* item has an idempotency key.
CanRetry(cmd, key) ==
    \/ Routes[cmd].retry = "safe"
    \/ Routes[cmd].retry = "keyed_enqueue" /\ key \in IdemKeys \cup Steps
    \/ Routes[cmd].retry = "keyed_batch" /\ key \in IdemKeys

\* _decode_envelope and the method's own decoding of an answer to cmd: the
\* wire outcome timeout of a claim is the core state empty.
Decoded(cmd, ans) ==
    IF ans \in Errors THEN ans
    ELSE IF ans \notin DOMAIN Routes[cmd].outcomes THEN "protocol_error"
    ELSE IF cmd = "CLAIM" /\ ans = "timeout" THEN "empty"
    ELSE ans

\* Commands that read or write the job tables.
OnJobs ==
    Settlements \cup {"HEARTBEAT", "CLAIM", "ENQUEUE", "ENQUEUE_MANY", "CANCEL", "REDRIVE",
                     "EXPIRE_JOB", "EXPIRE_WORKER_LEASES", "PURGE_QUEUED", "RUN_NOW",
                     "GET_JOB"}

----------------------------------------------------------------------------
(* State *)

NoClient == [compatible |-> FALSE, closed |-> FALSE, lock |-> None]

NoCall ==
    [pc |-> "idle", client |-> "async", goal |-> "META", cmd |-> "META",
     target |-> None, key |-> None, n |-> 0, answer |-> None]

NoReq == [st |-> "none", got |-> {}, todo |-> {}, ans |-> None]

Tries == 0 .. MaxRetries

UnderWay(c) == calls[c].pc \notin {"idle", "done"}

----------------------------------------------------------------------------
(* Client: one call of a method *)

\* What a command is about: a job the caller knows of, or an attempt.
Targets(cmd) ==
    IF cmd \in Settlements \cup {"HEARTBEAT"}
      THEN {a \in Attempts : attempts[a].status # "absent"}
    ELSE IF Routes[cmd].source = "job"
      THEN {j \in Jobs : jobs[j].status # "absent"}
    ELSE {None}

\* What an enqueue is keyed by, if by anything.  (An enqueue of a step may name
\* an idempotency key besides; the step is then looked up first.)
Keys(cmd) ==
    CASE cmd = "ENQUEUE"      -> IdemKeys \cup Steps \cup {None}
      [] cmd = "ENQUEUE_MANY" -> IdemKeys \cup {None}
      [] OTHER                -> {None}

\* A method is called; calls of two clients would meet in the database only,
\* where a late request of a single call meets the next try already.  claim()
\* awaits start() before anything else, and META stands for a call of start()
\* itself.
Invoke(c) ==
    \E cl \in Clients, mix \in Mixes : \E cmd \in mix[c] :
      \E t \in Targets(cmd), k \in Keys(cmd) :
        /\ calls[c].pc = "idle"
        /\ cmd \in Methods
        /\ \A d \in Calls : calls[d].pc # "idle" => calls[d].goal \in mix[d] /\ calls[d].client = cl
        /\ calls' = [calls EXCEPT ![c] =
             [NoCall EXCEPT !.pc = IF cmd \in {"CLAIM", "META"} THEN "starting"
                                  ELSE "ready",
                            !.client = cl, !.goal = cmd, !.cmd = cmd,
                            !.target = t, !.key = k]]
        /\ UNCHANGED <<dbVars, client, reqs, made, stuck>>

\* The call ends, with an outcome or with an error, and lets its lock go.
End(c, ans) ==
    LET cl == calls[c].client IN
    /\ calls' = [calls EXCEPT ![c].pc = "done", ![c].answer = ans]
    /\ client' = IF client[cl].lock = c THEN [client EXCEPT ![cl].lock = None] ELSE client

\* start(), under its lock: nothing to do, or a meta request first.
StartClient(c) ==
    LET cl == calls[c].client IN
    /\ calls[c].pc = "starting"
    /\ client[cl].lock = None
    /\ \/ /\ client[cl].compatible /\ calls[c].goal = "META"
          /\ End(c, "ok")
       \/ /\ client[cl].compatible /\ calls[c].goal # "META"
          /\ calls' = [calls EXCEPT ![c].pc = "ready"] /\ UNCHANGED client
       \/ /\ ~client[cl].compatible
          /\ calls' = [calls EXCEPT ![c].pc = "ready", ![c].cmd = "META"]
          /\ client' = [client EXCEPT ![cl].lock = c]
    /\ UNCHANGED <<dbVars, reqs, made, stuck>>

\* Fault: the lock is not reentrant.
LockFreeOnce(c) == calls[c].client = "sync" => client["sync"].lock = None

\* The sync client builds its headers under the lock that start() holds over
\* its whole meta request; the lock is reentrant.  The async client's start
\* lock only keeps other starts out.
LockFree(c) == calls[c].client = "sync" => client["sync"].lock \in {None, c}

\* One turn of the loop in _request.  A closed client refuses to send.
Send(c) ==
    /\ calls[c].pc = "ready"
    /\ LockFree(c)
    /\ IF client[calls[c].client].closed
         THEN End(c, "closed") /\ UNCHANGED reqs
         ELSE /\ calls' = [calls EXCEPT ![c].pc = "waiting"]
              /\ reqs' = [reqs EXCEPT ![<<c, calls[c].n>>].st = "sent"]
              /\ UNCHANGED client
    /\ UNCHANGED <<dbVars, made, stuck>>

\* A try failed with something worth another try, if one is allowed.
Again(c, ans) ==
    IF CanRetry(calls[c].cmd, calls[c].key) /\ calls[c].n < MaxRetries
      THEN calls' = [calls EXCEPT ![c].pc = "ready", ![c].n = @ + 1] /\ UNCHANGED client
      ELSE End(c, ans)

\* httpx.TransportError: no answer within the timeout, or no connection.  The
\* request stays at the server.
TransportError(c) ==
    /\ calls[c].pc = "waiting"
    /\ Again(c, "TQ503")
    /\ UNCHANGED <<dbVars, reqs, made, stuck>>

\* An answer is read.  After start()'s meta request the claim itself is sent,
\* with tries of its own (a meta request that is still under way reads only).
Receive(c) ==
    LET r   == reqs[<<c, calls[c].n>>]
        ans == Decoded(calls[c].cmd, r.ans)
        cl  == calls[c].client
    IN
    /\ calls[c].pc = "waiting" /\ r.st = "answered"
    /\ \/ /\ ans \in Retryable
          /\ Again(c, ans)
          /\ UNCHANGED reqs
       \/ /\ ans \notin Errors /\ calls[c].cmd = "META"
          /\ client' = [client EXCEPT ![cl].compatible = TRUE, ![cl].lock = None]
          /\ calls' = [calls EXCEPT ![c].pc = IF calls[c].goal = "META" THEN "done" ELSE "ready",
                                    ![c].cmd = calls[c].goal, ![c].n = 0]
          /\ reqs' = [s \in DOMAIN reqs |-> IF s[1] = c THEN NoReq ELSE reqs[s]]
       \/ /\ ans \notin Retryable /\ (ans \in Errors \/ calls[c].cmd # "META")
          /\ End(c, ans)
          /\ UNCHANGED reqs
    /\ UNCHANGED <<dbVars, made, stuck>>

\* aclose() / close(), while a call is under way (at another moment it only
\* makes the next call fail at once).
Close(cl) ==
    /\ ~client[cl].closed
    /\ \E c \in Calls : UnderWay(c) /\ calls[c].client = cl
    /\ client' = [client EXCEPT ![cl].closed = TRUE]
    /\ UNCHANGED <<dbVars, calls, reqs, made, stuck>>

----------------------------------------------------------------------------
(* Facade: one request, <<c, n>>.  A lookup, a check and the command are    *)
(* separate awaits, so a request is admitted and executed in two steps.     *)

Cmd(r)    == calls[r[1]].cmd
Target(r) == calls[r[1]].target

\* await request.is_disconnected(): the client no longer waits for this try.
Disconnected(r) == ~(calls[r[1]].pc = "waiting" /\ calls[r[1]].n = r[2])

\* Which error it is matters to a client that still waits, and to nobody else.
Seen(r, ans) == IF Disconnected(r) /\ ans # "claimed" THEN "unread" ELSE ans

\* The request is answered.
Answers(r, ans) == reqs' = [reqs EXCEPT ![r].st = "answered", ![r].ans = Seen(r, ans)]

\* What handle() may answer before anything is executed, apart from a denial:
\* for good (unknown credentials; an invalid query, header or body reads the
\* same to the client) or for now (the authorizer is down or limits the rate).
Refusals == {"AUTH401", "TQ503"}

\* The queue of a job command is looked up before the caller is authorized for
\* it, so a job that is gone is not found whoever asks.
Missing(r) ==
    Routes[Cmd(r)].source = "job" /\
      LET j == IF Target(r) \in Attempts THEN attempts[Target(r)].job ELSE Target(r)
      IN  j # None => jobs[j].status = "deleted"

\* handle() up to the command: authenticate, find the queue, authorize,
\* validate.
Admit(r) ==
    /\ reqs[r].st = "sent"
    /\ \/ \E e \in Refusals : Answers(r, e)
       \/ Missing(r) /\ Answers(r, "TQ001")
       \/ /\ ~Missing(r) /\ Routes[Cmd(r)].action \notin Granted
          /\ Answers(r, "AUTH403")
       \/ /\ ~Missing(r) /\ Routes[Cmd(r)].action \in Granted
          /\ reqs' = [reqs EXCEPT ![r].st = "admitted"]
    /\ UNCHANGED <<dbVars, client, calls, made, stuck>>

\* The outcome of a SQL function in the words of its route.
FacadeOutcome(cmd, o) ==
    CASE o \in {"unknown_queue", "missing"}         -> "TQ001"
      [] o = "profile_version_conflict"             -> "TQ409"
      [] cmd = "ENQUEUE_MANY" /\ o \notin Errors    -> "ok"
      [] cmd = "REQUEST_WORKER_SHUTDOWN" /\ o = "ok" -> "accepted"
      [] OTHER                                      -> o

\* _command_response: an outcome the route does not register is an internal
\* error, whatever the command did.
Response(cmd, o) ==
    LET out == FacadeOutcome(cmd, o)
    IN  IF out \in Errors \cup DOMAIN Routes[cmd].outcomes THEN out ELSE "TQ500"

IdemOf(key) == IF key \in IdemKeys THEN key ELSE None
StepOf(key) == IF key \in Steps THEN key ELSE None

\* The workflow has a row of this step, finished or not.
StepHeld(s) == s # None /\ \E j \in Jobs : jobs[j].wf = s /\ jobs[j].status # "deleted"

\* producer.enqueue and enqueue_many (of one item).  A row is created, the holder
\* of the key or the row of the step is returned, or the enqueue is refused (the
\* queue is full, the workflow sealed).
ExecuteEnqueue(r, o) ==
    LET idem == IdemOf(calls[r[1]].key)
        step == StepOf(calls[r[1]].key)
    IN
    /\ Cmd(r) \in {"ENQUEUE", "ENQUEUE_MANY"}
    /\ \/ /\ o = "created" /\ ~StepHeld(step)
          /\ \E j \in Jobs : /\ Db!enqueue(j, idem, None, step, {}, TRUE, "none", 2)
                             /\ made' = made \cup {<<r[1], j>>}
       \/ /\ o = "existed" /\ (Db!KeyHeld(idem) \/ StepHeld(step))
          /\ UNCHANGED <<dbVars, made>>
       \/ o \in {"TQ409", "TQ429"} /\ UNCHANGED <<dbVars, made>>

\* _settle: the worker's verbs.
SettleCall(r, o) ==
    LET a == Target(r)
        verb == [COMPLETE |-> "complete", FAIL |-> "fail", SNOOZE |-> "snooze",
                 RELEASE |-> "release", CANCEL_RUNNING |-> "cancel"]
    IN
    /\ Cmd(r) \in Settlements
    /\ \/ ~Db!Fenced(a) /\ o = Db!Reply(verb[Cmd(r)], a) /\ UNCHANGED dbVars
       \/ Cmd(r) = "COMPLETE"       /\ Db!complete_job(a, {}, {}, FALSE, 2) /\ o = "ok"
       \/ /\ Cmd(r) = "FAIL"
          /\ \E again \in BOOLEAN : Db!fail_job(a, again, TRUE)
          /\ o = CASE jobs'[attempts[a].job].status = "queued" -> "retry_scheduled"
                   [] jobs'[attempts[a].job].status = "failed" -> "dead"
                   [] OTHER                                    -> "ok"
       \/ Cmd(r) = "SNOOZE"         /\ Db!snooze_job(a, TRUE) /\ o = "ok"
       \/ Cmd(r) = "RELEASE"        /\ Db!release_job(a, TRUE) /\ o = "ok"
       \/ Cmd(r) = "CANCEL_RUNNING" /\ Db!cancel_running_job(a) /\ o = "ok"

\* runner.heartbeat and the settlements.
ExecuteRunner(r, o) ==
    LET a == Target(r) IN
    /\ \/ SettleCall(r, o)
       \/ /\ Cmd(r) = "HEARTBEAT"
          /\ \/ Db!heartbeat(a) /\ o = "ok"
             \/ ~Db!Fenced(a) /\ o = "lost" /\ UNCHANGED dbVars
    /\ UNCHANGED made

\* _execute_operator on the job tables.
ExecuteOperator(r, o) ==
    LET j == Target(r)
        waiting == {i \in Jobs : jobs[i].status \in {"blocked", "queued"}}
    IN
    /\ \/ /\ Cmd(r) \in {"CANCEL", "REDRIVE", "EXPIRE_JOB", "RUN_NOW"}
          /\ jobs[j].status = "deleted" /\ o = "TQ001" /\ UNCHANGED dbVars
       \/ /\ Cmd(r) = "CANCEL"
          /\ \/ Db!cancel_job(j) /\ o = IF jobs[j].status = "running" THEN "cancel_requested"
                                        ELSE "cancelled"
             \/ jobs[j].status \in Db!Terminal /\ o = "already_terminal" /\ UNCHANGED dbVars
       \/ /\ Cmd(r) = "REDRIVE"
          /\ \/ Db!redrive_job(j, TRUE) /\ o = "redriven"
             \/ /\ jobs[j].status # "failed" \/ jobs[j].wf # None \/ Db!KeyHeld(jobs[j].idem)
                /\ o = "TQ409" /\ UNCHANGED dbVars
       \/ /\ Cmd(r) = "EXPIRE_JOB"
          /\ \/ Db!expire_job(j) /\ o = "expired_and_reaped"
             \/ jobs[j].status # "running" /\ o = "not_running" /\ UNCHANGED dbVars
       \/ /\ Cmd(r) = "EXPIRE_WORKER_LEASES" /\ o = "ok"
          /\ \/ Db!expire_worker_leases(Worker)
             \/ (\A i \in Jobs : jobs[i].status # "running") /\ UNCHANGED dbVars
       \/ /\ Cmd(r) = "PURGE_QUEUED" /\ o = "ok"
          /\ \/ Db!purge_queued(waiting)
             \/ waiting = {} /\ UNCHANGED dbVars
       \/ /\ Cmd(r) = "RUN_NOW"
          /\ \/ Db!run_now(j) /\ o = "ok"
             \/ jobs[j].status # "queued" /\ o = "TQ409" /\ UNCHANGED dbVars
    /\ UNCHANGED made

\* A command outside the job tables answers what its SQL function may answer;
\* what the facade checks itself (a page limit, a cursor, a view, If-Match)
\* and refuses is among those errors.
AnswersAny(r, cmds, o) ==
    /\ Cmd(r) \in cmds
    /\ o \in CommandSpecs[Cmd(r)].outcomes \cup CommandSpecs[Cmd(r)].errors
    /\ UNCHANGED <<dbVars, made>>

\* Discovery, admissions and workflows.
ExecutePlans(r, o) ==
    AnswersAny(r, {"META", "TARGET", "SCHEDULER_HEALTH", "RESERVE_ADMISSION",
                   "FINISH_ADMISSION", "CANCEL_ADMISSION", "CREATE_WORKFLOW",
                   "SEAL_WORKFLOW"}, o)

\* The schedule routes have a handler of their own.
ExecuteSchedules(r, o) ==
    AnswersAny(r, {"GET_SCHEDULE", "PUT_SCHEDULE", "RETIRE_SCHEDULE"}, o)

\* get_job reads the row: one that was deleted since the lookup is missing.
\* The other single reads and pages.
ExecuteReads(r, o) ==
    \/ /\ Cmd(r) = "GET_JOB"
       /\ o = IF jobs[Target(r)].status = "deleted" THEN "missing" ELSE "ok"
       /\ UNCHANGED <<dbVars, made>>
    \/ AnswersAny(r, {"GET_QUEUE", "GET_WORKFLOW_PAGE", "LIST_WORKFLOWS"}, o)

ExecutePages(r, o) ==
    AnswersAny(r, {"LIST_JOBS", "LIST_JOB_EVENTS", "LIST_SCHEDULES", "LIST_WORKERS",
                   "GET_QUEUE_STATS", "LIST_QUEUE_STATS"}, o)

\* The rest of _execute_operator, and worker presence.
ExecuteQueues(r, o) ==
    AnswersAny(r, {"ENSURE_QUEUE", "PAUSE_QUEUE", "RESUME_QUEUE", "SET_CONCURRENCY_LIMIT",
                   "REQUEST_WORKER_SHUTDOWN", "REPRIORITIZE", "CANCEL_WORKFLOW",
                   "WORKER_HEARTBEAT"}, o)

\* _execute of everything but a claim.  The connection to the database may be
\* lost before the command or after its commit.
Execute(r) ==
    /\ reqs[r].st = "admitted"
    /\ \/ \E o \in CommandSpecs[Cmd(r)].outcomes \cup CommandSpecs[Cmd(r)].errors :
             /\ \/ ExecuteEnqueue(r, o) \/ ExecuteRunner(r, o) \/ ExecuteOperator(r, o)
                \/ ExecutePlans(r, o) \/ ExecuteSchedules(r, o) \/ ExecuteReads(r, o)
                \/ ExecutePages(r, o) \/ ExecuteQueues(r, o)
             /\ Answers(r, Response(Cmd(r), o)) \/ Answers(r, "TQ503")
       \/ Cmd(r) # "CLAIM" /\ Answers(r, "TQ503") /\ UNCHANGED <<dbVars, made>>
    /\ UNCHANGED <<client, calls, stuck>>

\* The rows a claim may take.
Claimable ==
    {j \in Jobs : jobs[j].status = "queued" /\ jobs[j].due /\ ~jobs[j].cancel}

\* claim_jobs takes the rows S, row j under attempt f[j], in one transaction.
ClaimsBatch(S, f) ==
    /\ \A i, j \in S : f[i] = f[j] => i = j
    /\ jobs' = [j \in Jobs |-> IF j \in S THEN Db!Claimed(jobs[j], f[j], Worker) ELSE jobs[j]]
    /\ attempts' = [a \in Attempts |->
         IF \E j \in S : f[j] = a
           THEN [status |-> "running", job |-> CHOOSE j \in S : f[j] = a, worker |-> Worker]
           ELSE attempts[a]]
    /\ UNCHANGED <<deps, limits, settledBy, needs>>

\* _claim calls the database, which finds work.  The facade gets the batch; or it
\* sees a transport error instead of the committed answer, and with no batch in
\* hand it has nothing to give back.
ClaimGrants(r) ==
    /\ Cmd(r) = "CLAIM" /\ reqs[r].st = "admitted"
    /\ \E S \in SUBSET Claimable \ {{}} :
         \E f \in [S -> {a \in Attempts : attempts[a].status = "absent"}] :
           LET batch == {f[j] : j \in S} IN
           /\ ClaimsBatch(S, f)
           /\ \/ /\ reqs' = [reqs EXCEPT ![r].st = "granted", ![r].got = batch]
                 /\ UNCHANGED stuck
              \/ /\ reqs' = [reqs EXCEPT ![r].st = "answered", ![r].got = batch,
                                         ![r].ans = Seen(r, "TQ503")]
                 /\ stuck' = stuck \cup batch
    /\ UNCHANGED <<client, calls, made>>

\* _claim ends without work: the wait is over or none was asked for, the queue
\* withholds its jobs or is unknown, a poll notices that its client is gone,
\* or the database call fails without having taken a batch.
ClaimEmpty(r) ==
    /\ Cmd(r) = "CLAIM" /\ reqs[r].st = "admitted"
    /\ \/ \E o \in (CommandSpecs["CLAIM"].outcomes \ {"claimed"}) \cup {"timeout", "TQ422"} :
             Answers(r, Response("CLAIM", o))
       \/ Answers(r, "TQ503")
    /\ UNCHANGED <<dbVars, client, calls, made, stuck>>

\* _release_if_undeliverable looks once: in time and still connected, the
\* batch is delivered; late or disconnected, it is handed back.
CheckDelivery(r) ==
    /\ reqs[r].st = "granted"
    /\ \/ ~Disconnected(r) /\ Answers(r, "claimed")
       \/ reqs' = [reqs EXCEPT ![r].st = "releasing", ![r].todo = reqs[r].got]
    /\ UNCHANGED <<dbVars, client, calls, made, stuck>>

\* Fault: a release that raises ends the loop.
HandBackGivesUp(r) ==
    /\ reqs[r].st = "releasing"
    /\ \/ \E a \in reqs[r].todo :
             /\ reqs' = [reqs EXCEPT ![r].todo = @ \ {a}]
             /\ \/ Db!release_job(a, TRUE) /\ UNCHANGED stuck
                \/ ~Db!Fenced(a) /\ UNCHANGED <<dbVars, stuck>>
       \/ \E a \in reqs[r].todo :
             Answers(r, "TQ503") /\ stuck' = stuck \cup {a} /\ UNCHANGED dbVars
       \/ reqs[r].todo = {} /\ Answers(r, "TQ503") /\ UNCHANGED <<dbVars, stuck>>
    /\ UNCHANGED <<client, calls, made>>

\* The loop that hands a batch back, one release per job: it takes effect,
\* finds the attempt no longer current, or raises; then the claim is refused.
HandBack(r) ==
    /\ reqs[r].st = "releasing"
    /\ \/ \E a \in reqs[r].todo :
             /\ reqs' = [reqs EXCEPT ![r].todo = @ \ {a}]
             /\ \/ Db!release_job(a, TRUE) /\ UNCHANGED stuck
                \/ ~Db!Fenced(a) /\ UNCHANGED <<dbVars, stuck>>
                \/ stuck' = stuck \cup {a} /\ UNCHANGED dbVars
       \/ reqs[r].todo = {} /\ Answers(r, "TQ503") /\ UNCHANGED <<dbVars, stuck>>
    /\ UNCHANGED <<client, calls, made>>

----------------------------------------------------------------------------
(* The rest of the system *)

\* A lease runs out and the row is reaped, an operator cancels a job, retention
\* deletes a finished one; once a call is about jobs.
Elsewhere ==
    /\ \E c \in Calls : calls[c].goal \in OnJobs
    /\ \E j \in Jobs : Db!expire_job(j) \/ Db!cancel_job(j) \/ Db!janitor({j})
    /\ UNCHANGED <<client, calls, reqs, made, stuck>>

----------------------------------------------------------------------------

\* A row without a key, with a budget of two attempts.
Waits == Db!NewJob("queued", None, None, None, None, 0, TRUE, "none", 2)

\* What an attempt whose lease ran out leaves of a row.
LeaseLost(row, a) == Db!Reaped(Db!Claimed(row, a, Worker))

\* Each job is not there yet, waits, runs under an attempt or has failed after
\* two attempts; the clients have been started before or not.
HttpInit ==
    /\ \E a \in Attempts : \E f \in [Jobs -> {"absent", "queued", "running", "failed"}] :
         /\ \A i, j \in Jobs : f[i] = "running" /\ f[j] = "running" => i = j
         /\ jobs = [j \in Jobs |->
              CASE f[j] = "absent"  -> Db!NoJob
                [] f[j] = "queued"  -> Waits
                [] f[j] = "running" -> Db!Claimed(Waits, a, Worker)
                [] f[j] = "failed"  -> LeaseLost(LeaseLost(Waits, a), a)]
         /\ attempts = [b \in Attempts |->
              IF b = a /\ \E j \in Jobs : f[j] = "running"
                THEN [status |-> "running", job |-> CHOOSE j \in Jobs : f[j] = "running",
                      worker |-> Worker]
                ELSE Db!NoAttempt]
    /\ deps = {} /\ limits = [ck \in {} |-> 1]
    /\ settledBy = [a \in Attempts |-> None] /\ needs = [j \in Jobs |-> {}]
    /\ \E b \in BOOLEAN : client = [cl \in Clients |-> [NoClient EXCEPT !.compatible = b]]
    /\ calls = [c \in Calls |-> NoCall]
    /\ reqs = [r \in Calls \X Tries |-> NoReq]
    /\ made = {} /\ stuck = {}

ClientStep(c) == StartClient(c) \/ Send(c) \/ TransportError(c) \/ Receive(c)

\* A request nobody waits for that leaves the job tables alone changes nothing.
Facade(r) ==
    /\ Cmd(r) \in OnJobs \/ ~Disconnected(r)
    /\ Admit(r) \/ Execute(r) \/ ClaimGrants(r) \/ ClaimEmpty(r) \/ CheckDelivery(r)
         \/ HandBack(r)

HttpNext ==
    \/ \E c \in Calls : Invoke(c) \/ ClientStep(c)
    \/ \E cl \in Clients : Close(cl)
    \/ \E r \in Calls \X Tries : Facade(r)
    \/ Elsewhere

HttpSpec == HttpInit /\ [][HttpNext]_httpVars

----------------------------------------------------------------------------
(* Properties *)

\* Once the facade answers a claim with anything but the jobs, no job of the
\* batch it took is still held by the attempt nobody was told of, but for two
\* kinds that wait for their lease to run out: a job whose own hand-back raised,
\* and the batch of a claim whose committed answer never reached the facade.
HandedBack ==
    \A r \in Calls \X Tries :
      reqs[r].st = "answered" /\ reqs[r].ans # "claimed" =>
        \A a \in reqs[r].got : Db!Fenced(a) => a \in stuck

\* A call the client sends again by itself takes effect once, whatever it saw of
\* its tries: at most one batch of jobs was ever taken for one call of claim();
\* one call of enqueue() leads to one active job (unkeyed it is never sent twice,
\* and with a key the repeated try meets the row of the first); and the step of a
\* workflow it names has one row, active or finished, until that is deleted.
OnceDespiteRetry ==
    /\ \A c \in Calls : Cardinality({n \in Tries : reqs[<<c, n>>].got # {}}) <= 1
    /\ \A p, q \in made :
         p[1] = q[1] /\ p[2] # q[2] =>
           LET key == calls[p[1]].key IN
           /\ key # None
           /\ ~(jobs[p[2]].status \in Db!Active /\ jobs[q[2]].status \in Db!Active)
           /\ key \in Steps => "deleted" \in {jobs[p[2]].status, jobs[q[2]].status}

\* A call that is under way can go on, or the call that holds the lock of its
\* client can: no two calls wait for each other, and none for a lock that was
\* left behind.
NobodyStuck ==
    \A c \in Calls : UnderWay(c) =>
      \E d \in {c, client[calls[c].client].lock} \ {None} :
        UnderWay(d) /\ ENABLED ClientStep(d)
=============================================================================
