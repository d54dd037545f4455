------------------------------ MODULE MCHttp ------------------------------
EXTENDS TaskqHttp, TLC

CONSTANTS c1, c2

\* One call of any method of the job tables and of some that do not touch
\* them; and two calls, one of them start(), that share a client.
AloneOrStarting ==
    {(c1 :> {"CLAIM", "ENQUEUE", "ENQUEUE_MANY", "HEARTBEAT", "COMPLETE", "FAIL", "SNOOZE",
             "RELEASE", "CANCEL_RUNNING", "CANCEL", "REDRIVE", "EXPIRE_JOB",
             "EXPIRE_WORKER_LEASES", "PURGE_QUEUED", "RUN_NOW", "GET_JOB",
             "ENSURE_QUEUE", "PAUSE_QUEUE", "PUT_SCHEDULE", "LIST_WORKERS"})
       @@ (c2 :> {}),
     (c1 :> {"META"}) @@ (c2 :> {"GET_QUEUE"})}

\* Ids of jobs and attempts are interchangeable.
Symmetry == Permutations(Jobs) \cup Permutations(Attempts)
===========================================================================
