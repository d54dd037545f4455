------------------------------ MODULE MCFake ------------------------------
EXTENDS TaskqFake, TLC

\* Ids of jobs and attempts are interchangeable.
Symmetry == Permutations(Jobs) \cup Permutations(Attempts)

Bare(due) == [key |-> None, ckey |-> None, ttl |-> "none", due |-> due, max |-> 2]

\* A job without anything, one with an idempotency key, one with a concurrency
\* key, one with a time to live, and one for later.
SomeCommands ==
    {Bare(TRUE), Bare(FALSE), [Bare(TRUE) EXCEPT !.ttl = "live"]}
      \cup {[Bare(TRUE) EXCEPT !.key = k] : k \in Keys}
      \cup {[Bare(TRUE) EXCEPT !.ckey = c] : c \in ConcKeys}

\* Three jobs are met when all are plain and no drain is on its way.  Two jobs are
\* enough to pass the cap of a key and the limit of a drain, which takes a job as
\* it comes, so drain and the other columns are met apart.
Plain(r) == r.ckey = None /\ r.ttl = "none" /\ (r.status = "absent" \/ r.due)

SmallTables ==
    LET stored == Cardinality({j \in Jobs : rows[j].status # "absent"})
        plain == \A j \in Jobs : Plain(rows[j])
    IN  IF drain = Idle THEN plain \/ stored <= 2 ELSE plain /\ stored <= 2
=============================================================================
