--------------------------- MODULE TaskqSchedules ---------------------------
(***************************************************************************)
(* Recurring schedules: taskq.schedules, taskq.schedule_occurrences and    *)
(* the scheduler processes that claim due schedules, evaluate them and     *)
(* fire them.                                                              *)
(*                                                                         *)
(* A claim hands out a token; the scheduler computes from the claim alone  *)
(* what is due and when to fire next, and proposes it with fire_schedule,  *)
(* which checks the proposal.  Any claim ever handed out may be acted on   *)
(* at any later moment and any number of times: two schedulers, lost       *)
(* answers, repeats and processes that were paused are all in that.  A     *)
(* call that raises or answers stale leaves everything as it was and is no *)
(* step.                                                                   *)
(*                                                                         *)
(* The columns last_action_* only choose between the answers replayed and  *)
(* stale of calls that change nothing; they are not in the state.          *)
(***************************************************************************)
EXTENDS Integers, FiniteSets

CONSTANTS
    Schedules,
    Tokens,       \* claim tokens
    Definitions,  \* recurrence and catch-up settings operators use
    Metas,        \* overlap policy and lateness limits operators use
    Offsets,      \* values of smear_offset_seconds
    Lease,        \* lease_seconds of a claim
    RetryDelay,   \* retry_seconds of schedule_error
    Retention,    \* age at which the janitor prunes occurrence rows
    Foreign,      \* whether evaluators other than the package's may take part
    MaxTime,      \* bound: instants of the model
    MaxVersion,   \* bound: operators change no definition beyond this version
    None          \* SQL NULL

Definition ==
    [kind   : {"interval", "cron", "broken"},  \* broken: no evaluator can compile it
     period : Nat \ {0},                       \* distance of instants
     policy : {"skip", "fire_once", "fire_all"},
     max    : Nat \ {0}]                       \* max_catchup

Meta == [overlap : {"forbid", "allow"}, lateness : Nat \cup {None}]

ASSUME SchedulesAssumption ==
    /\ Definitions \subseteq Definition
    /\ Metas \subseteq Meta
    /\ Foreign \subseteq BOOLEAN
    /\ 0 \in Offsets /\ Offsets \subseteq Nat
    /\ Lease \in Nat /\ RetryDelay \in Nat /\ Retention \in Nat /\ MaxTime \in Nat /\ MaxVersion \in Nat
    /\ None \notin Tokens /\ None \notin Schedules /\ None \notin Int
    /\ None \notin Definitions /\ None \notin Metas
    /\ IsFiniteSet(Tokens)

VARIABLES
    now,      \* database time
    rows,     \* taskq.schedules
    claims,   \* what a claim of each token evaluates to
    occs,     \* taskq.schedule_occurrences: what became of <<schedule, due_at>>
    foreign,  \* other evaluators take part
    seen,     \* history: <<schedule, due_at>> of every instant processed
    anchor    \* history: first instant since the schedule was initialized

svars == <<now, rows, claims, occs, foreign, seen, anchor>>

Row ==
    [state   : {"absent", "active", "paused", "retired"},
     def     : Definitions \cup {None},
     meta    : Metas \cup {None},
     init    : BOOLEAN,                       \* initialized
     next    : Int,                           \* next_fire_at
     version : Nat,
     token   : Tokens \cup {None},            \* claim_token
     asOf    : Nat,                           \* claim_as_of
     expires : Nat,                           \* claim_expires_at
     retry   : Nat,                           \* retry_not_before
     errors  : 0..3,                          \* consecutive_definition_errors
     audit   : {"none", "operator", "auto"},  \* paused_reason
     off     : Offsets]                       \* smear_offset_seconds

NoRow == [state |-> "absent", def |-> None, meta |-> None, init |-> FALSE, next |-> 0,
          version |-> 0, token |-> None, asOf |-> 0, expires |-> 0, retry |-> 0,
          errors |-> 0, audit |-> "none", off |-> 0]

NoClaim == [of |-> None]

\* A job of an occurrence is live (blocked, queued or running), failed (it may
\* be redriven) or over; a skipped occurrence has none.
Fate == {"live", "failed", "over", "skipped"}

----------------------------------------------------------------------------
(* The evaluator: schedules.py, in the frame of the unshifted recurrence *)

\* Whether x is an instant of the recurrence d that has the instant from.
OnLattice(d, from, x) ==
    IF d.kind = "interval" THEN (x - from) % d.period = 0 ELSE x % d.period = 0

\* _next: an interval counts from after, cron takes its next instant.
_next(d, after) ==
    IF d.kind = "interval" THEN after + d.period ELSE (after \div d.period + 1) * d.period

\* The latest instant up to cut.
Latest(d, due, cut) ==
    IF d.kind = "interval" THEN due + ((cut - due) \div d.period) * d.period
    ELSE (cut \div d.period) * d.period

\* Fault: what does not fit in max_catchup is dropped.
OldestDropsRest(d, due, cut) ==
    LET points == {x \in due..cut : x = due \/ OnLattice(d, due, x)}
    IN  [occs |-> {x \in points : Cardinality({y \in points : y < x}) < d.max},
         next |-> _next(d, cut)]

\* fire_all: the oldest instants, at most max_catchup; the cursor follows
\* the last of them.
Oldest(d, due, cut) ==
    LET points == {x \in due..cut : x = due \/ OnLattice(d, due, x)}
        first  == {x \in points : Cardinality({y \in points : y < x}) < d.max}
    IN  [occs |-> first,
         next |-> _next(d, CHOOSE x \in first : \A y \in first : y <= x)]

\* _evaluate_base; an empty "next" is the exception TaskqValidationError.
_evaluate_base(d, init, due, cut) ==
    IF d.kind = "broken" THEN [occs |-> {}, next |-> None]
    ELSE IF ~init \/ d.policy = "skip" THEN [occs |-> {}, next |-> _next(d, cut)]
    ELSE IF d.policy = "fire_all" THEN Oldest(d, due, cut)
    ELSE IF Latest(d, due, cut) < due THEN [occs |-> {}, next |-> None]
    ELSE [occs |-> {Latest(d, due, cut)}, next |-> _next(d, cut)]

\* evaluate_schedule: into the unshifted frame and back.
evaluate_schedule(r, asOf) ==
    LET e == _evaluate_base(r.def, r.init, r.next - r.off, asOf - r.off)
    IN  [occs |-> {x + r.off : x \in e.occs},
         next |-> IF e.next = None THEN None ELSE e.next + r.off]

----------------------------------------------------------------------------
(* Operators *)

\* The row without its claim.
Unclaimed(r) == [r EXCEPT !.token = None, !.asOf = 0, !.expires = 0, !.retry = 0]

\* Fault: the claim and the version survive.
PutKeepsClaim(s, d, m, paused) ==
    LET r == rows[s] IN
    /\ r.state \in {"absent", "active", "paused"} /\ r.version < MaxVersion
    /\ rows' = [rows EXCEPT ![s] =
          [r EXCEPT !.state = IF paused THEN "paused" ELSE "active", !.def = d, !.meta = m,
                    !.version = IF r.version = 0 THEN 1 ELSE r.version,
                    !.init = FALSE, !.next = now, !.errors = 0, !.audit = "none"]]
    /\ UNCHANGED <<now, claims, occs, foreign, seen, anchor>>

\* taskq.put_managed_schedule, with the version the operator read; with the
\* meta data of the row it is taskq.put_schedule.  Pausing an unchanged
\* definition keeps the cursor, and so does a change of the meta data (which
\* may be of the display name alone); any other change starts over from now.
\* Without an expected version only meta data can change, those of a retired
\* row too.
put_managed_schedule(s, d, m, paused) ==
    LET r      == rows[s]
        st     == IF paused THEN "paused" ELSE "active"
        change == r.def # d \/ r.state # st
        keep   == ~change \/ (r.state = "active" /\ paused /\ r.def = d)
    IN
    /\ \/ /\ r.state = "absent"
          /\ rows' = [rows EXCEPT ![s] =
                [NoRow EXCEPT !.state = st, !.def = d, !.meta = m, !.next = now, !.version = 1]]
       \/ /\ r.state \in {"active", "paused"} /\ r.version < MaxVersion
          /\ rows' = [rows EXCEPT ![s] =
                [Unclaimed(r) EXCEPT
                    !.state = st, !.def = d, !.meta = m, !.version = r.version + 1,
                    !.init = keep /\ r.init, !.next = IF keep THEN r.next ELSE now,
                    !.errors = 0, !.audit = "none"]]
       \/ /\ r.state = "retired" /\ r.def = d /\ ~paused /\ r.version <= MaxVersion
          /\ rows' = [rows EXCEPT ![s] =
                [Unclaimed(r) EXCEPT !.meta = m, !.version = r.version + 1, !.errors = 0]]
    /\ UNCHANGED <<now, claims, occs, foreign, seen, anchor>>

\* taskq.set_schedule_state: resuming starts over from now.
set_schedule_state(s, st) ==
    LET r == rows[s] IN
    /\ r.state \in {"active", "paused"} /\ r.state # st /\ r.version < MaxVersion
    /\ rows' = [rows EXCEPT ![s] =
          [Unclaimed(r) EXCEPT
              !.state = st, !.version = r.version + 1,
              !.init = r.init /\ st = "paused", !.next = IF st = "active" THEN now ELSE r.next,
              !.errors = IF st = "active" THEN 0 ELSE r.errors,
              !.audit = IF st = "paused" THEN "operator" ELSE "none"]]
    /\ UNCHANGED <<now, claims, occs, foreign, seen, anchor>>

\* taskq.retire_schedule leaves paused_reason, which schedules_paused_audit_ck
\* only allows on a paused row: a row with a reason cannot be retired.
retire_schedule(s) ==
    LET r == rows[s] IN
    /\ r.state \in {"active", "paused"} /\ r.audit = "none"
    /\ rows' = [rows EXCEPT ![s] =
          [Unclaimed(r) EXCEPT !.state = "retired", !.version = r.version + 1]]
    /\ UNCHANGED <<now, claims, occs, foreign, seen, anchor>>

\* taskq.set_schedule_smear touches neither version, claim nor cursor.
set_schedule_smear(s, off) ==
    /\ rows[s].state # "absent" /\ rows[s].off # off
    /\ rows' = [rows EXCEPT ![s].off = off]
    /\ anchor' = [anchor EXCEPT ![s] = None]
    /\ UNCHANGED <<now, claims, occs, foreign, seen>>

----------------------------------------------------------------------------
(* Schedulers *)

\* taskq.claim_schedules for one row of its batch.
claim_schedules(s, t) ==
    LET r == rows[s] IN
    /\ claims[t] = NoClaim
    /\ r.state = "active" /\ r.next <= now /\ r.retry <= now
    /\ r.token = None \/ r.expires <= now
    /\ rows' = [rows EXCEPT ![s] =
          [r EXCEPT !.token = t, !.asOf = now, !.expires = now + Lease]]
    /\ claims' = [claims EXCEPT ![t] =
          [of |-> s, version |-> r.version, def |-> r.def, proposal |-> evaluate_schedule(r, now)]]
    /\ UNCHANGED <<now, occs, foreign, seen, anchor>>

\* The claim of t is the row's, unexpired and of the current version.
Fenced(t) ==
    /\ claims[t] # NoClaim
    /\ LET r == rows[claims[t].of] IN
       /\ r.state = "active" /\ r.version = claims[t].version
       /\ r.token = t /\ r.expires >= now

\* Fault: fire_once may leave the cursor behind the occurrence.
BoundsCursorBehind(r, O, nxt) ==
    /\ O \subseteq Int /\ nxt \in Int
    /\ Cardinality(O) <= r.def.max /\ nxt > r.next
    /\ \A d \in O : d <= r.asOf
    /\ IF ~r.init \/ r.def.policy = "skip" THEN O = {} /\ nxt > r.asOf
       ELSE IF r.def.policy = "fire_once"
       THEN Cardinality(O) = 1 /\ \A d \in O : d >= r.next
       ELSE /\ r.next \in O /\ \A d \in O : r.next <= d /\ d < nxt
            /\ Cardinality(O) < r.def.max => nxt > r.asOf

\* The proposals fire_schedule accepts: the occurrences O and the next cursor.
Bounds(r, O, nxt) ==
    /\ O \subseteq Int /\ nxt \in Int
    /\ Cardinality(O) <= r.def.max /\ nxt > r.next
    /\ \A d \in O : d <= r.asOf
    /\ IF ~r.init \/ r.def.policy = "skip" THEN O = {} /\ nxt > r.asOf
       ELSE IF r.def.policy = "fire_once"
       THEN Cardinality(O) = 1 /\ (\A d \in O : d >= r.next) /\ nxt > r.asOf
       ELSE /\ r.next \in O /\ \A d \in O : r.next <= d /\ d < nxt
            /\ Cardinality(O) < r.def.max => nxt > r.asOf

OnTime(r, d) == r.meta.lateness = None \/ r.asOf - d <= r.meta.lateness

\* Fault: only the jobs of earlier calls are looked at.
OverlapsTableOnly(s, d, O) == \E o \in DOMAIN occs : o[1] = s /\ o[2] < d /\ occs[o] = "live"

\* An earlier occurrence has a live job when the loop comes to d: one of the
\* table, or the first on-time one of this call.
Overlaps(s, d, O) ==
    \/ \E o \in DOMAIN occs : o[1] = s /\ o[2] < d /\ occs[o] = "live"
    \/ \E e \in O : e < d /\ <<s, e>> \notin DOMAIN occs /\ OnTime(rows[s], e)

Fires(s, d, O) ==
    /\ OnTime(rows[s], d)
    /\ rows[s].meta.overlap = "forbid" => ~Overlaps(s, d, O)

\* taskq.fire_schedule: records every occurrence that has no row yet, enqueues
\* the jobs and moves the cursor.
fire_schedule(t, O, nxt) ==
    LET s     == claims[t].of
        r     == rows[s]
        fresh == {<<s, d>> : d \in O} \ DOMAIN occs
    IN
    /\ Fenced(t) /\ Bounds(r, O, nxt)
    /\ occs' = [o \in DOMAIN occs \cup fresh |->
                  IF o \notin fresh THEN occs[o]
                  ELSE IF Fires(s, o[2], O) THEN "live" ELSE "skipped"]
    /\ rows' = [rows EXCEPT ![s] =
          [Unclaimed(r) EXCEPT !.init = TRUE, !.next = nxt, !.errors = 0]]
    /\ seen' = seen \cup {<<s, d>> : d \in O}
    /\ anchor' = IF r.init THEN anchor ELSE [anchor EXCEPT ![s] = nxt]
    /\ UNCHANGED <<now, claims, foreign>>

\* taskq.schedule_error: the third deterministic error in a row pauses.
schedule_error(t, deterministic) ==
    LET s     == claims[t].of
        r     == rows[s]
        count == IF ~deterministic THEN r.errors ELSE IF r.errors < 3 THEN r.errors + 1 ELSE 3
        pause == deterministic /\ count >= 3
    IN
    /\ Fenced(t)
    /\ rows' = [rows EXCEPT ![s] =
          [Unclaimed(r) EXCEPT
              !.state = IF pause THEN "paused" ELSE "active",
              !.version = IF pause THEN r.version + 1 ELSE r.version,
              !.retry = IF pause THEN 0 ELSE now + RetryDelay,
              !.errors = count, !.audit = IF pause THEN "auto" ELSE r.audit]]
    /\ UNCHANGED <<now, claims, occs, foreign, seen, anchor>>

\* SchedulerEngine.process_batch for one claim: the proposal of the package's
\* evaluator, or the error it raised.
ProcessClaim(t) ==
    /\ claims[t] # NoClaim
    /\ LET p == claims[t].proposal IN
       IF p.next = None THEN schedule_error(t, TRUE) ELSE fire_schedule(t, p.occs, p.next)

\* Any other program with the housekeeper's rights.
ForeignFires(t) ==
    /\ foreign
    /\ \E O \in SUBSET (0..now), nxt \in 0..MaxTime + 1 : fire_schedule(t, O, nxt)

ForeignFails(t) ==
    /\ foreign
    /\ \E deterministic \in BOOLEAN : schedule_error(t, deterministic)

----------------------------------------------------------------------------
(* Jobs, the janitor and time *)

\* The job of an occurrence settles, or is redriven.
JobSettles(o, fate) ==
    /\ occs[o] = "live"
    /\ occs' = [occs EXCEPT ![o] = fate]
    /\ UNCHANGED <<now, rows, claims, foreign, seen, anchor>>

JobRedriven(o) ==
    /\ occs[o] = "failed"
    /\ occs' = [occs EXCEPT ![o] = "live"]
    /\ UNCHANGED <<now, rows, claims, foreign, seen, anchor>>

\* taskq.janitor: old occurrence rows without a job, behind the cursor.  A row
\* is made at or after its due_at, so this prunes no later than the code.
janitor ==
    LET old == {o \in DOMAIN occs : occs[o] = "skipped" /\ o[2] + Retention < now
                                    /\ o[2] < rows[o[1]].next}
    IN
    /\ old # {}
    /\ occs' = [o \in DOMAIN occs \ old |-> occs[o]]
    /\ UNCHANGED <<now, rows, claims, foreign, seen, anchor>>

Tick ==
    /\ now < MaxTime
    /\ now' = now + 1
    /\ UNCHANGED <<rows, claims, occs, foreign, seen, anchor>>

Init ==
    /\ now = 0
    /\ rows = [s \in Schedules |-> NoRow]
    /\ claims = [t \in Tokens |-> NoClaim]
    /\ occs = << >>
    /\ foreign \in Foreign
    /\ seen = {}
    /\ anchor = [s \in Schedules |-> None]

Next ==
    \/ \E s \in Schedules, d \in Definitions, m \in Metas, paused \in BOOLEAN :
          put_managed_schedule(s, d, m, paused)
    \/ \E s \in Schedules, st \in {"active", "paused"} : set_schedule_state(s, st)
    \/ \E s \in Schedules : retire_schedule(s)
    \/ \E s \in Schedules, off \in Offsets : set_schedule_smear(s, off)
    \/ \E s \in Schedules, t \in Tokens : claim_schedules(s, t)
    \/ \E t \in Tokens : ProcessClaim(t) \/ ForeignFires(t) \/ ForeignFails(t)
    \/ \E o \in DOMAIN occs, fate \in {"failed", "over"} : JobSettles(o, fate)
    \/ \E o \in DOMAIN occs : JobRedriven(o)
    \/ janitor
    \/ Tick

Spec == Init /\ [][Next]_svars

----------------------------------------------------------------------------
(* Properties *)

SchedulesTypeOK ==
    /\ now \in Nat
    /\ rows \in [Schedules -> Row]
    /\ \A s \in Schedules : rows[s].state # "absent" => rows[s].def # None /\ rows[s].meta # None
    /\ DOMAIN claims = Tokens
    /\ \A t \in Tokens :
          claims[t] = NoClaim \/ (claims[t].of \in Schedules /\ claims[t].version \in Nat)
    /\ DOMAIN occs \subseteq seen
    /\ \A o \in DOMAIN occs : occs[o] \in Fate
    /\ seen \subseteq Schedules \X Int
    /\ anchor \in [Schedules -> Int \cup {None}]

\* The cursor of a running schedule lies beyond every instant processed so
\* far, whatever was proposed by whom and however often the definition
\* changed: no instant is processed twice, pruned or not.
BehindCursor == \A o \in seen : rows[o[1]].init => o[2] < rows[o[1]].next

\* With fire_all the schedulers of the package process every instant of the
\* recurrence from the one the schedule started at up to the cursor, however
\* far behind they were.  A new smear offset starts the account over.
NothingMissed ==
    \A s \in Schedules :
        LET r == rows[s] IN
        ~foreign /\ r.init /\ anchor[s] # None /\ r.def.policy = "fire_all" =>
            \A x \in anchor[s]..(r.next - 1) :
                OnLattice(r.def, anchor[s] - r.off, x - r.off) => <<s, x>> \in seen

\* A job enqueued for a schedule that forbids overlap is its only live job,
\* although fire_schedule looks at earlier occurrences alone.
OverlapForbidden ==
    [][\A o \in DOMAIN occs' \ DOMAIN occs :
          occs'[o] = "live" /\ rows[o[1]].meta.overlap = "forbid" =>
             \A e \in DOMAIN occs' : e[1] = o[1] /\ occs'[e] = "live" => e = o]_svars

\* The cursor of a running schedule moves only by a claim that saw the
\* definition in force: an evaluation begun before an operator's change is
\* never applied after it.
CursorByDefinition ==
    [][\A s \in Schedules :
          rows'[s].init /\ rows'[s].next # rows[s].next =>
             /\ rows[s].state = "active" /\ rows[s].token # None
             /\ claims[rows[s].token].of = s /\ claims[rows[s].token].def = rows[s].def]_svars

=============================================================================
