--------------------------- MODULE TaskqWorkflows ---------------------------
(***************************************************************************)
(* Workflows: taskq.workflows and taskq.workflow_member_counts on top of   *)
(* the job lifecycle of TaskqJobs.  A workflow is planned (members are     *)
(* enqueued against a lifetime limit), sealed, and finalised from counters *)
(* a row trigger keeps; it may be cancelled at any time.                   *)
(*                                                                         *)
(* Every action of TaskqJobs is taken here under the workflow conditions   *)
(* of its function, and together with the trigger.  enqueue, seal_workflow,*)
(* cancel_workflow and the finaliser lock the workflow row; complete_job   *)
(* does not, but its own running member keeps the counters above zero      *)
(* until it commits, so a call is one action here too.                     *)
(***************************************************************************)
EXTENDS TaskqJobs

CONSTANT MemberLimits  \* values of member_limit that producers ask for

ASSUME LimitsAssumption == MemberLimits \subseteq Nat \ {0}

VARIABLES
    flows,     \* taskq.workflows
    counts,    \* taskq.workflow_member_counts, the six status columns
    admitted,  \* taskq.workflow_member_counts.admitted_total
    ended      \* history: the statuses in which members ever ended

flowVars == <<flows, counts, admitted, ended>>
allVars  == <<vars, flowVars>>

Counted == Active \cup Terminal

FlowRow ==
    [status : Terminal \cup {"absent", "running"},
     sealed : BOOLEAN,     \* sealed_at IS NOT NULL
     cancel : BOOLEAN,     \* cancel_requested_at IS NOT NULL
     limit  : Nat,         \* member_limit
     policy : BOOLEAN]     \* continuation_policy_hash IS NOT NULL

NoFlow == [status |-> "absent", sealed |-> FALSE, cancel |-> FALSE, limit |-> 0,
           policy |-> FALSE]

----------------------------------------------------------------------------
(* The counters *)

\* Members of wf with status s in the job table t.
Members(t, wf, s) == {j \in Jobs : t[j].wf = wf /\ t[j].status = s}

\* The trigger taskq.update_workflow_member_counts over the rows a call
\* wrote: a row leaves the column of its old status and enters that of its
\* new one.
update_workflow_member_counts ==
    counts' = [wf \in Workflows |-> [s \in Counted |->
        LET old == Members(jobs, wf, s)
            new == Members(jobs', wf, s)
        IN  (counts[wf][s] + Cardinality(new \ old)) - Cardinality(old \ new)]]

\* The history of ends.
RecordEnds ==
    ended' = [wf \in Workflows |->
                ended[wf] \cup {s \in Terminal : Members(jobs', wf, s) # {}}]

\* What follows the rows in every call that writes jobs.
Triggers == update_workflow_member_counts /\ RecordEnds

\* blocked + queued + running
Open(wf) == counts[wf]["blocked"] + counts[wf]["queued"] + counts[wf]["running"]

\* Fault: the order of the cases is swapped.
VerdictCancelledFirst(wf) ==
    IF counts[wf]["cancelled"] > 0 THEN "cancelled"
    ELSE IF counts[wf]["failed"] > 0 THEN "failed"
    ELSE "succeeded"

\* The outcome of a workflow without open members, from its counters.
Verdict(wf) ==
    IF counts[wf]["failed"] > 0 THEN "failed"
    ELSE IF counts[wf]["cancelled"] > 0 THEN "cancelled"
    ELSE "succeeded"

\* Fault: the limit is compared before the members are added.
ReserveOneOver(wf, n) ==
    /\ admitted[wf] <= flows[wf].limit
    /\ admitted' = [admitted EXCEPT ![wf] = @ + n]

\* taskq._reserve_workflow_members; what does not fit is refused whole.
_reserve_workflow_members(wf, n) ==
    /\ admitted[wf] + n <= flows[wf].limit
    /\ admitted' = [admitted EXCEPT ![wf] = @ + n]

----------------------------------------------------------------------------
(* Planning *)

\* taskq.create_workflow, both signatures.  A key that exists is answered
\* existed or refused and nothing changes.
create_workflow(wf, limit, policy) ==
    /\ flows[wf].status = "absent"
    /\ flows' = [flows EXCEPT ![wf] =
                   [NoFlow EXCEPT !.status = "running", !.limit = limit,
                                  !.policy = policy]]
    /\ UNCHANGED <<vars, counts, admitted, ended>>

\* Fault: a sealed workflow still takes members.
EnqueueUnsealed(j, k, ck, wf, D, due, ttl, max) ==
    /\ enqueue(j, k, ck, wf, D, due, ttl, max)
    /\ \/ wf = None /\ UNCHANGED admitted
       \/ /\ wf # None /\ flows[wf].status # "absent"
          /\ _reserve_workflow_members(wf, 1)
    /\ Triggers
    /\ UNCHANGED flows

\* taskq.enqueue: the workflow exists, is not sealed and has room.
EnqueueMember(j, k, ck, wf, D, due, ttl, max) ==
    /\ enqueue(j, k, ck, wf, D, due, ttl, max)
    /\ \/ wf = None /\ UNCHANGED admitted
       \/ /\ wf # None /\ flows[wf].status # "absent" /\ ~flows[wf].sealed
          /\ _reserve_workflow_members(wf, 1)
    /\ Triggers
    /\ UNCHANGED flows

\* taskq.seal_workflow: no producer adds members any more; a workflow without
\* open members ends at once.
seal_workflow(wf) ==
    /\ flows[wf].status # "absent" /\ ~flows[wf].sealed
    /\ flows' = [flows EXCEPT ![wf].sealed = TRUE,
                              ![wf].status = IF Open(wf) = 0 THEN Verdict(wf) ELSE @]
    /\ UNCHANGED <<vars, counts, admitted, ended>>

----------------------------------------------------------------------------
(* Running *)

\* taskq.claim_jobs passes over members of a workflow that is being cancelled.
\* An unsealed workflow is no obstacle.
ClaimMember(j, w, a) ==
    /\ claim_jobs(j, w, a)
    /\ jobs[j].wf # None => ~flows[jobs[j].wf].cancel
    /\ Triggers
    /\ UNCHANGED <<flows, admitted>>

\* taskq.complete_job: a member of a policy workflow may add members although
\* the workflow is sealed or being cancelled, against the same limit.
CompleteMember(a, F, M, due, max) ==
    LET wf == jobs[attempts[a].job].wf IN
    /\ complete_job(a, F, M, due, max)
    /\ wf # None /\ flows[wf].policy => flows[wf].status = "running"
    /\ \/ M = {} /\ UNCHANGED admitted
       \/ M # {} /\ flows[wf].policy /\ _reserve_workflow_members(wf, Cardinality(M))
    /\ Triggers
    /\ UNCHANGED flows

\* The calls of TaskqJobs that know of workflows only through the trigger.
Unaware ==
    \/ \E a \in Attempts :
          \/ heartbeat(a)
          \/ \E retryable, due \in BOOLEAN : fail_job(a, retryable, due)
          \/ \E due \in BOOLEAN : snooze_job(a, due) \/ release_job(a, due)
          \/ cancel_running_job(a)
    \/ Operator
    \/ \E S \in SUBSET Jobs : expire_ttl(S) \/ janitor(S)
    \/ \E c, p \in Jobs : finalize_dep_stragglers(c, p)
    \/ Time

\* Such a call with the trigger.
JobStep == Unaware /\ Triggers /\ UNCHANGED <<flows, admitted>>

\* taskq.reap_expired with the trigger.
ReapMembers(S) == reap_expired(S) /\ Triggers /\ UNCHANGED <<flows, admitted>>

----------------------------------------------------------------------------
(* Ending *)

\* Workflows the cancellation pass works on.
Cancelling == {wf \in Workflows : flows[wf].cancel /\ flows[wf].status = "running"}

\* The pass of taskq.tick.
AdvanceCancellations(S) ==
    /\ advance_workflow_cancellations(Cancelling, S)
    /\ Triggers
    /\ UNCHANGED <<flows, admitted>>

\* taskq.cancel_workflow: seals, records the intent, makes one pass over the
\* workflows being cancelled and ends the workflow if that left none open.
cancel_workflow(wf, S) ==
    /\ flows[wf].status = "running" /\ ~flows[wf].cancel
    /\ \/ S = {} /\ UNCHANGED vars
       \/ advance_workflow_cancellations(Cancelling \cup {wf}, S)
    /\ Triggers
    /\ flows' = [flows EXCEPT ![wf].sealed = TRUE, ![wf].cancel = TRUE,
                              ![wf].status = IF Open(wf)' = 0 THEN "cancelled" ELSE @]
    /\ UNCHANGED admitted

\* taskq.finalize_workflows for one workflow.
finalize_workflows(wf) ==
    /\ flows[wf].sealed /\ flows[wf].status = "running"
    /\ Open(wf) = 0
    /\ flows' = [flows EXCEPT ![wf].status =
                   IF flows[wf].cancel THEN "cancelled" ELSE Verdict(wf)]
    /\ UNCHANGED <<vars, counts, admitted, ended>>

----------------------------------------------------------------------------

InitFlows ==
    /\ Init
    /\ flows = [wf \in Workflows |-> NoFlow]
    /\ counts = [wf \in Workflows |-> [s \in Counted |-> 0]]
    /\ admitted = [wf \in Workflows |-> 0]
    /\ ended = [wf \in Workflows |-> {}]

Plan ==
    \/ \E wf \in Workflows :
          \/ \E limit \in MemberLimits, policy \in BOOLEAN : create_workflow(wf, limit, policy)
          \/ seal_workflow(wf)
    \/ \E j \in Jobs, k \in IdemKeys \cup {None}, ck \in ConcKeys \cup {None},
          wf \in Workflows \cup {None}, D \in SUBSET Jobs, due \in BOOLEAN,
          ttl \in Ttls, max \in Budgets : EnqueueMember(j, k, ck, wf, D, due, ttl, max)

Work ==
    \/ \E j \in Jobs, w \in Workers, a \in Attempts : ClaimMember(j, w, a)
    \/ \E a \in Attempts, F \in SUBSET Jobs : \E M \in SUBSET F, due \in BOOLEAN,
          max \in Budgets : CompleteMember(a, F, M, due, max)

Conclude ==
    \/ \E wf \in Workflows : \/ \E S \in SUBSET Jobs : cancel_workflow(wf, S)
                             \/ finalize_workflows(wf)
    \/ \E S \in SUBSET Jobs : AdvanceCancellations(S) \/ ReapMembers(S)

NextFlows == Plan \/ Work \/ JobStep \/ Conclude

SpecFlows == InitFlows /\ [][NextFlows]_allVars

\* Every tick runs the reaper, the cancellation pass and the finaliser, and
\* no row is locked by another transaction at every tick.  A pass that takes
\* j with other rows disables the pass over {j}.
Ticks ==
    /\ \A j \in Jobs : WF_allVars(ReapMembers({j})) /\ WF_allVars(AdvanceCancellations({j}))
    /\ \A wf \in Workflows : WF_allVars(finalize_workflows(wf))

FairFlows == SpecFlows /\ Ticks

----------------------------------------------------------------------------
(* Properties *)

\* A workflow that ended is quiet: it was sealed, and no member of it waits
\* or runs, whatever settlements, followups, redrives and cancels raced with
\* its end.
EndedQuiet ==
    \A wf \in Workflows : flows[wf].status \in Terminal =>
       /\ flows[wf].sealed
       /\ \A j \in Jobs : jobs[j].wf = wf => jobs[j].status \in Terminal

\* The lifetime limit holds for producers and continuations together: the
\* members stored never exceed what was admitted, nor that the limit.
LimitHolds ==
    \A wf \in Workflows :
       /\ Cardinality({j \in Jobs : jobs[j].wf = wf}) <= admitted[wf]
       /\ admitted[wf] <= flows[wf].limit

\* The outcome has a reason and is the strongest the stored members give.
\* Cancellation intent wins; failed and cancelled need a member that ended so,
\* cancelled also that none is left that failed; succeeded means every member
\* still stored did.
OutcomeBacked ==
    \A wf \in Workflows :
       /\ flows[wf].cancel => flows[wf].status \in {"running", "cancelled"}
       /\ flows[wf].status = "failed" => "failed" \in ended[wf]
       /\ flows[wf].status = "cancelled" => 
             \/ flows[wf].cancel
             \/ "cancelled" \in ended[wf] /\ Members(jobs, wf, "failed") = {}
       /\ flows[wf].status = "succeeded" =>
             \A j \in Jobs : jobs[j].wf = wf => jobs[j].status = "succeeded"

\* A sealed workflow whose members all ended does not stay running.
SealedEnds ==
    \A wf \in Workflows :
       flows[wf].sealed /\ (\A j \in Jobs : jobs[j].wf = wf => jobs[j].status \in Terminal)
          ~> flows[wf].status \in Terminal

\* A cancelled workflow ends, unless workers keep renewing leases of its
\* members for ever: waiting members, members whose worker died and
\* continuations that were added behind the cancellation are all reached.
CancelEnds ==
    \A wf \in Workflows :
       flows[wf].cancel ~> \/ flows[wf].status = "cancelled"
                           \/ \E j \in Jobs : jobs[j].wf = wf /\ jobs[j].lease = "live"

\* Workflows end: the passes of tick reach what sealing, cancelling and the
\* last settlement left undone.
FlowsEnd == SealedEnds /\ CancelEnds
=============================================================================
