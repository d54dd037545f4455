----------------------- MODULE TaskqWorkflowsProofs -----------------------
(***************************************************************************)
(* Theorems about TaskqWorkflows for any number of workflows, jobs and     *)
(* attempts and any member limits.                                         *)
(*                                                                         *)
(* A step of TaskqWorkflows is a step of TaskqJobs on the job tables, so   *)
(* the rows keep the invariant of TaskqJobsProofs; what is left is who     *)
(* joins a workflow, and that the counters a call compares are the rows.   *)
(***************************************************************************)
EXTENDS TaskqWorkflows, TaskqJobsProofs

-----------------------------------------------------------------------------
(* The invariant *)

FlowTypes ==
    /\ flows \in [Workflows -> FlowRow]
    /\ counts \in [Workflows -> [Counted -> Nat]]
    /\ admitted \in [Workflows -> Nat]
    /\ ended \in [Workflows -> SUBSET Terminal]

\* The members of wf in the job table t.
Belongs(t, wf) == {j \in Jobs : t[j].wf = wf}

\* A row that is not stored is a member of nothing.
Placed == \A j \in Jobs : jobs[j].status \in {"absent", "deleted"} => jobs[j].wf = None

\* The trigger's counters are the rows.
Counters ==
    \A wf \in Workflows, s \in Counted : counts[wf][s] = Cardinality(Members(jobs, wf, s))

\* The limit, and the history of ends, of one workflow.
Limited(wf) == /\ Cardinality(Belongs(jobs, wf)) <= admitted[wf]
               /\ admitted[wf] <= flows[wf].limit
Noted(wf)   == \A s \in Terminal : Members(jobs, wf, s) # {} => s \in ended[wf]

\* What the row of a workflow says is so: nothing was admitted to a workflow that
\* does not exist, a cancelled one was sealed, and one that ended is quiet and has
\* the outcome its members give it.
FlowOK(wf) ==
    LET f == flows[wf]
        M == Belongs(jobs, wf)
    IN
    /\ Limited(wf) /\ Noted(wf)
    /\ f.status = "absent" => admitted[wf] = 0 /\ ~f.cancel
    /\ f.cancel => f.sealed /\ f.status \in {"running", "cancelled"}
    /\ f.status \in Terminal => f.sealed /\ \A j \in M : jobs[j].status \in Terminal
    /\ f.status = "failed" => "failed" \in ended[wf]
    /\ f.status = "cancelled" =>
          \/ f.cancel
          \/ "cancelled" \in ended[wf] /\ Members(jobs, wf, "failed") = {}
    /\ f.status = "succeeded" => \A j \in M : jobs[j].status = "succeeded"

FlowInv == /\ Inv /\ FlowTypes /\ Placed /\ Counters
           /\ \A wf \in Workflows : FlowOK(wf)

-----------------------------------------------------------------------------
(* Counters *)

LEMMA MembersFinite ==
    ASSUME NEW t, NEW wf, NEW s
    PROVE  /\ IsFiniteSet(Members(t, wf, s)) /\ Cardinality(Members(t, wf, s)) \in Nat
           /\ IsFiniteSet(Belongs(t, wf)) /\ Cardinality(Belongs(t, wf)) \in Nat
<1>1. Members(t, wf, s) \subseteq Jobs /\ Belongs(t, wf) \subseteq Jobs
  BY DEF Members, Belongs
<1> QED  BY <1>1, FiniteAssumption, FS_Subset, FS_CardinalityType

\* A set that loses some elements and gains others.
LEMMA Recount ==
    ASSUME NEW A, NEW B, IsFiniteSet(A), IsFiniteSet(B)
    PROVE  (Cardinality(A) + Cardinality(B \ A)) - Cardinality(A \ B) = Cardinality(B)
<1>1. /\ Cardinality(A) \in Nat /\ Cardinality(B) \in Nat
      /\ IsFiniteSet(B \ A) /\ IsFiniteSet(A \ B)
  BY FS_CardinalityType, FS_Subset
<1>2. Cardinality(B \ A) \in Nat /\ Cardinality(A \ B) \in Nat
  BY <1>1, FS_CardinalityType
<1>3. /\ A \cap (B \ A) = {} /\ B \cap (A \ B) = {} /\ Cardinality({}) = 0
  BY FS_EmptySet
<1>4. Cardinality(A \cup (B \ A)) = Cardinality(A) + Cardinality(B \ A) - Cardinality({})
  BY <1>1, <1>3, FS_Union
<1>5. Cardinality(B \cup (A \ B)) = Cardinality(B) + Cardinality(A \ B) - Cardinality({})
  BY <1>1, <1>3, FS_Union
<1>6. Cardinality(A) + Cardinality(B \ A) = Cardinality(B) + Cardinality(A \ B)
  <2>1. Cardinality(A \cup (B \ A)) = Cardinality(B \cup (A \ B))
    <3>1. A \cup (B \ A) = B \cup (A \ B)
      OBVIOUS
    <3> QED  BY <3>1
  <2>2. \A a, b, c, d, x, y \in Nat : x = a + c - 0 /\ y = b + d - 0 /\ x = y => a + c = b + d
    OBVIOUS
  <2>3. Cardinality(A \cup (B \ A)) \in Nat
    BY <1>1, FS_Union, FS_CardinalityType
  <2> QED  BY <1>1, <1>2, <1>3, <1>4, <1>5, <2>1, <2>2, <2>3
<1>7. \A a, b, c, d \in Nat : a + c = b + d => (a + c) - d = b
  OBVIOUS
<1> QED  BY <1>1, <1>2, <1>6, <1>7

\* The trigger keeps the counters equal to the rows, whatever a call wrote.
LEMMA TriggerCounts ==
    ASSUME Counters, update_workflow_member_counts
    PROVE  Counters' /\ counts' \in [Workflows -> [Counted -> Nat]]
<1>1. ASSUME NEW wf \in Workflows, NEW s \in Counted
      PROVE  counts'[wf][s] = Cardinality(Members(jobs', wf, s)) /\ counts'[wf][s] \in Nat
  <2> DEFINE old == Members(jobs, wf, s)
             new == Members(jobs', wf, s)
  <2>1. counts'[wf][s] = (counts[wf][s] + Cardinality(new \ old)) - Cardinality(old \ new)
    BY DEF update_workflow_member_counts
  <2>2. counts[wf][s] = Cardinality(old)
    BY DEF Counters
  <2>3. IsFiniteSet(old) /\ IsFiniteSet(new) /\ Cardinality(new) \in Nat
    BY MembersFinite
  <2> HIDE DEF old, new
  <2>4. counts'[wf][s] = Cardinality(new)
    BY <2>1, <2>2, <2>3, Recount
  <2> QED  BY <2>3, <2>4 DEF new
<1>2. counts' = [wf \in Workflows |-> [s \in Counted |-> counts'[wf][s]]]
  BY DEF update_workflow_member_counts
<1> QED  BY <1>1, <1>2 DEF Counters, Members

\* A workflow whose counters show no open member has none.
LEMMA NoneOpen ==
    ASSUME NEW t \in [Jobs -> JobRow], NEW wf \in Workflows, NEW c \in [Counted -> Nat],
           \A j \in Jobs : t[j].status \in {"absent", "deleted"} => t[j].wf = None,
           \A s \in Counted : c[s] = Cardinality(Members(t, wf, s)),
           c["blocked"] + c["queued"] + c["running"] = 0
    PROVE  \A j \in Belongs(t, wf) : t[j].status \in Terminal
<1>1. {"blocked", "queued", "running"} \subseteq Counted
  BY DEF Counted, Active
<1>2. c["blocked"] = 0 /\ c["queued"] = 0 /\ c["running"] = 0
  BY <1>1
<1>3. \A s \in Active : Members(t, wf, s) = {}
  BY <1>1, <1>2, MembersFinite, FS_EmptySet DEF Active
<1>4. wf # None
  BY ConstantsAssumption
<1> QED  BY <1>3, <1>4 DEF Members, Belongs, Active, JobRow, JobStatus

-----------------------------------------------------------------------------
(* Steps of the rows *)

\* Of the jobs that were not stored before, those of J may join v, and the others
\* join nothing.
Arrive(J, v) ==
    \A i \in Jobs : jobs[i].status = "absent" =>
       \/ jobs'[i] = jobs[i]
       \/ /\ jobs'[i].status \in Active
          /\ jobs'[i].wf = None \/ (i \in J /\ jobs'[i].wf = v)

\* The jobs of J are admitted to v while it runs and has room.
Admits(J, v) ==
    /\ admitted' \in [Workflows -> Nat]
    /\ \A wf \in Workflows :
          admitted'[wf] = IF wf = v THEN admitted[wf] + Cardinality(J) ELSE admitted[wf]
    /\ v \in Workflows /\ J # {} =>
          flows[v].status = "running" /\ admitted'[v] <= flows[v].limit

\* A member was one before, and stays as it ended, or is one of J.
LEMMA Whose ==
    ASSUME Inv, Placed, (Steps \/ jobs' = jobs), NEW J, NEW v, Arrive(J, v),
           NEW i \in Jobs, NEW wf \in Workflows, jobs'[i].wf = wf
    PROVE  \/ /\ jobs[i].wf = wf
              /\ jobs[i].status \in Terminal => jobs'[i].status = jobs[i].status
           \/ i \in J /\ wf = v
<1>1. wf # None
  BY ConstantsAssumption
<1>2. CASE jobs'[i] = jobs[i]
  BY <1>2
<1>3. CASE jobs[i].status = "absent"
  BY <1>1, <1>2, <1>3 DEF Arrive
<1>4. CASE jobs'[i] # jobs[i] /\ jobs[i].status # "absent"
  <2>1. RowStep(jobs[i], jobs'[i])
    BY <1>4 DEF Steps
  <2>2. jobs'[i].status # "deleted"
    BY <1>1, <1>4, <2>1 DEF RowStep
  <2> QED  BY <1>1, <1>4, <2>1, <2>2 DEF RowStep, Terminal
<1> QED  BY <1>2, <1>3, <1>4

LEMMA StillPlaced ==
    ASSUME Inv, Placed, (Steps \/ jobs' = jobs), NEW J, NEW v, Arrive(J, v)
    PROVE  Placed'
<1> SUFFICES ASSUME NEW i \in Jobs, jobs'[i].status \in {"absent", "deleted"}, jobs'[i] # jobs[i]
             PROVE  jobs'[i].wf = None
  BY DEF Placed
<1>1. RowStep(jobs[i], jobs'[i])
  BY DEF Steps
<1>2. CASE jobs'[i].status = "absent"
  <2>1. jobs[i].status = "absent"
    BY <1>1, <1>2 DEF RowStep, StatusStep
  <2> QED  BY <1>2, <2>1 DEF Arrive, Active
<1>3. CASE jobs'[i].status = "deleted"
  BY <1>1, <1>3 DEF RowStep
<1> QED  BY <1>2, <1>3

\* What the calls that write rows share: the counters follow, a workflow gains at
\* most the members it admitted, and if its own row stays it stays as it was.
LEMMA RowsMove ==
    ASSUME FlowInv, (Steps \/ jobs' = jobs), NEW J \in SUBSET Jobs, NEW v, Arrive(J, v),
           Triggers, flows' \in [Workflows -> FlowRow], Admits(J, v)
    PROVE  /\ FlowTypes' /\ Placed' /\ Counters'
           /\ \A wf \in Workflows :
                 /\ Cardinality(Belongs(jobs', wf)) <= admitted'[wf] /\ Noted(wf)'
                 /\ flows'[wf] = flows[wf] => FlowOK(wf)'
<1>1. Inv /\ Placed /\ Counters /\ FlowTypes /\ \A wf \in Workflows : FlowOK(wf)
  BY DEF FlowInv
<1>2. Placed'
  BY <1>1, StillPlaced
<1>3. Counters' /\ counts' \in [Workflows -> [Counted -> Nat]]
  BY <1>1, TriggerCounts DEF Triggers
<1>4. \A wf \in Workflows : ended'[wf] = ended[wf] \cup {s \in Terminal : Members(jobs', wf, s) # {}}
  BY DEF Triggers, RecordEnds
<1>5. FlowTypes'
  <2>1. ended' \in [Workflows -> SUBSET Terminal]
    BY <1>1 DEF FlowTypes, Triggers, RecordEnds
  <2> QED  BY <1>3, <2>1 DEF FlowTypes, Admits
<1>6. ASSUME NEW wf \in Workflows
      PROVE  /\ Cardinality(Belongs(jobs', wf)) <= admitted'[wf] /\ Noted(wf)'
             /\ flows'[wf] = flows[wf] => FlowOK(wf)'
  <2> DEFINE G == IF wf = v THEN J ELSE {}
             old == Belongs(jobs, wf)
             new == Belongs(jobs', wf)
  <2>1. FlowOK(wf)
    BY <1>1
  <2>2. \A i \in new : \/ i \in old /\ (jobs[i].status \in Terminal
                                          => jobs'[i].status = jobs[i].status)
                       \/ i \in G
    BY <1>1, Whose DEF Belongs
  <2>3. IsFiniteSet(G) /\ Cardinality(G) \in Nat
    BY FiniteAssumption, FS_Subset, FS_CardinalityType, FS_EmptySet
  <2>4. admitted[wf] \in Nat /\ admitted'[wf] \in Nat /\ admitted'[wf] = admitted[wf] + Cardinality(G)
    BY <1>1, FS_EmptySet DEF FlowTypes, Admits
  <2>5. Cardinality(new) <= admitted'[wf]
    <3>1. /\ IsFiniteSet(old) /\ Cardinality(old) \in Nat /\ IsFiniteSet(new)
          /\ Cardinality(new) \in Nat
      BY MembersFinite
    <3>2. new \subseteq old \cup G
      BY <2>2
    <3>3. IsFiniteSet(old \cup G) /\ IsFiniteSet(old \cap G)
      BY <2>3, <3>1, FS_Union, FS_Subset
    <3>4. Cardinality(new) <= Cardinality(old \cup G) /\ Cardinality(old \cup G) \in Nat
      BY <3>2, <3>3, FS_Subset, FS_CardinalityType
    <3>5. Cardinality(old \cup G) <= Cardinality(old) + Cardinality(G)
      <4>1. Cardinality(old \cap G) \in Nat
        BY <3>3, FS_CardinalityType
      <4>2. Cardinality(old \cup G) = Cardinality(old) + Cardinality(G) - Cardinality(old \cap G)
        BY <2>3, <3>1, FS_Union
      <4> HIDE DEF old, G
      <4> QED  BY <2>3, <3>1, <3>4, <4>1, <4>2
    <3>6. Cardinality(old) <= admitted[wf]
      BY <2>1 DEF FlowOK, Limited
    <3> HIDE DEF old, new, G
    <3> QED  BY <2>3, <2>4, <3>1, <3>4, <3>5, <3>6
  <2>6. Noted(wf)'
    BY <1>4 DEF Noted, Members
  <2>7. ASSUME flows'[wf] = flows[wf] PROVE FlowOK(wf)'
    <3>1. flows[wf].status # "running" => G = {} /\ admitted'[wf] = admitted[wf]
      BY <2>4, FS_EmptySet DEF Admits
    <3>2. admitted'[wf] <= flows'[wf].limit
      <4>1. admitted[wf] <= flows[wf].limit /\ flows[wf].limit \in Nat
        BY <1>1, <2>1 DEF FlowOK, Limited, FlowTypes, FlowRow
      <4>2. CASE G = {}
        <5>1. Cardinality(G) = 0
          BY <4>2, FS_EmptySet
        <5> HIDE DEF G
        <5> QED  BY <2>4, <2>7, <4>1, <5>1
      <4>3. CASE G # {}
        BY <2>7, <4>3 DEF Admits
      <4> QED  BY <4>2, <4>3
    <3>3. ASSUME flows[wf].status \in Terminal
          PROVE  \A i \in new : i \in old /\ jobs'[i].status = jobs[i].status /\ jobs[i].status \in Terminal
      <4>1. \A i \in old : jobs[i].status \in Terminal
        BY <2>1, <3>3 DEF FlowOK
      <4> QED  BY <2>2, <3>1, <3>3, <4>1 DEF Terminal
    <3>4. flows[wf].status = "cancelled" =>
             \/ flows[wf].cancel
             \/ "cancelled" \in ended'[wf] /\ Members(jobs', wf, "failed") = {}
      <4> SUFFICES ASSUME flows[wf].status = "cancelled", ~flows[wf].cancel
                   PROVE  "cancelled" \in ended'[wf] /\ Members(jobs', wf, "failed") = {}
        OBVIOUS
      <4>1. "cancelled" \in ended[wf] /\ Members(jobs, wf, "failed") = {}
        BY <2>1 DEF FlowOK
      <4>2. \A i \in new : i \in old /\ jobs'[i].status = jobs[i].status
        BY <3>3 DEF Terminal
      <4> QED  BY <1>4, <4>1, <4>2 DEF Members, Belongs
    <3>5. flows[wf].status = "failed" => "failed" \in ended'[wf]
      BY <1>4, <2>1 DEF FlowOK
    <3>6. flows[wf].status = "succeeded" => \A i \in new : jobs'[i].status = "succeeded"
      BY <2>1, <3>3 DEF FlowOK, Terminal
    <3> QED  BY <2>1, <2>5, <2>6, <2>7, <3>1, <3>2, <3>3, <3>4, <3>5, <3>6
             DEF FlowOK, Limited, Terminal
  <2> QED  BY <2>5, <2>6, <2>7
<1> QED  BY <1>2, <1>3, <1>5, <1>6


\* A call that brings no new row and leaves the workflows alone.
Unjoined == \A i \in Jobs : jobs[i].status = "absent" => jobs'[i] = jobs[i]

LEMMA QuietFlows ==
    ASSUME FlowInv, Inv', (Steps \/ jobs' = jobs), Unjoined, Triggers,
           flows' = flows, admitted' = admitted
    PROVE  FlowInv'
<1>1. Arrive({}, None) /\ None \notin Workflows
  BY ConstantsAssumption DEF Arrive, Unjoined
<1>2. flows' \in [Workflows -> FlowRow]
  BY DEF FlowInv, FlowTypes
<1>3. Admits({}, None)
  BY <1>1 DEF FlowInv, FlowTypes, Admits
<1>4. /\ FlowTypes' /\ Placed' /\ Counters'
      /\ \A wf \in Workflows : flows'[wf] = flows[wf] => FlowOK(wf)'
  BY <1>1, <1>2, <1>3, RowsMove
<1> QED  BY <1>4 DEF FlowInv

-----------------------------------------------------------------------------
(* Every call is a call of TaskqJobs, or touches no job table *)

LEMMA FlowCalls ==
    ASSUME NextFlows
    PROVE  Next \/ UNCHANGED vars
<1>1. CASE Plan
  <2>1. ASSUME NEW j \in Jobs, NEW k \in IdemKeys \cup {None}, NEW ck \in ConcKeys \cup {None},
               NEW wf \in Workflows \cup {None}, NEW D \in SUBSET Jobs, NEW due \in BOOLEAN,
               NEW ttl \in Ttls, NEW max \in Budgets, EnqueueMember(j, k, ck, wf, D, due, ttl, max)
        PROVE  Next
    BY <2>1 DEF EnqueueMember, Next, Producer
  <2>2. ASSUME NEW wf \in Workflows, seal_workflow(wf) PROVE UNCHANGED vars
    BY <2>2 DEF seal_workflow
  <2>3. ASSUME NEW wf \in Workflows, NEW limit, NEW policy, create_workflow(wf, limit, policy)
        PROVE  UNCHANGED vars
    BY <2>3 DEF create_workflow
  <2> QED  BY <1>1, <2>1, <2>2, <2>3 DEF Plan
<1>2. CASE Work
  BY <1>2 DEF Work, ClaimMember, CompleteMember, Next, Runner
<1>3. CASE JobStep
  BY <1>3 DEF JobStep, Unaware, Next, Runner, Housekeeper
<1>4. CASE Conclude
  <2>1. ASSUME NEW C \in SUBSET Workflows, NEW S \in SUBSET Jobs, advance_workflow_cancellations(C, S)
        PROVE  Next
    <3>1. advance_workflow_cancellations(Workflows, S)
      BY <2>1 DEF advance_workflow_cancellations
    <3> QED  BY <3>1 DEF Next, Housekeeper
  <2>2. ASSUME NEW wf \in Workflows, NEW S \in SUBSET Jobs, cancel_workflow(wf, S)
        PROVE  Next \/ UNCHANGED vars
    <3>1. Cancelling \cup {wf} \in SUBSET Workflows
      BY DEF Cancelling
    <3> QED  BY <2>1, <2>2, <3>1 DEF cancel_workflow
  <2>3. ASSUME NEW S \in SUBSET Jobs, AdvanceCancellations(S) PROVE Next
    BY <2>1, <2>3 DEF AdvanceCancellations, Cancelling
  <2>4. ASSUME NEW S \in SUBSET Jobs, ReapMembers(S) PROVE Next
    BY <2>4 DEF ReapMembers, Next, Housekeeper
  <2>5. ASSUME NEW wf \in Workflows, finalize_workflows(wf) PROVE UNCHANGED vars
    BY <2>5 DEF finalize_workflows
  <2> QED  BY <1>4, <2>2, <2>3, <2>4, <2>5 DEF Conclude
<1> QED  BY <1>1, <1>2, <1>3, <1>4 DEF NextFlows

\* The workflow layer implements TaskqJobs: it narrows the calls and adds tables
\* of its own, and never writes a job in a way the job functions would not.
THEOREM FlowsImplementJobs == SpecFlows => Spec
<1>1. InitFlows => Init
  BY DEF InitFlows
<1>2. [NextFlows]_allVars => [Next]_vars
  BY FlowCalls DEF allVars
<1> QED  BY <1>1, <1>2, PTL DEF SpecFlows, Spec

-----------------------------------------------------------------------------
(* The calls that bring no new row *)

LEMMA CascadeJoins ==
    ASSUME NEW upd, NEW K \in SUBSET Casualties(upd), jobs' = Cascaded(upd, K),
           \A i \in DOMAIN upd : jobs[i].status # "absent"
    PROVE  Unjoined
<1>1. \A i \in K : jobs[i].status = "blocked"
  BY DEF Casualties, Dependents
<1> QED  BY <1>1 DEF Unjoined, Cascaded

LEMMA SettleJoins ==
    ASSUME Inv, NEW a \in Attempts, Fenced(a), NEW v, NEW s, NEW row, Settle(a, v, s, row)
    PROVE  Unjoined
<1> DEFINE upd == [i \in {attempts[a].job} |-> row]
<1>1. jobs[attempts[a].job].status = "running"
  BY FenceFacts
<1>2. PICK K \in SUBSET Casualties(upd) : jobs' = Cascaded(upd, K)
  BY DEF Settle
<1>3. DOMAIN upd = {attempts[a].job}
  OBVIOUS
<1> HIDE DEF upd
<1> QED  BY <1>1, <1>2, <1>3, CascadeJoins

LEMMA ReapJoins ==
    ASSUME NEW S \in SUBSET Jobs, \A j \in S : jobs[j].status = "running", Reap(S)
    PROVE  Unjoined
<1> DEFINE upd == [i \in S |-> Reaped(jobs[i])]
<1>1. PICK K \in SUBSET Casualties(upd) : jobs' = Cascaded(upd, K)
  BY DEF Reap
<1>2. DOMAIN upd = S
  OBVIOUS
<1> HIDE DEF upd
<1> QED  BY <1>1, <1>2, CascadeJoins

LEMMA CancelJoins ==
    ASSUME NEW S \in SUBSET Jobs, \A j \in S : jobs[j].status \in {"blocked", "queued"},
           NEW why, NEW U, CancelWaiting(S, why, U)
    PROVE  Unjoined
<1> DEFINE upd == [i \in S |-> CancelledWaiting(jobs[i], why)]
<1>1. PICK K \in SUBSET Casualties(upd) : jobs' = Cascaded(upd, K)
  BY DEF CancelWaiting
<1>2. DOMAIN upd = S
  OBVIOUS
<1> HIDE DEF upd
<1> QED  BY <1>1, <1>2, CascadeJoins

LEMMA AdvanceJoins ==
    ASSUME NEW C, NEW S \in SUBSET Jobs, advance_workflow_cancellations(C, S)
    PROVE  Unjoined
BY DEF advance_workflow_cancellations, Unjoined

LEMMA RunnerJoins ==
    ASSUME Inv, NEW a \in Attempts
    PROVE  /\ heartbeat(a) => Unjoined
           /\ \A retryable, due \in BOOLEAN : fail_job(a, retryable, due) => Unjoined
           /\ \A due \in BOOLEAN : snooze_job(a, due) \/ release_job(a, due) => Unjoined
           /\ cancel_running_job(a) => Unjoined
<1>1. ASSUME heartbeat(a) PROVE Unjoined
  BY <1>1, FenceFacts DEF heartbeat, Unjoined, Inv, TypeOK
<1>2. ASSUME NEW retryable \in BOOLEAN, NEW due \in BOOLEAN, fail_job(a, retryable, due) PROVE Unjoined
  BY <1>2, SettleJoins DEF fail_job
<1>3. ASSUME NEW due \in BOOLEAN, snooze_job(a, due) PROVE Unjoined
  BY <1>3, SettleJoins DEF snooze_job
<1>4. ASSUME NEW due \in BOOLEAN, release_job(a, due) PROVE Unjoined
  BY <1>4, SettleJoins DEF release_job
<1>5. ASSUME cancel_running_job(a) PROVE Unjoined
  BY <1>5, SettleJoins DEF cancel_running_job
<1> QED  BY <1>1, <1>2, <1>3, <1>4, <1>5

LEMMA UnawareJoins ==
    ASSUME Inv, Unaware
    PROVE  Unjoined
<1>0. jobs \in [Jobs -> JobRow] /\ \A j \in Jobs : jobs[j].status # "running" => jobs[j].lease = "none"
  BY DEF Inv, TypeOK, RowOK, Free
<1>1. ASSUME NEW j \in Jobs, expire_job(j) PROVE Unjoined
  BY <1>1, ReapJoins DEF expire_job
<1>2. ASSUME NEW j \in Jobs, cancel_job(j) PROVE Unjoined
  <2>1. CASE jobs[j].status \in {"blocked", "queued"} /\ CancelWaiting({j}, "canceled", {j})
    BY <2>1, CancelJoins
  <2>2. CASE jobs[j].status = "running" /\ jobs' = [jobs EXCEPT ![j].cancel = TRUE]
    BY <1>0, <2>2 DEF Unjoined
  <2> QED  BY <1>2, <2>1, <2>2 DEF cancel_job
<1>3. ASSUME NEW j \in Jobs, run_now(j) PROVE Unjoined
  BY <1>0, <1>3 DEF run_now, Unjoined
<1>4. ASSUME NEW j \in Jobs, NEW due \in BOOLEAN, redrive_job(j, due) PROVE Unjoined
  BY <1>0, <1>4 DEF redrive_job, Unjoined
<1>5. ASSUME NEW w \in Workers, expire_worker_leases(w) PROVE Unjoined
  BY <1>5, ReapJoins DEF expire_worker_leases
<1>6. ASSUME NEW S \in SUBSET Jobs, purge_queued(S) PROVE Unjoined
  BY <1>6, CancelJoins DEF purge_queued
<1>7. ASSUME NEW ck \in ConcKeys, NEW n \in Caps, set_concurrency_limit(ck, n) PROVE Unjoined
  BY <1>7 DEF set_concurrency_limit, Unjoined
<1>8. ASSUME NEW S \in SUBSET Jobs, expire_ttl(S) PROVE Unjoined
  BY <1>8, CancelJoins DEF expire_ttl
<1>9. ASSUME NEW S \in SUBSET Jobs, janitor(S) PROVE Unjoined
  BY <1>9 DEF janitor, Unjoined
<1>10. ASSUME NEW c \in Jobs, NEW p \in Jobs, finalize_dep_stragglers(c, p) PROVE Unjoined
  <2>1. \A k \in Dependents({p}) : jobs[k].status = "blocked"
    BY DEF Dependents
  <2> QED  BY <1>0, <1>10, <2>1 DEF finalize_dep_stragglers, Unjoined
<1>11. ASSUME NEW j \in Jobs, LeaseRunsOut(j) \/ BecomesDue(j) \/ TtlRunsOut(j) PROVE Unjoined
  BY <1>0, <1>11 DEF LeaseRunsOut, BecomesDue, TtlRunsOut, Unjoined, Active
<1> QED  BY <1>1, <1>2, <1>3, <1>4, <1>5, <1>6, <1>7, <1>8, <1>9, <1>10, <1>11, RunnerJoins
         DEF Unaware, Operator, Time


-----------------------------------------------------------------------------
(* The calls that may bring members *)

LEMMA EnqueueFlow ==
    ASSUME FlowInv, Inv', (Steps \/ jobs' = jobs), NEW j \in Jobs, NEW k, NEW ck,
           NEW wf \in Workflows \cup {None}, NEW D, NEW due, NEW ttl, NEW max,
           EnqueueMember(j, k, ck, wf, D, due, ttl, max)
    PROVE  FlowInv'
<1> DEFINE n == Cardinality({d \in D : jobs[d].status # "succeeded"})
<1>1. /\ Inv /\ FlowTypes /\ \A w \in Workflows : FlowOK(w)
      /\ None \notin Workflows /\ Cardinality({j}) = 1
  BY ConstantsAssumption, FS_Singleton DEF FlowInv
<1>2. PICK s \in {"blocked", "queued"} :
         jobs' = [jobs EXCEPT ![j] = NewJob(s, k, ck, wf, None, n, due, ttl, max)]
  BY DEF EnqueueMember, enqueue
<1>3. LET e == NewJob(s, k, ck, wf, None, n, due, ttl, max) IN e.status = s /\ e.wf = wf
  BY DEF NewJob, NoJob
<1>4. Arrive({j}, wf)
  <2>1. \A i \in Jobs \ {j} : jobs'[i] = jobs[i]
    BY <1>2
  <2>2. jobs'[j].status = s /\ jobs'[j].wf = wf
    BY <1>1, <1>2, <1>3 DEF Inv, TypeOK
  <2> QED  BY <2>1, <2>2 DEF Arrive, Active
<1>5. Triggers /\ flows' = flows /\ flows' \in [Workflows -> FlowRow]
  BY <1>1 DEF EnqueueMember, FlowTypes
<1>6. ASSUME wf = None, admitted' = admitted PROVE Admits({j}, wf)
  BY <1>1, <1>6 DEF FlowTypes, Admits
<1>7. ASSUME wf # None, flows[wf].status # "absent", ~flows[wf].sealed,
             _reserve_workflow_members(wf, 1)
      PROVE  Admits({j}, wf)
  <2>1. /\ wf \in Workflows /\ admitted[wf] \in Nat /\ admitted[wf] + 1 <= flows[wf].limit
        /\ admitted' = [admitted EXCEPT ![wf] = @ + 1]
    BY <1>1, <1>7 DEF _reserve_workflow_members, FlowTypes
  <2>2. /\ admitted' \in [Workflows -> Nat] /\ admitted'[wf] <= flows[wf].limit
        /\ \A w \in Workflows :
              admitted'[w] = IF w = wf THEN admitted[w] + Cardinality({j}) ELSE admitted[w]
    BY <1>1, <2>1 DEF FlowTypes
  <2>3. flows[wf].status = "running"
    BY <1>1, <1>7, <2>1 DEF FlowOK, FlowTypes, FlowRow
  <2> QED  BY <2>2, <2>3 DEF Admits
<1>8. Admits({j}, wf)
  BY <1>6, <1>7 DEF EnqueueMember
<1>9. FlowTypes' /\ Placed' /\ Counters' /\ \A w \in Workflows : flows'[w] = flows[w] => FlowOK(w)'
  BY <1>4, <1>5, <1>8, RowsMove
<1> QED  BY <1>5, <1>9 DEF FlowInv

LEMMA CompleteFlow ==
    ASSUME FlowInv, Inv', (Steps \/ jobs' = jobs), NEW a \in Attempts, NEW F \in SUBSET Jobs,
           NEW M \in SUBSET F, NEW due, NEW max, CompleteMember(a, F, M, due, max)
    PROVE  FlowInv'
<1> DEFINE j  == attempts[a].job
           wf == jobs[j].wf
           st(i) == NewJob("queued", None, None, IF i \in M THEN wf ELSE None, j, 0, due, "none", max)
<1>1. /\ Inv /\ FlowTypes /\ \A w \in Workflows : FlowOK(w)
      /\ None \notin Workflows /\ Fenced(a)
  BY ConstantsAssumption DEF FlowInv, CompleteMember, complete_job
<1>2. j \in Jobs /\ jobs[j].status = "running" /\ wf \in Workflows \cup {None}
  BY <1>1, FenceFacts DEF JobRow
<1>3. PICK K \in SUBSET Dependents({j}) :
         \A i \in Jobs : i # j /\ i \notin K => jobs'[i] = IF i \in F THEN st(i) ELSE jobs[i]
  BY DEF CompleteMember, complete_job
<1>4. \A i : st(i).status = "queued" /\ st(i).wf = IF i \in M THEN wf ELSE None
  BY DEF NewJob, NoJob
<1>5. Arrive(M, wf)
  <2>1. \A i \in K : jobs[i].status = "blocked"
    BY DEF Dependents
  <2> HIDE DEF st, wf
  <2> QED  BY <1>2, <1>3, <1>4, <2>1 DEF Arrive, Active
<1>6. Triggers /\ flows' = flows /\ flows' \in [Workflows -> FlowRow]
  BY <1>1 DEF CompleteMember, FlowTypes
<1>7. M \in SUBSET Jobs /\ Cardinality(M) \in Nat /\ (M = {} => Cardinality(M) = 0)
  BY FiniteAssumption, FS_Subset, FS_CardinalityType, FS_EmptySet
<1>8. Admits(M, wf)
  <2>1. CASE M = {} /\ admitted' = admitted
    <3>1. \A w \in Workflows : admitted[w] \in Nat /\ admitted[w] + 0 = admitted[w]
      BY <1>1 DEF FlowTypes
    <3>2. Cardinality(M) = 0
      BY <1>7, <2>1
    <3> QED  BY <1>1, <2>1, <3>1, <3>2 DEF FlowTypes, Admits
  <2>2. CASE M # {} /\ flows[wf].policy /\ _reserve_workflow_members(wf, Cardinality(M))
    <3>1. wf # None
      BY <2>2 DEF CompleteMember, complete_job
    <3>2. wf \in Workflows /\ flows[wf].status = "running"
      BY <1>2, <2>2, <3>1 DEF CompleteMember
    <3> HIDE DEF wf
    <3>3. /\ admitted[wf] \in Nat /\ admitted[wf] + Cardinality(M) <= flows[wf].limit
          /\ admitted' = [admitted EXCEPT ![wf] = @ + Cardinality(M)]
      BY <1>1, <2>2, <3>2 DEF _reserve_workflow_members, FlowTypes
    <3> QED  BY <1>1, <1>7, <3>2, <3>3 DEF FlowTypes, Admits
  <2> QED  BY <2>1, <2>2 DEF CompleteMember
<1> HIDE DEF wf
<1>9. FlowTypes' /\ Placed' /\ Counters' /\ \A w \in Workflows : flows'[w] = flows[w] => FlowOK(w)'
  BY <1>5, <1>6, <1>7, <1>8, RowsMove
<1> QED  BY <1>6, <1>9 DEF FlowInv


-----------------------------------------------------------------------------
(* The calls that write the row of a workflow *)

\* The row of a workflow that stays, over rows and tables that stay.
LEMMA SameFlow ==
    ASSUME NEW w, FlowOK(w), flows'[w] = flows[w], UNCHANGED <<jobs, admitted, ended>>
    PROVE  FlowOK(w)'
BY DEF FlowOK, Limited, Noted, Belongs, Members

LEMMA CreateFlow ==
    ASSUME FlowInv, NEW wf \in Workflows, NEW limit \in MemberLimits, NEW policy \in BOOLEAN,
           create_workflow(wf, limit, policy)
    PROVE  FlowInv'
<1> DEFINE f == [NoFlow EXCEPT !.status = "running", !.limit = limit, !.policy = policy]
<1>1. /\ flows[wf].status = "absent" /\ flows' = [flows EXCEPT ![wf] = f]
      /\ UNCHANGED <<jobs, attempts, deps, limits, settledBy, needs, counts, admitted, ended>>
  BY DEF create_workflow, vars
<1>2. f \in FlowRow /\ f.status = "running" /\ f.limit \in Nat /\ ~f.cancel
  BY LimitsAssumption DEF FlowRow, NoFlow
<1> HIDE DEF f
<1>3. /\ flows \in [Workflows -> FlowRow] /\ \A w \in Workflows : FlowOK(w)
      /\ Inv /\ FlowTypes /\ Placed /\ Counters
  BY DEF FlowInv, FlowTypes
<1>4. /\ flows' \in [Workflows -> FlowRow] /\ flows'[wf] = f
      /\ \A w \in Workflows \ {wf} : flows'[w] = flows[w]
  BY <1>1, <1>2, <1>3
<1>5. Inv' /\ FlowTypes' /\ Placed' /\ Counters'
  BY <1>1, <1>3, <1>4 DEF Inv, TypeOK, RunsUnder, Current, FlowTypes, Placed, Counters, Members
<1>6. ASSUME NEW w \in Workflows \ {wf} PROVE FlowOK(w)'
  BY <1>1, <1>3, <1>4, <1>6, SameFlow
<1>7. FlowOK(wf)'
  <2>1. FlowOK(wf) /\ admitted[wf] = 0
    BY <1>1, <1>3 DEF FlowOK
  <2>2. Limited(wf)'
    BY <1>1, <1>2, <1>4, <2>1 DEF FlowOK, Limited, Belongs
  <2> QED  BY <1>1, <1>2, <1>4, <2>1, <2>2 DEF FlowOK, Noted, Belongs, Members, Terminal
<1> QED  BY <1>5, <1>6, <1>7 DEF FlowInv

\* A workflow without open members gets the outcome its members give it.
LEMMA VerdictFacts ==
    ASSUME FlowInv, NEW wf \in Workflows, Open(wf) = 0
    PROVE  /\ Verdict(wf) \in Terminal
           /\ \A j \in Belongs(jobs, wf) : jobs[j].status \in Terminal
           /\ Verdict(wf) = "failed" => "failed" \in ended[wf]
           /\ Verdict(wf) = "cancelled" => /\ "cancelled" \in ended[wf]
                                           /\ Members(jobs, wf, "failed") = {}
           /\ Verdict(wf) = "succeeded" =>
                 \A j \in Belongs(jobs, wf) : jobs[j].status = "succeeded"
<1>1. /\ jobs \in [Jobs -> JobRow] /\ counts[wf] \in [Counted -> Nat]
      /\ \A s \in Counted : counts[wf][s] = Cardinality(Members(jobs, wf, s))
      /\ \A j \in Jobs : jobs[j].status \in {"absent", "deleted"} => jobs[j].wf = None
      /\ Noted(wf)
  BY DEF FlowInv, Inv, TypeOK, FlowTypes, Counters, Placed, FlowOK
<1>2. counts[wf]["blocked"] + counts[wf]["queued"] + counts[wf]["running"] = 0
  BY DEF Open
<1>3. \A j \in Belongs(jobs, wf) : jobs[j].status \in Terminal
  BY <1>1, <1>2, NoneOpen
<1>4. \A s \in {"failed", "cancelled"} :
         /\ counts[wf][s] > 0 => s \in ended[wf]
         /\ ~(counts[wf][s] > 0) => Members(jobs, wf, s) = {}
  <2> SUFFICES ASSUME NEW s \in {"failed", "cancelled"}
               PROVE  /\ counts[wf][s] > 0 => s \in ended[wf]
                      /\ ~(counts[wf][s] > 0) => Members(jobs, wf, s) = {}
    OBVIOUS
  <2>1. s \in Counted /\ s \in Terminal
    BY DEF Counted, Terminal
  <2>2. counts[wf][s] = Cardinality(Members(jobs, wf, s)) /\ counts[wf][s] \in Nat
    BY <1>1, <2>1
  <2>3. counts[wf][s] = 0 <=> Members(jobs, wf, s) = {}
    BY <2>2, MembersFinite, FS_EmptySet
  <2> QED  BY <1>1, <2>1, <2>2, <2>3 DEF Noted
<1>5. Verdict(wf) = "succeeded" => \A j \in Belongs(jobs, wf) : jobs[j].status = "succeeded"
  BY <1>3, <1>4 DEF Verdict, Belongs, Members, Terminal
<1> QED  BY <1>3, <1>4, <1>5 DEF Verdict, Terminal

\* The row of a workflow becomes f: it is sealed, and ended if nothing is open.
LEMMA EndMoves ==
    ASSUME FlowInv, NEW wf \in Workflows, NEW f \in FlowRow, flows' = [flows EXCEPT ![wf] = f],
           UNCHANGED <<jobs, attempts, deps, limits, settledBy, needs, counts, admitted, ended>>,
           f.sealed, f.limit = flows[wf].limit, f.cancel = flows[wf].cancel,
           f.cancel => f.status \in {"running", "cancelled"},
           f.status # flows[wf].status =>
              /\ Open(wf) = 0 /\ flows[wf].status # "absent"
              /\ f.status = IF f.cancel THEN "cancelled" ELSE Verdict(wf),
           f.status # "absent"
    PROVE  FlowInv'
<1>1. /\ flows \in [Workflows -> FlowRow] /\ \A w \in Workflows : FlowOK(w)
      /\ Inv /\ FlowTypes /\ Placed /\ Counters
  BY DEF FlowInv, FlowTypes
<1>2. /\ flows' \in [Workflows -> FlowRow] /\ flows'[wf] = f
      /\ \A w \in Workflows \ {wf} : flows'[w] = flows[w]
  <2>1. flows \in [Workflows -> FlowRow] /\ flows' = [flows EXCEPT ![wf] = f]
    BY <1>1
  <2> QED  BY <2>1
<1>3. Inv' /\ FlowTypes' /\ Placed' /\ Counters'
  BY <1>1, <1>2 DEF Inv, TypeOK, RunsUnder, Current, FlowTypes, Placed, Counters, Members
<1>4. ASSUME NEW w \in Workflows \ {wf} PROVE FlowOK(w)'
  BY <1>1, <1>2, <1>4, SameFlow
<1>5. FlowOK(wf)'
  <2>1. FlowOK(wf)
    BY <1>1
  <2>2. CASE f.status = flows[wf].status
    BY <1>2, <2>1, <2>2 DEF FlowOK, Limited, Noted, Belongs, Members
  <2>3. CASE f.status # flows[wf].status
    <3>1. \A j \in Belongs(jobs, wf) : jobs[j].status \in Terminal
      BY <2>3, VerdictFacts
    <3>2. Limited(wf)' /\ Noted(wf)'
      BY <1>2, <2>1 DEF FlowOK, Limited, Noted, Belongs, Members
    <3>3. f.status = IF f.cancel THEN "cancelled" ELSE Verdict(wf)
      BY <2>3
    <3>4. /\ f.status = "failed" => "failed" \in ended[wf]
          /\ f.status = "cancelled" =>
                \/ f.cancel
                \/ "cancelled" \in ended[wf] /\ Members(jobs, wf, "failed") = {}
          /\ f.status = "succeeded" => \A j \in Belongs(jobs, wf) : jobs[j].status = "succeeded"
      BY <2>3, <3>3, VerdictFacts
    <3> QED  BY <1>2, <3>1, <3>2, <3>4 DEF FlowOK, Belongs, Members, Terminal
  <2> QED  BY <2>2, <2>3
<1> QED  BY <1>3, <1>4, <1>5 DEF FlowInv

LEMMA SealFlow ==
    ASSUME FlowInv, NEW wf \in Workflows, seal_workflow(wf)
    PROVE  FlowInv'
<1> DEFINE st == IF Open(wf) = 0 THEN Verdict(wf) ELSE flows[wf].status
           f  == [flows[wf] EXCEPT !.sealed = TRUE, !.status = st]
<1>1. /\ flows \in [Workflows -> FlowRow] /\ flows[wf] \in FlowRow /\ FlowOK(wf)
      /\ flows[wf].status # "absent" /\ ~flows[wf].sealed
  BY DEF FlowInv, FlowTypes, seal_workflow
<1>2. flows' = [flows EXCEPT ![wf] = f]
  BY <1>1 DEF seal_workflow
<1>3. UNCHANGED <<jobs, attempts, deps, limits, settledBy, needs, counts, admitted, ended>>
  BY DEF seal_workflow, vars
<1>4. ~flows[wf].cancel
  BY <1>1 DEF FlowOK
<1>5. Open(wf) = 0 => Verdict(wf) \in Terminal
  BY VerdictFacts
<1>6. st \in Terminal \cup {"running"}
  BY <1>1, <1>5 DEF FlowRow
<1>7. /\ f \in FlowRow /\ f.sealed /\ f.limit = flows[wf].limit /\ f.cancel = flows[wf].cancel
      /\ f.status = st
  <2> HIDE DEF st
  <2> QED  BY <1>1, <1>6 DEF FlowRow
<1>8. st # flows[wf].status => Open(wf) = 0 /\ st = Verdict(wf)
  OBVIOUS
<1>9. st # "absent"
  BY <1>6 DEF Terminal
<1> HIDE DEF f, st
<1> QED  BY <1>1, <1>2, <1>3, <1>4, <1>7, <1>8, <1>9, EndMoves

LEMMA FinalizeFlow ==
    ASSUME FlowInv, NEW wf \in Workflows, finalize_workflows(wf)
    PROVE  FlowInv'
<1> DEFINE st == IF flows[wf].cancel THEN "cancelled" ELSE Verdict(wf)
           f  == [flows[wf] EXCEPT !.status = st]
<1>1. /\ flows \in [Workflows -> FlowRow] /\ flows[wf] \in FlowRow /\ FlowOK(wf)
      /\ flows[wf].status = "running" /\ flows[wf].sealed /\ Open(wf) = 0
  BY DEF FlowInv, FlowTypes, finalize_workflows
<1>2. flows' = [flows EXCEPT ![wf] = f]
  BY <1>1 DEF finalize_workflows
<1>3. UNCHANGED <<jobs, attempts, deps, limits, settledBy, needs, counts, admitted, ended>>
  BY DEF finalize_workflows, vars
<1>4. st \in Terminal /\ (flows[wf].cancel => st = "cancelled")
  BY <1>1, VerdictFacts DEF Terminal
<1>5. /\ f \in FlowRow /\ f.sealed /\ f.limit = flows[wf].limit /\ f.cancel = flows[wf].cancel
      /\ f.status = st
  <2> HIDE DEF st
  <2> QED  BY <1>1, <1>4 DEF FlowRow
<1>6. st = IF f.cancel THEN "cancelled" ELSE Verdict(wf)
  BY <1>5
<1>7. st # "absent"
  BY <1>4 DEF Terminal
<1> HIDE DEF f, st
<1> QED  BY <1>1, <1>2, <1>3, <1>4, <1>5, <1>6, <1>7, EndMoves

LEMMA CancelFlow ==
    ASSUME FlowInv, Inv', (Steps \/ jobs' = jobs), NEW wf \in Workflows, NEW S \in SUBSET Jobs,
           cancel_workflow(wf, S)
    PROVE  FlowInv'
<1> DEFINE st == IF Open(wf)' = 0 THEN "cancelled" ELSE flows[wf].status
           f  == [flows[wf] EXCEPT !.sealed = TRUE, !.cancel = TRUE, !.status = st]
<1>1. /\ flows \in [Workflows -> FlowRow] /\ flows[wf] \in FlowRow /\ FlowOK(wf)
      /\ flows[wf].status = "running" /\ admitted' = admitted /\ FlowTypes
      /\ admitted \in [Workflows -> Nat] /\ None \notin Workflows
  BY ConstantsAssumption DEF FlowInv, FlowTypes, cancel_workflow
<1>2. flows' = [flows EXCEPT ![wf] = f]
  BY <1>1 DEF cancel_workflow
<1>3. st \in {"running", "cancelled"}
  BY <1>1
<1>4. /\ f \in FlowRow /\ f.sealed /\ f.cancel /\ f.limit = flows[wf].limit /\ f.status = st
  <2> HIDE DEF st
  <2> QED  BY <1>1, <1>3 DEF FlowRow, Terminal
<1> HIDE DEF f
<1>5. /\ flows' \in [Workflows -> FlowRow] /\ flows'[wf] = f
      /\ \A w \in Workflows \ {wf} : flows'[w] = flows[w]
  BY <1>1, <1>2, <1>4
<1>6. Unjoined
  BY AdvanceJoins DEF cancel_workflow, vars, Unjoined
<1>7. Arrive({}, None) /\ Admits({}, None)
  BY <1>1, <1>6 DEF Arrive, Unjoined, Admits
<1>8. /\ FlowTypes' /\ Placed' /\ Counters'
      /\ \A w \in Workflows : /\ Cardinality(Belongs(jobs', w)) <= admitted'[w] /\ Noted(w)'
                              /\ flows'[w] = flows[w] => FlowOK(w)'
  BY <1>5, <1>7, RowsMove DEF cancel_workflow
<1>9. FlowOK(wf)'
  <2>1. Limited(wf)' /\ Noted(wf)'
    BY <1>1, <1>4, <1>5, <1>8 DEF FlowOK, Limited, Belongs
  <2>2. ASSUME st = "cancelled" PROVE \A j \in Belongs(jobs', wf) : jobs'[j].status \in Terminal
    <3>1. Open(wf)' = 0
      BY <1>1, <2>2
    <3>2. counts'[wf]["blocked"] + counts'[wf]["queued"] + counts'[wf]["running"] = 0
      BY <3>1 DEF Open
    <3>3. /\ jobs' \in [Jobs -> JobRow] /\ counts'[wf] \in [Counted -> Nat]
          /\ \A s \in Counted : counts'[wf][s] = Cardinality(Members(jobs', wf, s))
          /\ \A j \in Jobs : jobs'[j].status \in {"absent", "deleted"} => jobs'[j].wf = None
      BY <1>8 DEF Inv, TypeOK, FlowTypes, Counters, Placed, Members
    <3> QED  BY <3>2, <3>3, NoneOpen
  <2> HIDE DEF st
  <2> QED  BY <1>3, <1>4, <1>5, <2>1, <2>2 DEF FlowOK, Belongs, Terminal
<1> QED  BY <1>5, <1>8, <1>9 DEF FlowInv

-----------------------------------------------------------------------------
(* The invariant holds *)

LEMMA InitFlowInv ==
    ASSUME InitFlows
    PROVE  FlowInv
<1>1. Inv
  BY InitInv DEF InitFlows
<1>2. /\ flows = [wf \in Workflows |-> NoFlow]
      /\ counts = [wf \in Workflows |-> [s \in Counted |-> 0]]
      /\ admitted = [wf \in Workflows |-> 0]
      /\ ended = [wf \in Workflows |-> {}]
      /\ \A j \in Jobs : jobs[j].wf = None
  BY DEF InitFlows, Init, NoJob
<1>3. NoFlow \in FlowRow /\ NoFlow.status = "absent" /\ ~NoFlow.cancel /\ NoFlow.limit = 0
  BY DEF NoFlow, FlowRow
<1>4. \A wf \in Workflows : Belongs(jobs, wf) = {} /\ \A s : Members(jobs, wf, s) = {}
  BY <1>2, ConstantsAssumption DEF Belongs, Members
<1>5. Cardinality({}) = 0
  BY FS_EmptySet
<1>6. FlowTypes
  BY <1>2, <1>3 DEF FlowTypes
<1>7. Placed
  BY <1>2 DEF Placed
<1>8. Counters
  BY <1>2, <1>4, <1>5 DEF Counters
<1>9. ASSUME NEW wf \in Workflows PROVE FlowOK(wf)
  <2>1. Limited(wf)
    <3>1. Belongs(jobs, wf) = {} /\ admitted[wf] = 0 /\ flows[wf].limit = 0
      BY <1>2, <1>3, <1>4
    <3>2. Cardinality(Belongs(jobs, wf)) = 0
      BY <1>5, <3>1
    <3> QED  BY <3>1, <3>2 DEF Limited
  <2>2. Noted(wf)
    BY <1>4 DEF Noted
  <2> QED  BY <1>2, <1>3, <2>1, <2>2 DEF FlowOK, Terminal
<1> QED  BY <1>1, <1>6, <1>7, <1>8, <1>9 DEF FlowInv

LEMMA FlowStep ==
    ASSUME FlowInv, [NextFlows]_allVars
    PROVE  FlowInv'
<1>1. CASE UNCHANGED allVars
  <2>1. UNCHANGED <<jobs, attempts, deps, limits, settledBy, needs, flows, counts, admitted, ended>>
    BY <1>1 DEF allVars, flowVars, vars
  <2>2. Inv'
    BY <2>1 DEF FlowInv, Inv, TypeOK, RunsUnder, Current
  <2>3. FlowTypes' /\ Placed' /\ Counters'
    BY <2>1 DEF FlowInv, FlowTypes, Placed, Counters, Members
  <2>4. \A w \in Workflows : FlowOK(w)'
    BY <2>1, SameFlow DEF FlowInv
  <2> QED  BY <2>2, <2>3, <2>4 DEF FlowInv
<1>2. CASE NextFlows
  <2>1. Inv
    BY DEF FlowInv
  <2>2. Inv' /\ (Steps \/ jobs' = jobs)
    <3>1. CASE Next
      <4>1. Inv' /\ (Steps \/ UNCHANGED vars)
        BY <2>1, <3>1, NextInv
      <4>2. UNCHANGED vars => jobs' = jobs
        BY DEF vars
      <4> QED  BY <4>1, <4>2
    <3>2. CASE UNCHANGED vars
      BY <2>1, <3>2 DEF vars, Inv, TypeOK, RunsUnder, Current
    <3> QED  BY <1>2, <3>1, <3>2, FlowCalls
  <2>3. CASE Plan
    BY <2>2, <2>3, EnqueueFlow, SealFlow, CreateFlow DEF Plan
  <2>4. ASSUME NEW j \in Jobs, NEW w \in Workers, NEW a \in Attempts, ClaimMember(j, w, a)
        PROVE  FlowInv'
    <3>1. Unjoined
      BY <2>1, <2>4 DEF ClaimMember, claim_jobs, Unjoined, Inv, TypeOK
    <3> QED  BY <2>2, <2>4, <3>1, QuietFlows DEF ClaimMember
  <2>5. CASE Work
    BY <2>2, <2>4, <2>5, CompleteFlow DEF Work
  <2>6. CASE JobStep
    BY <2>1, <2>2, <2>6, UnawareJoins, QuietFlows DEF JobStep
  <2>7. ASSUME NEW S \in SUBSET Jobs, AdvanceCancellations(S) PROVE FlowInv'
    BY <2>2, <2>7, AdvanceJoins, QuietFlows DEF AdvanceCancellations
  <2>8. ASSUME NEW S \in SUBSET Jobs, ReapMembers(S) PROVE FlowInv'
    <3>1. Unjoined
      BY <2>8, ReapJoins DEF ReapMembers, reap_expired
    <3> QED  BY <2>2, <2>8, <3>1, QuietFlows DEF ReapMembers
  <2>9. CASE Conclude
    BY <2>2, <2>7, <2>8, <2>9, CancelFlow, FinalizeFlow DEF Conclude
  <2> QED  BY <1>2, <2>3, <2>5, <2>6, <2>9 DEF NextFlows
<1> QED  BY <1>1, <1>2

\* The counters a call compares are the rows, and the row of a workflow says what
\* its members give it, in every state the calls and the passes can reach.
THEOREM FlowInvHolds == SpecFlows => []FlowInv
<1>1. InitFlows => FlowInv
  BY InitFlowInv
<1>2. FlowInv /\ [NextFlows]_allVars => FlowInv'
  BY FlowStep
<1> QED  BY <1>1, <1>2, PTL DEF SpecFlows

\* A workflow that ended was sealed and has no member that waits or runs: enqueue
\* refuses a sealed one, complete_job adds members only while it runs, and no
\* settlement, redrive or reap brings a member back.
THEOREM EndedIsQuiet == SpecFlows => []EndedQuiet
<1>1. FlowInv => EndedQuiet
  BY DEF FlowInv, FlowOK, EndedQuiet, Belongs
<1> QED  BY <1>1, FlowInvHolds, PTL

\* _reserve_workflow_members bounds the members stored, and what was ever
\* admitted, by member_limit for producers and continuations together.
THEOREM LimitIsKept == SpecFlows => []LimitHolds
<1>1. FlowInv => LimitHolds
  BY DEF FlowInv, FlowOK, Limited, LimitHolds, Belongs
<1> QED  BY <1>1, FlowInvHolds, PTL

\* The outcome seal_workflow, cancel_workflow and finalize_workflows read off the
\* counters has a reason among the members, and stays the strongest they give.
THEOREM OutcomesAreBacked == SpecFlows => []OutcomeBacked
<1>1. FlowInv => OutcomeBacked
  BY DEF FlowInv, FlowOK, OutcomeBacked, Belongs
<1> QED  BY <1>1, FlowInvHolds, PTL

=============================================================================
