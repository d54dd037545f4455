------------------------------- MODULE MCJobs -------------------------------
(* TLC instances of TaskqJobs. *)
EXTENDS TaskqJobs, TLC

\* Ids and keys are only compared for equality.
Symmetry ==
    Permutations(Jobs) \cup Permutations(Attempts) \cup Permutations(Workers)
       \cup Permutations(IdemKeys)
=============================================================================
