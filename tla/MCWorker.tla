------------------------------ MODULE MCWorker ------------------------------
(* TLC instances of TaskqWorker. *)
EXTENDS TaskqWorker, TLC

\* Ids are only compared for equality.
Symmetry == Permutations(Jobs) \cup Permutations(Attempts)
=============================================================================
