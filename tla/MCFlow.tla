------------------------------- MODULE MCFlow -------------------------------
(* TaskqFlow with two claims and three jobs, two of which share a key. *)
EXTENDS TaskqFlow

CONSTANTS j1, j2, j3, k1

SharedKey == [j \in Jobs |-> IF j = j3 THEN None ELSE k1]
=============================================================================
