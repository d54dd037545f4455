------------------------------ MODULE MCLease ------------------------------
(* TLC instances of TaskqLease. *)
EXTENDS TaskqLease
=============================================================================
