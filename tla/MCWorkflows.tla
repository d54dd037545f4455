----------------------------- MODULE MCWorkflows -----------------------------
(* TLC instances of TaskqWorkflows. *)
EXTENDS TaskqWorkflows
=============================================================================
