---------------------------- MODULE MCSchedules ----------------------------
(* Definitions and meta data for the runs of TaskqSchedules. *)
EXTENDS TaskqSchedules, TLC

DefinitionsPass ==
    {[kind |-> "interval", period |-> 2, policy |-> "fire_once", max |-> 1],
     [kind |-> "cron", period |-> 1, policy |-> "fire_all", max |-> 2],
     [kind |-> "broken", period |-> 1, policy |-> "skip", max |-> 1]}

MetasPass ==
    {[overlap |-> "forbid", lateness |-> None], [overlap |-> "allow", lateness |-> 1]}

TokenSymmetry == Permutations(Tokens)
=============================================================================
