----------------------------- MODULE MCInstall -----------------------------
(* Instances of TaskqCli: 1 stands for 0001, 2 for 0019, 3 for 0020 and *)
(* 4 for 0042, which only replaces a function body.                         *)
EXTENDS TaskqCli

MCTouches ==
    <<Range(Probes),
      {"function_catalog", "function_privileges", "relation_catalog",
       "composite_shapes", "table_shapes", "constraints", "indexes", "seed_state"},
      {"function_catalog", "function_privileges", "relation_catalog",
       "table_shapes", "constraints", "indexes", "triggers", "seed_state"},
      {}>>

Cast(k1, p1, k2, p2) ==
    [kind |-> [r1 |-> k1, r2 |-> k2], pack |-> [r1 |-> p1, r2 |-> p2],
     edition |-> [r1 |-> "packaged", r2 |-> "packaged"], from |-> 0,
     env |-> "unbound", operators |-> {}, clients |-> {}, verifier |-> 0,
     console |-> FALSE]

\* Two deployments at once; a rolling upgrade; the command line's plan.
Race == [Cast("owned", 4, "hosted", 3) EXCEPT !.operators = {"o1"}]
Rolling == [Cast("planned", 4, "owned", 3) EXCEPT !.operators = {"o1"}]
\* Callers while operators bind and rotate the identity under an upgrade.
Callers(cs) == [Cast("owned", 3, "off", 0) EXCEPT
              !.from = 2, !.operators = {"o1"}, !.clients = cs]
Rivals == [Cast("off", 0, "off", 0) EXCEPT !.from = 2, !.operators = Operators]
\* The console while an operator rotates.
Console == [Cast("off", 0, "off", 0) EXCEPT !.from = 4, !.env = "production",
              !.operators = {"o1"}, !.console = TRUE]
\* verify while an upgrade is under way, some files edited or reissued.
Watched == [Cast("owned", 4, "off", 0) EXCEPT
              !.from = 2, !.env = "staging", !.verifier = 4]
Edited == [Watched EXCEPT !.from = 0, !.verifier = 2, !.pack = [r1 |-> 2, r2 |-> 0],
              !.edition = [r1 |-> "edited", r2 |-> "packaged"]]
Reissued == [Edited EXCEPT !.edition = [r1 |-> "reissued", r2 |-> "packaged"],
              !.pack = [r1 |-> 1, r2 |-> 2], !.kind = [r1 |-> "owned", r2 |-> "hosted"]]

MCCasts == {Race, Rolling, Callers({"pinned"}), Callers({"named"}), Callers({"bare"}),
            Rivals, Console, Watched, Edited, Reissued}
=============================================================================
