---------------------------- MODULE TaskqInstall ----------------------------
(***************************************************************************)
(* Installing and upgrading the SQL contract: the migration runner of      *)
(* sql/__init__.py in its two modes (its own transactions under a session  *)
(* advisory lock, or inside a host's one transaction under a transaction   *)
(* lock), `taskq db plan/migrate` of cli/app.py, `verify`, and the target  *)
(* identity of migration 0019 with the attestation every protected         *)
(* operation needs since 0020.                                             *)
(*                                                                         *)
(* A migration is a number: its DDL takes the schema from m-1 to m and its *)
(* ledger row is written by the runner afterwards.  A session may be lost  *)
(* at any step; PostgreSQL then drops its transaction and its locks.       *)
(***************************************************************************)
EXTENDS Naturals, Sequences, FiniteSetsExt, TaskqTransport

CONSTANTS Newest,        \* the newest migration
          IdentityAt,  \* the one that creates the target identity (0019)
          GuardAt,     \* the one that refuses an unbound target (0020)
          Repeatable,  \* migrations that only replace function bodies
          Touches,     \* [1..Newest -> SUBSET Probes]: what a migration changes
          Casts,       \* who takes part, and from which schema
          MaxBindings, \* bound on the binding version
          MaxTries,    \* bound on the sessions of one runner
          Drifts       \* aspects of the catalogue somebody may alter by hand

\* The probes of verify, in the order _verify_impl runs them.
Probes == <<"schema_exists", "migration_ledger", "function_catalog",
            "function_hardening", "no_public_execute", "function_privileges",
            "capability_roles_exist", "role_manifest", "relation_catalog",
            "composite_shapes", "table_shapes", "constraints", "indexes",
            "views", "triggers", "relation_privileges", "seed_state",
            "external_foreign_keys">>

Runners == {"r1", "r2"}
Clients == {"pinned", "named", "bare", "cli"}
Operators == {"o1", "o2"}

\* The file the checksum of a ledger row is of: the packaged one, an edited one,
\* or the released reissue of the first migration.
Editions == {"packaged", "edited", "reissued"}

\* A runner's mode and package, the schema and target found, who else is there.
\* "cli" is the console's own session and calls only what a command says.
CastRow ==
    [kind : [Runners -> {"owned", "hosted", "planned", "off"}],
     pack : [Runners -> 0..Newest], edition : [Runners -> Editions],
     from : 0..Newest, env : {"unbound", "staging", "production"},
     operators : SUBSET Operators, clients : SUBSET (Clients \ {"cli"}),
     verifier : 0..Newest, console : BOOLEAN]

\* What somebody alters by hand is an object of the schema: the schema itself
\* is not dropped, and a ledger row another file wrote is an edition.
ASSUME InstallAssumption ==
    /\ {Newest, IdentityAt, GuardAt, MaxBindings, MaxTries} \subseteq Nat
    /\ 1 < IdentityAt /\ IdentityAt < GuardAt /\ GuardAt <= Newest
    /\ Repeatable \subseteq 1..Newest
    /\ Touches \in [1..Newest -> SUBSET Range(Probes)]
    /\ Drifts \subseteq Range(Probes) \ {"schema_exists", "migration_ledger"}
    /\ Casts \subseteq CastRow

VARIABLES cast,   \* who takes part (chosen once)
          db,     \* what is committed
          lock,   \* the session holding the migration advisory key
          share,  \* transactions holding the identity row FOR SHARE
          run, op, cl, vf

vars == <<cast, db, lock, share, run, op, cl, vf>>

Nobody == "nobody"
NoWork == [schema |-> 0, ledger |-> <<>>, open |-> FALSE]

Identity == <<db.inst, db.env, db.ver>>
NoIdentity == <<0, "none", 0>>

NoPlan == [applied |-> {}, pending |-> {}, target |-> NoIdentity]

\* A runner that has not begun.
Fresh == [pc |-> "idle", read |-> {}, pending |-> {}, work |-> NoWork, plan |-> NoPlan,
          out |-> "none", tries |-> 0]

\* What a caller's transport was configured to expect: the environment, the
\* installation pinned (0 for none), the permission for production.
Expects(c) ==
    CASE c = "pinned" -> [env |-> "production", pin |-> 1, production |-> TRUE]
      [] c = "named" -> [env |-> "staging", pin |-> 0, production |-> FALSE]
      [] OTHER -> [env |-> "none", pin |-> 0, production |-> FALSE]

InstallInit ==
    /\ cast \in Casts
    /\ \E unsafe \in BOOLEAN :
         db = [schema |-> cast.from, ledger |-> [m \in 1..cast.from |-> "packaged"],
               inst |-> IF cast.from < IdentityAt THEN 0 ELSE 1,
               env |-> IF cast.from < IdentityAt THEN "none" ELSE cast.env,
               ver |-> IF cast.from < IdentityAt \/ cast.env = "unbound" THEN 0 ELSE 1,
               unsafe |-> unsafe /\ cast.from = 0, drift |-> {}]
    /\ lock = Nobody
    /\ share = {}
    /\ run = [r \in Runners |-> Fresh]
    /\ op = [o \in Operators |-> NoIdentity]
    /\ cl = [c \in Clients |->
               [pc |-> "idle", own |-> TRUE, mac |-> NoIdentity, protected |-> FALSE,
                call |-> CallOf("get_target_identity"), expects |-> Expects(c),
                effect |-> "none", told |-> "none"]]
    /\ vf = [at |-> 0, ok |-> TRUE, seen |-> db]

-----------------------------------------------------------------------------
(* The migration runner *)

\* plan_pending: the packaged migrations without a ledger row; they are applied
\* in increasing order.
Pending(applied, pack) == (1..pack) \ applied

\* What the session of r sees: its own uncommitted work, or what is committed.
View(r) ==
    IF run[r].work.open THEN run[r].work
    ELSE [schema |-> db.schema, ledger |-> db.ledger, open |-> TRUE]

Kind(r) == cast.kind[r]

\* Runner r goes to pc, leaving the rest of its state alone.
Goes(r, pc) == run' = [run EXCEPT ![r].pc = pc]

\* A host opens its transaction, or a command line its connection, and calls
\* migrate; the command `db migrate` goes through its plan first.
Begin(r) ==
    /\ run[r].pc = "idle" /\ Kind(r) \in {"owned", "hosted"}
    /\ Goes(r, "lock")
    /\ UNCHANGED <<cast, db, lock, share, op, cl, vf>>

\* _migration_plan, for `db plan` and again for `db migrate`: the ledger ...
ReadLedger(r) ==
    /\ Kind(r) = "planned"
    /\ run[r].pc \in {"idle", "planned"}
    /\ run' = [run EXCEPT ![r].pc = IF @ = "idle" THEN "plan" ELSE "replan",
                          ![r].pending = Pending(DOMAIN db.ledger, cast.pack[r]),
                          ![r].read = DOMAIN db.ledger]
    /\ UNCHANGED <<cast, db, lock, share, op, cl, vf>>

\* The command's context accepts this target (_validate_target): the pinned
\* installation is the first one; an unbound target may be migrated.
TargetAccepted(t) == t = NoIdentity \/ t[1] = 1

\* ... then, in a statement of its own, the target.  db migrate refuses when
\* the digest of what it reads is not the digest of the plan it was given.
ReadTarget(r) ==
    LET p == [applied |-> run[r].read, pending |-> run[r].pending, target |-> Identity]
        agrees == p = run[r].plan /\ TargetAccepted(p.target)
    IN
    /\ \/ /\ run[r].pc = "plan"
          /\ run' = [run EXCEPT ![r].pc = "planned", ![r].plan = p, ![r].read = {}]
       \/ /\ run[r].pc = "replan" /\ agrees
          /\ run' = [run EXCEPT ![r].pc = "lock", ![r].read = {}]
       \/ /\ run[r].pc = "replan" /\ ~agrees
          /\ run' = [run EXCEPT ![r].pc = "done", ![r].out = "refused", ![r].read = {}]
    /\ UNCHANGED <<cast, db, lock, share, op, cl, vf>>

\* pg_advisory_lock / pg_advisory_xact_lock: one key, whatever the mode.
Lock(r) ==
    /\ run[r].pc = "lock"
    /\ lock = Nobody
    /\ lock' = r
    /\ Goes(r, "check")
    /\ UNCHANGED <<cast, db, share, op, cl, vf>>

\* A role of the cluster already has a reserved name and unsafe attributes or
\* members.
RolesUnsafe == db.unsafe

\* Under the lock: reserved roles, the pending list, the plan it must equal.
Check(r) ==
    /\ run[r].pc = "check"
    /\ LET p == Pending(DOMAIN db.ledger, cast.pack[r])
           bad == RolesUnsafe \/ (Kind(r) = "planned" /\ p # run[r].plan.pending)
       IN run' = [run EXCEPT ![r].pending = p,
                             ![r].out = IF bad THEN "refused" ELSE "none",
                             ![r].pc = CASE bad -> "failed" [] p = {} -> "applied"
                                         [] OTHER -> "script"]
    /\ UNCHANGED <<cast, db, lock, share, op, cl, vf>>

\* The guard of script m: the exact predecessor contract (a script that only
\* replaces function bodies has none), and from GuardAt on a bound target.
Obstacle(m, v) ==
    IF m \notin Repeatable /\ v.schema # m - 1 THEN "predecessor"
    ELSE IF m = GuardAt /\ db.env \in {"none", "unbound"} THEN "target_unbound"
    ELSE "none"

ScriptCommits(r) ==
    /\ run[r].pc = "script"
    /\ LET m == Min(run[r].pending)
           v == View(r)
           why == Obstacle(m, v)
       IN IF why # "none"
          THEN /\ run' = [run EXCEPT ![r].pc = "failed", ![r].out = why]
               /\ UNCHANGED <<db, share>>
          ELSE /\ run' = [run EXCEPT ![r].pc = "record",
                                     ![r].work = [v EXCEPT !.schema = m]]
               /\ db' = [db EXCEPT !.schema = m]
               /\ share' = IF m = GuardAt THEN share \cup {r} ELSE share
    /\ UNCHANGED <<cast, lock, op, cl, vf>>

\* The statements of the next migration, in the session's transaction; the
\* one at GuardAt reads the identity row FOR SHARE.
Script(r) ==
    /\ run[r].pc = "script"
    /\ LET m == Min(run[r].pending)
           v == View(r)
           why == Obstacle(m, v)
       IN IF why # "none"
          THEN /\ run' = [run EXCEPT ![r].pc = "failed", ![r].out = why]
               /\ UNCHANGED share
          ELSE /\ run' = [run EXCEPT ![r].pc = "record",
                                     ![r].work = [v EXCEPT !.schema = m]]
               /\ share' = IF m = GuardAt THEN share \cup {r} ELSE share
    /\ UNCHANGED <<cast, db, lock, op, cl, vf>>

\* _record_applied: the ledger row, INSERT ... ON CONFLICT DO UPDATE, with the
\* checksum of the file this package carries.
Record(r) ==
    /\ run[r].pc = "record"
    /\ LET m == Min(run[r].pending)
           rest == run[r].pending \ {m}
           ledger == run[r].work.ledger
       IN run' = [run EXCEPT ![r].work.ledger =
                                [n \in DOMAIN ledger \cup {m} |->
                                   IF n = m THEN cast.edition[r] ELSE ledger[n]],
                             ![r].pending = rest,
                             ![r].pc = IF Kind(r) # "hosted" THEN "commit"
                                       ELSE IF rest = {} THEN "applied" ELSE "script"]
    /\ UNCHANGED <<cast, db, lock, share, op, cl, vf>>

\* The transaction of r becomes visible; the identity row is new when its
\* table is, and unbound.
Committed(w) ==
    LET born == db.schema < IdentityAt /\ w.schema >= IdentityAt
    IN [db EXCEPT !.schema = w.schema, !.ledger = w.ledger,
                  !.inst = IF born THEN 1 ELSE @,
                  !.env = IF born THEN "unbound" ELSE @]

\* An owning runner commits each migration with its row.
Commit(r) ==
    /\ run[r].pc = "commit"
    /\ db' = Committed(run[r].work)
    /\ share' = share \ {r}
    /\ run' = [run EXCEPT ![r].work = NoWork,
                          ![r].pc = IF run[r].pending = {} THEN "applied" ELSE "script"]
    /\ UNCHANGED <<cast, lock, op, cl, vf>>

\* The end of migrate: an owning runner rolls back what is open and unlocks;
\* a host commits after a success, unless its own later work fails, and rolls
\* back after an exception; the transaction lock goes with its transaction.
Finish(r) ==
    /\ run[r].pc \in {"applied", "failed"}
    /\ lock' = IF lock = r THEN Nobody ELSE lock
    /\ share' = share \ {r}
    /\ run' = [run EXCEPT ![r] = [Fresh EXCEPT
                  !.pc = "done", !.out = IF run[r].pc = "applied" THEN "ok" ELSE run[r].out,
                  !.tries = run[r].tries]]
    /\ \/ /\ Kind(r) = "hosted" /\ run[r].pc = "applied" /\ run[r].work.open
          /\ db' = Committed(run[r].work)
       \/ UNCHANGED db
    /\ UNCHANGED <<cast, op, cl, vf>>

\* The session is lost at any point (or a finished one is tried again): the
\* transaction and both kinds of lock go with it.
Retry(r) ==
    /\ run[r].pc # "idle" /\ run[r].tries < MaxTries
    /\ lock' = IF lock = r THEN Nobody ELSE lock
    /\ share' = share \ {r}
    /\ run' = [run EXCEPT ![r] = [Fresh EXCEPT !.tries = run[r].tries + 1]]
    /\ UNCHANGED <<cast, db, op, cl, vf>>

\* An administrator renames or strips the colliding role.
RolesRepaired ==
    /\ db.unsafe
    /\ db' = [db EXCEPT !.unsafe = FALSE]
    /\ UNCHANGED <<cast, lock, share, run, op, cl, vf>>

-----------------------------------------------------------------------------
(* The target identity *)

\* get_target_identity: what `target show` tells an operator.
Show(o) ==
    /\ o \in cast.operators
    /\ db.env # "none"
    /\ op[o] # Identity
    /\ op' = [op EXCEPT ![o] = Identity]
    /\ UNCHANGED <<cast, db, lock, share, run, cl, vf>>

\* bind_target_identity: FOR UPDATE waits for every sharer; the installation
\* and the binding version must be the ones the operator read; a bound target
\* changes only by rotation, which also makes a new installation and secret.
Bind(o, env, rotate) ==
    /\ o \in cast.operators
    /\ db.env # "none" /\ op[o] # NoIdentity
    /\ share = {}
    /\ op[o][1] = db.inst /\ op[o][3] = db.ver
    /\ rotate <=> db.env # "unbound"
    /\ db.ver < MaxBindings
    /\ db' = [db EXCEPT !.env = env, !.ver = @ + 1,
                        !.inst = IF rotate THEN @ + 1 ELSE @]
    /\ UNCHANGED <<cast, lock, share, run, op, cl, vf>>

-----------------------------------------------------------------------------
(* Calls of the SQL transport: one transaction each, or one statement of a  *)
(* transaction of the caller's.                                             *)

\* The checks of attest_target against the identity row: environment, pin,
\* and for production both the permission and the pin.
Attestable(e) ==
    /\ db.env # "unbound" /\ db.env = e.env
    /\ e.pin # 0 => e.pin = db.inst
    /\ db.env = "production" => e.production /\ e.pin # 0

\* The call of c ends: its transaction is gone, with what it set locally and
\* the row lock it held, and the caller is told what happened.
Over(c, told, effect) ==
    /\ cl' = [cl EXCEPT ![c].pc = "idle", ![c].told = told, ![c].effect = effect,
                        ![c].mac = NoIdentity, ![c].protected = FALSE]
    /\ share' = share \ {c}

\* _run: on a connection of its own (engine.begin) or on the caller's.  The
\* session "bare" is SQL by hand, and attests nothing.
Call(c, call, own) ==
    /\ cl[c].pc = "idle"
    /\ own \/ call \in JoiningCalls
    /\ cl' = [cl EXCEPT ![c].pc = "begun", ![c].own = own, ![c].told = "none",
                        ![c].effect = "none",
                        ![c].call = [call EXCEPT !.attests = @ /\ c # "bare"]]
    /\ UNCHANGED <<cast, db, lock, share, run, op, vf>>

AttestWithoutLock(c) ==
    /\ cl[c].pc = "begun" /\ cl[c].call.attests
    /\ IF db.schema >= IdentityAt /\ Attestable(cl[c].expects)
       THEN /\ cl' = [cl EXCEPT ![c].pc = "attested", ![c].mac = Identity]
            /\ UNCHANGED share
       ELSE Over(c, "refused", "none")
    /\ UNCHANGED <<cast, db, lock, run, op, vf>>

\* attest_target: the MAC covers the transaction and the identity, and the row
\* stays locked FOR SHARE until the transaction ends.
Attest(c) ==
    /\ cl[c].pc = "begun" /\ cl[c].call.attests
    /\ IF db.schema >= IdentityAt /\ Attestable(cl[c].expects)
       THEN /\ cl' = [cl EXCEPT ![c].pc = "attested", ![c].mac = Identity]
            /\ share' = share \cup {c}
       ELSE Over(c, "refused", "none")
    /\ UNCHANGED <<cast, db, lock, run, op, vf>>

\* The SQL function runs; a guarded one recomputes the MAC first.
Operate(c) ==
    /\ cl[c].pc = IF cl[c].call.attests THEN "attested" ELSE "begun"
    /\ IF cl[c].call.guarded /\ db.schema >= GuardAt /\ cl[c].mac # Identity
       THEN Over(c, "unattested", "none")
       ELSE /\ cl' = [cl EXCEPT
                  ![c].pc = "executed",
                  ![c].protected = cl[c].call.guarded /\ db.schema >= GuardAt,
                  ![c].effect = IF cl[c].call.writes THEN "open" ELSE "none"]
            /\ UNCHANGED share
    /\ UNCHANGED <<cast, db, lock, run, op, vf>>

Kept(c) == IF cl[c].effect = "open" THEN "committed" ELSE cl[c].effect

\* The reply is checked against the closed outcomes and shapes of the package,
\* which a newer contract may exceed: an exception leaves the block of the
\* transaction and rolls it back (a host's is aborted, and its to roll back).
Reply(c, good) ==
    /\ cl[c].pc = "executed"
    /\ IF ~good /\ ~cl[c].call.outside THEN Over(c, "error", "none")
       ELSE /\ cl' = [cl EXCEPT ![c].pc = IF cl[c].own THEN "closing" ELSE "answered",
                                ![c].told = IF cl[c].own THEN "none" ELSE "result"]
            /\ UNCHANGED share
    /\ UNCHANGED <<cast, db, lock, run, op, vf>>

\* engine.begin commits on the way out; a connection lost at that moment leaves
\* the caller with an error and no knowledge.  Methods built on _operator_scalar
\* check their value only now.
CommitCall(c, told, effect) ==
    /\ cl[c].pc = "closing"
    /\ \/ told = "result" /\ effect = Kept(c)
       \/ told = "error" /\ effect = Kept(c) /\ cl[c].call.outside
       \/ told = "lost" /\ effect \in {"none", Kept(c)}
    /\ Over(c, told, effect)
    /\ UNCHANGED <<cast, db, lock, run, op, vf>>

\* A host ends its transaction after the answer, either way.
HostEnds(c, effect) ==
    /\ cl[c].pc = "answered" /\ effect \in {"none", Kept(c)}
    /\ Over(c, "ended", effect)
    /\ UNCHANGED <<cast, db, lock, run, op, vf>>

\* The task is cancelled, or the statement fails, before the reply.
Cancel(c) ==
    /\ cl[c].pc \in {"begun", "attested", "executed"}
    /\ Over(c, "cancelled", "none")
    /\ UNCHANGED <<cast, db, lock, run, op, vf>>

-----------------------------------------------------------------------------
(* verify: eighteen probes in one READ COMMITTED transaction, each with a   *)
(* snapshot of its own, against the manifest of the verifier's package.     *)

\* The manifest of package p and the live schema agree on an aspect: nobody
\* altered it and no migration between the two touches it.
Agrees(aspect, p) ==
    /\ aspect \notin db.drift
    /\ \A m \in 1..Newest :
         (m > p /\ m <= db.schema) \/ (m > db.schema /\ m <= p)
           => aspect \notin Touches[m]

SchemaExists == db.schema > 0 /\ "schema_exists" \notin db.drift

\* Checksums released for the same bytes of 0001 are accepted.
Recorded(m) ==
    db.ledger[m] = "packaged" \/ (m = 1 /\ db.ledger[m] = "reissued")

LedgerOfPackageSome(p) ==
    /\ db.schema > 0
    /\ \A m \in DOMAIN db.ledger : m <= p /\ Recorded(m)

\* _check_ledger: no unknown row, no other checksum, no migration missing.
LedgerOfPackage(p) ==
    /\ db.schema > 0
    /\ \A m \in DOMAIN db.ledger : m <= p /\ Recorded(m)
    /\ 1..p \subseteq DOMAIN db.ledger

\* Functions are compared as a closed set; hardening and PUBLIC grants of
\* every live one; grants only of those both sides have.
FunctionProbe(n, p) ==
    CASE n \in {"function_hardening", "no_public_execute"} -> n \notin db.drift
      [] n = "function_catalog" -> db.schema > 0 /\ Agrees(n, p)
      [] n = "function_privileges" -> db.schema = 0 \/ Agrees(n, p)

\* Roles are made by the first migration.
RoleProbe(n, p) ==
    IF n = "capability_roles_exist" THEN db.schema > 0 /\ n \notin db.drift
    ELSE db.schema = 0 \/ Agrees(n, p)

\* Relations and the digests of their definitions are closed sets; composite
\* shapes are compared only where both sides have the type.
RelationProbe(n, p) ==
    IF n = "composite_shapes" THEN db.schema = 0 \/ Agrees(n, p)
    ELSE db.schema > 0 /\ Agrees(n, p)

\* Contract version, capabilities, control rows and the seeded schedule.
SeedProbe(p) == db.schema > 0 /\ Agrees("seed_state", p)

ForeignKeyProbe == "external_foreign_keys" \notin db.drift

ProbeOk(n, p) ==
    CASE n = "schema_exists" -> SchemaExists
      [] n = "migration_ledger" -> LedgerOfPackage(p)
      [] n \in {"function_catalog", "function_hardening", "no_public_execute",
                "function_privileges"} -> FunctionProbe(n, p)
      [] n \in {"capability_roles_exist", "role_manifest"} -> RoleProbe(n, p)
      [] n = "seed_state" -> SeedProbe(p)
      [] n = "external_foreign_keys" -> ForeignKeyProbe
      [] OTHER -> RelationProbe(n, p)

\* The next probe of verify.
Verify ==
    /\ cast.verifier > 0
    /\ vf.at < Len(Probes)
    /\ LET n == Probes[vf.at + 1]
       IN vf' = [at |-> vf.at + 1, ok |-> vf.ok /\ ProbeOk(n, cast.verifier),
                 seen |-> IF n = "migration_ledger" THEN db ELSE vf.seen]
    /\ UNCHANGED <<cast, db, lock, share, run, op, cl>>

\* Somebody alters one aspect of the installed catalogue by hand.
Drift(a) ==
    /\ cast.verifier > 0
    /\ db.schema > 0 /\ db.drift = {}
    /\ db' = [db EXCEPT !.drift = {a}]
    /\ UNCHANGED <<cast, lock, share, run, op, cl, vf>>

-----------------------------------------------------------------------------
InstallNext ==
    \/ \E r \in Runners :
         \/ Begin(r) \/ ReadLedger(r) \/ ReadTarget(r) \/ Lock(r) \/ Check(r)
         \/ Script(r) \/ Record(r) \/ Commit(r) \/ Finish(r) \/ Retry(r)
    \/ RolesRepaired
    \/ \E o \in Operators : Show(o)
    \/ \E o \in Operators, env \in {"staging", "production"}, rotate \in BOOLEAN :
         Bind(o, env, rotate)
    \/ \E c \in cast.clients, call \in Calls, own \in BOOLEAN : Call(c, call, own)
    \/ \E c \in Clients : Attest(c) \/ Operate(c) \/ Cancel(c)
    \/ \E c \in Clients, good \in BOOLEAN : Reply(c, good)
    \/ \E c \in Clients, told \in {"result", "error", "lost"},
          effect \in {"none", "committed"} : CommitCall(c, told, effect)
    \/ \E c \in Clients, effect \in {"none", "committed"} : HostEnds(c, effect)
    \/ Verify
    \/ \E a \in Drifts : Drift(a)

Spec == InstallInit /\ [][InstallNext]_vars

-----------------------------------------------------------------------------
(* Properties *)

\* What is committed is always a whole prefix of the migrations with exactly
\* its ledger rows, whoever crashed, raced or was refused: a row without its
\* DDL would leave an old function body in place for good (later scripts
\* replace bodies without asking), DDL without its row would be run again.
LedgerWhole == DOMAIN db.ledger = 1..db.schema

\* Only an unbound target ever stops a migration script: no runner meets its
\* predecessor check because another runner, of the same or of another
\* package, applied the same migration first.
OnlyTheTargetStops ==
    \A r \in Runners : run[r].out \in {"none", "ok", "refused", "target_unbound"}

\* Migrations are applied whole, in order and once, by however many runners.
MigrationsWhole == LedgerWhole /\ OnlyTheTargetStops

\* While a transaction that ran a protected operation is open, and so at its
\* commit, the database is still the target the caller was configured for: an
\* identity bound or rotated in between is never hit by an old caller.
EffectsOnExpected ==
    \A c \in Clients :
        cl[c].effect = "open" /\ cl[c].protected => Attestable(cl[c].expects)

\* A call that raised left nothing behind and a call that answered is kept, on
\* a connection of the transport's own: only a connection lost at the commit
\* leaves the caller without knowledge (methods that check their reply after
\* the commit excepted).  And no method of the transport is ever turned away
\* for a missing attestation: every guarded function is called attested, even
\* when the migration that guards it commits in the middle of the call.
CallsHonest ==
    \A c \in Clients :
        /\ cl[c].told \in {"error", "refused", "cancelled", "unattested"}
             => cl[c].effect = "none" \/ cl[c].call.outside
        /\ cl[c].told = "result" /\ cl[c].own /\ cl[c].call.writes
             => cl[c].effect = "committed"
        /\ cl[c].told = "unattested" => c = "bare"

\* A verify whose probes all passed saw, at its ledger probe, exactly its own
\* package: every migration applied, none newer, none edited, no drift, even
\* though migrations commit and catalogues drift between its probes.
VerifiedWhole ==
    vf.at = Len(Probes) /\ vf.ok =>
        /\ vf.seen.schema = cast.verifier
        /\ vf.seen.drift = {}
        /\ "edited" \notin {vf.seen.ledger[m] : m \in DOMAIN vf.seen.ledger}
=============================================================================
