------------------------- MODULE TaskqInstallProofs -------------------------
(***************************************************************************)
(* Theorems about TaskqInstall and TaskqCli for any number of migrations,  *)
(* whatever packages the runners carry and from whatever schema they       *)
(* start.                                                                  *)
(***************************************************************************)
EXTENDS TaskqCli, TLAPS

-----------------------------------------------------------------------------
(* Types *)

Envs    == {"none", "unbound", "staging", "production"}
Target  == Nat \X Envs \X Nat
Ledgers == UNION {[1..n -> Editions] : n \in 0..Newest}

DbRow == [schema : 0..Newest, ledger : Ledgers, inst : Nat, env : Envs, ver : Nat,
          unsafe : BOOLEAN, drift : SUBSET Drifts]

\* The states in which a runner holds the advisory lock, and those in which it
\* may have a transaction open.
Held  == {"check", "script", "record", "commit", "applied", "failed"}
Busy  == Held \ {"check"}

\* OnlyTheTargetStops, as the type of a result.
Stops == {"none", "ok", "refused", "target_unbound"}

WorkRow == [schema : 0..Newest, ledger : Ledgers, open : BOOLEAN]
PlanRow == [applied : SUBSET Nat, pending : SUBSET Nat, target : Target]
RunRow  == [pc : {"idle", "plan", "planned", "replan", "lock", "done"} \cup Held,
            read : SUBSET Nat, pending : SUBSET Nat, work : WorkRow, plan : PlanRow,
            out : Stops, tries : Nat]

RunTypes ==
    /\ cast \in CastRow
    /\ db \in DbRow
    /\ lock \in Runners \cup {Nobody}
    /\ run \in [Runners -> RunRow]

-----------------------------------------------------------------------------
(* The runners *)

\* What the session of r has done and has left to do.
Session(r) ==
    LET k == run[r]
        v == View(r)
        p == cast.pack[r]
    IN
    /\ k.pc \in Held => lock = r
    /\ k.pc \notin Busy => ~k.work.open
    /\ k.pc \in Busy /\ k.work.open => db.schema <= k.work.schema
    /\ k.pc = "script" =>
         /\ DOMAIN v.ledger = 1..v.schema
         /\ v.schema < p /\ k.pending = (v.schema + 1)..p
    /\ k.pc = "record" =>
         /\ k.work.open /\ k.work.schema \in 1..p
         /\ DOMAIN k.work.ledger = 1..(k.work.schema - 1)
         /\ k.pending = k.work.schema..p
    /\ k.pc = "commit" =>
         /\ k.work.open /\ DOMAIN k.work.ledger = 1..k.work.schema
         /\ k.pending = (k.work.schema + 1)..p
    /\ k.pc = "applied" /\ k.work.open => DOMAIN k.work.ledger = 1..k.work.schema

RunInv ==
    /\ RunTypes
    /\ LedgerWhole
    /\ \A r \in Runners : Session(r)

\* The least of an interval.
LEMMA MinInterval ==
    ASSUME NEW a \in Nat, NEW b \in Nat, a <= b
    PROVE  Min(a..b) = a
<1>1. a \in a..b /\ \A y \in a..b : a <= y
  OBVIOUS
<1>2. \A x \in a..b : (\A y \in a..b : x <= y) => x = a
  OBVIOUS
<1> QED  BY <1>1, <1>2 DEF Min

LEMMA RunnerMoves ==
    ASSUME RunInv, NEW r \in Runners, cast' = cast, db' \in DbRow, LedgerWhole',
           lock' \in Runners \cup {Nobody}, run' \in [Runners -> RunRow],
           \A q \in Runners \ {r} :
              /\ run'[q] = run[q]
              /\ lock = q => lock' = q /\ db'.schema = db.schema /\ db'.ledger = db.ledger,
           Session(r)'
    PROVE  RunInv'
<1>1. ASSUME NEW q \in Runners \ {r} PROVE Session(q)'
  <2>1. Session(q) /\ run'[q] = run[q]
    BY <1>1 DEF RunInv
  <2>2. CASE run[q].pc \in Held
    <3>1. lock = q
      BY <2>1, <2>2 DEF Session
    <3>2. lock' = q /\ db'.schema = db.schema /\ db'.ledger = db.ledger
      BY <1>1, <3>1
    <3>3. View(q)' = View(q)
      BY <2>1, <3>2 DEF View
    <3> QED  BY <2>1, <3>2, <3>3 DEF Session
  <2>3. CASE run[q].pc \notin Held
    BY <2>1, <2>3 DEF Session, Held, Busy
  <2> QED  BY <2>2, <2>3
<1> QED  BY <1>1 DEF RunInv, RunTypes

\* A runner that holds no lock and has nothing open.
LEMMA OutsideMoves ==
    ASSUME RunInv, NEW r \in Runners, UNCHANGED <<cast, db, lock>>,
           run' \in [Runners -> RunRow], \A q \in Runners \ {r} : run'[q] = run[q],
           run'[r].pc \notin Held, ~run'[r].work.open
    PROVE  RunInv'
<1>1. Session(r)'
  BY DEF Session, Busy, Held
<1>2. db' \in DbRow /\ LedgerWhole' /\ lock' \in Runners \cup {Nobody}
  BY DEF RunInv, RunTypes, LedgerWhole
<1> QED  BY <1>1, <1>2, RunnerMoves

LEMMA BeginInv ==
    ASSUME RunInv, NEW r \in Runners, Begin(r)
    PROVE  RunInv'
<1>1. run \in [Runners -> RunRow] /\ run[r].pc = "idle" /\ ~run[r].work.open
  BY DEF RunInv, RunTypes, Session, Begin, Busy, Held
<1>2. run' = [run EXCEPT ![r].pc = "lock"] /\ UNCHANGED <<cast, db, lock>>
  BY DEF Begin, Goes
<1>3. /\ run' \in [Runners -> RunRow] /\ \A q \in Runners \ {r} : run'[q] = run[q]
      /\ run'[r].pc = "lock" /\ run'[r].work = run[r].work
  BY <1>1, <1>2 DEF RunRow
<1> QED  BY <1>1, <1>2, <1>3, OutsideMoves DEF Held

LEMMA ReadLedgerInv ==
    ASSUME RunInv, NEW r \in Runners, ReadLedger(r)
    PROVE  RunInv'
<1> DEFINE p == Pending(DOMAIN db.ledger, cast.pack[r])
           d == DOMAIN db.ledger
<1>1. run \in [Runners -> RunRow] /\ run[r].pc \in {"idle", "planned"} /\ ~run[r].work.open
  BY DEF RunInv, RunTypes, Session, ReadLedger, Busy, Held
<1>2. /\ run' = [run EXCEPT ![r].pc = IF @ = "idle" THEN "plan" ELSE "replan",
                            ![r].pending = p, ![r].read = d]
      /\ UNCHANGED <<cast, db, lock>>
  BY DEF ReadLedger
<1>3. p \in SUBSET Nat /\ d \in SUBSET Nat
  <2>1. db.schema \in Nat /\ cast.pack[r] \in Nat
    BY InstallAssumption DEF RunInv, RunTypes, DbRow, CastRow
  <2>2. d = 1..db.schema
    BY DEF RunInv, LedgerWhole
  <2> QED  BY <2>1, <2>2 DEF Pending
<1> HIDE DEF p, d
<1>4. PICK s \in {"plan", "replan"} :
         run' = [run EXCEPT ![r].pc = s, ![r].pending = p, ![r].read = d]
  BY <1>2
<1>5. /\ run' \in [Runners -> RunRow] /\ \A q \in Runners \ {r} : run'[q] = run[q]
      /\ run'[r].pc = s /\ run'[r].work = run[r].work
  BY ZenonT(60), <1>1, <1>3, <1>4 DEF RunRow
<1> QED  BY <1>1, <1>2, <1>5, OutsideMoves DEF Held

LEMMA ReadTargetInv ==
    ASSUME RunInv, NEW r \in Runners, ReadTarget(r)
    PROVE  RunInv'
<1> DEFINE p == [applied |-> run[r].read, pending |-> run[r].pending, target |-> Identity]
<1>1. run \in [Runners -> RunRow] /\ ~run[r].work.open /\ UNCHANGED <<cast, db, lock>>
  BY DEF RunInv, RunTypes, Session, ReadTarget, Busy, Held
<1>2. p \in PlanRow
  <2>1. run[r].read \in SUBSET Nat /\ run[r].pending \in SUBSET Nat
    BY <1>1 DEF RunRow
  <2>2. Identity \in Target
    BY DEF RunInv, RunTypes, DbRow, Identity, Target
  <2> QED  BY <2>1, <2>2 DEF PlanRow
<1> HIDE DEF p
<1>3. \/ run' = [run EXCEPT ![r].pc = "planned", ![r].plan = p, ![r].read = {}]
      \/ run' = [run EXCEPT ![r].pc = "lock", ![r].read = {}]
      \/ run' = [run EXCEPT ![r].pc = "done", ![r].out = "refused", ![r].read = {}]
  BY DEF ReadTarget, p
<1>4. /\ run' \in [Runners -> RunRow] /\ \A q \in Runners \ {r} : run'[q] = run[q]
      /\ run'[r].pc \in {"planned", "lock", "done"} /\ run'[r].work = run[r].work
  <2>1. CASE run' = [run EXCEPT ![r].pc = "planned", ![r].plan = p, ![r].read = {}]
    BY ZenonT(60), <1>1, <1>2, <2>1 DEF RunRow
  <2>2. CASE run' = [run EXCEPT ![r].pc = "lock", ![r].read = {}]
    BY <1>1, <2>2 DEF RunRow
  <2>3. CASE run' = [run EXCEPT ![r].pc = "done", ![r].out = "refused", ![r].read = {}]
    <3> DEFINE k == [run[r] EXCEPT !.pc = "done", !.out = "refused", !.read = {}]
    <3>1. k \in RunRow /\ k.pc = "done" /\ k.work = run[r].work
      BY <1>1 DEF RunRow, Stops
    <3>2. run' = [run EXCEPT ![r] = k]
      BY <2>3
    <3> HIDE DEF k
    <3> QED  BY <1>1, <3>1, <3>2
  <2> QED  BY <1>3, <2>1, <2>2, <2>3
<1> QED  BY <1>1, <1>4, OutsideMoves DEF Held

LEMMA LockInv ==
    ASSUME RunInv, NEW r \in Runners, Lock(r)
    PROVE  RunInv'
<1>1. /\ run \in [Runners -> RunRow] /\ ~run[r].work.open /\ lock = Nobody /\ lock' = r
      /\ run' = [run EXCEPT ![r].pc = "check"] /\ UNCHANGED <<cast, db>>
  BY DEF RunInv, RunTypes, Session, Lock, Goes, Busy, Held
<1>2. /\ run' \in [Runners -> RunRow] /\ \A q \in Runners \ {r} : run'[q] = run[q]
      /\ run'[r].pc = "check" /\ run'[r].work = run[r].work
  BY <1>1 DEF RunRow, Held
<1>3. \A q \in Runners : lock # q
  BY <1>1 DEF Runners, Nobody
<1>4. Session(r)'
  BY <1>1, <1>2 DEF Session, Busy, Held
<1>5. db' \in DbRow /\ LedgerWhole'
  BY <1>1 DEF RunInv, RunTypes, LedgerWhole
<1> QED  BY <1>1, <1>2, <1>3, <1>4, <1>5, RunnerMoves

\* A runner that keeps the lock and commits nothing.
LEMMA HeldMoves ==
    ASSUME RunInv, NEW r \in Runners, UNCHANGED <<cast, db, lock>>,
           run' \in [Runners -> RunRow], \A q \in Runners \ {r} : run'[q] = run[q],
           Session(r)'
    PROVE  RunInv'
<1>1. db' \in DbRow /\ LedgerWhole' /\ lock' \in Runners \cup {Nobody}
  BY DEF RunInv, RunTypes, LedgerWhole
<1> QED  BY <1>1, RunnerMoves

LEMMA CheckInv ==
    ASSUME RunInv, NEW r \in Runners, Check(r)
    PROVE  RunInv'
<1> DEFINE p   == Pending(DOMAIN db.ledger, cast.pack[r])
           bad == RolesUnsafe \/ (Kind(r) = "planned" /\ p # run[r].plan.pending)
           o   == IF bad THEN "refused" ELSE "none"
           t   == CASE bad -> "failed" [] p = {} -> "applied" [] OTHER -> "script"
<1>1. /\ run \in [Runners -> RunRow] /\ run[r].pc = "check" /\ ~run[r].work.open /\ lock = r
      /\ UNCHANGED <<cast, db, lock>>
  BY DEF RunInv, RunTypes, Session, Check, Busy, Held
<1>2. run' = [run EXCEPT ![r].pending = p, ![r].out = o, ![r].pc = t]
  BY DEF Check
<1>3. /\ db.schema \in Nat /\ cast.pack[r] \in Nat /\ DOMAIN db.ledger = 1..db.schema
      /\ p = (db.schema + 1)..cast.pack[r]
  <2>1. db.schema \in Nat /\ cast.pack[r] \in Nat /\ DOMAIN db.ledger = 1..db.schema
    BY InstallAssumption DEF RunInv, RunTypes, DbRow, CastRow, LedgerWhole
  <2> QED  BY <2>1 DEF Pending
<1>4. o \in Stops /\ t \in {"failed", "applied", "script"} /\ (t = "script" => p # {})
  BY DEF Stops
<1>5. p \in SUBSET Nat
  BY <1>3
<1> HIDE DEF p, o, t
<1>6. /\ run' \in [Runners -> RunRow] /\ \A q \in Runners \ {r} : run'[q] = run[q]
      /\ run'[r].pc = t /\ run'[r].work = run[r].work /\ run'[r].pending = p
  BY <1>1, <1>2, <1>4, <1>5 DEF RunRow, Held
<1>7. t = "script" => View(r)'.ledger = db.ledger /\ View(r)'.schema = db.schema
  BY <1>1, <1>6 DEF View
<1>8. t = "script" => db.schema < cast.pack[r]
  BY <1>3, <1>4
<1>9. Session(r)'
  BY <1>1, <1>3, <1>4, <1>6, <1>7, <1>8 DEF Session, Busy, Held
<1> QED  BY <1>1, <1>6, <1>9, HeldMoves

LEMMA ScriptInv ==
    ASSUME RunInv, NEW r \in Runners, Script(r)
    PROVE  RunInv'
<1> DEFINE m == Min(run[r].pending)
           v == View(r)
           p == cast.pack[r]
<1>1. /\ run \in [Runners -> RunRow] /\ run[r].pc = "script" /\ lock = r
      /\ Session(r) /\ UNCHANGED <<cast, db, lock>>
  BY DEF RunInv, RunTypes, Session, Script, Busy, Held
<1>2. /\ v \in WorkRow /\ v.open /\ db.schema <= v.schema /\ p \in 0..Newest /\ Newest \in Nat
  <2>1. db \in DbRow /\ run[r].work \in WorkRow /\ p \in 0..Newest /\ Newest \in Nat
    BY <1>1, InstallAssumption DEF RunInv, RunTypes, RunRow, CastRow
  <2>2. CASE run[r].work.open
    BY <1>1, <2>1, <2>2 DEF View, Session, Busy, Held
  <2>3. CASE ~run[r].work.open
    BY <2>1, <2>3 DEF View, DbRow, WorkRow
  <2> QED  BY <2>1, <2>2, <2>3
<1>3. /\ DOMAIN v.ledger = 1..v.schema /\ v.schema < p
      /\ run[r].pending = (v.schema + 1)..p /\ v.schema \in Nat
  BY <1>1, <1>2 DEF Session, WorkRow
<1>4. m = v.schema + 1
  <2>1. v.schema + 1 \in Nat /\ p \in Nat /\ v.schema + 1 <= p
    BY <1>2, <1>3
  <2> QED  BY <1>3, <2>1, MinInterval
<1>5. Obstacle(m, v) \in {"none", "target_unbound"}
  BY <1>3, <1>4 DEF Obstacle
<1> DEFINE w == [v EXCEPT !.schema = m]
<1>6. \/ run' = [run EXCEPT ![r].pc = "failed", ![r].out = "target_unbound"]
      \/ run' = [run EXCEPT ![r].pc = "record", ![r].work = w]
  BY <1>5 DEF Script
<1>7. w \in WorkRow /\ w.schema = m /\ w.ledger = v.ledger /\ w.open
  BY <1>2, <1>3, <1>4 DEF WorkRow
<1> HIDE DEF w, m, v
<1>8. CASE run' = [run EXCEPT ![r].pc = "failed", ![r].out = "target_unbound"]
  <2>1. /\ run' \in [Runners -> RunRow] /\ \A q \in Runners \ {r} : run'[q] = run[q]
        /\ run'[r].pc = "failed" /\ run'[r].work = run[r].work
    BY ZenonT(60), <1>1, <1>8 DEF RunRow, Stops, Held
  <2>2. Session(r)'
    BY <1>1, <2>1 DEF Session, Busy, Held
  <2> QED  BY <1>1, <2>1, <2>2, HeldMoves
<1>9. CASE run' = [run EXCEPT ![r].pc = "record", ![r].work = w]
  <2>1. /\ run' \in [Runners -> RunRow] /\ \A q \in Runners \ {r} : run'[q] = run[q]
        /\ run'[r].pc = "record" /\ run'[r].work = w /\ run'[r].pending = run[r].pending
    <3> DEFINE k == [run[r] EXCEPT !.pc = "record", !.work = w]
    <3>1. /\ k \in RunRow /\ k.pc = "record" /\ k.work = w
          /\ k.pending = run[r].pending
      BY <1>1, <1>7 DEF RunRow, Held
    <3>2. run' = [run EXCEPT ![r] = k]
      BY <1>9
    <3> HIDE DEF k
    <3> QED  BY <1>1, <3>1, <3>2
  <2>2. /\ w.schema \in 1..p /\ DOMAIN w.ledger = 1..(w.schema - 1)
        /\ run[r].pending = w.schema..p /\ db.schema <= w.schema
    <3>1. db.schema \in Nat /\ p \in Nat
      BY InstallAssumption DEF RunInv, RunTypes, DbRow, CastRow
    <3> QED  BY <1>2, <1>3, <1>4, <1>7, <3>1
  <2>3. Session(r)'
    BY <1>1, <1>7, <2>1, <2>2 DEF Session, Busy, Held
  <2> QED  BY <1>1, <2>1, <2>3, HeldMoves
<1> QED  BY <1>6, <1>8, <1>9

LEMMA RecordInv ==
    ASSUME RunInv, NEW r \in Runners, Record(r)
    PROVE  RunInv'
<1> DEFINE m == Min(run[r].pending)
           rest == run[r].pending \ {m}
           L == run[r].work.ledger
           L2 == [n \in DOMAIN L \cup {m} |-> IF n = m THEN cast.edition[r] ELSE L[n]]
           t == IF Kind(r) # "hosted" THEN "commit"
                ELSE IF rest = {} THEN "applied" ELSE "script"
           p == cast.pack[r]
           w == run[r].work
           w2 == [w EXCEPT !.ledger = L2]
           k == [run[r] EXCEPT !.work = w2, !.pending = rest, !.pc = t]
<1>1. /\ run \in [Runners -> RunRow] /\ run[r].pc = "record" /\ lock = r
      /\ Session(r) /\ UNCHANGED <<cast, db, lock>>
  BY DEF RunInv, RunTypes, Session, Record, Busy, Held
<1>2. /\ w \in WorkRow /\ run[r] \in RunRow /\ cast.edition[r] \in Editions /\ p \in 0..Newest
      /\ Newest \in Nat
  BY <1>1, InstallAssumption DEF RunInv, RunTypes, RunRow, CastRow
<1>3. /\ w.open /\ w.schema \in 1..p /\ DOMAIN L = 1..(w.schema - 1)
      /\ run[r].pending = w.schema..p /\ db.schema <= w.schema
  BY <1>1 DEF Session, Busy, Held
<1>4. m = w.schema /\ rest = (w.schema + 1)..p
  <2>1. w.schema \in Nat /\ p \in Nat /\ w.schema <= p
    BY <1>2, <1>3
  <2>2. m = w.schema
    BY <1>3, <2>1, MinInterval
  <2> QED  BY <1>3, <2>1, <2>2
<1>5. L2 \in Ledgers /\ DOMAIN L2 = 1..w.schema
  <2>1. DOMAIN L \cup {m} = 1..w.schema
    BY <1>2, <1>3, <1>4
  <2>2. \A n \in 1..(w.schema - 1) : L[n] \in Editions
    BY <1>2, <1>3 DEF WorkRow, Ledgers
  <2>3. \A n \in DOMAIN L \cup {m} : L2[n] \in Editions
    BY <1>2, <1>3, <2>2
  <2>4. L2 \in [1..w.schema -> Editions]
    BY <2>1, <2>3
  <2>5. w.schema \in 0..Newest
    BY <1>2, <1>3
  <2> QED  BY <2>1, <2>4, <2>5 DEF Ledgers
<1>6. run' = [run EXCEPT ![r] = k]
  <2>1. run' = [run EXCEPT ![r].work.ledger = L2, ![r].pending = rest, ![r].pc = t]
    BY DEF Record
  <2> HIDE DEF L2, rest, t
  <2> QED  BY <2>1
<1>7. rest \in SUBSET Nat /\ t \in {"commit", "applied", "script"}
  BY <1>2, <1>3, <1>4
<1>8. t = "script" => rest # {}
  OBVIOUS
<1> HIDE DEF rest, L2, t, m
<1>9. w2 \in WorkRow /\ w2.schema = w.schema /\ w2.open /\ w2.ledger = L2
  BY <1>2, <1>3, <1>5 DEF WorkRow
<1> HIDE DEF w2
<1>10. k \in RunRow /\ k.work = w2 /\ k.pending = rest /\ k.pc = t
  BY <1>2, <1>7, <1>9 DEF RunRow, Held
<1> HIDE DEF k
<1>11. run' \in [Runners -> RunRow] /\ run'[r] = k /\ \A q \in Runners \ {r} : run'[q] = run[q]
  BY <1>1, <1>6, <1>10
<1>12. View(r)' = w2
  BY <1>9, <1>10, <1>11 DEF View
<1>13. Session(r)'
  <2>1. t = "script" => w.schema < p
    <3>1. w.schema \in Nat /\ p \in Nat
      BY <1>2, <1>3
    <3> QED  BY <1>4, <1>8, <3>1
  <2> QED  BY <1>1, <1>3, <1>4, <1>5, <1>7, <1>9, <1>10, <1>11, <1>12, <2>1 DEF Session, Busy, Held
<1> QED  BY <1>1, <1>11, <1>13, HeldMoves

\* What a commit makes of the database.
LEMMA CommittedRow ==
    ASSUME db \in DbRow, NEW w \in WorkRow
    PROVE  /\ Committed(w) \in DbRow
           /\ Committed(w).schema = w.schema /\ Committed(w).ledger = w.ledger
           /\ Committed(w).drift = db.drift /\ Committed(w).ver = db.ver
           /\ Committed(w).env = IF db.schema < IdentityAt /\ w.schema >= IdentityAt
                                 THEN "unbound" ELSE db.env
           /\ Committed(w).inst = IF db.schema < IdentityAt /\ w.schema >= IdentityAt
                                  THEN 1 ELSE db.inst
<1> DEFINE born == db.schema < IdentityAt /\ w.schema >= IdentityAt
           i == IF born THEN 1 ELSE db.inst
           e == IF born THEN "unbound" ELSE db.env
           d == [db EXCEPT !.schema = w.schema, !.ledger = w.ledger, !.inst = i, !.env = e]
<1>1. Committed(w) = d
  BY DEF Committed
<1>2. i \in Nat /\ e \in Envs
  BY DEF DbRow, Envs
<1>3. w.schema \in 0..Newest /\ w.ledger \in Ledgers
  BY DEF WorkRow
<1> HIDE DEF i, e
<1>4. /\ d \in DbRow /\ d.schema = w.schema /\ d.ledger = w.ledger
      /\ d.drift = db.drift /\ d.ver = db.ver /\ d.inst = i /\ d.env = e
  BY <1>2, <1>3 DEF DbRow
<1> HIDE DEF d
<1> QED  BY <1>1, <1>4 DEF i, e

\* The lock holder's transaction is committed, and it goes on as k.
LEMMA CommitMoves ==
    ASSUME RunInv, NEW r \in Runners, NEW k \in RunRow, cast' = cast,
           run' = [run EXCEPT ![r] = k], lock = r, lock' \in {r, Nobody},
           run[r].pc \in {"commit", "applied"}, run[r].work.open,
           db' = Committed(run[r].work), ~k.work.open,
           \/ k.pc \notin Held
           \/ k.pc = "applied" /\ lock' = r
           \/ /\ k.pc = "script" /\ lock' = r /\ run[r].work.schema < cast.pack[r]
              /\ k.pending = (run[r].work.schema + 1)..cast.pack[r]
    PROVE  RunInv'
<1> DEFINE w == run[r].work
<1>1. /\ w \in WorkRow /\ DOMAIN w.ledger = 1..w.schema /\ Session(r) /\ db \in DbRow
      /\ run \in [Runners -> RunRow]
  BY DEF RunInv, RunTypes, RunRow, Session
<1>2. db' \in DbRow /\ db'.schema = w.schema /\ db'.ledger = w.ledger
  BY <1>1, CommittedRow
<1>3. LedgerWhole'
  BY <1>1, <1>2 DEF LedgerWhole
<1>4. run' \in [Runners -> RunRow] /\ run'[r] = k /\ \A q \in Runners \ {r} : run'[q] = run[q]
  BY <1>1
<1>5. Session(r)'
  <2>1. CASE k.pc = "script"
    <3>1. View(r)'.schema = w.schema /\ View(r)'.ledger = w.ledger
      BY <1>2, <1>4 DEF View
    <3> QED  BY <1>1, <1>2, <1>4, <2>1, <3>1 DEF Session, Busy, Held
  <2>2. CASE k.pc # "script"
    BY <1>4, <2>2 DEF Session, Busy, Held
  <2> QED  BY <2>1, <2>2
<1>6. lock' \in Runners \cup {Nobody}
  OBVIOUS
<1> QED  BY <1>2, <1>3, <1>4, <1>5, <1>6, RunnerMoves

LEMMA NoWorkRow == NoWork \in WorkRow /\ ~NoWork.open
<1>1. <<>> \in [1..0 -> Editions]
  OBVIOUS
<1>2. 0 \in 0..Newest
  BY InstallAssumption
<1>3. <<>> \in Ledgers
  BY <1>1, <1>2 DEF Ledgers
<1> QED  BY <1>2, <1>3 DEF NoWork, WorkRow

LEMMA FreshRow ==
    /\ Fresh \in RunRow /\ Fresh.pc = "idle" /\ Fresh.work = NoWork /\ Fresh.out = "none"
<1>1. NoPlan \in PlanRow
  BY DEF NoPlan, PlanRow, NoIdentity, Target, Envs
<1> QED  BY <1>1, NoWorkRow DEF Fresh, RunRow, Stops

LEMMA CommitInv ==
    ASSUME RunInv, NEW r \in Runners, Commit(r)
    PROVE  RunInv'
<1> DEFINE t == IF run[r].pending = {} THEN "applied" ELSE "script"
           k == [run[r] EXCEPT !.work = NoWork, !.pc = t]
<1>1. /\ run \in [Runners -> RunRow] /\ run[r].pc = "commit" /\ lock = r /\ lock' = lock
      /\ Session(r) /\ cast' = cast /\ db' = Committed(run[r].work)
  BY DEF RunInv, RunTypes, Session, Commit, Busy, Held
<1>2. run' = [run EXCEPT ![r] = k]
  BY DEF Commit
<1>3. t \in {"applied", "script"} /\ (t = "script" => run[r].pending # {})
  OBVIOUS
<1> HIDE DEF t
<1>4. /\ k \in RunRow /\ k.work = NoWork /\ k.pc = t /\ k.pending = run[r].pending
  BY <1>1, <1>3, NoWorkRow DEF RunRow, Held
<1> HIDE DEF k
<1>5. t = "script" => run[r].work.schema < cast.pack[r]
  <2>1. run[r].work.schema \in Nat /\ cast.pack[r] \in Nat
    BY <1>1, InstallAssumption DEF RunInv, RunTypes, RunRow, WorkRow, CastRow
  <2> QED  BY <1>1, <1>3, <2>1 DEF Session
<1>6. run[r].work.open /\ run[r].pending = (run[r].work.schema + 1)..cast.pack[r]
  BY <1>1 DEF Session
<1> QED  BY <1>1, <1>2, <1>3, <1>4, <1>5, <1>6, NoWorkRow, CommitMoves

\* A runner that gives the lock up.
LEMMA FreedMoves ==
    ASSUME RunInv, NEW r \in Runners, NEW k \in RunRow, UNCHANGED <<cast, db>>,
           run' = [run EXCEPT ![r] = k], lock' = IF lock = r THEN Nobody ELSE lock,
           k.pc \notin Held, ~k.work.open
    PROVE  RunInv'
<1>1. /\ run' \in [Runners -> RunRow] /\ run'[r] = k /\ \A q \in Runners \ {r} : run'[q] = run[q]
      /\ lock' \in Runners \cup {Nobody} /\ \A q \in Runners \ {r} : lock = q => lock' = q
  BY DEF RunInv, RunTypes
<1>2. db' \in DbRow /\ LedgerWhole'
  BY DEF RunInv, RunTypes, LedgerWhole
<1>3. Session(r)'
  BY <1>1 DEF Session, Busy, Held
<1> QED  BY <1>1, <1>2, <1>3, RunnerMoves

LEMMA FinishInv ==
    ASSUME RunInv, NEW r \in Runners, Finish(r)
    PROVE  RunInv'
<1> DEFINE o == IF run[r].pc = "applied" THEN "ok" ELSE run[r].out
           k == [Fresh EXCEPT !.pc = "done", !.out = o, !.tries = run[r].tries]
<1>1. /\ run \in [Runners -> RunRow] /\ run[r].pc \in {"applied", "failed"} /\ lock = r
      /\ cast' = cast /\ lock' = IF lock = r THEN Nobody ELSE lock
      /\ run' = [run EXCEPT ![r] = k]
      /\ \/ /\ run[r].pc = "applied" /\ run[r].work.open /\ db' = Committed(run[r].work)
         \/ db' = db
  BY DEF RunInv, RunTypes, Session, Finish, Busy, Held
<1>2. o \in Stops /\ run[r].tries \in Nat
  BY <1>1 DEF RunRow, Stops
<1> HIDE DEF o
<1>3. k \in RunRow /\ k.pc = "done" /\ ~k.work.open
  <2>1. k \in RunRow /\ k.pc = "done" /\ k.work = Fresh.work
    BY <1>2, FreshRow DEF RunRow
  <2> QED  BY <2>1, FreshRow, NoWorkRow
<1> HIDE DEF k
<1>4. k.pc \notin Held
  BY <1>3 DEF Held
<1> QED  BY <1>1, <1>3, <1>4, CommitMoves, FreedMoves

LEMMA RetryInv ==
    ASSUME RunInv, NEW r \in Runners, Retry(r)
    PROVE  RunInv'
<1> DEFINE n == run[r].tries + 1
           k == [Fresh EXCEPT !.tries = n]
<1>1. /\ run \in [Runners -> RunRow] /\ UNCHANGED <<cast, db>>
      /\ lock' = (IF lock = r THEN Nobody ELSE lock)
      /\ run' = [run EXCEPT ![r] = k]
  BY DEF RunInv, RunTypes, Retry
<1>2. n \in Nat
  BY <1>1 DEF RunRow
<1> HIDE DEF n
<1>3. k \in RunRow /\ k.pc = "idle" /\ ~k.work.open
  <2>1. k \in RunRow /\ k.pc = Fresh.pc /\ k.work = Fresh.work
    BY <1>2, FreshRow DEF RunRow
  <2> QED  BY <2>1, FreshRow, NoWorkRow
<1> HIDE DEF k
<1>4. k.pc \notin Held
  BY <1>3 DEF Held
<1> QED  BY <1>1, <1>3, <1>4, FreedMoves

\* Everything else leaves the runners, the lock, the schema and its ledger alone.
Aside ==
    /\ UNCHANGED <<cast, lock, run>>
    /\ db' \in DbRow /\ db'.schema = db.schema /\ db'.ledger = db.ledger

LEMMA AsideInv ==
    ASSUME RunInv, Aside
    PROVE  RunInv'
<1>1. ASSUME NEW r \in Runners PROVE Session(r)'
  <2>1. View(r)' = View(r) /\ Session(r)
    BY <1>1 DEF RunInv, Aside, View
  <2> QED  BY <2>1 DEF Aside, Session
<1> QED  BY <1>1 DEF RunInv, RunTypes, Aside, LedgerWhole

LEMMA BindDb ==
    ASSUME db \in DbRow, NEW o \in Operators, NEW env \in {"staging", "production"},
           NEW rotate \in BOOLEAN, Bind(o, env, rotate)
    PROVE  /\ db' \in DbRow /\ db'.schema = db.schema /\ db'.ledger = db.ledger
           /\ db'.drift = db.drift /\ db'.env = env
<1> DEFINE i == IF rotate THEN db.inst + 1 ELSE db.inst
           n == db.ver + 1
<1>1. db' = [db EXCEPT !.env = env, !.ver = n, !.inst = i]
  BY DEF Bind
<1>2. i \in Nat /\ n \in Nat /\ env \in Envs
  BY DEF DbRow, Envs
<1> HIDE DEF i, n
<1> QED  BY <1>1, <1>2 DEF DbRow

LEMMA DriftDb ==
    ASSUME db \in DbRow, NEW a \in Drifts, Drift(a)
    PROVE  /\ db' \in DbRow /\ db'.schema = db.schema /\ db'.ledger = db.ledger
           /\ db'.drift = {a} /\ db.drift = {} /\ db'.env = db.env
           /\ db'.inst = db.inst /\ db'.ver = db.ver
BY DEF Drift, DbRow

LEMMA RolesDb ==
    ASSUME db \in DbRow, RolesRepaired
    PROVE  /\ db' \in DbRow /\ db'.schema = db.schema /\ db'.ledger = db.ledger
           /\ db'.drift = db.drift /\ db'.env = db.env
           /\ db'.inst = db.inst /\ db'.ver = db.ver
BY DEF RolesRepaired, DbRow

\* The steps that leave the database and the runners alone.
Elsewhere ==
    \/ \E o \in Operators : Show(o)
    \/ \E c \in cast.clients, call \in Calls, own \in BOOLEAN : Call(c, call, own)
    \/ \E c \in Clients : Attest(c) \/ Operate(c) \/ Cancel(c)
    \/ \E c \in Clients, good \in BOOLEAN : Reply(c, good)
    \/ \E c \in Clients, told \in {"result", "error", "lost"},
          effect \in {"none", "committed"} : CommitCall(c, told, effect)
    \/ \E c \in Clients, effect \in {"none", "committed"} : HostEnds(c, effect)
    \/ Verify

LEMMA ElsewhereAside ==
    ASSUME db \in DbRow, Elsewhere
    PROVE  Aside /\ db' = db
<1>1. ASSUME NEW o \in Operators, Show(o) PROVE UNCHANGED <<cast, lock, run, db>>
  BY <1>1 DEF Show
<1>2. ASSUME NEW c, NEW call, NEW own, Call(c, call, own) PROVE UNCHANGED <<cast, lock, run, db>>
  BY <1>2 DEF Call
<1>3. ASSUME NEW c, Attest(c) \/ Operate(c) \/ Cancel(c) PROVE UNCHANGED <<cast, lock, run, db>>
  BY <1>3 DEF Attest, Operate, Cancel
<1>4. ASSUME NEW c, NEW x, NEW y, Reply(c, x) \/ CommitCall(c, x, y) \/ HostEnds(c, x)
      PROVE  UNCHANGED <<cast, lock, run, db>>
  BY <1>4 DEF Reply, CommitCall, HostEnds
<1>5. ASSUME Verify PROVE UNCHANGED <<cast, lock, run, db>>
  BY <1>5 DEF Verify
<1>6. UNCHANGED <<cast, lock, run, db>>
  BY <1>1, <1>2, <1>3, <1>4, <1>5 DEF Elsewhere
<1> QED  BY <1>6 DEF Aside

\* The steps of one runner.
Runs(r) ==
    \/ Begin(r) \/ ReadLedger(r) \/ ReadTarget(r) \/ Lock(r) \/ Check(r)
    \/ Script(r) \/ Record(r) \/ Commit(r) \/ Finish(r) \/ Retry(r)

LEMMA NextCases ==
    InstallNext <=>
      \/ \E r \in Runners : Runs(r)
      \/ RolesRepaired
      \/ \E o \in Operators, env \in {"staging", "production"}, rotate \in BOOLEAN :
           Bind(o, env, rotate)
      \/ \E a \in Drifts : Drift(a)
      \/ Elsewhere
BY DEF InstallNext, Runs, Elsewhere

LEMMA RunNext ==
    ASSUME RunInv, [CliNext]_<<vars, cli>>
    PROVE  RunInv'
<1>0. db \in DbRow
  BY DEF RunInv, RunTypes
<1>1. ASSUME NEW r \in Runners, Runs(r) PROVE RunInv'
  BY <1>1, BeginInv, ReadLedgerInv, ReadTargetInv, LockInv, CheckInv, ScriptInv, RecordInv,
     CommitInv, FinishInv, RetryInv DEF Runs
<1>2. ASSUME RolesRepaired PROVE RunInv'
  <2>1. Aside
    BY <1>0, <1>2, RolesDb DEF Aside, RolesRepaired
  <2> QED  BY <2>1, AsideInv
<1>3. ASSUME NEW o \in Operators, NEW env \in {"staging", "production"}, NEW rotate \in BOOLEAN,
             Bind(o, env, rotate)
      PROVE  RunInv'
  <2>1. Aside
    BY <1>0, <1>3, BindDb DEF Aside, Bind
  <2> QED  BY <2>1, AsideInv
<1>4. ASSUME NEW a \in Drifts, Drift(a) PROVE RunInv'
  <2>1. Aside
    BY <1>0, <1>4, DriftDb DEF Aside, Drift
  <2> QED  BY <2>1, AsideInv
<1>5. CASE InstallNext
  BY <1>0, <1>1, <1>2, <1>3, <1>4, <1>5, NextCases, ElsewhereAside, AsideInv
<1>6. CASE UNCHANGED <<cast, db, lock, run>>
  BY <1>0, <1>6, AsideInv DEF Aside
<1>7. ASSUME NEW k, NEW mode, NEW f, Command(k, mode, f) \/ Request
      PROVE  UNCHANGED <<cast, db, lock, run>>
  BY <1>7 DEF Command, Request
<1>8. InstallNext \/ UNCHANGED <<cast, db, lock, run>>
  BY <1>7 DEF CliNext, vars
<1> QED  BY <1>5, <1>6, <1>8

LEMMA RunInit ==
    ASSUME CliInit
    PROVE  RunInv
<1>1. PICK unsafe \in BOOLEAN :
         db = [schema |-> cast.from, ledger |-> [m \in 1..cast.from |-> "packaged"],
               inst |-> IF cast.from < IdentityAt THEN 0 ELSE 1,
               env |-> IF cast.from < IdentityAt THEN "none" ELSE cast.env,
               ver |-> IF cast.from < IdentityAt \/ cast.env = "unbound" THEN 0 ELSE 1,
               unsafe |-> unsafe /\ cast.from = 0, drift |-> {}]
  BY DEF CliInit, InstallInit
<1>2. /\ cast \in CastRow /\ cast.from \in 0..Newest /\ cast.env \in Envs /\ Newest \in Nat
      /\ lock = Nobody /\ run = [r \in Runners |-> Fresh]
  BY InstallAssumption DEF CliInit, InstallInit, CastRow, Envs
<1>3. db \in DbRow /\ LedgerWhole
  <2> DEFINE L == [m \in 1..cast.from |-> "packaged"]
             i == IF cast.from < IdentityAt THEN 0 ELSE 1
             e == IF cast.from < IdentityAt THEN "none" ELSE cast.env
             n == IF cast.from < IdentityAt \/ cast.env = "unbound" THEN 0 ELSE 1
             u == unsafe /\ cast.from = 0
  <2>1. L \in [1..cast.from -> Editions] /\ DOMAIN L = 1..cast.from
    BY DEF Editions
  <2>2. L \in Ledgers
    BY <1>2, <2>1 DEF Ledgers
  <2>3. i \in Nat /\ e \in Envs /\ n \in Nat /\ u \in BOOLEAN
    BY <1>2 DEF Envs
  <2>4. db = [schema |-> cast.from, ledger |-> L, inst |-> i, env |-> e, ver |-> n,
              unsafe |-> u, drift |-> {}]
    BY <1>1
  <2> HIDE DEF L, i, e, n, u
  <2> QED  BY <1>2, <2>1, <2>2, <2>3, <2>4 DEF DbRow, LedgerWhole
<1>4. run \in [Runners -> RunRow]
  BY <1>2, FreshRow
<1>5. ASSUME NEW r \in Runners PROVE Session(r)
  <2>1. run[r].pc = "idle" /\ ~run[r].work.open
    BY <1>2, FreshRow, NoWorkRow
  <2> QED  BY <2>1 DEF Session, Busy, Held
<1> QED  BY <1>2, <1>3, <1>4, <1>5 DEF RunInv, RunTypes

LEMMA RunHolds == CliSpec => []RunInv
BY RunInit, RunNext, PTL DEF CliSpec

\* However many runners of whatever packages race, crash, retry or are refused,
\* the committed schema has exactly the ledger rows of its migrations, and no
\* script ever meets its predecessor check.
THEOREM MigrationsAreWhole == CliSpec => []MigrationsWhole
<1>1. RunInv => MigrationsWhole
  BY DEF RunInv, RunTypes, RunRow, Stops, MigrationsWhole, OnlyTheTargetStops
<1> QED  BY <1>1, RunHolds, PTL

-----------------------------------------------------------------------------
(* The callers *)

CallRow   == [writes : BOOLEAN, attests : BOOLEAN, outside : BOOLEAN, guarded : BOOLEAN]
ExpectRow == [env : {"none", "staging", "production"}, pin : Nat, production : BOOLEAN]
ClientRow ==
    [pc : {"idle", "begun", "attested", "executed", "closing", "answered"},
     own : BOOLEAN, mac : Target, protected : BOOLEAN, call : CallRow,
     expects : ExpectRow, effect : {"none", "open", "committed"},
     told : {"none", "refused", "unattested", "cancelled", "error", "result", "lost",
             "ended"}]

\* The states of a call whose statement has run.
Ran == {"executed", "closing", "answered"}

\* What an open call holds: the identity it attested, under a row lock, and the
\* effect of its statement.
Session2(c) ==
    LET k == cl[c] IN
    /\ k.pc \in {"idle", "begun"} => k.mac = NoIdentity
    /\ k.pc \notin {"idle", "answered"} => k.told = "none"
    /\ k.pc = "attested" => k.mac = Identity /\ c \in share
    /\ c \in share => /\ k.pc \in Ran \cup {"attested"}
                      /\ db.schema >= IdentityAt /\ Attestable(k.expects)
    /\ k.effect = "open" => k.pc \in Ran /\ (k.protected => c \in share)
    /\ k.pc \in Ran /\ k.call.writes => k.effect = "open"
    /\ k.call.guarded => k.call.attests \/ c = "bare"
    /\ k.effect # "none" => k.call.writes

TargetInv ==
    /\ share \subseteq Runners \cup Clients
    /\ cl \in [Clients -> ClientRow]
    /\ db.schema >= IdentityAt => db.env # "none"
    /\ \A c \in Clients : Session2(c)
    /\ CallsHonest

-----------------------------------------------------------------------------
(* The console *)

\* The gate of a command whose call writes.
Gated ==
    LET f == cli.flags IN
    /\ cli.target[2] # "unbound" /\ f.env = cli.target[2]
    /\ cli.destructive => f.yes
    /\ cli.target[2] = "production" => f.pin = cli.target[1] /\ f.allow /\ f.yes

GateInv == cl["cli"].call.writes => Gated

-----------------------------------------------------------------------------
(* The catalogue of the transport *)

\* The methods the commands catalogued as reads call.
Readers ==
    {"get_contract_meta", "get_scheduler_health", "get_target_identity",
     "get_queue_stats", "get_queue_health", "list_queue_audit", "get_queue_profile",
     "list_jobs", "get_job", "list_job_events", "list_worker_presence",
     "list_workflows", "get_workflow_page", "list_schedules", "get_schedule",
     "list_managed_schedules", "metrics"}

\* What a row guards it attests; a reader's row does not write.
RowOK(m, row) ==
    /\ row.writes \in BOOLEAN /\ row.attests \in BOOLEAN /\ row.outside \in BOOLEAN
    /\ row.fn \in GuardedFunctions => row.attests
    /\ m \in Readers => ~row.writes

TableOK(t) == \A m \in DOMAIN t : RowOK(m, t[m])

LEMMA RowsOK ==
    /\ \A m, fn : fn \notin GuardedFunctions => RowOK(m, Read(fn)) /\ RowOK(m, ReadIn(fn))
    /\ \A m, fn : m \notin Readers => RowOK(m, Protected(fn)) /\ RowOK(m, ProtectedIn(fn))
    /\ \A m, fn : m \notin Readers /\ fn \notin GuardedFunctions =>
         RowOK(m, Write(fn)) /\ RowOK(m, WriteIn(fn)) /\ RowOK(m, Scalar(fn))
BY DEF RowOK, Row, Read, ReadIn, Write, WriteIn, Protected, ProtectedIn, Scalar

LEMMA TablesOK == \A t \in MethodTables : TableOK(t)
<1>1. TableOK(ProducerMethods)
  BY RowsOK DEF ProducerMethods, TableOK, GuardedFunctions, Readers
<1>2. TableOK(AdmissionMethods)
  BY RowsOK DEF AdmissionMethods, TableOK, GuardedFunctions, Readers
<1>3. TableOK(ClaimMethods)
  BY RowsOK DEF ClaimMethods, TableOK, GuardedFunctions, Readers
<1>4. TableOK(SettleMethods)
  BY RowsOK DEF SettleMethods, TableOK, GuardedFunctions, Readers
<1>5. TableOK(ReturnMethods)
  BY RowsOK DEF ReturnMethods, TableOK, GuardedFunctions, Readers
<1>6. TableOK(PageMethods)
  BY RowsOK DEF PageMethods, TableOK, GuardedFunctions, Readers
<1>7. TableOK(StatMethods)
  BY RowsOK DEF StatMethods, TableOK, GuardedFunctions, Readers
<1>8. TableOK(OwnerMethods)
  BY RowsOK DEF OwnerMethods, TableOK, GuardedFunctions, Readers
<1>9. TableOK(TargetMethods)
  BY RowsOK DEF TargetMethods, TableOK, GuardedFunctions, Readers
<1>10. TableOK(QueueMethods)
  BY RowsOK DEF QueueMethods, TableOK, GuardedFunctions, Readers
<1>11. TableOK(CancelMethods)
  BY RowsOK DEF CancelMethods, TableOK, GuardedFunctions, Readers
<1>12. TableOK(ScheduleMethods)
  BY RowsOK DEF ScheduleMethods, TableOK, GuardedFunctions, Readers
<1>13. TableOK(ScheduleStateMethods)
  BY RowsOK DEF ScheduleStateMethods, TableOK, GuardedFunctions, Readers
<1>14. TableOK(FlowMethods)
  BY RowsOK DEF FlowMethods, TableOK, GuardedFunctions, Readers
<1>15. TableOK(TuningMethods)
  BY RowsOK DEF TuningMethods, TableOK, GuardedFunctions, Readers
<1>16. TableOK(HousekeepingMethods)
  BY RowsOK DEF HousekeepingMethods, TableOK, GuardedFunctions, Readers
<1> QED  BY <1>1, <1>2, <1>3, <1>4, <1>5, <1>6, <1>7, <1>8,
         <1>9, <1>10, <1>11, <1>12, <1>13, <1>14, <1>15, <1>16 DEF MethodTables

LEMMA EntryFound ==
    ASSUME NEW tables, NEW key, key \in UNION {DOMAIN t : t \in tables}
    PROVE  \E t \in tables : key \in DOMAIN t /\ Entry(tables, key) = t[key]
<1>1. \E t \in tables : key \in DOMAIN t
  OBVIOUS
<1> DEFINE t == CHOOSE t \in tables : key \in DOMAIN t
<1>2. t \in tables /\ key \in DOMAIN t
  BY <1>1
<1>3. Entry(tables, key) = t[key]
  BY DEF Entry
<1> HIDE DEF t
<1> QED  BY <1>2, <1>3

LEMMA CallOfRow ==
    ASSUME NEW m \in DOMAIN Methods
    PROVE  /\ CallOf(m) \in CallRow /\ (CallOf(m).guarded => CallOf(m).attests)
           /\ m \in Readers => ~CallOf(m).writes
<1>1. m \in UNION {DOMAIN t : t \in MethodTables} /\ Methods[m] = Entry(MethodTables, m)
  BY DEF Methods
<1>2. PICK t \in MethodTables : m \in DOMAIN t /\ Methods[m] = t[m]
  BY <1>1, EntryFound
<1>3. TableOK(t)
  BY TablesOK
<1> QED  BY <1>2, <1>3 DEF CallOf, CallRow, TableOK, RowOK

LEMMA CallsRow == \A call \in Calls : call \in CallRow /\ (call.guarded => call.attests)
BY CallOfRow DEF Calls

-----------------------------------------------------------------------------
(* The catalogue of the console *)

\* The commands catalogued as reads.
Plain ==
    {"version", "doctor", "capabilities", "target.show", "queue.list", "queue.health",
     "queue.audit", "queue.show", "job.list", "job.show", "job.events", "worker.list",
     "workflow.list", "workflow.show", "schedule.list", "schedule.show",
     "schedule.manifest.plan", "scheduler.doctor", "metrics"}

\* A command calls a method of the transport, a plain one a reader.
GroupOK(g) == \A c \in g : c[2] \in DOMAIN Methods /\ (c[1] \in Plain => c[2] \in Readers)

LEMMA TableMethods == \A t \in MethodTables : DOMAIN t \subseteq DOMAIN Methods
BY DEF Methods

LEMMA GroupsOK == GroupOK(Commands)
<1>1. GroupOK(RootCommands)
  <2>1. DOMAIN StatMethods \subseteq DOMAIN Methods /\ DOMAIN TargetMethods \subseteq DOMAIN Methods
    BY TableMethods DEF MethodTables
  <2> QED  BY <2>1 DEF GroupOK, RootCommands, Plain, Readers, StatMethods, TargetMethods
<1>2. GroupOK(QueueCommands)
  <2>1. DOMAIN StatMethods \subseteq DOMAIN Methods /\ DOMAIN QueueMethods \subseteq DOMAIN Methods
    BY TableMethods DEF MethodTables
  <2> QED  BY <2>1 DEF GroupOK, QueueCommands, Plain, Readers, StatMethods, QueueMethods
<1>3. GroupOK(QueueTuning)
  <2>1. DOMAIN QueueMethods \subseteq DOMAIN Methods /\ DOMAIN ScheduleStateMethods \subseteq DOMAIN Methods
        /\ DOMAIN FlowMethods \subseteq DOMAIN Methods
        /\ DOMAIN TuningMethods \subseteq DOMAIN Methods
    BY TableMethods DEF MethodTables
  <2> QED  BY <2>1 DEF GroupOK, QueueTuning, Plain, Readers, QueueMethods, ScheduleStateMethods, FlowMethods, TuningMethods
<1>4. GroupOK(JobReads)
  <2>1. DOMAIN PageMethods \subseteq DOMAIN Methods
    BY TableMethods DEF MethodTables
  <2> QED  BY <2>1 DEF GroupOK, JobReads, Plain, Readers, PageMethods
<1>5. GroupOK(JobWrites)
  <2>1. DOMAIN ProducerMethods \subseteq DOMAIN Methods /\ DOMAIN ClaimMethods \subseteq DOMAIN Methods
        /\ DOMAIN CancelMethods \subseteq DOMAIN Methods
        /\ DOMAIN ScheduleStateMethods \subseteq DOMAIN Methods
        /\ DOMAIN QueueMethods \subseteq DOMAIN Methods
        /\ DOMAIN TuningMethods \subseteq DOMAIN Methods
    BY TableMethods DEF MethodTables
  <2> QED  BY <2>1 DEF GroupOK, JobWrites, Plain, Readers, ProducerMethods, ClaimMethods, CancelMethods, ScheduleStateMethods, QueueMethods, TuningMethods
<1>6. GroupOK(WorkerCommands)
  <2>1. DOMAIN ClaimMethods \subseteq DOMAIN Methods /\ DOMAIN PageMethods \subseteq DOMAIN Methods
        /\ DOMAIN QueueMethods \subseteq DOMAIN Methods
        /\ DOMAIN TuningMethods \subseteq DOMAIN Methods
    BY TableMethods DEF MethodTables
  <2> QED  BY <2>1 DEF GroupOK, WorkerCommands, Plain, Readers, ClaimMethods, PageMethods, QueueMethods, TuningMethods
<1>7. GroupOK(WorkflowCommands)
  <2>1. DOMAIN PageMethods \subseteq DOMAIN Methods /\ DOMAIN StatMethods \subseteq DOMAIN Methods
        /\ DOMAIN ProducerMethods \subseteq DOMAIN Methods
        /\ DOMAIN CancelMethods \subseteq DOMAIN Methods
    BY TableMethods DEF MethodTables
  <2> QED  BY <2>1 DEF GroupOK, WorkflowCommands, Plain, Readers, PageMethods, StatMethods, ProducerMethods, CancelMethods
<1>8. GroupOK(ScheduleCommands)
  <2>1. DOMAIN ScheduleMethods \subseteq DOMAIN Methods /\ DOMAIN ScheduleStateMethods \subseteq DOMAIN Methods
        /\ DOMAIN FlowMethods \subseteq DOMAIN Methods
    BY TableMethods DEF MethodTables
  <2> QED  BY <2>1 DEF GroupOK, ScheduleCommands, Plain, Readers, ScheduleMethods, ScheduleStateMethods, FlowMethods
<1>9. GroupOK(ManifestCommands)
  <2>1. DOMAIN ScheduleMethods \subseteq DOMAIN Methods /\ DOMAIN ScheduleStateMethods \subseteq DOMAIN Methods
    BY TableMethods DEF MethodTables
  <2> QED  BY <2>1 DEF GroupOK, ManifestCommands, Plain, Readers, ScheduleMethods, ScheduleStateMethods
<1>10. GroupOK(ServiceCommands)
  <2>1. DOMAIN HousekeepingMethods \subseteq DOMAIN Methods /\ DOMAIN TargetMethods \subseteq DOMAIN Methods
        /\ DOMAIN OwnerMethods \subseteq DOMAIN Methods
    BY TableMethods DEF MethodTables
  <2> QED  BY <2>1 DEF GroupOK, ServiceCommands, Plain, Readers, HousekeepingMethods, TargetMethods, OwnerMethods
<1> QED  BY <1>1, <1>2, <1>3, <1>4, <1>5, <1>6, <1>7, <1>8, <1>9, <1>10 DEF Commands, GroupOK

\* The keys of a table are commands, and those that are not plain mutate.
SpecsOK(t) ==
    \A k \in DOMAIN t : /\ \E c \in Commands : c[1] = k
                        /\ k \notin Plain => t[k].mutates
                        /\ t[k].destructive \in BOOLEAN

LEMMA SpecsRow ==
    \A sql, both, mutates, destructive, capability :
       LET t == Specs(sql, both, mutates, destructive, capability)
       IN \A k \in DOMAIN t : t[k].destructive \in BOOLEAN
<1> TAKE sql, both, mutates, destructive, capability
<1>1. ASSUME NEW k \in sql \cup both
      PROVE  Specs(sql, both, mutates, destructive, capability)[k].destructive
               = (k \in destructive)
  BY <1>1 DEF Specs
<1>2. DOMAIN Specs(sql, both, mutates, destructive, capability) = sql \cup both
  BY DEF Specs
<1>3. \A k : (k \in destructive) \in BOOLEAN
  OBVIOUS
<1> QED  BY <1>1, <1>2, <1>3

LEMMA SpecTablesOK == \A t \in SpecTables : SpecsOK(t)
<1>1. SpecsOK(RootSpecs)
  <2>1. RootCommands \subseteq Commands
    BY DEF Commands
  <2>2. \A k \in DOMAIN RootSpecs : \E c \in RootCommands : c[1] = k
    BY DEF RootSpecs, Specs, RootCommands
  <2>3. \A k \in DOMAIN RootSpecs : k \notin Plain => RootSpecs[k].mutates
    BY DEF RootSpecs, Specs, Plain
  <2>4. \A k \in DOMAIN RootSpecs : RootSpecs[k].destructive \in BOOLEAN
    BY SpecsRow DEF RootSpecs
  <2> QED  BY <2>1, <2>2, <2>3, <2>4 DEF SpecsOK
<1>2. SpecsOK(QueueSpecs)
  <2>1. QueueCommands \subseteq Commands /\ QueueTuning \subseteq Commands
    BY DEF Commands
  <2>2. \A k \in DOMAIN QueueSpecs : \E c \in QueueCommands \cup QueueTuning : c[1] = k
    BY DEF QueueSpecs, Specs, QueueCommands, QueueTuning
  <2>3. \A k \in DOMAIN QueueSpecs : k \notin Plain => QueueSpecs[k].mutates
    BY DEF QueueSpecs, Specs, Plain
  <2>4. \A k \in DOMAIN QueueSpecs : QueueSpecs[k].destructive \in BOOLEAN
    BY SpecsRow DEF QueueSpecs
  <2> QED  BY <2>1, <2>2, <2>3, <2>4 DEF SpecsOK
<1>3. SpecsOK(JobSpecs)
  <2>1. JobReads \subseteq Commands /\ JobWrites \subseteq Commands
    BY DEF Commands
  <2>2. \A k \in DOMAIN JobSpecs : \E c \in JobReads \cup JobWrites : c[1] = k
    BY DEF JobSpecs, Specs, JobReads, JobWrites
  <2>3. \A k \in DOMAIN JobSpecs : k \notin Plain => JobSpecs[k].mutates
    BY DEF JobSpecs, Specs, Plain
  <2>4. \A k \in DOMAIN JobSpecs : JobSpecs[k].destructive \in BOOLEAN
    BY SpecsRow DEF JobSpecs
  <2> QED  BY <2>1, <2>2, <2>3, <2>4 DEF SpecsOK
<1>4. SpecsOK(WorkerSpecs)
  <2>1. WorkerCommands \subseteq Commands
    BY DEF Commands
  <2>2. \A k \in DOMAIN WorkerSpecs : \E c \in WorkerCommands : c[1] = k
    BY DEF WorkerSpecs, Specs, WorkerCommands
  <2>3. \A k \in DOMAIN WorkerSpecs : k \notin Plain => WorkerSpecs[k].mutates
    BY DEF WorkerSpecs, Specs, Plain
  <2>4. \A k \in DOMAIN WorkerSpecs : WorkerSpecs[k].destructive \in BOOLEAN
    BY SpecsRow DEF WorkerSpecs
  <2> QED  BY <2>1, <2>2, <2>3, <2>4 DEF SpecsOK
<1>5. SpecsOK(WorkflowSpecs)
  <2>1. WorkflowCommands \subseteq Commands
    BY DEF Commands
  <2>2. \A k \in DOMAIN WorkflowSpecs : \E c \in WorkflowCommands : c[1] = k
    BY DEF WorkflowSpecs, Specs, WorkflowCommands
  <2>3. \A k \in DOMAIN WorkflowSpecs : k \notin Plain => WorkflowSpecs[k].mutates
    BY DEF WorkflowSpecs, Specs, Plain
  <2>4. \A k \in DOMAIN WorkflowSpecs : WorkflowSpecs[k].destructive \in BOOLEAN
    BY SpecsRow DEF WorkflowSpecs
  <2> QED  BY <2>1, <2>2, <2>3, <2>4 DEF SpecsOK
<1>6. SpecsOK(ScheduleSpecs)
  <2>1. ScheduleCommands \subseteq Commands /\ ManifestCommands \subseteq Commands
    BY DEF Commands
  <2>2. \A k \in DOMAIN ScheduleSpecs : \E c \in ScheduleCommands \cup ManifestCommands : c[1] = k
    BY DEF ScheduleSpecs, Specs, ScheduleCommands, ManifestCommands
  <2>3. \A k \in DOMAIN ScheduleSpecs : k \notin Plain => ScheduleSpecs[k].mutates
    BY DEF ScheduleSpecs, Specs, Plain
  <2>4. \A k \in DOMAIN ScheduleSpecs : ScheduleSpecs[k].destructive \in BOOLEAN
    BY SpecsRow DEF ScheduleSpecs
  <2> QED  BY <2>1, <2>2, <2>3, <2>4 DEF SpecsOK
<1>7. SpecsOK(ServiceSpecs)
  <2>1. ServiceCommands \subseteq Commands
    BY DEF Commands
  <2>2. \A k \in DOMAIN ServiceSpecs : \E c \in ServiceCommands : c[1] = k
    BY DEF ServiceSpecs, Specs, ServiceCommands
  <2>3. \A k \in DOMAIN ServiceSpecs : k \notin Plain => ServiceSpecs[k].mutates
    BY DEF ServiceSpecs, Specs, Plain
  <2>4. \A k \in DOMAIN ServiceSpecs : ServiceSpecs[k].destructive \in BOOLEAN
    BY SpecsRow DEF ServiceSpecs
  <2> QED  BY <2>1, <2>2, <2>3, <2>4 DEF SpecsOK
<1> QED  BY <1>1, <1>2, <1>3, <1>4, <1>5, <1>6, <1>7 DEF SpecTables

LEMMA CommandCall ==
    ASSUME NEW k \in DOMAIN COMMAND_SPECS
    PROVE  /\ MethodOf(k) \in DOMAIN Methods
           /\ CallOf(MethodOf(k)).writes => COMMAND_SPECS[k].mutates
           /\ COMMAND_SPECS[k].destructive \in BOOLEAN
<1>1. PICK t \in SpecTables : k \in DOMAIN t /\ COMMAND_SPECS[k] = t[k]
  <2>1. k \in UNION {DOMAIN t : t \in SpecTables} /\ COMMAND_SPECS[k] = Entry(SpecTables, k)
    BY DEF COMMAND_SPECS
  <2> QED  BY <2>1, EntryFound
<1>2. /\ \E c \in Commands : c[1] = k
      /\ k \notin Plain => COMMAND_SPECS[k].mutates
      /\ COMMAND_SPECS[k].destructive \in BOOLEAN
  BY <1>1, SpecTablesOK DEF SpecsOK
<1> DEFINE d == CHOOSE c \in Commands : c[1] = k
<1>3. d \in Commands /\ d[1] = k /\ MethodOf(k) = d[2]
  BY <1>2 DEF MethodOf
<1> HIDE DEF d
<1>4. MethodOf(k) \in DOMAIN Methods /\ (k \in Plain => MethodOf(k) \in Readers)
  BY <1>3, GroupsOK DEF GroupOK
<1>5. k \in Plain => ~CallOf(MethodOf(k)).writes
  BY <1>4, CallOfRow
<1> QED  BY <1>2, <1>4, <1>5

-----------------------------------------------------------------------------
(* The callers' steps *)

\* The schema and the identity after a step.
DbGoes ==
    /\ db' \in DbRow
    /\ db.schema <= db'.schema
    /\ db.schema >= IdentityAt /\ share # {} => Identity' = Identity
    /\ (db.schema >= IdentityAt => db.env # "none")
         => (db'.schema >= IdentityAt => db'.env # "none")
    /\ db.drift # {} => db'.drift = db.drift

LEMMA SameDbGoes ==
    ASSUME db \in DbRow, db' = db
    PROVE  DbGoes
<1>1. db.schema \in Nat
  BY InstallAssumption DEF DbRow
<1> QED  BY <1>1 DEF DbGoes, Identity

LEMMA CommittedGoes ==
    ASSUME db \in DbRow, NEW w \in WorkRow, db' = Committed(w), db.schema <= w.schema
    PROVE  DbGoes
<1>1. w.schema \in Nat /\ db.schema \in Nat /\ IdentityAt \in Nat
  BY InstallAssumption DEF WorkRow, DbRow
<1>2. /\ db' \in DbRow /\ db'.schema = w.schema /\ db'.drift = db.drift /\ db'.ver = db.ver
      /\ db'.env = IF db.schema < IdentityAt /\ w.schema >= IdentityAt
                   THEN "unbound" ELSE db.env
      /\ db'.inst = IF db.schema < IdentityAt /\ w.schema >= IdentityAt
                    THEN 1 ELSE db.inst
  BY CommittedRow
<1>3. db.schema >= IdentityAt => Identity' = Identity
  BY <1>1, <1>2 DEF Identity
<1>4. (db.schema >= IdentityAt => db.env # "none")
         => (db'.schema >= IdentityAt => db'.env # "none")
  BY <1>1, <1>2
<1> QED  BY <1>2, <1>3, <1>4 DEF DbGoes

LEMMA RunsGo ==
    ASSUME RunInv, NEW r \in Runners, Runs(r)
    PROVE  DbGoes /\ share' \subseteq share \cup {r} /\ share \subseteq share' \cup {r}
           /\ UNCHANGED <<cast, cl, vf>>
<1>1. /\ db \in DbRow /\ run[r].work \in WorkRow
      /\ run[r].pc \in {"commit", "applied"} /\ run[r].work.open
           => db.schema <= run[r].work.schema
  BY DEF RunInv, RunTypes, RunRow, Session, Busy, Held
<1>2. ASSUME Begin(r) \/ ReadLedger(r) \/ ReadTarget(r) \/ Lock(r) \/ Check(r) \/ Record(r)
             \/ Script(r) \/ Retry(r)
      PROVE  db' = db
  BY <1>2 DEF Begin, ReadLedger, ReadTarget, Lock, Check, Record, Script, Retry
<1>3. ASSUME Commit(r) PROVE db' = Committed(run[r].work) /\ db.schema <= run[r].work.schema
  <2>1. run[r].pc = "commit" /\ Session(r)
    BY <1>3 DEF Commit, RunInv
  <2> QED  BY <1>1, <1>3, <2>1 DEF Commit, Session
<1>4. ASSUME Finish(r)
      PROVE  db' = db \/ (db' = Committed(run[r].work) /\ db.schema <= run[r].work.schema)
  BY <1>1, <1>4 DEF Finish
<1>5. DbGoes
  BY <1>1, <1>2, <1>3, <1>4, SameDbGoes, CommittedGoes DEF Runs
<1>6. ASSUME Begin(r) \/ ReadLedger(r) \/ ReadTarget(r) \/ Lock(r) \/ Check(r) \/ Record(r)
      PROVE  share' = share
  BY <1>6 DEF Begin, ReadLedger, ReadTarget, Lock, Check, Record
<1>7. ASSUME Script(r) PROVE share' \in {share, share \cup {r}}
  BY <1>7 DEF Script
<1>8. ASSUME Commit(r) \/ Finish(r) \/ Retry(r) PROVE share' = share \ {r}
  BY <1>8 DEF Commit, Finish, Retry
<1>9. share' \in {share, share \cup {r}, share \ {r}}
  BY <1>6, <1>7, <1>8 DEF Runs
<1>10. ASSUME Begin(r) \/ ReadLedger(r) \/ ReadTarget(r) \/ Lock(r) \/ Check(r) \/ Record(r)
       PROVE  UNCHANGED <<cast, cl, vf>>
  BY <1>10 DEF Begin, ReadLedger, ReadTarget, Lock, Check, Record
<1>11. ASSUME Script(r) \/ Commit(r) \/ Finish(r) \/ Retry(r)
       PROVE  UNCHANGED <<cast, cl, vf>>
  BY <1>11 DEF Script, Commit, Finish, Retry
<1> QED  BY <1>5, <1>9, <1>10, <1>11 DEF Runs

LEMMA OthersGo ==
    /\ \A o \in Operators, env \in {"staging", "production"}, rotate \in BOOLEAN :
         db \in DbRow /\ Bind(o, env, rotate)
           => DbGoes /\ share = {} /\ UNCHANGED <<cast, share, cl, vf>>
    /\ \A a \in Drifts :
         db \in DbRow /\ Drift(a) => DbGoes /\ UNCHANGED <<cast, share, cl, vf>>
    /\ db \in DbRow /\ RolesRepaired => DbGoes /\ UNCHANGED <<cast, share, cl, vf>>
<1>1. db \in DbRow => db.schema \in Nat
  BY InstallAssumption DEF DbRow
<1>2. ASSUME NEW o \in Operators, NEW env \in {"staging", "production"}, NEW rotate \in BOOLEAN,
             db \in DbRow, Bind(o, env, rotate)
      PROVE  DbGoes /\ share = {} /\ UNCHANGED <<cast, share, cl, vf>>
  <2>1. share = {} /\ UNCHANGED <<cast, share, cl, vf>>
    BY <1>2 DEF Bind
  <2> QED  BY <1>1, <1>2, <2>1, BindDb DEF DbGoes
<1>3. ASSUME NEW a \in Drifts, db \in DbRow, Drift(a)
      PROVE  DbGoes /\ UNCHANGED <<cast, share, cl, vf>>
  <2>1. UNCHANGED <<cast, share, cl, vf>>
    BY <1>3 DEF Drift
  <2> QED  BY <1>1, <1>3, <2>1, DriftDb DEF DbGoes, Identity
<1>4. ASSUME db \in DbRow, RolesRepaired
      PROVE  DbGoes /\ UNCHANGED <<cast, share, cl, vf>>
  <2>1. UNCHANGED <<cast, share, cl, vf>>
    BY <1>4 DEF RolesRepaired
  <2> QED  BY <1>1, <1>4, <2>1, RolesDb DEF DbGoes, Identity
<1> QED  BY <1>2, <1>3, <1>4

\* The callers wait while the database moves.
LEMMA CallersWait ==
    ASSUME TargetInv, db \in DbRow, DbGoes, cl' = cl, share' \subseteq Runners \cup Clients,
           share' \cap Clients = share \cap Clients
    PROVE  TargetInv'
<1>1. db.schema \in Nat /\ db'.schema \in Nat /\ db.schema <= db'.schema /\ IdentityAt \in Nat
  BY InstallAssumption DEF DbGoes, DbRow
<1>2. ASSUME NEW c \in Clients PROVE Session2(c)'
  <2>1. Session2(c) /\ (c \in share' <=> c \in share)
    BY <1>2 DEF TargetInv
  <2>2. CASE c \in share
    <3>1. db.schema >= IdentityAt
      BY <2>1, <2>2 DEF Session2
    <3>2. Identity' = Identity /\ db'.schema >= IdentityAt
      BY <1>1, <2>2, <3>1 DEF DbGoes
    <3>3. db'.env = db.env /\ db'.inst = db.inst
      BY <3>2 DEF Identity
    <3>4. Attestable(cl[c].expects)' = Attestable(cl[c].expects)
      BY <3>3 DEF Attestable
    <3> QED  BY <2>1, <3>2, <3>4 DEF Session2
  <2>3. CASE c \notin share
    BY <2>1, <2>3 DEF Session2
  <2> QED  BY <2>2, <2>3
<1>3. db'.schema >= IdentityAt => db'.env # "none"
  BY DEF TargetInv, DbGoes
<1> QED  BY <1>2, <1>3 DEF TargetInv, CallsHonest

\* CallsHonest of one client's row.
Honest(c, k) ==
    /\ k.told \in {"error", "refused", "cancelled", "unattested"}
         => k.effect = "none" \/ k.call.outside
    /\ k.told = "result" /\ k.own /\ k.call.writes => k.effect = "committed"
    /\ k.told = "unattested" => c = "bare"

\* One caller moves on as k.
LEMMA CallerMoves ==
    ASSUME TargetInv, db' = db, NEW c \in Clients, NEW k \in ClientRow,
           cl' = [cl EXCEPT ![c] = k], share' \subseteq share \cup {c},
           share \subseteq share' \cup {c}, Honest(c, k), Session2(c)'
    PROVE  TargetInv'
<1>1. /\ cl' \in [Clients -> ClientRow] /\ cl'[c] = k
      /\ \A e \in Clients \ {c} : cl'[e] = cl[e] /\ (e \in share' <=> e \in share)
  BY DEF TargetInv
<1>2. ASSUME NEW e \in Clients \ {c} PROVE Session2(e)'
  BY <1>1, <1>2 DEF TargetInv, Session2, Identity, Attestable
<1>3. CallsHonest'
  BY <1>1 DEF TargetInv, CallsHonest, Honest
<1> QED  BY <1>1, <1>2, <1>3 DEF TargetInv

Tolds == {"none", "refused", "unattested", "cancelled", "error", "result", "lost", "ended"}

LEMMA NoIdentityTarget == NoIdentity \in Target
BY DEF NoIdentity, Target, Envs

LEMMA OverInv ==
    ASSUME TargetInv, db' = db, NEW c \in Clients, NEW told \in Tolds,
           NEW effect \in {"none", "committed"}, Over(c, told, effect),
           effect # "none" => cl[c].call.writes,
           told \in {"error", "refused", "cancelled", "unattested"}
             => effect = "none" \/ cl[c].call.outside,
           told = "result" /\ cl[c].own /\ cl[c].call.writes => effect = "committed",
           told = "unattested" => c = "bare"
    PROVE  TargetInv'
<1> DEFINE k == [cl[c] EXCEPT !.pc = "idle", !.told = told, !.effect = effect,
                              !.mac = NoIdentity, !.protected = FALSE]
<1>1. cl \in [Clients -> ClientRow] /\ cl[c] \in ClientRow /\ Session2(c)
  BY DEF TargetInv
<1>2. cl' = [cl EXCEPT ![c] = k] /\ share' = share \ {c}
  BY DEF Over
<1>3. /\ k \in ClientRow /\ k.pc = "idle" /\ k.told = told /\ k.effect = effect
      /\ k.mac = NoIdentity /\ k.call = cl[c].call /\ k.own = cl[c].own
  BY <1>1, NoIdentityTarget DEF ClientRow, Tolds
<1> HIDE DEF k
<1>4. cl'[c] = k
  BY <1>1, <1>2
<1>5. Session2(c)'
  BY <1>1, <1>2, <1>3, <1>4 DEF Session2, Ran
<1>6. Honest(c, k)
  BY <1>3 DEF Honest
<1> QED  BY <1>2, <1>3, <1>5, <1>6, CallerMoves

LEMMA CallInv ==
    ASSUME TargetInv, NEW c \in Clients, NEW call \in Calls, NEW own \in BOOLEAN,
           Call(c, call, own)
    PROVE  TargetInv'
<1> DEFINE a == call.attests /\ c # "bare"
           n == [call EXCEPT !.attests = a]
           k == [cl[c] EXCEPT !.pc = "begun", !.own = own, !.told = "none",
                              !.effect = "none", !.call = n]
<1>1. cl \in [Clients -> ClientRow] /\ cl[c] \in ClientRow /\ Session2(c) /\ cl[c].pc = "idle"
  BY DEF TargetInv, Call
<1>2. cl' = [cl EXCEPT ![c] = k] /\ share' = share /\ db' = db
  BY DEF Call
<1>3. call \in CallRow /\ (call.guarded => call.attests) /\ a \in BOOLEAN
  BY CallsRow
<1>4. n \in CallRow /\ (n.guarded => n.attests \/ c = "bare")
  BY <1>3 DEF CallRow
<1> HIDE DEF n
<1>5. /\ k \in ClientRow /\ k.pc = "begun" /\ k.told = "none" /\ k.effect = "none"
      /\ k.mac = cl[c].mac /\ k.call = n
  BY <1>1, <1>4 DEF ClientRow
<1> HIDE DEF k
<1>6. cl'[c] = k /\ c \notin share /\ cl[c].mac = NoIdentity
  BY <1>1, <1>2 DEF Session2, Ran
<1>7. Session2(c)'
  BY <1>2, <1>4, <1>5, <1>6 DEF Session2, Ran
<1>8. Honest(c, k)
  BY <1>5 DEF Honest
<1> QED  BY <1>2, <1>5, <1>7, <1>8, CallerMoves

LEMMA AttestInv ==
    ASSUME TargetInv, db \in DbRow, NEW c \in Clients, Attest(c)
    PROVE  TargetInv'
<1>1. cl \in [Clients -> ClientRow] /\ cl[c] \in ClientRow /\ Session2(c) /\ cl[c].pc = "begun"
      /\ db' = db
  BY DEF TargetInv, Attest
<1>2. CASE db.schema >= IdentityAt /\ Attestable(cl[c].expects)
  <2>0. PICK k : k = [cl[c] EXCEPT !.pc = "attested", !.mac = Identity]
    OBVIOUS
  <2>1. cl' = [cl EXCEPT ![c] = k] /\ share' = share \cup {c}
    BY <1>2, <2>0 DEF Attest
  <2>2. Identity \in Target /\ Identity' = Identity
    BY <1>1 DEF DbRow, Identity, Target
  <2>3. /\ k \in ClientRow /\ k.pc = "attested" /\ k.mac = Identity /\ k.effect = cl[c].effect
        /\ k.call = cl[c].call /\ k.told = cl[c].told /\ k.own = cl[c].own
        /\ k.expects = cl[c].expects
    BY <1>1, <2>0, <2>2 DEF ClientRow
  <2>4. cl'[c] = k /\ cl[c].effect # "open"
    BY <1>1, <2>1 DEF Session2, Ran
  <2>5. Attestable(k.expects)'
    BY <1>1, <1>2, <2>3 DEF Attestable
  <2>6. Session2(c)'
    BY <1>1, <1>2, <2>1, <2>2, <2>3, <2>4, <2>5 DEF Session2, Ran
  <2>7. Honest(c, k)
    BY <1>1, <2>3, <2>4 DEF Honest, Session2
  <2> QED  BY <1>1, <2>1, <2>3, <2>6, <2>7, CallerMoves
<1>3. CASE ~(db.schema >= IdentityAt /\ Attestable(cl[c].expects))
  <2>1. Over(c, "refused", "none")
    BY <1>3 DEF Attest
  <2> QED  BY <1>1, <2>1, OverInv DEF Tolds
<1> QED  BY <1>2, <1>3

LEMMA OperateInv ==
    ASSUME TargetInv, db \in DbRow, NEW c \in Clients, Operate(c)
    PROVE  TargetInv'
<1>1. cl \in [Clients -> ClientRow] /\ cl[c] \in ClientRow /\ Session2(c) /\ db' = db
  BY DEF TargetInv, Operate
<1>2. /\ cl[c].call.attests => cl[c].pc = "attested"
      /\ ~cl[c].call.attests => cl[c].pc = "begun"
  BY DEF Operate
<1>3. db.schema >= GuardAt => db.schema >= IdentityAt /\ Identity # NoIdentity
  <2>1. db.schema \in Nat /\ GuardAt \in Nat /\ IdentityAt \in Nat /\ IdentityAt < GuardAt
    BY InstallAssumption DEF DbRow
  <2>2. db.schema >= GuardAt => db.schema >= IdentityAt
    BY <2>1
  <2> QED  BY <2>2 DEF TargetInv, Identity, NoIdentity
<1>4. CASE cl[c].call.guarded /\ db.schema >= GuardAt /\ cl[c].mac # Identity
  <2>1. Over(c, "unattested", "none")
    BY <1>4 DEF Operate
  <2>2. c = "bare"
    BY <1>1, <1>2, <1>4 DEF Session2
  <2> QED  BY <1>1, <2>1, <2>2, OverInv DEF Tolds
<1>5. CASE ~(cl[c].call.guarded /\ db.schema >= GuardAt /\ cl[c].mac # Identity)
  <2> DEFINE p == cl[c].call.guarded /\ db.schema >= GuardAt
             e == IF cl[c].call.writes THEN "open" ELSE "none"
  <2>0. PICK k : k = [cl[c] EXCEPT !.pc = "executed", !.protected = p, !.effect = e]
    OBVIOUS
  <2>1. cl' = [cl EXCEPT ![c] = k] /\ share' = share
    BY <1>5, <2>0 DEF Operate
  <2>2. cl[c].call \in CallRow
    BY <1>1 DEF ClientRow
  <2>3. /\ p \in BOOLEAN /\ e \in {"none", "open"} /\ (e = "open" <=> cl[c].call.writes)
    BY <2>2 DEF CallRow
  <2>4. p => c \in share
    BY <1>1, <1>2, <1>3, <1>5 DEF Session2
  <2> HIDE DEF p, e
  <2>5. /\ k \in ClientRow /\ k.pc = "executed" /\ k.protected = p /\ k.effect = e
        /\ k.call = cl[c].call /\ k.told = cl[c].told /\ k.own = cl[c].own
        /\ k.expects = cl[c].expects
    BY <1>1, <2>0, <2>3 DEF ClientRow
  <2>6. cl'[c] = k
    BY <1>1, <2>1
  <2>7. Attestable(k.expects)' = Attestable(cl[c].expects)
    BY <1>1, <2>5 DEF Attestable
  <2>8. cl[c].told = "none"
    <3>1. cl[c].call.attests \in BOOLEAN
      BY <1>1 DEF ClientRow, CallRow
    <3> QED  BY <1>1, <1>2, <3>1 DEF Session2
  <2>9. Session2(c)'
    BY <1>1, <2>1, <2>3, <2>4, <2>5, <2>6, <2>7, <2>8 DEF Session2, Ran
  <2>10. Honest(c, k)
    BY <2>5, <2>8 DEF Honest
  <2> QED  BY <1>1, <2>1, <2>5, <2>9, <2>10, CallerMoves
<1> QED  BY <1>4, <1>5

LEMMA ReplyInv ==
    ASSUME TargetInv, NEW c \in Clients, NEW good \in BOOLEAN, Reply(c, good)
    PROVE  TargetInv'
<1>1. /\ cl \in [Clients -> ClientRow] /\ cl[c] \in ClientRow /\ Session2(c) /\ db' = db
      /\ cl[c].pc = "executed"
  BY DEF TargetInv, Reply
<1>2. CASE ~good /\ ~cl[c].call.outside
  <2>1. Over(c, "error", "none")
    BY <1>2 DEF Reply
  <2> QED  BY <1>1, <2>1, OverInv DEF Tolds
<1>3. CASE good \/ cl[c].call.outside
  <2> DEFINE s == IF cl[c].own THEN "closing" ELSE "answered"
             t == IF cl[c].own THEN "none" ELSE "result"
  <2>0. PICK k : k = [cl[c] EXCEPT !.pc = s, !.told = t]
    OBVIOUS
  <2>1. cl' = [cl EXCEPT ![c] = k] /\ share' = share
    BY <1>3, <2>0 DEF Reply
  <2>2. /\ s \in {"closing", "answered"} /\ t \in Tolds /\ (s = "closing" => t = "none")
        /\ t # "none" => t = "result" /\ ~cl[c].own
    BY DEF Tolds
  <2> HIDE DEF s, t
  <2>3. /\ k \in ClientRow /\ k.pc = s /\ k.told = t /\ k.own = cl[c].own
        /\ k.call = cl[c].call /\ k.mac = cl[c].mac /\ k.effect = cl[c].effect
        /\ k.protected = cl[c].protected /\ k.expects = cl[c].expects
    BY <1>1, <2>0, <2>2 DEF ClientRow, Tolds
  <2>4. cl'[c] = k
    BY <1>1, <2>1
  <2>5. Attestable(k.expects)' = Attestable(cl[c].expects)
    BY <1>1, <2>3 DEF Attestable
  <2>6. Session2(c)'
    BY <1>1, <2>1, <2>2, <2>3, <2>4, <2>5 DEF Session2, Ran
  <2>7. Honest(c, k)
    BY <2>2, <2>3 DEF Honest
  <2> QED  BY <1>1, <2>1, <2>3, <2>6, <2>7, CallerMoves
<1> QED  BY <1>2, <1>3

LEMMA CommitCallInv ==
    ASSUME TargetInv, NEW c \in Clients, NEW told \in {"result", "error", "lost"},
           NEW effect \in {"none", "committed"}, CommitCall(c, told, effect)
    PROVE  TargetInv'
<1>1. Session2(c) /\ db' = db /\ cl[c].pc = "closing" /\ Over(c, told, effect)
  BY DEF TargetInv, CommitCall
<1>2. effect # "none" => cl[c].call.writes
  BY <1>1 DEF CommitCall, Kept, Session2
<1>3. told = "result" /\ cl[c].call.writes => effect = "committed"
  BY <1>1 DEF CommitCall, Kept, Session2, Ran
<1>4. told = "error" => cl[c].call.outside
  BY DEF CommitCall
<1> QED  BY <1>1, <1>2, <1>3, <1>4, OverInv DEF Tolds

LEMMA HostEndsInv ==
    ASSUME TargetInv, NEW c \in Clients, NEW effect \in {"none", "committed"},
           HostEnds(c, effect)
    PROVE  TargetInv'
<1>1. Session2(c) /\ db' = db /\ Over(c, "ended", effect)
  BY DEF TargetInv, HostEnds
<1>2. effect # "none" => cl[c].call.writes
  BY <1>1 DEF HostEnds, Kept, Session2
<1> QED  BY <1>1, <1>2, OverInv DEF Tolds

LEMMA CancelInv ==
    ASSUME TargetInv, NEW c \in Clients, Cancel(c)
    PROVE  TargetInv'
<1>1. db' = db /\ Over(c, "cancelled", "none")
  BY DEF Cancel
<1> QED  BY <1>1, OverInv DEF Tolds

\* The console: a command that goes by HTTP has no session of its own.
CliRow ==
    [mode : {"none", "sql", "http"}, flags : Flags, target : Target,
     destructive : BOOLEAN, http : {"none", "capability", "crash", "route"}]

HttpInv ==
    /\ cli \in CliRow
    /\ cast.clients \subseteq Clients \ {"cli"}
    /\ cli.http # "none" => cl["cli"].pc = "idle" /\ cl["cli"].told = "none"

LEMMA CommandInv ==
    ASSUME TargetInv, db \in DbRow, NEW k \in DOMAIN COMMAND_SPECS, NEW mode \in {"sql", "http"},
           NEW f \in Flags, cl["cli"].pc = "idle", Command(k, mode, f)
    PROVE  TargetInv' /\ cli' \in CliRow
           /\ (cli'.http # "none" => cl'["cli"].pc = "idle" /\ cl'["cli"].told = "none")
<1> DEFINE s == IF mode = "sql" THEN "begun" ELSE "idle"
           e == [env |-> f.env, pin |-> f.pin, production |-> f.env = "production"]
           m == CallOf(MethodOf(k))
<1>0. PICK z : z = [pc |-> s, own |-> TRUE, mac |-> NoIdentity, protected |-> FALSE, call |-> m,
                    expects |-> e, effect |-> "none", told |-> "none"]
  OBVIOUS
<1>1. "cli" \in Clients /\ cl \in [Clients -> ClientRow] /\ Session2("cli")
  BY DEF Clients, TargetInv
<1>2. cl' = [cl EXCEPT !["cli"] = z] /\ share' = share /\ db' = db
  BY <1>0 DEF Command
<1>3. /\ s \in {"begun", "idle"} /\ e \in ExpectRow /\ m \in CallRow
      /\ m.guarded => m.attests
  <2>1. m \in CallRow /\ (m.guarded => m.attests)
    BY CommandCall, CallOfRow
  <2>2. e \in ExpectRow
    BY DEF Flags, ExpectRow
  <2> QED  BY <2>1, <2>2
<1>4. s = "begun" => mode = "sql"
  OBVIOUS
<1> HIDE DEF s, e, m
<1>5. /\ z \in ClientRow /\ z.pc = s /\ z.told = "none" /\ z.effect = "none"
      /\ z.mac = NoIdentity /\ z.call = m
  BY <1>0, <1>3, NoIdentityTarget DEF ClientRow
<1>6. cl'["cli"] = z /\ "cli" \notin share
  BY <1>1, <1>2 DEF Session2, Ran
<1>7. Session2("cli")'
  BY <1>2, <1>3, <1>5, <1>6 DEF Session2, Ran
<1>8. Honest("cli", z)
  BY <1>5 DEF Honest
<1>9. TargetInv'
  BY <1>1, <1>2, <1>5, <1>7, <1>8, CallerMoves
<1>10. cli'.http # "none" => mode # "sql"
  BY DEF Command
<1>11. mode # "sql" => s # "begun"
  BY <1>4
<1>12. cli' \in CliRow
  <2> DEFINE h == IF mode = "http" THEN OverHttp(MethodOf(k)) ELSE "none"
             d == COMMAND_SPECS[k].destructive
  <2>1. cli' = [mode |-> mode, flags |-> f, target |-> Identity, destructive |-> d,
                http |-> h]
    BY DEF Command
  <2>2. h \in {"none", "capability", "crash", "route"}
    BY DEF OverHttp, JobControl
  <2>3. Identity \in Target /\ d \in BOOLEAN
    BY CommandCall DEF DbRow, Identity, Target
  <2> HIDE DEF h, d
  <2> QED  BY <2>1, <2>2, <2>3 DEF CliRow
<1> QED  BY <1>3, <1>5, <1>6, <1>9, <1>10, <1>11, <1>12

LEMMA RequestInv ==
    ASSUME TargetInv, HttpInv, Request
    PROVE  TargetInv' /\ cli' \in CliRow /\ cli'.http = "none"
<1> DEFINE e == IF cli.http = "route" /\ cl["cli"].call.writes THEN "committed" ELSE "none"
<1>0. PICK z : z = [cl["cli"] EXCEPT !.effect = e]
  OBVIOUS
<1>1. /\ "cli" \in Clients /\ cl \in [Clients -> ClientRow] /\ Session2("cli")
      /\ cl["cli"] \in ClientRow /\ cl["cli"].pc = "idle" /\ cl["cli"].told = "none"
  BY DEF Clients, TargetInv, HttpInv, Request
<1>2. cl' = [cl EXCEPT !["cli"] = z] /\ share' = share /\ db' = db
  BY <1>0 DEF Request
<1>3. e \in {"none", "committed"} /\ (e # "none" => cl["cli"].call.writes)
  OBVIOUS
<1>4. cli'.http = "none" /\ cli' \in CliRow
  BY DEF Request, HttpInv, CliRow
<1> HIDE DEF e
<1>5. /\ z \in ClientRow /\ z.pc = "idle" /\ z.told = "none" /\ z.effect = e
      /\ z.mac = cl["cli"].mac /\ z.call = cl["cli"].call
  BY <1>0, <1>1, <1>3 DEF ClientRow
<1>6. cl'["cli"] = z /\ "cli" \notin share
  BY <1>1, <1>2 DEF Session2, Ran
<1>7. Session2("cli")'
  BY <1>1, <1>2, <1>3, <1>5, <1>6 DEF Session2, Ran
<1>8. Honest("cli", z)
  BY <1>5 DEF Honest
<1> QED  BY <1>1, <1>2, <1>4, <1>5, <1>7, <1>8, CallerMoves

\* Nobody but a command moves the console's session while it is idle, or gives
\* it another call.
LEMMA CliStays ==
    ASSUME cl \in [Clients -> ClientRow], HttpInv, Elsewhere
    PROVE  /\ cl'["cli"].call = cl["cli"].call
           /\ cl["cli"].pc = "idle" => cl'["cli"] = cl["cli"]
<1> USE DEF Clients
<1>1. "cli" \in Clients /\ cl["cli"] \in ClientRow
  OBVIOUS
<1>2. ASSUME NEW o \in Operators, Show(o) PROVE cl' = cl
  BY <1>2 DEF Show
<1>3. ASSUME NEW c \in cast.clients, NEW call, NEW own, Call(c, call, own)
      PROVE  cl'["cli"] = cl["cli"]
  BY <1>3 DEF Call, HttpInv
<1>4. ASSUME NEW c \in Clients, NEW told, NEW effect, Over(c, told, effect)
      PROVE  cl'["cli"].call = cl["cli"].call /\ (c # "cli" => cl'["cli"] = cl["cli"])
  BY <1>1, <1>4 DEF Over, ClientRow
<1>5. ASSUME NEW c \in Clients, Attest(c) \/ Operate(c) \/ Cancel(c)
      PROVE  /\ cl'["cli"].call = cl["cli"].call /\ (c # "cli" => cl'["cli"] = cl["cli"])
             /\ cl[c].pc # "idle"
  <2>1. CASE Attest(c)
    <3>1. \/ Over(c, "refused", "none")
          \/ cl' = [cl EXCEPT ![c].pc = "attested", ![c].mac = Identity]
      BY <2>1 DEF Attest
    <3>2. cl[c].pc # "idle"
      BY <2>1 DEF Attest
    <3> QED  BY <1>1, <1>4, <3>1, <3>2 DEF ClientRow
  <2>2. CASE Operate(c)
    <3> DEFINE p == cl[c].call.guarded /\ db.schema >= GuardAt
               e == IF cl[c].call.writes THEN "open" ELSE "none"
    <3>1. \/ Over(c, "unattested", "none")
          \/ cl' = [cl EXCEPT ![c].pc = "executed", ![c].protected = p, ![c].effect = e]
      BY <2>2 DEF Operate
    <3>2. cl[c].pc # "idle"
      BY <2>2 DEF Operate
    <3> HIDE DEF p, e
    <3> QED  BY <1>1, <1>4, <3>1, <3>2 DEF ClientRow
  <2>3. CASE Cancel(c)
    BY <1>4, <2>3 DEF Cancel
  <2> QED  BY <1>5, <2>1, <2>2, <2>3
<1>6. ASSUME NEW c \in Clients, NEW good \in BOOLEAN, Reply(c, good)
      PROVE  /\ cl'["cli"].call = cl["cli"].call /\ (c # "cli" => cl'["cli"] = cl["cli"])
             /\ cl[c].pc # "idle"
  <2> DEFINE s == IF cl[c].own THEN "closing" ELSE "answered"
             t == IF cl[c].own THEN "none" ELSE "result"
  <2>1. \/ Over(c, "error", "none")
        \/ cl' = [cl EXCEPT ![c].pc = s, ![c].told = t]
    BY <1>6 DEF Reply
  <2>2. cl[c].pc # "idle"
    BY <1>6 DEF Reply
  <2> HIDE DEF s, t
  <2> QED  BY <1>1, <1>4, <2>1, <2>2 DEF ClientRow
<1>7. ASSUME NEW c \in Clients, NEW told \in {"result", "error", "lost"},
             NEW effect \in {"none", "committed"}, CommitCall(c, told, effect)
      PROVE  /\ cl'["cli"].call = cl["cli"].call /\ (c # "cli" => cl'["cli"] = cl["cli"])
             /\ cl[c].pc # "idle"
  BY <1>4, <1>7 DEF CommitCall
<1>8. ASSUME NEW c \in Clients, NEW effect \in {"none", "committed"}, HostEnds(c, effect)
      PROVE  /\ cl'["cli"].call = cl["cli"].call /\ (c # "cli" => cl'["cli"] = cl["cli"])
             /\ cl[c].pc # "idle"
  BY <1>4, <1>8 DEF HostEnds
<1>9. ASSUME Verify PROVE cl' = cl
  BY <1>9 DEF Verify
<1> QED  BY <1>2, <1>3, <1>5, <1>6, <1>7, <1>8, <1>9 DEF Elsewhere

CallersInv == RunInv /\ TargetInv /\ HttpInv /\ GateInv

LEMMA ElsewhereTarget ==
    ASSUME RunInv, TargetInv, Elsewhere
    PROVE  TargetInv'
<1>1. db \in DbRow /\ cast.clients \subseteq Clients
  BY DEF RunInv, RunTypes, CastRow
<1>2. ASSUME UNCHANGED <<db, share, cl>> PROVE TargetInv'
  BY <1>1, <1>2, SameDbGoes, CallersWait DEF TargetInv
<1>3. ASSUME NEW o \in Operators, Show(o) PROVE TargetInv'
  BY <1>2, <1>3 DEF Show
<1>4. ASSUME Verify PROVE TargetInv'
  BY <1>2, <1>4 DEF Verify
<1> QED  BY <1>1, <1>3, <1>4, CallInv, AttestInv, OperateInv, CancelInv, ReplyInv, CommitCallInv,
            HostEndsInv DEF Elsewhere

\* A runner is no client.
LEMMA RunsTarget ==
    ASSUME RunInv, TargetInv, NEW r \in Runners, Runs(r)
    PROVE  TargetInv'
<1>1. r \notin Clients
  BY DEF Runners, Clients
<1>2. db \in DbRow /\ share \subseteq Runners \cup Clients
  BY DEF RunInv, RunTypes, TargetInv
<1>3. DbGoes /\ share' \subseteq share \cup {r} /\ share \subseteq share' \cup {r} /\ cl' = cl
  BY RunsGo
<1>4. share' \subseteq Runners \cup Clients /\ share' \cap Clients = share \cap Clients
  BY <1>1, <1>2, <1>3
<1> QED  BY <1>2, <1>3, <1>4, CallersWait

\* The console waits.
LEMMA ConsoleWaits ==
    ASSUME HttpInv, GateInv, UNCHANGED <<cast, cli>>, cl'["cli"].call = cl["cli"].call,
           cl["cli"].pc = "idle" => cl'["cli"] = cl["cli"]
    PROVE  HttpInv' /\ GateInv'
BY DEF HttpInv, GateInv, Gated

LEMMA InstallCallers ==
    ASSUME CallersInv, InstallNext, cli' = cli
    PROVE  TargetInv' /\ HttpInv' /\ GateInv'
<1>1. RunInv /\ TargetInv /\ HttpInv /\ GateInv /\ db \in DbRow
  BY DEF CallersInv, RunInv, RunTypes
<1>2. ASSUME DbGoes, UNCHANGED <<cast, share, cl>> PROVE TargetInv' /\ HttpInv' /\ GateInv'
  BY <1>1, <1>2, CallersWait, ConsoleWaits DEF TargetInv
<1>3. CASE \E r \in Runners : Runs(r)
  BY <1>1, <1>3, RunsTarget, RunsGo, ConsoleWaits
<1>4. CASE Elsewhere
  <2>1. cl \in [Clients -> ClientRow] /\ cast' = cast
    BY <1>1, <1>4, ElsewhereAside DEF TargetInv, Aside
  <2> QED  BY <1>1, <1>4, <2>1, ElsewhereTarget, CliStays, ConsoleWaits
<1> QED  BY <1>1, <1>2, <1>3, <1>4, OthersGo, NextCases

\* The gate of a command is closed before its session opens.
LEMMA CommandGated ==
    ASSUME db \in DbRow, cl \in [Clients -> ClientRow], NEW k \in DOMAIN COMMAND_SPECS,
           NEW mode \in {"sql", "http"}, NEW f \in Flags, Command(k, mode, f)
    PROVE  GateInv'
<1>1. cl'["cli"].call = CallOf(MethodOf(k))
  BY DEF Command, Clients
<1>2. /\ cli'.flags = f /\ cli'.target = Identity
      /\ cli'.destructive = COMMAND_SPECS[k].destructive
      /\ Validated(COMMAND_SPECS[k], f, Identity)
  BY DEF Command
<1>3. cl'["cli"].call.writes => COMMAND_SPECS[k].mutates
  BY <1>1, CommandCall
<1> QED  BY <1>2, <1>3 DEF Validated, GateInv, Gated

LEMMA CallersNext ==
    ASSUME CallersInv, [CliNext]_<<vars, cli>>
    PROVE  CallersInv'
<1>1. RunInv' /\ RunInv /\ TargetInv /\ HttpInv /\ GateInv /\ db \in DbRow
  BY RunNext DEF CallersInv, RunInv, RunTypes
<1>2. CASE InstallNext /\ UNCHANGED cli
  BY <1>1, <1>2, InstallCallers DEF CallersInv
<1>3. ASSUME cl["cli"].pc = "idle", NEW k \in DOMAIN COMMAND_SPECS,
             NEW mode \in {"sql", "http"}, NEW f \in Flags, Command(k, mode, f)
      PROVE  CallersInv'
  <2>1. GateInv'
    BY <1>1, <1>3, CommandGated DEF TargetInv
  <2>2. cast' = cast
    BY <1>3 DEF Command
  <2> QED  BY <1>1, <1>3, <2>1, <2>2, CommandInv DEF CallersInv, HttpInv
<1>4. CASE Request
  <2>1. TargetInv' /\ cli' \in CliRow /\ cli'.http = "none"
    BY <1>1, <1>4, RequestInv
  <2>2. cast' = cast /\ cl'["cli"].call = cl["cli"].call
    <3>1. cl["cli"] \in ClientRow /\ "cli" \in Clients /\ cl \in [Clients -> ClientRow]
      BY <1>1 DEF TargetInv, Clients
    <3> QED  BY <1>4, <3>1 DEF Request, ClientRow
  <2>3. cli'.flags = cli.flags /\ cli'.target = cli.target /\ cli'.destructive = cli.destructive
    BY <1>1, <1>4 DEF Request, HttpInv, CliRow
  <2> QED  BY <1>1, <2>1, <2>2, <2>3 DEF CallersInv, HttpInv, GateInv, Gated
<1>5. CASE UNCHANGED <<vars, cli>>
  <2>1. UNCHANGED <<cast, db, share, cl, cli>>
    BY <1>5 DEF vars
  <2>2. TargetInv'
    BY <1>1, <2>1, SameDbGoes, CallersWait DEF TargetInv
  <2> QED  BY <1>1, <2>1, <2>2, ConsoleWaits DEF CallersInv
<1> QED  BY <1>2, <1>3, <1>4, <1>5 DEF CliNext

LEMMA CallersInit ==
    ASSUME CliInit
    PROVE  CallersInv
<1>1. RunInv
  BY RunInit
<1>2. /\ share = {} /\ cli = NoCommand /\ cast \in CastRow
      /\ cl = [c \in Clients |->
                 [pc |-> "idle", own |-> TRUE, mac |-> NoIdentity, protected |-> FALSE,
                  call |-> CallOf("get_target_identity"), expects |-> Expects(c),
                  effect |-> "none", told |-> "none"]]
  BY InstallAssumption DEF CliInit, InstallInit
<1>3. PICK m : m = CallOf("get_target_identity")
  OBVIOUS
<1>4. m \in CallRow /\ ~m.writes /\ (m.guarded => m.attests)
  <2>1. "get_target_identity" \in DOMAIN StatMethods
    BY DEF StatMethods
  <2>2. "get_target_identity" \in DOMAIN Methods
    BY <2>1, TableMethods DEF MethodTables
  <2> QED  BY <1>3, <2>2, CallOfRow DEF Readers
<1>5. \A c \in Clients : Expects(c) \in ExpectRow
  BY DEF Expects, ExpectRow
<1>6. ASSUME NEW c \in Clients
      PROVE  /\ cl[c] \in ClientRow /\ cl[c].pc = "idle" /\ cl[c].mac = NoIdentity
             /\ cl[c].call = m /\ cl[c].told = "none" /\ cl[c].effect = "none"
  <2> DEFINE z == [pc |-> "idle", own |-> TRUE, mac |-> NoIdentity, protected |-> FALSE,
                   call |-> m, expects |-> Expects(c), effect |-> "none", told |-> "none"]
  <2>1. cl[c] = z
    BY <1>2, <1>3
  <2>2. Expects(c) \in ExpectRow
    BY <1>5
  <2>3. z \in ClientRow /\ z.pc = "idle" /\ z.mac = NoIdentity
             /\ z.call = m /\ z.told = "none" /\ z.effect = "none"
    BY <1>4, <2>2, NoIdentityTarget DEF ClientRow
  <2> HIDE DEF z
  <2> QED  BY <2>1, <2>3
<1>7. \A c \in Clients : Session2(c)
  BY <1>2, <1>4, <1>6 DEF Session2, Ran
<1>8. CallsHonest
  BY <1>6 DEF CallsHonest
<1>9. cl \in [Clients -> ClientRow]
  BY <1>2, <1>6
<1>10. db.schema >= IdentityAt => db.env # "none"
  <2>1. cast.from \in Nat /\ IdentityAt \in Nat
    BY <1>2, InstallAssumption DEF CastRow
  <2>2. db.schema = cast.from /\ db.env = IF cast.from < IdentityAt THEN "none" ELSE cast.env
    BY DEF CliInit, InstallInit
  <2>3. cast.env # "none"
    BY <1>2 DEF CastRow
  <2> QED  BY <2>1, <2>2, <2>3
<1>11. TargetInv
  BY <1>2, <1>7, <1>8, <1>9, <1>10 DEF TargetInv
<1>12. HttpInv
  <2>1. NoCommand \in CliRow /\ NoCommand.http = "none"
    BY NoIdentityTarget DEF NoCommand, CliRow, Flags
  <2> QED  BY <1>2, <2>1 DEF HttpInv, CastRow
<1>13. GateInv
  BY <1>4, <1>6 DEF GateInv, Clients
<1> QED  BY <1>1, <1>11, <1>12, <1>13 DEF CallersInv

LEMMA CallersHold == CliSpec => []CallersInv
BY CallersInit, CallersNext, PTL DEF CliSpec

\* While the transaction of a protected operation is open, the target is still
\* the one its caller expects, whoever binds, rotates or upgrades meanwhile:
\* the identity row it attested stays locked until its transaction ends.
THEOREM OldCallersNeverHit == CliSpec => []EffectsOnExpected
<1>1. CallersInv => EffectsOnExpected
  BY DEF CallersInv, TargetInv, Session2, EffectsOnExpected
<1> QED  BY <1>1, CallersHold, PTL

\* A call that raised left nothing behind, one that answered is kept, and no
\* method of the transport is turned away for a missing attestation.
THEOREM CallsAreHonest == CliSpec => []CallsHonest
<1>1. CallersInv => CallsHonest
  BY DEF CallersInv, TargetInv
<1> QED  BY <1>1, CallersHold, PTL

\* Whatever a console command wrote, it was gated as a mutation on the target
\* it read: the catalogue of commands and that of the transport agree.
THEOREM EffectsAreGated == CliSpec => []GatedEffects
<1>1. CallersInv => GatedEffects
  <2>1. "cli" \in Clients
    BY DEF Clients
  <2> QED  BY <2>1 DEF CallersInv, TargetInv, Session2, GateInv, Gated, GatedEffects
<1> QED  BY <1>1, CallersHold, PTL

-----------------------------------------------------------------------------
(* The verifier *)

VerifyInv ==
    /\ vf \in [at : 0..Len(Probes), ok : BOOLEAN, seen : DbRow]
    /\ vf.at >= 2 /\ vf.ok =>
         /\ vf.seen.schema = cast.verifier /\ db.schema > 0
         /\ "edited" \notin {vf.seen.ledger[m] : m \in DOMAIN vf.seen.ledger}
         /\ vf.seen.drift \subseteq db.drift
         /\ \A i \in 1..vf.at : Probes[i] \notin vf.seen.drift

LEMMA ProbesAre ==
    /\ Len(Probes) = 18 /\ DOMAIN Probes = 1..18
    /\ Probes[1] = "schema_exists" /\ Probes[2] = "migration_ledger"
    /\ \A i \in 3..18 : Probes[i] # "migration_ledger"
BY DEF Probes

\* A probe fails on the aspect it is for, once that is altered.
LEMMA ProbeSees ==
    ASSUME NEW n, NEW p, n # "migration_ledger", n \in db.drift, db.schema \in Nat, db.schema > 0
    PROVE  ~ProbeOk(n, p)
<1>1. ~Agrees(n, p) /\ db.schema # 0
  BY DEF Agrees
<1>2. CASE n = "schema_exists"
  BY <1>2 DEF ProbeOk, SchemaExists
<1>3. CASE n \in {"function_catalog", "function_hardening", "no_public_execute",
                  "function_privileges"}
  BY <1>1, <1>3 DEF ProbeOk, FunctionProbe
<1>4. CASE n \in {"capability_roles_exist", "role_manifest"}
  BY <1>1, <1>4 DEF ProbeOk, RoleProbe
<1>5. CASE n = "seed_state"
  BY <1>1, <1>5 DEF ProbeOk, SeedProbe
<1>6. CASE n = "external_foreign_keys"
  BY <1>6 DEF ProbeOk, ForeignKeyProbe
<1>7. CASE n \notin {"schema_exists", "function_catalog", "function_hardening",
                     "no_public_execute", "function_privileges", "capability_roles_exist",
                     "role_manifest", "seed_state", "external_foreign_keys"}
  BY <1>1, <1>7 DEF ProbeOk, RelationProbe
<1> QED  BY <1>2, <1>3, <1>4, <1>5, <1>6, <1>7

LEMMA VerifyStep ==
    ASSUME RunInv, VerifyInv, Verify
    PROVE  VerifyInv'
<1> DEFINE n == Probes[vf.at + 1]
           o == vf.ok /\ ProbeOk(n, cast.verifier)
           z == IF n = "migration_ledger" THEN db ELSE vf.seen
<1>0. vf.at \in 0..18 /\ vf.at < 18
  <2>1. vf.at \in 0..Len(Probes) /\ vf.at < Len(Probes)
    BY DEF VerifyInv, Verify
  <2>2. Len(Probes) = 18
    BY ProbesAre
  <2> QED  BY <2>1, <2>2
<1>1. /\ vf.ok \in BOOLEAN
      /\ vf.seen \in DbRow /\ db \in DbRow /\ UNCHANGED <<cast, db>>
      /\ cast.verifier \in Nat /\ db.schema \in Nat /\ DOMAIN db.ledger = 1..db.schema
  BY SMTT(30), InstallAssumption DEF VerifyInv, Verify, RunInv, RunTypes, CastRow, DbRow, LedgerWhole
<1>2. vf' = [at |-> vf.at + 1, ok |-> o, seen |-> z]
  BY DEF Verify
<1>3. vf.at + 1 \in 0..Len(Probes) /\ o \in BOOLEAN /\ z \in DbRow
  <2>1. vf.at + 1 \in 0..Len(Probes)
    <3>1. vf.at + 1 \in 0..18 /\ Len(Probes) = 18
      BY <1>0, ProbesAre
    <3> QED  BY <3>1
  <2>2. o \in BOOLEAN
    BY <1>1 DEF ProbeOk
  <2>3. z \in DbRow
    BY <1>1
  <2> QED  BY <2>1, <2>2, <2>3
<1>4. CASE vf.at + 1 < 2
  BY <1>0, <1>1, <1>2, <1>3, <1>4 DEF VerifyInv
<1>5. CASE vf.at + 1 = 2
  <2>1. n = "migration_ledger" /\ z = db /\ (o => LedgerOfPackage(cast.verifier))
    BY <1>5, ProbesAre DEF ProbeOk
  <2>2. o => /\ db.schema = cast.verifier /\ db.schema > 0
             /\ "edited" \notin {db.ledger[m] : m \in DOMAIN db.ledger}
    <3>1. o => db.schema > 0 /\ \A m \in 1..db.schema : m <= cast.verifier /\ Recorded(m)
      BY <1>1, <2>1 DEF LedgerOfPackage
    <3>2. o => 1..cast.verifier \subseteq 1..db.schema
      BY <1>1, <2>1 DEF LedgerOfPackage
    <3>3. o => db.schema = cast.verifier
      BY <1>1, <3>1, <3>2
    <3>4. o => "edited" \notin {db.ledger[m] : m \in DOMAIN db.ledger}
      BY <1>1, <3>1 DEF Recorded
    <3> QED  BY <3>1, <3>3, <3>4
  <2>3. "schema_exists" \notin db.drift /\ "migration_ledger" \notin db.drift
    BY <1>1, InstallAssumption DEF DbRow
  <2>4. \A i \in 1..2 : Probes[i] \notin db.drift
    BY <2>3, ProbesAre
  <2> HIDE DEF o, z, n
  <2> QED  BY <1>1, <1>2, <1>3, <1>5, <2>1, <2>2, <2>4 DEF VerifyInv
<1>6. CASE vf.at + 1 > 2
  <2>1. vf.at >= 2 /\ vf.at + 1 \in 3..18
    BY <1>0, <1>6
  <2>2. n # "migration_ledger" /\ z = vf.seen
    BY <2>1, ProbesAre
  <2>3. o => /\ vf.seen.schema = cast.verifier /\ db.schema > 0
             /\ "edited" \notin {vf.seen.ledger[m] : m \in DOMAIN vf.seen.ledger}
             /\ vf.seen.drift \subseteq db.drift
             /\ \A i \in 1..vf.at : Probes[i] \notin vf.seen.drift
    BY <2>1 DEF VerifyInv
  <2>4. o => n \notin vf.seen.drift
    BY <1>1, <2>2, <2>3, ProbeSees
  <2>5. o => \A i \in 1..(vf.at + 1) : Probes[i] \notin vf.seen.drift
    <3>1. \A i \in 1..(vf.at + 1) : i \in 1..vf.at \/ i = vf.at + 1
      BY <1>0
    <3> QED  BY <2>3, <2>4, <3>1
  <2> HIDE DEF o, z, n
  <2> QED  BY <1>1, <1>2, <1>3, <2>2, <2>3, <2>5 DEF VerifyInv
<1> QED  BY <1>0, <1>4, <1>5, <1>6

LEMMA VerifyWaits ==
    ASSUME VerifyInv, db \in DbRow, DbGoes, UNCHANGED <<cast, vf>>
    PROVE  VerifyInv'
<1>1. db.schema \in Nat /\ db'.schema \in Nat /\ db.schema <= db'.schema
  BY InstallAssumption DEF DbGoes, DbRow
<1>2. vf.seen.drift \subseteq db.drift => vf.seen.drift \subseteq db'.drift
  BY DEF DbGoes
<1> QED  BY <1>1, <1>2 DEF VerifyInv

LEMMA VerifyNext ==
    ASSUME RunInv, VerifyInv, [CliNext]_<<vars, cli>>
    PROVE  VerifyInv'
<1>1. db \in DbRow
  BY DEF RunInv, RunTypes
<1>2. ASSUME UNCHANGED <<cast, db, vf>> PROVE VerifyInv'
  BY <1>1, <1>2, SameDbGoes, VerifyWaits
<1>3. ASSUME NEW o \in Operators, Show(o) PROVE UNCHANGED <<cast, db, vf>>
  BY <1>3 DEF Show
<1>4. ASSUME NEW c, NEW call, NEW own, Call(c, call, own) PROVE UNCHANGED <<cast, db, vf>>
  BY <1>4 DEF Call
<1>5. ASSUME NEW c, Attest(c) \/ Operate(c) \/ Cancel(c) PROVE UNCHANGED <<cast, db, vf>>
  BY <1>5 DEF Attest, Operate, Cancel
<1>6. ASSUME NEW c, NEW x, NEW y, Reply(c, x) \/ CommitCall(c, x, y) \/ HostEnds(c, x)
      PROVE  UNCHANGED <<cast, db, vf>>
  BY <1>6 DEF Reply, CommitCall, HostEnds
<1>7. ASSUME Elsewhere PROVE Verify \/ UNCHANGED <<cast, db, vf>>
  BY <1>3, <1>4, <1>5, <1>6, <1>7 DEF Elsewhere
<1>8. ASSUME InstallNext PROVE VerifyInv'
  BY <1>1, <1>2, <1>7, <1>8, VerifyStep, RunsGo, OthersGo, VerifyWaits, NextCases
<1>9. ASSUME NEW k, NEW mode, NEW f, Command(k, mode, f) \/ Request
      PROVE  UNCHANGED <<cast, db, vf>>
  BY <1>9 DEF Command, Request
<1>10. InstallNext \/ UNCHANGED <<cast, db, vf>>
  BY <1>9 DEF CliNext, vars
<1> QED  BY <1>2, <1>8, <1>10

LEMMA VerifyInit ==
    ASSUME CliInit
    PROVE  VerifyInv
<1>1. vf = [at |-> 0, ok |-> TRUE, seen |-> db] /\ db \in DbRow
  BY RunInit DEF CliInit, InstallInit, RunInv, RunTypes
<1> QED  BY <1>1, ProbesAre DEF VerifyInv

\* A verify that passed saw at its ledger probe its own package, whole,
\* unedited and undrifted, whatever is migrated or altered between its probes:
\* a drift stays, and a later probe meets it.
THEOREM VerifyIsWhole == CliSpec => []VerifiedWhole
<1>1. ASSUME RunInv, VerifyInv PROVE VerifiedWhole
  <2>1. ASSUME vf.at = Len(Probes), vf.ok, NEW a \in vf.seen.drift PROVE FALSE
    <3>1. a \in Range(Probes)
      BY <1>1, <2>1, InstallAssumption DEF VerifyInv, DbRow
    <3>2. PICK i \in 1..18 : a = Probes[i]
      BY <3>1, ProbesAre DEF Range
    <3> QED  BY <1>1, <2>1, <3>2, ProbesAre DEF VerifyInv
  <2> QED  BY <1>1, <2>1, ProbesAre DEF VerifyInv, VerifiedWhole
<1>2. CliSpec => []VerifyInv
  <2>1. CliInit => VerifyInv
    BY VerifyInit
  <2>2. RunInv /\ VerifyInv /\ [CliNext]_<<vars, cli>> => VerifyInv'
    BY VerifyNext
  <2> QED  BY <2>1, <2>2, RunHolds, PTL DEF CliSpec
<1> QED  BY <1>1, <1>2, RunHolds, PTL

=============================================================================
