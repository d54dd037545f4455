------------------------ MODULE TaskqSchedulesProofs ------------------------
(***************************************************************************)
(* Proofs about TaskqSchedules, for any number of schedules, claims and    *)
(* definitions.                                                            *)
(*                                                                         *)
(* The inductive invariant adds to BehindCursor what an instant processed  *)
(* is to a claim in force (a claim is never older than it), and what a     *)
(* claim handed out is to its row (of its version only with its            *)
(* definition).  It holds whatever is proposed.  That no instant is missed *)
(* is about the proposals of the package: a second invariant, Account,     *)
(* follows them.                                                           *)
(***************************************************************************)
EXTENDS TaskqSchedules, FiniteSetTheorems, TLAPS

\* What was processed lies in the past, and before any claim in force.
SeenBefore ==
    \A o \in seen :
        /\ o[2] <= now
        /\ rows[o[1]].token # None => o[2] <= rows[o[1]].asOf

\* A claim is of a version the row has or had, and of this one only with the
\* row's definition.
ClaimsCurrent ==
    \A t \in Tokens :
        claims[t] # NoClaim =>
           LET r == rows[claims[t].of] IN
           /\ r.state # "absent"
           /\ claims[t].version <= r.version
           /\ claims[t].version = r.version => claims[t].def = r.def

\* The token on a row was handed out for it, in the past.
TokenOwned ==
    \A s \in Schedules :
        rows[s].token # None =>
           /\ claims[rows[s].token] # NoClaim /\ claims[rows[s].token].of = s
           /\ rows[s].asOf <= now

Inv == SchedulesTypeOK /\ BehindCursor /\ SeenBefore /\ ClaimsCurrent /\ TokenOwned

\* A step that records no occurrence, moves no cursor of a running schedule and
\* hands out no claim but one of the row as it is.
Quiet ==
    /\ DOMAIN occs' \subseteq DOMAIN occs /\ seen' = seen /\ foreign' = foreign
    /\ \A s \in Schedules :
          /\ rows'[s].init =>
                /\ rows[s].init /\ rows'[s].next = rows[s].next /\ rows'[s].def = rows[s].def
                /\ anchor'[s] # None => anchor'[s] = anchor[s] /\ rows'[s].off = rows[s].off
          /\ rows'[s].token # None =>
                \/ /\ rows'[s].token = rows[s].token /\ rows'[s].asOf = rows[s].asOf
                   /\ claims'[rows[s].token] = claims[rows[s].token]
                \/ /\ rows'[s].next <= rows'[s].asOf
                   /\ claims'[rows'[s].token].proposal =
                         evaluate_schedule(rows'[s], rows'[s].asOf)

\* Changes of one row by operators and by errors: the version grows or the
\* definition stays, a claim is dropped or kept, and a schedule that runs
\* afterwards ran before, at the same cursor and by the same definition.
RowMoves(r, e) ==
    /\ r.state # "absent" => e.version >= r.version
    /\ r.state # "absent" /\ e.version = r.version => e.def = r.def
    /\ e.state # "absent" /\ e.def # None /\ e.meta # None
    /\ e.token \in {None, r.token}
    /\ e.token # None => e.asOf = r.asOf
    /\ e.init => r.init /\ e.next = r.next /\ e.def = r.def

\* Such a change preserves the invariant.
LEMMA RowMovesInv ==
    ASSUME Inv, NEW s \in Schedules, NEW e \in Row, RowMoves(rows[s], e),
           rows' = [rows EXCEPT ![s] = e],
           \/ anchor' = anchor /\ (e.init => e.off = rows[s].off)
           \/ anchor' = [anchor EXCEPT ![s] = None],
           UNCHANGED <<now, claims, occs, foreign, seen>>
    PROVE  Inv' /\ Quiet
<1> USE SchedulesAssumption DEF Inv, SchedulesTypeOK
<1>0. /\ rows'[s] = e
      /\ \A q \in Schedules : q # s => rows'[q] = rows[q]
      /\ rows' \in [Schedules -> Row]
  OBVIOUS
<1>anchor. /\ anchor' \in [Schedules -> Int \cup {None}]
           /\ \A q \in Schedules :
                 rows'[q].init /\ anchor'[q] # None => anchor'[q] = anchor[q] /\ rows'[q].off = rows[q].off
  BY <1>0
<1> HIDE DEF Row, NoClaim
<1>1. SchedulesTypeOK'
  BY <1>0, <1>anchor DEF RowMoves
<1>2. BehindCursor'
  <2> SUFFICES ASSUME NEW o \in seen, rows'[o[1]].init PROVE o[2] < rows'[o[1]].next
    BY DEF BehindCursor
  <2>1. o[1] \in Schedules
    OBVIOUS
  <2> QED
    BY <1>0, <2>1 DEF BehindCursor, RowMoves
<1>3. SeenBefore'
  <2> SUFFICES ASSUME NEW o \in seen
               PROVE  o[2] <= now /\ (rows'[o[1]].token # None => o[2] <= rows'[o[1]].asOf)
    BY DEF SeenBefore
  <2>1. o[1] \in Schedules
    OBVIOUS
  <2> QED
    BY <1>0, <2>1 DEF SeenBefore, RowMoves
<1>4. ClaimsCurrent'
  <2> SUFFICES ASSUME NEW t \in Tokens, claims[t] # NoClaim
               PROVE  LET r == rows'[claims[t].of] IN
                      /\ r.state # "absent"
                      /\ claims[t].version <= r.version
                      /\ claims[t].version = r.version => claims[t].def = r.def
    BY DEF ClaimsCurrent
  <2>1. claims[t].of \in Schedules /\ claims[t].version \in Nat
    OBVIOUS
  <2>2. \A q \in Schedules : rows[q].version \in Nat
    BY DEF Row
  <2>3. e.version \in Nat
    BY DEF Row
  <2>4. CASE claims[t].of = s
    BY <1>0, <2>1, <2>2, <2>3, <2>4 DEF ClaimsCurrent, RowMoves
  <2>5. CASE claims[t].of # s
    BY <1>0, <2>1, <2>5 DEF ClaimsCurrent
  <2> QED
    BY <2>4, <2>5
<1>5. TokenOwned'
  BY <1>0 DEF TokenOwned, RowMoves
<1>6. Quiet
  BY <1>0, <1>anchor DEF Quiet, RowMoves
<1> QED
  BY <1>1, <1>2, <1>3, <1>4, <1>5, <1>6

LEMMA InitInv == Init => Inv
<1> SUFFICES ASSUME Init PROVE Inv
  OBVIOUS
<1> USE SchedulesAssumption DEF Init
<1>1. NoRow \in Row
  BY DEF NoRow, Row
<1>2. SchedulesTypeOK
  BY <1>1 DEF SchedulesTypeOK, NoRow
<1> QED
  BY <1>2 DEF Inv, BehindCursor, SeenBefore, ClaimsCurrent, TokenOwned, NoRow

\* The row without its claim is a row.
LEMMA UnclaimedRow ==
    ASSUME NEW r \in Row
    PROVE  /\ Unclaimed(r) \in Row
           /\ Unclaimed(r).token = None
           /\ Unclaimed(r).state = r.state /\ Unclaimed(r).def = r.def
           /\ Unclaimed(r).meta = r.meta /\ Unclaimed(r).init = r.init
           /\ Unclaimed(r).next = r.next /\ Unclaimed(r).version = r.version
           /\ Unclaimed(r).errors = r.errors /\ Unclaimed(r).audit = r.audit
           /\ Unclaimed(r).off = r.off
  BY SchedulesAssumption DEF Row, Unclaimed

\* Writes of columns of one row.
LEMMA WriteDefinition ==
    ASSUME NEW u \in Row, NEW st \in {"paused", "active"}, NEW d \in Definitions,
           NEW m \in Metas, NEW ver \in Nat
    PROVE  [u EXCEPT !.state = st, !.def = d, !.meta = m, !.version = ver] \in Row
  BY DEF Row

LEMMA WriteCursor ==
    ASSUME NEW u \in Row, NEW in \in BOOLEAN, NEW nxt \in Int
    PROVE  [u EXCEPT !.init = in, !.next = nxt, !.errors = 0, !.audit = "none"] \in Row
<1>1. PICK e : e = [u EXCEPT !.init = in, !.next = nxt, !.errors = 0, !.audit = "none"]
  OBVIOUS
<1>2. e = [state |-> u.state, def |-> u.def, meta |-> u.meta, init |-> in, next |-> nxt,
           version |-> u.version, token |-> u.token, asOf |-> u.asOf, expires |-> u.expires,
           retry |-> u.retry, errors |-> 0, audit |-> "none", off |-> u.off]
  BY <1>1 DEF Row
<1>3. e \in Row
  BY <1>2 DEF Row
<1> QED
  BY <1>1, <1>3

LEMMA WriteMeta ==
    ASSUME NEW u \in Row, NEW m \in Metas, NEW ver \in Nat
    PROVE  [u EXCEPT !.meta = m, !.version = ver, !.errors = 0] \in Row
<1>1. PICK e : e = [u EXCEPT !.meta = m, !.version = ver, !.errors = 0]
  OBVIOUS
<1>2. e = [state |-> u.state, def |-> u.def, meta |-> m, init |-> u.init, next |-> u.next,
           version |-> ver, token |-> u.token, asOf |-> u.asOf, expires |-> u.expires,
           retry |-> u.retry, errors |-> 0, audit |-> u.audit, off |-> u.off]
  BY <1>1 DEF Row
<1>3. e \in Row
  BY <1>2 DEF Row
<1> QED
  BY <1>1, <1>3

LEMMA WriteNew ==
    ASSUME NEW u \in Row, NEW st \in {"paused", "active"}, NEW d \in Definitions,
           NEW m \in Metas, NEW n \in Nat
    PROVE  [u EXCEPT !.state = st, !.def = d, !.meta = m, !.next = n, !.version = 1] \in Row
<1>1. PICK e : e = [u EXCEPT !.state = st, !.def = d, !.meta = m, !.next = n, !.version = 1]
  OBVIOUS
<1>2. e = [state |-> st, def |-> d, meta |-> m, init |-> u.init, next |-> n,
           version |-> 1, token |-> u.token, asOf |-> u.asOf, expires |-> u.expires,
           retry |-> u.retry, errors |-> u.errors, audit |-> u.audit, off |-> u.off]
  BY <1>1 DEF Row
<1>3. e \in Row
  BY <1>2 DEF Row
<1> QED
  BY <1>1, <1>3

LEMMA PutInv ==
    ASSUME Inv, NEW s \in Schedules, NEW d \in Definitions, NEW m \in Metas,
           NEW paused \in BOOLEAN, put_managed_schedule(s, d, m, paused)
    PROVE  Inv' /\ Quiet
<1> DEFINE r    == rows[s]
           u    == Unclaimed(r)
           st   == IF paused THEN "paused" ELSE "active"
           keep == ~(r.def # d \/ r.state # st) \/ (r.state = "active" /\ paused /\ r.def = d)
           in   == keep /\ r.init
           nxt  == IF keep THEN r.next ELSE now
           ver  == r.version + 1
           e1   == [NoRow EXCEPT !.state = st, !.def = d, !.meta = m, !.next = now, !.version = 1]
           f    == [u EXCEPT !.state = st, !.def = d, !.meta = m, !.version = ver]
           e2   == [f EXCEPT !.init = in, !.next = nxt, !.errors = 0, !.audit = "none"]
           e3   == [u EXCEPT !.meta = m, !.version = ver, !.errors = 0]
<1>1. \/ r.state = "absent" /\ rows' = [rows EXCEPT ![s] = e1]
      \/ r.state \in {"active", "paused"} /\ rows' = [rows EXCEPT ![s] = e2]
      \/ r.state = "retired" /\ rows' = [rows EXCEPT ![s] = e3]
  BY DEF put_managed_schedule
<1>2. UNCHANGED <<now, claims, occs, foreign, seen, anchor>>
  BY DEF put_managed_schedule
<1>3. r \in Row /\ now \in Nat
  BY DEF Inv, SchedulesTypeOK
<1>nxt. nxt \in Int
  BY <1>3 DEF Row
<1>ver. ver \in Nat /\ r.version \in Nat /\ ver > r.version
  BY <1>3 DEF Row
<1>st. st \in {"paused", "active"}
  OBVIOUS
<1>in. in \in BOOLEAN
  OBVIOUS
<1>keep. in => r.init /\ nxt = r.next /\ d = r.def
  OBVIOUS
<1>u. /\ u \in Row /\ u.token = None /\ u.state = r.state /\ u.def = r.def
      /\ u.init = r.init /\ u.next = r.next /\ u.off = r.off
  BY <1>3, UnclaimedRow
<1>u2. u \in Row
  BY <1>u
<1> HIDE DEF u, st, in, nxt, ver
<1>n. NoRow \in Row
  BY SchedulesAssumption DEF NoRow, Row
<1>f. f \in Row
  BY <1>u2, <1>st, <1>ver, WriteDefinition
<1>f2. f.token = u.token /\ f.state = st /\ f.def = d /\ f.meta = m /\ f.version = ver
       /\ f.off = u.off
  BY <1>u2 DEF Row
<1> HIDE DEF f
<1>e1. e1 \in Row
  BY <1>3, <1>st, <1>n, WriteNew
<1>e12. /\ e1.state = st /\ e1.def = d /\ e1.meta = m
        /\ e1.init = FALSE /\ e1.token = None /\ e1.version = 1
  BY DEF NoRow
<1>e2. e2 \in Row
  BY <1>f, <1>in, <1>nxt, WriteCursor
<1>e22. /\ e2.state = f.state /\ e2.def = f.def /\ e2.meta = f.meta /\ e2.version = f.version
        /\ e2.next = nxt /\ e2.token = f.token /\ e2.off = f.off
  BY <1>f DEF Row
<1>e23. e2.init = in
  BY <1>f DEF Row
<1>e3. e3 \in Row
  BY <1>u2, <1>ver, WriteMeta
<1>e32. /\ e3.state = u.state /\ e3.def = u.def /\ e3.meta = m /\ e3.version = ver
        /\ e3.next = u.next /\ e3.token = u.token /\ e3.off = u.off
  BY <1>u2 DEF Row
<1>e33. e3.init = u.init
  BY <1>u2 DEF Row
<1>off. e1.init = FALSE /\ e2.off = r.off /\ e3.off = r.off
  BY <1>u, <1>f2, <1>e12, <1>e22, <1>e32
<1> HIDE DEF e1, e2, e3
<1>4. CASE r.state = "absent" /\ rows' = [rows EXCEPT ![s] = e1]
  <2>1. RowMoves(r, e1)
    BY <1>st, <1>4, <1>e12, SchedulesAssumption DEF RowMoves
  <2> QED
    BY <1>2, <1>4, <1>e1, <1>off, <2>1, RowMovesInv
<1>5. CASE r.state \in {"active", "paused"} /\ rows' = [rows EXCEPT ![s] = e2]
  <2>1. RowMoves(r, e2)
    BY <1>ver, <1>st, <1>keep, <1>5, <1>u, <1>f2, <1>e22, <1>e23, SchedulesAssumption DEF RowMoves
  <2> QED
    BY <1>2, <1>5, <1>e2, <1>off, <2>1, RowMovesInv
<1>6. CASE r.state = "retired" /\ rows' = [rows EXCEPT ![s] = e3]
  <2>1. r.def # None
    BY <1>6 DEF Inv, SchedulesTypeOK
  <2>2. RowMoves(r, e3)
    BY <1>ver, <1>6, <1>u, <1>e32, <1>e33, <2>1, SchedulesAssumption DEF RowMoves
  <2> QED
    BY <1>2, <1>6, <1>e3, <1>off, <2>2, RowMovesInv
<1> QED
  BY <1>1, <1>4, <1>5, <1>6

LEMMA WriteStatus ==
    ASSUME NEW u \in Row, NEW st \in {"active", "paused"}, NEW ver \in Nat
    PROVE  [u EXCEPT !.state = st, !.version = ver] \in Row
  BY DEF Row

LEMMA WriteState ==
    ASSUME NEW u \in Row, NEW in \in BOOLEAN, NEW nxt \in Int, NEW n \in 0..3,
           NEW why \in {"none", "operator"}
    PROVE  [u EXCEPT !.init = in, !.next = nxt, !.errors = n, !.audit = why] \in Row
<1>1. PICK e : e = [u EXCEPT !.init = in, !.next = nxt, !.errors = n, !.audit = why]
  OBVIOUS
<1>2. e = [state |-> u.state, def |-> u.def, meta |-> u.meta, init |-> in, next |-> nxt,
           version |-> u.version, token |-> u.token, asOf |-> u.asOf, expires |-> u.expires,
           retry |-> u.retry, errors |-> n, audit |-> why, off |-> u.off]
  BY <1>1 DEF Row
<1>3. e \in Row
  BY <1>2 DEF Row
<1> QED
  BY <1>1, <1>3

LEMMA SetStateInv ==
    ASSUME Inv, NEW s \in Schedules, NEW st \in {"active", "paused"}, set_schedule_state(s, st)
    PROVE  Inv' /\ Quiet
<1> DEFINE r   == rows[s]
           u   == Unclaimed(r)
           ver == r.version + 1
           in  == r.init /\ st = "paused"
           nxt == IF st = "active" THEN now ELSE r.next
           n   == IF st = "active" THEN 0 ELSE r.errors
           why == IF st = "paused" THEN "operator" ELSE "none"
           f   == [u EXCEPT !.state = st, !.version = ver]
           e   == [f EXCEPT !.init = in, !.next = nxt, !.errors = n, !.audit = why]
<1>1. /\ r.state # "absent" /\ rows' = [rows EXCEPT ![s] = e]
      /\ UNCHANGED <<now, claims, occs, foreign, seen, anchor>>
  BY DEF set_schedule_state
<1>2. r \in Row /\ now \in Nat /\ r.def # None /\ r.meta # None
  BY <1>1 DEF Inv, SchedulesTypeOK
<1>3. nxt \in Int /\ ver \in Nat /\ r.version \in Nat /\ ver > r.version /\ n \in 0..3
  BY <1>2 DEF Row
<1>4. in \in BOOLEAN
  OBVIOUS
<1>5. why \in {"none", "operator"}
  OBVIOUS
<1>6. in => r.init /\ nxt = r.next
  OBVIOUS
<1>7. u \in Row
  BY <1>2, UnclaimedRow
<1>8. u.token = None /\ u.def = r.def /\ u.meta = r.meta /\ u.off = r.off
  BY <1>2, UnclaimedRow
<1> HIDE DEF u, ver, in, nxt, n, why
<1>f. f \in Row
  BY <1>3, <1>7, WriteStatus
<1>f2. /\ f.state = st /\ f.def = u.def /\ f.meta = u.meta /\ f.version = ver
       /\ f.token = u.token /\ f.off = u.off
  BY <1>7 DEF Row
<1> HIDE DEF f
<1>9. e \in Row
  BY <1>3, <1>4, <1>5, <1>f, WriteState
<1>10. /\ e.state = st /\ e.def = u.def /\ e.meta = u.meta /\ e.version = ver /\ e.next = nxt
       /\ e.token = u.token /\ e.off = u.off
  BY <1>f, <1>f2 DEF Row
<1>11. e.init = in
  BY <1>f DEF Row
<1> HIDE DEF e
<1>12. RowMoves(r, e)
  BY <1>1, <1>2, <1>3, <1>6, <1>8, <1>10, <1>11, SchedulesAssumption DEF RowMoves
<1> QED
  BY <1>1, <1>8, <1>9, <1>10, <1>12, RowMovesInv

LEMMA RetireInv ==
    ASSUME Inv, NEW s \in Schedules, retire_schedule(s)
    PROVE  Inv' /\ Quiet
<1> DEFINE r   == rows[s]
           u   == Unclaimed(r)
           ver == r.version + 1
           e   == [u EXCEPT !.state = "retired", !.version = ver]
<1>1. /\ r.state # "absent" /\ rows' = [rows EXCEPT ![s] = e]
      /\ UNCHANGED <<now, claims, occs, foreign, seen, anchor>>
  BY DEF retire_schedule
<1>2. r \in Row /\ r.def # None /\ r.meta # None
  BY <1>1 DEF Inv, SchedulesTypeOK
<1>3. ver \in Nat /\ r.version \in Nat /\ ver > r.version
  BY <1>2 DEF Row
<1>4. u \in Row
  BY <1>2, UnclaimedRow
<1>5. /\ u.token = None /\ u.def = r.def /\ u.meta = r.meta /\ u.next = r.next /\ u.init = r.init
      /\ u.off = r.off
  BY <1>2, UnclaimedRow
<1> HIDE DEF u, ver
<1>6. e \in Row
  BY <1>3, <1>4 DEF Row
<1>7. /\ e.state = "retired" /\ e.def = u.def /\ e.meta = u.meta /\ e.version = ver
      /\ e.next = u.next /\ e.token = u.token /\ e.off = u.off
  BY <1>4 DEF Row
<1>8. e.init = u.init
  BY <1>4 DEF Row
<1> HIDE DEF e
<1>9. RowMoves(r, e)
  BY <1>1, <1>2, <1>3, <1>5, <1>7, <1>8, SchedulesAssumption DEF RowMoves
<1> QED
  BY <1>1, <1>5, <1>6, <1>7, <1>9, RowMovesInv

LEMMA SmearInv ==
    ASSUME Inv, NEW s \in Schedules, NEW off \in Offsets, set_schedule_smear(s, off)
    PROVE  Inv' /\ Quiet
<1> DEFINE r == rows[s]
           e == [r EXCEPT !.off = off]
<1>1. /\ r.state # "absent" /\ rows' = [rows EXCEPT ![s] = e]
      /\ anchor' = [anchor EXCEPT ![s] = None]
      /\ UNCHANGED <<now, claims, occs, foreign, seen>>
  BY DEF set_schedule_smear
<1>2. r \in Row
  BY DEF Inv, SchedulesTypeOK
<1>3. r.def # None /\ r.meta # None /\ r.version \in Nat
  BY <1>1, <1>2 DEF Inv, SchedulesTypeOK, Row
<1> HIDE DEF r
<1>4. e \in Row
  BY <1>2 DEF Row
<1>5. /\ e.state = r.state /\ e.def = r.def /\ e.meta = r.meta /\ e.version = r.version
      /\ e.next = r.next /\ e.token = r.token /\ e.asOf = r.asOf
  BY <1>2 DEF Row
<1>6. e.init = r.init
  BY <1>2 DEF Row
<1> HIDE DEF e
<1>7. RowMoves(r, e)
  BY <1>1, <1>3, <1>5, <1>6 DEF RowMoves
<1> QED
  BY <1>1, <1>4, <1>7, RowMovesInv DEF r

LEMMA WriteError ==
    ASSUME NEW u \in Row, NEW st \in {"active", "paused"}, NEW ver \in Nat, NEW retry \in Nat,
           NEW n \in 0..3, NEW why \in {"none", "operator", "auto"}
    PROVE  [u EXCEPT !.state = st, !.version = ver, !.retry = retry, !.errors = n,
                     !.audit = why] \in Row
<1>1. PICK e : e = [u EXCEPT !.state = st, !.version = ver, !.retry = retry, !.errors = n,
                             !.audit = why]
  OBVIOUS
<1>2. e = [state |-> st, def |-> u.def, meta |-> u.meta, init |-> u.init, next |-> u.next,
           version |-> ver, token |-> u.token, asOf |-> u.asOf, expires |-> u.expires,
           retry |-> retry, errors |-> n, audit |-> why, off |-> u.off]
  BY <1>1 DEF Row
<1>3. e \in Row
  BY <1>2 DEF Row
<1> QED
  BY <1>1, <1>3

LEMMA ErrorInv ==
    ASSUME Inv, NEW t \in Tokens, NEW deterministic \in BOOLEAN,
           schedule_error(t, deterministic)
    PROVE  Inv' /\ Quiet
<1> DEFINE s     == claims[t].of
           r     == rows[s]
           u     == Unclaimed(r)
           n     == IF ~deterministic THEN r.errors
                    ELSE IF r.errors < 3 THEN r.errors + 1 ELSE 3
           pause == deterministic /\ n >= 3
           st    == IF pause THEN "paused" ELSE "active"
           ver   == IF pause THEN r.version + 1 ELSE r.version
           retry == IF pause THEN 0 ELSE now + RetryDelay
           why   == IF pause THEN "auto" ELSE r.audit
           e     == [u EXCEPT !.state = st, !.version = ver, !.retry = retry, !.errors = n,
                              !.audit = why]
<1>1. /\ claims[t] # NoClaim /\ r.state = "active" /\ rows' = [rows EXCEPT ![s] = e]
      /\ UNCHANGED <<now, claims, occs, foreign, seen, anchor>>
  BY DEF schedule_error, Fenced
<1>2. s \in Schedules
  BY <1>1 DEF Inv, SchedulesTypeOK
<1>3. r \in Row /\ now \in Nat /\ r.def # None /\ r.meta # None
  BY <1>1, <1>2 DEF Inv, SchedulesTypeOK
<1>4. /\ ver \in Nat /\ r.version \in Nat /\ ver >= r.version
      /\ retry \in Nat /\ n \in 0..3 /\ st \in {"active", "paused"}
  BY <1>3, SchedulesAssumption DEF Row
<1>5. why \in {"none", "operator", "auto"}
  BY <1>3 DEF Row
<1>6. u \in Row
  BY <1>3, UnclaimedRow
<1>7. /\ u.token = None /\ u.def = r.def /\ u.meta = r.meta /\ u.next = r.next /\ u.init = r.init
      /\ u.off = r.off
  BY <1>3, UnclaimedRow
<1> HIDE DEF s, u, n, pause, st, ver, retry, why
<1>8. e \in Row
  BY <1>4, <1>5, <1>6, WriteError
<1>9. /\ e.state = st /\ e.def = u.def /\ e.meta = u.meta /\ e.version = ver
      /\ e.next = u.next /\ e.token = u.token /\ e.off = u.off
  BY <1>6 DEF Row
<1>10. e.init = u.init
  BY <1>6 DEF Row
<1> HIDE DEF e
<1>11. RowMoves(r, e)
  BY <1>3, <1>4, <1>7, <1>9, <1>10, SchedulesAssumption DEF RowMoves
<1> QED
  BY <1>1, <1>2, <1>7, <1>8, <1>9, <1>11, RowMovesInv

\* The evaluation of a row depends on its recurrence and its cursor.
LEMMA SameEvaluation ==
    ASSUME NEW r, NEW e, NEW n, e.def = r.def, e.init = r.init, e.next = r.next, e.off = r.off
    PROVE  evaluate_schedule(e, n) = evaluate_schedule(r, n)
  BY DEF evaluate_schedule

LEMMA WriteClaim ==
    ASSUME NEW r \in Row, NEW t \in Tokens, NEW n \in Nat, NEW x \in Nat
    PROVE  [r EXCEPT !.token = t, !.asOf = n, !.expires = x] \in Row
  BY DEF Row

\* A claim: nothing processed so far is later than it.
LEMMA ClaimInv ==
    ASSUME Inv, NEW s \in Schedules, NEW t \in Tokens, claim_schedules(s, t)
    PROVE  Inv' /\ Quiet
<1> DEFINE r == rows[s]
           x == now + Lease
           e == [r EXCEPT !.token = t, !.asOf = now, !.expires = x]
           c == [of |-> s, version |-> r.version, def |-> r.def,
                 proposal |-> evaluate_schedule(r, now)]
<1>1. /\ claims[t] = NoClaim /\ r.state = "active"
      /\ rows' = [rows EXCEPT ![s] = e] /\ claims' = [claims EXCEPT ![t] = c]
      /\ r.next <= now
      /\ UNCHANGED <<now, occs, foreign, seen, anchor>>
  BY DEF claim_schedules
<1>2. r \in Row /\ now \in Nat /\ r.def # None /\ r.meta # None
  BY <1>1 DEF Inv, SchedulesTypeOK
<1>3. x \in Nat
  BY <1>2, SchedulesAssumption
<1>4. r.version \in Nat
  BY <1>2 DEF Row
<1>5. c.of = s /\ c.version = r.version /\ c.def = r.def /\ c.proposal = evaluate_schedule(r, now)
  OBVIOUS
<1>6. c # NoClaim
  BY <1>5, SchedulesAssumption DEF NoClaim
<1> HIDE DEF x, r, c
<1>7. e \in Row
  BY <1>2, <1>3, WriteClaim
<1>8. /\ e.state = r.state /\ e.def = r.def /\ e.meta = r.meta /\ e.version = r.version
      /\ e.next = r.next /\ e.token = t /\ e.asOf = now /\ e.off = r.off
  BY <1>2 DEF Row
<1>9. e.init = r.init
  BY <1>2 DEF Row
<1> HIDE DEF e
<1>10. /\ rows'[s] = e /\ rows[s] = r
       /\ \A q \in Schedules : q # s => rows'[q] = rows[q]
       /\ rows' \in [Schedules -> Row]
  BY <1>1, <1>7 DEF Inv, SchedulesTypeOK, r
<1>11. /\ DOMAIN claims' = Tokens /\ claims'[t] = c
       /\ \A q \in Tokens : q # t => claims'[q] = claims[q]
  BY <1>1 DEF Inv, SchedulesTypeOK
<1>12. SchedulesTypeOK'
  BY <1>1, <1>2, <1>4, <1>5, <1>8, <1>10, <1>11 DEF Inv, SchedulesTypeOK
<1>13. BehindCursor'
  BY <1>1, <1>8, <1>9, <1>10 DEF Inv, SchedulesTypeOK, BehindCursor
<1>14. SeenBefore'
  BY <1>1, <1>8, <1>10 DEF Inv, SchedulesTypeOK, SeenBefore
<1>15. ClaimsCurrent'
  <2> SUFFICES ASSUME NEW q \in Tokens, claims'[q] # NoClaim
               PROVE  LET w == rows'[claims'[q].of] IN
                      /\ w.state # "absent"
                      /\ claims'[q].version <= w.version
                      /\ claims'[q].version = w.version => claims'[q].def = w.def
    BY DEF ClaimsCurrent, NoClaim
  <2>1. CASE q = t
    BY <1>1, <1>4, <1>5, <1>8, <1>10, <1>11, <2>1
  <2>2. CASE q # t
    <3>1. claims[q].of \in Schedules
      BY <1>11, <2>2 DEF Inv, SchedulesTypeOK
    <3> QED
      BY <1>8, <1>10, <1>11, <2>2, <3>1 DEF Inv, ClaimsCurrent
  <2> QED
    BY <2>1, <2>2
<1>16. TokenOwned'
  <2> SUFFICES ASSUME NEW q \in Schedules, rows'[q].token # None
               PROVE  /\ claims'[rows'[q].token] # NoClaim /\ claims'[rows'[q].token].of = q
                      /\ rows'[q].asOf <= now'
    BY DEF TokenOwned, NoClaim
  <2>1. CASE q = s
    BY <1>1, <1>2, <1>5, <1>6, <1>8, <1>10, <1>11, <2>1
  <2>2. CASE q # s
    <3>1. rows[q].token \in Tokens /\ rows[q].token = rows'[q].token
      BY <1>10, <2>2 DEF Inv, SchedulesTypeOK, Row
    <3>2. /\ claims[rows[q].token] # NoClaim /\ claims[rows[q].token].of = q
          /\ rows[q].asOf <= now
      BY <3>1 DEF Inv, TokenOwned
    <3> QED
      BY <1>1, <1>10, <1>11, <2>2, <3>1, <3>2
  <2> QED
    BY <2>1, <2>2
<1>17. Quiet
  <2> SUFFICES ASSUME NEW q \in Schedules
               PROVE  /\ rows'[q].init =>
                            /\ rows[q].init /\ rows'[q].next = rows[q].next
                            /\ rows'[q].def = rows[q].def /\ rows'[q].off = rows[q].off
                      /\ rows'[q].token # None =>
                            \/ /\ rows'[q].token = rows[q].token /\ rows'[q].asOf = rows[q].asOf
                               /\ claims'[rows[q].token] = claims[rows[q].token]
                            \/ /\ rows'[q].next <= rows'[q].asOf
                               /\ claims'[rows'[q].token].proposal =
                                     evaluate_schedule(rows'[q], rows'[q].asOf)
    BY <1>1 DEF Quiet
  <2>1. CASE q = s
    <3>1. evaluate_schedule(e, now) = evaluate_schedule(r, now)
      BY <1>8, <1>9, SameEvaluation
    <3> QED
      BY <1>1, <1>5, <1>8, <1>9, <1>10, <1>11, <2>1, <3>1
  <2>2. CASE q # s
    <3>1. rows[q].token \in Tokens \cup {None} /\ rows'[q] = rows[q]
      BY <1>10, <2>2 DEF Inv, SchedulesTypeOK, Row
    <3>2. rows[q].token # None => rows[q].token # t
      BY <1>1 DEF Inv, TokenOwned
    <3> QED
      BY <1>11, <3>1, <3>2
  <2> QED
    BY <2>1, <2>2
<1> QED
  BY <1>12, <1>13, <1>14, <1>15, <1>16, <1>17 DEF Inv

LEMMA WriteFired ==
    ASSUME NEW u \in Row, NEW nxt \in Int
    PROVE  [u EXCEPT !.init = TRUE, !.next = nxt, !.errors = 0] \in Row
<1>1. PICK e : e = [u EXCEPT !.init = TRUE, !.next = nxt, !.errors = 0]
  OBVIOUS
<1>2. e = [state |-> u.state, def |-> u.def, meta |-> u.meta, init |-> TRUE, next |-> nxt,
           version |-> u.version, token |-> u.token, asOf |-> u.asOf, expires |-> u.expires,
           retry |-> u.retry, errors |-> 0, audit |-> u.audit, off |-> u.off]
  BY <1>1 DEF Row
<1>3. e \in Row
  BY <1>2 DEF Row
<1> QED
  BY <1>1, <1>3

\* What fire_schedule does to its row, and what the accepted proposal is to
\* the old cursor and to the new one.
LEMMA FireFacts ==
    ASSUME Inv, NEW t \in Tokens, NEW O, NEW nxt, fire_schedule(t, O, nxt)
    PROVE  LET s == claims[t].of
               r == rows[s]
               e == rows'[s]
           IN
           /\ s \in Schedules /\ r \in Row /\ r.state = "active" /\ r.token = t
           /\ r.version = claims[t].version
           /\ rows' \in [Schedules -> Row]
           /\ \A q \in Schedules : q # s => rows'[q] = rows[q]
           /\ e.state = r.state /\ e.def = r.def /\ e.meta = r.meta /\ e.version = r.version
           /\ e.next = nxt /\ e.token = None /\ e.init /\ e.off = r.off
           /\ O \subseteq Int /\ nxt \in Int /\ nxt > r.next
           /\ \A d \in O : d <= r.asOf /\ d < nxt /\ r.next <= d
           /\ ~r.init => O = {} /\ nxt > r.asOf
<1> DEFINE s == claims[t].of
           r == rows[s]
           u == Unclaimed(r)
           e == [u EXCEPT !.init = TRUE, !.next = nxt, !.errors = 0]
<1>1. /\ claims[t] # NoClaim /\ r.state = "active" /\ r.token = t
      /\ r.version = claims[t].version
      /\ Bounds(r, O, nxt) /\ rows' = [rows EXCEPT ![s] = e]
  BY DEF fire_schedule, Fenced
<1>2. s \in Schedules
  BY <1>1 DEF Inv, SchedulesTypeOK
<1>3. r \in Row
  BY <1>2 DEF Inv, SchedulesTypeOK
<1>4. r.next \in Int /\ r.asOf \in Nat
  BY <1>3 DEF Row
<1>5. O \subseteq Int /\ nxt \in Int
  BY <1>1 DEF Bounds
<1>6. /\ nxt > r.next
      /\ \A d \in O : d <= r.asOf /\ d < nxt /\ r.next <= d
      /\ ~r.init => O = {} /\ nxt > r.asOf
  BY <1>1, <1>4, <1>5 DEF Bounds
<1>7. u \in Row
  BY <1>3, UnclaimedRow
<1>8. /\ u.token = None /\ u.state = r.state /\ u.def = r.def /\ u.meta = r.meta
      /\ u.version = r.version /\ u.off = r.off
  BY <1>3, UnclaimedRow
<1> HIDE DEF s, u
<1>9. e \in Row
  BY <1>5, <1>7, WriteFired
<1>10. /\ e.state = u.state /\ e.def = u.def /\ e.meta = u.meta /\ e.version = u.version
       /\ e.next = nxt /\ e.token = u.token /\ e.off = u.off
  BY <1>7 DEF Row
<1>init. e.init
  BY <1>7 DEF Row
<1> HIDE DEF e
<1>11. /\ rows'[s] = e /\ \A q \in Schedules : q # s => rows'[q] = rows[q]
       /\ rows' \in [Schedules -> Row]
  BY <1>1, <1>2, <1>9 DEF Inv, SchedulesTypeOK
<1> QED
  BY <1>1, <1>2, <1>3, <1>5, <1>6, <1>8, <1>10, <1>init, <1>11 DEF s

\* Whatever is proposed, firing keeps the cursor ahead of everything processed.
LEMMA FireInv ==
    ASSUME Inv, NEW t \in Tokens, NEW O, NEW nxt, fire_schedule(t, O, nxt)
    PROVE  Inv'
<1> DEFINE s     == claims[t].of
           r     == rows[s]
           e     == rows'[s]
           new   == {<<s, d>> : d \in O}
           fresh == new \ DOMAIN occs
<1>1. /\ s \in Schedules /\ r \in Row /\ r.state = "active" /\ r.token = t
      /\ rows' \in [Schedules -> Row]
      /\ \A q \in Schedules : q # s => rows'[q] = rows[q]
      /\ e.state = r.state /\ e.def = r.def /\ e.meta = r.meta /\ e.version = r.version
      /\ e.next = nxt /\ e.token = None
      /\ O \subseteq Int /\ nxt \in Int /\ nxt > r.next
      /\ \A d \in O : d <= r.asOf /\ d < nxt /\ r.next <= d
      /\ ~r.init => O = {} /\ nxt > r.asOf
  BY FireFacts
<1>2. /\ DOMAIN occs' = DOMAIN occs \cup fresh
      /\ \A o \in DOMAIN occs' :
            occs'[o] = IF o \notin fresh THEN occs[o]
                       ELSE IF Fires(s, o[2], O) THEN "live" ELSE "skipped"
      /\ seen' = seen \cup new
      /\ UNCHANGED <<now, claims, foreign>>
  BY DEF fire_schedule
<1>3. r.next \in Int /\ r.asOf \in Nat /\ r.token # None /\ r.asOf <= now /\ now \in Nat
  BY <1>1, SchedulesAssumption DEF Row, Inv, SchedulesTypeOK, TokenOwned
<1>4. \A o \in new : o[1] = s /\ o[2] \in O /\ o = <<s, o[2]>>
  OBVIOUS
<1>new. \A o \in new : o \in Schedules \X Int /\ o[2] \in Int /\ o[2] <= r.asOf
  BY <1>1, <1>4
<1>5. \A o \in seen : o[1] \in Schedules /\ o[2] \in Int
  BY DEF Inv, SchedulesTypeOK
<1>claims. claims' = claims /\ NoClaim' = NoClaim /\ now' = now
  BY <1>2 DEF NoClaim
<1> HIDE DEF s, new
<1>6. SchedulesTypeOK'
  <2>1. seen' \subseteq Schedules \X Int
    BY <1>2, <1>new DEF Inv, SchedulesTypeOK
  <2>2. DOMAIN occs' \subseteq seen'
    BY <1>2 DEF Inv, SchedulesTypeOK
  <2>3. \A o \in DOMAIN occs' : occs'[o] \in Fate
    BY <1>2 DEF Inv, SchedulesTypeOK, Fate
  <2>4. \A q \in Schedules :
           rows'[q].state # "absent" => rows'[q].def # None /\ rows'[q].meta # None
    BY <1>1 DEF Inv, SchedulesTypeOK
  <2>5. anchor' \in [Schedules -> Int \cup {None}]
    BY <1>1 DEF fire_schedule, Inv, SchedulesTypeOK
  <2> QED
    BY <1>1, <1>2, <2>1, <2>2, <2>3, <2>4, <2>5, <1>claims DEF Inv, SchedulesTypeOK
<1>7. BehindCursor'
  <2> SUFFICES ASSUME NEW o \in seen', rows'[o[1]].init PROVE o[2] < rows'[o[1]].next
    BY DEF BehindCursor
  <2>1. CASE o \in new
    BY <1>1, <1>4, <2>1
  <2>2. CASE o \in seen /\ o[1] = s
    <3>1. r.init => o[2] < r.next
      BY <2>2 DEF Inv, BehindCursor
    <3>2. o[2] <= r.asOf
      BY <1>3, <2>2 DEF Inv, SeenBefore
    <3> QED
      BY <1>1, <1>3, <1>5, <2>2, <3>1, <3>2
  <2>3. CASE o \in seen /\ o[1] # s
    BY <1>1, <1>5, <2>3 DEF Inv, BehindCursor
  <2> QED
    BY <1>2, <2>1, <2>2, <2>3
<1>8. SeenBefore'
  <2> SUFFICES ASSUME NEW o \in seen'
               PROVE  o[2] <= now /\ (rows'[o[1]].token # None => o[2] <= rows'[o[1]].asOf)
    BY <1>2 DEF SeenBefore
  <2>1. CASE o \in new
    <3>1. o[2] <= now
      BY <1>3, <1>new, <2>1
    <3>2. rows'[o[1]].token = None
      BY <1>1, <1>4, <2>1
    <3> QED
      BY <3>1, <3>2
  <2>2. CASE o \in seen /\ o[1] = s
    <3>1. o[2] <= now
      BY <2>2 DEF Inv, SeenBefore
    <3> QED
      BY <1>1, <2>2, <3>1
  <2>3. CASE o \in seen /\ o[1] # s
    BY <1>1, <1>5, <2>3 DEF Inv, SeenBefore
  <2> QED
    BY <1>2, <2>1, <2>2, <2>3
<1>9. ClaimsCurrent'
  <2> SUFFICES ASSUME NEW q \in Tokens, claims[q] # NoClaim
               PROVE  LET w == rows'[claims[q].of] IN
                      /\ w.state # "absent"
                      /\ claims[q].version <= w.version
                      /\ claims[q].version = w.version => claims[q].def = w.def
    BY <1>2 DEF ClaimsCurrent, NoClaim
  <2>1. claims[q].of \in Schedules
    BY DEF Inv, SchedulesTypeOK
  <2> QED
    BY <1>1, <2>1 DEF Inv, ClaimsCurrent
<1>10. TokenOwned'
  BY <1>1, <1>2 DEF Inv, TokenOwned, NoClaim
<1> QED
  BY <1>6, <1>7, <1>8, <1>9, <1>10 DEF Inv

\* What happens to the jobs and to old rows of the ledger does not matter.
LEMMA LedgerInv ==
    ASSUME Inv, DOMAIN occs' \subseteq DOMAIN occs,
           \A o \in DOMAIN occs' : occs'[o] \in Fate,
           UNCHANGED <<now, rows, claims, foreign, seen, anchor>>
    PROVE  Inv' /\ Quiet
<1> USE DEF Inv
<1>1. SchedulesTypeOK'
  BY DEF SchedulesTypeOK, NoClaim
<1>2. BehindCursor'
  BY DEF BehindCursor
<1>3. SeenBefore'
  BY DEF SeenBefore
<1>4. ClaimsCurrent'
  BY DEF ClaimsCurrent, NoClaim
<1>5. TokenOwned'
  BY DEF TokenOwned, NoClaim
<1>6. Quiet
  BY DEF Quiet
<1> QED
  BY <1>1, <1>2, <1>3, <1>4, <1>5, <1>6

LEMMA TickInv ==
    ASSUME Inv, Tick
    PROVE  Inv' /\ Quiet
<1> USE DEF Inv, Tick
<1>1. SchedulesTypeOK'
  BY DEF SchedulesTypeOK, NoClaim
<1>2. BehindCursor'
  BY DEF BehindCursor
<1>3. SeenBefore'
  BY DEF SeenBefore, SchedulesTypeOK
<1>4. ClaimsCurrent'
  BY DEF ClaimsCurrent, NoClaim
<1>5. TokenOwned'
  <2> SUFFICES ASSUME NEW s \in Schedules, rows[s].token # None PROVE rows[s].asOf <= now'
    BY DEF TokenOwned, NoClaim
  <2>1. rows[s].asOf \in Nat /\ now \in Nat
    BY DEF SchedulesTypeOK, Row
  <2> QED
    BY <2>1 DEF TokenOwned
<1>6. Quiet
  BY DEF Quiet
<1> QED
  BY <1>1, <1>2, <1>3, <1>4, <1>5, <1>6

\* A fire: of any proposal where foreign evaluators take part, of the claim's
\* otherwise.
Fire(t, O, nxt) ==
    /\ fire_schedule(t, O, nxt)
    /\ foreign \/ (O = claims[t].proposal.occs /\ nxt = claims[t].proposal.next)

\* Every step that takes a claim further is a fire or an error.
LEMMA ProcessCases ==
    ASSUME NEW t \in Tokens, ProcessClaim(t) \/ ForeignFires(t) \/ ForeignFails(t)
    PROVE  \/ \E O, nxt : Fire(t, O, nxt)
           \/ \E deterministic \in BOOLEAN : schedule_error(t, deterministic)
<1>1. CASE ProcessClaim(t)
  BY <1>1 DEF ProcessClaim, Fire
<1>2. CASE ForeignFires(t)
  BY <1>2 DEF ForeignFires, Fire
<1>3. CASE ForeignFails(t)
  BY <1>3 DEF ForeignFails
<1> QED
  BY <1>1, <1>2, <1>3

\* Every step preserves the invariant, and is quiet or a fire.
LEMMA NextInv ==
    Inv /\ [Next]_svars =>
       Inv' /\ (Quiet \/ \E t \in Tokens : \E O, nxt : Fire(t, O, nxt))
<1> SUFFICES ASSUME Inv, [Next]_svars
             PROVE  Inv' /\ (Quiet \/ \E t \in Tokens : \E O, nxt : Fire(t, O, nxt))
  OBVIOUS
<1>1. CASE \E s \in Schedules, d \in Definitions, m \in Metas, paused \in BOOLEAN :
              put_managed_schedule(s, d, m, paused)
  BY <1>1, PutInv
<1>2. CASE \E s \in Schedules, st \in {"active", "paused"} : set_schedule_state(s, st)
  BY <1>2, SetStateInv
<1>3. CASE \E s \in Schedules : retire_schedule(s)
  BY <1>3, RetireInv
<1>4. CASE \E s \in Schedules, off \in Offsets : set_schedule_smear(s, off)
  BY <1>4, SmearInv
<1>5. CASE \E s \in Schedules, t \in Tokens : claim_schedules(s, t)
  BY <1>5, ClaimInv
<1>6. CASE \E t \in Tokens : ProcessClaim(t) \/ ForeignFires(t) \/ ForeignFails(t)
  <2>1. PICK t \in Tokens : ProcessClaim(t) \/ ForeignFires(t) \/ ForeignFails(t)
    BY <1>6
  <2>2. CASE \E O, nxt : Fire(t, O, nxt)
    BY <2>2, FireInv DEF Fire
  <2>3. CASE \E deterministic \in BOOLEAN : schedule_error(t, deterministic)
    BY <2>3, ErrorInv
  <2> QED
    BY <2>1, <2>2, <2>3, ProcessCases
<1>7. CASE \E o \in DOMAIN occs, fate \in {"failed", "over"} : JobSettles(o, fate)
  <2>1. PICK o \in DOMAIN occs, fate \in {"failed", "over"} : JobSettles(o, fate)
    BY <1>7
  <2>2. \A q \in DOMAIN occs : occs[q] \in Fate
    BY DEF Inv, SchedulesTypeOK
  <2>3. DOMAIN occs' = DOMAIN occs /\ \A q \in DOMAIN occs' : occs'[q] \in Fate
    BY <2>1, <2>2 DEF JobSettles, Fate
  <2> QED
    BY <2>1, <2>3, LedgerInv DEF JobSettles
<1>8. CASE \E o \in DOMAIN occs : JobRedriven(o)
  <2>1. PICK o \in DOMAIN occs : JobRedriven(o)
    BY <1>8
  <2>2. \A q \in DOMAIN occs : occs[q] \in Fate
    BY DEF Inv, SchedulesTypeOK
  <2>3. DOMAIN occs' = DOMAIN occs /\ \A q \in DOMAIN occs' : occs'[q] \in Fate
    BY <2>1, <2>2 DEF JobRedriven, Fate
  <2> QED
    BY <2>1, <2>3, LedgerInv DEF JobRedriven
<1>9. CASE janitor
  <2>1. \A q \in DOMAIN occs : occs[q] \in Fate
    BY DEF Inv, SchedulesTypeOK
  <2>2. DOMAIN occs' \subseteq DOMAIN occs /\ \A q \in DOMAIN occs' : occs'[q] \in Fate
    BY <1>9, <2>1 DEF janitor
  <2> QED
    BY <1>9, <2>2, LedgerInv DEF janitor
<1>10. CASE Tick
  BY <1>10, TickInv
<1>11. CASE UNCHANGED svars
  BY <1>11, LedgerInv DEF svars, Inv, SchedulesTypeOK
<1> QED
  BY <1>1, <1>2, <1>3, <1>4, <1>5, <1>6, <1>7, <1>8, <1>9, <1>10, <1>11 DEF Next

\* The invariant holds in every reachable state.
THEOREM SchedulesInvariant == Spec => []Inv
<1> QED
  BY InitInv, NextInv, PTL DEF Spec

\* put_managed_schedule, fire_schedule and the other functions keep the tables
\* well formed.
THEOREM SchedulesTypeCorrect == Spec => []SchedulesTypeOK
<1>1. Inv => SchedulesTypeOK
  BY DEF Inv
<1> QED
  BY <1>1, SchedulesInvariant, PTL

\* BehindCursor: the cursor stays ahead of everything fire_schedule has
\* processed, for any evaluator.
THEOREM CursorAhead == Spec => []BehindCursor
<1>1. Inv => BehindCursor
  BY DEF Inv
<1> QED
  BY <1>1, SchedulesInvariant, PTL

\* CursorByDefinition: fire_schedule is fenced by token and version, so it never
\* applies what was computed from another definition.
THEOREM FencedByDefinition == Spec => CursorByDefinition
<1>1. Inv /\ [Next]_svars =>
        [\A s \in Schedules :
            rows'[s].init /\ rows'[s].next # rows[s].next =>
               /\ rows[s].state = "active" /\ rows[s].token # None
               /\ claims[rows[s].token].of = s /\ claims[rows[s].token].def = rows[s].def]_svars
  <2> SUFFICES ASSUME Inv, [Next]_svars, NEW s \in Schedules,
                      rows'[s].init, rows'[s].next # rows[s].next
               PROVE  /\ rows[s].state = "active" /\ rows[s].token # None
                      /\ claims[rows[s].token].of = s
                      /\ claims[rows[s].token].def = rows[s].def
    OBVIOUS
  <2>1. PICK t, O, nxt : t \in Tokens /\ fire_schedule(t, O, nxt)
    BY NextInv DEF Quiet, Fire
  <2>2. /\ claims[t].of \in Schedules
        /\ rows[claims[t].of].state = "active" /\ rows[claims[t].of].token = t
        /\ rows[claims[t].of].version = claims[t].version
        /\ \A q \in Schedules : q # claims[t].of => rows'[q] = rows[q]
    BY <2>1, FireFacts
  <2>3. s = claims[t].of /\ t # None
    BY <2>1, <2>2, SchedulesAssumption
  <2>4. claims[t] # NoClaim
    BY <2>1 DEF fire_schedule, Fenced
  <2> QED
    BY <2>1, <2>2, <2>3, <2>4 DEF Inv, ClaimsCurrent
<1> QED
  BY <1>1, SchedulesInvariant, PTL DEF CursorByDefinition, Spec

\* OverlapForbidden: fire_schedule compares with earlier occurrences alone, which
\* is enough because no later one can exist.
THEOREM NoOverlap == Spec => OverlapForbidden
<1>1. Inv /\ [Next]_svars =>
        [\A o \in DOMAIN occs' \ DOMAIN occs :
            occs'[o] = "live" /\ rows[o[1]].meta.overlap = "forbid" =>
               \A e \in DOMAIN occs' : e[1] = o[1] /\ occs'[e] = "live" => e = o]_svars
  <2> SUFFICES ASSUME Inv, [Next]_svars, NEW o \in DOMAIN occs' \ DOMAIN occs,
                      occs'[o] = "live", rows[o[1]].meta.overlap = "forbid",
                      NEW e \in DOMAIN occs', e[1] = o[1], occs'[e] = "live", e # o
               PROVE  FALSE
    OBVIOUS
  <2>1. PICK t, O, nxt : t \in Tokens /\ fire_schedule(t, O, nxt)
    BY NextInv DEF Quiet, Fire
  <2> DEFINE s     == claims[t].of
             new   == {<<s, d>> : d \in O}
             fresh == new \ DOMAIN occs
  <2>2. /\ s \in Schedules /\ rows[s].next \in Int /\ O \subseteq Int
        /\ \A d \in O : rows[s].next <= d
        /\ ~rows[s].init => O = {}
    <3>1. rows[s] \in Row /\ s \in Schedules
      BY <2>1, FireFacts
    <3>2. rows[s].next \in Int
      BY <3>1 DEF Row
    <3> QED
      BY <2>1, <3>1, <3>2, FireFacts
  <2>3. /\ DOMAIN occs' = DOMAIN occs \cup fresh
        /\ \A q \in DOMAIN occs' :
              occs'[q] = IF q \notin fresh THEN occs[q]
                         ELSE IF Fires(s, q[2], O) THEN "live" ELSE "skipped"
    BY <2>1 DEF fire_schedule
  <2>4. \A q \in new : q[1] = s /\ q[2] \in O /\ q = <<s, q[2]>>
    OBVIOUS
  <2> HIDE DEF s, new
  <2>5. o \in fresh /\ Fires(s, o[2], O) /\ o[1] = s /\ o[2] \in O /\ o = <<s, o[2]>>
    BY <2>3, <2>4
  <2>int. o[2] \in Int /\ rows[s].next <= o[2]
    BY <2>2, <2>5
  <2>6. ~Overlaps(s, o[2], O) /\ OnTime(rows[s], o[2])
    BY <2>5 DEF Fires
  <2>7. CASE e \in DOMAIN occs
    <3>1. e \in seen /\ occs'[e] = occs[e]
      BY <2>3, <2>7 DEF Inv, SchedulesTypeOK
    <3>2. e[2] \in Int /\ e[2] < rows[s].next
      BY <2>2, <2>5, <3>1 DEF Inv, SchedulesTypeOK, BehindCursor
    <3>3. e[2] < o[2]
      BY <2>2, <2>int, <3>2
    <3> QED
      BY <2>5, <2>6, <2>7, <3>1, <3>3 DEF Overlaps
  <2>8. CASE e \notin DOMAIN occs
    <3>1. e \in fresh /\ Fires(s, e[2], O) /\ e[2] \in O /\ e = <<s, e[2]>>
      BY <2>3, <2>4, <2>8
    <3>2. ~Overlaps(s, e[2], O) /\ OnTime(rows[s], e[2])
      BY <2>5, <3>1 DEF Fires
    <3>3. e[2] # o[2]
      BY <2>5, <3>1
    <3>4. CASE e[2] < o[2]
      BY <2>6, <3>1, <3>2, <3>4, <2>8 DEF Overlaps
    <3>5. CASE o[2] < e[2]
      BY <2>5, <2>6, <3>2, <3>5 DEF Overlaps
    <3>6. e[2] \in Int
      BY <2>2, <3>1
    <3> QED
      BY <2>int, <3>3, <3>4, <3>5, <3>6
  <2> QED
    BY <2>7, <2>8
<1> QED
  BY <1>1, SchedulesInvariant, PTL DEF OverlapForbidden, Spec
-----------------------------------------------------------------------------
(* The evaluator *)

\* A finite set of integers has a largest element.
LEMMA LargestExists ==
    ASSUME NEW S, S \subseteq Int, IsFiniteSet(S), S # {}
    PROVE  \E m \in S : \A y \in S : y <= m
<1> DEFINE Above(x) == {y \in S : y > x}
           T == {Above(x) : x \in S}
<1>1. IsWellFoundedOn(StrictSubsetOrdering(S), FiniteSubsetsOf(S))
  BY FS_StrictSubsetOrderingWellFounded
<1>2. T \subseteq FiniteSubsetsOf(S)
  BY FS_FiniteSubsetsOfFinite
<1>3. T # {}
  OBVIOUS
<1> HIDE DEF T
<1>4. PICK A \in T : \A B \in T : ~(<<B, A>> \in StrictSubsetOrdering(S))
  BY <1>1, <1>2, <1>3, WFMin
<1>5. PICK m \in S : A = Above(m)
  BY <1>4 DEF T
<1>6. ASSUME NEW y \in S, ~(y <= m) PROVE FALSE
  <2>1. y \in Above(m) /\ y \notin Above(y)
    BY <1>6
  <2>2. Above(y) \subseteq Above(m)
    <3>1. y > m /\ y \in Int /\ m \in Int /\ \A z \in S : z \in Int
      BY <1>6
    <3>2. \A z \in Int : z > y => z > m
      BY <3>1
    <3> QED
      BY <3>1, <3>2
  <2>3. Above(y) \in T /\ Above(y) \in SUBSET S /\ Above(m) \in SUBSET S
    BY DEF T
  <2>4. <<Above(y), Above(m)>> \in StrictSubsetOrdering(S)
    BY <2>1, <2>2, <2>3 DEF StrictSubsetOrdering
  <2> QED
    BY <1>4, <1>5, <2>3, <2>4
<1> QED
  BY <1>6

LEMMA Quotient ==
    ASSUME NEW a \in Int, NEW p \in Nat \ {0}, a % p = 0
    PROVE  \E k \in Int : a = k * p
<1>1. a \div p \in Int /\ a = (a \div p) * p
  OBVIOUS
<1> QED
  BY <1>1

LEMMA NextMultiple ==
    ASSUME NEW a \in Int, NEW p \in Nat \ {0}, a % p = 0
    PROVE  (a + p) % p = 0
<1>1. PICK k \in Int : a = k * p
  BY Quotient
<1>2. a + p = (k + 1) * p /\ k + 1 \in Int
  BY <1>1
<1>3. \A j \in Int : (j * p) % p = 0
  OBVIOUS
<1> QED
  BY <1>2, <1>3

LEMMA SumOfMultiples ==
    ASSUME NEW a \in Int, NEW b \in Int, NEW p \in Nat \ {0}, a % p = 0, b % p = 0
    PROVE  (a + b) % p = 0
<1>1. PICK k \in Int : a = k * p
  BY Quotient
<1>2. PICK j \in Int : b = j * p
  BY Quotient
<1>3. a + b = (k + j) * p /\ k + j \in Int
  BY <1>1, <1>2
<1>4. \A i \in Int : (i * p) % p = 0
  OBVIOUS
<1> QED
  BY <1>3, <1>4

\* Multiples of a period: their differences are, and there is none between one
\* and the next.
LEMMA Multiples ==
    ASSUME NEW a \in Int, NEW b \in Int, NEW p \in Nat \ {0}, a % p = 0
    PROVE  /\ b % p = 0 => (a - b) % p = 0
           /\ b % p = 0 /\ a > b => a >= b + p
           /\ a > b => a >= (b \div p + 1) * p
<1>0. \A k \in Int : (k * p) % p = 0
  OBVIOUS
<1>1. PICK k \in Int : a = k * p
  BY Quotient
<1>2. ASSUME b % p = 0 PROVE (a - b) % p = 0 /\ (a > b => a >= b + p)
  <2>1. PICK j \in Int : b = j * p
    BY <1>2, Quotient
  <2>2. a - b = (k - j) * p /\ k - j \in Int
    BY <1>1, <2>1
  <2>3. a > b => k > j
    BY <1>1, <2>1
  <2>4. k > j => k * p >= j * p + p
    OBVIOUS
  <2> QED
    BY <1>0, <1>1, <2>1, <2>2, <2>3, <2>4
<1>3. ASSUME a > b PROVE a >= (b \div p + 1) * p
  <2>1. b \div p \in Int /\ b >= (b \div p) * p
    OBVIOUS
  <2>2. k > b \div p
    BY <1>1, <1>3, <2>1
  <2> QED
    BY <1>1, <2>1, <2>2
<1> QED
  BY <1>2, <1>3

\* fire_all: whatever fits of the instants due, the cursor stops behind the last
\* of them, so that none before it is left out.
LEMMA OldestComplete ==
    ASSUME NEW d \in Definition, NEW due \in Int, NEW cut \in Int, due <= cut
    PROVE  LET e == Oldest(d, due, cut) IN
           /\ e.next \in Int
           /\ \A x \in Int : due <= x /\ x < e.next /\ OnLattice(d, due, x) => x \in e.occs
           /\ d.kind = "interval" => (e.next - due) % d.period = 0
<1> DEFINE points == {x \in due..cut : x = due \/ OnLattice(d, due, x)}
           before(x) == {y \in points : y < x}
           first == {x \in points : Cardinality(before(x)) < d.max}
           m == CHOOSE x \in first : \A y \in first : y <= x
           p == d.period
<1>1. p \in Nat \ {0} /\ d.max \in Nat \ {0} /\ d.kind \in {"interval", "cron", "broken"}
  BY DEF Definition
<1>2. Oldest(d, due, cut) = [occs |-> first, next |-> _next(d, m)]
  BY DEF Oldest
<1>3. points \subseteq due..cut /\ due \in points /\ IsFiniteSet(points)
  <2>1. points \subseteq due..cut /\ due \in due..cut
    OBVIOUS
  <2>2. due \in points
    BY <2>1
  <2>3. IsFiniteSet(due..cut)
    BY FS_Interval
  <2> HIDE DEF points
  <2> QED
    BY <2>1, <2>2, <2>3, FS_Subset
<1>4. \A x : before(x) \subseteq points /\ IsFiniteSet(before(x))
  BY <1>3, FS_Subset
<1>5. due \in first
  <2>1. before(due) = {}
    OBVIOUS
  <2>2. Cardinality(before(due)) = 0
    BY <2>1, FS_EmptySet
  <2> QED
    BY <1>1, <1>3, <2>2
<1>6. first \subseteq points /\ first \subseteq Int /\ IsFiniteSet(first)
  <2>1. first \subseteq points
    OBVIOUS
  <2>2. due..cut \subseteq Int
    OBVIOUS
  <2> HIDE DEF first, points
  <2> QED
    BY <1>3, <2>1, <2>2, FS_Subset
<1>7. m \in first /\ \A y \in first : y <= m
  <2>1. \E x \in first : \A y \in first : y <= x
    BY <1>5, <1>6, LargestExists
  <2> QED
    BY <2>1
<1>8. ASSUME NEW x \in points, x <= m PROVE x \in first
  <2>1. before(x) \subseteq before(m)
    <3>1. x \in Int /\ m \in Int /\ points \subseteq Int
      <4>1. due..cut \subseteq Int
        OBVIOUS
      <4> HIDE DEF points, first, m
      <4> QED
        BY <1>3, <1>6, <1>7, <1>8, <4>1
    <3>2. \A y \in Int : y < x => y < m
      BY <1>8, <3>1
    <3> HIDE DEF m
    <3> QED
      BY <3>1, <3>2
  <2>2. Cardinality(before(x)) <= Cardinality(before(m))
    BY <1>4, <2>1, FS_Subset
  <2>3. Cardinality(before(m)) < d.max
    BY <1>7
  <2>4. Cardinality(before(x)) \in Nat /\ Cardinality(before(m)) \in Nat
    BY <1>4, FS_CardinalityType
  <2> HIDE DEF before, points, m
  <2>5. Cardinality(before(x)) < d.max
    BY <1>1, <2>2, <2>3, <2>4
  <2> QED
    BY <1>8, <2>5
<1>9. m \in Int /\ m <= cut /\ due <= m /\ (m = due \/ OnLattice(d, due, m))
  <2>1. m \in points
    BY <1>6, <1>7
  <2> HIDE DEF m, first
  <2> QED
    BY <2>1
<1> HIDE DEF m, first, points
<1>10. ASSUME NEW x \in Int, due <= x, x <= m, OnLattice(d, due, x) PROVE x \in first
  <2>1. x \in points
    BY <1>9, <1>10 DEF points
  <2> QED
    BY <1>8, <1>10, <2>1
<1>11. CASE d.kind = "interval"
  <2>1. _next(d, m) = m + p /\ \A x : OnLattice(d, due, x) <=> (x - due) % p = 0
    BY <1>11 DEF _next, OnLattice
  <2>2. (m - due) % p = 0
    <3>1. (0 * p) % p = 0
      BY <1>1
    <3> QED
      BY <1>1, <1>9, <2>1, <3>1
  <2>3. ((m - due) + p) % p = 0
    <3>1. m - due \in Int /\ p \in Nat \ {0}
      BY <1>1, <1>9
    <3> HIDE DEF p
    <3> QED
      BY <2>2, <3>1, NextMultiple
  <2>4. ASSUME NEW x \in Int, x < m + p, OnLattice(d, due, x) PROVE x <= m
    <3>1. (x - due) % p = 0 /\ x - due \in Int /\ m - due \in Int
      BY <1>9, <2>1, <2>4
    <3>2. x - due > m - due => x - due >= (m - due) + p
      BY <1>1, <2>2, <3>1, Multiples
    <3> HIDE DEF p
    <3> QED
      BY <1>1, <1>9, <2>4, <3>2
  <2>5. (m + p) - due = (m - due) + p /\ m + p \in Int
    BY <1>1, <1>9
  <2>6. ((m + p) - due) % p = 0
    BY <2>3, <2>5
  <2>7. \A x \in Int : due <= x /\ x < m + p /\ OnLattice(d, due, x) => x \in first
    BY <1>10, <2>4
  <2> HIDE DEF points, first, m
  <2> QED
    BY <1>2, <2>1, <2>5, <2>6, <2>7
<1>12. CASE d.kind # "interval"
  <2>1. _next(d, m) = (m \div p + 1) * p /\ \A x : OnLattice(d, due, x) <=> x % p = 0
    BY <1>12 DEF _next, OnLattice
  <2>2. (m \div p + 1) * p \in Int
    BY <1>1, <1>9
  <2>3. ASSUME NEW x \in Int, x < (m \div p + 1) * p, OnLattice(d, due, x) PROVE x <= m
    <3>1. x > m => x >= (m \div p + 1) * p
      BY <1>1, <1>9, <2>1, <2>3, Multiples
    <3>2. \A n \in Int : x < n /\ (x > m => x >= n) => x <= m
      BY <1>9
    <3> QED
      BY <2>2, <2>3, <3>1, <3>2
  <2> HIDE DEF p
  <2> QED
    BY <1>2, <1>10, <1>12, <2>1, <2>2, <2>3
<1> QED
  BY <1>11, <1>12

\* What the package proposes for a running fire_all schedule that is due leaves
\* no instant before the new cursor out.
LEMMA EvaluatedAll ==
    ASSUME NEW r \in Row, NEW n \in Int, r.init, r.def \in Definitions,
           r.def.policy = "fire_all", r.next <= n, evaluate_schedule(r, n).next \in Int
    PROVE  LET p == evaluate_schedule(r, n) IN
           /\ \A x \in Int :
                 r.next <= x /\ x < p.next /\ OnLattice(r.def, r.next - r.off, x - r.off) =>
                    x \in p.occs
           /\ r.def.kind = "interval" => (p.next - r.next) % r.def.period = 0
<1> DEFINE d   == r.def
           due == r.next - r.off
           cut == n - r.off
           e   == Oldest(d, due, cut)
           p   == evaluate_schedule(r, n)
<1>1. d \in Definition /\ r.next \in Int /\ r.off \in Int /\ None \notin Int
  <2>1. r.next \in Int /\ r.off \in Offsets
    BY DEF Row
  <2>2. (\A o \in Offsets : o \in Int) /\ Definitions \subseteq Definition /\ None \notin Int
    BY SchedulesAssumption
  <2>3. d \in Definition
    BY <2>2
  <2> QED
    BY <2>1, <2>2, <2>3
<1>2. due \in Int /\ cut \in Int /\ due <= cut
  BY <1>1
<1>3. /\ e.next \in Int
      /\ \A x \in Int : due <= x /\ x < e.next /\ OnLattice(d, due, x) => x \in e.occs
      /\ d.kind = "interval" => (e.next - due) % d.period = 0
  <2> HIDE DEF d, due, cut
  <2> QED
    BY <1>1, <1>2, OldestComplete
<1> HIDE DEF e
<1>4. d.kind # "broken"
  BY <1>1 DEF evaluate_schedule, _evaluate_base
<1>5. _evaluate_base(d, r.init, due, cut) = e
  BY <1>4 DEF _evaluate_base, e
<1>6. p.occs = {x + r.off : x \in e.occs} /\ p.next = e.next + r.off
  BY <1>1, <1>3, <1>5 DEF evaluate_schedule
<1>7. ASSUME NEW x \in Int, r.next <= x, x < p.next, OnLattice(d, due, x - r.off)
      PROVE  x \in p.occs
  <2>1. x - r.off \in Int /\ due <= x - r.off /\ x - r.off < e.next
    BY <1>1, <1>3, <1>6, <1>7
  <2>2. x - r.off \in e.occs /\ x = (x - r.off) + r.off
    BY <1>1, <1>3, <1>7, <2>1
  <2> QED
    BY <1>6, <2>2
<1>8. p.next - r.next = e.next - due
  BY <1>1, <1>3, <1>6
<1> QED
  BY <1>3, <1>7, <1>8

\* Two instants of a recurrence: what is an instant seen from the one is an
\* instant seen from the other.
LEMMA SameLattice ==
    ASSUME NEW d \in Definition, NEW a \in Int, NEW b \in Int, NEW x \in Int, NEW o \in Int,
           d.kind = "interval" => (b - a) % d.period = 0,
           OnLattice(d, a - o, x - o)
    PROVE  OnLattice(d, b - o, x - o)
<1>1. CASE d.kind = "interval"
  <2>1. (x - o) - (a - o) = x - a /\ (x - o) - (b - o) = (x - a) - (b - a)
    OBVIOUS
  <2>2. (x - a) % d.period = 0 /\ d.period \in Nat \ {0}
    BY <1>1, <2>1 DEF OnLattice, Definition
  <2>3. x - a \in Int /\ b - a \in Int
    OBVIOUS
  <2>4. ((x - a) - (b - a)) % d.period = 0
    BY <1>1, <2>2, <2>3, Multiples
  <2> QED
    BY <1>1, <2>1, <2>4 DEF OnLattice
<1>2. CASE d.kind # "interval"
  BY <1>2 DEF OnLattice
<1> QED
  BY <1>1, <1>2

\* The account of a running schedule: a claim on it was evaluated at its cursor,
\* and between the anchor and the cursor, both instants of the recurrence, no
\* instant is missing.
Account ==
    \A s \in Schedules :
        LET r == rows[s] IN
        r.init =>
           /\ r.def # None
           /\ anchor[s] # None =>
                /\ r.token # None =>
                      /\ r.next <= r.asOf
                      /\ claims[r.token].proposal = evaluate_schedule(r, r.asOf)
                /\ ~foreign /\ r.def.policy = "fire_all" =>
                      /\ r.def.kind = "interval" => (r.next - anchor[s]) % r.def.period = 0
                      /\ \A x \in anchor[s]..(r.next - 1) :
                            OnLattice(r.def, anchor[s] - r.off, x - r.off) => <<s, x>> \in seen

LEMMA InitAccount == Init => Account
  BY DEF Init, Account, NoRow

\* A step that is no fire leaves the account as it is, or closes it.
LEMMA QuietAccount ==
    ASSUME Inv, Account, Quiet
    PROVE  Account'
<1> SUFFICES ASSUME NEW s \in Schedules, rows'[s].init
             PROVE  LET r == rows'[s] IN
                    /\ r.def # None
                    /\ anchor'[s] # None =>
                         /\ r.token # None =>
                               /\ r.next <= r.asOf
                               /\ claims'[r.token].proposal = evaluate_schedule(r, r.asOf)
                         /\ ~foreign' /\ r.def.policy = "fire_all" =>
                               /\ r.def.kind = "interval" =>
                                     (r.next - anchor'[s]) % r.def.period = 0
                               /\ \A x \in anchor'[s]..(r.next - 1) :
                                     OnLattice(r.def, anchor'[s] - r.off, x - r.off) =>
                                        <<s, x>> \in seen'
  BY DEF Account, evaluate_schedule, _evaluate_base, Oldest, Latest, _next, OnLattice
<1> DEFINE r == rows[s]
           e == rows'[s]
<1>1. /\ r.init /\ e.next = r.next /\ e.def = r.def /\ r.def # None
      /\ seen' = seen /\ foreign' = foreign
  BY DEF Quiet, Account
<1>2. ASSUME anchor'[s] # None PROVE anchor'[s] = anchor[s] /\ e.off = r.off
  BY <1>2 DEF Quiet
<1>3. ASSUME anchor'[s] # None, e.token # None
      PROVE  e.next <= e.asOf /\ claims'[e.token].proposal = evaluate_schedule(e, e.asOf)
  <2>1. CASE e.token = r.token /\ e.asOf = r.asOf /\ claims'[r.token] = claims[r.token]
    <3>1. r.next <= r.asOf /\ claims[r.token].proposal = evaluate_schedule(r, r.asOf)
      BY <1>1, <1>2, <1>3, <2>1 DEF Account
    <3>2. evaluate_schedule(e, r.asOf) = evaluate_schedule(r, r.asOf)
      <4>1. e.init = r.init
        BY <1>1 DEF Inv, SchedulesTypeOK
      <4> QED
        BY <1>1, <1>2, <1>3, <4>1, SameEvaluation
    <3> QED
      BY <1>1, <2>1, <3>1, <3>2
  <2>2. CASE /\ e.next <= e.asOf
             /\ claims'[e.token].proposal = evaluate_schedule(e, e.asOf)
    BY <2>2
  <2> QED
    BY <1>3, <2>1, <2>2 DEF Quiet
<1>4. ASSUME anchor'[s] # None, ~foreign, r.def.policy = "fire_all"
      PROVE  /\ e.def.kind = "interval" => (e.next - anchor'[s]) % e.def.period = 0
             /\ \A x \in anchor'[s]..(e.next - 1) :
                   OnLattice(e.def, anchor'[s] - e.off, x - e.off) => <<s, x>> \in seen'
  BY <1>1, <1>2, <1>4 DEF Account
<1> QED
  BY <1>1, <1>3, <1>4

\* A fire moves the cursor over instants it records, or opens an account.
LEMMA FireAccount ==
    ASSUME Inv, Account, NEW t \in Tokens, NEW O, NEW nxt, Fire(t, O, nxt)
    PROVE  Account'
<1> DEFINE s == claims[t].of
           r == rows[s]
           e == rows'[s]
<1>1. /\ s \in Schedules /\ r \in Row /\ r.state = "active" /\ r.token = t
      /\ \A q \in Schedules : q # s => rows'[q] = rows[q]
      /\ e.def = r.def /\ e.next = nxt /\ e.token = None /\ e.init /\ e.off = r.off
      /\ nxt \in Int /\ nxt > r.next
  BY FireFacts DEF Fire
<1>2. /\ seen' = seen \cup {<<s, d>> : d \in O}
      /\ anchor' = IF r.init THEN anchor ELSE [anchor EXCEPT ![s] = nxt]
      /\ claims' = claims /\ foreign' = foreign
  BY DEF Fire, fire_schedule
<1>3. r.def \in Definitions /\ r.def # None /\ r.next \in Int /\ r.off \in Int
  <2>1. r.def # None
    BY <1>1 DEF Inv, SchedulesTypeOK
  <2>2. r.def \in Definitions \cup {None} /\ r.next \in Int /\ r.off \in Offsets
    BY <1>1 DEF Row
  <2>3. \A o \in Offsets : o \in Int
    BY SchedulesAssumption
  <2> QED
    BY <2>1, <2>2, <2>3
<1>4. anchor[s] \in Int \cup {None} /\ t # None /\ DOMAIN anchor = Schedules
  BY <1>1, SchedulesAssumption DEF Inv, SchedulesTypeOK
<1> SUFFICES ASSUME NEW q \in Schedules, rows'[q].init
             PROVE  LET w == rows'[q] IN
                    /\ w.def # None
                    /\ anchor'[q] # None =>
                         /\ w.token # None =>
                               /\ w.next <= w.asOf
                               /\ claims'[w.token].proposal = evaluate_schedule(w, w.asOf)
                         /\ ~foreign' /\ w.def.policy = "fire_all" =>
                               /\ w.def.kind = "interval" =>
                                     (w.next - anchor'[q]) % w.def.period = 0
                               /\ \A x \in anchor'[q]..(w.next - 1) :
                                     OnLattice(w.def, anchor'[q] - w.off, x - w.off) =>
                                        <<q, x>> \in seen'
  BY DEF Account, evaluate_schedule, _evaluate_base, Oldest, Latest, _next, OnLattice
<1>5. CASE q # s
  <2>1. rows'[q] = rows[q] /\ anchor'[q] = anchor[q] /\ seen \subseteq seen'
    BY <1>1, <1>2, <1>4, <1>5
  <2> HIDE DEF s
  <2> QED
    BY <1>2, <2>1 DEF Account
<1>6. CASE q = s
  <2> HIDE DEF s
  <2> SUFFICES ASSUME anchor'[s] # None, ~foreign, r.def.policy = "fire_all"
               PROVE  /\ r.def.kind = "interval" => (nxt - anchor'[s]) % r.def.period = 0
                      /\ \A x \in anchor'[s]..(nxt - 1) :
                            OnLattice(r.def, anchor'[s] - r.off, x - r.off) =>
                               <<s, x>> \in seen'
    BY <1>1, <1>2, <1>3, <1>6
  <2>1. CASE ~r.init
    <3>1. anchor'[s] = nxt /\ nxt..(nxt - 1) = {} /\ nxt - nxt = 0
      BY <1>1, <1>2, <1>4, <2>1
    <3>2. \A p \in Nat \ {0} : 0 % p = 0
      OBVIOUS
    <3>3. r.def.period \in Nat \ {0}
      BY <1>3, SchedulesAssumption DEF Definition
    <3> QED
      BY <3>1, <3>2, <3>3
  <2>2. CASE r.init
    <3>1. anchor'[s] = anchor[s] /\ anchor[s] \in Int
      BY <1>2, <1>4, <2>2
    <3> DEFINE a == anchor[s]
               p == evaluate_schedule(r, r.asOf)
    <3>2. /\ r.next <= r.asOf /\ claims[t].proposal = p
          /\ r.def.kind = "interval" => (r.next - a) % r.def.period = 0
          /\ \A x \in a..(r.next - 1) : OnLattice(r.def, a - r.off, x - r.off) => <<s, x>> \in seen
      BY <1>1, <1>4, <2>2, <3>1 DEF Account
    <3>3. O = p.occs /\ nxt = p.next
      BY <3>2 DEF Fire
    <3>4. r.asOf \in Int /\ r.def \in Definition /\ a \in Int
      BY <1>1, <1>3, <3>1, SchedulesAssumption DEF Row
    <3>5. /\ \A x \in Int :
                r.next <= x /\ x < nxt /\ OnLattice(r.def, r.next - r.off, x - r.off) => x \in O
          /\ r.def.kind = "interval" => (nxt - r.next) % r.def.period = 0
      <4>1. r.next <= r.asOf /\ p.next \in Int
        BY <1>1, <3>2, <3>3
      <4> QED
        BY <1>1, <1>3, <2>2, <3>3, <3>4, <4>1, EvaluatedAll
    <3> HIDE DEF r, a, p
    <3>6. ASSUME r.def.kind = "interval" PROVE (nxt - a) % r.def.period = 0
      <4>1. r.def.period \in Nat \ {0}
        BY <3>4 DEF Definition
      <4>2. (nxt - r.next) % r.def.period = 0 /\ (r.next - a) % r.def.period = 0
        BY <3>2, <3>5, <3>6
      <4>3. nxt - r.next \in Int /\ r.next - a \in Int
        BY <1>1, <1>3, <3>4
      <4>4. ((nxt - r.next) + (r.next - a)) % r.def.period = 0
        BY <4>1, <4>2, <4>3, SumOfMultiples
      <4>5. nxt - a = (nxt - r.next) + (r.next - a)
        BY <1>1, <1>3, <3>4
      <4> QED
        BY <4>4, <4>5
    <3>7. ASSUME NEW x \in a..(nxt - 1), OnLattice(r.def, a - r.off, x - r.off)
          PROVE  <<s, x>> \in seen'
      <4>1. x \in Int /\ a <= x /\ x < nxt
        BY <1>1, <3>4, <3>7
      <4>2. CASE x < r.next
        <5>1. x \in a..(r.next - 1)
          BY <1>3, <3>4, <4>1, <4>2
        <5> QED
          BY <1>2, <3>2, <3>7, <5>1
      <4>3. CASE r.next <= x
        <5>1. OnLattice(r.def, r.next - r.off, x - r.off)
          BY <1>3, <3>2, <3>4, <3>7, <4>1, SameLattice
        <5>2. x \in O
          BY <3>5, <4>1, <4>3, <5>1
        <5> QED
          BY <1>2, <5>2
      <4> QED
        BY <1>3, <4>1, <4>2, <4>3
    <3> QED
      BY <3>1, <3>6, <3>7 DEF a
  <2> QED
    BY <2>1, <2>2
<1> QED
  BY <1>5, <1>6

\* NothingMissed: an evaluator that works from the claim alone, behind by any
\* number of instants and cut off at max_catchup, makes up for all of them.
THEOREM NothingIsMissed == Spec => []NothingMissed
<1>1. Init => Inv /\ Account
  BY InitInv, InitAccount
<1>2. (Inv /\ Account) /\ [Next]_svars => (Inv /\ Account)'
  BY NextInv, QuietAccount, FireAccount
<1>3. Account => NothingMissed
  BY DEF Account, NothingMissed
<1> QED
  BY <1>1, <1>2, <1>3, PTL DEF Spec

=============================================================================
