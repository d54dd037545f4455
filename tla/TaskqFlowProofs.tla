--------------------------- MODULE TaskqFlowProofs ---------------------------
(***************************************************************************)
(* The breaker, the concurrency keys and the queue's cap, for any number   *)
(* of claims, jobs and keys and any configuration: at most one probe per   *)
(* opening, no trip without the settlements for it, no key above its cap,  *)
(* and the queue above its cap by no more than concurrent claims take.     *)
(***************************************************************************)
EXTENDS TaskqFlow, FiniteSetTheorems, TLAPS

\* One claim at most has an update of the row that is not committed, and the row
\* is still as it was when the claim wrote.
OneWriter == \A c, d \in Claims : claim[c].write # None /\ claim[d].write # None => c = d

WriteFits ==
    \A c \in Claims :
      /\ claim[c].write = "half_open" => flow.state = "open"
      /\ claim[c].write = "open" => flow.state = "half_open"

\* Only a half-open breaker has elected a probe.
Elections ==
    /\ flow.state # "half_open" => past.elections = 0
    /\ past.elections <= 1

\* While the breaker is closed its own counters are backed by what was settled.
Evidence ==
    /\ ~past.groundless
    /\ flow.state = "closed" =>
         /\ flow.streak <= past.fail
         /\ flow.window.all <= past.all \/ past.all >= Volume

\* A claim has the lock of the key of every job it took, alone, and with its
\* jobs the key is not over its cap.
OwnOf(c, k) == {j \in claim[c].took : KeyOf[j] = k}

KeysOwned ==
    \A c \in Claims : \A j \in claim[c].took : KeyOf[j] # None => KeyOf[j] \in claim[c].keys

KeysApart == \A c, d \in Claims : c # d => claim[c].keys \cap claim[d].keys = {}

RoomKept ==
    \A c \in Claims : \A k \in claim[c].keys :
      Cardinality(RunningOf(k) \cup OwnOf(c, k)) <= KeyCap

\* A claim that picks rows takes no more than its batch, and the others have none.
BatchKept ==
    \A c \in Claims :
      /\ claim[c].pc # "pick" => claim[c].took = {}
      /\ claim[c].pc = "pick" => /\ claim[c].batch <= QueueCap
                                /\ Cardinality(claim[c].took) <= claim[c].batch

\* The cap was read by the claims that pick: the one that read it last saw the
\* jobs that run now, or fewer have come since than the others could take.
Picking == {c \in Claims : claim[c].pc = "pick"}

RoomAhead ==
    IF Picking = {}
    THEN Cardinality(running) <= QueueCap * Cardinality(Claims)
    ELSE \E c \in Picking :
           Cardinality(running) + claim[c].batch + QueueCap * Cardinality(Picking \ {c})
             <= QueueCap * Cardinality(Claims)

BreakerInv == FlowTypeOK /\ OneWriter /\ WriteFits /\ Elections /\ Evidence

KeysInv == FlowTypeOK /\ KeysOwned /\ KeysApart /\ RoomKept /\ KeyCapsHold

CapInv == FlowTypeOK /\ BatchKept /\ RoomAhead

-----------------------------------------------------------------------------
(* Types *)

LEMMA AtMostNat == ASSUME NEW n \in Nat, NEW b \in Nat PROVE AtMost(n, b) \in Nat
BY DEF AtMost

LEMMA ConfigTyped ==
    /\ KeyCap \in Nat \ {0} /\ QueueCap \in Nat \ {0} /\ Batch \in Nat \ {0}
    /\ Threshold \in Nat \ {0} /\ Cooldown \in Nat \ {0} /\ Needed \in Nat \ {0}
    /\ Volume \in Nat \ {0} /\ MaxElapsed \in Nat
BY FlowAssumption

LEMMA BecomesTyped ==
    ASSUME FlowTypeOK, NEW c \in Claims, NEW r \in ClaimType, Becomes(c, r)
    PROVE  /\ claim' \in [Claims -> ClaimType]
           /\ claim'[c] = r
           /\ \A d \in Claims \ {c} : claim'[d] = claim[d]
BY DEF FlowTypeOK, Becomes

LEMMA FlowUpdates ==
    ASSUME FlowTypeOK
    PROVE  /\ flow.on \in BOOLEAN /\ flow.age \in Nat /\ flow.streak \in Nat
           /\ flow.probes \in Nat
           /\ flow.state \in {"closed", "open", "half_open"}
           /\ flow.window \in [fail : Nat, all : Nat]
           /\ Closed \in FlowType
           /\ \A e \in Nat : Opened(e) \in FlowType
           /\ [past EXCEPT !.fail = 0, !.all = 0, !.elections = 0] \in PastType
<1>1. flow \in FlowType /\ past \in PastType
  BY DEF FlowTypeOK
<1> QED
  BY <1>1 DEF FlowType, PastType, Closed, Opened, NoWindow

LEMMA ClaimParts ==
    ASSUME FlowTypeOK, NEW c \in Claims
    PROVE  /\ claim[c] \in ClaimType
           /\ Throttled(c) \in ClaimType /\ Through(c) \in ClaimType
           /\ WaitsTo(c, "elect") \in ClaimType /\ WaitsTo(c, "reopen") \in ClaimType
           /\ NoClaim \in ClaimType
           /\ claim[c].elapsed \in Nat /\ claim[c].took \subseteq Jobs
           /\ claim[c].skip \subseteq Jobs /\ claim[c].keys \subseteq Keys
<1>1. claim[c] \in ClaimType
  BY DEF FlowTypeOK
<1>2. NoClaim \in ClaimType
  BY DEF NoClaim, ClaimType
<1>3. Throttled(c) \in ClaimType /\ Through(c) \in ClaimType
  BY <1>1 DEF ClaimType, Throttled, Through
<1>4. WaitsTo(c, "elect") \in ClaimType /\ WaitsTo(c, "reopen") \in ClaimType
  BY <1>1 DEF ClaimType, WaitsTo
<1> QED
  BY <1>1, <1>2, <1>3, <1>4 DEF ClaimType

LEMMA SettleTyped ==
    ASSUME FlowTypeOK, NEW bad \in BOOLEAN, NEW fresh \in BOOLEAN, NEW elapsed \in Nat
    PROVE  /\ HalfOpenSettle(bad, elapsed) => flow' \in FlowType /\ past' \in PastType
           /\ ClosedSettle(bad, elapsed, fresh) => flow' \in FlowType /\ past' \in PastType
<1> USE FlowUpdates, FlowAssumption
<1>1. flow \in FlowType /\ past \in PastType
  BY DEF FlowTypeOK
<1>2. ASSUME HalfOpenSettle(bad, elapsed) PROVE flow' \in FlowType /\ past' \in PastType
  <2>1. flow' \in FlowType
    <3>1. [flow EXCEPT !.probes = @ + 1] \in FlowType
      BY <1>1 DEF FlowType
    <3> QED BY <1>2, <3>1 DEF HalfOpenSettle
  <2>2. past' \in PastType
    BY <1>1, <1>2 DEF HalfOpenSettle, Forget
  <2> QED BY <2>1, <2>2
<1>3. ASSUME ClosedSettle(bad, elapsed, fresh) PROVE flow' \in FlowType /\ past' \in PastType
  <2> DEFINE one == IF bad THEN 1 ELSE 0
             old == IF fresh THEN NoWindow ELSE flow.window
             window == [fail |-> old.fail + one, all |-> old.all + 1]
             streak == IF bad THEN flow.streak + 1 ELSE 0
  <2>1. window \in [fail : Nat, all : Nat] /\ streak \in Nat /\ one \in Nat
    BY DEF NoWindow
  <2>2. \E row \in FlowType : flow' = [row EXCEPT !.streak = streak, !.window = window]
    BY <1>1, <1>3 DEF ClosedSettle
  <2>3. flow' \in FlowType
    <3>1. \A row \in FlowType : \A n \in Nat : \A w \in [fail : Nat, all : Nat] :
             [row EXCEPT !.streak = n, !.window = w] \in FlowType
      BY DEF FlowType
    <3>2. PICK row \in FlowType : flow' = [row EXCEPT !.streak = streak, !.window = window]
      BY <2>2
    <3>3. window \in [fail : Nat, all : Nat] /\ streak \in Nat
      BY <2>1
    <3> HIDE DEF streak, window
    <3> QED BY <3>1, <3>2, <3>3
  <2>4. past.fail \in Nat /\ past.all \in Nat /\ past.groundless \in BOOLEAN
    BY <1>1 DEF PastType
  <2>5. AtMost(past.fail + one, Threshold) \in Nat /\ AtMost(past.all + 1, Volume) \in Nat
    <3>1. past.fail + one \in Nat /\ past.all + 1 \in Nat
      BY <2>1, <2>4
    <3>2. Threshold \in Nat /\ Volume \in Nat
      BY ConfigTyped
    <3> HIDE DEF one
    <3> QED BY <3>1, <3>2, AtMostNat
  <2>6. past' \in PastType
    <3>1. \A f, a \in Nat : [past EXCEPT !.fail = f, !.all = a] \in PastType
      BY <1>1 DEF PastType
    <3>2. \A g \in BOOLEAN : [fail |-> 0, all |-> 0, elections |-> 0, groundless |-> g] \in PastType
      BY DEF PastType
    <3> QED BY <1>3, <2>4, <2>5, <3>1, <3>2 DEF ClosedSettle
  <2> QED BY <2>3, <2>6
<1> QED BY <1>2, <1>3

\* Every step leaves every variable of its type.
LEMMA TypesStep == FlowTypeOK /\ [Next]_vars => FlowTypeOK'
<1> SUFFICES ASSUME FlowTypeOK, [Next]_vars PROVE FlowTypeOK'
  OBVIOUS
<1>0. running \subseteq Jobs /\ flow \in FlowType /\ claim \in [Claims -> ClaimType]
      /\ past \in PastType
  BY DEF FlowTypeOK
<1>1. ASSUME NEW c \in Claims, Gate(c) PROVE FlowTypeOK'
  <2>1. \E r \in ClaimType : Becomes(c, r)
    BY <1>1, ClaimParts DEF Gate
  <2> QED BY <1>0, <1>1, <2>1, BecomesTyped DEF FlowTypeOK, Gate
<1>2. ASSUME NEW c \in Claims, Elect(c) PROVE FlowTypeOK'
  <2>1. [Through(c) EXCEPT !.write = "half_open"] \in ClaimType
    BY ClaimParts DEF ClaimType
  <2>2. \E r \in ClaimType : Becomes(c, r)
    BY <1>2, <2>1, ClaimParts DEF Elect
  <2> QED BY <1>0, <1>2, <2>2, BecomesTyped DEF FlowTypeOK, Elect
<1>3. ASSUME NEW c \in Claims, Reopen(c) PROVE FlowTypeOK'
  <2>1. [claim[c] EXCEPT !.pc = "commit", !.write = "open"] \in ClaimType
    BY <1>0 DEF ClaimType
  <2>2. \E r \in ClaimType : Becomes(c, r)
    BY <1>3, <2>1, ClaimParts DEF Reopen
  <2> QED BY <1>0, <1>3, <2>2, BecomesTyped DEF FlowTypeOK, Reopen
<1>4. ASSUME NEW c \in Claims, Cap(c) PROVE FlowTypeOK'
  <2>1. Cardinality(running) \in Nat
    BY <1>0, FlowAssumption, FS_Subset, FS_CardinalityType
  <2>2. ASSUME Cardinality(running) < QueueCap
        PROVE  AtMost(QueueCap - Cardinality(running), Batch) \in Nat
    BY <2>1, <2>2, ConfigTyped DEF AtMost
  <2>3. \A b \in Nat : \A S \in SUBSET Keys :
           [claim[c] EXCEPT !.pc = "pick", !.batch = b, !.saturated = S] \in ClaimType
    BY <1>0 DEF ClaimType
  <2>4. {k \in Keys : Cardinality(RunningOf(k)) >= KeyCap} \in SUBSET Keys
    OBVIOUS
  <2>5. \E r \in ClaimType : Becomes(c, r)
    BY <1>4, <2>2, <2>3, <2>4, ClaimParts DEF Cap
  <2> QED BY <1>0, <1>4, <2>5, BecomesTyped DEF FlowTypeOK, Cap
<1>5. ASSUME NEW c \in Claims, NEW j \in Jobs, Pick(c, j) PROVE FlowTypeOK'
  <2>1. /\ [claim[c] EXCEPT !.took = @ \cup {j}] \in ClaimType
        /\ [claim[c] EXCEPT !.skip = @ \cup {j}] \in ClaimType
    BY <1>0 DEF ClaimType
  <2>2. \A k \in Keys :
          /\ [claim[c] EXCEPT !.keys = @ \cup {k}, !.took = @ \cup {j}] \in ClaimType
          /\ [claim[c] EXCEPT !.keys = @ \cup {k}, !.skip = @ \cup {j}] \in ClaimType
    BY <1>0 DEF ClaimType
  <2>3. KeyOf[j] # None => KeyOf[j] \in Keys
    BY FlowAssumption
  <2>4. \E r \in ClaimType : Becomes(c, r)
    BY <1>5, <2>1, <2>2, <2>3 DEF Pick
  <2> QED BY <1>0, <1>5, <2>4, BecomesTyped DEF FlowTypeOK, Pick
<1>6. ASSUME NEW c \in Claims, Commit(c) PROVE FlowTypeOK'
  <2>1. running' \subseteq Jobs
    BY <1>0, <1>6, ClaimParts DEF Commit
  <2>2. claim' \in [Claims -> ClaimType]
    BY <1>6, BecomesTyped, ClaimParts DEF Commit
  <2>3. claim[c].write \in {None, "half_open", "open"}
    BY <1>0 DEF ClaimType
  <2>4. flow' \in FlowType /\ past' \in PastType
    <3>1. [flow EXCEPT !.state = "half_open"] \in FlowType
      BY <1>0 DEF FlowType
    <3>2. [past EXCEPT !.elections = @ + 1] \in PastType
      BY <1>0 DEF PastType
    <3>3. CASE claim[c].write = None
      BY <1>0, <1>6, <3>3, FlowAssumption DEF Commit
    <3>4. CASE claim[c].write = "half_open"
      BY <1>6, <3>1, <3>2, <3>4, FlowAssumption DEF Commit
    <3>5. CASE claim[c].write = "open"
      BY <1>6, <3>5, FlowAssumption, FlowUpdates, ClaimParts DEF Commit, Forget
    <3> QED BY <2>3, <3>3, <3>4, <3>5
  <2> QED BY <2>1, <2>2, <2>4 DEF FlowTypeOK
<1>7. ASSUME NEW c \in Claims, Abort(c) PROVE FlowTypeOK'
  BY <1>0, <1>7, BecomesTyped, ClaimParts DEF FlowTypeOK, Abort
<1>8. ASSUME NEW j \in Jobs, NEW bad \in BOOLEAN, NEW fresh \in BOOLEAN,
             NEW elapsed \in 0..MaxElapsed, Settle(j, bad, fresh, elapsed)
      PROVE FlowTypeOK'
  <2>1. elapsed \in Nat
    BY ConfigTyped
  <2>2. flow.state \in {"closed", "open", "half_open"} /\ flow.on \in BOOLEAN
    BY FlowUpdates
  <2> QED BY <1>0, <1>8, <2>1, <2>2, SettleTyped DEF FlowTypeOK, Settle
<1>9. ASSUME NEW j \in Jobs, Returns(j) PROVE FlowTypeOK'
  BY <1>0, <1>9 DEF FlowTypeOK, Returns
<1>10. ASSUME NEW on \in BOOLEAN, set_breaker_config(on) PROVE FlowTypeOK'
  BY <1>0, <1>10 DEF FlowTypeOK, set_breaker_config, Operates, FlowType
<1>11. CASE trip_breaker
  <2>1. [Opened(0) EXCEPT !.window = NoWindow] \in FlowType
    BY FlowUpdates DEF FlowType, NoWindow
  <2> QED BY <1>0, <1>11, <2>1, FlowUpdates DEF FlowTypeOK, trip_breaker, Operates, Forget
<1>12. CASE force_close_breaker
  BY <1>0, <1>12, FlowUpdates DEF FlowTypeOK, force_close_breaker, Operates, Forget
<1>13. CASE Tick
  <2>1. AtMost(flow.age + 1, MaxAge) \in Nat
    <3>1. MaxAge \in Nat /\ flow.age + 1 \in Nat
      BY ConfigTyped, FlowUpdates DEF MaxAge
    <3> QED BY <3>1, AtMostNat
  <2>2. flow' \in FlowType
    BY <1>0, <1>13, <2>1 DEF Tick, FlowType
  <2>3. \A c \in Claims :
          [claim[c] EXCEPT !.elapsed = IF Waits(c) THEN @ + 1 ELSE @] \in ClaimType
    BY <1>0 DEF ClaimType
  <2>4. claim' \in [Claims -> ClaimType]
    BY <1>13, <2>3 DEF Tick
  <2> QED BY <1>0, <1>13, <2>2, <2>4 DEF FlowTypeOK, Tick
<1>14. CASE UNCHANGED vars
  BY <1>0, <1>14 DEF FlowTypeOK, vars
<1> QED
  BY <1>1, <1>2, <1>3, <1>4, <1>5, <1>6, <1>7, <1>8, <1>9, <1>10, <1>11, <1>12, <1>13, <1>14
     DEF Next, ClaimStep

LEMMA TypesInit == Init => FlowTypeOK
BY FlowAssumption DEF Init, FlowInit, PastInit, NoClaim, NoWindow, FlowTypeOK, FlowType,
                      ClaimType, PastType

\* Whatever the configuration, every column and counter keeps its type.
THEOREM FlowTypesCorrect == Spec => []FlowTypeOK
BY TypesInit, TypesStep, PTL DEF Spec
-----------------------------------------------------------------------------
(* The breaker *)

\* A step that writes no row and starts no update of it.
LEMMA NothingWritten ==
    ASSUME BreakerInv, FlowTypeOK', UNCHANGED <<flow, past>>,
           \A c \in Claims : claim'[c].write \in {claim[c].write, None}
    PROVE  BreakerInv'
<1>1. OneWriter' /\ WriteFits'
  BY FlowAssumption DEF BreakerInv, OneWriter, WriteFits
<1>2. Elections' /\ Evidence'
  BY DEF BreakerInv, Elections, Evidence
<1> QED
  BY <1>1, <1>2 DEF BreakerInv

\* A step of one claim that leaves its update of the row as it is.
LEMMA ClaimMoves ==
    ASSUME BreakerInv, FlowTypeOK', UNCHANGED <<flow, past>>, NEW c \in Claims,
           NEW r \in ClaimType, Becomes(c, r), r.write \in {claim[c].write, None}
    PROVE  BreakerInv'
<1>1. \A d \in Claims : claim'[d].write \in {claim[d].write, None}
  BY BecomesTyped DEF BreakerInv
<1> QED
  BY <1>1, NothingWritten

\* A step that writes the row while no claim has an update of it.
LEMMA RowWritten ==
    ASSUME BreakerInv, FlowTypeOK', RowFree, UNCHANGED claim, Elections', Evidence'
    PROVE  BreakerInv'
BY FlowAssumption DEF BreakerInv, RowFree, OneWriter, WriteFits

\* A settlement commits: the evidence covers whatever it trips.
LEMMA SettleBacked ==
    ASSUME BreakerInv, NEW bad \in BOOLEAN, NEW fresh \in BOOLEAN, NEW elapsed \in Nat,
           flow.on,
           \/ flow.state = "half_open" /\ HalfOpenSettle(bad, elapsed)
           \/ flow.state = "closed" /\ ClosedSettle(bad, elapsed, fresh)
    PROVE  Elections' /\ Evidence'
<1>1. flow \in FlowType /\ past \in PastType
  BY DEF BreakerInv, FlowTypeOK
<1>2. /\ Closed.state = "closed" /\ Closed.streak = 0 /\ Closed.window.all = 0
      /\ Opened(elapsed).state = "open"
  BY <1>1 DEF Closed, Opened, NoWindow, FlowType
<1>3. CASE flow.state = "half_open" /\ HalfOpenSettle(bad, elapsed)
  <2>1. CASE flow' = Closed \/ flow' = Opened(elapsed)
    <3>1. past' = [past EXCEPT !.fail = 0, !.all = 0, !.elections = 0]
      BY <1>2, <1>3, <2>1 DEF HalfOpenSettle, Forget
    <3>2. past'.fail = 0 /\ past'.all = 0 /\ past'.elections = 0
          /\ past'.groundless = past.groundless
      BY <1>1, <3>1 DEF PastType
    <3> QED BY <1>2, <2>1, <3>2 DEF BreakerInv, Elections, Evidence
  <2>2. CASE flow' = [flow EXCEPT !.probes = @ + 1]
    <3>1. flow'.state = "half_open"
      BY <1>1, <1>3, <2>2 DEF FlowType
    <3>2. past' = past
      BY <1>3, <3>1 DEF HalfOpenSettle
    <3> QED BY <3>1, <3>2 DEF BreakerInv, Elections, Evidence
  <2> QED BY <1>3, <2>1, <2>2 DEF HalfOpenSettle
<1>4. CASE flow.state = "closed" /\ ClosedSettle(bad, elapsed, fresh)
  <2> DEFINE one == IF bad THEN 1 ELSE 0
             old == IF fresh THEN NoWindow ELSE flow.window
             window == [fail |-> old.fail + one, all |-> old.all + 1]
             streak == IF bad THEN flow.streak + 1 ELSE 0
             byStreak == bad /\ streak >= Threshold
             byRate == bad /\ window.all >= Volume /\ 2 * window.fail >= window.all
             fail == past.fail + one
             all == past.all + 1
             grounds == (byStreak /\ fail >= Threshold) \/ (~byStreak /\ all >= Volume)
             row == IF byStreak \/ byRate THEN Opened(elapsed) ELSE flow
  <2>0. Threshold \in Nat \ {0} /\ Volume \in Nat \ {0}
    BY ConfigTyped
  <2>1. /\ past.fail \in Nat /\ past.all \in Nat /\ past.elections = 0 /\ ~past.groundless
        /\ flow.streak \in Nat /\ flow.streak <= past.fail
        /\ flow.window.all \in Nat
        /\ flow.window.all <= past.all \/ past.all >= Volume
    BY <1>1, <1>4 DEF BreakerInv, Elections, Evidence, FlowType, PastType
  <2>2. streak \in Nat /\ streak <= fail /\ fail \in Nat /\ (byStreak => fail >= Threshold)
    BY <2>0, <2>1
  <2>3. window.all \in Nat /\ all \in Nat /\ (window.all <= all \/ all >= Volume)
    BY <2>0, <2>1 DEF NoWindow
  <2>4. byStreak \/ byRate => grounds
    BY <2>0, <2>2, <2>3
  <2>5. /\ flow' = [row EXCEPT !.streak = streak, !.window = window]
        /\ past' = IF byStreak \/ byRate
                   THEN [fail |-> 0, all |-> 0, elections |-> 0,
                         groundless |-> past.groundless \/ ~grounds]
                   ELSE [past EXCEPT !.fail = AtMost(fail, Threshold),
                                     !.all = AtMost(all, Volume)]
    BY <1>4 DEF ClosedSettle
  <2>6. row \in FlowType
    BY <1>1, FlowUpdates DEF BreakerInv
  <2>7. flow'.state = row.state /\ flow'.streak = streak /\ flow'.window.all = window.all
    <3> HIDE DEF row, streak
    <3> QED BY <2>5, <2>6 DEF FlowType
  <2>8. CASE byStreak \/ byRate
    <3>1. past'.elections = 0 /\ past'.groundless = FALSE
      BY <2>1, <2>4, <2>5, <2>8
    <3>2. flow'.state = "open"
      BY <1>2, <2>7, <2>8
    <3> QED BY <3>1, <3>2 DEF Elections, Evidence
  <2>9. CASE ~byStreak /\ ~byRate
    <3>1. past' = [past EXCEPT !.fail = AtMost(fail, Threshold), !.all = AtMost(all, Volume)]
      BY <2>5, <2>9
    <3>2. /\ past'.elections = 0 /\ past'.groundless = FALSE
          /\ past'.fail = AtMost(fail, Threshold) /\ past'.all = AtMost(all, Volume)
      <4> HIDE DEF fail, all
      <4> QED BY <1>1, <2>1, <3>1 DEF PastType
    <3>3. streak <= AtMost(fail, Threshold)
      BY <2>0, <2>1, <2>2, <2>9 DEF AtMost
    <3>4. window.all <= AtMost(all, Volume) \/ AtMost(all, Volume) >= Volume
      BY <2>0, <2>3 DEF AtMost
    <3> QED BY <2>7, <3>2, <3>3, <3>4 DEF Elections, Evidence
  <2> QED BY <2>8, <2>9
<1> QED
  BY <1>3, <1>4

\* A probe is elected in an open breaker or not at all, and the elections of one
\* opening are forgotten when the row leaves it.
LEMMA CommitBacked ==
    ASSUME BreakerInv, FlowTypeOK', NEW c \in Claims, Commit(c)
    PROVE  BreakerInv'
<1>1. flow \in FlowType /\ past \in PastType /\ claim[c].write \in {None, "half_open", "open"}
  BY DEF BreakerInv, FlowTypeOK, ClaimType
<1>2. claim'[c] = NoClaim /\ \A d \in Claims \ {c} : claim'[d] = claim[d]
  BY BecomesTyped, ClaimParts DEF BreakerInv, Commit
<1>3. CASE claim[c].write = None
  <2>1. UNCHANGED <<flow, past>>
    BY <1>3, FlowAssumption DEF Commit
  <2>2. \A d \in Claims : claim'[d].write \in {claim[d].write, None}
    BY <1>2 DEF NoClaim
  <2> QED BY <2>1, <2>2, NothingWritten
<1>4. CASE claim[c].write # None
  <2>1. \A d \in Claims : claim'[d].write = None
    BY <1>2, <1>4 DEF BreakerInv, OneWriter, NoClaim
  <2>2. OneWriter' /\ WriteFits'
    BY <2>1, FlowAssumption DEF OneWriter, WriteFits
  <2>3. Elections' /\ Evidence'
    <3>1. CASE claim[c].write = "half_open"
      <4>1. flow.state = "open" /\ past.elections = 0 /\ ~past.groundless
        BY <3>1 DEF BreakerInv, WriteFits, Elections, Evidence
      <4>2. /\ flow' = [flow EXCEPT !.state = "half_open"]
            /\ past' = [past EXCEPT !.elections = @ + 1]
        BY <3>1, FlowAssumption DEF Commit
      <4>3. flow'.state = "half_open" /\ past'.elections = 1 /\ past'.groundless = FALSE
        BY <1>1, <4>1, <4>2 DEF FlowType, PastType
      <4> QED BY <4>3 DEF Elections, Evidence
    <3>2. CASE claim[c].write = "open"
      <4>1. flow' = Opened(claim[c].elapsed) /\ Forget
        BY <3>2, FlowAssumption DEF Commit
      <4>2. flow'.state = "open" /\ past'.elections = 0 /\ past'.groundless = past.groundless
        BY <1>1, <4>1 DEF Opened, Forget, FlowType, PastType
      <4> QED BY <4>2 DEF BreakerInv, Elections, Evidence
    <3> QED BY <1>1, <1>4, <3>1, <3>2
  <2> QED BY <2>2, <2>3 DEF BreakerInv
<1> QED
  BY <1>3, <1>4

LEMMA BreakerStep == BreakerInv /\ [Next]_vars => BreakerInv'
<1> SUFFICES ASSUME BreakerInv, [Next]_vars PROVE BreakerInv'
  OBVIOUS
<1>0. FlowTypeOK /\ FlowTypeOK' /\ flow \in FlowType /\ past \in PastType
  BY TypesStep DEF BreakerInv, FlowTypeOK
<1>1. ASSUME NEW c \in Claims, Gate(c) \/ Abort(c) PROVE BreakerInv'
  <2>1. \A d \in Claims : claim'[d].write \in {claim[d].write, None}
    <3>1. \A r \in {Through(c), Throttled(c), WaitsTo(c, "elect"), WaitsTo(c, "reopen"), NoClaim} :
            r \in ClaimType /\ r.write \in {claim[c].write, None}
      <4>1. claim[c] \in ClaimType
        BY <1>0 DEF FlowTypeOK
      <4>2. /\ Through(c).write = claim[c].write /\ Throttled(c).write = claim[c].write
            /\ WaitsTo(c, "elect").write = claim[c].write
            /\ WaitsTo(c, "reopen").write = claim[c].write
        BY <4>1 DEF ClaimType, Through, Throttled, WaitsTo
      <4>3. NoClaim.write = None
        BY DEF NoClaim
      <4> QED BY <1>0, <4>2, <4>3, ClaimParts
    <3>2. \E r \in {Through(c), Throttled(c), WaitsTo(c, "elect"), WaitsTo(c, "reopen"), NoClaim} :
            Becomes(c, r)
      BY <1>1 DEF Gate, Abort
    <3> QED BY <1>0, <3>1, <3>2, BecomesTyped
  <2> QED BY <1>0, <1>1, <2>1, NothingWritten DEF Gate, Abort
<1>2. ASSUME NEW c \in Claims, Elect(c) PROVE BreakerInv'
  <2>1. UNCHANGED <<flow, past>> /\ RowFree
    BY <1>2 DEF Elect
  <2>2. CASE flow.state = "open" /\ Becomes(c, [Through(c) EXCEPT !.write = "half_open"])
    <3>1. [Through(c) EXCEPT !.write = "half_open"] \in ClaimType
          /\ [Through(c) EXCEPT !.write = "half_open"].write = "half_open"
      BY <1>0, ClaimParts DEF ClaimType
    <3>2. claim'[c].write = "half_open" /\ \A d \in Claims \ {c} : claim'[d].write = None
      BY <1>0, <2>1, <2>2, <3>1, BecomesTyped DEF RowFree
    <3>3. OneWriter' /\ WriteFits'
      BY <2>1, <2>2, <3>2, FlowAssumption DEF OneWriter, WriteFits
    <3> QED BY <1>0, <2>1, <3>3 DEF BreakerInv, Elections, Evidence
  <2>3. CASE Becomes(c, Throttled(c))
    <3>1. Throttled(c) \in ClaimType /\ Throttled(c).write = claim[c].write
      BY <1>0, ClaimParts DEF ClaimType, Throttled
    <3> QED BY <1>0, <2>1, <2>3, <3>1, ClaimMoves
  <2> QED BY <1>2, <2>2, <2>3 DEF Elect
<1>3. ASSUME NEW c \in Claims, Reopen(c) PROVE BreakerInv'
  <2>1. UNCHANGED <<flow, past>> /\ RowFree
    BY <1>3 DEF Reopen
  <2>2. CASE flow.state = "half_open"
             /\ Becomes(c, [claim[c] EXCEPT !.pc = "commit", !.write = "open"])
    <3>1. [claim[c] EXCEPT !.pc = "commit", !.write = "open"] \in ClaimType
          /\ [claim[c] EXCEPT !.pc = "commit", !.write = "open"].write = "open"
      BY ZenonT(60), <1>0, ClaimParts DEF ClaimType
    <3>2. claim'[c].write = "open" /\ \A d \in Claims \ {c} : claim'[d].write = None
      BY <1>0, <2>1, <2>2, <3>1, BecomesTyped DEF RowFree
    <3>3. OneWriter' /\ WriteFits'
      BY <2>1, <2>2, <3>2, FlowAssumption DEF OneWriter, WriteFits
    <3> QED BY <1>0, <2>1, <3>3 DEF BreakerInv, Elections, Evidence
  <2>3. CASE Becomes(c, Throttled(c))
    <3>1. Throttled(c) \in ClaimType /\ Throttled(c).write = claim[c].write
      BY <1>0, ClaimParts DEF ClaimType, Throttled
    <3> QED BY <1>0, <2>1, <2>3, <3>1, ClaimMoves
  <2> QED BY <1>3, <2>2, <2>3 DEF Reopen
<1>4. ASSUME NEW c \in Claims, Cap(c) \/ \E j \in Jobs : Pick(c, j) PROVE BreakerInv'
  <2>1. UNCHANGED <<flow, past>>
    BY <1>4 DEF Cap, Pick
  <2>2. claim \in [Claims -> ClaimType] /\ claim' \in [Claims -> ClaimType]
    BY <1>0 DEF FlowTypeOK
  <2>3. \A d \in Claims : claim'[d].write = claim[d].write
    <3>1. \E r : Becomes(c, r) /\ r.write = claim[c].write
      <4>1. claim[c] \in ClaimType
        BY <2>2
      <4>2. CASE Cap(c)
        <5>1. Throttled(c).write = claim[c].write
          BY <4>1 DEF ClaimType, Throttled
        <5>2. \A b, S : [claim[c] EXCEPT !.pc = "pick", !.batch = b, !.saturated = S].write
                        = claim[c].write
          BY <4>1 DEF ClaimType
        <5>3. \/ Becomes(c, Throttled(c))
              \/ \E b, S : Becomes(c, [claim[c] EXCEPT !.pc = "pick", !.batch = b, !.saturated = S])
          BY <4>2 DEF Cap
        <5> QED BY <5>1, <5>2, <5>3
      <4>3. ASSUME NEW j \in Jobs, Pick(c, j) PROVE \E r : Becomes(c, r) /\ r.write = claim[c].write
        <5>1. /\ [claim[c] EXCEPT !.took = @ \cup {j}].write = claim[c].write
              /\ [claim[c] EXCEPT !.skip = @ \cup {j}].write = claim[c].write
              /\ \A k : [claim[c] EXCEPT !.keys = @ \cup {k}, !.took = @ \cup {j}].write
                       = claim[c].write
              /\ \A k : [claim[c] EXCEPT !.keys = @ \cup {k}, !.skip = @ \cup {j}].write
                       = claim[c].write
          BY <4>1 DEF ClaimType
        <5>2. \/ \E k : Becomes(c, [claim[c] EXCEPT !.keys = @ \cup {k}, !.took = @ \cup {j}])
              \/ \E k : Becomes(c, [claim[c] EXCEPT !.keys = @ \cup {k}, !.skip = @ \cup {j}])
              \/ Becomes(c, [claim[c] EXCEPT !.took = @ \cup {j}])
              \/ Becomes(c, [claim[c] EXCEPT !.skip = @ \cup {j}])
          BY <4>3 DEF Pick
        <5> HIDE DEF Becomes
        <5> QED BY <5>1, <5>2
      <4> QED BY <1>4, <4>2, <4>3
    <3> QED BY <2>2, <3>1 DEF Becomes
  <2> QED BY <1>0, <2>1, <2>3, NothingWritten
<1>5. ASSUME NEW c \in Claims, Commit(c) PROVE BreakerInv'
  BY <1>0, <1>5, CommitBacked
<1>6. ASSUME NEW j \in Jobs, NEW bad \in BOOLEAN, NEW fresh \in BOOLEAN,
             NEW elapsed \in 0..MaxElapsed, Settle(j, bad, fresh, elapsed)
      PROVE BreakerInv'
  <2>1. elapsed \in Nat /\ flow.state \in {"closed", "open", "half_open"} /\ flow.on \in BOOLEAN
    BY <1>0, ConfigTyped, FlowUpdates
  <2>2. CASE UNCHANGED <<flow, past>>
    BY <1>0, <1>6, <2>2, RowWritten DEF Settle, BreakerInv, Elections, Evidence
  <2>3. CASE ~UNCHANGED <<flow, past>>
    <3>1. /\ flow.on
          /\ \/ flow.state = "half_open" /\ HalfOpenSettle(bad, elapsed)
             \/ flow.state = "closed" /\ ClosedSettle(bad, elapsed, fresh)
      BY <1>6, <2>1, <2>3 DEF Settle
    <3>2. Elections' /\ Evidence'
      BY <2>1, <3>1, SettleBacked
    <3> QED BY <1>0, <1>6, <3>2, RowWritten DEF Settle
  <2> QED BY <2>2, <2>3
<1>7. ASSUME NEW j \in Jobs, Returns(j) PROVE BreakerInv'
  BY <1>0, <1>7, NothingWritten DEF Returns
<1>8. ASSUME NEW on \in BOOLEAN, set_breaker_config(on) PROVE BreakerInv'
  <2>1. /\ flow'.state = flow.state /\ flow'.streak = flow.streak /\ flow'.window = flow.window
        /\ past' = past
    BY <1>0, <1>8 DEF set_breaker_config, FlowType
  <2>2. Elections' /\ Evidence'
    BY <2>1 DEF BreakerInv, Elections, Evidence
  <2> QED BY <1>0, <1>8, <2>2, RowWritten DEF set_breaker_config, Operates
<1>9. CASE trip_breaker \/ force_close_breaker
  <2>1. /\ past'.fail = 0 /\ past'.all = 0 /\ past'.elections = 0
        /\ past'.groundless = past.groundless
    BY <1>0, <1>9 DEF trip_breaker, force_close_breaker, Forget, PastType
  <2>2. \/ flow'.state = "open"
        \/ flow'.state = "closed" /\ flow'.streak = 0 /\ flow'.window.all = 0
    <3>1. Closed.state = "closed" /\ Closed.streak = 0 /\ Closed.window.all = 0
      BY <1>0 DEF Closed, NoWindow, FlowType
    <3>2. Opened(0).state = "open" /\ Opened(0) \in FlowType
      BY <1>0, FlowUpdates DEF Opened, FlowType
    <3>3. [Opened(0) EXCEPT !.window = NoWindow].state = "open"
      BY <3>2 DEF FlowType
    <3> QED BY <1>9, <3>1, <3>3 DEF trip_breaker, force_close_breaker
  <2>3. Elections' /\ Evidence'
    BY <2>1, <2>2 DEF BreakerInv, Elections, Evidence
  <2> QED BY <1>0, <1>9, <2>3, RowWritten DEF trip_breaker, force_close_breaker, Operates
<1>10. CASE Tick
  <2>1. /\ flow'.state = flow.state /\ flow'.streak = flow.streak /\ flow'.window = flow.window
        /\ past' = past
    BY <1>0, <1>10 DEF Tick, FlowType
  <2>2. \A c \in Claims : claim'[c].write = claim[c].write
    BY <1>0, <1>10 DEF Tick, FlowTypeOK, ClaimType
  <2>3. OneWriter' /\ WriteFits'
    BY <2>1, <2>2 DEF BreakerInv, OneWriter, WriteFits
  <2> QED BY <1>0, <2>1, <2>3 DEF BreakerInv, Elections, Evidence
<1>11. CASE UNCHANGED vars
  BY <1>0, <1>11, NothingWritten DEF vars
<1> QED
  BY <1>1, <1>2, <1>3, <1>4, <1>5, <1>6, <1>7, <1>8, <1>9, <1>10, <1>11 DEF Next, ClaimStep

\* Whatever claims read the open row at once and however late their updates come,
\* one opening has one probe, and no leftover streak or window trips the breaker.
THEOREM BreakerSound == Spec => []BreakerHonest
<1>1. Init => BreakerInv
  BY TypesInit, FlowAssumption DEF Init, FlowInit, PastInit, NoClaim, NoWindow, BreakerInv, OneWriter,
     WriteFits, Elections, Evidence
<1>2. BreakerInv => BreakerHonest
  BY DEF BreakerInv, Elections, Evidence, BreakerHonest, OneProbe, TripsOnEvidence
<1> QED
  BY <1>1, <1>2, BreakerStep, PTL DEF Spec

-----------------------------------------------------------------------------
(* The concurrency keys *)

\* The jobs of a key, with those a claim took, are finitely many.
LEMMA KeySets ==
    ASSUME FlowTypeOK, NEW k
    PROVE  /\ IsFiniteSet(RunningOf(k))
           /\ \A c \in Claims : IsFiniteSet(RunningOf(k) \cup OwnOf(c, k))
           /\ \A S : IsFiniteSet(S) => Cardinality(S) \in Nat
<1>1. RunningOf(k) \subseteq Jobs /\ \A c \in Claims : RunningOf(k) \cup OwnOf(c, k) \subseteq Jobs
  BY ClaimParts DEF FlowTypeOK, RunningOf, OwnOf
<1> QED
  BY <1>1, FlowAssumption, FS_Subset, FS_CardinalityType

\* A step that takes nothing, locks no key and starts no job.
LEMMA NothingTaken ==
    ASSUME KeysInv, FlowTypeOK', running' \subseteq running,
           \A c \in Claims : \/ claim'[c].took = claim[c].took /\ claim'[c].keys = claim[c].keys
                             \/ claim'[c].took = {} /\ claim'[c].keys = {}
    PROVE  KeysInv'
<1>0. FlowTypeOK /\ KeyCap \in Nat
  BY ConfigTyped DEF KeysInv
<1>1. KeysOwned'
  BY DEF KeysInv, KeysOwned
<1>2. KeysApart'
  BY DEF KeysInv, KeysApart
<1>3. ASSUME NEW S, NEW T, T \subseteq S, IsFiniteSet(S), Cardinality(S) <= KeyCap
      PROVE  Cardinality(T) <= KeyCap
  BY <1>0, <1>3, FS_Subset, FS_CardinalityType
<1>4. RoomKept'
  <2>1. SUFFICES ASSUME NEW c \in Claims, NEW k \in claim'[c].keys
                 PROVE  Cardinality((RunningOf(k) \cup OwnOf(c, k))') <= KeyCap
    BY DEF RoomKept
  <2>2. k \in claim[c].keys /\ (RunningOf(k) \cup OwnOf(c, k))' \subseteq RunningOf(k) \cup OwnOf(c, k)
    BY <2>1 DEF RunningOf, OwnOf
  <2>3. Cardinality(RunningOf(k) \cup OwnOf(c, k)) <= KeyCap
    BY <2>2 DEF KeysInv, RoomKept
  <2> QED BY <1>0, <1>3, <2>2, <2>3, KeySets
<1>5. KeyCapsHold'
  <2>1. SUFFICES ASSUME NEW k \in Keys PROVE Cardinality(RunningOf(k)') <= KeyCap
    BY DEF KeyCapsHold
  <2>2. RunningOf(k)' \subseteq RunningOf(k) /\ Cardinality(RunningOf(k)) <= KeyCap
    BY DEF RunningOf, KeysInv, KeyCapsHold
  <2> QED BY <1>0, <1>3, <2>2, KeySets
<1> QED
  BY <1>1, <1>2, <1>4, <1>5 DEF KeysInv

\* A claim takes a job only under the lock of its key and after the recount.
LEMMA PickKeepsRoom ==
    ASSUME KeysInv, FlowTypeOK', NEW c \in Claims, NEW j \in Jobs, Pick(c, j)
    PROVE  KeysInv'
<1> DEFINE k == KeyOf[j]
           own == {i \in claim[c].took : KeyOf[i] = k}
<1>0. FlowTypeOK /\ KeyCap \in Nat /\ claim[c] \in ClaimType /\ running' = running
  BY ConfigTyped DEF KeysInv, FlowTypeOK, Pick
<1>1. \/ claim'[c] = [claim[c] EXCEPT !.took = @ \cup {j}] /\ k = None
      \/ claim'[c] = [claim[c] EXCEPT !.skip = @ \cup {j}]
      \/ /\ k # None /\ ~KeyBusy(c, k) /\ Cardinality(RunningOf(k) \cup own) < KeyCap
         /\ claim'[c] = [claim[c] EXCEPT !.keys = @ \cup {k}, !.took = @ \cup {j}]
      \/ /\ k # None /\ ~KeyBusy(c, k)
         /\ claim'[c] = [claim[c] EXCEPT !.keys = @ \cup {k}, !.skip = @ \cup {j}]
  BY <1>0 DEF Pick, Becomes, FlowTypeOK
<1>2. \A d \in Claims \ {c} : claim'[d] = claim[d]
  BY <1>0 DEF Pick, Becomes, FlowTypeOK
<1>3. own = OwnOf(c, k)
  BY DEF OwnOf
<1>4. \A q : RunningOf(q)' = RunningOf(q)
  BY <1>0 DEF RunningOf
<1>5. KeyCapsHold'
  BY <1>4 DEF KeysInv, KeyCapsHold
<1>6. ASSUME claim'[c].took = claim[c].took, claim'[c].keys = claim[c].keys PROVE KeysInv'
  <2>1. \A d \in Claims : \/ claim'[d].took = claim[d].took /\ claim'[d].keys = claim[d].keys
                          \/ claim'[d].took = {} /\ claim'[d].keys = {}
    BY <1>2, <1>6
  <2>2. running' \subseteq running
    BY <1>0
  <2> QED BY <2>1, <2>2, NothingTaken
<1>7. CASE claim'[c] = [claim[c] EXCEPT !.skip = @ \cup {j}]
  BY <1>0, <1>6, <1>7 DEF ClaimType
<1>8. CASE claim'[c] = [claim[c] EXCEPT !.took = @ \cup {j}] /\ k = None
  <2>1. claim'[c].took = claim[c].took \cup {j} /\ claim'[c].keys = claim[c].keys
    BY <1>0, <1>8 DEF ClaimType
  <2>2. KeysOwned' /\ KeysApart'
    <3>1. \A d \in Claims : claim'[d].keys = claim[d].keys
      BY <1>2, <2>1
    <3>2. \A d \in Claims : \A i \in claim'[d].took : i \in claim[d].took \/ KeyOf[i] = None
      BY <1>2, <1>8, <2>1
    <3> QED BY <3>1, <3>2 DEF KeysInv, KeysOwned, KeysApart
  <2>3. \A d \in Claims : \A q \in claim'[d].keys : q \in claim[d].keys /\ OwnOf(d, q)' = OwnOf(d, q)
    <3>1. \A d \in Claims : claim[d].keys \subseteq Keys
      BY <1>0, ClaimParts
    <3>2. SUFFICES ASSUME NEW d \in Claims, NEW q \in claim'[d].keys
                   PROVE  q \in claim[d].keys /\ OwnOf(d, q)' = OwnOf(d, q)
      OBVIOUS
    <3>3. q \in claim[d].keys /\ q # None
      <4>1. claim'[d].keys = claim[d].keys
        BY <1>2, <2>1
      <4> QED BY <3>1, <4>1, FlowAssumption
    <3>4. \A i : i \in claim'[d].took /\ KeyOf[i] = q <=> i \in claim[d].took /\ KeyOf[i] = q
      BY <1>2, <1>8, <2>1, <3>3
    <3> QED BY <3>3, <3>4 DEF OwnOf
  <2>4. RoomKept'
    BY <1>4, <2>3 DEF KeysInv, RoomKept
  <2> QED BY <1>5, <2>2, <2>4 DEF KeysInv
<1>9. ASSUME k # None, ~KeyBusy(c, k), claim'[c].keys = claim[c].keys \cup {k},
             \/ claim'[c].took = claim[c].took
             \/ /\ claim'[c].took = claim[c].took \cup {j}
                /\ Cardinality(RunningOf(k) \cup own) < KeyCap
      PROVE  KeysInv'
  <2>0. k \in Keys
    BY <1>9, FlowAssumption
  <2>1. KeysOwned'
    BY <1>2, <1>9 DEF KeysInv, KeysOwned
  <2>2. KeysApart'
    BY <1>2, <1>9 DEF KeysInv, KeysApart, KeyBusy
  <2>3. Cardinality(RunningOf(k) \cup OwnOf(c, k)) <= KeyCap
    <3>1. CASE k \in claim[c].keys
      BY <3>1 DEF KeysInv, RoomKept
    <3>2. CASE k \notin claim[c].keys
      <4>1. OwnOf(c, k) = {}
        BY <1>9, <3>2 DEF KeysInv, KeysOwned, OwnOf
      <4>2. RunningOf(k) \cup OwnOf(c, k) = RunningOf(k)
        BY <4>1
      <4> QED BY <2>0, <4>2 DEF KeysInv, KeyCapsHold
    <3> QED BY <3>1, <3>2
  <2>4. Cardinality(RunningOf(k) \cup OwnOf(c, k)') <= KeyCap
    <3>1. CASE claim'[c].took = claim[c].took
      <4>1. OwnOf(c, k)' = OwnOf(c, k)
        BY <3>1 DEF OwnOf
      <4> QED BY <2>3, <4>1
    <3>2. CASE /\ claim'[c].took = claim[c].took \cup {j}
               /\ Cardinality(RunningOf(k) \cup own) < KeyCap
      <4> DEFINE before == RunningOf(k) \cup OwnOf(c, k)
      <4>1. RunningOf(k) \cup OwnOf(c, k)' = before \cup {j}
        BY <3>2 DEF OwnOf
      <4>2. IsFiniteSet(before) /\ Cardinality(before) \in Nat
        BY <1>0, KeySets
      <4>3. Cardinality(before) < KeyCap
        BY <1>3, <3>2
      <4>4. \/ Cardinality(before \cup {j}) = Cardinality(before)
            \/ Cardinality(before \cup {j}) = Cardinality(before) + 1
        <5> HIDE DEF before
        <5> QED BY <4>2, FS_AddElement
      <4>5. Cardinality(before \cup {j}) <= KeyCap
        <5> HIDE DEF before
        <5> QED BY <1>0, <4>2, <4>3, <4>4
      <4> QED BY <4>1, <4>5
    <3> QED BY <1>9, <3>1, <3>2
  <2>5. ASSUME NEW d \in Claims, NEW q \in claim'[d].keys, ~(d = c /\ q = k)
        PROVE  q \in claim[d].keys /\ OwnOf(d, q)' = OwnOf(d, q)
    <3>1. q \in claim[d].keys
      BY <1>2, <1>9, <2>5
    <3>2. CASE d = c
      BY <1>9, <2>5, <3>2 DEF OwnOf
    <3>3. CASE d # c
      BY <1>2, <3>3 DEF OwnOf
    <3> QED BY <3>1, <3>2, <3>3
  <2>6. RoomKept'
    <3>1. SUFFICES ASSUME NEW d \in Claims, NEW q \in claim'[d].keys
                   PROVE  Cardinality(RunningOf(q) \cup OwnOf(d, q)') <= KeyCap
      BY <1>4 DEF RoomKept
    <3>2. CASE d = c /\ q = k
      BY <2>4, <3>2
    <3>3. CASE ~(d = c /\ q = k)
      BY <2>5, <3>3 DEF KeysInv, RoomKept
    <3> QED BY <3>2, <3>3
  <2> QED BY <1>5, <2>1, <2>2, <2>6 DEF KeysInv
<1>10. CASE /\ k # None /\ ~KeyBusy(c, k) /\ Cardinality(RunningOf(k) \cup own) < KeyCap
            /\ claim'[c] = [claim[c] EXCEPT !.keys = @ \cup {k}, !.took = @ \cup {j}]
  <2>1. claim'[c].took = claim[c].took \cup {j} /\ claim'[c].keys = claim[c].keys \cup {k}
    BY <1>0, <1>10 DEF ClaimType
  <2> QED BY <1>9, <1>10, <2>1
<1>11. CASE /\ k # None /\ ~KeyBusy(c, k)
            /\ claim'[c] = [claim[c] EXCEPT !.keys = @ \cup {k}, !.skip = @ \cup {j}]
  <2>1. claim'[c].took = claim[c].took /\ claim'[c].keys = claim[c].keys \cup {k}
    BY <1>0, <1>11 DEF ClaimType
  <2> QED BY <1>9, <1>11, <2>1
<1> QED
  BY <1>1, <1>7, <1>8, <1>10, <1>11

\* A claim commits: the jobs of its keys come to run, and no other claim counts them.
LEMMA CommitKeepsRoom ==
    ASSUME KeysInv, FlowTypeOK', NEW c \in Claims, Commit(c)
    PROVE  KeysInv'
<1>0. FlowTypeOK /\ running' = running \cup claim[c].took
  BY DEF KeysInv, Commit
<1>1. claim'[c] = NoClaim /\ \A d \in Claims \ {c} : claim'[d] = claim[d]
  BY <1>0, BecomesTyped, ClaimParts DEF Commit
<1>2. claim'[c].took = {} /\ claim'[c].keys = {}
  BY <1>1 DEF NoClaim
<1>3. KeysOwned' /\ KeysApart'
  BY <1>1, <1>2 DEF KeysInv, KeysOwned, KeysApart
<1>4. \A k : RunningOf(k)' = RunningOf(k) \cup OwnOf(c, k)
  BY <1>0 DEF RunningOf, OwnOf
<1>5. ASSUME NEW k \in Keys, k \notin claim[c].keys PROVE RunningOf(k)' = RunningOf(k)
  <2>1. OwnOf(c, k) = {}
    BY <1>5, FlowAssumption DEF KeysInv, KeysOwned, OwnOf
  <2> QED BY <1>4, <2>1
<1>6. KeyCapsHold'
  <2>1. SUFFICES ASSUME NEW k \in Keys PROVE Cardinality(RunningOf(k)') <= KeyCap
    BY DEF KeyCapsHold
  <2>2. CASE k \in claim[c].keys
    BY <1>4, <2>2 DEF KeysInv, RoomKept
  <2>3. CASE k \notin claim[c].keys
    BY <1>5, <2>3 DEF KeysInv, KeyCapsHold
  <2> QED BY <2>2, <2>3
<1>7. RoomKept'
  <2>1. SUFFICES ASSUME NEW d \in Claims, NEW k \in claim'[d].keys
                 PROVE  Cardinality((RunningOf(k) \cup OwnOf(d, k))') <= KeyCap
    BY DEF RoomKept
  <2>2. d # c /\ claim'[d] = claim[d]
    BY <1>1, <1>2, <2>1
  <2>3. k \in Keys /\ k \notin claim[c].keys
    BY <1>0, <2>2, ClaimParts DEF KeysInv, KeysApart
  <2>4. (RunningOf(k) \cup OwnOf(d, k))' = RunningOf(k) \cup OwnOf(d, k)
    BY <1>5, <2>2, <2>3 DEF OwnOf
  <2> QED BY <2>2, <2>4 DEF KeysInv, RoomKept
<1> QED
  BY <1>3, <1>6, <1>7 DEF KeysInv

LEMMA KeysStep == KeysInv /\ [Next]_vars => KeysInv'
<1> SUFFICES ASSUME KeysInv, [Next]_vars PROVE KeysInv'
  OBVIOUS
<1>0. FlowTypeOK /\ FlowTypeOK' /\ claim \in [Claims -> ClaimType]
  BY TypesStep DEF KeysInv, FlowTypeOK
<1>1. ASSUME NEW c \in Claims, Gate(c) \/ Elect(c) \/ Reopen(c) \/ Cap(c) \/ Abort(c)
      PROVE  KeysInv'
  <2>1. running' = running
    BY <1>1 DEF Gate, Elect, Reopen, Cap, Abort
  <2>2. \A d \in Claims \ {c} : claim'[d] = claim[d]
    BY <1>0, <1>1 DEF Gate, Elect, Reopen, Cap, Abort, Becomes
  <2>3. \/ claim'[c].took = claim[c].took /\ claim'[c].keys = claim[c].keys
        \/ claim'[c].took = {} /\ claim'[c].keys = {}
    <3> DEFINE Same(r) == r.took = claim[c].took /\ r.keys = claim[c].keys
    <3>1. /\ Same(Through(c)) /\ Same(Throttled(c))
          /\ Same(WaitsTo(c, "elect")) /\ Same(WaitsTo(c, "reopen"))
          /\ Same([Through(c) EXCEPT !.write = "half_open"])
          /\ Same([claim[c] EXCEPT !.pc = "commit", !.write = "open"])
          /\ \A b, S : Same([claim[c] EXCEPT !.pc = "pick", !.batch = b, !.saturated = S])
      BY <1>0 DEF ClaimType, Through, Throttled, WaitsTo
    <3>2. NoClaim.took = {} /\ NoClaim.keys = {}
      BY DEF NoClaim
    <3>3. CASE Abort(c)
      BY <1>0, <3>2, <3>3 DEF Abort, Becomes
    <3>4. CASE Gate(c) \/ Elect(c) \/ Reopen(c) \/ Cap(c)
      <4>1. \/ Becomes(c, Through(c)) \/ Becomes(c, Throttled(c))
            \/ Becomes(c, WaitsTo(c, "elect")) \/ Becomes(c, WaitsTo(c, "reopen"))
            \/ Becomes(c, [Through(c) EXCEPT !.write = "half_open"])
            \/ Becomes(c, [claim[c] EXCEPT !.pc = "commit", !.write = "open"])
            \/ \E b, S : Becomes(c, [claim[c] EXCEPT !.pc = "pick", !.batch = b, !.saturated = S])
        BY <3>4 DEF Gate, Elect, Reopen, Cap
      <4>2. \E r : Becomes(c, r) /\ Same(r)
        <5> HIDE DEF Same
        <5> QED BY <3>1, <4>1
      <4> QED BY <1>0, <4>2 DEF Becomes
    <3> QED BY <1>1, <3>3, <3>4
  <2>4. \A d \in Claims : \/ claim'[d].took = claim[d].took /\ claim'[d].keys = claim[d].keys
                          \/ claim'[d].took = {} /\ claim'[d].keys = {}
    BY <2>2, <2>3
  <2> QED BY <1>0, <2>1, <2>4, NothingTaken
<1>2. ASSUME NEW c \in Claims, NEW j \in Jobs, Pick(c, j) PROVE KeysInv'
  BY <1>0, <1>2, PickKeepsRoom
<1>3. ASSUME NEW c \in Claims, Commit(c) PROVE KeysInv'
  BY <1>0, <1>3, CommitKeepsRoom
<1>4. ASSUME running' \subseteq running, claim' = claim PROVE KeysInv'
  BY <1>0, <1>4, NothingTaken
<1>5. ASSUME NEW j \in Jobs, NEW bad \in BOOLEAN, NEW fresh \in BOOLEAN,
             NEW elapsed \in 0..MaxElapsed, Settle(j, bad, fresh, elapsed)
      PROVE KeysInv'
  BY <1>4, <1>5 DEF Settle
<1>6. ASSUME NEW j \in Jobs, Returns(j) PROVE KeysInv'
  BY <1>4, <1>6 DEF Returns
<1>7. ASSUME NEW on \in BOOLEAN, set_breaker_config(on) PROVE KeysInv'
  BY <1>4, <1>7 DEF set_breaker_config, Operates
<1>8. CASE trip_breaker \/ force_close_breaker
  BY <1>4, <1>8 DEF trip_breaker, force_close_breaker, Operates
<1>9. CASE Tick
  <2>1. \A d \in Claims : claim'[d].took = claim[d].took /\ claim'[d].keys = claim[d].keys
    BY <1>0, <1>9 DEF Tick, ClaimType
  <2>2. \A d \in Claims : \/ claim'[d].took = claim[d].took /\ claim'[d].keys = claim[d].keys
                          \/ claim'[d].took = {} /\ claim'[d].keys = {}
    BY <2>1
  <2> QED BY <1>0, <1>9, <2>2, NothingTaken DEF Tick
<1>10. CASE UNCHANGED vars
  BY <1>4, <1>10 DEF vars
<1> QED
  BY <1>1, <1>2, <1>3, <1>5, <1>6, <1>7, <1>8, <1>9, <1>10 DEF Next, ClaimStep

\* For any number of claims, jobs and keys, no key has more running jobs than its
\* cap, although the saturated keys are read before the rows are picked.
THEOREM KeysCapped == Spec => []KeyCapsHold
<1>1. Init => KeysInv
  <2> SUFFICES ASSUME Init PROVE KeysInv
    OBVIOUS
  <2>1. FlowTypeOK /\ \A c \in Claims : claim[c].took = {} /\ claim[c].keys = {}
    BY TypesInit DEF Init, NoClaim
  <2>2. KeysOwned /\ KeysApart /\ RoomKept
    BY <2>1 DEF KeysOwned, KeysApart, RoomKept
  <2>3. \A k : RunningOf(k) = {}
    BY DEF Init, RunningOf
  <2>4. KeyCapsHold
    BY <2>3, ConfigTyped, FS_EmptySet DEF KeyCapsHold
  <2> QED BY <2>1, <2>2, <2>4 DEF KeysInv
<1>2. KeysInv => KeyCapsHold
  BY DEF KeysInv
<1> QED
  BY <1>1, <1>2, KeysStep, PTL DEF Spec

-----------------------------------------------------------------------------
(* The cap of the queue *)

\* The sets that are counted, and the two facts about products it takes.
LEMMA Counted ==
    ASSUME FlowTypeOK
    PROVE  /\ IsFiniteSet(running) /\ Cardinality(running) \in Nat
           /\ \A c \in Claims : /\ IsFiniteSet(claim[c].took)
                                /\ Cardinality(claim[c].took) \in Nat
                                /\ claim[c].batch \in Nat
           /\ \A S \in SUBSET Claims : IsFiniteSet(S) /\ Cardinality(S) \in Nat
           /\ QueueCap \in Nat /\ Cardinality(Claims) \in Nat
<1>1. running \subseteq Jobs /\ \A c \in Claims : claim[c].took \subseteq Jobs /\ claim[c].batch \in Nat
  BY DEF FlowTypeOK, ClaimType
<1> QED
  BY <1>1, FlowAssumption, FS_Subset, FS_CardinalityType

LEMMA ProductSteps ==
    ASSUME NEW q \in Nat, NEW a \in Nat
    PROVE  /\ q * a \in Nat
           /\ q * (a + 1) = q * a + q
           /\ \A b \in Nat : a <= b => q * a <= q * b
<1>1. q * a \in Nat
  OBVIOUS
<1>2. q * (a + 1) = q * a + q
  OBVIOUS
<1>3. ASSUME NEW b \in Nat, a <= b PROVE q * a <= q * b
  <2>1. PICK d \in Nat : b = a + d
    <3>1. b - a \in Nat /\ b = a + (b - a)
      BY <1>3
    <3> QED BY <3>1
  <2>2. q * b = q * a + q * d
    BY <2>1
  <2>3. q * d \in Nat
    OBVIOUS
  <2> QED BY <1>1, <2>2, <2>3
<1> QED
  BY <1>1, <1>2, <1>3

\* What the claims other than one may still take, when one claim starts or ends.
LEMMA OthersTake ==
    ASSUME FlowTypeOK, NEW S \in SUBSET Claims, NEW c \in S
    PROVE  /\ Cardinality(S) = Cardinality(S \ {c}) + 1
           /\ Cardinality(S) <= Cardinality(Claims)
           /\ QueueCap * Cardinality(S) = QueueCap * Cardinality(S \ {c}) + QueueCap
           /\ QueueCap * Cardinality(S) <= QueueCap * Cardinality(Claims)
           /\ QueueCap * Cardinality(S \ {c}) \in Nat
<1>1. IsFiniteSet(S) /\ Cardinality(S) \in Nat /\ Cardinality(S \ {c}) \in Nat /\ QueueCap \in Nat
  BY Counted, FS_Subset
<1>2. Cardinality(S) = Cardinality(S \ {c}) + 1
  <2>1. Cardinality(S \ {c}) = Cardinality(S) - 1
    BY <1>1, FS_RemoveElement
  <2> QED BY <1>1, <2>1
<1>3. Cardinality(S) <= Cardinality(Claims)
  BY FlowAssumption, FS_Subset
<1>4. QueueCap * Cardinality(S) = QueueCap * Cardinality(S \ {c}) + QueueCap
  BY <1>1, <1>2, ProductSteps
<1>5. QueueCap * Cardinality(S) <= QueueCap * Cardinality(Claims)
  BY <1>1, <1>3, Counted, ProductSteps
<1> QED
  BY <1>1, <1>2, <1>3, <1>4, <1>5, ProductSteps

\* A step in which no job comes to run and no claim reads the cap.
LEMMA NoneAdded ==
    ASSUME CapInv, FlowTypeOK', running' \subseteq running, BatchKept', Picking' \subseteq Picking,
           \A c \in Picking' : claim'[c].batch = claim[c].batch
    PROVE  CapInv'
<1> DEFINE N == QueueCap * Cardinality(Claims)
<1>0. FlowTypeOK /\ Picking \in SUBSET Claims /\ Picking' \in SUBSET Claims
  BY DEF CapInv, Picking
<1>1. Cardinality(running') <= Cardinality(running) /\ Cardinality(running') \in Nat
  <2>1. IsFiniteSet(running)
    BY <1>0, Counted
  <2>2. IsFiniteSet(running') /\ Cardinality(running') <= Cardinality(running)
    BY <2>1, FS_Subset
  <2> QED BY <2>2, FS_CardinalityType
<1>2. N \in Nat
  BY <1>0, Counted, ProductSteps
<1>3. Cardinality(running) <= N
  <2>1. CASE Picking = {}
    BY <2>1 DEF CapInv, RoomAhead
  <2>2. CASE Picking # {}
    <3>1. PICK c \in Picking : Cardinality(running) + claim[c].batch + QueueCap * Cardinality(Picking \ {c}) <= N
      BY <2>2 DEF CapInv, RoomAhead
    <3>2. QueueCap * Cardinality(Picking \ {c}) \in Nat /\ claim[c].batch \in Nat
      BY <1>0, <3>1, OthersTake, Counted
    <3> HIDE DEF N
    <3> QED BY <1>0, <1>2, <3>1, <3>2, Counted
  <2> QED BY <2>1, <2>2
<1>4. CASE Picking' = {}
  <2>1. Cardinality(running') <= N
    <3> HIDE DEF N
    <3> QED BY <1>0, <1>1, <1>2, <1>3, Counted
  <2> QED BY <1>4, <2>1 DEF CapInv, RoomAhead
<1>5. CASE Picking' # {}
  <2>1. PICK x \in Picking : Cardinality(running) + claim[x].batch + QueueCap * Cardinality(Picking \ {x}) <= N
    BY <1>5 DEF CapInv, RoomAhead
  <2>2. \E y \in Picking' : claim[y].batch + QueueCap * Cardinality(Picking' \ {y})
                              <= claim[x].batch + QueueCap * Cardinality(Picking \ {x})
    <3>1. CASE x \in Picking'
      <4>1. Picking' \ {x} \subseteq Picking \ {x} /\ Picking \ {x} \in SUBSET Claims
        BY <1>0
      <4>2. Cardinality(Picking' \ {x}) <= Cardinality(Picking \ {x})
        BY <1>0, <4>1, Counted, FS_Subset
      <4>3. QueueCap * Cardinality(Picking' \ {x}) <= QueueCap * Cardinality(Picking \ {x})
        <5>1. Cardinality(Picking' \ {x}) \in Nat /\ Cardinality(Picking \ {x}) \in Nat /\ QueueCap \in Nat
          BY <1>0, Counted
        <5> QED BY <4>2, <5>1, ProductSteps
      <4>4. QueueCap * Cardinality(Picking' \ {x}) \in Nat /\ QueueCap * Cardinality(Picking \ {x}) \in Nat
        BY <1>0, <2>1, <3>1, OthersTake
      <4>5. claim[x].batch \in Nat
        BY <1>0, <2>1, Counted
      <4>6. claim[x].batch + QueueCap * Cardinality(Picking' \ {x})
              <= claim[x].batch + QueueCap * Cardinality(Picking \ {x})
        BY <4>3, <4>4, <4>5
      <4> QED BY <3>1, <4>6
    <3>2. CASE x \notin Picking'
      <4>1. PICK y \in Picking' : TRUE
        BY <1>5
      <4>2. Picking' \subseteq Picking \ {x} /\ Picking \ {x} \in SUBSET Claims
        BY <1>0, <3>2
      <4>3. Cardinality(Picking') <= Cardinality(Picking \ {x})
        BY <1>0, <4>2, Counted, FS_Subset
      <4>4. QueueCap * Cardinality(Picking') <= QueueCap * Cardinality(Picking \ {x})
        <5>1. Cardinality(Picking') \in Nat /\ Cardinality(Picking \ {x}) \in Nat /\ QueueCap \in Nat
          BY <1>0, Counted
        <5> QED BY <4>3, <5>1, ProductSteps
      <4>5. /\ QueueCap * Cardinality(Picking') = QueueCap * Cardinality(Picking' \ {y}) + QueueCap
            /\ QueueCap * Cardinality(Picking' \ {y}) \in Nat
            /\ QueueCap * Cardinality(Picking \ {x}) \in Nat
        BY <1>0, <2>1, <4>1, OthersTake
      <4>6. claim[y].batch \in Nat /\ claim[y].batch <= QueueCap
        <5>1. y \in Claims /\ claim[y].pc = "pick"
          BY <4>1 DEF Picking
        <5> QED BY <1>0, <5>1, Counted DEF CapInv, BatchKept
      <4>7. claim[x].batch \in Nat /\ QueueCap \in Nat
        BY <1>0, <2>1, Counted
      <4>8. claim[y].batch + QueueCap * Cardinality(Picking' \ {y})
              <= claim[x].batch + QueueCap * Cardinality(Picking \ {x})
        BY <4>4, <4>5, <4>6, <4>7
      <4> QED BY <4>1, <4>8
    <3> QED BY <3>1, <3>2
  <2>3. PICK y \in Picking' : claim[y].batch + QueueCap * Cardinality(Picking' \ {y})
                                <= claim[x].batch + QueueCap * Cardinality(Picking \ {x})
    BY <2>2
  <2>4. /\ QueueCap * Cardinality(Picking' \ {y}) \in Nat /\ QueueCap * Cardinality(Picking \ {x}) \in Nat
        /\ claim[x].batch \in Nat /\ claim[y].batch \in Nat /\ claim'[y].batch = claim[y].batch
    <3>1. x \in Claims /\ y \in Claims
      BY <1>0, <2>1, <2>3
    <3> QED BY <1>0, <2>1, <2>3, <3>1, OthersTake, Counted
  <2>5. Cardinality(running') + claim'[y].batch + QueueCap * Cardinality(Picking' \ {y}) <= N
    <3> HIDE DEF N
    <3> QED BY <1>0, <1>1, <1>2, <2>1, <2>3, <2>4, Counted
  <2> QED BY <1>5, <2>3, <2>5 DEF CapInv, RoomAhead
<1> QED
  BY <1>4, <1>5

\* A claim reads the cap: what runs and its batch fit, and the others may add
\* no more than their batches.
LEMMA CapReads ==
    ASSUME CapInv, FlowTypeOK', NEW c \in Claims, Cap(c)
    PROVE  CapInv'
<1> DEFINE N == QueueCap * Cardinality(Claims)
           r == Cardinality(running)
           b == AtMost(QueueCap - r, Batch)
<1>0. /\ FlowTypeOK /\ claim \in [Claims -> ClaimType] /\ claim[c] \in ClaimType
      /\ claim[c].pc = "cap" /\ running' = running /\ claim[c].took = {}
      /\ r \in Nat /\ QueueCap \in Nat /\ Batch \in Nat
  BY ConfigTyped, Counted DEF CapInv, FlowTypeOK, Cap, BatchKept
<1>1. CASE Becomes(c, Throttled(c))
  <2>1. /\ claim'[c].pc = "commit" /\ claim'[c].took = {}
        /\ \A d \in Claims \ {c} : claim'[d] = claim[d]
    BY <1>0, <1>1 DEF Becomes, Throttled, ClaimType
  <2>2. BatchKept'
    BY <1>0, <2>1 DEF CapInv, BatchKept
  <2>3. Picking' \subseteq Picking /\ \A d \in Picking' : claim'[d].batch = claim[d].batch
    BY <2>1 DEF Picking
  <2> QED BY <1>0, <2>2, <2>3, NoneAdded
<1>2. CASE r < QueueCap /\ Becomes(c, [claim[c] EXCEPT !.pc = "pick", !.batch = b,
                 !.saturated = {k \in Keys : Cardinality(RunningOf(k)) >= KeyCap}])
  <2>1. /\ claim'[c].pc = "pick" /\ claim'[c].took = {} /\ claim'[c].batch = b
        /\ \A d \in Claims \ {c} : claim'[d] = claim[d]
    <3> HIDE DEF b
    <3> QED BY <1>0, <1>2 DEF Becomes, ClaimType
  <2>2. b \in Nat /\ b <= QueueCap /\ r + b <= QueueCap
    <3> HIDE DEF r
    <3> QED BY <1>0, <1>2 DEF AtMost
  <2>3. BatchKept'
    <3>1. Cardinality(claim'[c].took) = 0
      BY <2>1, FS_EmptySet
    <3>2. claim'[c].batch <= QueueCap /\ Cardinality(claim'[c].took) <= claim'[c].batch
      <4> HIDE DEF b, r
      <4> QED BY <2>1, <2>2, <3>1
    <3>3. \A d \in Claims \ {c} :
            /\ claim'[d].pc # "pick" => claim'[d].took = {}
            /\ claim'[d].pc = "pick" => /\ claim'[d].batch <= QueueCap
                                       /\ Cardinality(claim'[d].took) <= claim'[d].batch
      BY <2>1 DEF CapInv, BatchKept
    <3> QED BY <2>1, <3>2, <3>3 DEF BatchKept
  <2>4. Picking' = Picking \cup {c} /\ c \notin Picking /\ Picking' \in SUBSET Claims
    BY <1>0, <2>1 DEF Picking
  <2>5. r + b + QueueCap * Cardinality(Picking' \ {c}) <= N
    <3>1. /\ QueueCap * Cardinality(Picking') = QueueCap * Cardinality(Picking' \ {c}) + QueueCap
          /\ QueueCap * Cardinality(Picking') <= N
          /\ QueueCap * Cardinality(Picking' \ {c}) \in Nat
      BY <1>0, <2>4, OthersTake
    <3>2. N \in Nat
      BY <1>0, Counted, ProductSteps
    <3> HIDE DEF N, r, b
    <3> QED BY <1>0, <2>2, <3>1, <3>2
  <2>6. Picking' # {} /\ Cardinality(running') + claim'[c].batch + QueueCap * Cardinality(Picking' \ {c}) <= N
    BY <1>0, <2>1, <2>4, <2>5
  <2> QED BY <2>3, <2>4, <2>6 DEF CapInv, RoomAhead
<1> QED
  BY <1>0, <1>1, <1>2 DEF Cap

\* A claim commits: its jobs come to run, and it no longer stands for the others.
LEMMA CapCommits ==
    ASSUME CapInv, FlowTypeOK', NEW c \in Claims, Commit(c)
    PROVE  CapInv'
<1> DEFINE N == QueueCap * Cardinality(Claims)
           r == Cardinality(running)
<1>0. /\ FlowTypeOK /\ claim[c].pc \in {"commit", "pick"} /\ r \in Nat /\ N \in Nat
      /\ running' = running \cup claim[c].took
      /\ QueueCap \in Nat /\ Picking \in SUBSET Claims /\ Picking' \in SUBSET Claims
  BY Counted, ProductSteps DEF CapInv, Commit, Picking
<1>1. claim'[c] = NoClaim /\ \A d \in Claims \ {c} : claim'[d] = claim[d]
  BY <1>0, BecomesTyped, ClaimParts DEF Commit
<1>2. claim'[c].took = {} /\ claim'[c].pc = "idle"
  BY <1>1 DEF NoClaim
<1>3. BatchKept'
  BY <1>1, <1>2 DEF CapInv, BatchKept
<1>4. Picking' = Picking \ {c} /\ \A d \in Picking' : claim'[d].batch = claim[d].batch
  BY <1>1, <1>2 DEF Picking
<1>5. CASE claim[c].pc = "commit"
  <2>1. running' \subseteq running
    BY <1>0, <1>5 DEF CapInv, BatchKept
  <2> QED BY <1>3, <1>4, <2>1, NoneAdded
<1>6. CASE claim[c].pc = "pick"
  <2>1. c \in Picking /\ claim[c].batch \in Nat /\ claim[c].batch <= QueueCap
        /\ Cardinality(claim[c].took) <= claim[c].batch
    BY <1>0, <1>6, Counted DEF CapInv, BatchKept, Picking
  <2>2. Cardinality(running') \in Nat /\ Cardinality(running') <= r + claim[c].batch
    <3>1. IsFiniteSet(running) /\ IsFiniteSet(claim[c].took) /\ Cardinality(claim[c].took) \in Nat
      BY <1>0, Counted
    <3>2. /\ IsFiniteSet(running \cup claim[c].took)
          /\ Cardinality(running \cup claim[c].took)
               = Cardinality(running) + Cardinality(claim[c].took) - Cardinality(running \cap claim[c].took)
      BY <3>1, FS_Union
    <3>3. Cardinality(running \cap claim[c].took) \in Nat
      BY <3>1, FS_Intersection, FS_CardinalityType
    <3>4. Cardinality(running') \in Nat
      BY <1>0, <3>2, FS_CardinalityType
    <3> QED BY <1>0, <2>1, <3>1, <3>2, <3>3, <3>4
  <2>3. PICK x \in Picking : r + claim[x].batch + QueueCap * Cardinality(Picking \ {x}) <= N
    BY <2>1 DEF CapInv, RoomAhead
  <2>4. claim[x].batch \in Nat /\ claim[x].batch <= QueueCap
    BY <1>0, <2>3, Counted DEF CapInv, BatchKept, Picking
  <2>5. /\ QueueCap * Cardinality(Picking) = QueueCap * Cardinality(Picking \ {x}) + QueueCap
        /\ QueueCap * Cardinality(Picking \ {x}) \in Nat
        /\ QueueCap * Cardinality(Picking) = QueueCap * Cardinality(Picking') + QueueCap
        /\ QueueCap * Cardinality(Picking') \in Nat
    BY <1>0, <1>4, <2>1, <2>3, OthersTake
  <2>6. ASSUME x = c PROVE Cardinality(running') + QueueCap * Cardinality(Picking') <= N
    <3>1. Cardinality(running') <= r + claim[x].batch
      BY <2>2, <2>6
    <3> HIDE DEF N, r
    <3> QED BY <1>0, <2>2, <2>3, <2>4, <2>5, <3>1
  <2>7. CASE x = c /\ Picking' = {}
    <3>1. Cardinality(running') <= N
      <4> HIDE DEF N
      <4> QED BY <1>0, <2>2, <2>5, <2>6, <2>7
    <3> QED BY <1>3, <2>7, <3>1 DEF CapInv, RoomAhead
  <2>8. CASE x = c /\ Picking' # {}
    <3>1. PICK y \in Picking' : TRUE
      BY <2>8
    <3>2. /\ QueueCap * Cardinality(Picking') = QueueCap * Cardinality(Picking' \ {y}) + QueueCap
          /\ QueueCap * Cardinality(Picking' \ {y}) \in Nat
      BY <1>0, <3>1, OthersTake
    <3>3. claim'[y].batch \in Nat /\ claim'[y].batch <= QueueCap
      <4>1. y \in Claims /\ claim[y].pc = "pick" /\ claim'[y].batch = claim[y].batch
        BY <1>4, <3>1 DEF Picking
      <4> QED BY <1>0, <4>1, Counted DEF CapInv, BatchKept
    <3>4. Cardinality(running') + claim'[y].batch + QueueCap * Cardinality(Picking' \ {y}) <= N
      <4> HIDE DEF N
      <4> QED BY <1>0, <2>2, <2>6, <2>8, <3>2, <3>3
    <3> QED BY <1>3, <2>8, <3>1, <3>4 DEF CapInv, RoomAhead
  <2>9. CASE x # c
    <3>1. x \in Picking' /\ claim'[x].batch = claim[x].batch
      BY <1>4, <2>3, <2>9
    <3>2. /\ QueueCap * Cardinality(Picking') = QueueCap * Cardinality(Picking' \ {x}) + QueueCap
          /\ QueueCap * Cardinality(Picking' \ {x}) \in Nat
      BY <1>0, <3>1, OthersTake
    <3>3. Cardinality(running') + claim'[x].batch + QueueCap * Cardinality(Picking' \ {x}) <= N
      <4> HIDE DEF N, r
      <4> QED BY <1>0, <2>1, <2>2, <2>3, <2>4, <2>5, <3>1, <3>2
    <3> QED BY <1>3, <3>1, <3>3 DEF CapInv, RoomAhead
  <2> QED BY <2>7, <2>8, <2>9
<1> QED
  BY <1>0, <1>5, <1>6

LEMMA CapStep == CapInv /\ [Next]_vars => CapInv'
<1> SUFFICES ASSUME CapInv, [Next]_vars PROVE CapInv'
  OBVIOUS
<1>0. FlowTypeOK /\ FlowTypeOK' /\ claim \in [Claims -> ClaimType]
  BY TypesStep DEF CapInv, FlowTypeOK
<1>1. ASSUME NEW c \in Claims, Gate(c) \/ Elect(c) \/ Reopen(c) PROVE CapInv'
  <2>1. /\ claim[c].pc # "pick" /\ running' = running /\ claim[c].took = {}
        /\ \A d \in Claims \ {c} : claim'[d] = claim[d]
    BY <1>0, <1>1 DEF CapInv, BatchKept, Gate, Elect, Reopen, Becomes
  <2>2. claim'[c].pc # "pick" /\ claim'[c].took = {}
    <3> DEFINE Fits(r) == r.pc # "pick" /\ r.took = {}
    <3>1. /\ Fits(Through(c)) /\ Fits(Throttled(c))
          /\ Fits(WaitsTo(c, "elect")) /\ Fits(WaitsTo(c, "reopen"))
          /\ Fits([Through(c) EXCEPT !.write = "half_open"])
          /\ Fits([claim[c] EXCEPT !.pc = "commit", !.write = "open"])
      BY <1>0, <2>1 DEF ClaimType, Through, Throttled, WaitsTo
    <3>2. \/ Becomes(c, Through(c)) \/ Becomes(c, Throttled(c))
          \/ Becomes(c, WaitsTo(c, "elect")) \/ Becomes(c, WaitsTo(c, "reopen"))
          \/ Becomes(c, [Through(c) EXCEPT !.write = "half_open"])
          \/ Becomes(c, [claim[c] EXCEPT !.pc = "commit", !.write = "open"])
      BY <1>1 DEF Gate, Elect, Reopen
    <3>3. \E r : Becomes(c, r) /\ Fits(r)
      <4> HIDE DEF Fits
      <4> QED BY <3>1, <3>2
    <3> QED BY <1>0, <3>3 DEF Becomes
  <2>3. BatchKept' /\ Picking' \subseteq Picking /\ \A d \in Picking' : claim'[d].batch = claim[d].batch
    BY <2>1, <2>2 DEF CapInv, BatchKept, Picking
  <2> QED BY <1>0, <2>1, <2>3, NoneAdded
<1>2. ASSUME NEW c \in Claims, Cap(c) PROVE CapInv'
  BY <1>0, <1>2, CapReads
<1>3. ASSUME NEW c \in Claims, NEW j \in Jobs, Pick(c, j) PROVE CapInv'
  <2>1. /\ claim[c].pc = "pick" /\ running' = running
        /\ Cardinality(claim[c].took) < claim[c].batch
        /\ \A d \in Claims \ {c} : claim'[d] = claim[d]
    BY <1>0, <1>3 DEF Pick, Becomes
  <2>2. /\ claim'[c].pc = "pick" /\ claim'[c].batch = claim[c].batch
        /\ claim'[c].took \in {claim[c].took, claim[c].took \cup {j}}
    <3> DEFINE Fits(r) == /\ r.pc = "pick" /\ r.batch = claim[c].batch
                          /\ r.took \in {claim[c].took, claim[c].took \cup {j}}
    <3>1. /\ Fits([claim[c] EXCEPT !.took = @ \cup {j}])
          /\ Fits([claim[c] EXCEPT !.skip = @ \cup {j}])
          /\ \A k : /\ Fits([claim[c] EXCEPT !.keys = @ \cup {k}, !.took = @ \cup {j}])
                    /\ Fits([claim[c] EXCEPT !.keys = @ \cup {k}, !.skip = @ \cup {j}])
      BY <1>0, <2>1 DEF ClaimType
    <3>2. \/ Becomes(c, [claim[c] EXCEPT !.took = @ \cup {j}])
          \/ Becomes(c, [claim[c] EXCEPT !.skip = @ \cup {j}])
          \/ \E k : \/ Becomes(c, [claim[c] EXCEPT !.keys = @ \cup {k}, !.took = @ \cup {j}])
                    \/ Becomes(c, [claim[c] EXCEPT !.keys = @ \cup {k}, !.skip = @ \cup {j}])
      BY <1>3 DEF Pick
    <3>3. \E r : Becomes(c, r) /\ Fits(r)
      <4> HIDE DEF Fits
      <4> QED BY <3>1, <3>2
    <3> QED BY <1>0, <3>3 DEF Becomes
  <2>3. Cardinality(claim'[c].took) <= claim'[c].batch
    <3>1. /\ IsFiniteSet(claim[c].took) /\ Cardinality(claim[c].took) \in Nat
          /\ claim[c].batch \in Nat
      BY <1>0, Counted
    <3>2. \/ Cardinality(claim[c].took \cup {j}) = Cardinality(claim[c].took)
          \/ Cardinality(claim[c].took \cup {j}) = Cardinality(claim[c].took) + 1
      BY <3>1, FS_AddElement
    <3>3. \/ Cardinality(claim'[c].took) = Cardinality(claim[c].took)
          \/ Cardinality(claim'[c].took) = Cardinality(claim[c].took) + 1
      BY <2>2, <3>2
    <3>4. claim'[c].batch = claim[c].batch /\ Cardinality(claim[c].took) < claim[c].batch
      BY <2>1, <2>2
    <3> QED BY <3>1, <3>3, <3>4
  <2>4. claim'[c].batch <= QueueCap
    BY <2>1, <2>2 DEF CapInv, BatchKept
  <2>5. BatchKept'
    BY <2>1, <2>2, <2>3, <2>4 DEF CapInv, BatchKept
  <2>6. Picking' \subseteq Picking /\ \A d \in Picking' : claim'[d].batch = claim[d].batch
    BY <2>1, <2>2 DEF Picking
  <2> QED BY <1>0, <2>1, <2>5, <2>6, NoneAdded
<1>4. ASSUME NEW c \in Claims, Commit(c) PROVE CapInv'
  BY <1>0, <1>4, CapCommits
<1>5. ASSUME NEW c \in Claims, Abort(c) PROVE CapInv'
  <2>1. /\ claim'[c] = NoClaim /\ running' = running
        /\ \A d \in Claims \ {c} : claim'[d] = claim[d]
    BY <1>0, <1>5 DEF Abort, Becomes
  <2>2. claim'[c].took = {} /\ claim'[c].pc # "pick"
    BY <2>1 DEF NoClaim
  <2>3. BatchKept' /\ Picking' \subseteq Picking /\ \A d \in Picking' : claim'[d].batch = claim[d].batch
    BY <2>1, <2>2 DEF CapInv, BatchKept, Picking
  <2> QED BY <1>0, <2>1, <2>3, NoneAdded
<1>6. ASSUME running' \subseteq running,
             \A d \in Claims : /\ claim'[d].pc = claim[d].pc /\ claim'[d].took = claim[d].took
                               /\ claim'[d].batch = claim[d].batch
      PROVE  CapInv'
  <2>1. BatchKept' /\ Picking' \subseteq Picking /\ \A d \in Picking' : claim'[d].batch = claim[d].batch
    BY <1>6 DEF CapInv, BatchKept, Picking
  <2> QED BY <1>0, <1>6, <2>1, NoneAdded
<1>7. ASSUME NEW j \in Jobs, NEW bad \in BOOLEAN, NEW fresh \in BOOLEAN,
             NEW elapsed \in 0..MaxElapsed, Settle(j, bad, fresh, elapsed)
      PROVE CapInv'
  BY <1>6, <1>7 DEF Settle
<1>8. ASSUME NEW j \in Jobs, Returns(j) PROVE CapInv'
  BY <1>6, <1>8 DEF Returns
<1>9. ASSUME NEW on \in BOOLEAN, set_breaker_config(on) PROVE CapInv'
  BY <1>6, <1>9 DEF set_breaker_config, Operates
<1>10. CASE trip_breaker \/ force_close_breaker
  BY <1>6, <1>10 DEF trip_breaker, force_close_breaker, Operates
<1>11. CASE Tick
  <2>1. \A d \in Claims : /\ claim'[d].pc = claim[d].pc /\ claim'[d].took = claim[d].took
                          /\ claim'[d].batch = claim[d].batch
    BY <1>0, <1>11 DEF Tick, ClaimType
  <2> QED BY <1>6, <1>11, <2>1 DEF Tick
<1>12. CASE UNCHANGED vars
  BY <1>6, <1>12 DEF vars
<1> QED
  BY <1>1, <1>2, <1>3, <1>4, <1>5, <1>7, <1>8, <1>9, <1>10, <1>11, <1>12 DEF Next, ClaimStep

\* For any number of claims, jobs and keys and any cap: no key is over its cap,
\* and the queue, whose cap is compared without a lock, never has more than a
\* cap's worth of running jobs for each claim that can be under way.
THEOREM CapsKept == Spec => []CapsHold
<1>1. Init => CapInv
  <2> SUFFICES ASSUME Init PROVE CapInv
    OBVIOUS
  <2>1. FlowTypeOK /\ \A c \in Claims : claim[c].took = {} /\ claim[c].pc = "idle"
    BY TypesInit DEF Init, NoClaim
  <2>2. BatchKept /\ Picking = {}
    BY <2>1 DEF BatchKept, Picking
  <2>3. Cardinality(running) = 0
    BY FS_EmptySet DEF Init
  <2>4. QueueCap * Cardinality(Claims) \in Nat
    BY <2>1, Counted, ProductSteps
  <2> QED BY <2>1, <2>2, <2>3, <2>4 DEF CapInv, RoomAhead
<1>2. CapInv => Cardinality(running) <= QueueCap * Cardinality(Claims)
  <2> SUFFICES ASSUME CapInv, Picking # {} PROVE Cardinality(running) <= QueueCap * Cardinality(Claims)
    BY DEF CapInv, RoomAhead
  <2> DEFINE N == QueueCap * Cardinality(Claims)
  <2>1. PICK x \in Picking : Cardinality(running) + claim[x].batch + QueueCap * Cardinality(Picking \ {x}) <= N
    BY DEF CapInv, RoomAhead
  <2>2. x \in Claims /\ FlowTypeOK /\ Picking \in SUBSET Claims
    BY DEF Picking, CapInv
  <2>3. /\ N \in Nat /\ claim[x].batch \in Nat /\ QueueCap * Cardinality(Picking \ {x}) \in Nat
        /\ Cardinality(running) \in Nat
    BY <2>2, Counted, OthersTake, ProductSteps
  <2> HIDE DEF N
  <2>4. Cardinality(running) <= N
    BY <2>1, <2>3
  <2> USE DEF N
  <2> QED BY <2>4
<1> QED
  BY <1>1, <1>2, CapStep, KeysCapped, PTL DEF Spec, CapsHold

=============================================================================
