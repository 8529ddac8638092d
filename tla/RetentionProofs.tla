-------------------------- MODULE RetentionProofs --------------------------
(***************************************************************************)
(* No history is lost to pruning, for every set of tokens and trades, every *)
(* batch size and retention window: a candle that exists counts the whole   *)
(* hour, and what was deleted is in a candle, while the indexer stores and  *)
(* takes back trades and the scripts run, die and are started again.  It is *)
(* so as long as a rollback stays within the newest hour (ReachHours = 0):  *)
(* one that reaches a built hour leaves its candles as they are.            *)
(*                                                                          *)
(* The argument follows the hours in their order.  Below the hour the       *)
(* rollup has reached everything is built and final; the hour the indexer   *)
(* fills is above it; and a prune deletes only what lies below.             *)
(***************************************************************************)
EXTENDS Retention, FiniteSetTheorems, WellFoundedInduction, TLAPS

-----------------------------------------------------------------------------
(* The inductive invariant.                                                 *)

\* The indexer has come as far as its newest trade.
TipIsNewest == \A x \in indexed : HourOf[x] <= tip

\* The rollup builds nothing of the hour that is filling.
BehindTip ==
  /\ BuiltTo # None => BuiltTo < tip
  /\ rollup.at \in {"candles", "snapshots"} => rollup.through <= tip

\* The first hour of which the rollup has not yet seen to the candles.
Reached ==
  CASE rollup.at = "candles" -> rollup.cursor
    [] rollup.at = "snapshots" -> Min({rollup.cursor + BatchHours, rollup.through})
    [] OTHER -> BuiltTo + 1

CompleteBelow(n) ==
  \A t \in Tokens, h \in Hours : h < n => candles[<<t, h>>] = Cardinality(In(t, h, indexed))

\* There is no candle past it, and every one before it is complete.
Built ==
  /\ BuiltTo < Reached
  /\ CompleteBelow(Reached)
  /\ rollup.at = "candles" => rollup.cursor < rollup.through

\* A prune that is under way stays below the end of the rollup, which only grows.
Cut == prune.at = "delete" => prune.cutoff <= BuiltTo + 1

Inv ==
  /\ TypeOK
  /\ PrunedIsCovered
  /\ TipIsNewest
  /\ BehindTip
  /\ Built
  /\ Cut

-----------------------------------------------------------------------------
(* The least and the greatest of some hours.                                *)

\* A set of numbers that is not empty has a least one.
LEMMA LeastNumber ==
  ASSUME NEW S \in SUBSET Nat, S # {}
  PROVE  \E n \in S : \A m \in S : n <= m
<1>1. IsWellFoundedOn(OpToRel(<, Nat), Nat)
  BY NatLessThanWellFounded
<1>2. PICK n \in S : \A m \in S : ~(<<m, n>> \in OpToRel(<, Nat))
  BY <1>1, WFMin
<1>3. \A m \in S : ~(m < n)
  BY <1>2 DEF OpToRel
<1> QED
  BY <1>3

\* Min finds it.
LEMMA MinIsLeast ==
  ASSUME NEW S \in SUBSET Nat, S # {}
  PROVE  Min(S) \in S /\ \A m \in S : Min(S) <= m
<1>1. PICK n \in S : \A m \in S : n <= m
  BY LeastNumber
<1> QED
  BY <1>1, Zenon DEF Min

\* Max finds the last of some hours: the least of the hours that none of them exceeds.
LEMMA MaxIsGreatest ==
  ASSUME NEW S \in SUBSET Hours, S # {}
  PROVE  Max(S) \in S /\ \A h \in S : h <= Max(S)
<1>1. Cardinality(Hours) \in Nat /\ Hours = 1..Cardinality(Hours)
  BY RetentionAssumption, FS_CardinalityType
<1> DEFINE Bounds == {u \in Nat : \A h \in S : h <= u}
<1>2. Cardinality(Hours) \in Bounds
  BY <1>1
<1>3. PICK u \in Bounds : \A v \in Bounds : u <= v
  <2> HIDE DEF Bounds
  <2>1. Bounds # {}
    BY <1>2
  <2>2. Bounds \in SUBSET Nat
    BY DEF Bounds
  <2> QED
    BY <2>1, <2>2, LeastNumber
<1>4. u \in S
  <2> SUFFICES ASSUME u \notin S PROVE FALSE
    OBVIOUS
  <2>1. PICK h \in S : TRUE
    OBVIOUS
  <2>2. h \in Nat /\ h >= 1 /\ u \in Nat /\ h <= u
    BY <1>1, <1>3
  <2>3. u - 1 \in Bounds
    BY <1>1, <1>3, <2>2
  <2> QED
    BY <1>3, <2>2, <2>3
<1>5. \A h \in S : u >= h
  BY <1>1, <1>3
<1>6. Max(S) \in S /\ \A h \in S : Max(S) >= h
  BY <1>4, <1>5, Zenon DEF Max
<1> QED
  BY <1>1, <1>6

\* What MAX("openTime") returns for a table of candles.
Newest(rows) == Latest({h \in Hours : \E t \in Tokens : rows[<<t, h>>] # None})

\* It is no earlier than any row, and it is the hour of one if there is one.
LEMMA NewestRow ==
  ASSUME NEW rows
  PROVE  /\ Newest(rows) \in Nat
         /\ \A t \in Tokens, h \in Hours : rows[<<t, h>>] # None => h <= Newest(rows)
         /\ Newest(rows) # None =>
              Newest(rows) \in Hours /\ \E t \in Tokens : rows[<<t, Newest(rows)>>] # None
<1> DEFINE S == {h \in Hours : \E t \in Tokens : rows[<<t, h>>] # None}
<1>1. Hours \subseteq Nat
  BY RetentionAssumption, FS_CardinalityType
<1>2. S \in SUBSET Hours
  OBVIOUS
<1>3. CASE S = {}
  BY <1>3 DEF Newest, Latest, None
<1>4. CASE S # {}
  <2>1. Newest(rows) = Max(S)
    BY <1>4 DEF Newest, Latest
  <2>2. Max(S) \in S /\ \A h \in S : h <= Max(S)
    <3> HIDE DEF S
    <3> QED
      BY <1>2, <1>4, MaxIsGreatest
  <2> QED
    BY <1>1, <2>1, <2>2
<1> QED
  BY <1>3, <1>4

\* The same of the candles there are.
LEMMA BuiltToIs ==
  /\ BuiltTo \in Nat
  /\ \A t \in Tokens, h \in Hours : candles[<<t, h>>] # None => h <= BuiltTo
  /\ BuiltTo # None => BuiltTo \in Hours /\ \E t \in Tokens : candles[<<t, BuiltTo>>] # None
<1>1. BuiltTo = Newest(candles)
  BY DEF BuiltTo, Newest
<1> QED
  BY <1>1, NewestRow

\* And of the candles after a step.
LEMMA BuiltToNext ==
  /\ BuiltTo' \in Nat
  /\ \A t \in Tokens, h \in Hours : candles'[<<t, h>>] # None => h <= BuiltTo'
  /\ BuiltTo' # None => BuiltTo' \in Hours /\ \E t \in Tokens : candles'[<<t, BuiltTo'>>] # None
<1>1. PICK rows : rows = candles'
  OBVIOUS
<1>2. BuiltTo' = Newest(rows)
  BY <1>1 DEF BuiltTo, Newest
<1> QED
  BY <1>1, <1>2, NewestRow

-----------------------------------------------------------------------------
(* Trades and their hours.                                                  *)

\* Every trade has a token and an hour.
LEMMA TradeTypes ==
  /\ Hours \subseteq Nat \ {0}
  /\ \A x \in Trades : TokenOf[x] \in Tokens /\ HourOf[x] \in Hours /\ HourOf[x] \in Nat
  /\ BatchHours \in Nat \ {0}
  /\ None \in Nat /\ None \notin Hours
BY RetentionAssumption, FS_CardinalityType DEF None

\* A count of trades is a number, and zero only if there are none.
LEMMA Counts ==
  ASSUME NEW rows \in SUBSET Trades, NEW t, NEW h
  PROVE  /\ Cardinality(In(t, h, rows)) \in Nat
         /\ Cardinality(In(t, h, rows)) = None <=> In(t, h, rows) = {}
         /\ Cardinality(Of(t, rows)) \in Nat
<1>1. In(t, h, rows) \subseteq Trades /\ Of(t, rows) \subseteq Trades
  BY DEF In, Of
<1>2. IsFiniteSet(In(t, h, rows)) /\ IsFiniteSet(Of(t, rows))
  BY <1>1, RetentionAssumption, FS_Subset
<1> QED
  BY <1>2, FS_CardinalityType, FS_EmptySet DEF None

\* Past the newest candle nothing has been pruned: the trades of those hours are all there.
LEMMA NothingPrunedAbove ==
  ASSUME Inv, NEW t \in Tokens, NEW h \in Hours, h > BuiltTo
  PROVE  In(t, h, stored) = In(t, h, indexed)
<1>1. \A x \in indexed \ stored : HourOf[x] <= BuiltTo
  <2> SUFFICES ASSUME NEW x \in indexed \ stored PROVE HourOf[x] <= BuiltTo
    OBVIOUS
  <2>1. candles[<<TokenOf[x], HourOf[x]>>] # None
    BY DEF Inv, PrunedIsCovered
  <2>2. x \in Trades
    BY DEF Inv, TypeOK
  <2> QED
    BY <2>1, <2>2, TradeTypes, BuiltToIs
<1>2. \A x \in indexed : HourOf[x] = h => x \in stored
  BY <1>1, BuiltToIs, TradeTypes
<1>3. stored \subseteq indexed
  BY DEF Inv, TypeOK
<1> QED
  BY <1>2, <1>3 DEF In, Of

\* Below the hour the rollup has reached lies all that has a candle, and above it lies
\* the hour that is filling.
LEMMA ReachedIs ==
  ASSUME Inv
  PROVE  /\ Reached \in Nat /\ BuiltTo < Reached
         /\ Reached > 1 => Reached <= tip
<1>1. BuiltTo \in Nat /\ tip \in Nat /\ rollup.cursor \in Nat /\ rollup.through \in Nat
  BY BuiltToIs, TradeTypes DEF Inv, TypeOK
<1>2. BuiltTo < Reached
  BY DEF Inv, Built
<1>3. CASE rollup.at = "candles"
  BY <1>1, <1>2, <1>3 DEF Reached, Inv, Built, BehindTip
<1>4. CASE rollup.at = "snapshots"
  <2> DEFINE ends == {rollup.cursor + BatchHours, rollup.through}
  <2>1. ends \in SUBSET Nat /\ ends # {}
    BY <1>1, TradeTypes
  <2>2. Min(ends) \in ends /\ \A m \in ends : Min(ends) <= m
    <3> HIDE DEF ends
    <3> QED
      BY <2>1, MinIsLeast
  <2>3. Reached = Min(ends)
    BY <1>4 DEF Reached
  <2>4. rollup.through <= tip
    BY <1>4 DEF Inv, BehindTip
  <2> QED
    BY <1>1, <1>2, <2>1, <2>2, <2>3, <2>4
<1>5. CASE rollup.at \notin {"candles", "snapshots"}
  <2>1. Reached = BuiltTo + 1
    BY <1>5 DEF Reached
  <2>2. BuiltTo # 0 => BuiltTo < tip
    BY DEF Inv, BehindTip, None
  <2> QED
    BY <1>1, <2>1, <2>2
<1> QED
  BY <1>3, <1>4, <1>5

-----------------------------------------------------------------------------
(* Every action.                                                            *)

\* Empty tables, and no script running.
LEMMA InitInv == Init => Inv
<1> SUFFICES ASSUME Init PROVE Inv
  OBVIOUS
<1>1. candles = [p \in Pairs |-> None] /\ indexed = {} /\ stored = {}
      /\ rollup = [at |-> "idle", cursor |-> None, through |-> None]
      /\ prune = [at |-> "idle", cutoff |-> None, exempt |-> {}]
  BY DEF Init
<1>2. TypeOK
  BY TradeTypes, RetentionAssumption DEF Init, TypeOK
<1>3. BuiltTo = None
  BY <1>1, BuiltToIs DEF Pairs
<1>4. CompleteBelow(Reached)
  <2> SUFFICES ASSUME NEW t \in Tokens, NEW h \in Hours
               PROVE  candles[<<t, h>>] = Cardinality(In(t, h, indexed))
    BY DEF CompleteBelow
  <2>1. In(t, h, indexed) = {}
    BY <1>1 DEF In, Of
  <2> QED
    BY <1>1, <2>1, FS_EmptySet DEF Pairs, None
<1>5. BuiltTo < Reached
  BY <1>1, <1>3 DEF Reached, None
<1> QED
  BY <1>1, <1>2, <1>3, <1>4, <1>5
     DEF Inv, PrunedIsCovered, TipIsNewest, BehindTip, Built, Cut

\* No row of the trades, no candle, and no script but the scoring.
LEMMA AsideStep ==
  ASSUME Inv, TypeOK', UNCHANGED <<stored, candles, indexed, tip, rollup, prune>>
  PROVE  Inv'
<1>1. BuiltTo' = BuiltTo /\ Reached' = Reached
  BY DEF BuiltTo, Reached
<1>2. PrunedIsCovered'
  BY DEF Inv, PrunedIsCovered
<1>3. TipIsNewest' /\ BehindTip' /\ Cut'
  BY <1>1 DEF Inv, TipIsNewest, BehindTip, Cut
<1>4. Built'
  BY <1>1 DEF Inv, Built, CompleteBelow
<1> QED
  BY <1>2, <1>3, <1>4 DEF Inv

\* The indexer records the trades of one window, none of them older than what it has.
LEMMA StoreWindowInv ==
  ASSUME Inv, StoreWindow
  PROVE  Inv'
<1>1. PICK window \in SUBSET (Trades \ indexed) :
        /\ window # {}
        /\ \A x \in window : HourOf[x] >= tip
        /\ stored' = stored \union window
        /\ indexed' = indexed \union window
        /\ touched' = {TokenOf[x] : x \in window}
        /\ tip' = Max({HourOf[x] : x \in window})
  BY DEF StoreWindow
<1>2. /\ UNCHANGED <<tradeCount, candles, snapshots, scored, rollbacks, rollup, scoring, prune>>
      /\ tip \in Nat
  BY TradeTypes DEF StoreWindow, Inv, TypeOK
<1> DEFINE hours == {HourOf[x] : x \in window}
<1>3. tip' \in hours /\ \A h \in hours : h <= tip'
  <2>1. hours \in SUBSET Hours /\ hours # {}
    BY <1>1, TradeTypes
  <2>2. tip' = Max(hours)
    BY <1>1
  <2> HIDE DEF hours
  <2> QED
    BY <2>1, <2>2, MaxIsGreatest
<1>4. tip' \in Hours /\ tip' \in Nat /\ tip <= tip' /\ \A x \in window : HourOf[x] <= tip'
  BY <1>1, <1>3, TradeTypes
<1>5. TypeOK'
  <2>1. stored' \subseteq indexed' /\ indexed' \subseteq Trades /\ touched' \subseteq Tokens
    BY <1>1, TradeTypes DEF Inv, TypeOK
  <2> QED
    BY <1>2, <1>4, <2>1 DEF Inv, TypeOK
<1>6. BuiltTo' = BuiltTo /\ Reached' = Reached
  BY <1>2 DEF BuiltTo, Reached
<1>7. PrunedIsCovered'
  BY <1>1, <1>2 DEF Inv, PrunedIsCovered
<1>8. TipIsNewest'
  <2> SUFFICES ASSUME NEW x \in indexed' PROVE HourOf[x] <= tip'
    BY DEF TipIsNewest
  <2>1. CASE x \in indexed
    BY <1>2, <1>4, <2>1, TradeTypes DEF Inv, TipIsNewest, TypeOK
  <2> QED
    BY <1>1, <1>4, <2>1
<1>9. BehindTip'
  BY <1>2, <1>4, <1>6, BuiltToIs DEF Inv, BehindTip, TypeOK
<1>10. Built'
  <2>1. ASSUME NEW t \in Tokens, NEW h \in Hours, h < Reached
        PROVE  candles'[<<t, h>>] = Cardinality(In(t, h, indexed'))
    <3>1. h < tip
      BY <1>2, <2>1, ReachedIs, TradeTypes
    <3>2. \A x \in window : HourOf[x] # h
      BY <1>1, <1>2, <3>1, TradeTypes
    <3>3. In(t, h, indexed') = In(t, h, indexed)
      BY <1>1, <3>2 DEF In, Of
    <3> QED
      BY <1>2, <2>1, <3>3 DEF Inv, Built, CompleteBelow
  <2> QED
    BY <1>2, <1>6, <2>1 DEF Inv, Built, CompleteBelow
<1>11. Cut'
  BY <1>2, <1>6 DEF Inv, Cut
<1> QED
  BY <1>5, <1>7, <1>8, <1>9, <1>10, <1>11 DEF Inv

\* A reorganisation takes back trades of the hour that is filling.
LEMMA TakeBackInv ==
  ASSUME ReachHours = 0, Inv, TakeBack
  PROVE  Inv'
<1>1. PICK back \in {h \in Hours \union {None} : tip - ReachHours <= h /\ h <= tip},
           orphans \in SUBSET indexed :
        /\ \A x \in orphans : HourOf[x] >= back
        /\ stored' = stored \ orphans /\ indexed' = indexed \ orphans
        /\ tip' = back
  BY DEF TakeBack
<1>2. /\ UNCHANGED <<tradeCount, candles, snapshots, scored, touched, tip, rollup, scoring, prune>>
      /\ rollbacks < MaxRollbacks /\ rollbacks' = rollbacks + 1 /\ tip \in Nat
  <2>1. tip \in Nat /\ back \in Nat
    BY <1>1, TradeTypes DEF Inv, TypeOK
  <2>2. tip' = tip
    BY <1>1, <2>1
  <2> QED
    BY <2>1, <2>2 DEF TakeBack
<1>3. TypeOK'
  <2>1. stored' \subseteq indexed' /\ indexed' \subseteq Trades
    BY <1>1 DEF Inv, TypeOK
  <2>2. rollbacks' \in 0..MaxRollbacks
    BY <1>2, RetentionAssumption DEF Inv, TypeOK
  <2> QED
    BY <1>2, <2>1, <2>2 DEF Inv, TypeOK
<1>4. BuiltTo' = BuiltTo /\ Reached' = Reached
  BY <1>2 DEF BuiltTo, Reached
<1>5. PrunedIsCovered' /\ TipIsNewest'
  BY <1>1, <1>2 DEF Inv, PrunedIsCovered, TipIsNewest
<1>6. BehindTip' /\ Cut'
  BY <1>2, <1>4 DEF Inv, BehindTip, Cut
<1>7. Built'
  <2>1. ASSUME NEW t \in Tokens, NEW h \in Hours, h < Reached
        PROVE  candles'[<<t, h>>] = Cardinality(In(t, h, indexed'))
    <3>1. h < tip
      BY <1>2, <2>1, ReachedIs, TradeTypes
    <3>2. \A x \in orphans : x \in Trades /\ HourOf[x] >= tip
      BY <1>1, <1>2 DEF Inv, TypeOK
    <3>3. In(t, h, indexed') = In(t, h, indexed)
      BY <1>1, <1>2, <3>1, <3>2, TradeTypes DEF In, Of
    <3> QED
      BY <1>2, <2>1, <3>3 DEF Inv, Built, CompleteBelow
  <2> QED
    BY <1>2, <1>4, <2>1 DEF Inv, Built, CompleteBelow
<1> QED
  BY <1>3, <1>5, <1>6, <1>7 DEF Inv

\* The rollup goes on, ends or begins, and no candle is written.
LEMMA RollupStep ==
  ASSUME Inv, TypeOK', UNCHANGED <<stored, candles, indexed, tip, prune>>,
         rollup'.at \in {"candles", "snapshots"} => rollup'.through <= tip,
         rollup'.at = "candles" => rollup'.cursor < rollup'.through,
         BuiltTo < Reached',
         \A t \in Tokens, h \in Hours :
           h < Reached' => candles[<<t, h>>] = Cardinality(In(t, h, indexed))
  PROVE  Inv'
<1>1. BuiltTo' = BuiltTo
  BY DEF BuiltTo
<1>2. PrunedIsCovered' /\ TipIsNewest'
  BY DEF Inv, PrunedIsCovered, TipIsNewest
<1>3. BehindTip' /\ Cut'
  BY <1>1 DEF Inv, BehindTip, Cut
<1>4. Built'
  BY <1>1 DEF Built, CompleteBelow
<1> QED
  BY <1>2, <1>3, <1>4 DEF Inv

\* A run starts: after the newest candle, or, before there is any, at the oldest trade.
LEMMA StartRollupInv ==
  ASSUME Inv, StartRollup
  PROVE  Inv'
<1> DEFINE hours == {HourOf[x] : x \in stored}
<1>1. /\ stored # {} /\ FirstUnbuilt < CompleteThrough
      /\ rollup' = [at |-> "candles", cursor |-> FirstUnbuilt, through |-> CompleteThrough]
      /\ UNCHANGED <<tableVars, indexerVars, scoring, prune>>
  BY DEF StartRollup
<1>2. stored \subseteq indexed /\ indexed \subseteq Trades /\ tip \in Nat
  BY TradeTypes DEF Inv, TypeOK
<1>3. hours \in SUBSET Hours /\ hours \in SUBSET Nat /\ hours # {}
  BY <1>1, <1>2, TradeTypes
<1>4. CompleteThrough \in hours /\ CompleteThrough \in Nat /\ CompleteThrough <= tip
  <2>1. CompleteThrough = Max(hours)
    BY DEF CompleteThrough
  <2>2. CompleteThrough \in hours
    <3> HIDE DEF hours
    <3> QED
      BY <1>3, <2>1, MaxIsGreatest
  <2> QED
    BY <1>2, <1>3, <2>2 DEF Inv, TipIsNewest
<1>5. /\ FirstUnbuilt \in Nat /\ BuiltTo < FirstUnbuilt
      /\ BuiltTo = None => \A h \in hours : FirstUnbuilt <= h
      /\ BuiltTo # None => FirstUnbuilt = BuiltTo + 1
  <2>1. CASE BuiltTo # None
    BY <2>1, BuiltToIs DEF FirstUnbuilt
  <2>2. CASE BuiltTo = None
    <3>1. FirstUnbuilt = Min(hours)
      BY <2>2 DEF FirstUnbuilt
    <3>2. Min(hours) \in hours /\ \A h \in hours : Min(hours) <= h
      <4> HIDE DEF hours
      <4> QED
        BY <1>3, MinIsLeast
    <3>3. Min(hours) \in Hours
      BY <1>3, <3>2
    <3>4. Min(hours) \in Nat /\ Min(hours) > 0
      <4>1. \A h \in Hours : h \in Nat /\ h > 0
        BY TradeTypes
      <4> HIDE DEF hours
      <4> QED
        BY <3>3, <4>1, Zenon
    <3>5. FirstUnbuilt \in Nat /\ BuiltTo < FirstUnbuilt
      <4> HIDE DEF hours
      <4>1. BuiltTo = 0
        BY <2>2 DEF None
      <4> QED
        BY <3>1, <3>4, <4>1
    <3>6. \A h \in hours : FirstUnbuilt <= h
      BY <3>1, <3>2, Zenon
    <3> QED
      BY <2>2, <3>5, <3>6, Zenon
  <2> QED
    BY <2>1, <2>2
<1>6. Reached' = FirstUnbuilt /\ rollup'.cursor = FirstUnbuilt
      /\ rollup'.through = CompleteThrough /\ rollup'.at = "candles"
  BY <1>1 DEF Reached
<1>7. ASSUME NEW t \in Tokens, NEW h \in Hours, h < FirstUnbuilt
      PROVE  candles[<<t, h>>] = Cardinality(In(t, h, indexed))
  <2>1. CASE BuiltTo # None
    <3>1. h < Reached
      BY <1>5, <1>7, <2>1, BuiltToIs, ReachedIs, TradeTypes
    <3> QED
      BY <3>1 DEF Inv, Built, CompleteBelow
  <2>2. CASE BuiltTo = None
    <3>1. h > BuiltTo /\ h \in Nat
      BY <2>2, TradeTypes DEF None
    <3>2. candles[<<t, h>>] = None
      BY <3>1, BuiltToIs
    <3>3. h \notin hours
      BY <1>5, <1>7, <2>2, <3>1
    <3>4. In(t, h, stored) = {}
      BY <3>3 DEF In, Of
    <3>5. In(t, h, indexed) = {}
      BY <3>1, <3>4, NothingPrunedAbove
    <3> QED
      BY <3>2, <3>5, FS_EmptySet DEF None
  <2> QED
    BY <2>1, <2>2
<1>8. TypeOK'
  BY <1>1, <1>4, <1>5 DEF Inv, TypeOK, tableVars, indexerVars
<1>9. UNCHANGED <<stored, candles, indexed, tip, prune>>
  BY <1>1 DEF tableVars, indexerVars
<1> HIDE DEF hours
<1> QED
  BY <1>1, <1>4, <1>5, <1>6, <1>7, <1>8, <1>9, RollupStep

\* What a batch of the rollup writes: the hours from the cursor to where the run or the
\* batch ends are counted, and every other row is left as it is.
LEMMA BatchWritten ==
  ASSUME Inv, rollup.at = "candles", NEW t \in Tokens, NEW h \in Hours
  PROVE  /\ h \in Batch => Aggregated(candles)[<<t, h>>] = Cardinality(In(t, h, indexed))
         /\ h \notin Batch => Aggregated(candles)[<<t, h>>] = candles[<<t, h>>]
         /\ h \in Batch => h > BuiltTo
<1>1. /\ rollup.cursor \in Nat /\ BuiltTo < rollup.cursor /\ BuiltTo \in Nat
      /\ stored \in SUBSET Trades
  BY BuiltToIs DEF Inv, TypeOK, Built, Reached
<1>2. h \in Batch => h > BuiltTo /\ h \in Nat
  BY <1>1, TradeTypes DEF Batch
<1>3. <<t, h>> \in Pairs
  BY DEF Pairs
<1>4. Aggregated(candles)[<<t, h>>] =
        IF h \in Batch /\ In(t, h, stored) # {}
        THEN Cardinality(In(t, h, stored)) ELSE candles[<<t, h>>]
  BY <1>3 DEF Aggregated
<1>5. CASE h \in Batch
  <2>1. In(t, h, stored) = In(t, h, indexed) /\ candles[<<t, h>>] = None
    BY <1>2, <1>5, NothingPrunedAbove, BuiltToIs, <1>1
  <2>2. In(t, h, stored) = {} => Cardinality(In(t, h, stored)) = None
    BY <1>1, Counts
  <2> QED
    BY <1>2, <1>4, <1>5, <2>1, <2>2
<1> QED
  BY <1>4, <1>5

\* The table after a batch is one of counts.
LEMMA AggregatedType ==
  ASSUME TypeOK, NEW rows \in [Pairs -> Nat]
  PROVE  Aggregated(rows) \in [Pairs -> Nat]
<1>1. stored \in SUBSET Trades
  BY DEF TypeOK
<1>2. \A p \in Pairs : Cardinality(In(p[1], p[2], stored)) \in Nat
  BY <1>1, Counts
<1> QED
  BY <1>2 DEF Aggregated

\* A batch of candles: the candles reach further, and those there were stay as they are.
LEMMA BuildCandlesInv ==
  ASSUME Inv, BuildCandles
  PROVE  Inv'
<1> DEFINE ends == {rollup.cursor + BatchHours, rollup.through}
           top == Min(ends)
<1>1. /\ rollup.at = "candles"
      /\ candles' = Aggregated(candles)
      /\ rollup' = [rollup EXCEPT !.at = "snapshots"]
      /\ UNCHANGED <<stored, tradeCount, snapshots, scored, indexerVars, scoring, prune>>
  BY DEF BuildCandles
<1>2. /\ rollup.cursor \in Nat /\ rollup.through \in Nat /\ tip \in Nat /\ BuiltTo \in Nat
      /\ rollup.cursor < rollup.through /\ rollup.through <= tip
      /\ BuiltTo < rollup.cursor /\ Reached = rollup.cursor
      /\ BatchHours \in Nat \ {0}
      /\ indexed \in SUBSET Trades
  BY <1>1, BuiltToIs, TradeTypes DEF Inv, TypeOK, Built, BehindTip, Reached
<1>3. /\ top \in ends /\ \A m \in ends : top <= m
  <2>1. ends \in SUBSET Nat /\ ends # {}
    BY <1>2
  <2> HIDE DEF ends
  <2> QED
    BY <2>1, MinIsLeast
<1>4. /\ top \in Nat /\ rollup.cursor < top /\ top <= rollup.through
      /\ \A h \in Hours : h \in Batch <=> rollup.cursor <= h /\ h < top
  BY <1>2, <1>3, TradeTypes DEF Batch
<1>5. Reached' = top /\ rollup'.at = "snapshots" /\ rollup'.through = rollup.through
  <2>1. /\ rollup'.at = "snapshots" /\ rollup'.through = rollup.through
        /\ rollup'.cursor = rollup.cursor
    BY <1>1 DEF Inv, TypeOK
  <2> QED
    BY <2>1 DEF Reached
<1> HIDE DEF top, ends
<1>6. \A t \in Tokens, h \in Hours :
        /\ h < rollup.cursor => candles'[<<t, h>>] = candles[<<t, h>>]
        /\ h < top => candles'[<<t, h>>] = Cardinality(In(t, h, indexed))
        /\ h >= top => candles'[<<t, h>>] = None
  <2> TAKE t \in Tokens, h \in Hours
  <2>1. h \in Nat
    BY TradeTypes
  <2>2. h < rollup.cursor => candles[<<t, h>>] = Cardinality(In(t, h, indexed))
    BY <1>2 DEF Inv, Built, CompleteBelow
  <2>3. h > BuiltTo => candles[<<t, h>>] = None
    BY <1>2, <2>1, BuiltToIs
  <2>4. CASE h \in Batch
    BY <1>1, <1>2, <1>4, <2>1, <2>4, BatchWritten
  <2>5. CASE h \notin Batch
    <3>1. candles'[<<t, h>>] = candles[<<t, h>>]
      BY <1>1, <2>5, BatchWritten
    <3> QED
      BY <1>2, <1>4, <2>1, <2>2, <2>3, <2>5, <3>1
  <2> QED
    BY <2>4, <2>5
<1>7. BuiltTo' \in Nat /\ BuiltTo' < top
  <2>1. CASE BuiltTo' = None
    BY <1>2, <1>4, <2>1 DEF None
  <2>2. CASE BuiltTo' # None
    <3>1. PICK t \in Tokens : BuiltTo' \in Hours /\ candles'[<<t, BuiltTo'>>] # None
      BY <2>2, BuiltToNext
    <3>2. BuiltTo' \in Nat /\ ~(BuiltTo' >= top)
      BY <1>6, <3>1, BuiltToNext
    <3> QED
      BY <1>4, <3>2
  <2> QED
    BY <2>1, <2>2, BuiltToNext
<1>8. BuiltTo <= BuiltTo'
  <2>1. CASE BuiltTo = None
    BY <1>7, <2>1 DEF None
  <2>2. CASE BuiltTo # None
    <3>1. PICK t \in Tokens : BuiltTo \in Hours /\ candles[<<t, BuiltTo>>] # None
      BY <2>2, BuiltToIs
    <3>2. candles'[<<t, BuiltTo>>] # None
      BY <1>2, <1>6, <3>1
    <3> QED
      BY <3>1, <3>2, BuiltToNext
  <2> QED
    BY <2>1, <2>2
<1>9. TypeOK'
  <2>1. candles' \in [Pairs -> Nat]
    BY <1>1, AggregatedType DEF Inv, TypeOK
  <2>2. rollup' \in [at : {"idle", "candles", "snapshots", "finished"}, cursor : Nat, through : Nat]
    BY <1>1 DEF Inv, TypeOK
  <2> QED
    BY <1>1, <2>1, <2>2 DEF Inv, TypeOK, indexerVars
<1>10. PrunedIsCovered'
  <2> SUFFICES ASSUME NEW x \in indexed \ stored
               PROVE  candles'[<<TokenOf[x], HourOf[x]>>] # None
    BY <1>1 DEF PrunedIsCovered, indexerVars
  <2>1. TokenOf[x] \in Tokens /\ HourOf[x] \in Hours /\ HourOf[x] \in Nat
    BY <1>2, TradeTypes
  <2>2. candles[<<TokenOf[x], HourOf[x]>>] # None
    BY DEF Inv, PrunedIsCovered
  <2>3. HourOf[x] < rollup.cursor
    BY <1>2, <2>1, <2>2, BuiltToIs
  <2> QED
    BY <1>6, <2>1, <2>2, <2>3
<1>11. TipIsNewest'
  BY <1>1 DEF Inv, TipIsNewest, indexerVars
<1>12. BehindTip'
  <2>1. tip' = tip
    BY <1>1 DEF indexerVars
  <2> QED
    BY <1>2, <1>4, <1>5, <1>7, <2>1 DEF BehindTip
<1>13. Built'
  <2>1. CompleteBelow(Reached)'
    BY <1>1, <1>5, <1>6 DEF CompleteBelow, indexerVars
  <2> QED
    BY <1>5, <1>7, <2>1 DEF Built
<1>14. Cut'
  <2>1. prune' = prune /\ (prune.at = "delete" => prune.cutoff <= BuiltTo + 1)
        /\ prune.cutoff \in Nat
    BY <1>1 DEF Inv, Cut, TypeOK
  <2> QED
    BY <1>2, <1>7, <1>8, <2>1 DEF Cut
<1> QED
  BY <1>9, <1>10, <1>11, <1>12, <1>13, <1>14 DEF Inv

\* The snapshots of the batch: the run goes on with the next batch or is finished.
LEMMA BuildSnapshotsInv ==
  ASSUME Inv, BuildSnapshots
  PROVE  Inv'
<1> DEFINE next == rollup.cursor + BatchHours
<1>1. /\ rollup.at = "snapshots"
      /\ snapshots' = Aggregated(snapshots)
      /\ rollup' = IF next < rollup.through
                   THEN [rollup EXCEPT !.at = "candles", !.cursor = next]
                   ELSE [rollup EXCEPT !.at = "finished"]
      /\ UNCHANGED <<stored, tradeCount, candles, scored, indexerVars, scoring, prune>>
  BY DEF BuildSnapshots
<1>2. /\ rollup.cursor \in Nat /\ rollup.through \in Nat /\ next \in Nat
      /\ rollup \in [at : {"idle", "candles", "snapshots", "finished"}, cursor : Nat, through : Nat]
      /\ rollup.through <= tip
  BY <1>1, TradeTypes DEF Inv, TypeOK, BehindTip
<1>3. UNCHANGED <<stored, candles, indexed, tip, prune>>
  BY <1>1 DEF indexerVars
<1>4. BuiltTo' = BuiltTo
  BY <1>3 DEF BuiltTo
<1>5. snapshots' \in [Pairs -> Nat]
  BY <1>1, AggregatedType DEF Inv, TypeOK
<1>6. BuiltTo < Reached /\ BuiltTo \in Nat /\ Reached \in Nat
  BY BuiltToIs, ReachedIs
<1>7. \A t \in Tokens, h \in Hours :
        h < Reached => candles[<<t, h>>] = Cardinality(In(t, h, indexed))
  BY DEF Inv, Built, CompleteBelow
<1>8. CASE next < rollup.through
  <2>1. /\ rollup'.at = "candles" /\ rollup'.cursor = next /\ rollup'.through = rollup.through
        /\ rollup' \in [at : {"idle", "candles", "snapshots", "finished"},
                        cursor : Nat, through : Nat]
    BY <1>1, <1>2, <1>8
  <2>2. Reached' = next
    BY <2>1 DEF Reached
  <2>3. Reached = next
    <3> DEFINE ends == {next, rollup.through}
    <3>1. ends \in SUBSET Nat /\ ends # {} /\ Reached = Min(ends)
      BY <1>1, <1>2 DEF Reached
    <3>2. Min(ends) \in ends /\ \A m \in ends : Min(ends) <= m
      <4> HIDE DEF ends
      <4> QED
        BY <3>1, MinIsLeast
    <3> QED
      BY <1>2, <1>8, <3>1, <3>2
  <2>4. TypeOK'
    BY <1>1, <1>5, <2>1 DEF Inv, TypeOK, indexerVars
  <2> HIDE DEF next
  <2> QED
    BY <1>2, <1>3, <1>6, <1>7, <1>8, <2>1, <2>2, <2>3, <2>4, RollupStep
<1>9. CASE ~(next < rollup.through)
  <2>1. /\ rollup'.at = "finished"
        /\ rollup' \in [at : {"idle", "candles", "snapshots", "finished"},
                        cursor : Nat, through : Nat]
    BY <1>1, <1>2, <1>9
  <2>2. Reached' = BuiltTo + 1
    BY <1>4, <2>1 DEF Reached
  <2>3. TypeOK'
    BY <1>1, <1>5, <2>1 DEF Inv, TypeOK, indexerVars
  <2>4. \A h \in Hours : h < BuiltTo + 1 => h < Reached
    BY <1>6, TradeTypes
  <2>5. BuiltTo < Reached'
    BY <1>6, <2>2
  <2>6. \A t \in Tokens, h \in Hours :
          h < Reached' => candles[<<t, h>>] = Cardinality(In(t, h, indexed))
    BY <1>7, <2>2, <2>4
  <2> QED
    BY <1>3, <2>1, <2>3, <2>5, <2>6, RollupStep
<1> QED
  BY <1>8, <1>9

\* The rollup dies between two statements: the next run starts from the candles.
LEMMA RollupDiesInv ==
  ASSUME Inv, RollupDies
  PROVE  Inv'
<1>1. /\ rollup' = [rollup EXCEPT !.at = "idle"]
      /\ UNCHANGED <<tableVars, indexerVars, scoring, prune>>
  BY DEF RollupDies
<1>2. /\ rollup'.at = "idle"
      /\ rollup' \in [at : {"idle", "candles", "snapshots", "finished"}, cursor : Nat, through : Nat]
  BY <1>1 DEF Inv, TypeOK
<1>3. UNCHANGED <<stored, candles, indexed, tip, prune>>
  BY <1>1 DEF tableVars, indexerVars
<1>4. BuiltTo' = BuiltTo
  BY <1>3 DEF BuiltTo
<1>5. Reached' = BuiltTo + 1
  BY <1>2, <1>4 DEF Reached
<1>6. BuiltTo < Reached' /\ \A h \in Hours : h < Reached' => h < Reached
  BY <1>5, BuiltToIs, ReachedIs, TradeTypes
<1>7. TypeOK'
  BY <1>1, <1>2 DEF Inv, TypeOK, tableVars, indexerVars
<1>8. \A t \in Tokens, h \in Hours :
        h < Reached' => candles[<<t, h>>] = Cardinality(In(t, h, indexed))
  BY <1>6 DEF Inv, Built, CompleteBelow
<1> QED
  BY <1>2, <1>3, <1>6, <1>7, <1>8, RollupStep

\* A prune begins: its cutoff is no later than the end of the rollup.
LEMMA StartPruneInv ==
  ASSUME Inv, StartPrune
  PROVE  Inv'
<1>1. PICK byRetention \in Hours, exempt \in TopScored :
        prune' = [at |-> "delete", cutoff |-> Min({byRetention, RolledThrough}),
                  exempt |-> exempt]
  BY DEF StartPrune
<1>2. UNCHANGED <<tableVars, indexerVars, rollup, scoring>>
  BY DEF StartPrune
<1> DEFINE ends == {byRetention, RolledThrough}
<1>3. RolledThrough = BuiltTo + 1 /\ BuiltTo \in Nat
  BY BuiltToIs DEF RolledThrough
<1>4. Min(ends) \in Nat /\ Min(ends) <= BuiltTo + 1
  <2>1. ends \in SUBSET Nat /\ ends # {} /\ BuiltTo + 1 \in ends
    BY <1>3, TradeTypes
  <2> HIDE DEF ends
  <2> QED
    BY <2>1, MinIsLeast
<1>5. /\ prune'.at = "delete" /\ prune'.cutoff = Min(ends)
      /\ prune' \in [at : {"idle", "delete"}, cutoff : Nat, exempt : SUBSET Tokens]
  <2>1. exempt \in SUBSET Tokens
    BY DEF TopScored, Inv, TypeOK
  <2> QED
    BY <1>1, <1>4, <2>1
<1> HIDE DEF ends
<1>6. TypeOK'
  BY <1>2, <1>5 DEF Inv, TypeOK, tableVars, indexerVars
<1>7. UNCHANGED <<stored, candles, indexed, tip, rollup>>
  BY <1>2 DEF tableVars, indexerVars
<1>8. BuiltTo' = BuiltTo /\ Reached' = Reached
  BY <1>7 DEF BuiltTo, Reached
<1>9. PrunedIsCovered' /\ TipIsNewest' /\ BehindTip'
  BY <1>7, <1>8 DEF Inv, PrunedIsCovered, TipIsNewest, BehindTip
<1>10. Built'
  BY <1>7, <1>8 DEF Inv, Built, CompleteBelow
<1>11. Cut'
  BY <1>4, <1>5, <1>8 DEF Cut
<1> QED
  BY <1>6, <1>9, <1>10, <1>11 DEF Inv

\* Rows are deleted: each is of an hour that the rollup has been through, and was counted.
LEMMA DeleteChunkInv ==
  ASSUME Inv, DeleteChunk
  PROVE  Inv'
<1>1. PICK chunk \in SUBSET Expired : stored' = stored \ chunk
  BY DEF DeleteChunk
<1>2. /\ prune.at = "delete"
      /\ UNCHANGED <<tradeCount, candles, snapshots, scored, indexerVars>>
      /\ UNCHANGED <<rollup, scoring, prune>>
  BY DEF DeleteChunk
<1>3. UNCHANGED <<candles, indexed, tip, rollup, prune>>
  BY <1>2 DEF indexerVars
<1>4. BuiltTo' = BuiltTo /\ Reached' = Reached
  BY <1>3 DEF BuiltTo, Reached
<1>5. TypeOK'
  BY <1>1, <1>2 DEF Inv, TypeOK, indexerVars
<1>6. ASSUME NEW x \in chunk
      PROVE  candles[<<TokenOf[x], HourOf[x]>>] # None
  <2>1. x \in stored /\ x \in indexed /\ x \in Trades /\ HourOf[x] < prune.cutoff
    BY <1>6 DEF Expired, Inv, TypeOK
  <2>2. /\ TokenOf[x] \in Tokens /\ HourOf[x] \in Hours /\ HourOf[x] \in Nat
        /\ prune.cutoff \in Nat /\ BuiltTo \in Nat /\ Reached \in Nat
    BY <2>1, TradeTypes, BuiltToIs, ReachedIs DEF Inv, TypeOK
  <2>3. prune.cutoff <= BuiltTo + 1 /\ BuiltTo < Reached
    BY <1>2 DEF Inv, Cut, Built
  <2>4. HourOf[x] < Reached
    BY <2>1, <2>2, <2>3
  <2>5. candles[<<TokenOf[x], HourOf[x]>>] = Cardinality(In(TokenOf[x], HourOf[x], indexed))
    BY <2>2, <2>4 DEF Inv, Built, CompleteBelow
  <2>6. In(TokenOf[x], HourOf[x], indexed) # {}
    BY <2>1 DEF In, Of
  <2>7. indexed \in SUBSET Trades
    BY DEF Inv, TypeOK
  <2> QED
    BY <2>5, <2>6, <2>7, Counts
<1>7. PrunedIsCovered'
  <2> SUFFICES ASSUME NEW x \in indexed \ stored'
               PROVE  candles[<<TokenOf[x], HourOf[x]>>] # None
    BY <1>3 DEF PrunedIsCovered
  <2>1. x \in chunk \/ x \in indexed \ stored
    BY <1>1
  <2> QED
    BY <1>6, <2>1 DEF Inv, PrunedIsCovered
<1>8. TipIsNewest' /\ BehindTip' /\ Cut'
  BY <1>3, <1>4 DEF Inv, TipIsNewest, BehindTip, Cut
<1>9. Built'
  BY <1>3, <1>4 DEF Inv, Built, CompleteBelow
<1> QED
  BY <1>5, <1>7, <1>8, <1>9 DEF Inv

\* The prune is over, or dies.
LEMMA EndPruneInv ==
  ASSUME Inv, EndPrune
  PROVE  Inv'
<1>1. /\ prune' = [at |-> "idle", cutoff |-> None, exempt |-> {}]
      /\ UNCHANGED <<tableVars, indexerVars, rollup, scoring>>
  BY DEF EndPrune
<1>2. TypeOK'
  BY <1>1, TradeTypes DEF Inv, TypeOK, tableVars, indexerVars
<1>3. UNCHANGED <<stored, candles, indexed, tip, rollup>>
  BY <1>1 DEF tableVars, indexerVars
<1>4. BuiltTo' = BuiltTo /\ Reached' = Reached
  BY <1>3 DEF BuiltTo, Reached
<1>5. PrunedIsCovered' /\ TipIsNewest' /\ BehindTip'
  BY <1>3, <1>4 DEF Inv, PrunedIsCovered, TipIsNewest, BehindTip
<1>6. Built'
  BY <1>3, <1>4 DEF Inv, Built, CompleteBelow
<1>7. Cut'
  BY <1>1 DEF Cut
<1> QED
  BY <1>2, <1>5, <1>6, <1>7 DEF Inv

\* The counters and the scores: nothing that the candles depend on.
LEMMA AsideInv ==
  ASSUME Inv, RefreshCounters \/ Scoring
  PROVE  Inv'
<1>1. CASE RefreshCounters
  <2>1. TypeOK'
    <3>1. stored \in SUBSET Trades
      BY DEF Inv, TypeOK
    <3>2. \A t \in Tokens : Cardinality(Of(t, stored)) \in Nat
      BY <3>1, Counts
    <3>3. tradeCount' \in [Tokens -> Nat]
      BY <1>1, <3>2 DEF RefreshCounters, Inv, TypeOK
    <3> QED
      BY <1>1, <3>3 DEF RefreshCounters, Inv, TypeOK
  <2> QED
    BY <1>1, <2>1, AsideStep DEF RefreshCounters
<1>2. CASE ReadCohort
  <2>1. scoring' \in [at : {"idle", "clear", "write"}, cohort : SUBSET Tokens]
    BY <1>2 DEF ReadCohort, RecentlyTraded
  <2>2. TypeOK'
    BY <1>2, <2>1 DEF ReadCohort, Inv, TypeOK, tableVars, indexerVars
  <2> QED
    BY <1>2, <2>2, AsideStep DEF ReadCohort, tableVars, indexerVars
<1>3. CASE ClearScores
  <2>1. TypeOK'
    BY <1>3 DEF ClearScores, Inv, TypeOK, indexerVars
  <2> QED
    BY <1>3, <2>1, AsideStep DEF ClearScores, indexerVars
<1>4. CASE WriteScores
  <2>1. TypeOK'
    BY <1>4 DEF WriteScores, Inv, TypeOK, indexerVars
  <2> QED
    BY <1>4, <2>1, AsideStep DEF WriteScores, indexerVars
<1>5. CASE ScoringDies
  <2>1. TypeOK'
    BY <1>5 DEF ScoringDies, Inv, TypeOK, tableVars, indexerVars
  <2> QED
    BY <1>5, <2>1, AsideStep DEF ScoringDies, tableVars, indexerVars
<1> QED
  BY <1>1, <1>2, <1>3, <1>4, <1>5 DEF Scoring

\* Every step of the indexer and of the three scripts keeps the invariant.
LEMMA NextInv ==
  ASSUME ReachHours = 0
  PROVE  Inv /\ [Next]_vars => Inv'
<1> SUFFICES ASSUME Inv, [Next]_vars PROVE Inv'
  OBVIOUS
<1>1. CASE Indexing
  BY <1>1, StoreWindowInv, AsideInv, TakeBackInv DEF Indexing
<1>2. CASE RollingUp
  BY <1>2, StartRollupInv, BuildCandlesInv, BuildSnapshotsInv, RollupDiesInv DEF RollingUp
<1>3. CASE Scoring
  BY <1>3, AsideInv
<1>4. CASE Pruning
  BY <1>4, StartPruneInv, DeleteChunkInv, EndPruneInv DEF Pruning
<1>5. CASE UNCHANGED vars
  <2>1. TypeOK'
    BY <1>5 DEF Inv, TypeOK, vars, tableVars, indexerVars
  <2> QED
    BY <1>5, <2>1, AsideStep DEF vars, tableVars, indexerVars
<1> QED
  BY <1>1, <1>2, <1>3, <1>4, <1>5 DEF Next

-----------------------------------------------------------------------------
(* The types, whatever a rollback reaches.                                  *)

\* Where a run of the rollup begins and where it ends are hours.
LEMMA RunTypes ==
  ASSUME TypeOK, stored # {}
  PROVE  FirstUnbuilt \in Nat /\ CompleteThrough \in Nat
<1> DEFINE hours == {HourOf[x] : x \in stored}
<1>1. hours \in SUBSET Hours /\ hours \in SUBSET Nat /\ hours # {}
  BY TradeTypes DEF TypeOK
<1>2. FirstUnbuilt = IF BuiltTo # None THEN BuiltTo + 1 ELSE Min(hours)
  BY DEF FirstUnbuilt
<1>3. CompleteThrough = Max(hours)
  BY DEF CompleteThrough
<1> HIDE DEF hours
<1>4. Min(hours) \in Nat /\ Max(hours) \in Nat
  BY <1>1, MinIsLeast, MaxIsGreatest
<1> QED
  BY <1>2, <1>3, <1>4, BuiltToIs

\* The steps of the indexer.
LEMMA IndexingTypes ==
  ASSUME TypeOK, Indexing
  PROVE  TypeOK'
<1>1. CASE StoreWindow
  <2>1. PICK window \in SUBSET (Trades \ indexed) :
          /\ window # {}
          /\ stored' = stored \union window /\ indexed' = indexed \union window
          /\ touched' = {TokenOf[x] : x \in window}
          /\ tip' = Max({HourOf[x] : x \in window})
    BY <1>1 DEF StoreWindow
  <2>2. tip' \in Hours
    <3> DEFINE hours == {HourOf[x] : x \in window}
    <3>1. hours \in SUBSET Hours /\ hours # {} /\ tip' = Max(hours)
      BY <2>1, TradeTypes
    <3> HIDE DEF hours
    <3> QED
      BY <3>1, MaxIsGreatest
  <2>3. stored' \subseteq indexed' /\ indexed' \subseteq Trades /\ touched' \subseteq Tokens
    BY <2>1, TradeTypes DEF TypeOK
  <2> QED
    BY <1>1, <2>2, <2>3 DEF StoreWindow, TypeOK
<1>2. CASE RefreshCounters
  <2>1. \A t \in Tokens : Cardinality(Of(t, stored)) \in Nat
    BY Counts DEF TypeOK
  <2>2. tradeCount' \in [Tokens -> Nat]
    BY <1>2, <2>1 DEF RefreshCounters, TypeOK
  <2> QED
    BY <1>2, <2>2 DEF RefreshCounters, TypeOK
<1>3. CASE TakeBack
  <2>1. stored' \subseteq indexed' /\ indexed' \subseteq Trades /\ tip' \in Hours \union {None}
    BY <1>3 DEF TakeBack, TypeOK
  <2>2. rollbacks' \in 0..MaxRollbacks
    BY <1>3, RetentionAssumption DEF TakeBack, TypeOK
  <2> QED
    BY <1>3, <2>1, <2>2 DEF TakeBack, TypeOK
<1> QED
  BY <1>1, <1>2, <1>3 DEF Indexing

\* The steps of the rollup.
LEMMA RollingUpTypes ==
  ASSUME TypeOK, RollingUp
  PROVE  TypeOK'
<1> DEFINE Runs == [at : {"idle", "candles", "snapshots", "finished"}, cursor : Nat, through : Nat]
<1>1. CASE StartRollup
  <2>1. rollup' \in Runs
    BY <1>1, RunTypes DEF StartRollup
  <2> QED
    BY <1>1, <2>1 DEF StartRollup, TypeOK, tableVars, indexerVars
<1>2. CASE BuildCandles
  <2>1. candles' \in [Pairs -> Nat]
    BY <1>2, AggregatedType DEF BuildCandles, TypeOK
  <2>2. rollup' \in Runs
    BY <1>2 DEF BuildCandles, TypeOK
  <2> QED
    BY <1>2, <2>1, <2>2 DEF BuildCandles, TypeOK, indexerVars
<1>3. CASE BuildSnapshots
  <2>1. snapshots' \in [Pairs -> Nat]
    BY <1>3, AggregatedType DEF BuildSnapshots, TypeOK
  <2>2. rollup.cursor + BatchHours \in Nat
    BY TradeTypes DEF TypeOK
  <2>3. rollup' \in Runs
    BY <1>3, <2>2 DEF BuildSnapshots, TypeOK
  <2> QED
    BY <1>3, <2>1, <2>3 DEF BuildSnapshots, TypeOK, indexerVars
<1>4. CASE RollupDies
  <2>1. rollup' \in Runs
    BY <1>4 DEF RollupDies, TypeOK
  <2> QED
    BY <1>4, <2>1 DEF RollupDies, TypeOK, tableVars, indexerVars
<1> QED
  BY <1>1, <1>2, <1>3, <1>4 DEF RollingUp

\* The steps of the scoring and of the pruning.
LEMMA PruningTypes ==
  ASSUME TypeOK, Scoring \/ Pruning
  PROVE  TypeOK'
<1>1. CASE Scoring
  <2>1. /\ scoring' \in [at : {"idle", "clear", "write"}, cohort : SUBSET Tokens]
        /\ scored' \subseteq Tokens
        /\ UNCHANGED <<stored, tradeCount, candles, snapshots, indexerVars, rollup, prune>>
    BY <1>1 DEF Scoring, ReadCohort, ClearScores, WriteScores, ScoringDies, RecentlyTraded,
                TypeOK, tableVars, indexerVars
  <2> QED
    BY <2>1 DEF TypeOK, indexerVars
<1>2. CASE StartPrune
  <2>1. PICK byRetention \in Hours, exempt \in TopScored :
          prune' = [at |-> "delete", cutoff |-> Min({byRetention, RolledThrough}),
                    exempt |-> exempt]
    BY <1>2 DEF StartPrune
  <2> DEFINE ends == {byRetention, RolledThrough}
  <2>2. ends \in SUBSET Nat /\ ends # {}
    BY TradeTypes, BuiltToIs DEF RolledThrough
  <2>3. Min(ends) \in Nat
    <3> HIDE DEF ends
    <3> QED
      BY <2>2, MinIsLeast
  <2>4. prune' \in [at : {"idle", "delete"}, cutoff : Nat, exempt : SUBSET Tokens]
    BY <2>1, <2>3 DEF TopScored, TypeOK
  <2> QED
    BY <1>2, <2>4 DEF StartPrune, TypeOK, tableVars, indexerVars
<1>3. CASE DeleteChunk
  BY <1>3 DEF DeleteChunk, TypeOK, indexerVars
<1>4. CASE EndPrune
  BY <1>4, TradeTypes DEF EndPrune, TypeOK, tableVars, indexerVars
<1> QED
  BY <1>1, <1>2, <1>3, <1>4 DEF Pruning

\* Every step keeps the types.
LEMMA NextTypes == TypeOK /\ [Next]_vars => TypeOK'
<1>1. ASSUME TypeOK, UNCHANGED vars PROVE TypeOK'
  BY <1>1 DEF TypeOK, vars, tableVars, indexerVars
<1> QED
  BY <1>1, IndexingTypes, RollingUpTypes, PruningTypes DEF Next

-----------------------------------------------------------------------------
(* The theorems.                                                            *)

\* The inductive invariant, of rollbacks that stay within the newest hour: below the hour the rollup has reached every candle is complete,
\* the hour the indexer fills is above it, and a prune stays below the newest candle.
THEOREM Invariant ==
  ASSUME ReachHours = 0
  PROVE  Spec => []Inv
<1> QED
  BY InitInv, NextInv, PTL DEF Spec

\* Tables and scripts keep their types, and the table of trades holds only what the indexer
\* stored and did not take back, however far a rollback reaches.
THEOREM TablesTyped == Spec => []TypeOK
<1>1. Init => TypeOK
  BY InitInv DEF Inv
<1> QED
  BY <1>1, NextTypes, PTL DEF Spec

\* Every candle up to the newest counts the whole hour, the trades pruned since included,
\* whenever the rollup ran, died and ran again, as long as no rollback reaches a built hour.
THEOREM CandlesAreComplete ==
  ASSUME ReachHours = 0
  PROVE  Spec => []CandlesComplete
<1>1. Inv => CandlesComplete
  <2> SUFFICES ASSUME Inv, NEW t \in Tokens, NEW h \in Hours, h <= BuiltTo
               PROVE  candles[<<t, h>>] = Cardinality(In(t, h, indexed))
    BY DEF CandlesComplete
  <2>1. h < Reached
    BY BuiltToIs, ReachedIs, TradeTypes
  <2> QED
    BY <2>1 DEF Inv, Built, CompleteBelow
<1> QED
  BY <1>1, Invariant, PTL

\* prune-trades deletes nothing that is not in a candle, under the same hypothesis.
THEOREM PruningIsSafe ==
  ASSUME ReachHours = 0
  PROVE  Spec => []PrunedIsCovered
<1>1. Inv => PrunedIsCovered
  BY DEF Inv
<1> QED
  BY <1>1, Invariant, PTL

\* A candle is final: neither a rollup that is started again after it died nor one that
\* runs after a prune, when fewer trades are left to count, ever writes over it.
THEOREM CandlesAreFinal ==
  ASSUME ReachHours = 0
  PROVE  Spec => [][\A p \in Pairs : candles[p] # None => candles'[p] = candles[p]]_candles
<1> DEFINE Final == \A p \in Pairs : candles[p] # None => candles'[p] = candles[p]
<1>1. Inv /\ [Next]_vars => [Final]_candles
  <2> SUFFICES ASSUME Inv, Next, candles' # candles PROVE Final
    BY DEF vars, tableVars
  <2>1. BuildCandles
    BY DEF Next, Indexing, RollingUp, Scoring, Pruning, StoreWindow, RefreshCounters, TakeBack,
           StartRollup, BuildSnapshots, RollupDies, ReadCohort, ClearScores, WriteScores,
           ScoringDies, StartPrune, DeleteChunk, EndPrune, tableVars
  <2>2. ASSUME NEW t \in Tokens, NEW h \in Hours, candles[<<t, h>>] # None
        PROVE  candles'[<<t, h>>] = candles[<<t, h>>]
    <3>1. h <= BuiltTo /\ BuiltTo \in Nat /\ h \in Nat
      BY <2>2, BuiltToIs, TradeTypes
    <3>2. rollup.at = "candles" /\ candles' = Aggregated(candles)
      BY <2>1 DEF BuildCandles
    <3>3. h \in Batch => h > BuiltTo
      BY <3>2, BatchWritten, Zenon
    <3>4. h \notin Batch
      BY <3>1, <3>3
    <3>5. Aggregated(candles)[<<t, h>>] = candles[<<t, h>>]
      BY <3>2, <3>4, BatchWritten, Zenon
    <3> QED
      BY <3>2, <3>5
  <2> QED
    BY <2>2 DEF Pairs
<1> QED
  BY <1>1, Invariant, PTL DEF Spec
=============================================================================
