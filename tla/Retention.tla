----------------------------- MODULE Retention -----------------------------
(***************************************************************************)
(* How the database stays inside its size limit: three scripts an operator *)
(* runs beside the indexer, on the same tables.                            *)
(*                                                                         *)
(*   rollup-aggregates  builds hourly candles and volume snapshots         *)
(*   score-trending     ranks the tokens from the snapshots                *)
(*   prune-trades       deletes trades, but only what the rollup covers    *)
(*                      and never those of the tokens ranked highest       *)
(*                                                                         *)
(* One action is one statement of one script, and every script may die     *)
(* between two of them.  Time is counted in hours, the unit the aggregates *)
(* have; an aggregate is abstracted to the number of trades in it.  The    *)
(* indexer is reduced to what it does to trades: it stores them in the     *)
(* order of time, refreshes the counters of their tokens, and may have to  *)
(* take back the newest ones.                                              *)
(***************************************************************************)
EXTENDS Integers, FiniteSets, FiniteSetsExt

CONSTANTS
  Tokens, Trades,
  TokenOf,        \* TokenOf[x]: the token trade x is of
  HourOf,         \* HourOf[x]: the hour of its timestamp
  Hours,          \* the hours there are, 1..n
  BatchHours,     \* HOURS_PER_BATCH
  WindowHours,    \* --window of score-trending
  KeepTrending,   \* --keep-trending of prune-trades
  ReachHours,     \* how many hours before the newest a rollback reaches back into
  MaxRollbacks    \* bound: reorganisations

None == 0

ASSUME RetentionAssumption ==
  /\ IsFiniteSet(Tokens) /\ IsFiniteSet(Trades)
  /\ TokenOf \in [Trades -> Tokens]
  /\ IsFiniteSet(Hours) /\ Hours = 1..Cardinality(Hours)
  /\ HourOf \in [Trades -> Hours]
  /\ BatchHours \in Nat \ {0}
  /\ WindowHours \in Nat \ {0}
  /\ KeepTrending \in Nat
  /\ ReachHours \in Nat
  /\ MaxRollbacks \in Nat

VARIABLES
  stored,       \* Trade rows
  tradeCount,   \* Token.tradeCount
  candles,      \* Candle rows: candles[t][h] trades, None when there is no row
  snapshots,    \* VolumeSnapshot rows, likewise
  scored,       \* the tokens with trendingScore > 0
  touched,      \* tokens of the indexer's window whose counters are to be refreshed
  rollup,       \* the rollup script: [at, cursor, through]
  scoring,      \* the scoring script: [at, cohort]
  prune,        \* the pruning script: [at, cutoff, exempt]
  indexed,      \* observed only: trades stored and not taken back
  tip,          \* the hour the indexer has reached
  rollbacks

tableVars == <<stored, tradeCount, candles, snapshots, scored>>
indexerVars == <<touched, indexed, tip, rollbacks>>
vars == <<tableVars, indexerVars, rollup, scoring, prune>>

Pairs == Tokens \X Hours

Of(t, rows) == {x \in rows : TokenOf[x] = t}
In(t, h, rows) == {x \in Of(t, rows) : HourOf[x] = h}

Latest(hours) == IF hours = {} THEN None ELSE Max(hours)

\* MAX("openTime") over every token: how far the rollup has got.
BuiltTo == Latest({h \in Hours : \E t \in Tokens : candles[<<t, h>>] # None})

-----------------------------------------------------------------------------
(* The indexer.                                                            *)

\* recordMany of one window.  Trades come in the order of their blocks.
StoreWindow ==
  /\ touched = {}
  /\ \E window \in SUBSET (Trades \ indexed) :
       /\ window # {}
       /\ \A x \in window : HourOf[x] >= tip
       /\ stored' = stored \union window
       /\ indexed' = indexed \union window
       /\ touched' = {TokenOf[x] : x \in window}
       /\ tip' = Max({HourOf[x] : x \in window})
  /\ UNCHANGED <<tradeCount, candles, snapshots, scored, rollbacks, rollup, scoring, prune>>

\* refreshTokenStatsBatch: the counters are counted again from the rows there are.
RefreshCounters ==
  /\ touched # {}
  /\ tradeCount' = [t \in Tokens |->
                      IF t \in touched THEN Cardinality(Of(t, stored)) ELSE tradeCount[t]]
  /\ touched' = {}
  /\ UNCHANGED <<stored, candles, snapshots, scored, indexed, tip, rollbacks>>
  /\ UNCHANGED <<rollup, scoring, prune>>

\* deleteAboveBlock after a reorganisation: the trades above a block go.  That block is of
\* the newest hour or, when the hour has only just begun, of one before it: then every trade
\* of the later hours goes, and the indexer stores that hour again.
TakeBack ==
  /\ touched = {}
  /\ rollbacks < MaxRollbacks
  /\ rollbacks' = rollbacks + 1
  /\ \E back \in {h \in Hours \union {None} : tip - ReachHours <= h /\ h <= tip},
        orphans \in SUBSET indexed :
       /\ {x \in indexed : HourOf[x] > back} \subseteq orphans
       /\ \A x \in orphans : HourOf[x] >= back
       /\ stored' = stored \ orphans
       /\ indexed' = indexed \ orphans
       /\ tip' = back
  /\ UNCHANGED <<tradeCount, candles, snapshots, scored, touched>>
  /\ UNCHANGED <<rollup, scoring, prune>>

-----------------------------------------------------------------------------
(* rollup-aggregates.ts                                                    *)

\* Where a run begins: after the newest candle, or at the oldest trade.
FirstUnbuilt ==
  IF BuiltTo # None THEN BuiltTo + 1 ELSE Min({HourOf[x] : x \in stored})

\* Mutant of CompleteThrough: the hour that is still filling counts as complete.
IncludingNewest == Max({HourOf[x] : x \in stored}) + 1

\* The end of the complete hours, exclusive: the hour of the newest trade is filling.
CompleteThrough == Max({HourOf[x] : x \in stored})

StartRollup ==
  /\ rollup.at \in {"idle", "finished"}
  /\ stored # {}
  /\ FirstUnbuilt < CompleteThrough
  /\ rollup' = [at |-> "candles", cursor |-> FirstUnbuilt, through |-> CompleteThrough]
  /\ UNCHANGED <<tableVars, indexerVars, scoring, prune>>

\* The hours of one batch.
Batch == {h \in Hours : /\ rollup.cursor <= h
                        /\ h < rollup.cursor + BatchHours
                        /\ h < rollup.through}

\* INSERT ... SELECT ... GROUP BY ... ON CONFLICT DO UPDATE: groups without a trade
\* leave the row that may be there alone.
Aggregated(rows) ==
  [p \in Pairs |->
     IF p[2] \in Batch /\ In(p[1], p[2], stored) # {}
     THEN Cardinality(In(p[1], p[2], stored)) ELSE rows[p]]

BuildCandles ==
  /\ rollup.at = "candles"
  /\ candles' = Aggregated(candles)
  /\ rollup' = [rollup EXCEPT !.at = "snapshots"]
  /\ UNCHANGED <<stored, tradeCount, snapshots, scored, indexerVars, scoring, prune>>

BuildSnapshots ==
  /\ rollup.at = "snapshots"
  /\ snapshots' = Aggregated(snapshots)
  /\ LET next == rollup.cursor + BatchHours IN
       rollup' = IF next < rollup.through
                 THEN [rollup EXCEPT !.at = "candles", !.cursor = next]
                 ELSE [rollup EXCEPT !.at = "finished"]
  /\ UNCHANGED <<stored, tradeCount, candles, scored, indexerVars, scoring, prune>>

RollupDies ==
  /\ rollup.at \in {"candles", "snapshots"}
  /\ rollup' = [rollup EXCEPT !.at = "idle"]
  /\ UNCHANGED <<tableVars, indexerVars, scoring, prune>>

-----------------------------------------------------------------------------
(* score-trending.ts                                                       *)

\* The tokens with a snapshot in the window that ends with the newest snapshot.
RecentlyTraded ==
  LET anchor == Latest({h \in Hours : \E t \in Tokens : snapshots[<<t, h>>] # None}) IN
  {t \in Tokens : \E h \in Hours : h > anchor - WindowHours /\ snapshots[<<t, h>>] # None}

ReadCohort ==
  /\ scoring.at = "idle"
  /\ RecentlyTraded # {}
  /\ scoring' = [at |-> "clear", cohort |-> RecentlyTraded]
  /\ UNCHANGED <<tableVars, indexerVars, rollup, prune>>

ClearScores ==
  /\ scoring.at = "clear"
  /\ scored' = {}
  /\ scoring' = [scoring EXCEPT !.at = "write"]
  /\ UNCHANGED <<stored, tradeCount, candles, snapshots, indexerVars, rollup, prune>>

WriteScores ==
  /\ scoring.at = "write"
  /\ scored' = scoring.cohort
  /\ scoring' = [at |-> "idle", cohort |-> {}]
  /\ UNCHANGED <<stored, tradeCount, candles, snapshots, indexerVars, rollup, prune>>

ScoringDies ==
  /\ scoring.at # "idle"
  /\ scoring' = [at |-> "idle", cohort |-> {}]
  /\ UNCHANGED <<tableVars, indexerVars, rollup, prune>>

-----------------------------------------------------------------------------
(* prune-trades.ts                                                         *)

\* Mutant of RolledThrough: one hour past the rollup.
OneHourLate == BuiltTo + 2

\* The end of the newest candle, exclusive.
RolledThrough == BuiltTo + 1

\* The exemption list: the tokens with the highest scores, at most KeepTrending.
TopScored ==
  {top \in SUBSET scored :
     Cardinality(top) = Min({KeepTrending, Cardinality(scored)})}

\* The cutoff is the retention window (any hour: it depends on the clock and on
\* --hours) or the end of the rollup, whichever is earlier.
StartPrune ==
  /\ prune.at = "idle"
  /\ BuiltTo # None
  /\ \E byRetention \in Hours, exempt \in TopScored :
       prune' = [at |-> "delete", cutoff |-> Min({byRetention, RolledThrough}),
                 exempt |-> exempt]
  /\ UNCHANGED <<tableVars, indexerVars, rollup, scoring>>

Expired ==
  {x \in stored : HourOf[x] < prune.cutoff /\ TokenOf[x] \notin prune.exempt}

\* One chunk.  The rows of a chunk are whichever the database returns first.
DeleteChunk ==
  /\ prune.at = "delete"
  /\ \E chunk \in SUBSET Expired : chunk # {} /\ stored' = stored \ chunk
  /\ UNCHANGED <<tradeCount, candles, snapshots, scored, indexerVars>>
  /\ UNCHANGED <<rollup, scoring, prune>>

\* Nothing is left, or the script dies or its VACUUM fails.
EndPrune ==
  /\ prune.at = "delete"
  /\ prune' = [at |-> "idle", cutoff |-> None, exempt |-> {}]
  /\ UNCHANGED <<tableVars, indexerVars, rollup, scoring>>

-----------------------------------------------------------------------------

Init ==
  /\ stored = {}
  /\ tradeCount = [t \in Tokens |-> 0]
  /\ candles = [p \in Pairs |-> None]
  /\ snapshots = [p \in Pairs |-> None]
  /\ scored = {}
  /\ touched = {}
  /\ indexed = {}
  /\ tip = None
  /\ rollbacks = 0
  /\ rollup = [at |-> "idle", cursor |-> None, through |-> None]
  /\ scoring = [at |-> "idle", cohort |-> {}]
  /\ prune = [at |-> "idle", cutoff |-> None, exempt |-> {}]

Indexing == StoreWindow \/ RefreshCounters \/ TakeBack
RollingUp == StartRollup \/ BuildCandles \/ BuildSnapshots \/ RollupDies
Scoring == ReadCohort \/ ClearScores \/ WriteScores \/ ScoringDies
Pruning == StartPrune \/ DeleteChunk \/ EndPrune

Next == Indexing \/ RollingUp \/ Scoring \/ Pruning

Spec == Init /\ [][Next]_vars

-----------------------------------------------------------------------------
(* Properties.                                                             *)

TypeOK ==
  /\ stored \subseteq indexed /\ indexed \subseteq Trades
  /\ tradeCount \in [Tokens -> Nat]
  /\ candles \in [Pairs -> Nat]
  /\ snapshots \in [Pairs -> Nat]
  /\ scored \subseteq Tokens /\ touched \subseteq Tokens
  /\ rollup \in [at : {"idle", "candles", "snapshots", "finished"}, cursor : Nat, through : Nat]
  /\ scoring \in [at : {"idle", "clear", "write"}, cohort : SUBSET Tokens]
  /\ prune \in [at : {"idle", "delete"}, cutoff : Nat, exempt : SUBSET Tokens]
  /\ tip \in Hours \union {None}
  /\ rollbacks \in 0..MaxRollbacks

\* A candle at or below the newest one tells the whole hour: it counts every trade the
\* indexer stored in it, those pruned since included, and no other.  Building an hour
\* too early, or building it again after a prune, would freeze a partial bar
\* (rollup-aggregates.ts: "ONLY COMPLETE HOURS ARE BUILT").  True of rollbacks that stay
\* within the newest hour, ReachHours = 0: one that takes back a built hour leaves its candle.
CandlesComplete ==
  \A t \in Tokens, h \in Hours :
    h <= BuiltTo => candles[<<t, h>>] = Cardinality(In(t, h, indexed))

\* Whatever is no longer in the table is in a candle: prune-trades deletes nothing that
\* the rollup has not covered, however the two and the indexer interleave ("a trade no
\* candle covers is the only copy of that history").  Again for ReachHours = 0: after a
\* rollback below the newest candle the cutoff is an hour that is filling.
PrunedIsCovered ==
  \A x \in indexed \ stored : candles[<<TokenOf[x], HourOf[x]>>] # None

\* As long as nothing has been pruned, a run of the rollup that reaches its end leaves a
\* snapshot for every candle, also when an earlier run was interrupted ("An interrupted
\* run is finished by starting it again", rollup-aggregates.ts).
RerunFinishesInterrupted ==
  rollup.at = "finished" /\ stored = indexed => snapshots = candles

\* A pruned token keeps its counters (prune-trades.ts: "its counters - those live on
\* the token row"): once they are refreshed they count every trade it ever had.
CountersSurvivePruning ==
  touched = {} => \A t \in Tokens : tradeCount[t] = Cardinality(Of(t, indexed))
=============================================================================
