\* By hand, one claim after the other (TLC stops at the first that fails: take it off the
\* list to see the next): a rollup that dies and is started again completes the snapshots
\* (RerunFinishesInterrupted); a token that is pruned and traded once more keeps its counters
\* (CountersSurvivePruning).
SPECIFICATION Spec
CONSTANTS
  t1 = t1
  t2 = t2
  Tokens <- TwoTokens
  Trades <- FiveTrades
  TokenOf <- TokensTraded
  HourOf <- HoursTraded
  Hours <- ThreeHours
  BatchHours = 1
  WindowHours = 1
  KeepTrending = 1
  ReachHours = 0
  MaxRollbacks = 0
INVARIANTS
  RerunFinishesInterrupted
  CountersSurvivePruning
\* There are only five trades; after the last the indexer has nothing to do.
CHECK_DEADLOCK FALSE
