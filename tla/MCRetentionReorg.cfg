\* By hand, one claim after the other: a reorganisation in the first blocks of an hour takes
\* back the end of the hour before it, which has its candles already. TLC finds
\* CandlesComplete violated and, without it, PrunedIsCovered.
SPECIFICATION Spec
CONSTANTS
  t1 = t1
  t2 = t2
  Tokens <- TwoTokens
  Trades <- FiveTrades
  TokenOf <- TokensTraded
  HourOf <- HoursTraded
  Hours <- ThreeHours
  BatchHours = 1
  WindowHours = 1
  KeepTrending = 1
  ReachHours = 1
  MaxRollbacks = 1
INVARIANTS
  CandlesComplete
  PrunedIsCovered
\* There are only five trades; after the last the indexer has nothing to do.
CHECK_DEADLOCK FALSE
