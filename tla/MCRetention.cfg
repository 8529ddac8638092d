\* The indexer, a reorganisation, and the three scripts at once, all of them dying.
\* The reorganisation stays within the newest hour.
SPECIFICATION Spec
CONSTANTS
  t1 = t1
  t2 = t2
  Tokens <- TwoTokens
  Trades <- FiveTrades
  TokenOf <- TokensTraded
  HourOf <- HoursTraded
  Hours <- ThreeHours
  BatchHours = 1
  WindowHours = 1
  KeepTrending = 1
  ReachHours = 0
  MaxRollbacks = 1
INVARIANTS
  CandlesComplete
  PrunedIsCovered
\* There are only five trades; after the last the indexer has nothing to do.
CHECK_DEADLOCK FALSE
