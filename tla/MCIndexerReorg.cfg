\* Reorganisations reach deeper than the confirmation depth, in the middle of ticks.
SPECIFICATION FairSpec
CONSTANTS
  t1 = t1
  t2 = t2
  x1 = x1
  x2 = x2
  Tokens <- OneToken
  Trades <- OneTrade
  TokenOf <- AllOfT1
  MaxHead = 3
  MaxReorgs = 1
  ReorgDepth = 2
  StartBlock = 0
  ConfirmationDepth = 1
  QuietReorgs = FALSE
  ReadsMayFail = FALSE
  Pausable <- Nobody
  FaultsHappen = TRUE
  MaxFailed = 0
  MaxMisreads = 0
  MaxCrashes = 1
PROPERTIES
  RewindLeavesOnlyCanonicalLaunches
  RewindsOnlyOrphans
  CatchesUp
