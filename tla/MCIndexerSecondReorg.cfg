\* By hand: a second reorganisation meets what the first left behind unnoticed.  TLC finds
\* RewindLeavesOnlyCanonicalLaunches violated.
SPECIFICATION Spec
CONSTANTS
  t1 = t1
  t2 = t2
  x1 = x1
  x2 = x2
  Tokens <- OneToken
  Trades <- OneTrade
  TokenOf <- AllOfT1
  MaxHead = 4
  MaxReorgs = 2
  ReorgDepth = 2
  StartBlock = 0
  ConfirmationDepth = 1
  QuietReorgs = FALSE
  ReadsMayFail = FALSE
  Pausable <- Nobody
  FaultsHappen = TRUE
  MaxFailed = 0
  MaxMisreads = 0
  MaxCrashes = 0
PROPERTIES
  RewindLeavesOnlyCanonicalLaunches
