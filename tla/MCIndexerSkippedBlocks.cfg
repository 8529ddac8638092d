\* By hand: no reorganisation at all, but a read of prepareLaunch that fails and a crash
\* before the checkpoint is written. TLC finds CascadeBringsTradesBack violated.
SPECIFICATION Spec
CONSTANTS
  t1 = t1
  t2 = t2
  x1 = x1
  x2 = x2
  Tokens <- TwoTokens
  Trades <- OneTrade
  TokenOf <- AllOfT1
  MaxHead = 2
  MaxReorgs = 0
  ReorgDepth = 0
  StartBlock = 0
  ConfirmationDepth = 0
  QuietReorgs = TRUE
  ReadsMayFail = TRUE
  Pausable <- Nobody
  FaultsHappen = TRUE
  MaxFailed = 0
  MaxMisreads = 0
  MaxCrashes = 1
INVARIANTS
  CascadeBringsTradesBack
