\* By hand: a reorganisation between two ticks, and nothing else going wrong, at a depth
\* that lets the two streams roll back to different blocks.  The cascade moves the curve
\* checkpoint up.  TLC finds CascadeOnlyPullsBack violated.
SPECIFICATION Spec
CONSTANTS
  t1 = t1
  t2 = t2
  x1 = x1
  x2 = x2
  Tokens <- OneToken
  Trades <- OneTrade
  TokenOf <- AllOfT1
  MaxHead = 5
  MaxReorgs = 1
  ReorgDepth = 4
  StartBlock = 0
  ConfirmationDepth = 2
  QuietReorgs = TRUE
  ReadsMayFail = FALSE
  Pausable <- Nobody
  FaultsHappen = FALSE
  MaxFailed = 0
  MaxMisreads = 0
  MaxCrashes = 0
PROPERTIES
  CascadeOnlyPullsBack
