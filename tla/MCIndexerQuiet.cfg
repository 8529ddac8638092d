\* A reorganisation deeper than the confirmation depth, between two ticks.
SPECIFICATION Spec
CONSTANTS
  t1 = t1
  t2 = t2
  x1 = x1
  x2 = x2
  Tokens <- OneToken
  Trades <- OneTrade
  TokenOf <- AllOfT1
  MaxHead = 4
  MaxReorgs = 1
  ReorgDepth = 2
  StartBlock = 0
  ConfirmationDepth = 1
  QuietReorgs = TRUE
  ReadsMayFail = FALSE
  Pausable <- CurvesOnly
  FaultsHappen = FALSE
  MaxFailed = 0
  MaxMisreads = 1
  MaxCrashes = 0
INVARIANTS
  VouchedLaunchesExact
