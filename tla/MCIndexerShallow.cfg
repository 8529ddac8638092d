\* Reorganisations stay within the confirmation depth; everything else goes wrong.
SPECIFICATION Spec
CONSTANTS
  t1 = t1
  t2 = t2
  x1 = x1
  x2 = x2
  Tokens <- OneToken
  Trades <- OneTrade
  TokenOf <- AllOfT1
  MaxHead = 3
  MaxReorgs = 1
  ReorgDepth = 1
  StartBlock = 0
  ConfirmationDepth = 1
  QuietReorgs = FALSE
  ReadsMayFail = TRUE
  Pausable <- Nobody
  FaultsHappen = TRUE
  MaxFailed = 1
  MaxMisreads = 0
  MaxCrashes = 1
INVARIANTS
  StatsFresh
PROPERTIES
  RefinesLedger
  CheckpointsNeverMoveBack
