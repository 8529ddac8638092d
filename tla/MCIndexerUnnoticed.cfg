\* By hand: a reorganisation between two ticks, and a hash that cannot be read when it has
\* to be compared.  TLC finds AdvancesFromCanonical violated.
SPECIFICATION Spec
CONSTANTS
  t1 = t1
  t2 = t2
  x1 = x1
  x2 = x2
  Tokens <- OneToken
  Trades <- OneTrade
  TokenOf <- AllOfT1
  MaxHead = 4
  MaxReorgs = 1
  ReorgDepth = 2
  StartBlock = 0
  ConfirmationDepth = 1
  QuietReorgs = TRUE
  ReadsMayFail = FALSE
  Pausable <- Nobody
  FaultsHappen = TRUE
  MaxFailed = 0
  MaxMisreads = 0
  MaxCrashes = 0
PROPERTIES
  AdvancesFromCanonical
