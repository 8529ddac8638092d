\* By hand: one trade whose receipt is not seen in time. TLC finds PendingIsNotFailed
\* violated.
SPECIFICATION Spec
CONSTANTS
  Amounts = {1}
  Granted = {0}
  NativeQuote = TRUE
  MaxTransactions = 1
  MaxAsked = 1
INVARIANT PendingIsNotFailed
CHECK_DEADLOCK FALSE
