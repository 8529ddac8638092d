\* Buys pay in the chain's coin, sells need an approval.  Two amounts, two transactions;
\* an earlier visit left an allowance that covers the smaller amount only.
SPECIFICATION FairSpec
CONSTANTS
  Amounts = {1, 2}
  Granted = {1}
  NativeQuote = TRUE
  MaxTransactions = 2
  MaxAsked = 2
INVARIANTS
  SignsWhatIsTyped
  PhaseTellsTheTruth
  AllowanceCoversTrade
PROPERTIES
  QuoteSettles
  SendEnds
CHECK_DEADLOCK FALSE
