\* Up to three wallets and a stranger; two large buys reach graduation.
SPECIFICATION Spec
CONSTANTS
  w1 = w1
  w2 = w2
  w3 = w3
  w4 = w4
  BASIS_POINTS = 100
  FeeBps = 1
  CreatorTaxBps = 2
  ReservedTokens <- Reserved
  Addresses <- Wallets
  Amounts = {20, 301}
  MaxRecipients = 3
  SlippageBps = 3
  Supply = 10000
  PhantomQuote = 168
  SnipeTaxes = {0, 30}
  MaxStrangers = 1
INVARIANTS
  CurveSolvent
  ClearsOwnFloors
  ResultsMatchChain
PROPERTY
  FilledAsShown
CHECK_DEADLOCK FALSE
