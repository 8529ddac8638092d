\* By hand: the sequence can be ticked and then find itself without the pair it needs.
SPECIFICATION Spec
CONSTANTS
  usd = usd
  me = me
  friend = friend
  Erc20Pairs <- OnePair
  Wallets <- TwoWallets
  Creator = me
  Amounts = {1}
  Details = {1, 2}
  Taxes = {1}
  Ceilings = {0, 1}
  Fees = {1, 2}
  FirstProtocols <- Rendered
  Terms = {1, 2}
  Funds <- Purse
  Granted = {0}
  MaxRows = 1
  MaxChanges = 1
  MaxTransactions = 2
INVARIANT
  SequenceCanBeDisabled
CHECK_DEADLOCK FALSE
