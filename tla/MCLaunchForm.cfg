\* A form of two assets, a wallet and a friend to buy for; see MCLaunchForm for the inputs.
\* One ERC-20 pair and one row.  The wallet can pay for the launch and one buy of the three
\* it could be asked for; one change of terms or holdings, at any point, and two
\* transactions: an approval and a launch, or a launch that is lost sight of and another.
SPECIFICATION FairSpec
CONSTANTS
  usd = usd
  me = me
  friend = friend
  Erc20Pairs <- OnePair
  Wallets <- TwoWallets
  Creator = me
  Amounts = {1}
  Details = {1, 2}
  Taxes = {1}
  Ceilings = {0, 1}
  Fees = {1, 2}
  FirstProtocols <- Rendered
  Terms = {1, 2}
  Funds <- Purse
  Granted = {0}
  MaxRows = 1
  MaxChanges = 1
  MaxTransactions = 2
INVARIANTS
  SignsWhatIsTyped
  PlanFunded
  RepegNeverLands
  PhaseTellsTheTruth
  BuysAreExempt
PROPERTY
  SubmitEnds
CHECK_DEADLOCK FALSE
