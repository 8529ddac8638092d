\* By hand, one claim after the other (TLC stops at the first that fails: take it off the
\* list to see the next): a curve that cannot be read is called ready to graduate
\* (ReadyIsRead); a buy in the anti-snipe window of an ERC-20 launch cannot be quoted before
\* it is approved, nor approved before it is quoted (ApprovalIsOffered); such a buy, filled
\* in part, comes without the warning (PartialFillIsSaid).
SPECIFICATION QuotesSpec
CONSTANTS
  BASIS_POINTS = 100
  FeeBps = 1
  CreatorTaxBps = 2
  ReservedTokens <- Reserved
  Supply = 10000
  PhantomQuote = 168
  GraduationThreshold = 420
  StartBps = 99
  WindowSeconds = 3
  SHIFT_STEPS = 14
  MIN_SLIPPAGE_BPS = 1
  MAX_SLIPPAGE_BPS = 50
  BuyAmounts = {0, 20, 600}
  SellAmounts = {500}
  Slippages = {0, 1}
  Skews <- ClockSkews
  None = None
  MaxTime = 4
  MaxOthers = 4
INVARIANTS
  ReadyIsRead
  ApprovalIsOffered
  PartialFillIsSaid
CHECK_DEADLOCK FALSE
