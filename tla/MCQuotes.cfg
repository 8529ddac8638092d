\* A small buy and one beyond graduation, a small sell; the clock of the browser is right, or
\* a second fast or slow.  Four acts of others reach the pool.
SPECIFICATION QuotesSpec
CONSTANTS
  BASIS_POINTS = 100
  FeeBps = 1
  CreatorTaxBps = 2
  ReservedTokens <- Reserved
  Supply = 10000
  PhantomQuote = 168
  GraduationThreshold = 420
  StartBps = 99
  WindowSeconds = 3
  SHIFT_STEPS = 14
  MIN_SLIPPAGE_BPS = 1
  MAX_SLIPPAGE_BPS = 50
  BuyAmounts = {0, 20, 600}
  SellAmounts = {500}
  Slippages = {0, 1}
  Skews <- ClockSkews
  None = None
  MaxTime = 4
  MaxOthers = 4
INVARIANTS
  AsQuoted
  TaxWasTold
  RefusesOnlyTheImpossible
CHECK_DEADLOCK FALSE
