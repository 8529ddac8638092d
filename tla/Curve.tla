------------------------------- MODULE Curve -------------------------------
(***************************************************************************)
(* Curve: the arithmetic of a bonding curve, as the program replicates it  *)
(* off-chain.  A curve is a pair of reserves [quote, token]; what a launch *)
(* fixes for its curve, fees, what it starts with and the allocation that  *)
(* is never sold, are constants.  Every division is a floor, as in the     *)
(* contracts.                                                              *)
(*                                                                         *)
(* getAmountOut and getAmountIn are only called with a fee of zero, and    *)
(* the factor BASIS_POINTS then cancels from both sides of their           *)
(* divisions: it is left out.                                              *)
(***************************************************************************)
EXTENDS Integers

CONSTANTS
  BASIS_POINTS,    \* 10000 in the code, smaller where TLC has to multiply
  FeeBps,
  CreatorTaxBps,
  ReservedTokens,  \* tokens the curve never sells: the graduated pool's
  Supply,          \* tokens a curve starts with
  PhantomQuote     \* the quote reserve it starts with, which nobody paid

ASSUME CurveAssumption ==
  /\ BASIS_POINTS \in Nat \ {0}
  /\ FeeBps \in Nat
  /\ CreatorTaxBps \in Nat
  /\ ReservedTokens \in Nat
  /\ Supply \in Nat \ {0}
  /\ PhantomQuote \in Nat \ {0}

VARIABLE curve     \* the reserves on chain

Reserves == [quote : Nat, token : Nat]

Launched == [quote |-> PhantomQuote, token |-> Supply]

-----------------------------------------------------------------------------
(* Money.                                                                  *)

applyBps(amount, bps) == (amount * bps) \div BASIS_POINTS

applySlippageFloor(expectedOut, slippageBps) ==
  expectedOut - applyBps(expectedOut, slippageBps)

ceilDiv(n, d) == IF n = 0 THEN 0 ELSE (n + d - 1) \div d

-----------------------------------------------------------------------------
(* Prices.                                                                 *)

getAmountOut(amountIn, reserveIn, reserveOut) ==
  (amountIn * reserveOut) \div (reserveIn + amountIn)

getAmountIn(amountOut, reserveIn, reserveOut) ==
  (amountOut * reserveIn) \div (reserveOut - amountOut) + 1

totalTaxBps(snipeTaxBps) == FeeBps + CreatorTaxBps + snipeTaxBps

\* What is left of an input when every leg has been taken from it.
Net(spent, snipeTaxBps) ==
  spent - applyBps(spent, FeeBps) - applyBps(spent, CreatorTaxBps)
        - applyBps(spent, snipeTaxBps)

sellable(c) == IF c.token > ReservedTokens THEN c.token - ReservedTokens ELSE 0

Unclamped(c, quoteIn, snipeTaxBps) ==
  getAmountOut(Net(quoteIn, snipeTaxBps), c.quote, c.token)

\* computeCurveBuy returns; where it is false, it throws.  A clamp implies that
\* tokens are reserved, so getAmountIn never throws in it.
Buyable(c, quoteIn, snipeTaxBps) ==
  /\ quoteIn > 0
  /\ totalTaxBps(snipeTaxBps) < BASIS_POINTS
  /\ Net(quoteIn, snipeTaxBps) > 0
  /\ c.quote > 0
  /\ sellable(c) > 0

\* Mutant of ClampedSpend: the net price is charged without the fees on top.
NotGrossedUp(c, quoteIn, snipeTaxBps) ==
  LET net == getAmountIn(sellable(c), c.quote, c.token) IN
  IF net < quoteIn THEN net ELSE quoteIn

\* The price of all that is sellable, grossed up by the fees.
ClampedSpend(c, quoteIn, snipeTaxBps) ==
  LET net == getAmountIn(sellable(c), c.quote, c.token)
      gross == ceilDiv(net * BASIS_POINTS, BASIS_POINTS - totalTaxBps(snipeTaxBps))
  IN  IF gross < quoteIn THEN gross ELSE quoteIn

\* A buy that would go below the reserved allocation is filled up to it.
computeCurveBuy(c, quoteIn, snipeTaxBps) ==
  LET partialFill == Unclamped(c, quoteIn, snipeTaxBps) > sellable(c)
      spent == IF partialFill THEN ClampedSpend(c, quoteIn, snipeTaxBps) ELSE quoteIn
  IN  [tokensOut   |-> IF partialFill THEN sellable(c)
                       ELSE Unclamped(c, quoteIn, snipeTaxBps),
       spent       |-> spent,
       net         |-> Net(spent, snipeTaxBps),
       partialFill |-> partialFill]

\* The reserves after a buy, as planBundle advances them.
AfterBuy(c, buy) == [quote |-> c.quote + buy.net, token |-> c.token - buy.tokensOut]

\* computeCurveSell: priced first, the fees come out of the output.
grossQuoteOut(c, tokensIn) == getAmountOut(tokensIn, c.token, c.quote)

computeCurveSell(c, tokensIn) ==
  LET gross == grossQuoteOut(c, tokensIn)
  IN  gross - applyBps(gross, FeeBps) - applyBps(gross, CreatorTaxBps)

\* The reserves after a sell: what the contract pays out, fees included, leaves.
AfterSell(c, tokensIn) ==
  [quote |-> c.quote - grossQuoteOut(c, tokensIn), token |-> c.token + tokensIn]

\* computeReservedTokens, for a curve that starts with a phantom quote.
computeReservedTokens(supply, phantomQuote, graduationThreshold) ==
  (supply * phantomQuote) \div (phantomQuote + graduationThreshold)
=============================================================================
