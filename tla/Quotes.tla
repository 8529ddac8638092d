------------------------------- MODULE Quotes -------------------------------
(***************************************************************************)
(* Quotes: from the request for a trade to what the curve does with it.    *)
(* prepareTrade (trade/service.ts) reads the launch, the curve, a block    *)
(* and the anti-snipe tax, prices the trade itself or has the contract     *)
(* simulate it (curve/quote.ts), and adds a floor.  Beside it a token page *)
(* reads the same things once and says whether there is a trade at all.    *)
(*                                                                         *)
(* Every answer is of the moment it is given: the tax decays, others trade *)
(* and graduate the curve between two reads, and any read may fail.        *)
(***************************************************************************)
EXTENDS Curve

CONSTANTS
  GraduationThreshold,
  StartBps,          \* snipeTaxStartBps
  WindowSeconds,     \* snipeTaxSeconds
  SHIFT_STEPS,
  MIN_SLIPPAGE_BPS, MAX_SLIPPAGE_BPS,
  BuyAmounts, SellAmounts, Slippages,
  Skews,             \* how far the browser's clock may be from the chain's, in seconds
  None,              \* null
  MaxTime,           \* bound: seconds since the launch
  MaxOthers          \* bound: what others do to the curve

ASSUME QuotesAssumption ==
  /\ {GraduationThreshold, WindowSeconds} \subseteq Nat \ {0}
  /\ ReservedTokens = computeReservedTokens(Supply, PhantomQuote, GraduationThreshold)
  /\ StartBps \in 0..BASIS_POINTS /\ SHIFT_STEPS \in Nat
  /\ BuyAmounts \union SellAmounts \union Slippages \subseteq Nat
  /\ MIN_SLIPPAGE_BPS \in Nat /\ MAX_SLIPPAGE_BPS \in 0..BASIS_POINTS
  /\ Skews \subseteq Int
  /\ {MaxTime, MaxOthers} \subseteq Nat

VARIABLES
  phase,      \* the launch's GraduationPhase
  time,       \* seconds since launchedAt
  others,     \* what others have done so far
  want,       \* the arguments of prepareTrade
  stage,      \* where prepareTrade is, and then its trade
  launch,     \* the phase it has read
  state,      \* what of CurveState it has read: the reserves, and whether trading is over
  now,        \* nowSeconds
  trade,      \* the prepared trade, or why there is none
  got,        \* what a mined trade brought
  disturbed,  \* history: others acted since prepareTrade or the page was called
  page        \* a load of the token page

marketVars == <<curve, phase, time, others>>
tradeVars == <<want, stage, launch, state, now, trade, got>>
quotesVars == <<marketVars, tradeVars, disturbed, page>>

Phases == {"NotGraduated", "Swept", "PoolCreated", "Rescued"}

Wants ==
  [side : {"BUY"}, amountIn : BuyAmounts, slippageBps : Slippages, exists : BOOLEAN,
   exempt : BOOLEAN, allowed : BOOLEAN]   \* allowed: native, or the allowance is in place
  \union
  [side : {"SELL"}, amountIn : SellAmounts, slippageBps : Slippages, exists : BOOLEAN,
   exempt : {FALSE}, allowed : BOOLEAN]

Unread == [reserves |-> None, over |-> None]
NoPage == [at |-> "away", indexed |-> FALSE, pool |-> FALSE, phase |-> None,
           venue |-> None, ready |-> FALSE, progressBps |-> 0]

-----------------------------------------------------------------------------
(* The anti-snipe tax.                                                     *)

computeSnipeTaxBps(elapsed, exempt) ==
  IF exempt \/ elapsed >= WindowSeconds THEN 0
  ELSE IF elapsed < 0 THEN StartBps
  ELSE StartBps \div 2 ^ ((elapsed * SHIFT_STEPS) \div WindowSeconds)

isWithinSnipeWindow(elapsed) == elapsed \in 0..(WindowSeconds - 1)

requiresSimulation(elapsed, exempt) == ~exempt /\ isWithinSnipeWindow(elapsed)

\* currentSnipeTaxBps on the chain, which the decay above was measured to follow.
TaxNow == computeSnipeTaxBps(time, want.exempt)

-----------------------------------------------------------------------------
(* The curve contract.                                                     *)

ready(c) == sellable(c) = 0
Trading == phase = "NotGraduated" /\ ~ready(curve)

\* Deductions of more than everything: the tax alone was seen to be taken.
Charged(tax) == IF totalTaxBps(tax) < BASIS_POINTS THEN tax ELSE tax - FeeBps - CreatorTaxBps

Bought(c, amountIn, tax) == computeCurveBuy(c, amountIn, Charged(tax))

\* It would buy or sell something, now.
Possible(w) ==
  /\ Trading
  /\ w.amountIn > 0
  /\ w.side = "BUY" => Buyable(curve, w.amountIn, Charged(TaxNow))

\* minTokensOut is a bound on the price where a buy is filled in part.
ClearsFloor(w, minOut) ==
  IF w.side = "SELL" THEN computeCurveSell(curve, w.amountIn) >= minOut
  ELSE LET buy == Bought(curve, w.amountIn, TaxNow)
       IN  buy.tokensOut * w.amountIn >= minOut * buy.spent

\* The tokens the trader is about to sell are the trader's own.
Held == IF stage \notin {"idle", "landed"} /\ want.side = "SELL" THEN want.amountIn ELSE 0
Circulating == IF phase = "NotGraduated" THEN Supply - curve.token ELSE Supply

\* With or without the opening buy of the launch, which is exempt.
QuotesInit ==
  /\ curve \in {Launched} \union
              {AfterBuy(Launched, Bought(Launched, amountIn, 0)) : amountIn \in BuyAmounts \ {0}}
  /\ phase = "NotGraduated"
  /\ time = 0
  /\ others = 0
  /\ want = None
  /\ stage = "idle"
  /\ launch = None
  /\ state = Unread
  /\ now = None
  /\ trade = None
  /\ got = None
  /\ disturbed = FALSE
  /\ page = NoPage

Tick ==
  /\ time < MaxTime
  /\ time' = time + 1
  /\ UNCHANGED <<curve, phase, others, tradeVars, disturbed, page>>

Other ==
  /\ others < MaxOthers
  /\ others' = others + 1
  /\ disturbed' = TRUE
  /\ UNCHANGED <<time, tradeVars, page>>

\* Others are old hands, taxed nothing.
OtherBuys ==
  /\ Trading
  /\ \E amountIn \in BuyAmounts \ {0} :
       /\ Buyable(curve, amountIn, 0)
       /\ curve' = AfterBuy(curve, Bought(curve, amountIn, 0))
  /\ UNCHANGED phase
  /\ Other

\* A sell of tokens somebody has bought.
OtherSells ==
  /\ Trading
  /\ \E tokensIn \in SellAmounts \ {0} :
       /\ tokensIn + Held <= Circulating
       /\ curve' = AfterSell(curve, tokensIn)
  /\ UNCHANGED phase
  /\ Other

\* The steps of a graduation; a buy that takes them at once has them follow it.
Graduate ==
  /\ \/ /\ phase = "NotGraduated" /\ ready(curve)
        /\ phase' = "Swept"
        /\ curve' = [quote |-> PhantomQuote, token |-> 0]
     \/ /\ phase = "Swept"
        /\ phase' \in {"PoolCreated", "Rescued"}
        /\ UNCHANGED curve
  /\ Other

-----------------------------------------------------------------------------
(* prepareTrade.                                                           *)

\* A page and a trade only read the chain: a behaviour follows one of either.
Ask ==
  /\ stage = "idle" /\ page.at = "away"
  /\ want' \in Wants
  /\ want'.side = "SELL" => want'.amountIn <= Circulating
  /\ stage' = "launch"
  /\ disturbed' = FALSE
  /\ UNCHANGED <<marketVars, launch, state, now, trade, got, page>>

\* The codes are those of the quotes; prepareTrade reports every one of them as QUOTE_FAILED.
RefusedAs(code, answered) ==
  /\ stage' = "refused"
  /\ trade' = [code |-> code, possible |-> Possible(want), answered |-> answered]

Refuse(code) == RefusedAs(code, TRUE)

Answered == UNCHANGED <<marketVars, want, got, disturbed, page>>

Unacceptable ==
  \/ want.amountIn = 0
  \/ want.slippageBps \notin MIN_SLIPPAGE_BPS..MAX_SLIPPAGE_BPS

\* The checks before the first read, and readLaunchedToken.
ReadLaunch ==
  /\ stage = "launch"
  /\ \/ Unacceptable /\ Refuse("UNACCEPTABLE") /\ UNCHANGED launch
     \/ ~Unacceptable /\ ~want.exists /\ Refuse("NOT_A_PONS_LAUNCH") /\ UNCHANGED launch
     \/ ~Unacceptable /\ want.exists /\ stage' = "state" /\ launch' = phase /\ UNCHANGED trade
  /\ UNCHANGED <<state, now>>
  /\ Answered

\* readCurveState: the browser's client sends these calls one by one.
ReadReserves ==
  /\ stage = "state" /\ state.reserves = None
  /\ state' = [state EXCEPT !.reserves = curve]
  /\ UNCHANGED <<stage, launch, now, trade>>
  /\ Answered

ReadOver ==
  /\ stage = "state" /\ state.over = None
  /\ state' = [state EXCEPT !.over = phase # "NotGraduated" \/ ready(curve)]
  /\ UNCHANGED <<stage, launch, now, trade>>
  /\ Answered

resolveTradingVenue(p, pool) ==
  CASE p = "NotGraduated" -> "CURVE"
    [] p = "PoolCreated" /\ pool -> "UNISWAP_V4"
    [] OTHER -> "NONE"

\* A graduated launch has its pool's addresses resolved before it is refused.
Route ==
  /\ stage = "state" /\ state.reserves # None /\ state.over # None
  /\ CASE resolveTradingVenue(launch, TRUE) = "CURVE" -> stage' = "block" /\ UNCHANGED trade
       [] resolveTradingVenue(launch, TRUE) = "UNISWAP_V4" -> Refuse("UNSUPPORTED_VENUE")
       [] OTHER -> Refuse("NO_VENUE")
  /\ UNCHANGED <<launch, state, now>>
  /\ Answered

Prepared(source, amountOut, tax, local) ==
  /\ stage' = "prepared"
  /\ trade' = [source |-> source, amountOut |-> amountOut, snipeTaxBps |-> tax,
               minOut |-> applySlippageFloor(amountOut, want.slippageBps),
               partialFill |-> local # None /\ local.partialFill]

\* Mutant of CurveFinished: the flag alone, which a curve that sold out has not set yet.
FlagOnly == launch # "NotGraduated"

CurveFinished == state.over

\* quoteSell, always priced here.
Sell ==
  IF CurveFinished THEN Refuse("CURVE_GRADUATED")
  ELSE Prepared("LOCAL_MATH", computeCurveSell(state.reserves, want.amountIn), 0, None)

\* getBlock, or the browser's clock; then the checks before the next read.
ReadBlock ==
  /\ stage = "block"
  /\ now' \in {time} \union {time + skew : skew \in Skews}
  /\ CASE want.side = "SELL" -> Sell
       [] want.side = "BUY" /\ CurveFinished -> Refuse("CURVE_GRADUATED")
       [] OTHER -> stage' = "tax" /\ UNCHANGED trade
  /\ UNCHANGED <<launch, state>>
  /\ Answered

\* Mutant of snipeTax: computed here, by the clock.
ByTheClock == computeSnipeTaxBps(now, want.exempt)

\* readCurrentSnipeTaxBps.
snipeTax == TaxNow

\* Mutant of Declines: what the model cannot price is refused as any other error.
NeverDeclines(tax) == FALSE

\* SnipeTaxNotModellableError.
Declines(tax) == totalTaxBps(tax) >= BASIS_POINTS

\* The exemption and the tax are answered, and the buy is priced here if it may be.
ReadTax ==
  /\ stage = "tax"
  /\ LET tax == snipeTax
         local == computeCurveBuy(state.reserves, want.amountIn, tax)
     IN CASE requiresSimulation(now, want.exempt) \/ Declines(tax) ->
               /\ stage' = "simulate"
               /\ trade' = [snipeTaxBps |-> tax, local |-> None]
          [] ~requiresSimulation(now, want.exempt) /\ ~Declines(tax)
             /\ ~Buyable(state.reserves, want.amountIn, tax) -> Refuse("INSUFFICIENT_LIQUIDITY")
          [] OTHER ->
               IF local.partialFill
               THEN stage' = "simulate" /\ trade' = [snipeTaxBps |-> tax, local |-> local]
               ELSE Prepared("LOCAL_MATH", local.tokensOut, tax, local)
  /\ UNCHANGED <<launch, state, now>>
  /\ Answered

\* simulateBuy, with no floor and with what the payer has allowed so far.
Simulate ==
  /\ stage = "simulate"
  /\ IF want.allowed /\ Possible(want)
     THEN Prepared("SIMULATION", Bought(curve, want.amountIn, TaxNow).tokensOut,
                   trade.snipeTaxBps, trade.local)
     ELSE Refuse("SIMULATION_REVERTED")
  /\ UNCHANGED <<launch, state, now>>
  /\ Answered

\* Any of the reads fails.  To simulateBuy an error of the call is a revert.
ReadFails ==
  /\ stage \in {"launch", "state", "tax", "simulate"}
  /\ stage = "launch" => ~Unacceptable
  /\ RefusedAs(IF stage = "simulate" THEN "SIMULATION_REVERTED" ELSE "RPC_UNAVAILABLE", FALSE)
  /\ UNCHANGED <<launch, state, now>>
  /\ Answered

\* The trade is approved, signed and broadcast; TradePanel has the steps.
SendTrade ==
  /\ stage = "prepared"
  /\ stage' = "sent"
  /\ UNCHANGED <<marketVars, want, launch, state, now, trade, got, disturbed, page>>

Mine ==
  /\ stage = "sent"
  /\ IF Possible(want) /\ ClearsFloor(want, trade.minOut)
     THEN LET buy == Bought(curve, want.amountIn, TaxNow) IN
          /\ stage' = "landed"
          /\ got' = [out |-> IF want.side = "BUY" THEN buy.tokensOut
                             ELSE computeCurveSell(curve, want.amountIn),
                     tax |-> IF want.side = "BUY" THEN TaxNow ELSE 0,
                     part |-> want.side = "BUY" /\ buy.partialFill]
          /\ curve' = IF want.side = "BUY" THEN AfterBuy(curve, buy)
                      ELSE AfterSell(curve, want.amountIn)
     ELSE stage' = "reverted" /\ UNCHANGED <<got, curve>>
  /\ UNCHANGED <<phase, time, others, want, launch, state, now, trade, disturbed, page>>

-----------------------------------------------------------------------------
(* The token page.  Its pool is what the database knows of it.             *)

computeGraduationProgress(p, realQuote, sellableTokens) ==
  LET bps == (realQuote * BASIS_POINTS) \div GraduationThreshold IN
  [progressBps |-> IF p # "NotGraduated" \/ bps > BASIS_POINTS THEN BASIS_POINTS ELSE bps,
   ready |-> p = "NotGraduated" /\ sellableTokens = 0]

OpenPage ==
  /\ page.at = "away" /\ stage = "idle"
  /\ \E indexed, pool \in BOOLEAN :
       page' = [NoPage EXCEPT !.at = "launch", !.indexed = indexed, !.pool = indexed /\ pool]
  /\ disturbed' = FALSE
  /\ UNCHANGED <<marketVars, tradeVars>>

\* readLaunchedToken, then resolvePonsAddresses.
PageReadsLaunch ==
  /\ page.at = "launch"
  /\ page' = [page EXCEPT !.at = "curve", !.phase = phase]
  /\ UNCHANGED <<marketVars, tradeVars, disturbed>>

\* What a curve that cannot be read is taken for.
Zero == [realQuote |-> 0, sellable |-> 0]

\* What the page has read of a curve; this client asks for it in one call.
Reading == [realQuote |-> curve.quote - PhantomQuote, sellable |-> sellable(curve)]

\* readCurveState, whose failure is caught; then the page is rendered.
PageReadsCurve ==
  /\ page.at = "curve"
  /\ \E reading \in {Reading, Zero} :
       LET progress == computeGraduationProgress(page.phase, reading.realQuote, reading.sellable)
       IN page' = [page EXCEPT
            !.at = "shown",
            !.venue = IF page.indexed THEN resolveTradingVenue(page.phase, page.pool) ELSE "NONE",
            !.progressBps = progress.progressBps,
            !.ready = page.indexed /\ progress.ready]
  /\ UNCHANGED <<marketVars, tradeVars, disturbed>>

\* The chain cannot be reached: nothing is offered.
PageFails ==
  /\ page.at \in {"launch", "curve"}
  /\ page' = [NoPage EXCEPT !.at = "shown", !.venue = "NONE"]
  /\ UNCHANGED <<marketVars, tradeVars, disturbed>>

-----------------------------------------------------------------------------
Chain == Tick \/ OtherBuys \/ OtherSells \/ Graduate
PrepareTrade ==
  Ask \/ ReadLaunch \/ ReadReserves \/ ReadOver \/ Route \/ ReadBlock \/ ReadTax \/ Simulate
  \/ ReadFails
TokenPage == OpenPage \/ PageReadsLaunch \/ PageReadsCurve \/ PageFails

QuotesNext == Chain \/ PrepareTrade \/ SendTrade \/ Mine \/ TokenPage

QuotesSpec == QuotesInit /\ [][QuotesNext]_quotesVars

-----------------------------------------------------------------------------
(* Properties.                                                             *)

QuotesTypeOK ==
  /\ curve \in [quote : Nat, token : 0..Supply] /\ phase \in Phases
  /\ time \in 0..MaxTime /\ others \in 0..MaxOthers
  /\ want \in Wants \union {None}
  /\ stage \in {"idle", "launch", "state", "block", "tax", "simulate", "refused", "prepared",
             "sent", "landed", "reverted"}
  /\ launch \in Phases \union {None}
  /\ state \in [reserves : {None} \union [quote : Nat, token : 0..Supply],
                over : {None} \union BOOLEAN]
  /\ stage \in {"sent", "landed", "reverted"} =>
       trade.minOut \in 0..trade.amountOut /\ trade.snipeTaxBps \in 0..BASIS_POINTS
  /\ page.at \in {"away", "launch", "curve", "shown"}

\* Nobody has traded or graduated the curve since prepareTrade, or the page, was called.
Undisturbed == ~disturbed

\* The floor is there for what others do.  If nobody did anything, the trade lands and
\* brings at least what the quote showed, however long the wallet took to sign it and
\* whichever way it was priced: the only thing that moved is the tax, and it only falls.
AsQuoted ==
  Undisturbed =>
    /\ stage # "reverted"
    /\ stage = "landed" => got.out >= trade.amountOut

\* A launch pays at most the anti-snipe tax its quote was shown with, whatever others did.
TaxWasTold == stage = "landed" => got.tax <= trade.snipeTaxBps

\* quote.ts prices a buy itself or has it simulated, so that no trade is refused for what
\* the model cannot price.  With the reads answered and nobody else about, what is refused
\* for its price or its curve could not have been made, the payer's allowance apart.
RefusesOnlyTheImpossible ==
  stage = "refused" /\ Undisturbed /\ want.allowed /\ trade.answered
  /\ trade.code \in {"CURVE_GRADUATED", "INSUFFICIENT_LIQUIDITY", "SIMULATION_REVERTED", "NO_VENUE"}
    => ~trade.possible

\* An asset that must be approved can be: a buy that only the allowance keeps from being
\* made is quoted, so that the panel can ask for the approval (service.ts: ERC-20 launches
\* "must send no value and rely on an approval instead").
ApprovalIsOffered ==
  stage = "refused" /\ Undisturbed /\ trade.answered /\ trade.code = "SIMULATION_REVERTED"
    => ~trade.possible

\* A buy that is filled in part was said to be: it "changes what the UI is allowed to
\* promise" (math.ts).
PartialFillIsSaid == stage = "landed" /\ Undisturbed /\ got.part => trade.partialFill

\* The page calls a curve ready to graduate, "read live from the curve", only if nothing
\* is left to sell.
ReadyIsRead == page.at = "shown" /\ page.ready /\ Undisturbed => ready(curve)
=============================================================================
