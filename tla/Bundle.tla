------------------------------- MODULE Bundle -------------------------------
(***************************************************************************)
(* Bundle: the buys a creator's browser sends for a list of wallets right  *)
(* after a launch.  runBundle reads the curve of the launch receipt, plans *)
(* every buy and its floor on that reading, asks the wallet to sign the    *)
(* buys one after the other, and only then waits for their receipts.       *)
(*                                                                         *)
(* Meanwhile the chain moves: a buy lands at any time after it was sent,   *)
(* in the order of the payer's nonces, strangers trade before, between and *)
(* after, and the contract reverts a buy that misses its floor.            *)
(***************************************************************************)
EXTENDS Curve, Sequences, FiniteSets

CONSTANTS
  Addresses,
  Amounts,         \* what a row of the form may spend
  MaxRecipients,   \* MAX_BUNDLE_RECIPIENTS
  SlippageBps,
  SnipeTaxes,      \* what a stranger's buy may be taxed, in basis points
  MaxStrangers     \* bound on the strangers' trades

ASSUME BundleAssumption ==
  /\ Amounts \subseteq Nat \ {0}
  /\ MaxRecipients \in Nat \ {0}
  /\ SlippageBps \in 0..BASIS_POINTS
  /\ Supply > ReservedTokens
  /\ SnipeTaxes \subseteq Nat
  /\ MaxStrangers \in Nat

VARIABLES
  request,    \* bundleRecipients: the rows of the form
  at,         \* where runBundle is
  plan,       \* the planned buys, with their floors
  next,       \* the entry the loop is at
  tx,         \* what became of each buy on chain
  hash,       \* the entries for which the wallet returned a hash
  results,    \* what is shown to the user, one status per buy
  strangers,  \* trades of strangers so far
  moved       \* a stranger bought after the plan was made

formVars == <<request, at, plan, next, hash, results>>
chainVars == <<curve, tx, strangers, moved>>
vars == <<formVars, chainVars>>

Rows == [address : Addresses, amountIn : Amounts]
Requests == UNION {[1..n -> Rows] : n \in 1..MaxRecipients + 1}
Buys == [amountIn : Amounts, expectedOut : Nat, minOut : Nat]

Exempt == 0      \* the rows of the form are the exemption list: no recipient pays snipe tax

-----------------------------------------------------------------------------
(* planBundle.                                                             *)

BuyExempt(c, amountIn) == computeCurveBuy(c, amountIn, Exempt)

\* Mutant of PathOf: every row is priced on the reserves that were read.
NeverAdvanced(c, r) == [i \in 0..Len(r) |-> c]

\* The reserves after the rows of r, in their order, have bought: path[i] after i
\* of them.  Where a buy would throw, the reserves stay, and Throws says so.
PathOf(c, r) ==
  LET path[i \in 0..Len(r)] ==
        IF i = 0 THEN c
        ELSE LET before == path[i - 1] IN
             IF Buyable(before, r[i].amountIn, Exempt)
             THEN AfterBuy(before, BuyExempt(before, r[i].amountIn))
             ELSE before
  IN  path

Throws(c, r) ==
  LET path == PathOf(c, r)
  IN  \E i \in DOMAIN r : ~Buyable(path[i - 1], r[i].amountIn, Exempt)

\* Mutant of LastInLine: the floor of a row is priced as if it landed first.
FirstInLine(r, i) == << r[i] >>

\* The order in which row i is behind every other row.
LastInLine(r, i) == SubSeq(r, 1, i - 1) \o SubSeq(r, i + 1, Len(r)) \o << r[i] >>

Duplicates(r) == \E i, j \in DOMAIN r : i # j /\ r[i].address = r[j].address

\* No plan: too many rows, one address twice, or a curve that runs dry.
Refused(c, r) ==
  \/ Len(r) > MaxRecipients
  \/ Duplicates(r)
  \/ Throws(c, r)
  \/ \E i \in DOMAIN r : Throws(c, LastInLine(r, i))

WorstCaseFloor(c, r, i) ==
  LET line == LastInLine(r, i)
  IN  BuyExempt(PathOf(c, line)[Len(line) - 1], r[i].amountIn).tokensOut

PlanBundle(c, r) ==
  LET path == PathOf(c, r) IN
  [i \in DOMAIN r |->
     [amountIn    |-> r[i].amountIn,
      expectedOut |-> BuyExempt(path[i - 1], r[i].amountIn).tokensOut,
      minOut      |-> applySlippageFloor(WorstCaseFloor(c, r, i), SlippageBps)]]

-----------------------------------------------------------------------------
(* runBundle.                                                              *)

\* The launch has been mined.  Its own opening buy and strangers may have traded.
Init ==
  /\ curve = Launched
  /\ request \in Requests
  /\ at = "locate"
  /\ plan = << >>
  /\ next = 1
  /\ tx = << >>
  /\ hash = {}
  /\ results = << >>
  /\ strangers = 0
  /\ moved = FALSE

Stop ==
  /\ at' = "done"
  /\ UNCHANGED <<request, plan, next, hash, results, chainVars>>

\* No curve in the receipt, no code at its address yet, or a read that throws: no
\* buy has been sent.
GiveUp == at \in {"locate", "read", "block"} /\ Stop

CodeSeen ==
  /\ at = "locate"
  /\ at' = "read"
  /\ UNCHANGED <<request, plan, next, hash, results, chainVars>>

\* readCurveState answers; the plan is made before anything else can happen.
PlanRefused == at = "read" /\ Refused(curve, request) /\ Stop

Plan ==
  /\ at = "read"
  /\ ~Refused(curve, request)
  /\ plan' = PlanBundle(curve, request)
  /\ tx' = [i \in DOMAIN request |-> "none"]
  /\ moved' = FALSE
  /\ at' = "block"
  /\ UNCHANGED <<request, next, hash, results, curve, strangers>>

BlockRead ==
  /\ at = "block"
  /\ at' = "send"
  /\ UNCHANGED <<request, plan, next, hash, results, chainVars>>

\* The loop goes on whatever became of this entry; after the last one, the results
\* so far are shown.
Signed(hashes) ==
  /\ hash' = hashes
  /\ IF next = Len(plan)
       THEN /\ at' = "await"
            /\ next' = 1
       ELSE /\ next' = next + 1
            /\ UNCHANGED at
  /\ UNCHANGED <<request, plan, results, curve, strangers, moved>>

\* The wallet signs, broadcasts and returns the hash.
Send ==
  /\ at = "send"
  /\ tx' = [tx EXCEPT ![next] = "pending"]
  /\ Signed(hash \union {next})

\* The user declines, or the wallet cannot send it.
Declined ==
  /\ at = "send"
  /\ Signed(hash)
  /\ UNCHANGED tx

\* The wallet broadcasts the buy, but its answer is an error.
AnswerLost ==
  /\ at = "send"
  /\ tx' = [tx EXCEPT ![next] = "pending"]
  /\ Signed(hash)

Show(status) ==
  /\ results' = Append(results, status)
  /\ IF next = Len(plan)
       THEN at' = "done" /\ UNCHANGED next
       ELSE next' = next + 1 /\ UNCHANGED at
  /\ UNCHANGED <<request, plan, hash, chainVars>>

Unsent == at = "await" /\ next \notin hash /\ Show("failed")

\* Mutant of ReceiptStatus: a mined transaction counts as a success.
MinedIsSuccess(outcome) == "success"

ReceiptStatus(outcome) == IF outcome = "filled" THEN "success" ELSE "reverted"

Receipt ==
  /\ at = "await"
  /\ next \in hash
  /\ tx[next] \in {"filled", "reverted"}
  /\ Show(ReceiptStatus(tx[next]))

\* waitForTransactionReceipt throws: it timed out, or the endpoint failed.
ReceiptLost == at = "await" /\ next \in hash /\ Show("unknown")

-----------------------------------------------------------------------------
(* The chain.                                                              *)

\* The contract's bound: on the quantity, or on the price when the fill is clamped.
MeetsFloor(buy, amountIn, minOut) ==
  IF buy.partialFill THEN buy.tokensOut * amountIn >= minOut * buy.spent
  ELSE buy.tokensOut >= minOut

\* Buys of one payer land in the order they were signed.
Lands(i) ==
  /\ tx[i] = "pending"
  /\ \A j \in 1..i - 1 : tx[j] # "pending"
  /\ LET buy == BuyExempt(curve, plan[i].amountIn) IN
     IF /\ Buyable(curve, plan[i].amountIn, Exempt)
        /\ MeetsFloor(buy, plan[i].amountIn, plan[i].minOut)
     THEN /\ curve' = AfterBuy(curve, buy)
          /\ tx' = [tx EXCEPT ![i] = "filled"]
     ELSE /\ tx' = [tx EXCEPT ![i] = "reverted"]
          /\ UNCHANGED curve
  /\ UNCHANGED <<formVars, strangers, moved>>

StrangerBuys(amount, snipeTaxBps) ==
  /\ strangers < MaxStrangers
  /\ Buyable(curve, amount, snipeTaxBps)
  /\ curve' = AfterBuy(curve, computeCurveBuy(curve, amount, snipeTaxBps))
  /\ strangers' = strangers + 1
  /\ moved' = (plan # << >>)
  /\ UNCHANGED <<formVars, tx>>

Outside == Supply - curve.token

\* Selling is closed once nothing is left to sell.
StrangerSells(tokens) ==
  /\ strangers < MaxStrangers
  /\ sellable(curve) > 0
  /\ curve' = AfterSell(curve, tokens)
  /\ strangers' = strangers + 1
  /\ UNCHANGED <<formVars, tx, moved>>

-----------------------------------------------------------------------------
Wallet == Send \/ Declined \/ AnswerLost
Await == Unsent \/ Receipt \/ ReceiptLost

Next ==
  \/ CodeSeen \/ Plan \/ PlanRefused \/ GiveUp \/ BlockRead \/ Wallet \/ Await
  \/ \E i \in DOMAIN tx : Lands(i)
  \/ \E amount \in Amounts, snipeTaxBps \in SnipeTaxes : StrangerBuys(amount, snipeTaxBps)
  \/ \E tokens \in {Outside, Outside \div 2} \ {0} : StrangerSells(tokens)

Spec == Init /\ [][Next]_vars

-----------------------------------------------------------------------------
Statuses == {"success", "reverted", "failed", "unknown"}

TypeOK ==
  /\ curve \in Reserves
  /\ request \in Requests
  /\ at \in {"locate", "read", "block", "send", "await", "done"}
  /\ plan \in Seq(Buys) /\ Len(plan) <= MaxRecipients
  /\ next \in 1..MaxRecipients
  /\ tx \in [DOMAIN plan -> {"none", "pending", "filled", "reverted"}]
  /\ hash \subseteq DOMAIN plan
  /\ results \in Seq(Statuses) /\ Len(results) <= Len(plan)
  /\ strangers \in 0..MaxStrangers
  /\ moved \in BOOLEAN

\* No trade gives away value: the product of the reserves never falls below what the
\* launch put in, the reserved tokens stay, and everything that was sold could be
\* sold back at once out of the quote that was paid in (computeCurveBuy's clamp and
\* grossing up, getAmountOut's rounding).
CurveSolvent ==
  /\ curve.token >= ReservedTokens
  /\ curve.quote * curve.token >= PhantomQuote * Supply
  /\ Outside > 0 => grossQuoteOut(curve, Outside) <= curve.quote - PhantomQuote

\* What is bought and sold back at once returns no more than was paid for it.
RoundTripNeverPays ==
  \A quoteIn \in Amounts, snipeTaxBps \in SnipeTaxes :
    Buyable(curve, quoteIn, snipeTaxBps) =>
      LET buy == computeCurveBuy(curve, quoteIn, snipeTaxBps) IN
      /\ buy.spent <= quoteIn
      /\ buy.tokensOut > 0 =>
           computeCurveSell(AfterBuy(curve, buy), buy.tokensOut) <= buy.net

\* Unless a stranger bought in between, no buy of a bundle reverts, whichever of the
\* others were declined, lost or landed before it (worstCaseFloors: "any interleaving
\* still satisfies every floor").
ClearsOwnFloors == ~moved => \A i \in DOMAIN tx : tx[i] # "reverted"

\* Unless a stranger bought in between, a buy is filled with at least what was shown
\* for it (expectedOut, priced in the order of the list).
FilledAsShown ==
  [][\A i \in DOMAIN tx :
       tx[i] = "pending" /\ tx'[i] = "filled" /\ ~moved =>
         curve.token - curve'.token >= plan[i].expectedOut]_vars

\* The status shown for a buy is what became of that buy; without a hash it says that
\* it failed, and every planned buy has a status at the end (runBundle's two loops).
ResultsMatchChain ==
  /\ \A i \in DOMAIN results :
       /\ results[i] = "success" => tx[i] = "filled"
       /\ results[i] = "reverted" => tx[i] = "reverted"
       /\ results[i] = "failed" <=> i \notin hash
  /\ at = "done" /\ results # << >> => Len(results) = Len(plan)
=============================================================================
