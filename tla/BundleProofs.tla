---------------------------- MODULE BundleProofs ----------------------------
(***************************************************************************)
(* Whatever the fees, the reserved allocation, the amounts and the order   *)
(* of trades, a curve stays solvent and no round trip pays; and whatever   *)
(* the wallet, the receipts and strangers do, the panel says of every buy  *)
(* of a bundle what the chain did with it.  Unless a stranger buys, a      *)
(* bundle clears its own floors.  Of one trade, what was prepared and      *)
(* shown is what the chain keeps to.                                       *)
(*                                                                         *)
(* The curve's part rests on one fact about floor division, and on the     *)
(* product of the reserves, which no trade makes smaller.  The panel's     *)
(* part rests on the two loops of runBundle keeping one index, and on      *)
(* planBundle returning one buy for each row.  The floors' part compares   *)
(* the curve a buy finds with the one it was planned on: it never holds    *)
(* more quote, and each planned buy rounds off less than one token.  The   *)
(* part of a single trade rests on the snipe tax only falling, by halves,  *)
(* and on a quote growing when the tax falls.                              *)
(***************************************************************************)
EXTENDS Bundle, Quotes, FiniteSetTheorems, SequenceTheorems, WellFoundedInduction, TLAPS

-----------------------------------------------------------------------------
(* Arithmetic.                                                             *)

\* A floor is the largest number whose product with the divisor fits.
LEMMA Floor ==
  ASSUME NEW a \in Nat, NEW b \in Nat \ {0}
  PROVE  /\ a \div b \in Nat
         /\ (a \div b) * b <= a
         /\ a < (a \div b) * b + b
  OBVIOUS

LEMMA Distributes ==
  ASSUME NEW a \in Int, NEW b \in Int, NEW c \in Int
  PROVE  /\ a * (b + c) = a * b + a * c
         /\ a * (b - c) = a * b - a * c
         /\ (b + c) * a = b * a + c * a
         /\ (b - c) * a = b * a - c * a
         /\ a * b = b * a
         /\ a * b \in Int
  OBVIOUS

LEMMA Scales ==
  ASSUME NEW a \in Int, NEW b \in Int, NEW m \in Nat, a <= b
  PROVE  a * m <= b * m
  OBVIOUS

LEMMA Cancels ==
  ASSUME NEW a \in Int, NEW b \in Int, NEW m \in Nat \ {0}, a * m <= b * m
  PROVE  a <= b
  OBVIOUS

LEMMA Products ==
  ASSUME NEW a \in Nat, NEW b \in Nat
  PROVE  a * b \in Nat
  OBVIOUS

\* A ceiling division covers its numerator.
LEMMA Ceiling ==
  ASSUME NEW n \in Nat, NEW d \in Nat \ {0}
  PROVE  /\ ceilDiv(n, d) \in Nat
         /\ ceilDiv(n, d) * d >= n
<1>1. CASE n = 0
  BY <1>1 DEF ceilDiv
<1>2. CASE n # 0
  <2>1. n + d - 1 \in Nat
    BY <1>2
  <2> DEFINE q == (n + d - 1) \div d
  <2>2. q \in Nat /\ n + d - 1 < q * d + d
    BY <2>1, Floor
  <2>3. q * d \in Nat
    BY <2>2
  <2> HIDE DEF q
  <2>4. q * d >= n
    BY <2>2, <2>3
  <2>5. ceilDiv(n, d) = q
    BY <1>2 DEF ceilDiv, q
  <2> QED BY <2>2, <2>4, <2>5
<1> QED BY <1>1, <1>2
\* The largest number whose product with the divisor fits is the floor.
LEMMA FloorMost ==
  ASSUME NEW k \in Int, NEW a \in Nat, NEW b \in Nat \ {0}, k * b <= a
  PROVE  k <= a \div b
<1> DEFINE q == a \div b
<1>1. q \in Nat /\ a < q * b + b
  BY Floor
<1> HIDE DEF q
<1>2. q * b + b = (q + 1) * b /\ q + 1 \in Nat
  BY <1>1
<1>3. k * b < (q + 1) * b
  <2>1. k * b \in Int /\ q * b + b \in Int
    BY <1>1
  <2> QED BY <1>1, <1>2, <2>1
<1>4. ~(q + 1 <= k)
  <2> SUFFICES ASSUME q + 1 <= k PROVE FALSE
    OBVIOUS
  <2>1. (q + 1) * b <= k * b
    BY <1>2, Scales
  <2>2. (q + 1) * b \in Int /\ k * b \in Int
    BY <1>2
  <2> QED BY <1>3, <2>1, <2>2
<1> QED BY <1>1, <1>2, <1>4 DEF q

-----------------------------------------------------------------------------
(* What the deductions leave.                                              *)

\* The product of what is left with BASIS_POINTS is at least the untaxed share.
LEMMA NetBounds ==
  ASSUME NEW spent \in Nat, NEW snipe \in Nat, totalTaxBps(snipe) < BASIS_POINTS
  PROVE  /\ Net(spent, snipe) \in Nat
         /\ Net(spent, snipe) <= spent
         /\ Net(spent, snipe) * BASIS_POINTS
              >= spent * (BASIS_POINTS - totalTaxBps(snipe))
<1> USE CurveAssumption
<1> DEFINE f == applyBps(spent, FeeBps)
           t == applyBps(spent, CreatorTaxBps)
           s == applyBps(spent, snipe)
           B == BASIS_POINTS
<1>1. f \in Nat /\ f * B <= spent * FeeBps
  BY Floor, Products DEF applyBps
<1>2. t \in Nat /\ t * B <= spent * CreatorTaxBps
  BY Floor, Products DEF applyBps
<1>3. s \in Nat /\ s * B <= spent * snipe
  BY Floor, Products DEF applyBps
<1>4. Net(spent, snipe) = spent - f - t - s
  BY DEF Net
<1>5. totalTaxBps(snipe) = FeeBps + CreatorTaxBps + snipe
  BY DEF totalTaxBps
<1>6. B \in Nat \ {0}
  OBVIOUS
<1> HIDE DEF f, t, s, B
<1>7. (spent - f - t - s) * B = spent * B - f * B - t * B - s * B
  BY <1>1, <1>2, <1>3, <1>6
<1>8. spent * (B - (FeeBps + CreatorTaxBps + snipe))
        = spent * B - spent * FeeBps - spent * CreatorTaxBps - spent * snipe
  BY <1>6
<1>9. (spent - f - t - s) * B >= spent * (B - (FeeBps + CreatorTaxBps + snipe))
  <2> DEFINE x == spent * B
             x1 == f * B  x2 == t * B  x3 == s * B
             y1 == spent * FeeBps  y2 == spent * CreatorTaxBps  y3 == spent * snipe
  <2>1. /\ x \in Int /\ x1 \in Int /\ x2 \in Int /\ x3 \in Int
        /\ y1 \in Int /\ y2 \in Int /\ y3 \in Int
    BY <1>1, <1>2, <1>3, <1>6
  <2>2. x1 <= y1 /\ x2 <= y2 /\ x3 <= y3
    BY <1>1, <1>2, <1>3
  <2>3. /\ (spent - f - t - s) * B = x - x1 - x2 - x3
        /\ spent * (B - (FeeBps + CreatorTaxBps + snipe)) = x - y1 - y2 - y3
    BY <1>7, <1>8
  <2> HIDE DEF x, x1, x2, x3, y1, y2, y3
  <2> QED BY <2>1, <2>2, <2>3
<1>10. spent - f - t - s \in Nat
  <2>1. B - (FeeBps + CreatorTaxBps + snipe) \in Nat
    BY <1>5, <1>6 DEF B
  <2>2. spent * (B - (FeeBps + CreatorTaxBps + snipe)) \in Nat
    BY <2>1, Products
  <2>3. 0 * B <= (spent - f - t - s) * B
    BY <2>2, <1>9, <1>6, <1>1, <1>2, <1>3
  <2>4. 0 <= spent - f - t - s
    BY <2>3, <1>6, <1>1, <1>2, <1>3, Cancels
  <2> QED BY <2>4, <1>1, <1>2, <1>3
<1> QED BY <1>1, <1>2, <1>3, <1>4, <1>5, <1>9, <1>10 DEF B

-----------------------------------------------------------------------------
(* Trades and the product of the reserves.                                 *)

\* Tokens that are paid for by `net` leave the product at least where it was.
LEMMA ProductKept ==
  ASSUME NEW q \in Nat, NEW t \in Nat, NEW net \in Nat, NEW out \in Nat,
         out * (q + net) <= net * t
  PROVE  (q + net) * (t - out) >= q * t
<1>1. (q + net) * (t - out) = q * t + net * t - out * (q + net)
  OBVIOUS
<1>2. q * t \in Int /\ net * t \in Int /\ out * (q + net) \in Int
  OBVIOUS
<1> QED BY <1>1, <1>2

\* What getAmountOut grants is paid for, and is less than the reserve.
LEMMA AmountOut ==
  ASSUME NEW amountIn \in Nat, NEW reserveIn \in Nat \ {0}, NEW reserveOut \in Nat
  PROVE  /\ getAmountOut(amountIn, reserveIn, reserveOut) \in Nat
         /\ getAmountOut(amountIn, reserveIn, reserveOut) * (reserveIn + amountIn)
              <= amountIn * reserveOut
         /\ getAmountOut(amountIn, reserveIn, reserveOut) <= reserveOut
<1> DEFINE out == getAmountOut(amountIn, reserveIn, reserveOut)
<1>1. amountIn * reserveOut \in Nat /\ reserveIn + amountIn \in Nat \ {0}
  BY Products
<1>2. out \in Nat /\ out * (reserveIn + amountIn) <= amountIn * reserveOut
  BY <1>1, Floor DEF getAmountOut
<1>3. amountIn * reserveOut <= reserveOut * (reserveIn + amountIn)
  <2>1. reserveOut * (reserveIn + amountIn) = reserveOut * reserveIn + amountIn * reserveOut
    OBVIOUS
  <2>2. reserveOut * reserveIn \in Nat
    BY Products
  <2> QED BY <1>1, <2>1, <2>2
<1> HIDE DEF out
<1>4. out * (reserveIn + amountIn) <= reserveOut * (reserveIn + amountIn)
  BY <1>1, <1>2, <1>3, Products
<1>5. out <= reserveOut
  BY <1>1, <1>2, <1>4, Cancels
<1> QED BY <1>2, <1>5 DEF out

\* What getAmountIn asks for pays for the tokens.
LEMMA AmountIn ==
  ASSUME NEW out \in Nat, NEW q \in Nat, NEW t \in Nat, out < t
  PROVE  /\ getAmountIn(out, q, t) \in Nat
         /\ out * (q + getAmountIn(out, q, t)) <= getAmountIn(out, q, t) * t
<1> DEFINE n == (out * q) \div (t - out)
<1>1. out * q \in Nat /\ t - out \in Nat \ {0}
  BY Products
<1>2. n \in Nat /\ out * q < n * (t - out) + (t - out)
  BY <1>1, Floor
<1>3. getAmountIn(out, q, t) = n + 1
  BY DEF getAmountIn
<1> HIDE DEF n
<1>4. /\ (n + 1) * t = n * t + t
      /\ n * (t - out) = n * t - n * out
      /\ out * (q + (n + 1)) = out * q + n * out + out
  BY <1>2
<1>5. n * t \in Int /\ n * out \in Int
  BY <1>2
<1>6. out * (q + (n + 1)) <= (n + 1) * t
  BY <1>1, <1>2, <1>4, <1>5
<1> QED BY <1>2, <1>3, <1>6
\* A buy, clamped or not: what it charges covers what it hands out, it charges no
\* more than was offered, and it stays above the reserved allocation.
LEMMA BuySound ==
  ASSUME NEW c \in Reserves, NEW quoteIn \in Nat, NEW snipe \in Nat,
         Buyable(c, quoteIn, snipe)
  PROVE  LET buy == computeCurveBuy(c, quoteIn, snipe) IN
         /\ buy.tokensOut \in Nat
         /\ buy.spent \in Nat
         /\ buy.spent <= quoteIn
         /\ buy.net \in Nat
         /\ buy.tokensOut * (c.quote + buy.net) <= buy.net * c.token
         /\ buy.tokensOut <= c.token - ReservedTokens
<1> USE CurveAssumption
<1> DEFINE q == c.quote
           t == c.token
           room == sellable(c)
           full == Unclamped(c, quoteIn, snipe)
           offered == Net(quoteIn, snipe)
           buy == computeCurveBuy(c, quoteIn, snipe)
<1>1. q \in Nat \ {0} /\ t \in Nat
  BY DEF Reserves, Buyable
<1>2. totalTaxBps(snipe) < BASIS_POINTS /\ totalTaxBps(snipe) \in Nat
  BY DEF Buyable, totalTaxBps
<1>3. room \in Nat \ {0} /\ room = t - ReservedTokens
  BY <1>1 DEF Buyable, sellable
<1>4. offered \in Nat
  BY <1>2, NetBounds
<1>5. full \in Nat /\ full * (q + offered) <= offered * t /\ full <= t
  BY <1>1, <1>4, AmountOut DEF Unclamped
<1>6. CASE full <= room
  <2>1. /\ buy.tokensOut = full
        /\ buy.spent = quoteIn
        /\ buy.net = offered
    BY <1>6, <1>3, <1>5 DEF computeCurveBuy
  <2> HIDE DEF q, t, room, full, offered, buy
  <2>2. full <= t - ReservedTokens
    BY <1>3, <1>6
  <2> QED BY <1>4, <1>5, <2>1, <2>2 DEF q, t, buy
<1>7. CASE full > room
  <2> DEFINE n == getAmountIn(room, q, t)
             gross == ceilDiv(n * BASIS_POINTS, BASIS_POINTS - totalTaxBps(snipe))
             spent == ClampedSpend(c, quoteIn, snipe)
             net == Net(spent, snipe)
  <2>1. /\ buy.tokensOut = room
        /\ buy.spent = spent
        /\ buy.net = net
    BY <1>7 DEF computeCurveBuy
  <2>2. room < t
    <3> HIDE DEF q, t, room, full, offered, buy
    <3> QED BY <1>1, <1>3, <1>5, <1>7
  <2>3. n \in Nat /\ room * (q + n) <= n * t
    <3> HIDE DEF q, t, room
    <3> QED BY <1>1, <1>3, <2>2, AmountIn
  <2>4. gross \in Nat /\ gross * (BASIS_POINTS - totalTaxBps(snipe)) >= n * BASIS_POINTS
    <3> HIDE DEF n
    <3>1. n * BASIS_POINTS \in Nat
      BY <2>3, Products
    <3>2. BASIS_POINTS - totalTaxBps(snipe) \in Nat \ {0}
      BY <1>2
    <3> QED BY <3>1, <3>2, Ceiling
  <2>5. spent = IF gross < quoteIn THEN gross ELSE quoteIn
    BY DEF ClampedSpend
  <2> HIDE DEF spent, gross, n
  <2>6. spent \in Nat /\ spent <= quoteIn
    BY <2>4, <2>5
  <2>7. net \in Nat /\ net * BASIS_POINTS >= spent * (BASIS_POINTS - totalTaxBps(snipe))
    BY <1>2, <2>6, NetBounds
  <2> HIDE DEF net, q, t, room, full, offered, buy
  <2>8. room * (q + net) <= net * t
    <3>1. CASE gross < quoteIn
      <4>1. net * BASIS_POINTS >= n * BASIS_POINTS
        <5>1. spent = gross
          BY <3>1, <2>5
        <5>2. n * BASIS_POINTS \in Int /\ net * BASIS_POINTS \in Int
          BY <2>3, <2>7
        <5>3. gross * (BASIS_POINTS - totalTaxBps(snipe)) \in Int
          BY <2>4, <1>2
        <5> QED BY <2>4, <2>7, <5>1, <5>2, <5>3
      <4>2. n <= net
        BY <4>1, <2>3, <2>7, Cancels
      <4>3. (net - n) * room <= (net - n) * t
        BY <4>2, <2>2, <2>3, <2>7, <1>1, <1>3, Scales
      <4>4. /\ room * (q + net) = room * (q + n) + (net - n) * room
            /\ net * t = n * t + (net - n) * t
        BY <2>3, <2>7, <1>1, <1>3
      <4>5. /\ room * (q + n) \in Int /\ (net - n) * room \in Int
            /\ n * t \in Int /\ (net - n) * t \in Int
        BY <2>3, <2>7, <1>1, <1>3
      <4> QED BY <2>3, <4>3, <4>4, <4>5
    <3>2. CASE ~(gross < quoteIn)
      <4>1. net = offered
        BY <3>2, <2>5 DEF net, offered
      <4>2. room * (q + offered) <= full * (q + offered)
        BY <1>1, <1>3, <1>4, <1>5, <1>7, Scales
      <4>3. /\ room * (q + offered) \in Int
            /\ full * (q + offered) \in Int
            /\ offered * t \in Int
        BY <1>1, <1>3, <1>4, <1>5
      <4> QED BY <4>1, <4>2, <4>3, <1>5
    <3> QED BY <3>1, <3>2
  <2> QED BY <1>3, <2>1, <2>6, <2>7, <2>8 DEF q, t, buy
<1> QED BY <1>3, <1>5, <1>6, <1>7

\* A sell leaves the product at least where it was, and cannot empty the quote.
LEMMA SellSound ==
  ASSUME NEW c \in Reserves, NEW tokensIn \in Nat, c.token > 0, c.quote > 0
  PROVE  /\ AfterSell(c, tokensIn) \in Reserves
         /\ AfterSell(c, tokensIn).quote > 0
         /\ AfterSell(c, tokensIn).quote * AfterSell(c, tokensIn).token
              >= c.quote * c.token
<1> DEFINE q == c.quote
           t == c.token
           out == grossQuoteOut(c, tokensIn)
<1>1. q \in Nat \ {0} /\ t \in Nat \ {0}
  BY DEF Reserves
<1>2. out \in Nat /\ out * (t + tokensIn) <= tokensIn * q /\ out <= q
  BY <1>1, AmountOut DEF grossQuoteOut
<1>3. /\ AfterSell(c, tokensIn).quote = q - out
      /\ AfterSell(c, tokensIn).token = t + tokensIn
      /\ AfterSell(c, tokensIn) = [quote |-> q - out, token |-> t + tokensIn]
  BY DEF AfterSell
<1> HIDE DEF q, t, out
<1>4. (t + tokensIn) * (q - out) >= t * q
  BY <1>1, <1>2, ProductKept
<1>5. out # q
  <2> SUFFICES ASSUME out = q PROVE FALSE
    OBVIOUS
  <2>1. q * (t + tokensIn) = q * t + tokensIn * q
    BY <1>1
  <2>2. q * t \in Nat \ {0} /\ tokensIn * q \in Nat
    BY <1>1
  <2> QED BY <1>2, <2>1, <2>2
<1>6. q - out \in Nat \ {0} /\ t + tokensIn \in Nat
  BY <1>1, <1>2, <1>5
<1>7. (q - out) * (t + tokensIn) >= q * t
  BY <1>1, <1>4, <1>6, Distributes
<1> QED BY <1>3, <1>6, <1>7 DEF Reserves, q, t

-----------------------------------------------------------------------------
(* The inductive invariant.                                                *)

CurveInv ==
  /\ curve \in Reserves
  /\ curve.quote > 0
  /\ curve.token >= ReservedTokens
  /\ curve.token <= Supply
  /\ curve.quote * curve.token >= PhantomQuote * Supply

\* Only what the form asked for is ever sent.
AmountsInv ==
  /\ request \in Requests
  /\ \A i \in DOMAIN tx : i \in DOMAIN plan /\ plan[i].amountIn \in Amounts

Inv == CurveInv /\ AmountsInv

\* A buy of anyone keeps the curve's part of the invariant.
LEMMA BuyKeepsCurve ==
  ASSUME CurveInv, NEW quoteIn \in Nat, NEW snipe \in Nat,
         Buyable(curve, quoteIn, snipe),
         curve' = AfterBuy(curve, computeCurveBuy(curve, quoteIn, snipe))
  PROVE  CurveInv'
<1> DEFINE q == curve.quote
           t == curve.token
           out == computeCurveBuy(curve, quoteIn, snipe).tokensOut
           net == computeCurveBuy(curve, quoteIn, snipe).net
<1>1. q \in Nat \ {0} /\ t \in Nat /\ t <= Supply /\ q * t >= PhantomQuote * Supply
  BY DEF CurveInv, Reserves
<1>2. /\ out \in Nat /\ net \in Nat /\ out * (q + net) <= net * t
      /\ out <= t - ReservedTokens
  BY BuySound DEF CurveInv
<1>3. /\ curve' = [quote |-> q + net, token |-> t - out]
      /\ curve'.quote = q + net /\ curve'.token = t - out
  BY DEF AfterBuy
<1> HIDE DEF q, t, out, net
<1>4. (q + net) * (t - out) >= q * t
  BY <1>1, <1>2, ProductKept
<1>5. t - out \in Nat /\ t - out >= ReservedTokens /\ t - out <= Supply /\ q + net \in Nat \ {0}
  BY <1>1, <1>2, CurveAssumption, BundleAssumption
<1>6. (q + net) * (t - out) >= PhantomQuote * Supply
  <2>1. /\ q * t \in Int /\ (q + net) * (t - out) \in Int
        /\ PhantomQuote * Supply \in Int
    BY <1>1, <1>5, CurveAssumption, BundleAssumption
  <2> QED BY <1>1, <1>4, <2>1
<1> QED BY <1>3, <1>5, <1>6 DEF CurveInv, Reserves

LEMMA SellKeepsCurve ==
  ASSUME CurveInv, NEW tokens \in Nat, tokens <= Outside, sellable(curve) > 0,
         curve' = AfterSell(curve, tokens)
  PROVE  CurveInv'
<1>1. curve.token > 0 /\ curve.quote > 0 /\ curve \in Reserves
  BY CurveAssumption DEF CurveInv, Reserves, sellable
<1>2. /\ curve' \in Reserves /\ curve'.quote > 0
      /\ curve'.quote * curve'.token >= curve.quote * curve.token
  BY <1>1, SellSound
<1>3. curve'.token = curve.token + tokens
  BY DEF AfterSell
<1>4. curve'.token >= ReservedTokens /\ curve'.token <= Supply
  BY <1>1, <1>3, CurveAssumption, BundleAssumption DEF CurveInv, Reserves, Outside
<1>5. curve'.quote * curve'.token >= PhantomQuote * Supply
  <2>1. /\ curve'.quote * curve'.token \in Int
        /\ curve.quote * curve.token \in Int
        /\ PhantomQuote * Supply \in Int
    BY <1>1, <1>2, CurveAssumption, BundleAssumption DEF Reserves
  <2> QED BY <1>2, <2>1 DEF CurveInv
<1> QED BY <1>2, <1>4, <1>5 DEF CurveInv

LEMMA InitInv == Init => Inv
<1> SUFFICES ASSUME Init PROVE Inv
  OBVIOUS
<1>1. CurveInv
  BY CurveAssumption, BundleAssumption DEF Init, Launched, CurveInv, Reserves
<1>2. AmountsInv
  BY DEF Init, AmountsInv
<1> QED BY <1>1, <1>2 DEF Inv

LEMMA NextInv == Inv /\ [Next]_vars => Inv'
<1> SUFFICES ASSUME Inv, [Next]_vars PROVE Inv'
  OBVIOUS
<1> USE DEF Inv
<1>1. ASSUME curve' = curve PROVE CurveInv'
  BY <1>1 DEF CurveInv
<1>2. ASSUME request' = request, plan' = plan, DOMAIN tx' = DOMAIN tx PROVE AmountsInv'
  BY <1>2 DEF AmountsInv
<1>3. CASE Plan
  <2>1. CurveInv'
    BY <1>1, <1>3 DEF Plan
  <2>2. AmountsInv'
    <3>1. \A i \in DOMAIN request : request[i].amountIn \in Amounts
      BY DEF AmountsInv, Requests, Rows
    <3>2. \A i \in DOMAIN request :
            i \in DOMAIN plan' /\ plan'[i].amountIn = request[i].amountIn
      BY <1>3 DEF Plan, PlanBundle
    <3>3. DOMAIN tx' = DOMAIN request /\ request' = request
      BY <1>3 DEF Plan
    <3> QED BY <3>1, <3>2, <3>3 DEF AmountsInv
  <2> QED BY <2>1, <2>2
<1>4. CASE Wallet
  <2>1. request' = request /\ plan' = plan /\ curve' = curve /\ DOMAIN tx' = DOMAIN tx
    BY <1>4 DEF Wallet, Send, Declined, AnswerLost, Signed
  <2> QED BY <1>1, <1>2, <2>1
<1>5. CASE CodeSeen \/ PlanRefused \/ GiveUp \/ BlockRead \/ Await
  <2>1. request' = request /\ plan' = plan /\ curve' = curve /\ tx' = tx
    BY <1>5 DEF CodeSeen, PlanRefused, GiveUp, BlockRead, Stop, Await, Unsent, Receipt,
                ReceiptLost, Show, chainVars
  <2> QED BY <1>1, <1>2, <2>1
<1>6. ASSUME NEW i \in DOMAIN tx, Lands(i) PROVE Inv'
  <2>1. request' = request /\ plan' = plan /\ DOMAIN tx' = DOMAIN tx
    BY <1>6 DEF Lands, formVars
  <2>2. plan[i].amountIn \in Nat /\ Exempt \in Nat
    BY BundleAssumption DEF AmountsInv, Exempt
  <2>3. \/ curve' = curve
        \/ /\ Buyable(curve, plan[i].amountIn, Exempt)
           /\ curve' = AfterBuy(curve, computeCurveBuy(curve, plan[i].amountIn, Exempt))
    BY <1>6 DEF Lands, BuyExempt
  <2>4. CurveInv'
    BY <1>1, <2>2, <2>3, BuyKeepsCurve
  <2> QED BY <1>2, <2>1, <2>4
<1>7. ASSUME NEW amount \in Amounts, NEW snipe \in SnipeTaxes, StrangerBuys(amount, snipe)
      PROVE  Inv'
  <2>1. request' = request /\ plan' = plan /\ tx' = tx
    BY <1>7 DEF StrangerBuys, formVars
  <2>2. amount \in Nat /\ snipe \in Nat
    BY BundleAssumption
  <2>3. CurveInv'
    BY <1>7, <2>2, BuyKeepsCurve DEF StrangerBuys
  <2> QED BY <1>2, <2>1, <2>3
<1>8. ASSUME NEW tokens \in {Outside, Outside \div 2} \ {0}, StrangerSells(tokens)
      PROVE  Inv'
  <2>1. request' = request /\ plan' = plan /\ tx' = tx
    BY <1>8 DEF StrangerSells, formVars
  <2>2. tokens \in Nat /\ tokens <= Outside
    BY CurveAssumption, BundleAssumption DEF CurveInv, Reserves, Outside
  <2>3. CurveInv'
    BY <1>8, <2>2, SellKeepsCurve DEF StrangerSells
  <2> QED BY <1>2, <2>1, <2>3
<1>9. CASE UNCHANGED vars
  BY <1>1, <1>2, <1>9 DEF vars, formVars, chainVars
<1> QED BY <1>3, <1>4, <1>5, <1>6, <1>7, <1>8, <1>9 DEF Next

-----------------------------------------------------------------------------
(* What planBundle computes.                                               *)

\* One row buys from the curve its predecessors have left.
Advanced(c, amountIn) ==
  IF Buyable(c, amountIn, Exempt) THEN AfterBuy(c, BuyExempt(c, amountIn)) ELSE c

\* The curve after each of the first n rows.
PathTo(c, r, n, path) ==
  path = [i \in 0..n |-> IF i = 0 THEN c ELSE Advanced(path[i - 1], r[i].amountIn)]

\* What a row of the form may spend.
LEMMA RowType ==
  ASSUME NEW r \in Seq(Rows), NEW i \in 1..Len(r)
  PROVE  r[i] \in Rows /\ r[i].amountIn \in Amounts /\ r[i].amountIn \in Nat
<1>1. r[i] \in Rows
  OBVIOUS
<1> QED BY <1>1, BundleAssumption DEF Rows

\* Advancing the quote by a row leaves a curve of natural numbers.
LEMMA AdvancedType ==
  ASSUME NEW c \in Reserves, NEW amountIn \in Nat
  PROVE  Advanced(c, amountIn) \in Reserves
<1>1. CASE ~Buyable(c, amountIn, Exempt)
  BY <1>1 DEF Advanced
<1>2. CASE Buyable(c, amountIn, Exempt)
  <2> DEFINE buy == computeCurveBuy(c, amountIn, Exempt)
  <2>1. /\ buy.tokensOut \in Nat /\ buy.net \in Nat
        /\ buy.tokensOut <= c.token - ReservedTokens
    BY <1>2, BuySound DEF Exempt
  <2>2. Advanced(c, amountIn) = [quote |-> c.quote + buy.net, token |-> c.token - buy.tokensOut]
    BY <1>2 DEF Advanced, AfterBuy, BuyExempt
  <2> HIDE DEF buy
  <2>3. c.quote + buy.net \in Nat /\ c.token - buy.tokensOut \in Nat
    BY <2>1, CurveAssumption DEF Reserves
  <2> QED BY <2>2, <2>3 DEF Reserves
<1> QED BY <1>1, <1>2

\* A set of numbers that is not empty has a least one.
LEMMA LeastNumber ==
  ASSUME NEW S \in SUBSET Nat, S # {}
  PROVE  \E n \in S : \A m \in S : n <= m
<1> DEFINE less == {p \in Nat \X Nat : p[1] < p[2]}
<1>1. IsWellFoundedOn(less, Nat)
  BY NatLessThanWellFounded DEF OpToRel
<1> HIDE DEF less
<1>2. PICK n \in S : \A m \in S : <<m, n>> \notin less
  BY <1>1, WFMin
<1>3. \A m \in S : ~(m < n)
  BY <1>2 DEF less
<1> QED BY <1>3

\* The loop over the rows is defined for every list: were it not, there would be a
\* shortest list for which it is not, and the path of the list before it could go on.
LEMMA PathExists ==
  ASSUME NEW c \in Reserves, NEW r \in Seq(Rows)
  PROVE  \E path \in [0..Len(r) -> Reserves] : PathTo(c, r, Len(r), path)
<1> DEFINE Good(n) == \E path \in [0..n -> Reserves] : PathTo(c, r, n, path)
           Bad == {n \in 0..Len(r) : ~Good(n)}
<1> SUFFICES Bad = {}
  BY DEF Bad
<1> SUFFICES ASSUME Bad # {} PROVE FALSE
  OBVIOUS
<1>1. PICK n \in Bad : \A m \in Bad : n <= m
  <2>1. Bad \in SUBSET Nat
    OBVIOUS
  <2> HIDE DEF Bad
  <2> QED BY <2>1, LeastNumber
<1>2. CASE n = 0
  <2> DEFINE only == [i \in 0..0 |-> c]
  <2>1. only \in [0..0 -> Reserves] /\ PathTo(c, r, 0, only)
    BY DEF PathTo
  <2> QED BY <1>2, <2>1
<1>3. CASE n # 0
  <2>1. n \in 1..Len(r) /\ n - 1 \in 0..Len(r) /\ n - 1 \notin Bad
    BY <1>1, <1>3
  <2>2. PICK path \in [0..n - 1 -> Reserves] : PathTo(c, r, n - 1, path)
    BY <2>1
  <2>3. r[n].amountIn \in Nat
    BY <2>1, RowType
  <2> DEFINE last == Advanced(path[n - 1], r[n].amountIn)
             longer == [i \in 0..n |-> IF i = n THEN last ELSE path[i]]
  <2>4. last \in Reserves
    BY <2>1, <2>2, <2>3, AdvancedType
  <2>5. longer \in [0..n -> Reserves]
    <3> HIDE DEF last
    <3> QED BY <2>1, <2>2, <2>4
  <2>6. ASSUME NEW i \in 0..n
        PROVE  longer[i] = IF i = 0 THEN c ELSE Advanced(longer[i - 1], r[i].amountIn)
    <3>1. CASE i = n
      <4>1. longer[i] = last /\ longer[i - 1] = path[n - 1]
        BY <2>1, <3>1
      <4> QED BY <2>1, <3>1, <4>1
    <3>2. CASE i # n
      <4>1. i \in 0..n - 1 /\ longer[i] = path[i] /\ (i # 0 => longer[i - 1] = path[i - 1])
        BY <2>1, <3>2
      <4>2. path[i] = IF i = 0 THEN c ELSE Advanced(path[i - 1], r[i].amountIn)
        BY <2>2, <4>1 DEF PathTo
      <4> QED BY <4>1, <4>2
    <3> QED BY <3>1, <3>2
  <2>7. PathTo(c, r, n, longer)
    <3> DEFINE f == [i \in 0..n |-> IF i = 0 THEN c ELSE Advanced(longer[i - 1], r[i].amountIn)]
    <3>1. \A i \in 0..n : longer[i] = f[i]
      BY <2>6
    <3>2. longer = f
      BY <3>1
    <3> QED BY <3>2 DEF PathTo
  <2>8. Good(n)
    BY <2>5, <2>7
  <2> QED BY <1>1, <2>8
<1> QED BY <1>2, <1>3

\* Every curve that planBundle quotes a row on is one of natural numbers.
LEMMA PathType ==
  ASSUME NEW c \in Reserves, NEW r \in Seq(Rows)
  PROVE  PathOf(c, r) \in [0..Len(r) -> Reserves]
<1>1. \E path : PathTo(c, r, Len(r), path)
  BY PathExists
<1>2. PathOf(c, r) = CHOOSE path : PathTo(c, r, Len(r), path)
  BY DEF PathOf, PathTo, Advanced
<1>3. PathTo(c, r, Len(r), PathOf(c, r))
  BY <1>1, <1>2
<1> DEFINE path == PathOf(c, r)
           Bad == {i \in 0..Len(r) : path[i] \notin Reserves}
<1>4. Bad = {}
  <2> SUFFICES ASSUME Bad # {} PROVE FALSE
    OBVIOUS
  <2>1. PICK n \in Bad : \A m \in Bad : n <= m
    <3>1. Bad \in SUBSET Nat
      OBVIOUS
    <3> HIDE DEF Bad
    <3> QED BY <3>1, LeastNumber
  <2>2. path[n] = IF n = 0 THEN c ELSE Advanced(path[n - 1], r[n].amountIn)
    BY <1>3, <2>1 DEF PathTo
  <2>3. n # 0 => n - 1 \in 0..Len(r) /\ n - 1 \notin Bad /\ n \in 1..Len(r)
    BY <2>1
  <2>5. n # 0 => r[n].amountIn \in Nat
    BY <2>3, RowType
  <2>4. n # 0 => path[n - 1] \in Reserves
    BY <2>3
  <2> HIDE DEF path
  <2> QED BY <2>1, <2>2, <2>4, <2>5, AdvancedType
<1>5. \A i \in 0..Len(r) : path[i] \in Reserves
  BY <1>4
<1>6. path = [i \in 0..Len(r) |-> path[i]]
  BY <1>3 DEF PathTo
<1> HIDE DEF path
<1> QED BY <1>5, <1>6 DEF path

\* The order in which a row comes last is a list of the same rows.
LEMMA LineType ==
  ASSUME NEW r \in Seq(Rows), NEW i \in 1..Len(r)
  PROVE  /\ LastInLine(r, i) \in Seq(Rows)
         /\ Len(LastInLine(r, i)) = Len(r)
         /\ LastInLine(r, i)[Len(r)] = r[i]
<1> DEFINE before == SubSeq(r, 1, i - 1)
           after == SubSeq(r, i + 1, Len(r))
<1>1. before \in Seq(Rows) /\ Len(before) = i - 1
  BY SubSeqProperties
<1>2. after \in Seq(Rows) /\ Len(after) = Len(r) - i
  BY SubSeqProperties
<1>3. r[i] \in Rows /\ Len(r) \in Nat
  OBVIOUS
<1>4. LastInLine(r, i) = before \o after \o << r[i] >>
  BY DEF LastInLine
<1> HIDE DEF before, after
<1>5. before \o after \in Seq(Rows) /\ Len(before \o after) = Len(r) - 1
  BY <1>1, <1>2
<1>6. PICK front \in Seq(Rows) : front = before \o after
  BY <1>5
<1>7. LastInLine(r, i) = Append(front, r[i])
  BY <1>3, <1>4, <1>6
<1> QED BY <1>3, <1>5, <1>6, <1>7

\* A list that does not run the curve dry brings every row a number of tokens.
LEMMA OutType ==
  ASSUME NEW c \in Reserves, NEW r \in Seq(Rows), ~Throws(c, r), NEW i \in 1..Len(r)
  PROVE  BuyExempt(PathOf(c, r)[i - 1], r[i].amountIn).tokensOut \in Nat
<1>1. PathOf(c, r)[i - 1] \in Reserves
  BY PathType
<1>2. Buyable(PathOf(c, r)[i - 1], r[i].amountIn, Exempt)
  BY DEF Throws
<1>3. r[i].amountIn \in Nat /\ Exempt \in Nat
  BY RowType DEF Exempt
<1> QED BY <1>1, <1>2, <1>3, BuySound DEF BuyExempt

\* A tolerance of at most everything leaves a number.
LEMMA FloorType ==
  ASSUME NEW out \in Nat
  PROVE  applySlippageFloor(out, SlippageBps) \in Nat
<1> DEFINE off == applyBps(out, SlippageBps)
<1>1. off \in Nat /\ off * BASIS_POINTS <= out * SlippageBps
  BY CurveAssumption, BundleAssumption, Products, Floor DEF applyBps
<1>2. out * SlippageBps <= out * BASIS_POINTS
  BY CurveAssumption, BundleAssumption, Scales, Distributes
<1> HIDE DEF off
<1>3. off * BASIS_POINTS <= out * BASIS_POINTS
  BY <1>1, <1>2, CurveAssumption, BundleAssumption, Products
<1>4. off <= out
  BY <1>1, <1>3, CurveAssumption, Cancels
<1> QED BY <1>1, <1>4 DEF applySlippageFloor, off

\* A plan has one buy for each row, with an expectation and a floor that are numbers.
LEMMA PlanType ==
  ASSUME NEW c \in Reserves, NEW r \in Requests, ~Refused(c, r)
  PROVE  /\ PlanBundle(c, r) \in Seq(Buys)
         /\ DOMAIN PlanBundle(c, r) = DOMAIN r
         /\ Len(PlanBundle(c, r)) = Len(r)
         /\ Len(r) \in 1..MaxRecipients
         /\ DOMAIN r = 1..Len(r)
<1>1. PICK n \in 1..MaxRecipients + 1 : r \in [1..n -> Rows]
  BY DEF Requests
<1>2. r \in Seq(Rows) /\ Len(r) = n /\ DOMAIN r = 1..n
  BY <1>1
<1>3. n \in 1..MaxRecipients
  BY <1>1, <1>2, BundleAssumption DEF Refused
<1>4. ASSUME NEW i \in 1..n
      PROVE  /\ r[i].amountIn \in Amounts
             /\ BuyExempt(PathOf(c, r)[i - 1], r[i].amountIn).tokensOut \in Nat
             /\ applySlippageFloor(WorstCaseFloor(c, r, i), SlippageBps) \in Nat
  <2>1. r[i].amountIn \in Amounts
    BY <1>1 DEF Rows
  <2>2. BuyExempt(PathOf(c, r)[i - 1], r[i].amountIn).tokensOut \in Nat
    BY <1>2, OutType DEF Refused
  <2>3. PICK line : line = LastInLine(r, i)
    OBVIOUS
  <2>4. line \in Seq(Rows) /\ Len(line) = n /\ line[n] = r[i] /\ ~Throws(c, line)
    BY <1>2, <2>3, LineType DEF Refused
  <2>5. BuyExempt(PathOf(c, line)[n - 1], line[n].amountIn).tokensOut \in Nat
    BY <1>3, <2>4, OutType
  <2>6. WorstCaseFloor(c, r, i) \in Nat
    BY <2>3, <2>4, <2>5 DEF WorstCaseFloor
  <2> QED BY <2>1, <2>2, <2>6, FloorType
<1>5. PlanBundle(c, r) \in [1..n -> Buys]
  BY <1>2, <1>4 DEF PlanBundle, Buys
<1> QED BY <1>2, <1>3, <1>5

-----------------------------------------------------------------------------
(* The two loops of runBundle.                                             *)

\* Results come once everything is signed, one for each buy in its order.
LoopsFit ==
  /\ at \in {"locate", "read"} => plan = << >>
  /\ at \in {"locate", "read", "block"} => next = 1 /\ hash = {}
  /\ at # "await" /\ at # "done" => results = << >>
  /\ at \in {"block", "send", "await"} => next <= Len(plan)
  /\ at = "await" => Len(results) = next - 1
  /\ at = "done" => results = << >> \/ Len(results) = Len(plan)

\* What is shown of a buy is final: it comes from a hash, and from how it was mined.
ShownIsSo ==
  \A i \in DOMAIN results :
    /\ results[i] = "success" => tx[i] = "filled"
    /\ results[i] = "reverted" => tx[i] = "reverted"
    /\ results[i] = "failed" <=> i \notin hash

ResultsInv == TypeOK /\ LoopsFit /\ ShownIsSo

\* The bounds of a plan and of the index in it, as numbers.
LEMMA Sizes ==
  ASSUME TypeOK
  PROVE  /\ Len(plan) \in Nat /\ MaxRecipients \in Nat /\ Len(plan) <= MaxRecipients
         /\ next \in Nat /\ 1 <= next /\ next <= MaxRecipients
  BY BundleAssumption DEF TypeOK

\* Nothing is told before a bundle is sent.
LEMMA InitResults == Init => ResultsInv
<1> SUFFICES ASSUME Init PROVE ResultsInv
  OBVIOUS
<1>1. Launched \in Reserves
  BY CurveAssumption, BundleAssumption DEF Launched, Reserves
<1>2. << >> \in Seq(Buys) /\ << >> \in Seq(Statuses) /\ Len(<< >>) = 0 /\ DOMAIN << >> = {}
  OBVIOUS
<1>3. TypeOK
  <2>1. tx \in [DOMAIN plan -> {"none", "pending", "filled", "reverted"}]
    BY <1>2 DEF Init
  <2>2. plan \in Seq(Buys) /\ results \in Seq(Statuses) /\ hash = {}
        /\ Len(plan) = 0 /\ Len(results) = 0
    BY <1>2 DEF Init
  <2>3. 1 \in 1..MaxRecipients /\ 0 <= MaxRecipients /\ 0 \in 0..MaxStrangers
    BY BundleAssumption
  <2>4. Len(plan) <= MaxRecipients /\ Len(results) <= Len(plan) /\ hash \subseteq DOMAIN plan
    BY <2>2, <2>3
  <2>5. curve \in Reserves /\ next \in 1..MaxRecipients /\ strangers \in 0..MaxStrangers
    BY <1>1, <2>3 DEF Init
  <2>6. /\ request \in Requests /\ moved \in BOOLEAN
        /\ at \in {"locate", "read", "block", "send", "await", "done"}
    BY DEF Init
  <2> QED BY <2>1, <2>2, <2>4, <2>5, <2>6 DEF TypeOK
<1>4. LoopsFit
  BY DEF Init, LoopsFit
<1>5. ShownIsSo
  BY <1>2 DEF Init, ShownIsSo
<1> QED BY <1>3, <1>4, <1>5 DEF ResultsInv

\* The steps of runBundle before the first signature.
LEMMA StartResults ==
  ASSUME ResultsInv, GiveUp \/ CodeSeen \/ PlanRefused \/ BlockRead
  PROVE  ResultsInv'
<1>1. /\ UNCHANGED <<request, plan, next, hash, results, curve, tx, strangers, moved>>
      /\ at' \in {"read", "send", "done"} /\ at \in {"locate", "read", "block"}
      /\ at' = "read" => at = "locate"
      /\ at' = "send" => at = "block"
  BY DEF GiveUp, CodeSeen, PlanRefused, BlockRead, Stop, chainVars
<1>2. TypeOK'
  BY <1>1 DEF ResultsInv, TypeOK
<1>3. LoopsFit'
  BY <1>1 DEF ResultsInv, LoopsFit
<1>4. ShownIsSo'
  BY <1>1 DEF ResultsInv, ShownIsSo
<1> QED BY <1>2, <1>3, <1>4 DEF ResultsInv

\* planBundle: the rows become buys, none of them signed yet.
LEMMA PlanResults ==
  ASSUME ResultsInv, Plan
  PROVE  ResultsInv'
<1>1. curve \in Reserves /\ request \in Requests /\ ~Refused(curve, request)
  BY DEF ResultsInv, TypeOK, Plan
<1>2. PICK p : p = PlanBundle(curve, request)
  OBVIOUS
<1>3. /\ p \in Seq(Buys) /\ DOMAIN p = DOMAIN request
      /\ Len(p) \in 1..MaxRecipients
  BY <1>1, <1>2, PlanType
<1>4. /\ plan' = p /\ tx' = [i \in DOMAIN p |-> "none"] /\ moved' = FALSE
      /\ at = "read" /\ at' = "block"
      /\ UNCHANGED <<request, next, hash, results, curve, strangers>>
  BY <1>2, <1>3 DEF Plan
<1>5. next = 1 /\ hash = {} /\ results = << >>
  BY <1>4 DEF ResultsInv, LoopsFit
<1>6. TypeOK'
  <2>1. tx' \in [DOMAIN plan' -> {"none", "pending", "filled", "reverted"}]
    BY <1>4
  <2>2. plan' \in Seq(Buys) /\ Len(plan') <= MaxRecipients
    BY <1>3, <1>4, BundleAssumption
  <2>3. hash' \subseteq DOMAIN plan' /\ results' \in Seq(Statuses) /\ Len(results') <= Len(plan')
    BY <1>3, <1>4, <1>5
  <2> QED BY <1>4, <2>1, <2>2, <2>3 DEF ResultsInv, TypeOK
<1>7. LoopsFit'
  BY <1>3, <1>4, <1>5 DEF LoopsFit
<1>8. ShownIsSo'
  BY <1>4, <1>5 DEF ShownIsSo
<1> QED BY <1>6, <1>7, <1>8 DEF ResultsInv

\* Nothing is shown while the wallet is asked.
LEMMA WalletResults ==
  ASSUME ResultsInv, Wallet
  PROVE  ResultsInv'
<1>1. at = "send" /\ results = << >> /\ next \in DOMAIN plan /\ next <= Len(plan) /\ next \in Nat
  <2>1. at = "send"
    BY DEF Wallet, Send, Declined, AnswerLost
  <2> QED BY <2>1 DEF ResultsInv, TypeOK, LoopsFit
<1>2. /\ hash' \subseteq hash \union {next}
      /\ tx' = tx \/ tx' = [tx EXCEPT ![next] = "pending"]
      /\ UNCHANGED <<request, plan, results, curve, strangers, moved>>
      /\ \/ next = Len(plan) /\ at' = "await" /\ next' = 1
         \/ next # Len(plan) /\ at' = at /\ next' = next + 1
  BY DEF Wallet, Send, Declined, AnswerLost, Signed
<1>3. tx' \in [DOMAIN plan -> {"none", "pending", "filled", "reverted"}]
  BY <1>1, <1>2 DEF ResultsInv, TypeOK
<1>4. next' \in 1..MaxRecipients /\ next' <= Len(plan)
  BY <1>1, <1>2, Sizes DEF ResultsInv
<1>5. TypeOK'
  BY <1>1, <1>2, <1>3, <1>4 DEF ResultsInv, TypeOK
<1>6. LoopsFit'
  BY <1>1, <1>2, <1>4 DEF LoopsFit
<1>7. ShownIsSo'
  BY <1>1, <1>2 DEF ShownIsSo
<1> QED BY <1>5, <1>6, <1>7 DEF ResultsInv

\* One more result, of the buy whose turn it is.
LEMMA AwaitResults ==
  ASSUME ResultsInv, Await
  PROVE  ResultsInv'
<1>1. at = "await"
  BY DEF Await, Unsent, Receipt, ReceiptLost
<1>2. /\ Len(results) = next - 1 /\ next <= Len(plan) /\ next \in Nat
      /\ results \in Seq(Statuses) /\ Len(plan) \in Nat /\ next \in 1..MaxRecipients
  BY <1>1 DEF ResultsInv, TypeOK, LoopsFit
<1>3. PICK status \in Statuses :
        /\ Show(status)
        /\ status = "success" => tx[next] = "filled"
        /\ status = "reverted" => tx[next] = "reverted"
        /\ status = "failed" <=> next \notin hash
  BY DEF Await, Unsent, Receipt, ReceiptLost, ReceiptStatus, Statuses
<1>4. /\ results' = Append(results, status)
      /\ UNCHANGED <<request, plan, hash, curve, tx, strangers, moved>>
      /\ \/ next = Len(plan) /\ at' = "done" /\ next' = next
         \/ next # Len(plan) /\ at' = at /\ next' = next + 1
  BY <1>3 DEF Show, chainVars
<1>5. /\ results' \in Seq(Statuses) /\ Len(results') = next
      /\ DOMAIN results' = DOMAIN results \union {next}
      /\ results'[next] = status
      /\ \A i \in DOMAIN results : i # next /\ results'[i] = results[i]
  BY <1>2, <1>4
<1>6. TypeOK'
  <2>1. next' \in 1..MaxRecipients /\ Len(results') <= Len(plan)
    BY <1>2, <1>4, <1>5, Sizes DEF ResultsInv
  <2> QED BY <1>1, <1>4, <1>5, <2>1 DEF ResultsInv, TypeOK
<1>7. LoopsFit'
  BY <1>1, <1>2, <1>4, <1>5 DEF LoopsFit
<1>8. ShownIsSo'
  BY <1>3, <1>4, <1>5 DEF ResultsInv, ShownIsSo
<1> QED BY <1>6, <1>7, <1>8 DEF ResultsInv

\* The chain settles only what is pending, and of that nothing but "unknown" was shown.
LEMMA ChainResults ==
  ASSUME ResultsInv, UNCHANGED formVars, curve' \in Reserves,
         strangers' \in 0..MaxStrangers, moved' \in BOOLEAN,
         \/ tx' = tx
         \/ \E i \in DOMAIN tx : /\ tx[i] = "pending"
                                 /\ \/ tx' = [tx EXCEPT ![i] = "filled"]
                                    \/ tx' = [tx EXCEPT ![i] = "reverted"]
  PROVE  ResultsInv'
<1>1. UNCHANGED <<request, at, plan, next, hash, results>>
  BY DEF formVars
<1>2. tx \in [DOMAIN plan -> {"none", "pending", "filled", "reverted"}]
  BY DEF ResultsInv, TypeOK
<1>3. /\ tx' \in [DOMAIN plan -> {"none", "pending", "filled", "reverted"}]
      /\ \A i \in DOMAIN plan : tx[i] # "pending" => tx'[i] = tx[i]
  BY <1>2
<1>4. DOMAIN results \subseteq DOMAIN plan
  BY DEF ResultsInv, TypeOK
<1>5. TypeOK'
  BY <1>1, <1>3 DEF ResultsInv, TypeOK
<1>6. LoopsFit'
  BY <1>1 DEF ResultsInv, LoopsFit
<1>7. ShownIsSo'
  BY <1>1, <1>3, <1>4 DEF ResultsInv, ShownIsSo
<1> QED BY <1>5, <1>6, <1>7 DEF ResultsInv

\* Every step keeps what the panel shows in line with what the chain did.
LEMMA NextResults == ResultsInv /\ Inv' /\ [Next]_vars => ResultsInv'
<1> SUFFICES ASSUME ResultsInv, Inv', [Next]_vars PROVE ResultsInv'
  OBVIOUS
<1>1. curve' \in Reserves
  BY DEF Inv, CurveInv
<1>2. strangers \in 0..MaxStrangers /\ moved \in BOOLEAN /\ MaxStrangers \in Nat
  BY BundleAssumption DEF ResultsInv, TypeOK
<1>3. ASSUME NEW i \in DOMAIN tx, Lands(i) PROVE ResultsInv'
  <2>1. /\ UNCHANGED formVars /\ strangers' = strangers /\ moved' = moved
        /\ tx[i] = "pending"
        /\ tx' = [tx EXCEPT ![i] = "filled"] \/ tx' = [tx EXCEPT ![i] = "reverted"]
    BY <1>3 DEF Lands
  <2> QED BY <1>1, <1>2, <2>1, ChainResults
<1>4. ASSUME NEW amount \in Amounts, NEW snipe \in SnipeTaxes, StrangerBuys(amount, snipe)
      PROVE  ResultsInv'
  <2>1. /\ UNCHANGED formVars /\ tx' = tx /\ strangers' = strangers + 1
        /\ strangers < MaxStrangers /\ moved' \in BOOLEAN
    BY <1>4 DEF StrangerBuys, formVars
  <2>2. strangers' \in 0..MaxStrangers
    BY <1>2, <2>1
  <2> QED BY <1>1, <2>1, <2>2, ChainResults
<1>5. ASSUME NEW tokens, StrangerSells(tokens)
      PROVE  ResultsInv'
  <2>1. /\ UNCHANGED formVars /\ tx' = tx /\ strangers' = strangers + 1
        /\ strangers < MaxStrangers /\ moved' = moved
    BY <1>5 DEF StrangerSells, formVars
  <2>2. strangers' \in 0..MaxStrangers
    BY <1>2, <2>1
  <2> QED BY <1>1, <1>2, <2>1, <2>2, ChainResults
<1>6. CASE UNCHANGED vars
  BY <1>1, <1>2, <1>6, ChainResults DEF vars, chainVars
<1> QED BY <1>3, <1>4, <1>5, <1>6, StartResults, PlanResults, WalletResults, AwaitResults DEF Next

-----------------------------------------------------------------------------
(* The floors of a bundle.                                                 *)

\* Induction over the indices of a list, as a fact about a set of them.
LEMMA IndexInduction ==
  ASSUME NEW n \in Nat, NEW S, 0 \in S, \A k \in 1..n : k - 1 \in S => k \in S
  PROVE  \A k \in 0..n : k \in S
<1> DEFINE Bad == {k \in 0..n : k \notin S}
<1> SUFFICES ASSUME Bad # {} PROVE FALSE
  BY DEF Bad
<1>1. Bad \in SUBSET Nat
  OBVIOUS
<1>2. PICK k \in Bad : \A m \in Bad : k <= m
  <2> HIDE DEF Bad
  <2> QED BY <1>1, LeastNumber
<1>3. k \in 1..n /\ k \notin S
  BY <1>2
<1>4. k - 1 \in 0..n /\ k - 1 \notin Bad
  BY <1>2, <1>3
<1> QED BY <1>3, <1>4

\* A list that does not run the curve dry: each row buys from what the one before has left.
LEMMA PathSteps ==
  ASSUME NEW c \in Reserves, NEW r \in Seq(Rows), ~Throws(c, r)
  PROVE  /\ PathOf(c, r) \in [0..Len(r) -> Reserves]
         /\ PathOf(c, r)[0] = c
         /\ \A k \in 1..Len(r) :
              /\ Buyable(PathOf(c, r)[k - 1], r[k].amountIn, Exempt)
              /\ PathOf(c, r)[k] = AfterBuy(PathOf(c, r)[k - 1],
                                            BuyExempt(PathOf(c, r)[k - 1], r[k].amountIn))
<1> DEFINE path == PathOf(c, r)
<1>1. \E p : PathTo(c, r, Len(r), p)
  BY PathExists
<1>2. path = CHOOSE p : PathTo(c, r, Len(r), p)
  BY DEF PathOf, PathTo, Advanced
<1>3. PathTo(c, r, Len(r), path)
  BY <1>1, <1>2
<1>4. path \in [0..Len(r) -> Reserves]
  BY PathType
<1>5. \A k \in 1..Len(r) : Buyable(path[k - 1], r[k].amountIn, Exempt)
  BY DEF Throws
<1>6. Len(r) \in Nat
  OBVIOUS
<1> HIDE DEF path
<1>7. \A k \in 0..Len(r) : path[k] = IF k = 0 THEN c ELSE Advanced(path[k - 1], r[k].amountIn)
  BY <1>3 DEF PathTo
<1>8. path[0] = c
  BY <1>6, <1>7
<1>9. ASSUME NEW k \in 1..Len(r)
      PROVE  path[k] = AfterBuy(path[k - 1], BuyExempt(path[k - 1], r[k].amountIn))
  <2>1. k \in 0..Len(r) /\ k # 0
    BY <1>6
  <2>2. path[k] = Advanced(path[k - 1], r[k].amountIn)
    BY <1>7, <2>1
  <2> QED BY <1>5, <2>2 DEF Advanced
<1> QED BY <1>4, <1>5, <1>8, <1>9 DEF path

\* A buy raises the quote and lowers the tokens; the product of the reserves stays or grows.
LEMMA BuyMoves ==
  ASSUME NEW c \in Reserves, NEW x \in Nat, Buyable(c, x, Exempt)
  PROVE  LET after == AfterBuy(c, BuyExempt(c, x))
         IN /\ after \in Reserves
            /\ c.quote <= after.quote /\ after.token <= c.token
            /\ after.quote * after.token >= c.quote * c.token
<1> DEFINE out == BuyExempt(c, x).tokensOut
           net == BuyExempt(c, x).net
<1>1. /\ out \in Nat /\ net \in Nat /\ out * (c.quote + net) <= net * c.token
      /\ out <= c.token - ReservedTokens
  BY BuySound DEF Exempt, BuyExempt
<1>2. AfterBuy(c, BuyExempt(c, x)) = [quote |-> c.quote + net, token |-> c.token - out]
  BY DEF AfterBuy
<1>3. c.quote \in Nat /\ c.token \in Nat
  BY DEF Reserves
<1> HIDE DEF out, net
<1>4. (c.quote + net) * (c.token - out) >= c.quote * c.token
  BY <1>1, <1>3, ProductKept
<1> QED BY <1>1, <1>2, <1>3, <1>4, CurveAssumption DEF Reserves

\* A buy that leaves something to be sold was not clamped, and rounds off less than the
\* quote it leaves.
LEMMA WholeBuy ==
  ASSUME NEW c \in Reserves, NEW x \in Nat, Buyable(c, x, Exempt),
         LET after == AfterBuy(c, BuyExempt(c, x)) IN sellable(after) > 0
  PROVE  LET after == AfterBuy(c, BuyExempt(c, x))
         IN /\ after.quote = c.quote + Net(x, Exempt)
            /\ after.quote * after.token <= c.quote * c.token + after.quote
<1> USE CurveAssumption
<1> DEFINE buy == BuyExempt(c, x)
           after == AfterBuy(c, buy)
           full == Unclamped(c, x, Exempt)
           net == Net(x, Exempt)
           q == c.quote
           t == c.token
<1>1. q \in Nat \ {0} /\ t \in Nat /\ t > ReservedTokens /\ sellable(c) = t - ReservedTokens
  BY DEF Reserves, Buyable, sellable
<1>2. net \in Nat
  BY NetBounds DEF Buyable, Exempt
<1>3. full \in Nat /\ full * (q + net) <= net * t /\ net * t < full * (q + net) + (q + net)
  <2>1. full = (net * t) \div (q + net)
    BY DEF Unclamped, getAmountOut
  <2>2. net * t \in Nat /\ q + net \in Nat \ {0}
    BY <1>1, <1>2, Products
  <2> HIDE DEF full, net, q, t
  <2> QED BY <2>1, <2>2, Floor
<1>4. buy.partialFill = (full > sellable(c))
  BY DEF BuyExempt, computeCurveBuy
<1>5. /\ full > sellable(c) => buy.tokensOut = sellable(c)
      /\ ~(full > sellable(c)) => buy.tokensOut = full /\ buy.net = net
  BY DEF BuyExempt, computeCurveBuy
<1>6. after = [quote |-> q + buy.net, token |-> t - buy.tokensOut]
  BY DEF AfterBuy
<1>7. ~(full > sellable(c))
  <2> SUFFICES ASSUME full > sellable(c) PROVE FALSE
    OBVIOUS
  <2>1. after.token = ReservedTokens
    <3> HIDE DEF buy, full, q, t
    <3> QED BY <1>1, <1>5, <1>6
  <2>2. sellable(after) = 0
    <3> HIDE DEF after
    <3> QED BY <2>1 DEF sellable
  <2> QED BY <2>2
<1>8. after.quote = q + net /\ after.token = t - full
  BY <1>5, <1>6, <1>7
<1> HIDE DEF after, full, net, q, t
<1>9. (q + net) * (t - full) <= q * t + (q + net)
  <2>1. (q + net) * (t - full) = q * t + net * t - full * (q + net)
    BY <1>1, <1>2, <1>3
  <2>2. q * t \in Int /\ net * t \in Int /\ full * (q + net) \in Int
    BY <1>1, <1>2, <1>3
  <2> QED BY <1>1, <1>2, <1>3, <2>1, <2>2
<1> QED BY <1>8, <1>9 DEF after, net, q, t

\* Along the rows the quote rises and the tokens fall.
LEMMA PathMonotone ==
  ASSUME NEW c \in Reserves, NEW r \in Seq(Rows), ~Throws(c, r),
         NEW i \in 0..Len(r), NEW j \in 0..Len(r), i <= j
  PROVE  LET path == PathOf(c, r)
         IN path[i].quote <= path[j].quote /\ path[j].token <= path[i].token
<1> DEFINE path == PathOf(c, r)
           S == {k \in 0..Len(r) : k >= i => /\ path[i].quote <= path[k].quote
                                             /\ path[k].token <= path[i].token}
<1>1. path \in [0..Len(r) -> Reserves] /\ Len(r) \in Nat
  BY PathSteps
<1>2. ASSUME NEW k \in 1..Len(r)
      PROVE  /\ path[k - 1].quote <= path[k].quote /\ path[k].token <= path[k - 1].token
             /\ path[k].quote \in Nat /\ path[k].token \in Nat
             /\ path[k - 1].quote \in Nat /\ path[k - 1].token \in Nat
  <2>1. /\ Buyable(path[k - 1], r[k].amountIn, Exempt)
        /\ path[k] = AfterBuy(path[k - 1], BuyExempt(path[k - 1], r[k].amountIn))
    BY PathSteps
  <2>2. path[k - 1] \in Reserves /\ path[k] \in Reserves
    BY <1>1
  <2>3. r[k].amountIn \in Nat
    BY RowType
  <2> HIDE DEF path
  <2>4. path[k - 1].quote <= path[k].quote /\ path[k].token <= path[k - 1].token
    BY <2>1, <2>2, <2>3, BuyMoves
  <2> QED BY <2>2, <2>4 DEF Reserves
<1>3. path[i].quote \in Nat /\ path[i].token \in Nat
  BY <1>1 DEF Reserves
<1> HIDE DEF path
<1>4. 0 \in S
  BY <1>1, <1>3
<1>5. ASSUME NEW k \in 1..Len(r), k - 1 \in S PROVE k \in S
  <2>1. k \in 0..Len(r)
    BY <1>1
  <2>2. CASE k - 1 >= i
    <3>1. path[i].quote <= path[k - 1].quote /\ path[k - 1].token <= path[i].token
      BY <1>5, <2>2
    <3>2. /\ path[k - 1].quote <= path[k].quote /\ path[k].token <= path[k - 1].token
          /\ path[k].quote \in Nat /\ path[k].token \in Nat
          /\ path[k - 1].quote \in Nat /\ path[k - 1].token \in Nat
      BY <1>2, <1>5
    <3> DEFINE q0 == path[i].quote  t0 == path[i].token
               q1 == path[k - 1].quote  t1 == path[k - 1].token
               q2 == path[k].quote  t2 == path[k].token
    <3>3. /\ q0 <= q1 /\ t1 <= t0 /\ q1 <= q2 /\ t2 <= t1
          /\ q0 \in Nat /\ t0 \in Nat /\ q1 \in Nat /\ t1 \in Nat /\ q2 \in Nat /\ t2 \in Nat
      BY <1>3, <3>1, <3>2
    <3>4. q0 <= q2 /\ t2 <= t0
      <4> HIDE DEF q0, t0, q1, t1, q2, t2
      <4> QED BY ONLY <3>3
    <3> QED BY ONLY <2>1, <3>4 DEF S, q0, t0, q2, t2
  <2>3. CASE ~(k - 1 >= i)
    <3>1. k >= i => k = i
      BY <1>1, <2>3
    <3> QED BY <1>3, <2>1, <3>1
  <2> QED BY <2>2, <2>3
<1> HIDE DEF S
<1>6. \A k \in 0..Len(r) : k \in S
  BY <1>1, <1>4, <1>5, IndexInduction
<1> QED BY <1>6 DEF S, path

\* Before the last row nothing was clamped: each row has added what it nets to the quote,
\* and rounding has added at most one quote for each row to the product.
LEMMA PathBefore ==
  ASSUME NEW c \in Reserves, c.quote > 0, NEW r \in Seq(Rows), ~Throws(c, r), NEW n \in Nat,
         Len(r) = n + 1
  PROVE  LET path == PathOf(c, r)
         IN /\ \A k \in 1..n : path[k].quote = path[k - 1].quote + Net(r[k].amountIn, Exempt)
            /\ \A k \in 0..n : path[k].quote * path[k].token
                                 <= c.quote * c.token + k * path[k].quote
<1> DEFINE path == PathOf(c, r)
           S == {k \in 0..n : path[k].quote * path[k].token
                                <= c.quote * c.token + k * path[k].quote}
<1>1. path \in [0..Len(r) -> Reserves] /\ path[0] = c
  BY PathSteps
<1>2. ASSUME NEW k \in 1..n
      PROVE  /\ path[k].quote = path[k - 1].quote + Net(r[k].amountIn, Exempt)
             /\ path[k].quote * path[k].token
                  <= path[k - 1].quote * path[k - 1].token + path[k].quote
             /\ path[k - 1].quote <= path[k].quote
             /\ path[k - 1] \in Reserves /\ path[k] \in Reserves
  <2>1. k \in 1..Len(r) /\ k + 1 \in 1..Len(r) /\ (k + 1) - 1 = k
    OBVIOUS
  <2>2. /\ Buyable(path[k - 1], r[k].amountIn, Exempt)
        /\ path[k] = AfterBuy(path[k - 1], BuyExempt(path[k - 1], r[k].amountIn))
    BY <2>1, PathSteps
  <2>3. Buyable(path[k], r[k + 1].amountIn, Exempt)
    <3>1. Buyable(path[(k + 1) - 1], r[k + 1].amountIn, Exempt)
      BY <2>1, PathSteps
    <3> QED BY ONLY <2>1, <3>1
  <2>4. path[k - 1] \in Reserves /\ path[k] \in Reserves
    BY <1>1, <2>1
  <2>5. r[k].amountIn \in Nat
    BY <2>1, RowType
  <2> HIDE DEF path
  <2>6. sellable(path[k]) > 0
    BY <2>3 DEF Buyable
  <2>7. /\ path[k].quote = path[k - 1].quote + Net(r[k].amountIn, Exempt)
        /\ path[k].quote * path[k].token
             <= path[k - 1].quote * path[k - 1].token + path[k].quote
    BY <2>2, <2>4, <2>5, <2>6, WholeBuy
  <2>8. path[k - 1].quote <= path[k].quote
    BY <2>2, <2>4, <2>5, BuyMoves
  <2> QED BY <2>4, <2>7, <2>8
<1> HIDE DEF path
<1>3. 0 \in S
  <2>1. c.quote * c.token \in Nat /\ c.quote \in Nat
    BY Products DEF Reserves
  <2>2. 0 * path[0].quote = 0
    BY <1>1, <2>1
  <2> QED BY <1>1, <2>1, <2>2
<1>4. ASSUME NEW k \in 1..n, k - 1 \in S PROVE k \in S
  <2> DEFINE a == path[k - 1].quote
             b == path[k].quote
             s == path[k - 1].token
             t == path[k].token
             p == c.quote * c.token
             l == k - 1
  <2>1. /\ a \in Nat /\ b \in Nat /\ s \in Nat /\ t \in Nat /\ a <= b /\ p \in Nat
        /\ b * t <= a * s + b
    BY <1>2, Products DEF Reserves
  <2>2. a * s <= p + l * a /\ l \in Nat /\ k = l + 1
    BY <1>4
  <2> HIDE DEF a, b, s, t, p, l
  <2>3. l * a <= l * b
    <3>1. a * l <= b * l
      BY <2>1, <2>2, Scales
    <3> QED BY <2>1, <2>2, <3>1, Distributes
  <2>4. k * b = l * b + b
    BY <2>1, <2>2
  <2>5. a * s \in Int /\ l * a \in Int /\ l * b \in Int /\ b * t \in Int /\ k * b \in Int
    BY <2>1, <2>2
  <2>6. b * t <= p + k * b
    BY <2>1, <2>2, <2>3, <2>4, <2>5
  <2> QED BY <2>6 DEF b, t, p
<1> HIDE DEF S
<1>5. \A k \in 0..n : k \in S
  BY <1>3, <1>4, IndexInduction
<1> QED BY <1>2, <1>5 DEF S, path

\* Lists that begin alike leave the same curves.
LEMMA PathPrefix ==
  ASSUME NEW c \in Reserves, NEW r \in Seq(Rows), NEW s \in Seq(Rows),
         ~Throws(c, r), ~Throws(c, s), NEW n \in Nat, n <= Len(r), n <= Len(s),
         \A k \in 1..n : r[k] = s[k]
  PROVE  \A k \in 0..n : PathOf(c, r)[k] = PathOf(c, s)[k]
<1> DEFINE p == PathOf(c, r)
           q == PathOf(c, s)
           S == {k \in 0..n : p[k] = q[k]}
<1>1. p[0] = c /\ q[0] = c
  BY PathSteps
<1>2. ASSUME NEW k \in 1..n
      PROVE  /\ p[k] = AfterBuy(p[k - 1], BuyExempt(p[k - 1], r[k].amountIn))
             /\ q[k] = AfterBuy(q[k - 1], BuyExempt(q[k - 1], s[k].amountIn))
  <2>1. k \in 1..Len(r) /\ k \in 1..Len(s)
    OBVIOUS
  <2> QED BY <2>1, PathSteps
<1> HIDE DEF p, q
<1>3. 0 \in S
  BY <1>1
<1>4. ASSUME NEW k \in 1..n, k - 1 \in S PROVE k \in S
  <2>1. p[k - 1] = q[k - 1]
    BY ONLY <1>4
  <2>2. r[k] = s[k]
    OBVIOUS
  <2>3. /\ p[k] = AfterBuy(p[k - 1], BuyExempt(p[k - 1], r[k].amountIn))
        /\ q[k] = AfterBuy(q[k - 1], BuyExempt(q[k - 1], s[k].amountIn))
    BY <1>2
  <2>4. p[k] = q[k]
    BY ONLY <2>1, <2>2, <2>3
  <2>5. k \in 0..n
    OBVIOUS
  <2> QED BY ONLY <2>4, <2>5
<1> HIDE DEF S
<1>5. \A k \in 0..n : k \in S
  BY <1>3, <1>4, IndexInduction
<1> QED BY <1>5 DEF S, p, q

\* In the line in which a row is last, the rows before it are where they were.
LEMMA LinePrefix ==
  ASSUME NEW r \in Seq(Rows), NEW i \in 1..Len(r)
  PROVE  \A k \in 1..i - 1 : LastInLine(r, i)[k] = r[k]
<1> DEFINE before == SubSeq(r, 1, i - 1)
           after == SubSeq(r, i + 1, Len(r))
<1>1. before \in Seq(Rows) /\ Len(before) = i - 1 /\ \A k \in 1..i - 1 : before[k] = r[k]
  BY SubSeqProperties
<1>2. after \in Seq(Rows) /\ Len(after) = Len(r) - i
  BY SubSeqProperties
<1>3. LastInLine(r, i) = before \o after \o << r[i] >>
  BY DEF LastInLine
<1> HIDE DEF before, after
<1>4. /\ before \o after \in Seq(Rows) /\ Len(before \o after) = Len(r) - 1
      /\ \A k \in 1..i - 1 : (before \o after)[k] = before[k]
  <2>1. before \o after \in Seq(Rows) /\ Len(before \o after) = Len(before) + Len(after)
    BY ONLY <1>1, <1>2, ConcatProperties
  <2>2. \A k \in 1..Len(before) : (before \o after)[k] = before[k]
    BY ONLY <1>1, <1>2, ConcatProperties
  <2>3. Len(before \o after) = Len(r) - 1
    <3> DEFINE all == before \o after
    <3>1. Len(r) \in Nat
      OBVIOUS
    <3>2. Len(all) = Len(before) + Len(after)
      BY <2>1
    <3> HIDE DEF all
    <3> QED BY <1>1, <1>2, <3>1, <3>2 DEF all
  <2>4. \A k \in 1..i - 1 : (before \o after)[k] = before[k]
    BY <1>1, <2>2
  <2> QED BY ONLY <2>1, <2>3, <2>4
<1>5. PICK front \in Seq(Rows) : front = before \o after
  BY <1>4
<1>6. \A k \in 1..Len(front) : (front \o << r[i] >>)[k] = front[k]
  OBVIOUS
<1> QED BY <1>1, <1>3, <1>4, <1>5, <1>6

\* A curve with less quote and no smaller product gives at most m units less than one whose
\* product exceeds k by at most m of its quotes.
LEMMA Rounding ==
  ASSUME NEW q \in Nat \ {0}, NEW t \in Nat, NEW u \in Nat \ {0}, NEW v \in Nat, NEW k \in Nat,
         NEW m \in Nat, NEW net \in Nat, NEW out \in Nat,
         q <= u, k <= q * t, u * v <= k + m * u,
         out * (u + net) <= net * v, m <= out
  PROVE  /\ v - m <= t
         /\ (out - m) * (q + net) <= net * t
<1>1. v - m <= t
  <2>1. q * t <= u * t
    BY Scales
  <2>2. (v - m) * u = u * v - m * u /\ u * t = t * u
    OBVIOUS
  <2>3. /\ q * t \in Int /\ u * t \in Int /\ t * u \in Int /\ u * v \in Int /\ m * u \in Int
        /\ (v - m) * u \in Int
    OBVIOUS
  <2>4. (v - m) * u <= t * u
    BY <2>1, <2>2, <2>3
  <2> QED BY <2>4, Cancels
<1> DEFINE o == out - m
<1>2. o \in Nat /\ out = o + m
  OBVIOUS
<1> HIDE DEF o
<1>3. (o * (q + net)) * q <= net * k
  <2>1. (o * (u + net)) * u <= net * k
    <3>1. (out * (u + net)) * u <= (net * v) * u
      <4>1. out * (u + net) \in Int /\ net * v \in Int
        OBVIOUS
      <4> QED BY <4>1, Scales
    <3>2. (net * v) * u <= net * k + net * (m * u)
      <4>1. (u * v) * net <= (k + m * u) * net
        <5>1. u * v \in Int /\ k + m * u \in Int
          OBVIOUS
        <5> QED BY <5>1, Scales
      <4>2. (net * v) * u = (u * v) * net /\ (k + m * u) * net = net * k + net * (m * u)
        OBVIOUS
      <4> QED BY <4>1, <4>2
    <3>3. (out * (u + net)) * u = (o * (u + net)) * u + m * (u * u) + net * (m * u)
      BY <1>2
    <3>4. m * (u * u) \in Nat
      BY Products
    <3>5. /\ (out * (u + net)) * u \in Int /\ (o * (u + net)) * u \in Int /\ (net * v) * u \in Int
          /\ net * k \in Int /\ net * (m * u) \in Int
      BY <1>2
    <3> QED BY <3>1, <3>2, <3>3, <3>4, <3>5
  <2>2. o * (q + net) <= o * (u + net)
    <3>1. (q + net) * o <= (u + net) * o
      BY <1>2, Scales
    <3> QED BY <1>2, <3>1, Distributes
  <2>3. (o * (q + net)) * q <= (o * (u + net)) * u
    <3> DEFINE a == o * (q + net)
               b == o * (u + net)
    <3>1. a \in Nat /\ b \in Nat /\ a <= b
      BY <1>2, <2>2, Products
    <3> HIDE DEF a, b
    <3>2. a * q <= b * q /\ q * b <= u * b /\ q * b = b * q /\ u * b = b * u
      BY <3>1, Scales, Distributes
    <3>3. a * q \in Int /\ b * q \in Int /\ b * u \in Int
      BY <3>1
    <3>4. a * q <= b * u
      BY <3>2, <3>3
    <3> QED BY <3>4 DEF a, b
  <2>4. /\ (o * (q + net)) * q \in Int /\ (o * (u + net)) * u \in Int /\ net * k \in Int
    BY <1>2
  <2> QED BY <2>1, <2>3, <2>4
<1>4. net * k <= (net * t) * q
  <2>1. k * net <= (q * t) * net
    <3>1. q * t \in Int
      OBVIOUS
    <3> QED BY <3>1, Scales
  <2>2. k * net = net * k /\ (q * t) * net = (net * t) * q
    OBVIOUS
  <2> QED BY <2>1, <2>2
<1>5. o * (q + net) <= net * t
  <2> DEFINE a == o * (q + net)
             b == net * t
  <2>1. a \in Int /\ b \in Int /\ a * q <= net * k /\ net * k <= b * q
    BY <1>2, <1>3, <1>4
  <2> HIDE DEF a, b
  <2>2. a * q \in Int /\ b * q \in Int /\ net * k \in Int
    BY <2>1
  <2>3. a * q <= b * q
    BY <2>1, <2>2
  <2>4. a <= b
    BY <2>1, <2>3, Cancels
  <2> QED BY <2>4 DEF a, b
<1> QED BY <1>1, <1>5 DEF o

\* A buy on the curve as it is, beside the same buy on the curve it was priced on.
LEMMA NearlyAsPriced ==
  ASSUME NEW c \in Reserves, NEW v \in Reserves, NEW k \in Nat, NEW m \in Nat, NEW x \in Nat,
         Buyable(v, x, Exempt), c.quote > 0, c.quote <= v.quote,
         k <= c.quote * c.token, v.quote * v.token <= k + m * v.quote,
         BuyExempt(v, x).tokensOut > m
  PROVE  /\ Buyable(c, x, Exempt)
         /\ BuyExempt(c, x).tokensOut \in Nat
         /\ BuyExempt(v, x).tokensOut - m <= BuyExempt(c, x).tokensOut
<1> USE CurveAssumption
<1> DEFINE q == c.quote  t == c.token
           u == v.quote  w == v.token
           net == Net(x, Exempt)
           full == Unclamped(v, x, Exempt)
           free == Unclamped(c, x, Exempt)
           out == BuyExempt(v, x).tokensOut
<1>1. /\ q \in Nat \ {0} /\ t \in Nat /\ u \in Nat \ {0} /\ w \in Nat /\ w > ReservedTokens
      /\ sellable(v) = w - ReservedTokens
  BY DEF Reserves, Buyable, sellable
<1>2. net \in Nat
  BY NetBounds DEF Buyable, Exempt
<1>3. full \in Nat /\ full * (u + net) <= net * w
  BY <1>1, <1>2, AmountOut DEF Unclamped
<1>4. free = (net * t) \div (q + net)
  BY DEF Unclamped, getAmountOut
<1>5. \A d : BuyExempt(d, x).tokensOut = IF Unclamped(d, x, Exempt) > sellable(d) THEN sellable(d)
                                         ELSE Unclamped(d, x, Exempt)
  BY DEF BuyExempt, computeCurveBuy
<1>6. out = IF full > sellable(v) THEN sellable(v) ELSE full
  BY <1>5
<1>7. BuyExempt(c, x).tokensOut = IF free > sellable(c) THEN sellable(c) ELSE free
  BY <1>5
<1>8. k <= q * t /\ u * w <= k + m * u /\ q <= u
  OBVIOUS
<1>9. out > m
  OBVIOUS
<1>10. net > 0 /\ x > 0 /\ totalTaxBps(Exempt) < BASIS_POINTS
  BY DEF Buyable
<1> HIDE DEF q, t, u, w, net, full, free, out
<1>11. out \in Nat /\ m <= full /\ m <= out /\ out <= full /\ out <= w - ReservedTokens
  BY <1>1, <1>3, <1>6, <1>9
<1>12. w - m <= t /\ (full - m) * (q + net) <= net * t
  BY <1>1, <1>2, <1>3, <1>8, <1>11, Rounding
<1>13. full - m <= free
  <2> DEFINE a == net * t
             b == q + net
             z == full - m
  <2>1. a \in Nat /\ b \in Nat \ {0} /\ z \in Int /\ z * b <= a
    BY <1>1, <1>2, <1>3, <1>11, <1>12, Products
  <2> HIDE DEF a, b, z
  <2>2. z <= a \div b
    BY <2>1, FloorMost
  <2> QED BY <1>4, <2>2 DEF a, b, z
<1>14. free \in Nat
  <2>1. net * t \in Nat /\ q + net \in Nat \ {0}
    BY <1>1, <1>2, Products
  <2> HIDE DEF free
  <2> QED BY <1>4, <2>1, Floor
<1>15. t > ReservedTokens
  BY <1>1, <1>9, <1>11, <1>12
<1>16. sellable(c) = t - ReservedTokens /\ sellable(c) > 0
  BY <1>1, <1>15 DEF sellable, t
<1>17. Buyable(c, x, Exempt)
  BY <1>1, <1>10, <1>16 DEF Buyable, net, q
<1>18. BuyExempt(c, x).tokensOut \in Nat /\ out - m <= BuyExempt(c, x).tokensOut
  <2> DEFINE room == sellable(c)
             gets == BuyExempt(c, x).tokensOut
  <2>1. /\ room = t - ReservedTokens /\ out <= w - ReservedTokens /\ w - m <= t
        /\ full - m <= free /\ out <= full /\ free \in Nat /\ room \in Nat /\ out \in Nat
        /\ full \in Nat /\ w \in Nat /\ t \in Nat
    BY <1>1, <1>3, <1>11, <1>12, <1>13, <1>14, <1>16
  <2>2. gets = IF free > room THEN room ELSE free
    BY <1>7
  <2> HIDE DEF room, gets
  <2>3. gets \in Nat /\ out - m <= gets
    BY ONLY <2>1, <2>2, m \in Nat, CurveAssumption
  <2> QED BY <2>3 DEF gets
<1> QED BY <1>17, <1>18 DEF out

-----------------------------------------------------------------------------
(* No buy of a bundle undercuts its floor.                                 *)

\* Every floor leaves a unit for each row that the form can have: what rounding may cost.
RoundingAbsorbed == \A i \in DOMAIN plan : applyBps(plan[i].minOut, SlippageBps) >= MaxRecipients

\* The curve c is the one the plan was made on.
Planned(c) ==
  /\ c \in Reserves /\ c.quote > 0
  /\ request \in Requests /\ ~Refused(c, request)
  /\ plan = PlanBundle(c, request)

\* The buys so far have not put more into the curve than the plan's rows up to the last of
\* them, and have not taken more out of it than they paid for.
Ahead(c) ==
  /\ curve \in Reserves /\ curve.quote > 0
  /\ curve.quote * curve.token >= c.quote * c.token
  /\ \A m \in 0..Len(plan) - 1 :
       (\A j \in DOMAIN tx : j > m => tx[j] # "filled")
         => curve.quote <= PathOf(c, request)[m].quote

\* Buys are signed in their order, and land in it.
SignedInOrder ==
  /\ at \in {"block", "send"} => \A j \in DOMAIN tx : j >= next => tx[j] = "none"
  /\ \A i, j \in DOMAIN tx : i < j /\ tx[j] \in {"filled", "reverted"} => tx[i] # "pending"

FloorInv ==
  /\ SignedInOrder
  /\ plan # << >> /\ ~moved /\ RoundingAbsorbed =>
       /\ \A i \in DOMAIN tx : tx[i] # "reverted"
       /\ \E c : Planned(c) /\ Ahead(c)

\* What the lines of a plan say of its rows.
LEMMA PlanLines ==
  ASSUME NEW c, Planned(c), NEW i \in 1..Len(plan)
  PROVE  LET n == Len(plan)
             line == LastInLine(request, i)
             a == request[i].amountIn
             last == PathOf(c, line)[n - 1]
         IN /\ n = Len(request) /\ n \in 1..MaxRecipients /\ request \in Seq(Rows)
            /\ ~Throws(c, request)
            /\ line \in Seq(Rows) /\ Len(line) = n /\ ~Throws(c, line)
            /\ a \in Nat /\ line[n].amountIn = a
            /\ plan[i].amountIn = a
            /\ plan[i].minOut = applySlippageFloor(BuyExempt(last, a).tokensOut, SlippageBps)
            /\ plan[i].expectedOut = BuyExempt(PathOf(c, request)[i - 1], a).tokensOut
            /\ \A k \in 0..i - 1 : PathOf(c, line)[k] = PathOf(c, request)[k]
<1> DEFINE n == Len(plan)
           line == LastInLine(request, i)
           a == request[i].amountIn
<1>1. c \in Reserves /\ request \in Requests /\ ~Refused(c, request) /\ plan = PlanBundle(c, request)
  BY DEF Planned
<1>2. n = Len(request) /\ n \in 1..MaxRecipients /\ DOMAIN request = 1..n
  BY <1>1, PlanType
<1>3. request \in Seq(Rows)
  <2>1. PICK l \in 1..MaxRecipients + 1 : request \in [1..l -> Rows]
    BY <1>1 DEF Requests
  <2> QED BY <2>1, BundleAssumption
<1>4. i \in DOMAIN request /\ i \in 1..Len(request)
  BY <1>2
<1>5. ~Throws(c, request) /\ ~Throws(c, line)
  BY <1>1, <1>4 DEF Refused
<1>6. line \in Seq(Rows) /\ Len(line) = n /\ line[n] = request[i]
  BY <1>2, <1>3, <1>4, LineType
<1>7. a \in Nat
  BY <1>3, <1>4, RowType
<1>8. plan[i] = [amountIn |-> a,
                 expectedOut |-> BuyExempt(PathOf(c, request)[i - 1], a).tokensOut,
                 minOut |-> applySlippageFloor(WorstCaseFloor(c, request, i), SlippageBps)]
  BY <1>1, <1>4 DEF PlanBundle
<1>9. WorstCaseFloor(c, request, i) = BuyExempt(PathOf(c, line)[n - 1], a).tokensOut
  BY <1>6 DEF WorstCaseFloor
<1>10. \A k \in 1..i - 1 : line[k] = request[k]
  BY <1>3, <1>4, LinePrefix
<1> HIDE DEF line, n
<1>11. i - 1 \in Nat /\ i - 1 <= Len(request) /\ i - 1 <= Len(line)
  BY <1>2, <1>4, <1>6
<1>12. \A k \in 0..i - 1 : PathOf(c, line)[k] = PathOf(c, request)[k]
  BY <1>1, <1>3, <1>5, <1>6, <1>10, <1>11, PathPrefix
<1> QED BY <1>2, <1>3, <1>5, <1>6, <1>7, <1>8, <1>9, <1>12 DEF n, line

\* A floor that leaves so many units was taken from a price that exceeds it by as many.
LEMMA FloorsLeave ==
  ASSUME NEW w \in Nat, NEW n \in Nat,
         applyBps(applySlippageFloor(w, SlippageBps), SlippageBps) >= n
  PROVE  /\ applySlippageFloor(w, SlippageBps) \in Nat
         /\ applySlippageFloor(w, SlippageBps) <= w - n
<1> DEFINE f == applySlippageFloor(w, SlippageBps)
           a == applyBps(f, SlippageBps)
           b == applyBps(w, SlippageBps)
<1>1. BASIS_POINTS \in Nat \ {0} /\ SlippageBps \in Nat
  BY CurveAssumption, BundleAssumption
<1>2. f \in Nat
  BY FloorType
<1>3. f = w - b
  BY DEF applySlippageFloor
<1>4. b \in Nat
  BY <1>1, Products, Floor DEF applyBps
<1> HIDE DEF b, f
<1>5. a \in Nat /\ a * BASIS_POINTS <= f * SlippageBps
  BY <1>1, <1>2, Products, Floor DEF applyBps
<1>6. f * SlippageBps <= w * SlippageBps /\ f * SlippageBps \in Nat /\ w * SlippageBps \in Nat
  BY <1>1, <1>2, <1>3, <1>4, Scales, Products
<1> HIDE DEF a
<1>7. a <= (w * SlippageBps) \div BASIS_POINTS
  <2> DEFINE p == w * SlippageBps
  <2>1. p \in Nat /\ a * BASIS_POINTS <= p
    BY <1>1, <1>5, <1>6, Products
  <2> HIDE DEF p
  <2>2. a <= p \div BASIS_POINTS
    BY <1>1, <1>5, <2>1, FloorMost
  <2> QED BY <2>2 DEF p
<1>8. a <= b
  BY <1>7 DEF b, applyBps
<1>9. a >= n
  BY DEF a, f
<1> QED BY <1>2, <1>3, <1>4, <1>5, <1>8, <1>9 DEF f

\* The curve that the floor of a row was priced on, with what the floor leaves.
LEMMA RowMargin ==
  ASSUME NEW c, Planned(c), RoundingAbsorbed, NEW i \in 1..Len(plan)
  PROVE  LET n == Len(plan)
             a == request[i].amountIn
             u == PathOf(c, LastInLine(request, i))[n - 1]
             w == BuyExempt(u, a).tokensOut
         IN /\ n \in Nat \ {0} /\ a \in Nat /\ u \in Reserves
            /\ Buyable(u, a, Exempt)
            /\ u.quote * u.token <= c.quote * c.token + (n - 1) * u.quote
            /\ w \in Nat /\ w > n - 1 /\ plan[i].minOut \in Nat /\ plan[i].minOut <= w - (n - 1)
            /\ u.token - ReservedTokens >= n
            /\ \A k \in 0..i - 1 : /\ PathOf(c, request)[k].quote <= u.quote
                                   /\ u.token <= PathOf(c, request)[k].token
<1> DEFINE n == Len(plan)
           a == request[i].amountIn
           line == LastInLine(request, i)
           u == PathOf(c, line)[n - 1]
           w == BuyExempt(u, a).tokensOut
<1>1. /\ n \in 1..MaxRecipients
      /\ line \in Seq(Rows) /\ Len(line) = n /\ ~Throws(c, line)
      /\ a \in Nat /\ line[n].amountIn = a
      /\ plan[i].minOut = applySlippageFloor(w, SlippageBps)
      /\ \A k \in 0..i - 1 : PathOf(c, line)[k] = PathOf(c, request)[k]
  BY PlanLines
<1>2. n \in Nat \ {0} /\ n <= MaxRecipients /\ MaxRecipients \in Nat
  BY <1>1, BundleAssumption
<1>3. c \in Reserves /\ c.quote > 0
  BY DEF Planned
<1>4. PICK l : l = line
  OBVIOUS
<1>5. u = PathOf(c, l)[n - 1]
  BY <1>4
<1>6. l \in Seq(Rows) /\ Len(l) = n /\ ~Throws(c, l) /\ l[n].amountIn = a
      /\ \A k \in 0..i - 1 : PathOf(c, l)[k] = PathOf(c, request)[k]
  BY <1>1, <1>4
<1> HIDE DEF u, w, line
<1>7. u \in Reserves /\ Buyable(u, a, Exempt)
  <2>1. PathOf(c, l) \in [0..n -> Reserves] /\ Buyable(PathOf(c, l)[n - 1], l[n].amountIn, Exempt)
    <3>1. n \in 1..Len(l)
      BY <1>2, <1>6
    <3> QED BY <1>3, <1>6, <3>1, PathSteps
  <2>2. n - 1 \in 0..n
    BY <1>2
  <2> QED BY <1>5, <1>6, <2>1, <2>2
<1>8. u.quote * u.token <= c.quote * c.token + (n - 1) * u.quote
  <2> DEFINE m == n - 1
  <2>1. m \in Nat /\ Len(l) = m + 1 /\ m \in 0..m
    BY <1>2, <1>6
  <2> HIDE DEF m
  <2>2. \A k \in 0..m : PathOf(c, l)[k].quote * PathOf(c, l)[k].token
                          <= c.quote * c.token + k * PathOf(c, l)[k].quote
    BY <1>3, <1>6, <2>1, PathBefore
  <2>3. PathOf(c, l)[m] = u
    BY <1>5 DEF m
  <2>4. u.quote * u.token <= c.quote * c.token + m * u.quote
    BY <2>1, <2>2, <2>3
  <2> QED BY <2>4 DEF m
<1>9. ASSUME NEW k \in 0..i - 1
      PROVE  PathOf(c, request)[k].quote <= u.quote /\ u.token <= PathOf(c, request)[k].token
  <2>1. k \in 0..Len(l) /\ n - 1 \in 0..Len(l) /\ k <= n - 1
    BY <1>2, <1>6
  <2>2. PathOf(c, l)[k].quote <= u.quote /\ u.token <= PathOf(c, l)[k].token
    BY <1>3, <1>5, <1>6, <2>1, PathMonotone
  <2> QED BY <1>6, <2>2
<1>10. w \in Nat /\ w <= u.token - ReservedTokens
  <2>1. Exempt \in Nat
    BY DEF Exempt
  <2> QED BY <1>1, <1>7, <2>1, BuySound DEF w, BuyExempt
<1>11. plan[i].minOut \in Nat /\ plan[i].minOut <= w - MaxRecipients
  <2>1. i \in DOMAIN plan
    <3>1. PICK r \in Requests : r = request /\ ~Refused(c, r) /\ plan = PlanBundle(c, r)
      BY DEF Planned
    <3>2. plan \in Seq(Buys)
      BY <1>3, <3>1, PlanType
    <3> QED BY <3>2
  <2>2. applyBps(applySlippageFloor(w, SlippageBps), SlippageBps) >= MaxRecipients
    BY <1>1, <2>1 DEF RoundingAbsorbed
  <2> QED BY <1>1, <1>2, <1>10, <2>2, FloorsLeave
<1>12. u.token \in Nat /\ ReservedTokens \in Nat
  BY <1>7, CurveAssumption DEF Reserves
<1>13. w > n - 1 /\ plan[i].minOut <= w - (n - 1) /\ u.token - ReservedTokens >= n
  BY <1>2, <1>10, <1>11, <1>12
<1> QED BY <1>1, <1>2, <1>7, <1>8, <1>9, <1>10, <1>11, <1>13 DEF u, w, line

\* A buy whose turn it is clears its floor, brings what was shown of it but for a unit for
\* each row before it, and puts no more into the curve than was planned.
LEMMA LandsWell ==
  ASSUME NEW c, Planned(c), Ahead(c), RoundingAbsorbed, SignedInOrder,
         DOMAIN tx = DOMAIN plan, NEW i \in DOMAIN plan, tx[i] = "pending"
  PROVE  LET a == plan[i].amountIn
             buy == BuyExempt(curve, a)
         IN /\ a \in Nat /\ Buyable(curve, a, Exempt)
            /\ MeetsFloor(buy, a, plan[i].minOut)
            /\ buy.tokensOut + (i - 1) >= plan[i].expectedOut
            /\ i < Len(plan) => curve.quote + buy.net <= PathOf(c, request)[i].quote
<1> DEFINE n == Len(plan)
           a == request[i].amountIn
           path == PathOf(c, request)
           u == PathOf(c, LastInLine(request, i))[n - 1]
           w == BuyExempt(u, a).tokensOut
           buy == BuyExempt(curve, a)
           k0 == c.quote * c.token
           q == curve.quote
           t == curve.token
           net == Net(a, Exempt)
<1>1. c \in Reserves /\ c.quote > 0 /\ DOMAIN plan = 1..n /\ i \in 1..n /\ n \in Nat
  <2>1. PICK r \in Requests : r = request /\ ~Refused(c, r) /\ plan = PlanBundle(c, r)
    BY DEF Planned
  <2>2. plan \in Seq(Buys)
    BY <2>1, PlanType DEF Planned
  <2> QED BY <2>2 DEF Planned
<1>2. /\ n = Len(request) /\ request \in Seq(Rows) /\ ~Throws(c, request)
      /\ a \in Nat /\ plan[i].amountIn = a
      /\ plan[i].expectedOut = BuyExempt(path[i - 1], a).tokensOut
  BY <1>1, PlanLines
<1>3. /\ u \in Reserves /\ Buyable(u, a, Exempt)
      /\ u.quote * u.token <= k0 + (n - 1) * u.quote
      /\ w \in Nat /\ w > n - 1 /\ plan[i].minOut \in Nat /\ plan[i].minOut <= w - (n - 1)
      /\ path[i - 1].quote <= u.quote
  <2>1. i - 1 \in 0..i - 1
    BY <1>1
  <2> QED BY <1>1, <2>1, RowMargin
<1>4. path \in [0..n -> Reserves]
  BY <1>1, <1>2, PathSteps
<1>5. curve \in Reserves /\ q \in Nat \ {0} /\ t \in Nat /\ q * t >= k0 /\ k0 \in Nat
  BY <1>1, Products DEF Ahead, Reserves
<1>6. q <= path[i - 1].quote
  <2>1. i - 1 \in 0..n - 1
    BY <1>1
  <2>2. \A j \in DOMAIN tx : j > i - 1 => tx[j] # "filled"
    <3> SUFFICES ASSUME NEW j \in DOMAIN tx, j > i - 1, tx[j] = "filled" PROVE FALSE
      OBVIOUS
    <3>1. j \in 1..n /\ j # i
      BY <1>1
    <3>2. i < j
      BY <1>1, <3>1
    <3> QED BY <3>2 DEF SignedInOrder
  <2> QED BY <2>1, <2>2 DEF Ahead
<1>7. path[i - 1] \in Reserves /\ path[i - 1].quote \in Nat /\ u.quote \in Nat
  <2>1. i - 1 \in 0..n
    BY <1>1
  <2>2. path[i - 1] \in Reserves
    BY <1>4, <2>1
  <2> QED BY <1>3, <2>2 DEF Reserves
<1> HIDE DEF path, u, w, k0, net
<1>8. Buyable(curve, a, Exempt) /\ buy.tokensOut \in Nat /\ w - (n - 1) <= buy.tokensOut
  <2>1. n - 1 \in Nat /\ curve.quote > 0 /\ curve.quote <= u.quote
    <3>1. n - 1 \in Nat
      BY ONLY <1>1
    <3>2. q > 0
      BY ONLY <1>5
    <3> DEFINE p == path[i - 1].quote
               e == u.quote
    <3>3. q \in Nat /\ p \in Nat /\ e \in Nat /\ q <= p /\ p <= e
      BY <1>3, <1>5, <1>6, <1>7
    <3> HIDE DEF q, p, e
    <3>4. q <= e
      BY ONLY <3>3
    <3> QED BY <3>1, <3>2, <3>4 DEF q, e
  <2> DEFINE m == n - 1
  <2>2. m \in Nat /\ u.quote * u.token <= k0 + m * u.quote /\ BuyExempt(u, a).tokensOut > m
    BY <1>3, <2>1 DEF w
  <2>3. k0 \in Nat /\ k0 <= curve.quote * curve.token
    <3>1. curve.quote * curve.token \in Int
      BY <1>5
    <3> QED BY <1>5, <3>1
  <2> HIDE DEF m, a
  <2>4. /\ Buyable(curve, a, Exempt) /\ BuyExempt(curve, a).tokensOut \in Nat
        /\ BuyExempt(u, a).tokensOut - m <= BuyExempt(curve, a).tokensOut
    BY <1>2, <1>3, <1>5, <2>1, <2>2, <2>3, NearlyAsPriced
  <2> QED BY <2>4 DEF m, w
<1>9. /\ buy.spent \in Nat /\ buy.spent <= a /\ buy.tokensOut <= t - ReservedTokens
  <2>1. Exempt \in Nat
    BY DEF Exempt
  <2> QED BY <1>2, <1>5, <1>8, <2>1, BuySound DEF BuyExempt
<1>10. MeetsFloor(buy, a, plan[i].minOut)
  <2> DEFINE out == buy.tokensOut
             spent == buy.spent
             floor == plan[i].minOut
  <2>1. out \in Nat /\ spent \in Nat /\ floor \in Nat /\ spent <= a /\ floor <= out /\ a \in Nat
    BY <1>1, <1>2, <1>3, <1>8, <1>9
  <2> HIDE DEF out, spent, floor, a
  <2>2. out * a >= floor * spent
    <3>1. floor * spent <= out * spent
      BY <2>1, Scales
    <3>2. spent * out <= a * out
      BY <2>1, Scales
    <3>3. /\ spent * out = out * spent /\ a * out = out * a
          /\ floor * spent \in Int /\ out * spent \in Int /\ out * a \in Int
      BY <2>1, Distributes
    <3> QED BY <3>1, <3>2, <3>3
  <2> QED BY <2>1, <2>2 DEF MeetsFloor, out, spent, floor
<1>11. buy.tokensOut + (i - 1) >= plan[i].expectedOut
  <2> DEFINE m == i - 1
             v == path[m]
             e == BuyExempt(v, a).tokensOut
  <2>1. m \in Nat /\ v \in Reserves /\ m \in 0..n - 1
    BY <1>1, <1>7
  <2>2. Buyable(v, a, Exempt)
    <3>1. i \in 1..Len(request)
      BY <1>1, <1>2
    <3> QED BY <1>1, <1>2, <3>1, PathSteps DEF path
  <2>3. v.quote * v.token <= k0 + m * v.quote
    <3> DEFINE l == n - 1
    <3>1. l \in Nat /\ Len(request) = l + 1 /\ m \in 0..l
      BY <1>1, <1>2
    <3> HIDE DEF l, m
    <3> QED BY <1>1, <1>2, <3>1, PathBefore DEF path, k0
  <2>4. e \in Nat
    <3>1. Exempt \in Nat
      BY DEF Exempt
    <3> HIDE DEF v
    <3> QED BY <1>2, <2>1, <2>2, <3>1, BuySound DEF BuyExempt
  <2>5. plan[i].expectedOut = e
    BY <1>2
  <2>6. curve.quote > 0 /\ curve.quote <= v.quote /\ k0 <= curve.quote * curve.token
    BY <1>5, <1>6
  <2> HIDE DEF v, m
  <2>7. CASE e > m
    <3>1. BuyExempt(v, a).tokensOut - m <= BuyExempt(curve, a).tokensOut
      <4> HIDE DEF a
      <4> QED BY <1>2, <1>5, <2>1, <2>2, <2>3, <2>6, <2>7, NearlyAsPriced
    <3>2. e - m <= buy.tokensOut
      BY <3>1
    <3> HIDE DEF e
    <3>3. buy.tokensOut + m >= e
      BY <1>8, <2>1, <2>4, <3>2
    <3> QED BY <2>5, <3>3 DEF m
  <2>8. CASE ~(e > m)
    <3> HIDE DEF e
    <3>1. buy.tokensOut + m >= e
      BY <1>8, <2>1, <2>4, <2>8
    <3> QED BY <2>5, <3>1 DEF m
  <2> QED BY <2>7, <2>8
<1>12. ASSUME i < n PROVE curve.quote + buy.net <= path[i].quote
  <2> DEFINE v == path[i]
             full == Unclamped(curve, a, Exempt)
  <2>1. v.quote = path[i - 1].quote + net /\ v.quote * v.token <= k0 + i * v.quote
    <3> DEFINE l == n - 1
    <3>1. l \in Nat /\ Len(request) = l + 1 /\ i \in 0..l /\ i \in 1..l
      BY <1>1, <1>2, <1>12
    <3> HIDE DEF l
    <3> QED BY <1>1, <1>2, <3>1, PathBefore DEF path, k0, net
  <2>2. v \in Reserves /\ v.quote \in Nat /\ v.token \in Nat
    BY <1>1, <1>4 DEF Reserves
  <2>3. v.token - ReservedTokens >= n
    <3> DEFINE x == PathOf(c, LastInLine(request, n))[n - 1].token
    <3>1. n \in 1..Len(plan) /\ i \in 0..n - 1
      BY <1>1, <1>12
    <3>2. x - ReservedTokens >= n /\ x <= v.token
      BY <3>1, RowMargin DEF path
    <3>3. x \in Nat
      <4>1. PathOf(c, LastInLine(request, n))[n - 1] \in Reserves
        BY <3>1, RowMargin
      <4> QED BY <4>1 DEF Reserves
    <3> HIDE DEF x, v
    <3> QED BY <1>1, <2>2, <3>2, <3>3, CurveAssumption
  <2>4. net \in Nat
    BY <1>2, <1>8, NetBounds DEF Buyable, Exempt, net
  <2>5. full \in Nat /\ full * (q + net) <= net * t /\ full <= t
    BY <1>5, <2>4, AmountOut DEF Unclamped, net
  <2> HIDE DEF v, full, q, t
  <2>6. full <= t - ReservedTokens
    <3> DEFINE s == v.quote
               left == t - full
               d == v.token
    <3>1. (q + net) * left >= q * t
      BY <1>5, <2>4, <2>5, ProductKept
    <3>2. q + net <= s /\ s \in Nat \ {0} /\ left \in Nat /\ q + net \in Nat
      BY <1>5, <1>6, <1>7, <2>1, <2>2, <2>4, <2>5 DEF q
    <3>3. s * d <= k0 + i * s /\ d \in Nat
      BY <2>1, <2>2
    <3> HIDE DEF s, left, d
    <3>4. (q + net) * left <= s * left
      BY <3>2, Scales
    <3>5. (d - i) * s <= left * s
      <4>1. (d - i) * s = s * d - i * s /\ left * s = s * left
        BY <1>1, <3>2, <3>3
      <4>2. /\ (q + net) * left \in Int /\ s * left \in Int /\ s * d \in Int /\ i * s \in Int
            /\ q * t \in Int
        BY <1>1, <1>5, <3>2, <3>3
      <4>3. k0 \in Int /\ k0 <= q * t
        BY <1>1, <1>5 DEF q, t
      <4> HIDE DEF net
      <4> DEFINE after == (q + net) * left
                 most == s * left
                 planned == s * d
                 lost == i * s
                 kept == q * t
      <4>4. /\ k0 <= kept /\ kept <= after /\ after <= most /\ planned <= k0 + lost
            /\ after \in Int /\ most \in Int /\ planned \in Int /\ lost \in Int /\ kept \in Int
        BY <3>1, <3>3, <3>4, <4>2, <4>3
      <4>5. (d - i) * s = planned - lost /\ left * s = most
        BY <4>1
      <4> HIDE DEF after, most, planned, lost, kept
      <4> QED BY <4>3, <4>4, <4>5
    <3>6. d - i <= left
      <4>1. d - i \in Int /\ left \in Int /\ s \in Nat \ {0}
        BY <1>1, <3>2, <3>3
      <4> QED BY ONLY <3>5, <4>1, Cancels
    <3>7. d - ReservedTokens >= n
      BY <2>3 DEF d
    <3>8. left >= ReservedTokens
      BY <1>1, <1>12, <3>2, <3>3, <3>6, <3>7, CurveAssumption
    <3> QED BY <1>5, <2>5, <3>8, CurveAssumption DEF left
  <2>7. full <= sellable(curve)
    <3>1. t = curve.token /\ t \in Nat
      BY <1>5 DEF t
    <3> QED BY <2>5, <2>6, <3>1, CurveAssumption DEF sellable
  <2>8. buy.net = net
    <3>1. sellable(curve) \in Nat
      <4>1. curve.token \in Nat
        BY <1>5 DEF t
      <4> QED BY <4>1, CurveAssumption DEF sellable
    <3>2. ~(full > sellable(curve))
      BY <2>5, <2>7, <3>1
    <3> QED BY <3>2 DEF BuyExempt, computeCurveBuy, full, net
  <2>9. q + net <= v.quote
    BY <1>5, <1>6, <1>7, <2>1, <2>2, <2>4 DEF q
  <2> QED BY <2>8, <2>9 DEF q, v
<1> QED BY <1>2, <1>8, <1>10, <1>11, <1>12 DEF path

\* Nothing is planned before a bundle is sent.
LEMMA InitFloors == Init => FloorInv
<1> SUFFICES ASSUME Init PROVE FloorInv
  OBVIOUS
<1>1. tx = << >> /\ plan = << >> /\ DOMAIN << >> = {}
  BY DEF Init
<1>2. SignedInOrder
  BY <1>1 DEF SignedInOrder
<1> QED BY <1>1, <1>2 DEF FloorInv

\* The plan is made on the curve of the moment, which is the first of its path.
LEMMA PlanFloors ==
  ASSUME ResultsInv, Inv, Plan
  PROVE  FloorInv'
<1>1. /\ curve' = curve /\ request' = request /\ plan' = PlanBundle(curve, request)
      /\ tx' = [i \in DOMAIN request |-> "none"] /\ at' = "block" /\ ~Refused(curve, request)
  BY DEF Plan
<1>2. curve \in Reserves /\ curve.quote > 0 /\ request \in Requests
  BY DEF Inv, CurveInv, AmountsInv
<1>3. \A i \in DOMAIN tx' : tx'[i] = "none"
  BY <1>1
<1>4. SignedInOrder'
  BY <1>3 DEF SignedInOrder
<1>5. PICK c : c = curve
  OBVIOUS
<1>6. Planned(c)'
  BY <1>1, <1>2, <1>5 DEF Planned
<1>7. Ahead(c)'
  <2>1. curve'.quote * curve'.token >= c.quote * c.token
    <3>1. c.quote * c.token \in Int
      BY <1>2, <1>5 DEF Reserves
    <3> QED BY <1>1, <1>5, <3>1
  <2>2. ASSUME NEW m \in 0..Len(plan') - 1
        PROVE  curve'.quote <= PathOf(c, request')[m].quote
    <3>1. Len(plan') = Len(request) /\ Len(request) \in 1..MaxRecipients
      BY <1>1, <1>2, PlanType
    <3>2. request \in Seq(Rows)
      <4>1. PICK l \in 1..MaxRecipients + 1 : request \in [1..l -> Rows]
        BY <1>2 DEF Requests
      <4> QED BY <4>1, BundleAssumption
    <3>3. ~Throws(c, request)
      BY <1>1, <1>5 DEF Refused
    <3>4. 0 \in 0..Len(request) /\ m \in 0..Len(request) /\ 0 <= m
      BY <3>1
    <3>5. PathOf(c, request)[0] = c
      BY <1>2, <1>5, <3>2, <3>3, PathSteps
    <3>6. PathOf(c, request)[0].quote <= PathOf(c, request)[m].quote
      BY <1>2, <1>5, <3>2, <3>3, <3>4, PathMonotone
    <3> QED BY <1>1, <1>5, <3>5, <3>6
  <2> QED BY <1>1, <1>2, <2>1, <2>2 DEF Ahead
<1> QED BY <1>3, <1>4, <1>6, <1>7 DEF FloorInv

\* A step that fills no buy and takes no tokens out keeps every floor within reach.
LEMMA FloorsKept ==
  ASSUME FloorInv, Inv, Inv', UNCHANGED <<request, plan, moved>>, SignedInOrder',
         curve'.quote <= curve.quote,
         curve'.quote * curve'.token >= curve.quote * curve.token,
         DOMAIN tx' = DOMAIN tx,
         \A j \in DOMAIN tx : /\ tx[j] = "filled" => tx'[j] = "filled"
                              /\ tx'[j] = "reverted" => tx[j] = "reverted"
  PROVE  FloorInv'
<1> SUFFICES ASSUME plan' # << >>, ~moved', RoundingAbsorbed'
             PROVE  /\ \A i \in DOMAIN tx' : tx'[i] # "reverted"
                    /\ \E c : Planned(c)' /\ Ahead(c)'
  BY DEF FloorInv
<1>1. RoundingAbsorbed /\ plan # << >> /\ ~moved
  BY DEF RoundingAbsorbed
<1>2. /\ \A i \in DOMAIN tx : tx[i] # "reverted"
      /\ \E c : Planned(c) /\ Ahead(c)
  BY <1>1 DEF FloorInv
<1>3. PICK c : Planned(c) /\ Ahead(c)
  BY <1>2
<1>4. Planned(c)'
  BY <1>3 DEF Planned
<1>5. Ahead(c)'
  <2>1. /\ curve \in Reserves /\ curve' \in Reserves /\ curve'.quote > 0 /\ c \in Reserves
        /\ curve.quote * curve.token >= c.quote * c.token
    BY <1>3 DEF Inv, CurveInv, Ahead, Planned
  <2>2. curve'.quote * curve'.token >= c.quote * c.token
    <3>1. /\ curve'.quote * curve'.token \in Int /\ curve.quote * curve.token \in Int
          /\ c.quote * c.token \in Int
      BY <2>1 DEF Reserves
    <3> QED BY <2>1, <3>1
  <2>3. ASSUME NEW m \in 0..Len(plan') - 1, \A j \in DOMAIN tx' : j > m => tx'[j] # "filled"
        PROVE  curve'.quote <= PathOf(c, request')[m].quote
    <3>1. m \in 0..Len(plan) - 1 /\ \A j \in DOMAIN tx : j > m => tx[j] # "filled"
      BY <2>3
    <3>2. curve.quote <= PathOf(c, request)[m].quote
      BY <1>3, <3>1 DEF Ahead
    <3>3. PathOf(c, request)[m].quote \in Nat
      <4>1. Planned(c) /\ c \in Reserves /\ request \in Requests /\ ~Refused(c, request)
            /\ plan = PlanBundle(c, request)
        BY <1>3 DEF Planned
      <4>2. Len(plan) = Len(request) /\ Len(request) \in 1..MaxRecipients
        BY <4>1, PlanType
      <4>3. request \in Seq(Rows)
        <5>1. PICK l \in 1..MaxRecipients + 1 : request \in [1..l -> Rows]
          BY <4>1 DEF Requests
        <5> QED BY <5>1, BundleAssumption
      <4>4. PathOf(c, request) \in [0..Len(request) -> Reserves] /\ m \in 0..Len(request)
        BY <3>1, <4>1, <4>2, <4>3, PathType
      <4> QED BY <4>4 DEF Reserves
    <3>4. curve.quote \in Nat /\ curve'.quote \in Nat
      BY <2>1 DEF Reserves
    <3>5. PathOf(c, request') = PathOf(c, request)
      OBVIOUS
    <3> QED BY <3>2, <3>3, <3>4, <3>5
  <2> QED BY <2>1, <2>2, <2>3 DEF Ahead
<1>6. \A i \in DOMAIN tx' : tx'[i] # "reverted"
  BY <1>2
<1> QED BY <1>4, <1>5, <1>6

\* What a step of the panel leaves alone.
LEMMA PanelFloors ==
  ASSUME FloorInv, Inv, Inv', UNCHANGED <<request, plan, moved, curve, tx>>, SignedInOrder'
  PROVE  FloorInv'
<1>1. curve \in Reserves
  BY DEF Inv, CurveInv
<1>2. curve'.quote <= curve.quote /\ curve'.quote * curve'.token >= curve.quote * curve.token
  <2>1. curve.quote \in Int /\ curve.quote * curve.token \in Int
    BY <1>1 DEF Reserves
  <2> QED BY <2>1
<1> QED BY <1>2, FloorsKept

\* The wallet signs the next buy, behind all that were signed before.
LEMMA WalletFloors ==
  ASSUME FloorInv, ResultsInv, Inv, Inv', Wallet
  PROVE  FloorInv'
<1>1. at = "send" /\ next \in DOMAIN plan /\ next \in Nat /\ DOMAIN plan = 1..Len(plan)
      /\ tx \in [DOMAIN plan -> {"none", "pending", "filled", "reverted"}]
  <2>1. at = "send"
    BY DEF Wallet, Send, Declined, AnswerLost
  <2> QED BY <2>1 DEF ResultsInv, TypeOK, LoopsFit
<1>2. /\ tx' = tx \/ tx' = [tx EXCEPT ![next] = "pending"]
      /\ UNCHANGED <<request, plan, curve, moved>>
      /\ \/ at' = "await"
         \/ at' = at /\ next' = next + 1
  BY DEF Wallet, Send, Declined, AnswerLost, Signed
<1>3. /\ \A j \in DOMAIN tx : j >= next => tx[j] = "none"
      /\ \A i, j \in DOMAIN tx : i < j /\ tx[j] \in {"filled", "reverted"} => tx[i] # "pending"
  BY <1>1 DEF FloorInv, SignedInOrder
<1>4. /\ DOMAIN tx' = DOMAIN tx
      /\ \A j \in DOMAIN tx : j # next => tx'[j] = tx[j]
      /\ tx[next] = "none" /\ tx'[next] \in {"none", "pending"}
  BY <1>1, <1>2, <1>3
<1>5. SignedInOrder'
  <2>1. ASSUME at' \in {"block", "send"}, NEW j \in DOMAIN tx', j >= next'
        PROVE  tx'[j] = "none"
    <3>1. next' = next + 1 /\ j \in Nat
      BY <1>1, <1>2, <1>4, <2>1
    <3>2. j >= next /\ j # next
      BY <1>1, <2>1, <3>1
    <3> QED BY <1>3, <1>4, <3>2
  <2>2. ASSUME NEW i \in DOMAIN tx', NEW j \in DOMAIN tx', i < j, tx'[j] \in {"filled", "reverted"}
        PROVE  tx'[i] # "pending"
    <3>1. j # next /\ tx[j] \in {"filled", "reverted"}
      BY <1>4, <2>2
    <3>2. ~(j >= next) /\ i \in Nat /\ j \in Nat
      BY <1>1, <1>3, <1>4, <3>1
    <3>3. i # next
      BY <1>1, <2>2, <3>2
    <3> QED BY <1>3, <1>4, <2>2, <3>1, <3>3
  <2> QED BY <2>1, <2>2 DEF SignedInOrder
<1>6. \A j \in DOMAIN tx : /\ tx[j] = "filled" => tx'[j] = "filled"
                           /\ tx'[j] = "reverted" => tx[j] = "reverted"
  BY <1>4
<1>7. curve'.quote <= curve.quote /\ curve'.quote * curve'.token >= curve.quote * curve.token
  <2>1. curve.quote \in Int /\ curve.quote * curve.token \in Int
    BY DEF Inv, CurveInv, Reserves
  <2> QED BY <1>2, <2>1
<1> QED BY <1>2, <1>4, <1>5, <1>6, <1>7, FloorsKept

\* A buy lands.
LEMMA LandFloors ==
  ASSUME FloorInv, ResultsInv, Inv, Inv', NEW i \in DOMAIN tx, Lands(i)
  PROVE  FloorInv'
<1>1. /\ UNCHANGED <<request, at, plan, next, moved>>
      /\ tx[i] = "pending" /\ \A j \in 1..i - 1 : tx[j] # "pending"
      /\ tx' = [tx EXCEPT ![i] = "filled"] \/ tx' = [tx EXCEPT ![i] = "reverted"]
  BY DEF Lands, formVars
<1>2. /\ tx \in [DOMAIN plan -> {"none", "pending", "filled", "reverted"}]
      /\ DOMAIN plan = 1..Len(plan) /\ Len(plan) \in Nat /\ next \in Nat
  BY DEF ResultsInv, TypeOK
<1>3. /\ DOMAIN tx' = DOMAIN tx /\ tx'[i] \in {"filled", "reverted"}
      /\ \A j \in DOMAIN tx : j # i => tx'[j] = tx[j]
  BY <1>1, <1>2
<1>4. SignedInOrder'
  <2>1. ASSUME at' \in {"block", "send"}, NEW j \in DOMAIN tx', j >= next'
        PROVE  tx'[j] = "none"
    <3>1. tx[j] = "none"
      BY <1>1, <1>3, <2>1 DEF FloorInv, SignedInOrder
    <3> QED BY <1>1, <1>3, <3>1
  <2>2. ASSUME NEW k \in DOMAIN tx', NEW j \in DOMAIN tx', k < j, tx'[j] \in {"filled", "reverted"}
        PROVE  tx'[k] # "pending"
    <3>1. CASE j = i
      <4>1. k \in 1..i - 1 /\ k # i
        BY <1>2, <1>3, <2>2, <3>1
      <4> QED BY <1>1, <1>3, <4>1
    <3>2. CASE j # i
      <4>1. tx[k] # "pending"
        BY <1>3, <2>2, <3>2 DEF FloorInv, SignedInOrder
      <4> QED BY <1>3, <4>1
    <3> QED BY <3>1, <3>2
  <2> QED BY <2>1, <2>2 DEF SignedInOrder
<1> SUFFICES ASSUME plan' # << >>, ~moved', RoundingAbsorbed'
             PROVE  /\ \A j \in DOMAIN tx' : tx'[j] # "reverted"
                    /\ \E c : Planned(c)' /\ Ahead(c)'
  BY <1>4 DEF FloorInv
<1>5. RoundingAbsorbed /\ plan # << >> /\ ~moved
  BY <1>1 DEF RoundingAbsorbed
<1>6. /\ \A j \in DOMAIN tx : tx[j] # "reverted"
      /\ \E c : Planned(c) /\ Ahead(c)
      /\ SignedInOrder
  BY <1>5 DEF FloorInv
<1>7. PICK c : Planned(c) /\ Ahead(c)
  BY <1>6
<1> DEFINE a == plan[i].amountIn
           buy == BuyExempt(curve, a)
<1>8. /\ a \in Nat /\ Buyable(curve, a, Exempt) /\ MeetsFloor(buy, a, plan[i].minOut)
      /\ i < Len(plan) => curve.quote + buy.net <= PathOf(c, request)[i].quote
  <2>1. DOMAIN tx = DOMAIN plan /\ i \in DOMAIN plan
    BY <1>2
  <2> QED BY <1>1, <1>5, <1>6, <1>7, <2>1, LandsWell
<1> HIDE DEF a
<1>9. curve' = AfterBuy(curve, buy) /\ tx' = [tx EXCEPT ![i] = "filled"]
  BY <1>8 DEF Lands, a
<1>10. \A j \in DOMAIN tx' : tx'[j] # "reverted"
  BY <1>2, <1>3, <1>6, <1>9
<1>11. Planned(c)'
  BY <1>1, <1>7 DEF Planned
<1>12. Ahead(c)'
  <2>1. /\ curve \in Reserves /\ c \in Reserves /\ curve' \in Reserves /\ curve'.quote > 0
        /\ curve.quote * curve.token >= c.quote * c.token
    BY <1>7 DEF Ahead, Planned, Inv, CurveInv
  <2>2. curve'.quote * curve'.token >= c.quote * c.token
    <3>1. curve'.quote * curve'.token >= curve.quote * curve.token
      BY <1>8, <1>9, <2>1, BuyMoves
    <3>2. /\ curve'.quote * curve'.token \in Int /\ curve.quote * curve.token \in Int
          /\ c.quote * c.token \in Int
      BY <2>1 DEF Reserves
    <3> QED BY <2>1, <3>1, <3>2
  <2>3. ASSUME NEW m \in 0..Len(plan') - 1, \A j \in DOMAIN tx' : j > m => tx'[j] # "filled"
        PROVE  curve'.quote <= PathOf(c, request')[m].quote
    <3>1. ~(i > m)
      <4>1. tx'[i] = "filled" /\ i \in DOMAIN tx'
        BY <1>2, <1>9
      <4> QED BY <2>3, <4>1
    <3>2. i \in Nat /\ i \in 1..Len(plan) /\ m \in Nat /\ m <= Len(plan) - 1 /\ i <= m /\ i < Len(plan)
      BY <1>1, <1>2, <3>1
    <3>3. curve'.quote <= PathOf(c, request)[i].quote
      BY <1>8, <1>9, <3>2 DEF AfterBuy
    <3>4. /\ c \in Reserves /\ request \in Seq(Rows) /\ ~Throws(c, request)
          /\ Len(request) = Len(plan)
      <4>1. i \in 1..Len(plan)
        BY <3>2
      <4> QED BY <1>7, <2>1, <4>1, PlanLines
    <3>5. i \in 0..Len(request) /\ m \in 0..Len(request)
      BY <1>2, <3>2, <3>4
    <3>6. PathOf(c, request)[i].quote <= PathOf(c, request)[m].quote
      BY <3>2, <3>4, <3>5, PathMonotone
    <3>7. /\ PathOf(c, request)[i].quote \in Nat /\ PathOf(c, request)[m].quote \in Nat
          /\ curve'.quote \in Nat
      <4>1. PathOf(c, request) \in [0..Len(request) -> Reserves]
        BY <3>4, PathType
      <4> QED BY <2>1, <3>5, <4>1 DEF Reserves
    <3>8. PathOf(c, request') = PathOf(c, request)
      BY <1>1
    <3> QED BY <3>3, <3>6, <3>7, <3>8
  <2> QED BY <2>1, <2>2, <2>3 DEF Ahead
<1> QED BY <1>10, <1>11, <1>12

\* Every step keeps every floor within reach of the buys that are still to land.
LEMMA NextFloors == FloorInv /\ ResultsInv /\ Inv /\ Inv' /\ [Next]_vars => FloorInv'
<1> SUFFICES ASSUME FloorInv, ResultsInv, Inv, Inv', [Next]_vars PROVE FloorInv'
  OBVIOUS
<1>1. CASE CodeSeen \/ PlanRefused \/ GiveUp \/ BlockRead \/ Await
  <2>1. /\ UNCHANGED <<request, plan, moved, curve, tx>>
        /\ at' \in {"block", "send"} => at \in {"block", "send"} /\ next' = next
    BY <1>1 DEF CodeSeen, PlanRefused, GiveUp, BlockRead, Stop, Await, Unsent, Receipt,
                ReceiptLost, Show, chainVars
  <2>2. SignedInOrder'
    BY <2>1 DEF FloorInv, SignedInOrder
  <2> QED BY <2>1, <2>2, PanelFloors
<1>2. ASSUME NEW amount \in Amounts, NEW snipe \in SnipeTaxes, StrangerBuys(amount, snipe)
      PROVE  FloorInv'
  <2>1. /\ UNCHANGED <<request, at, plan, next, tx>> /\ moved' = (plan # << >>)
    BY <1>2 DEF StrangerBuys, formVars
  <2>2. SignedInOrder'
    BY <2>1 DEF FloorInv, SignedInOrder
  <2> QED BY <2>1, <2>2 DEF FloorInv
<1>3. ASSUME NEW tokens \in {Outside, Outside \div 2} \ {0}, StrangerSells(tokens)
      PROVE  FloorInv'
  <2>1. /\ UNCHANGED <<request, at, plan, next, tx, moved>>
        /\ curve' = AfterSell(curve, tokens) /\ sellable(curve) > 0
    BY <1>3 DEF StrangerSells, formVars
  <2>2. SignedInOrder'
    BY <2>1 DEF FloorInv, SignedInOrder
  <2>3. tokens \in Nat
    BY CurveAssumption, BundleAssumption DEF Inv, CurveInv, Reserves, Outside
  <2>4. curve.token > 0 /\ curve.quote > 0 /\ curve \in Reserves
    BY <2>1, CurveAssumption DEF Inv, CurveInv, Reserves, sellable
  <2>5. curve'.quote * curve'.token >= curve.quote * curve.token
    BY <2>1, <2>3, <2>4, SellSound
  <2>6. curve'.quote <= curve.quote
    <3>1. curve.token \in Nat \ {0} /\ curve.quote \in Nat
      BY <2>4 DEF Reserves
    <3>2. grossQuoteOut(curve, tokens) \in Nat
      BY <2>3, <3>1, AmountOut DEF grossQuoteOut
    <3>3. curve'.quote = curve.quote - grossQuoteOut(curve, tokens)
      BY <2>1 DEF AfterSell
    <3> QED BY <3>1, <3>2, <3>3
  <2> QED BY <2>1, <2>2, <2>5, <2>6, FloorsKept
<1>4. CASE UNCHANGED vars
  <2>1. UNCHANGED <<request, plan, moved, curve, tx, at, next>>
    BY <1>4 DEF vars, formVars, chainVars
  <2>2. SignedInOrder'
    BY <2>1 DEF FloorInv, SignedInOrder
  <2> QED BY <2>1, <2>2, PanelFloors
<1> QED BY <1>1, <1>2, <1>3, <1>4, PlanFloors, WalletFloors, LandFloors DEF Next

-----------------------------------------------------------------------------
(* The theorems.                                                           *)

\* A curve is never worth less than what was put in, its reserved tokens stay, and
\* all that was sold could be sold back: for every fee below 100 %, every size of
\* trade and every order of a bundle's buys and strangers' trades.
THEOREM Solvent == Spec => []CurveSolvent
<1>1. Inv => CurveSolvent
  <2> SUFFICES ASSUME Inv PROVE CurveSolvent
    OBVIOUS
  <2> DEFINE q == curve.quote
             t == curve.token
             back == grossQuoteOut(curve, Outside)
  <2>1. /\ q \in Nat \ {0} /\ t \in Nat /\ t >= ReservedTokens /\ t <= Supply
        /\ q * t >= PhantomQuote * Supply
    BY DEF Inv, CurveInv, Reserves
  <2>2. Supply \in Nat \ {0} /\ PhantomQuote \in Nat
    BY BundleAssumption, CurveAssumption
  <2>3. back = (Outside * q) \div Supply
    <3>1. t + Outside = Supply
      BY <2>1, <2>2 DEF Outside
    <3> QED BY <3>1 DEF grossQuoteOut, getAmountOut
  <2>4. back \in Nat /\ back * Supply <= (Supply - t) * q
    <3>1. Outside = Supply - t /\ Supply - t \in Nat
      BY <2>1, <2>2 DEF Outside
    <3>2. (Supply - t) * q \in Nat
      BY <2>1, <3>1, Products
    <3> QED BY <2>2, <2>3, <3>1, <3>2, Floor
  <2> HIDE DEF q, t, back
  <2>5. back * Supply <= (q - PhantomQuote) * Supply
    <3>1. /\ (Supply - t) * q = q * Supply - q * t
          /\ (q - PhantomQuote) * Supply = q * Supply - PhantomQuote * Supply
      BY <2>1, <2>2
    <3>2. /\ q * Supply \in Int /\ q * t \in Int /\ PhantomQuote * Supply \in Int
          /\ back * Supply \in Int
      BY <2>1, <2>2, <2>4
    <3> QED BY <2>1, <2>4, <3>1, <3>2
  <2>6. back <= q - PhantomQuote
    BY <2>1, <2>2, <2>4, <2>5, Cancels
  <2> QED BY <2>1, <2>6 DEF CurveSolvent, q, t, back
<1> QED BY <1>1, InitInv, NextInv, PTL DEF Spec

\* Buying and selling back at once never returns more than the curve was paid, in any
\* state a bundle and its strangers can bring the curve to.
THEOREM RoundTrip == Spec => []RoundTripNeverPays
<1>1. Inv => RoundTripNeverPays
  <2> SUFFICES ASSUME Inv, NEW quoteIn \in Amounts, NEW snipe \in SnipeTaxes,
                      Buyable(curve, quoteIn, snipe)
               PROVE  LET buy == computeCurveBuy(curve, quoteIn, snipe) IN
                      /\ buy.spent <= quoteIn
                      /\ buy.tokensOut > 0 =>
                           computeCurveSell(AfterBuy(curve, buy), buy.tokensOut) <= buy.net
    BY DEF RoundTripNeverPays
  <2> DEFINE q == curve.quote
             t == curve.token
             buy == computeCurveBuy(curve, quoteIn, snipe)
             out == buy.tokensOut
             net == buy.net
             after == AfterBuy(curve, buy)
             gross == grossQuoteOut(after, out)
  <2>1. q \in Nat \ {0} /\ t \in Nat
    BY DEF Inv, CurveInv, Reserves
  <2>2. /\ out \in Nat /\ net \in Nat /\ out * (q + net) <= net * t
        /\ buy.spent <= quoteIn /\ out <= t - ReservedTokens
    BY BuySound, BundleAssumption DEF Inv, CurveInv
  <2>3. ASSUME out > 0 PROVE computeCurveSell(after, out) <= net
    <3>1. after.quote = q + net /\ after.token = t - out
      BY DEF AfterBuy
    <3> HIDE DEF after, out, net, q, t, buy
    <3>2. t \in Nat \ {0} /\ (t - out) + out = t
      BY <2>1, <2>2, <2>3, CurveAssumption
    <3>3. gross = (out * (q + net)) \div t
      BY <3>1, <3>2 DEF grossQuoteOut, getAmountOut
    <3>4. gross \in Nat /\ gross * t <= net * t
      <4>1. out * (q + net) \in Nat /\ net * t \in Nat
        BY <2>1, <2>2, <3>2, Products
      <4>2. gross \in Nat /\ gross * t <= out * (q + net)
        BY <4>1, <3>2, <3>3, Floor
      <4> QED BY <4>1, <4>2, <2>2, <3>2, Products
    <3> HIDE DEF gross
    <3>5. gross <= net
      BY <2>2, <3>2, <3>4, Cancels
    <3>6. applyBps(gross, FeeBps) \in Nat /\ applyBps(gross, CreatorTaxBps) \in Nat
      BY <3>4, CurveAssumption, Floor, Products DEF applyBps
    <3>7. computeCurveSell(after, out)
            = gross - applyBps(gross, FeeBps) - applyBps(gross, CreatorTaxBps)
      BY DEF computeCurveSell, gross
    <3> QED BY <2>2, <3>4, <3>5, <3>6, <3>7
  <2> QED BY <2>2, <2>3
<1> QED BY <1>1, InitInv, NextInv, PTL DEF Spec

\* The plan and everything the form and the chain keep of it have their types: in
\* particular planBundle's loops are defined, and no floor is negative, for every list.
THEOREM BundleTyped == Spec => []TypeOK
<1>1. ResultsInv => TypeOK
  BY DEF ResultsInv
<1> QED BY <1>1, InitInv, NextInv, InitResults, NextResults, PTL DEF Spec

\* What the user is told of a buy is what became of that buy, however signatures,
\* receipts, lost answers and the chain interleave, and at the end every planned buy
\* has been told of (runBundle's two loops over one list).
THEOREM ResultsTold == Spec => []ResultsMatchChain
<1>1. ResultsInv => ResultsMatchChain
  BY DEF ResultsInv, ShownIsSo, LoopsFit, ResultsMatchChain
<1> QED BY <1>1, InitInv, NextInv, InitResults, NextResults, PTL DEF Spec

\* Unless a stranger bought in between, no buy of a bundle reverts, whichever of the
\* others were declined, lost or landed before it, for every list, every curve and
\* every fee: provided that what the tolerance takes off a floor is at least a unit for
\* each row a bundle may have (worstCaseFloors).
THEOREM OwnFloorsCleared == Spec => [](RoundingAbsorbed => ClearsOwnFloors)
<1>1. FloorInv /\ ResultsInv => (RoundingAbsorbed => ClearsOwnFloors)
  <2> SUFFICES ASSUME FloorInv, ResultsInv, RoundingAbsorbed, ~moved, NEW i \in DOMAIN tx
               PROVE  tx[i] # "reverted"
    BY DEF ClearsOwnFloors
  <2>1. plan # << >>
    BY DEF ResultsInv, TypeOK
  <2> QED BY <2>1 DEF FloorInv
<1> QED BY <1>1, InitInv, NextInv, InitResults, NextResults, InitFloors, NextFloors, PTL DEF Spec

\* Unless a stranger bought in between, a buy is filled with what was shown for it, but
\* for a unit for each row before it in the list (expectedOut, priced in that order).
THEOREM FilledNearlyAsShown ==
  Spec => [][\A i \in DOMAIN tx :
               tx[i] = "pending" /\ tx'[i] = "filled" /\ ~moved /\ RoundingAbsorbed =>
                 curve.token - curve'.token + (i - 1) >= plan[i].expectedOut]_vars
<1> DEFINE Near == \A i \in DOMAIN tx :
                     tx[i] = "pending" /\ tx'[i] = "filled" /\ ~moved /\ RoundingAbsorbed =>
                       curve.token - curve'.token + (i - 1) >= plan[i].expectedOut
<1>1. FloorInv /\ ResultsInv /\ Inv /\ [Next]_vars => [Near]_vars
  <2> SUFFICES ASSUME FloorInv, ResultsInv, Inv, Next, NEW i \in DOMAIN tx,
                      tx[i] = "pending", tx'[i] = "filled", ~moved, RoundingAbsorbed
               PROVE  curve.token - curve'.token + (i - 1) >= plan[i].expectedOut
    OBVIOUS
  <2>1. /\ tx \in [DOMAIN plan -> {"none", "pending", "filled", "reverted"}]
        /\ DOMAIN plan = 1..Len(plan)
    BY DEF ResultsInv, TypeOK
  <2>2. plan # << >> /\ i \in DOMAIN plan /\ DOMAIN tx = DOMAIN plan
    BY <2>1
  <2>3. Lands(i)
    <3>1. PICK j \in DOMAIN tx : Lands(j)
      <4>1. tx' # tx /\ ~Plan
        <5>1. ~Plan
          BY <2>2 DEF Plan, ResultsInv, LoopsFit
        <5> QED BY <5>1
      <4>2. ~Wallet
        <5>1. Wallet => tx' = tx \/ tx' = [tx EXCEPT ![next] = "pending"]
          BY DEF Wallet, Send, Declined, AnswerLost
        <5> QED BY <2>1, <5>1
      <4> QED BY <4>1, <4>2 DEF Next, CodeSeen, PlanRefused, GiveUp, BlockRead, Stop, Await,
                 Unsent, Receipt, ReceiptLost, Show, chainVars, StrangerBuys, StrangerSells
    <3>2. j = i
      BY <2>1, <3>1 DEF Lands
    <3> QED BY <3>1, <3>2
  <2>4. PICK c : Planned(c) /\ Ahead(c)
    BY <2>2 DEF FloorInv
  <2> DEFINE a == plan[i].amountIn
             buy == BuyExempt(curve, a)
  <2>5. /\ a \in Nat /\ Buyable(curve, a, Exempt) /\ MeetsFloor(buy, a, plan[i].minOut)
        /\ buy.tokensOut + (i - 1) >= plan[i].expectedOut
    BY <2>2, <2>4, LandsWell DEF FloorInv
  <2>6. curve'.token = curve.token - buy.tokensOut
    <3>1. curve' = AfterBuy(curve, buy)
      BY <2>3, <2>5 DEF Lands
    <3> QED BY <3>1 DEF AfterBuy
  <2>7. buy.tokensOut \in Nat /\ curve.token \in Nat
    <3>1. Exempt \in Nat /\ curve \in Reserves
      BY DEF Exempt, Inv, CurveInv
    <3> HIDE DEF a
    <3> QED BY <2>5, <3>1, BuySound DEF BuyExempt, Reserves
  <2> HIDE DEF a, buy
  <2>8. curve.token - curve'.token = buy.tokensOut
    BY <2>6, <2>7
  <2> QED BY <2>5, <2>8
<1> QED BY <1>1, InitInv, NextInv, InitResults, NextResults, InitFloors, NextFloors, PTL DEF Spec

-----------------------------------------------------------------------------
(* Quotes: what prepareTrade promises of one trade on the same curve, for  *)
(* every tax schedule and clock.  The curve is the same; what Quotes says  *)
(* of its own constants is assumed where it is used.                       *)

\* The powers of two count the subsets of 1..n.
LEMMA PowerCounts ==
  ASSUME NEW n \in Nat
  PROVE  /\ IsFiniteSet(SUBSET (1..n)) /\ Cardinality(SUBSET (1..n)) = 2 ^ n
         /\ 2 ^ n \in Nat \ {0}
<1>1. IsFiniteSet(1..n) /\ Cardinality(1..n) = n
  BY FS_Interval
<1>2. IsFiniteSet(SUBSET (1..n)) /\ Cardinality(SUBSET (1..n)) = 2 ^ n
  BY <1>1, FS_SUBSET
<1>3. {} \in SUBSET (1..n)
  OBVIOUS
<1>4. Cardinality(SUBSET (1..n)) \in Nat /\ Cardinality(SUBSET (1..n)) # 0
  BY <1>2, <1>3, FS_CardinalityType, FS_EmptySet
<1> QED
  BY <1>2, <1>4

LEMMA PowerDoubles ==
  ASSUME NEW n \in Nat, NEW m \in Nat, n < m
  PROVE  2 * (2 ^ n) <= 2 ^ m
<1> DEFINE P == SUBSET (1..n)
           R == {A \union {m} : A \in P}
           f == [A \in P |-> A \union {m}]
           W == SUBSET (1..m)
<1>1. /\ IsFiniteSet(P) /\ Cardinality(P) = 2 ^ n /\ 2 ^ n \in Nat
      /\ IsFiniteSet(W) /\ Cardinality(W) = 2 ^ m /\ 2 ^ m \in Nat
  BY PowerCounts
<1>2. \A A \in P : m \notin A
  OBVIOUS
<1>3. f \in [P -> R] /\ \A r \in R : \E A \in P : f[A] = r
  OBVIOUS
<1>4. \A A, B \in P : f[A] = f[B] => A = B
  <2> SUFFICES ASSUME NEW A \in P, NEW B \in P, A \union {m} = B \union {m}
               PROVE  A = B
    OBVIOUS
  <2> QED
    BY <1>2
<1>5. P \subseteq W /\ R \subseteq W /\ P \cap R = {}
  <2>1. 1..n \subseteq 1..m /\ m \in 1..m
    OBVIOUS
  <2> QED
    BY <1>2, <2>1
<1> HIDE DEF P, R, f, W
<1>6. f \in Bijection(P, R)
  BY <1>3, <1>4 DEF Bijection, Injection, Surjection, IsInjective
<1>7. IsFiniteSet(R) /\ Cardinality(R) = 2 ^ n
  BY <1>1, <1>6, FS_Bijection DEF ExistsBijection
<1>8. Cardinality(P \union R) = 2 ^ n + 2 ^ n
  <2>1. Cardinality(P \union R) = Cardinality(P) + Cardinality(R) - Cardinality(P \cap R)
    BY <1>1, <1>7, FS_Union
  <2>2. Cardinality(P \cap R) = 0
    BY <1>5, FS_EmptySet
  <2> QED
    BY <1>1, <1>7, <2>1, <2>2
<1>9. Cardinality(P \union R) <= Cardinality(W)
  BY <1>1, <1>5, FS_Subset
<1> QED
  BY <1>1, <1>8, <1>9

\* The tax is never negative, and from one second to the next it stays or at least halves
\* (computeSnipeTaxBps in snipe-tax.ts shifts by whole bits).
LEMMA TaxFalls ==
  ASSUME QuotesAssumption, NEW t \in Nat, NEW exempt
  PROVE  LET before == computeSnipeTaxBps(t, exempt)
             after == computeSnipeTaxBps(t + 1, exempt)
         IN /\ before \in 0..StartBps /\ after \in 0..StartBps
            /\ after = before \/ 2 * after <= before
<1> DEFINE Shift(u) == (u * SHIFT_STEPS) \div WindowSeconds
           tax(u) == computeSnipeTaxBps(u, exempt)
<1>1. StartBps \in Nat /\ SHIFT_STEPS \in Nat /\ WindowSeconds \in Nat \ {0}
  BY CurveAssumption DEF QuotesAssumption
<1>2. ASSUME NEW u \in Nat
      PROVE  /\ Shift(u) \in Nat /\ 2 ^ Shift(u) \in Nat \ {0}
             /\ tax(u) = IF exempt \/ u >= WindowSeconds THEN 0 ELSE StartBps \div 2 ^ Shift(u)
             /\ tax(u) \in 0..StartBps
  <2>1. u * SHIFT_STEPS \in Nat
    BY <1>1, Products
  <2>2. Shift(u) \in Nat
    BY <1>1, <2>1, Floor
  <2>3. tax(u) = IF exempt \/ u >= WindowSeconds THEN 0 ELSE StartBps \div 2 ^ Shift(u)
    BY DEF computeSnipeTaxBps
  <2> HIDE DEF Shift, tax
  <2>4. 2 ^ Shift(u) \in Nat \ {0}
    BY <2>2, PowerCounts
  <2> DEFINE d == 2 ^ Shift(u)
             x == StartBps \div d
  <2>5. x \in Nat /\ x * d <= StartBps
    BY <1>1, <2>4, Floor
  <2> HIDE DEF d
  <2>6. d \in Nat \ {0}
    BY <2>4 DEF d
  <2> HIDE DEF x
  <2>7. x <= x * d
    BY <2>5, <2>6
  <2>8. x \in 0..StartBps
    BY <1>1, <2>5, <2>6, <2>7
  <2> QED
    BY <1>1, <2>2, <2>3, <2>4, <2>8 DEF x, d
<1> HIDE DEF tax
<1>3. Shift(t) <= Shift(t + 1)
  <2>1. t * SHIFT_STEPS \in Nat /\ (t + 1) * SHIFT_STEPS \in Nat
        /\ (t + 1) * SHIFT_STEPS = t * SHIFT_STEPS + SHIFT_STEPS
    BY <1>1
  <2>2. Shift(t) * WindowSeconds <= t * SHIFT_STEPS /\ Shift(t) \in Nat
    BY <1>1, <2>1, Floor
  <2> DEFINE s == Shift(t)
             n == (t + 1) * SHIFT_STEPS
  <2>3. s * WindowSeconds <= n /\ n \in Nat
    BY <1>1, <2>1, <2>2
  <2>4. s <= n \div WindowSeconds
    <3>1. s \in Int
      BY <2>2
    <3> HIDE DEF s, n
    <3> QED
      BY <1>1, <2>3, <3>1, FloorMost
  <2> QED
    BY <2>4
<1>4. /\ tax(t) \in 0..StartBps /\ tax(t + 1) \in 0..StartBps
      /\ Shift(t) \in Nat /\ Shift(t + 1) \in Nat
  <2>1. t + 1 \in Nat
    OBVIOUS
  <2> HIDE DEF Shift
  <2> QED
    BY <1>2, <2>1
<1>5. CASE exempt \/ t + 1 >= WindowSeconds
  <2>1. tax(t + 1) = 0
    BY <1>2, <1>5
  <2>2. 2 * tax(t + 1) <= tax(t)
    BY <1>1, <1>4, <2>1
  <2> QED
    BY <1>4, <2>2 DEF tax
<1>6. CASE ~exempt /\ ~(t + 1 >= WindowSeconds)
  <2>1. /\ tax(t) = StartBps \div 2 ^ Shift(t)
        /\ tax(t + 1) = StartBps \div 2 ^ Shift(t + 1)
    BY <1>1, <1>2, <1>6
  <2> HIDE DEF Shift
  <2>2. CASE Shift(t) = Shift(t + 1)
    BY <1>4, <2>1, <2>2 DEF tax
  <2>3. CASE Shift(t) < Shift(t + 1)
    <3> DEFINE d == 2 ^ Shift(t)
               e == 2 ^ Shift(t + 1)
               y == tax(t + 1)
    <3>1. 2 * d <= e /\ d \in Nat \ {0} /\ e \in Nat \ {0}
      BY <1>4, <2>3, PowerDoubles, PowerCounts
    <3> HIDE DEF d, e
    <3>2. y \in Nat /\ y * e <= StartBps
      BY <1>1, <2>1, <3>1, Floor DEF e
    <3>3. (2 * y) * d <= StartBps
      <4> HIDE DEF y
      <4>1. (2 * d) * y <= e * y
        BY <3>1, <3>2, Scales
      <4>2. (2 * y) * d = (2 * d) * y /\ e * y = y * e
        BY <3>1, <3>2
      <4>3. (2 * d) * y \in Int /\ e * y \in Int
        BY <3>1, <3>2
      <4> QED
        BY <1>1, <3>2, <4>1, <4>2, <4>3
    <3>4. 2 * y <= StartBps \div d
      <4> HIDE DEF y
      <4> QED
        BY <1>1, <3>1, <3>2, <3>3, FloorMost
    <3> QED
      BY <1>4, <2>1, <3>4 DEF tax, d, y
  <2> QED
    BY <1>3, <1>4, <2>2, <2>3
<1> QED
  BY <1>5, <1>6

LEMMA TaxTyped ==
  ASSUME QuotesAssumption, time \in Nat
  PROVE  TaxNow \in 0..StartBps /\ TaxNow \in Nat /\ StartBps \in 0..BASIS_POINTS
<1>1. TaxNow \in 0..StartBps
  BY TaxFalls DEF TaxNow
<1> QED
  BY <1>1, CurveAssumption DEF QuotesAssumption

\* What a quote in the making knows of the curve is so, unless somebody else has acted.
ReadsFresh ==
  /\ state = [reserves |-> state.reserves, over |-> state.over]
  /\ stage \in {"idle", "launch"} => state = Unread
  /\ stage \in {"state", "block", "tax"} /\ ~disturbed =>
       /\ launch = phase
       /\ state.reserves \in {None, curve}
       /\ state.over \in {None, ~Trading}

\* What the checks before each await leave to be done.
Checked ==
  /\ stage # "idle" => want \in Wants
  /\ stage \in {"state", "block", "tax", "simulate", "prepared", "sent"} => ~Unacceptable
  /\ stage \in {"block", "tax"} => /\ launch = "NotGraduated"
                               /\ state.reserves # None /\ state.over # None
  /\ stage = "tax" => want.side = "BUY" /\ ~state.over
  /\ stage = "simulate" => want.side = "BUY"

\* The tax that a quote shows is not exceeded while it is prepared, signed and sent.
TaxShown ==
  /\ time \in Nat
  /\ stage \in {"simulate", "prepared", "sent"} =>
       /\ trade.snipeTaxBps \in Nat
       /\ IF want.side = "BUY" THEN TaxNow <= trade.snipeTaxBps ELSE trade.snipeTaxBps = 0

QuoteInv ==
  ReadsFresh /\ Checked /\ TaxShown /\ TaxWasTold /\ RefusesOnlyTheImpossible

LEMMA QuoteInit == QuotesAssumption /\ QuotesInit => QuoteInv
BY DEF QuotesInit, QuoteInv, ReadsFresh, Checked, TaxShown, TaxWasTold,
       RefusesOnlyTheImpossible, Unread

LEMMA TickKeeps ==
  ASSUME QuotesAssumption, QuoteInv, Tick
  PROVE  QuoteInv'
<1>1. /\ time' = time + 1 /\ UNCHANGED <<curve, phase, want, stage, launch, state, trade, got, disturbed>>
      /\ time \in Nat
  BY DEF Tick, tradeVars, QuoteInv, TaxShown
<1>2. TaxNow' <= TaxNow /\ TaxNow' \in Nat /\ TaxNow \in Nat
  <2> DEFINE before == computeSnipeTaxBps(time, want.exempt)
             after == computeSnipeTaxBps(time + 1, want.exempt)
  <2>1. TaxNow = before /\ TaxNow' = after
    BY <1>1 DEF TaxNow
  <2>2. before \in 0..StartBps /\ after \in 0..StartBps /\ (after = before \/ 2 * after <= before)
    BY <1>1, TaxFalls
  <2>3. StartBps \in Nat
    BY CurveAssumption DEF QuotesAssumption
  <2> HIDE DEF before, after
  <2> QED
    BY <2>1, <2>2, <2>3
<1>3. Trading' = Trading
  BY <1>1 DEF Trading
<1>4. ReadsFresh' /\ Checked'
  BY <1>1, <1>3 DEF QuoteInv, ReadsFresh, Checked, Unacceptable
<1>5. TaxShown'
  BY <1>1, <1>2 DEF QuoteInv, TaxShown
<1> QED
  BY <1>1, <1>4, <1>5 DEF QuoteInv, TaxWasTold, RefusesOnlyTheImpossible, Undisturbed

\* Others, and the token page.
LEMMA OthersKeep ==
  ASSUME QuoteInv, UNCHANGED <<time, want, stage, launch, state, trade, got>>,
         disturbed' \/ stage = "idle" \/ UNCHANGED <<curve, phase, disturbed>>
  PROVE  QuoteInv'
<1>1. TaxNow' = TaxNow
  BY DEF TaxNow
<1>2. UNCHANGED <<curve, phase>> => Trading' = Trading
  BY DEF Trading
<1>3. ReadsFresh'
  BY <1>2 DEF QuoteInv, ReadsFresh
<1>4. Checked' /\ TaxShown' /\ TaxWasTold'
  BY <1>1 DEF QuoteInv, Checked, TaxShown, Unacceptable, TaxWasTold
<1>5. RefusesOnlyTheImpossible'
  BY DEF QuoteInv, RefusesOnlyTheImpossible, Undisturbed
<1> QED
  BY <1>3, <1>4, <1>5 DEF QuoteInv

LEMMA AskKeeps ==
  ASSUME QuoteInv, Ask
  PROVE  QuoteInv'
BY DEF Ask, marketVars, QuoteInv, ReadsFresh, Checked, TaxShown, Unread, TaxWasTold,
       RefusesOnlyTheImpossible

\* A refusal is right if the trade is not possible, or if it is refused for another reason
\* or for a read that failed.
LEMMA RefusedAsKeeps ==
  ASSUME QuoteInv, NEW code, NEW answered, RefusedAs(code, answered), Answered,
         UNCHANGED <<launch, state>>, stage # "idle",
         code \in {"CURVE_GRADUATED", "INSUFFICIENT_LIQUIDITY", "SIMULATION_REVERTED", "NO_VENUE"}
           /\ answered /\ ~disturbed /\ want.allowed => ~Possible(want)
  PROVE  QuoteInv'
BY DEF RefusedAs, Answered, marketVars, QuoteInv, ReadsFresh, Checked, TaxShown, TaxWasTold,
       RefusesOnlyTheImpossible, Undisturbed

LEMMA RefuseKeeps ==
  ASSUME QuoteInv, NEW code, Refuse(code), Answered, UNCHANGED <<launch, state>>,
         stage # "idle",
         code \in {"CURVE_GRADUATED", "INSUFFICIENT_LIQUIDITY", "SIMULATION_REVERTED", "NO_VENUE"}
           /\ ~disturbed /\ want.allowed => ~Possible(want)
  PROVE  QuoteInv'
BY RefusedAsKeeps DEF Refuse

LEMMA PreparedKeeps ==
  ASSUME QuoteInv, NEW source, NEW amountOut, NEW tax \in Nat, NEW local,
         Prepared(source, amountOut, tax, local), Answered, UNCHANGED <<launch, state>>,
         want \in Wants, ~Unacceptable,
         IF want.side = "BUY" THEN TaxNow <= tax ELSE tax = 0
  PROVE  QuoteInv'
<1>1. stage' = "prepared" /\ trade'.snipeTaxBps = tax
  BY DEF Prepared
<1>2. UNCHANGED <<curve, phase, time, want, got, disturbed, launch, state>>
  BY DEF Answered, marketVars
<1>3. TaxNow' = TaxNow
  BY <1>2 DEF TaxNow
<1> QED
  BY <1>1, <1>2, <1>3 DEF QuoteInv, ReadsFresh, Checked, TaxShown, Unacceptable,
     TaxWasTold, RefusesOnlyTheImpossible

LEMMA ReadLaunchKeeps ==
  ASSUME QuoteInv, ReadLaunch
  PROVE  QuoteInv'
<1>1. Answered /\ stage = "launch" /\ UNCHANGED state
  BY DEF ReadLaunch
<1>2. ASSUME NEW code \in {"UNACCEPTABLE", "NOT_A_PONS_LAUNCH"}, Refuse(code), UNCHANGED launch
      PROVE  QuoteInv'
  BY <1>1, <1>2, RefuseKeeps
<1>3. ASSUME ~Unacceptable, stage' = "state", launch' = phase, UNCHANGED trade
      PROVE  QuoteInv'
  <2>1. UNCHANGED <<curve, phase, time, want, got, disturbed, state, trade>>
    BY <1>1, <1>3 DEF Answered, marketVars
  <2>2. state = [reserves |-> None, over |-> None]
    BY <1>1 DEF QuoteInv, ReadsFresh, Unread
  <2> QED
    BY <1>1, <1>3, <2>1, <2>2 DEF QuoteInv, ReadsFresh, Checked, TaxShown, Unacceptable,
       TaxWasTold, RefusesOnlyTheImpossible
<1> QED
  BY <1>2, <1>3 DEF ReadLaunch

LEMMA ReadStateKeeps ==
  ASSUME QuoteInv, ReadReserves \/ ReadOver
  PROVE  QuoteInv'
<1>1. /\ stage = "state" /\ stage' = "state"
      /\ UNCHANGED <<curve, phase, time, want, got, disturbed, launch, trade>>
  BY DEF ReadReserves, ReadOver, Answered, marketVars
<1>2. Trading' = Trading
  BY <1>1 DEF Trading
<1>3. \/ state' = [reserves |-> curve, over |-> state.over]
      \/ state' = [reserves |-> state.reserves, over |-> ~Trading]
  <2> DEFINE r == state.reserves
             o == state.over
  <2>1. state = [reserves |-> r, over |-> o]
    BY DEF QuoteInv, ReadsFresh
  <2> HIDE DEF r, o
  <2>2. \/ state' = [state EXCEPT !.reserves = curve]
        \/ state' = [state EXCEPT !.over = ~Trading]
    BY DEF ReadReserves, ReadOver, Trading
  <2>3. \A x : /\ [state EXCEPT !.reserves = x] = [reserves |-> x, over |-> o]
               /\ [state EXCEPT !.over = x] = [reserves |-> r, over |-> x]
    BY <2>1
  <2>4. /\ [state EXCEPT !.reserves = curve] = [reserves |-> curve, over |-> o]
        /\ [state EXCEPT !.over = ~Trading] = [reserves |-> r, over |-> ~Trading]
    BY <2>3
  <2> QED
    BY <2>2, <2>4 DEF r, o
<1>4. ReadsFresh'
  BY <1>1, <1>2, <1>3 DEF QuoteInv, ReadsFresh
<1> QED
  BY <1>1, <1>4 DEF QuoteInv, Checked, TaxShown, Unacceptable,
       TaxWasTold, RefusesOnlyTheImpossible

LEMMA NotTradingNotPossible == Possible(want) => Trading
BY DEF Possible

LEMMA RouteKeeps ==
  ASSUME QuoteInv, Route
  PROVE  QuoteInv'
<1>1. /\ Answered /\ stage = "state" /\ UNCHANGED <<launch, state, now>>
      /\ state.reserves # None /\ state.over # None
  BY DEF Route
<1>2. ASSUME NEW code \in {"UNSUPPORTED_VENUE", "NO_VENUE"}, Refuse(code), launch # "NotGraduated"
      PROVE  QuoteInv'
  <2>1. ~disturbed => ~Possible(want)
    BY <1>1, <1>2, NotTradingNotPossible DEF QuoteInv, ReadsFresh, Trading
  <2> QED
    BY <1>1, <1>2, <2>1, RefuseKeeps
<1>3. ASSUME launch = "NotGraduated", stage' = "block", UNCHANGED trade
      PROVE  QuoteInv'
  <2>1. UNCHANGED <<curve, phase, time, want, got, disturbed, state, trade, launch>>
    BY <1>1, <1>3 DEF Answered, marketVars
  <2>2. Trading' = Trading
    BY <2>1 DEF Trading
  <2> QED
    BY <1>1, <1>3, <2>1, <2>2 DEF QuoteInv, ReadsFresh, Checked, TaxShown, Unacceptable,
       TaxWasTold, RefusesOnlyTheImpossible
<1>4. CASE launch = "NotGraduated"
  <2>1. resolveTradingVenue(launch, TRUE) = "CURVE"
    BY <1>4 DEF resolveTradingVenue
  <2> QED
    BY <1>3, <1>4, <2>1 DEF Route
<1>5. CASE launch # "NotGraduated"
  <2>1. resolveTradingVenue(launch, TRUE) \in {"UNISWAP_V4", "NONE"}
    BY <1>5 DEF resolveTradingVenue
  <2>2. Refuse("UNSUPPORTED_VENUE") \/ Refuse("NO_VENUE")
    BY <2>1 DEF Route
  <2> QED
    BY <1>2, <1>5, <2>2
<1> QED
  BY <1>4, <1>5

LEMMA ReadBlockKeeps ==
  ASSUME QuoteInv, ReadBlock
  PROVE  QuoteInv'
<1>1. /\ Answered /\ stage = "block" /\ UNCHANGED <<launch, state>>
      /\ state.reserves # None /\ state.over # None /\ want \in Wants /\ ~Unacceptable
      /\ launch = "NotGraduated"
  BY DEF ReadBlock, QuoteInv, Checked
<1>2. want.side \in {"BUY", "SELL"}
  BY <1>1 DEF Wants
<1>3. ASSUME state.over, Refuse("CURVE_GRADUATED")
      PROVE  QuoteInv'
  <2>1. ~disturbed => ~Possible(want)
    BY <1>1, <1>3, NotTradingNotPossible DEF QuoteInv, ReadsFresh
  <2> QED
    BY <1>1, <1>3, <2>1, RefuseKeeps
<1>4. ASSUME NEW amountOut, Prepared("LOCAL_MATH", amountOut, 0, None), want.side = "SELL"
      PROVE  QuoteInv'
  BY <1>1, <1>4, PreparedKeeps
<1>5. ASSUME want.side = "BUY", ~state.over, stage' = "tax", UNCHANGED trade
      PROVE  QuoteInv'
  <2>1. UNCHANGED <<curve, phase, time, want, got, disturbed, state, trade, launch>>
    BY <1>1, <1>5 DEF Answered, marketVars
  <2>2. Trading' = Trading
    BY <2>1 DEF Trading
  <2> QED
    BY <1>1, <1>5, <2>1, <2>2 DEF QuoteInv, ReadsFresh, Checked, TaxShown, Unacceptable,
       TaxWasTold, RefusesOnlyTheImpossible
<1>6. CASE want.side = "SELL"
  <2>1. Sell
    BY <1>6 DEF ReadBlock
  <2> QED
    BY <1>3, <1>4, <1>6, <2>1 DEF Sell, CurveFinished
<1>7. CASE want.side = "BUY"
  <2>1. \/ state.over /\ Refuse("CURVE_GRADUATED")
        \/ ~state.over /\ stage' = "tax" /\ UNCHANGED trade
    BY <1>7 DEF ReadBlock, CurveFinished
  <2> QED
    BY <1>3, <1>5, <1>7, <2>1
<1> QED
  BY <1>2, <1>6, <1>7

LEMMA ReadTaxKeeps ==
  ASSUME QuotesAssumption, QuoteInv, ReadTax
  PROVE  QuoteInv'
<1> DEFINE tax == snipeTax
           local == computeCurveBuy(state.reserves, want.amountIn, tax)
<1>1. /\ Answered /\ stage = "tax" /\ UNCHANGED <<launch, state>>
      /\ state.reserves # None /\ want \in Wants /\ ~Unacceptable
      /\ want.side = "BUY" /\ launch = "NotGraduated"
  BY DEF ReadTax, QuoteInv, Checked
<1>2. tax = TaxNow /\ tax \in Nat
  BY TaxTyped DEF QuoteInv, TaxShown, snipeTax
<1>3. ASSUME NEW l, stage' = "simulate", trade' = [snipeTaxBps |-> tax, local |-> l]
      PROVE  QuoteInv'
  <2>1. UNCHANGED <<curve, phase, time, want, got, disturbed, state, launch>>
    BY <1>1, <1>3 DEF Answered, marketVars
  <2>2. TaxNow' = TaxNow
    BY <2>1 DEF TaxNow
  <2>3. trade'.snipeTaxBps = tax /\ tax \in Nat /\ tax <= tax
    BY <1>2, <1>3
  <2> HIDE DEF tax
  <2> QED
    BY <1>1, <1>2, <1>3, <2>1, <2>2, <2>3 DEF QuoteInv, ReadsFresh, Checked, TaxShown,
       Unacceptable, TaxWasTold, RefusesOnlyTheImpossible
<1>4. ASSUME ~Declines(tax), ~Buyable(state.reserves, want.amountIn, tax),
             Refuse("INSUFFICIENT_LIQUIDITY")
      PROVE  QuoteInv'
  <2>1. Charged(tax) = tax
    <3>1. totalTaxBps(tax) < BASIS_POINTS
      BY <1>2, <1>4, CurveAssumption DEF Declines, totalTaxBps
    <3> QED
      BY <3>1 DEF Charged
  <2>2. ~disturbed => state.reserves = curve
    BY <1>1 DEF QuoteInv, ReadsFresh
  <2>3. Possible(want) => Buyable(curve, want.amountIn, Charged(tax))
    BY <1>1, <1>2 DEF Possible
  <2>4. ~disturbed => ~Possible(want)
    BY <1>4, <2>1, <2>2, <2>3
  <2> QED
    BY <1>1, <1>4, <2>4, RefuseKeeps
<1>5. ASSUME NEW amountOut, Prepared("LOCAL_MATH", amountOut, tax, local)
      PROVE  QuoteInv'
  <2> DEFINE l == local
  <2>1. Prepared("LOCAL_MATH", amountOut, tax, l) /\ tax <= tax
    BY <1>2, <1>5
  <2> HIDE DEF l, local, tax
  <2> QED
    BY <1>1, <1>2, <2>1, PreparedKeeps
<1>6. \/ \E l : stage' = "simulate" /\ trade' = [snipeTaxBps |-> tax, local |-> l]
      \/ /\ ~Declines(tax) /\ ~Buyable(state.reserves, want.amountIn, tax)
         /\ Refuse("INSUFFICIENT_LIQUIDITY")
      \/ Prepared("LOCAL_MATH", local.tokensOut, tax, local)
  <2> HIDE DEF local
  <2> QED
    BY DEF ReadTax, local
<1> QED
  BY <1>3, <1>4, <1>5, <1>6

LEMMA SimulateKeeps ==
  ASSUME QuotesAssumption, QuoteInv, Simulate
  PROVE  QuoteInv'
<1>1. /\ Answered /\ stage = "simulate" /\ UNCHANGED <<launch, state>>
      /\ want \in Wants /\ ~Unacceptable /\ want.side = "BUY"
      /\ trade.snipeTaxBps \in Nat /\ TaxNow <= trade.snipeTaxBps
  BY DEF Simulate, QuoteInv, Checked, TaxShown
<1>2. ASSUME NEW amountOut, Prepared("SIMULATION", amountOut, trade.snipeTaxBps, trade.local)
      PROVE  QuoteInv'
  BY <1>1, <1>2, PreparedKeeps
<1>3. ASSUME ~(want.allowed /\ Possible(want)), Refuse("SIMULATION_REVERTED")
      PROVE  QuoteInv'
  BY <1>1, <1>3, RefuseKeeps
<1> QED
  BY <1>2, <1>3 DEF Simulate

LEMMA SendMineKeep ==
  ASSUME QuotesAssumption, QuoteInv, SendTrade \/ Mine
  PROVE  QuoteInv'
<1>1. CASE SendTrade
  <2>1. UNCHANGED <<curve, phase, time, want, got, disturbed, state, launch, trade>>
    BY <1>1 DEF SendTrade, marketVars
  <2>2. TaxNow' = TaxNow
    BY <2>1 DEF TaxNow
  <2> QED
    BY <1>1, <2>1, <2>2 DEF SendTrade, QuoteInv, ReadsFresh, Checked, TaxShown,
       Unacceptable, TaxWasTold, RefusesOnlyTheImpossible
<1>2. CASE Mine
  <2>1. /\ UNCHANGED <<phase, time, want, disturbed, state, launch, trade>>
        /\ stage = "sent" /\ stage' \in {"landed", "reverted"}
    BY <1>2 DEF Mine
  <2>2. stage' = "landed" => got'.tax = IF want.side = "BUY" THEN TaxNow ELSE 0
    BY <1>2 DEF Mine
  <2>3. stage' = "landed" => got'.tax <= trade.snipeTaxBps
    BY <2>1, <2>2 DEF QuoteInv, TaxShown
  <2> QED
    BY <2>1, <2>3 DEF QuoteInv, ReadsFresh, Checked, TaxShown,
       TaxWasTold, RefusesOnlyTheImpossible
<1> QED
  BY <1>1, <1>2

LEMMA QuoteStep ==
  ASSUME QuotesAssumption, QuoteInv, [QuotesNext]_quotesVars
  PROVE  QuoteInv'
<1>1. CASE UNCHANGED quotesVars
  BY <1>1, OthersKeep DEF quotesVars, marketVars, tradeVars
<1>2. CASE Chain
  <2>1. CASE OtherBuys \/ OtherSells \/ Graduate
    BY <2>1, OthersKeep DEF OtherBuys, OtherSells, Graduate, Other, tradeVars
  <2> QED
    BY <1>2, <2>1, TickKeeps DEF Chain
<1>3. CASE TokenPage
  BY <1>3, OthersKeep DEF TokenPage, OpenPage, PageReadsLaunch, PageReadsCurve,
     PageFails, marketVars, tradeVars
<1>4. CASE ReadFails
  <2>1. /\ stage # "idle" /\ Answered /\ UNCHANGED <<launch, state>>
        /\ \E code : RefusedAs(code, FALSE)
    BY <1>4 DEF ReadFails
  <2> QED
    BY <2>1, RefusedAsKeeps
<1> QED
  BY <1>1, <1>2, <1>3, <1>4, AskKeeps, ReadLaunchKeeps, ReadStateKeeps, RouteKeeps,
     ReadBlockKeeps, ReadTaxKeeps, SimulateKeeps, SendMineKeep DEF QuotesNext, PrepareTrade

\* A launch pays at most the anti-snipe tax its quote was shown with, however the buy was
\* priced, whatever the clock said and whatever others did (quoteBuy, simulateBuy).
THEOREM TaxToldBefore ==
  ASSUME QuotesAssumption
  PROVE  QuotesSpec => []TaxWasTold
<1>1. QuoteInv => TaxWasTold
  BY DEF QuoteInv
<1> QED
  BY <1>1, QuoteInit, QuoteStep, PTL DEF QuotesSpec

\* If nobody else acts, what prepareTrade refuses for its price or its curve could not have
\* been done (quoteBuy, quoteSell, resolveTradingVenue).
THEOREM RefusalsAreRight ==
  ASSUME QuotesAssumption
  PROVE  QuotesSpec => []RefusesOnlyTheImpossible
<1>1. QuoteInv => RefusesOnlyTheImpossible
  BY DEF QuoteInv
<1> QED
  BY <1>1, QuoteInit, QuoteStep, PTL DEF QuotesSpec

-----------------------------------------------------------------------------
(* A falling tax never makes a quoted buy worth less.                      *)

\* Quotes has the same arithmetic under names of its own.
LEMMA SameCurve ==
  ASSUME NEW c, NEW x, NEW s
  PROVE  /\ applyBps(x, s) = applyBps(x, s)
         /\ Net(x, s) = Net(x, s)
         /\ totalTaxBps(s) = totalTaxBps(s)
         /\ sellable(c) = sellable(c)
         /\ Buyable(c, x, s) = Buyable(c, x, s)
         /\ computeCurveBuy(c, x, s) = computeCurveBuy(c, x, s)
         /\ grossQuoteOut(c, x) = grossQuoteOut(c, x)
         /\ computeCurveSell(c, x) = computeCurveSell(c, x)
         /\ AfterBuy(c, x) = AfterBuy(c, x)
         /\ AfterSell(c, x) = AfterSell(c, x)
<1>1. \A y, b : applyBps(y, b) = applyBps(y, b)
  BY DEF applyBps, applyBps
<1>2. \A y, b : Net(y, b) = Net(y, b)
  BY <1>1 DEF Net, Net
<1>3. \A b : totalTaxBps(b) = totalTaxBps(b)
  BY DEF totalTaxBps, totalTaxBps
<1>4. sellable(c) = sellable(c)
  BY DEF sellable, sellable
<1>5. \A a, r, o : /\ getAmountOut(a, r, o) = getAmountOut(a, r, o)
                   /\ getAmountIn(a, r, o) = getAmountIn(a, r, o)
                   /\ ceilDiv(a, r) = ceilDiv(a, r)
  BY DEF getAmountOut, getAmountOut, getAmountIn, getAmountIn, ceilDiv, ceilDiv
<1>6. Unclamped(c, x, s) = Unclamped(c, x, s)
  BY <1>2, <1>5 DEF Unclamped, Unclamped
<1>7. ClampedSpend(c, x, s) = ClampedSpend(c, x, s)
  BY <1>3, <1>4, <1>5 DEF ClampedSpend, ClampedSpend
<1>8. computeCurveBuy(c, x, s) = computeCurveBuy(c, x, s)
  BY <1>2, <1>4, <1>6, <1>7 DEF computeCurveBuy, computeCurveBuy
<1>9. Buyable(c, x, s) = Buyable(c, x, s)
  BY <1>2, <1>3, <1>4 DEF Buyable, Buyable
<1>10. grossQuoteOut(c, x) = grossQuoteOut(c, x)
  BY <1>5 DEF grossQuoteOut, grossQuoteOut
<1>11. computeCurveSell(c, x) = computeCurveSell(c, x)
  BY <1>1, <1>10 DEF computeCurveSell, computeCurveSell
<1>12. AfterBuy(c, x) = AfterBuy(c, x) /\ AfterSell(c, x) = AfterSell(c, x)
  BY <1>10 DEF AfterBuy, AfterBuy, AfterSell, AfterSell
<1> QED
  BY <1>1, <1>2, <1>3, <1>4, <1>8, <1>9, <1>10, <1>11, <1>12

LEMMA FloorGrows ==
  ASSUME NEW a \in Nat, NEW b \in Nat, NEW d \in Nat \ {0}, a <= b
  PROVE  a \div d <= b \div d
<1> DEFINE k == a \div d
<1>1. k \in Nat /\ k * d <= a
  BY Floor
<1> HIDE DEF k
<1>2. k * d <= b /\ k \in Int
  BY <1>1
<1>3. k <= b \div d
  BY <1>2, FloorMost
<1> QED
  BY <1>3 DEF k

\* A lower tax leaves at least as much.
LEMMA NetGrows ==
  ASSUME NEW x \in Nat, NEW low \in Nat, NEW high \in Nat, low <= high
  PROVE  Net(x, high) <= Net(x, low)
<1> USE CurveAssumption
<1>1. x * low <= x * high /\ x * low \in Nat /\ x * high \in Nat
  <2>1. low * x <= high * x
    BY Scales
  <2>2. low * x = x * low /\ high * x = x * high
    BY Distributes
  <2> QED
    BY <2>1, <2>2, Products
<1>2. applyBps(x, low) <= applyBps(x, high)
  <2> DEFINE a == x * low
             b == x * high
  <2>1. a \in Nat /\ b \in Nat /\ a <= b
    BY <1>1
  <2> HIDE DEF a, b
  <2>2. a \div BASIS_POINTS <= b \div BASIS_POINTS
    BY <2>1, FloorGrows
  <2> QED
    BY <2>2 DEF applyBps, a, b
<1>3. \A b \in Nat : applyBps(x, b) \in Nat
  BY Products, Floor DEF applyBps
<1>4. /\ applyBps(x, low) \in Nat /\ applyBps(x, high) \in Nat
      /\ applyBps(x, FeeBps) \in Nat /\ applyBps(x, CreatorTaxBps) \in Nat
  BY <1>3
<1> QED
  BY <1>2, <1>4 DEF Net

\* More of the input buys at least as much of the output.
LEMMA AmountOutGrows ==
  ASSUME NEW a \in Nat, NEW b \in Nat, a <= b, NEW q \in Nat \ {0}, NEW t \in Nat
  PROVE  getAmountOut(a, q, t) <= getAmountOut(b, q, t)
<1> DEFINE out == getAmountOut(a, q, t)
<1>1. out \in Nat /\ out * (q + a) <= a * t /\ out <= t
  BY AmountOut
<1> HIDE DEF out
<1> DEFINE more == b - a
<1>2. more \in Nat /\ b = a + more
  OBVIOUS
<1> HIDE DEF more
<1>3. out * (q + b) <= b * t
  <2>1. /\ out * (q + b) = out * (q + a) + out * more
        /\ b * t = a * t + t * more
    BY <1>1, <1>2
  <2>2. out * more <= t * more
    BY <1>1, <1>2, Scales
  <2>3. /\ out * (q + a) \in Int /\ out * more \in Int /\ a * t \in Int /\ t * more \in Int
    BY <1>1, <1>2
  <2> QED
    BY <1>1, <2>1, <2>2, <2>3
<1>4. b * t \in Nat /\ q + b \in Nat \ {0} /\ out \in Int
  BY <1>1, Products
<1>5. out <= (b * t) \div (q + b)
  <2> DEFINE n == b * t
             d == q + b
  <2>1. n \in Nat /\ d \in Nat \ {0} /\ out * d <= n
    BY <1>3, <1>4
  <2> HIDE DEF n, d
  <2>2. out <= n \div d
    BY <1>4, <2>1, FloorMost
  <2> QED
    BY <2>2 DEF n, d
<1> QED
  BY <1>5 DEF out, getAmountOut

\* A buy that could be made at a tax can be made at a lower one, and brings no less.
LEMMA BuyGrows ==
  ASSUME NEW c \in Reserves, NEW x \in Nat, NEW low \in Nat, NEW high \in Nat, low <= high,
         Buyable(c, x, high)
  PROVE  /\ Buyable(c, x, low)
         /\ computeCurveBuy(c, x, high).tokensOut <= computeCurveBuy(c, x, low).tokensOut
<1> USE CurveAssumption
<1>1. totalTaxBps(low) <= totalTaxBps(high) /\ totalTaxBps(high) < BASIS_POINTS
      /\ totalTaxBps(low) < BASIS_POINTS
  BY DEF Buyable, totalTaxBps
<1>2. /\ Net(x, high) \in Nat /\ Net(x, low) \in Nat /\ Net(x, high) <= Net(x, low)
      /\ Net(x, high) > 0 /\ Net(x, low) > 0
  <2>1. Net(x, high) \in Nat /\ Net(x, low) \in Nat
    BY <1>1, NetBounds
  <2>2. Net(x, high) <= Net(x, low)
    BY NetGrows
  <2> QED
    BY <2>1, <2>2 DEF Buyable
<1>3. Buyable(c, x, low)
  BY <1>1, <1>2 DEF Buyable
<1>4. c.quote \in Nat \ {0} /\ c.token \in Nat /\ sellable(c) \in Nat
  BY DEF Buyable, Reserves, sellable
<1>5. Unclamped(c, x, high) \in Nat /\ Unclamped(c, x, low) \in Nat
  BY <1>2, <1>4, AmountOut DEF Unclamped
<1>6. Unclamped(c, x, high) <= Unclamped(c, x, low)
  BY <1>2, <1>4, AmountOutGrows DEF Unclamped
<1>7. \A s : computeCurveBuy(c, x, s).tokensOut =
               IF Unclamped(c, x, s) > sellable(c) THEN sellable(c) ELSE Unclamped(c, x, s)
  BY DEF computeCurveBuy
<1> QED
  BY <1>3, <1>4, <1>5, <1>6, <1>7

\* The floor of a quote is below the quote.
LEMMA SlippageFloor ==
  ASSUME NEW x \in Nat, NEW s \in 0..BASIS_POINTS
  PROVE  applySlippageFloor(x, s) \in 0..x
<1>1. s \in Nat /\ BASIS_POINTS \in Nat \ {0} /\ s <= BASIS_POINTS
  BY CurveAssumption
<1> DEFINE cut == applyBps(x, s)
<1>2. x * s \in Nat
  BY <1>1, Products
<1>3. cut \in Nat /\ cut * BASIS_POINTS <= x * s
  BY <1>1, <1>2, Floor DEF applyBps
<1>4. s * x <= BASIS_POINTS * x
  BY <1>1, Scales
<1>5. s * x = x * s /\ BASIS_POINTS * x = x * BASIS_POINTS /\ x * BASIS_POINTS \in Int
  BY <1>1, Distributes
<1> HIDE DEF cut
<1>6. cut * BASIS_POINTS <= x * BASIS_POINTS
  <2>1. cut * BASIS_POINTS \in Int
    BY <1>1, <1>3
  <2> QED
    BY <1>2, <1>3, <1>4, <1>5, <2>1
<1>7. cut <= x
  BY <1>1, <1>3, <1>6, Cancels
<1>8. x - cut \in 0..x
  BY <1>3, <1>7
<1> QED
  BY <1>8, SameCurve DEF applySlippageFloor, cut

LEMMA SellTyped ==
  ASSUME NEW c \in Reserves, NEW x \in Nat, c.token + x > 0, FeeBps + CreatorTaxBps < BASIS_POINTS
  PROVE  computeCurveSell(c, x) \in Nat
<1> USE CurveAssumption
<1> DEFINE gross == grossQuoteOut(c, x)
<1>1. gross \in Nat
  <2>1. c.token + x \in Nat \ {0} /\ c.quote \in Nat
    BY DEF Reserves
  <2> QED
    BY <2>1, Products, Floor DEF grossQuoteOut, getAmountOut
<1>2. computeCurveSell(c, x) = gross - applyBps(gross, FeeBps) - applyBps(gross, CreatorTaxBps)
  BY DEF computeCurveSell
<1> HIDE DEF gross
<1>3. Net(gross, 0) \in Nat
  <2>1. totalTaxBps(0) < BASIS_POINTS /\ 0 \in Nat
    BY DEF totalTaxBps
  <2> QED
    BY <1>1, <2>1, NetBounds
<1>4. applyBps(gross, 0) = 0
  <2>1. gross * 0 = 0
    BY <1>1
  <2>2. 0 \div BASIS_POINTS = 0
    <3> DEFINE k == 0 \div BASIS_POINTS
    <3>1. k \in Nat /\ k * BASIS_POINTS <= 0 /\ BASIS_POINTS \in Nat \ {0}
      BY Floor
    <3> HIDE DEF k
    <3>2. k = 0
      BY <3>1
    <3> QED
      BY <3>2 DEF k
  <2> QED
    BY <2>1, <2>2 DEF applyBps
<1>5. ASSUME NEW b \in Nat PROVE applyBps(gross, b) \in Nat
  BY <1>1, Products, Floor DEF applyBps
<1>6. applyBps(gross, FeeBps) \in Nat /\ applyBps(gross, CreatorTaxBps) \in Nat
  BY <1>5
<1> QED
  BY <1>1, <1>2, <1>3, <1>4, <1>6 DEF Net

-----------------------------------------------------------------------------
(* A trade that nobody disturbs lands, and brings what was quoted.         *)

\* The fees of a launch are small beside the tax that is dropped with them: at most ten
\* percent each to the protocol and to the creator.
FeesAreSmall == 3 * (FeeBps + CreatorTaxBps) <= BASIS_POINTS

\* What the contract takes falls with time too, although it leaves out its fees where they
\* and the tax would be more than everything.
LEMMA ChargedFalls ==
  ASSUME QuotesAssumption, FeesAreSmall, NEW t \in Nat, NEW exempt
  PROVE  LET before == Charged(computeSnipeTaxBps(t, exempt))
             after == Charged(computeSnipeTaxBps(t + 1, exempt))
         IN before \in Nat /\ after \in Nat /\ after <= before
<1> DEFINE a == computeSnipeTaxBps(t, exempt)
           b == computeSnipeTaxBps(t + 1, exempt)
<1>1. a \in 0..StartBps /\ b \in 0..StartBps /\ (b = a \/ 2 * b <= a)
  BY TaxFalls
<1>2. /\ BASIS_POINTS \in Nat \ {0} /\ FeeBps \in Nat /\ CreatorTaxBps \in Nat
      /\ StartBps \in 0..BASIS_POINTS
  BY CurveAssumption DEF QuotesAssumption
<1> HIDE DEF a, b
<1>3. \A x : Charged(x) = IF FeeBps + CreatorTaxBps + x < BASIS_POINTS THEN x
                            ELSE x - FeeBps - CreatorTaxBps
  BY DEF Charged, totalTaxBps
<1>4. Charged(a) \in Nat /\ Charged(b) \in Nat /\ Charged(b) <= Charged(a)
  BY <1>1, <1>2, <1>3 DEF FeesAreSmall
<1> QED
  BY <1>4 DEF a, b

\* What the trade would bring, now.
Brings ==
  IF want.side = "BUY" THEN Bought(curve, want.amountIn, TaxNow).tokensOut
  ELSE computeCurveSell(curve, want.amountIn)

\* A prepared trade can be made, and brings what it was quoted to bring.
WillLand ==
  ~disturbed =>
    /\ stage \in {"prepared", "sent"} =>
         /\ Possible(want)
         /\ trade.amountOut \in Nat /\ trade.minOut \in 0..trade.amountOut
         /\ Brings >= trade.amountOut
    /\ stage # "reverted"
    /\ stage = "landed" => got.out >= trade.amountOut

CurveKept == curve \in Reserves /\ curve.quote > 0

AmountInv == QuoteInv /\ CurveKept /\ WillLand

LEMMA WantTyped ==
  ASSUME QuotesAssumption, want \in Wants
  PROVE  want.amountIn \in Nat /\ want.side \in {"BUY", "SELL"}
BY DEF Wants, QuotesAssumption

LEMMA ChargedTyped ==
  ASSUME QuotesAssumption, FeesAreSmall, time \in Nat
  PROVE  Charged(TaxNow) \in Nat
BY ChargedFalls DEF TaxNow

\* Others and the reads of a quote leave the curve and the rest to be as good as before.
LEMMA TradingCurve ==
  ASSUME Trading, CurveKept
  PROVE  curve.token \in Nat /\ curve.token > ReservedTokens /\ curve.token > 0
<1>1. sellable(curve) # 0
  BY DEF Trading, ready
<1>2. curve.token \in Nat
  BY DEF CurveKept, Reserves
<1> QED
  BY <1>1, <1>2, CurveAssumption DEF sellable

LEMMA BuyKeepsReserves ==
  ASSUME CurveKept, NEW x \in Nat, NEW s \in Nat, Buyable(curve, x, s),
         curve' = AfterBuy(curve, computeCurveBuy(curve, x, s))
  PROVE  CurveKept'
<1> DEFINE buy == computeCurveBuy(curve, x, s)
<1>1. curve' = [quote |-> curve.quote + buy.net, token |-> curve.token - buy.tokensOut]
  BY SameCurve DEF AfterBuy
<1>2. Buyable(curve, x, s)
  BY SameCurve
<1>3. /\ buy.tokensOut \in Nat /\ buy.net \in Nat
      /\ buy.tokensOut <= curve.token - ReservedTokens
  BY <1>2, BuySound DEF CurveKept
<1>4. curve.quote \in Nat \ {0} /\ curve.token \in Nat
  BY DEF CurveKept, Reserves
<1> HIDE DEF buy
<1> QED
  BY <1>1, <1>3, <1>4, CurveAssumption DEF CurveKept, Reserves

LEMMA SellKeepsReserves ==
  ASSUME CurveKept, Trading, NEW x \in Nat, curve' = AfterSell(curve, x)
  PROVE  CurveKept'
<1>1. curve' = AfterSell(curve, x)
  BY SameCurve
<1> QED
  BY <1>1, TradingCurve, SellSound DEF CurveKept

LEMMA AmountInit ==
  ASSUME QuotesAssumption, FeesAreSmall, QuotesInit
  PROVE  AmountInv
<1>1. QuoteInv
  BY QuoteInit
<1>2. WillLand
  BY DEF QuotesInit, WillLand
<1> DEFINE c == Launched
<1>3. Supply \in Nat \ {0} /\ PhantomQuote \in Nat \ {0}
  BY CurveAssumption DEF QuotesAssumption
<1>4. c \in Reserves /\ c.quote \in Nat \ {0} /\ c.token \in Nat
      /\ c.quote = PhantomQuote /\ c.token = Supply
  BY <1>3 DEF Launched, Reserves
<1>5. Charged(0) = 0 /\ totalTaxBps(0) < BASIS_POINTS
  BY CurveAssumption DEF Charged, totalTaxBps, totalTaxBps, FeesAreSmall
<1> HIDE DEF c
<1>6. ASSUME NEW x \in BuyAmounts \ {0}, curve = AfterBuy(c, Bought(c, x, 0))
      PROVE  CurveKept
  <2> DEFINE buy == computeCurveBuy(c, x, 0)
  <2>1. x \in Nat
    BY DEF QuotesAssumption
  <2>2. curve = [quote |-> c.quote + buy.net, token |-> c.token - buy.tokensOut]
    BY <1>5, <1>6, SameCurve DEF Bought, AfterBuy
  <2>3. Net(x, 0) \in Nat
    BY <1>5, <2>1, NetBounds
  <2>4. buy.tokensOut \in 0..c.token /\ buy.net \in Nat
    <3>1. CASE Buyable(c, x, 0)
      <4>1. /\ buy.tokensOut \in Nat /\ buy.net \in Nat
            /\ buy.tokensOut <= c.token - ReservedTokens
        BY <1>4, <2>1, <3>1, BuySound
      <4> HIDE DEF buy
      <4> QED
        BY <1>4, <4>1, CurveAssumption
    <3>2. CASE ~Buyable(c, x, 0)
      <4>1. sellable(c) > 0
        <5> DEFINE n == Supply * PhantomQuote
                   d == PhantomQuote + GraduationThreshold
        <5>1. GraduationThreshold \in Nat \ {0} /\ n \in Nat /\ d \in Nat \ {0}
              /\ ReservedTokens = n \div d
          BY <1>3, Products DEF QuotesAssumption, computeReservedTokens
        <5>2. ReservedTokens \in Nat /\ ReservedTokens * d <= n
          <6> HIDE DEF n, d
          <6> QED
            BY <5>1, Floor
        <5>3. n < Supply * d
          <6>1. Supply * d = n + Supply * GraduationThreshold
            BY <1>3, <5>1
          <6>2. Supply * GraduationThreshold \in Nat \ {0}
            BY <1>3, <5>1
          <6> QED
            BY <5>1, <6>1, <6>2
        <5> HIDE DEF n, d
        <5>4. ReservedTokens < Supply
          <6> SUFFICES ASSUME Supply <= ReservedTokens PROVE FALSE
            BY <1>3, <5>2
          <6>1. Supply * d <= ReservedTokens * d
            BY <1>3, <5>1, <5>2, Scales
          <6>2. Supply * d \in Int /\ ReservedTokens * d \in Int
            BY <1>3, <5>1, <5>2
          <6> QED
            BY <5>1, <5>2, <5>3, <6>1, <6>2
        <5> QED
          BY <1>3, <1>4, <5>2, <5>4 DEF sellable
      <4>2. Net(x, 0) = 0
        BY <1>4, <1>5, <2>1, <2>3, <3>2, <4>1 DEF Buyable
      <4>3. Unclamped(c, x, 0) = 0
        <5>1. Unclamped(c, x, 0) = getAmountOut(0, c.quote, c.token)
          BY <4>2 DEF Unclamped
        <5> DEFINE out == getAmountOut(0, c.quote, c.token)
        <5>2. out \in Nat /\ out * (c.quote + 0) <= 0 * c.token
          BY <1>4, AmountOut
        <5> HIDE DEF out
        <5>3. out = 0
          BY <1>4, <5>2
        <5> QED
          BY <5>1, <5>3 DEF out
      <4>4. buy.tokensOut = 0 /\ buy.net = 0
        <5>1. ~(Unclamped(c, x, 0) > sellable(c))
          BY <1>4, <4>1, <4>3, CurveAssumption DEF sellable
        <5> QED
          BY <4>2, <4>3, <5>1 DEF computeCurveBuy
      <4> QED
        BY <1>4, <4>4
    <3> QED
      BY <3>1, <3>2
  <2> HIDE DEF buy
  <2> QED
    BY <1>4, <2>2, <2>4 DEF CurveKept, Reserves
<1>7. CurveKept
  <2>1. CASE curve = c
    BY <1>4, <2>1 DEF CurveKept
  <2> QED
    BY <1>6, <2>1 DEF QuotesInit, c
<1> QED
  BY <1>1, <1>2, <1>7 DEF AmountInv

LEMMA PossibleBuy ==
  ASSUME QuotesAssumption, FeesAreSmall, CurveKept, time \in Nat,
         want \in Wants, want.side = "BUY", Possible(want)
  PROVE  LET buy == Bought(curve, want.amountIn, TaxNow)
         IN /\ buy.tokensOut \in Nat
            /\ buy.spent \in Nat /\ buy.spent <= want.amountIn
<1> DEFINE s == Charged(TaxNow)
           x == want.amountIn
<1>1. s \in Nat /\ x \in Nat
  BY ChargedTyped, WantTyped
<1>2. Buyable(curve, x, s)
  BY SameCurve DEF Possible
<1>3. Bought(curve, x, TaxNow) = computeCurveBuy(curve, x, s)
  BY SameCurve DEF Bought
<1> HIDE DEF s, x
<1>4. LET buy == computeCurveBuy(curve, x, s)
      IN  buy.tokensOut \in Nat /\ buy.spent \in Nat /\ buy.spent <= x
  BY <1>1, <1>2, BuySound DEF CurveKept
<1> QED
  BY <1>3, <1>4 DEF x

\* Time only makes a trade better.
LEMMA TickKeepsAmounts ==
  ASSUME QuotesAssumption, FeesAreSmall, AmountInv, Tick
  PROVE  AmountInv'
<1>1. QuoteInv'
  BY TickKeeps DEF AmountInv
<1>2. /\ time' = time + 1 /\ time \in Nat
      /\ UNCHANGED <<curve, phase, want, stage, launch, state, trade, got, disturbed>>
  BY DEF Tick, tradeVars, AmountInv, QuoteInv, TaxShown
<1>3. CurveKept'
  BY <1>2 DEF AmountInv, CurveKept
<1>4. ASSUME stage \in {"prepared", "sent"}, ~disturbed
      PROVE  Possible(want)' /\ Brings' >= Brings /\ Brings \in Int /\ Brings' \in Int
  <2>1. /\ want \in Wants /\ Possible(want)
        /\ want.amountIn \in Nat /\ want.side \in {"BUY", "SELL"}
    BY <1>4, WantTyped DEF AmountInv, QuoteInv, Checked, WillLand
  <2>2. Trading /\ Trading'
    BY <1>2, <2>1 DEF Possible, Trading
  <2>3. CASE want.side = "SELL"
    <3>1. Brings' = Brings /\ Possible(want)'
      BY <1>2, <2>1, <2>2, <2>3 DEF Brings, Possible
    <3>2. Brings = computeCurveSell(curve, want.amountIn)
      BY <2>3, SameCurve DEF Brings
    <3>3. FeeBps + CreatorTaxBps < BASIS_POINTS
      BY CurveAssumption DEF FeesAreSmall
    <3>4. Brings \in Nat
      BY <2>1, <2>2, <3>2, <3>3, TradingCurve, SellTyped DEF AmountInv, CurveKept
    <3> QED
      BY <3>1, <3>4
  <2>4. CASE want.side = "BUY"
    <3> DEFINE high == Charged(TaxNow)
               low == Charged(computeSnipeTaxBps(time + 1, want.exempt))
               x == want.amountIn
    <3>1. high \in Nat /\ low \in Nat /\ low <= high
      BY <1>2, ChargedFalls DEF TaxNow
    <3>2. TaxNow' = computeSnipeTaxBps(time + 1, want.exempt)
      BY <1>2 DEF TaxNow
    <3>3. Brings = computeCurveBuy(curve, x, high).tokensOut
      BY <2>4, SameCurve DEF Brings, Bought
    <3>4. Brings' = computeCurveBuy(curve, x, low).tokensOut
      <4>1. Brings' = computeCurveBuy(curve, x, low).tokensOut
        BY <1>2, <2>4, <3>2 DEF Brings, Bought
      <4> HIDE DEF low, x
      <4> QED
        BY <4>1, SameCurve
    <3>5. Buyable(curve, x, high)
      BY <2>1, <2>4, SameCurve DEF Possible
    <3> HIDE DEF high, low, x
    <3>6. x \in Nat
      BY <2>1 DEF x
    <3>7. /\ Buyable(curve, x, low)
          /\ computeCurveBuy(curve, x, high).tokensOut
               <= computeCurveBuy(curve, x, low).tokensOut
      BY <3>1, <3>5, <3>6, BuyGrows DEF AmountInv, CurveKept
    <3>8. /\ computeCurveBuy(curve, x, high).tokensOut \in Nat
          /\ computeCurveBuy(curve, x, low).tokensOut \in Nat
      BY <3>1, <3>5, <3>6, <3>7, BuySound DEF AmountInv, CurveKept
    <3>9. Buyable(curve, x, low)
      BY <3>7, SameCurve
    <3>10. Possible(want)'
      BY <1>2, <2>1, <2>2, <3>2, <3>9 DEF Possible, low, x
    <3> QED
      BY <3>3, <3>4, <3>7, <3>8, <3>10
  <2> QED
    BY <2>1, <2>3, <2>4
<1>5. WillLand'
  <2> DEFINE b == Brings
             c == Brings'
             possible == Possible(want)'
  <2>1. stage \in {"prepared", "sent"} /\ ~disturbed => possible /\ c >= b /\ b \in Int /\ c \in Int
    BY <1>4
  <2>2. ~disturbed =>
          /\ stage \in {"prepared", "sent"} =>
               /\ trade.amountOut \in Nat /\ trade.minOut \in 0..trade.amountOut
               /\ b >= trade.amountOut
          /\ stage # "reverted"
          /\ stage = "landed" => got.out >= trade.amountOut
    BY DEF AmountInv, WillLand
  <2> HIDE DEF b
  <2>3. stage \in {"prepared", "sent"} /\ ~disturbed => Brings' >= trade.amountOut
    BY <2>1, <2>2
  <2>4. stage \in {"prepared", "sent"} /\ ~disturbed => Possible(want)'
    BY <2>1
  <2> QED
    BY <1>2, <2>2, <2>3, <2>4 DEF WillLand
<1> QED
  BY <1>1, <1>3, <1>5 DEF AmountInv

\* A step that does not touch the trade, and either leaves the curve or disturbs the trade.
LEMMA OthersKeepAmounts ==
  ASSUME AmountInv, QuoteInv', CurveKept', UNCHANGED <<time, want, stage, trade, got>>,
         disturbed' \/ stage = "idle" \/ UNCHANGED <<curve, phase, disturbed>>
  PROVE  AmountInv'
<1>1. UNCHANGED <<curve, phase>> => Possible(want)' = Possible(want) /\ Brings' = Brings
  BY DEF Possible, Trading, Brings, TaxNow
<1> QED
  BY <1>1 DEF AmountInv, WillLand

\* A step of prepareTrade that does not end it.
LEMMA ReadsKeepAmounts ==
  ASSUME AmountInv, QuoteInv', UNCHANGED curve,
         stage' \in {"launch", "state", "block", "tax", "simulate", "refused"}
  PROVE  AmountInv'
BY DEF AmountInv, CurveKept, WillLand

LEMMA PreparedWillLand ==
  ASSUME QuotesAssumption, AmountInv, QuoteInv', NEW source, NEW amountOut, NEW tax, NEW local,
         Prepared(source, amountOut, tax, local), Answered, ~Unacceptable,
         ~disturbed => Possible(want) /\ amountOut \in Nat /\ amountOut = Brings
  PROVE  AmountInv'
<1>1. UNCHANGED <<curve, phase, time, want, got, disturbed>>
  BY DEF Answered, marketVars
<1>2. /\ stage' = "prepared" /\ trade'.amountOut = amountOut
      /\ trade'.minOut = applySlippageFloor(amountOut, want.slippageBps)
  BY DEF Prepared
<1>3. want.slippageBps \in 0..BASIS_POINTS
  BY CurveAssumption DEF QuotesAssumption, Unacceptable
<1>4. ASSUME ~disturbed PROVE Possible(want)' /\ Brings' = Brings
  BY <1>1, <1>4 DEF Possible, Trading, Brings, TaxNow
<1>5. ASSUME ~disturbed PROVE trade'.minOut \in 0..trade'.amountOut
  BY <1>2, <1>3, <1>5, SlippageFloor
<1>6. CurveKept'
  BY <1>1 DEF AmountInv, CurveKept
<1> QED
  BY <1>1, <1>2, <1>4, <1>5, <1>6 DEF AmountInv, WillLand

LEMMA ChainKeepsAmounts ==
  ASSUME QuotesAssumption, FeesAreSmall, AmountInv, QuoteInv',
         OtherBuys \/ OtherSells \/ Graduate
  PROVE  AmountInv'
<1>1. disturbed' /\ UNCHANGED <<time, want, stage, trade, got>> /\ CurveKept
  BY DEF OtherBuys, OtherSells, Graduate, Other, tradeVars, AmountInv
<1>2. CASE OtherBuys
  <2>1. Charged(0) = 0
    BY CurveAssumption DEF Charged, totalTaxBps, FeesAreSmall
  <2>2. PICK x \in BuyAmounts \ {0} :
          Buyable(curve, x, 0) /\ curve' = AfterBuy(curve, computeCurveBuy(curve, x, 0))
    BY <1>2, <2>1 DEF OtherBuys, Bought
  <2>3. x \in Nat
    BY DEF QuotesAssumption
  <2>4. CurveKept'
    BY <1>1, <2>2, <2>3, BuyKeepsReserves
  <2> QED
    BY <1>1, <2>4, OthersKeepAmounts
<1>3. CASE OtherSells
  <2>1. PICK x \in SellAmounts \ {0} : curve' = AfterSell(curve, x)
    BY <1>3 DEF OtherSells
  <2>2. x \in Nat /\ Trading
    BY <1>3 DEF OtherSells, QuotesAssumption
  <2>3. CurveKept'
    BY <1>1, <2>1, <2>2, SellKeepsReserves
  <2> QED
    BY <1>1, <2>3, OthersKeepAmounts
<1>4. CASE Graduate
  <2>1. curve' = curve \/ curve' = [quote |-> PhantomQuote, token |-> 0]
    BY <1>4 DEF Graduate
  <2>2. PhantomQuote \in Nat \ {0}
    BY CurveAssumption DEF QuotesAssumption
  <2>3. CurveKept'
    BY <1>1, <2>1, <2>2 DEF CurveKept, Reserves
  <2> QED
    BY <1>1, <2>3, OthersKeepAmounts
<1> QED
  BY <1>2, <1>3, <1>4

LEMMA RefusedKeepsAmounts ==
  ASSUME AmountInv, QuoteInv', NEW code, Refuse(code), Answered
  PROVE  AmountInv'
BY ReadsKeepAmounts DEF Refuse, RefusedAs, Answered, marketVars

LEMMA EarlyReadsKeepAmounts ==
  ASSUME AmountInv, QuoteInv',
         Ask \/ ReadLaunch \/ ReadReserves \/ ReadOver \/ Route \/ ReadFails
  PROVE  AmountInv'
<1>1. UNCHANGED curve
  BY DEF Ask, ReadLaunch, ReadReserves, ReadOver, Route, ReadFails, Answered,
         marketVars
<1>2. stage' \in {"launch", "state", "block", "refused"}
  BY DEF Ask, ReadLaunch, ReadReserves, ReadOver, Route, ReadFails, Refuse, RefusedAs
<1> QED
  BY <1>1, <1>2, ReadsKeepAmounts

LEMMA ReadBlockKeepsAmounts ==
  ASSUME QuotesAssumption, FeesAreSmall, AmountInv, QuoteInv', ReadBlock
  PROVE  AmountInv'
<1>1. /\ Answered /\ stage = "block" /\ want \in Wants /\ ~Unacceptable
      /\ state.reserves # None /\ state.over # None /\ CurveKept
  BY DEF ReadBlock, AmountInv, QuoteInv, Checked
<1>2. want.amountIn \in Nat /\ want.amountIn > 0
  BY <1>1, WantTyped DEF Unacceptable
<1>3. CASE \E code : Refuse(code)
  BY <1>1, <1>3, RefusedKeepsAmounts
<1>4. CASE stage' = "tax"
  BY <1>1, <1>4, ReadsKeepAmounts DEF Answered, marketVars
<1>5. CASE /\ want.side = "SELL" /\ ~state.over
           /\ Prepared("LOCAL_MATH", computeCurveSell(state.reserves, want.amountIn), 0, None)
  <2> DEFINE amountOut == computeCurveSell(state.reserves, want.amountIn)
  <2>1. ASSUME ~disturbed
        PROVE  Possible(want) /\ amountOut \in Nat /\ amountOut = Brings
    <3>1. state.reserves = curve /\ Trading
      BY <1>1, <1>5, <2>1 DEF AmountInv, QuoteInv, ReadsFresh
    <3>2. Possible(want)
      BY <1>2, <1>5, <3>1 DEF Possible
    <3>3. amountOut = Brings
      BY <1>5, <3>1 DEF Brings
    <3>4. amountOut = computeCurveSell(curve, want.amountIn)
      BY <3>1, SameCurve
    <3>5. FeeBps + CreatorTaxBps < BASIS_POINTS
      BY CurveAssumption DEF FeesAreSmall
    <3>6. amountOut \in Nat
      BY <1>1, <1>2, <3>1, <3>4, <3>5, TradingCurve, SellTyped DEF CurveKept
    <3> QED
      BY <3>2, <3>3, <3>6
  <2> HIDE DEF amountOut
  <2>2. Prepared("LOCAL_MATH", amountOut, 0, None)
    BY <1>5 DEF amountOut
  <2> QED
    BY <1>1, <2>1, <2>2, PreparedWillLand
<1>6. \/ \E code : Refuse(code)
      \/ stage' = "tax"
      \/ /\ want.side = "SELL" /\ ~state.over
         /\ Prepared("LOCAL_MATH", computeCurveSell(state.reserves, want.amountIn), 0, None)
  <2>1. want.side \in {"BUY", "SELL"}
    BY <1>1, WantTyped
  <2> QED
    BY <2>1 DEF ReadBlock, Sell, CurveFinished
<1> QED
  BY <1>3, <1>4, <1>5, <1>6

LEMMA ReadTaxKeepsAmounts ==
  ASSUME QuotesAssumption, FeesAreSmall, AmountInv, QuoteInv', ReadTax
  PROVE  AmountInv'
<1> DEFINE tax == TaxNow
           local == computeCurveBuy(state.reserves, want.amountIn, tax)
<1>1. /\ Answered /\ stage = "tax" /\ want \in Wants /\ ~Unacceptable
      /\ state.reserves # None /\ state.over # None /\ ~state.over /\ want.side = "BUY"
      /\ CurveKept /\ time \in Nat
  BY DEF ReadTax, AmountInv, QuoteInv, Checked, TaxShown
<1>2. want.amountIn \in Nat /\ want.amountIn > 0 /\ tax \in Nat
  BY <1>1, WantTyped, TaxTyped DEF Unacceptable
<1>3. CASE \E code : Refuse(code)
  BY <1>1, <1>3, RefusedKeepsAmounts
<1>4. CASE stage' = "simulate"
  BY <1>1, <1>4, ReadsKeepAmounts DEF Answered, marketVars
<1>5. CASE /\ ~Declines(tax) /\ Buyable(state.reserves, want.amountIn, tax)
           /\ Prepared("LOCAL_MATH", local.tokensOut, tax, local)
  <2>1. ASSUME ~disturbed
        PROVE  Possible(want) /\ local.tokensOut \in Nat /\ local.tokensOut = Brings
    <3>1. state.reserves = curve /\ Trading
      BY <1>1, <2>1 DEF AmountInv, QuoteInv, ReadsFresh
    <3>2. Charged(tax) = tax
      <4>1. totalTaxBps(tax) < BASIS_POINTS
        BY <1>2, <1>5, CurveAssumption DEF Declines, totalTaxBps
      <4> QED
        BY <4>1 DEF Charged
    <3>3. Possible(want)
      BY <1>2, <1>5, <3>1, <3>2 DEF Possible
    <3>4. local = Bought(curve, want.amountIn, tax)
      BY <3>1, <3>2 DEF Bought
    <3> HIDE DEF local
    <3>5. local.tokensOut = Brings
      BY <1>1, <3>4 DEF Brings
    <3>6. local.tokensOut \in Nat
      BY <1>1, <3>3, <3>4, PossibleBuy
    <3> QED
      BY <3>3, <3>5, <3>6
  <2> DEFINE l == local
             amountOut == l.tokensOut
  <2>2. Prepared("LOCAL_MATH", amountOut, tax, l)
    BY <1>5
  <2>3. ~disturbed => Possible(want) /\ amountOut \in Nat /\ amountOut = Brings
    BY <2>1
  <2> HIDE DEF amountOut, l, local, tax
  <2> QED
    BY <1>1, <2>2, <2>3, PreparedWillLand
<1>6. \/ \E code : Refuse(code)
      \/ stage' = "simulate"
      \/ /\ ~Declines(tax) /\ Buyable(state.reserves, want.amountIn, tax)
         /\ Prepared("LOCAL_MATH", local.tokensOut, tax, local)
  <2> HIDE DEF local
  <2> QED
    BY DEF ReadTax, snipeTax, local
<1> QED
  BY <1>3, <1>4, <1>5, <1>6

LEMMA SimulateKeepsAmounts ==
  ASSUME QuotesAssumption, FeesAreSmall, AmountInv, QuoteInv', Simulate
  PROVE  AmountInv'
<1>1. /\ Answered /\ stage = "simulate" /\ want \in Wants /\ ~Unacceptable
      /\ want.side = "BUY" /\ CurveKept /\ time \in Nat
  BY DEF Simulate, AmountInv, QuoteInv, Checked, TaxShown
<1>2. CASE \E code : Refuse(code)
  BY <1>1, <1>2, RefusedKeepsAmounts
<1> DEFINE amountOut == Bought(curve, want.amountIn, TaxNow).tokensOut
<1>3. CASE Possible(want) /\ Prepared("SIMULATION", amountOut, trade.snipeTaxBps, trade.local)
  <2>1. amountOut \in Nat /\ amountOut = Brings
    BY <1>1, <1>3, PossibleBuy DEF Brings
  <2> HIDE DEF amountOut
  <2> QED
    BY <1>1, <1>3, <2>1, PreparedWillLand
<1> QED
  BY <1>2, <1>3 DEF Simulate

LEMMA MineKeepsAmounts ==
  ASSUME QuotesAssumption, FeesAreSmall, AmountInv, QuoteInv', Mine
  PROVE  AmountInv'
<1>1. /\ stage = "sent" /\ want \in Wants /\ CurveKept /\ time \in Nat
      /\ UNCHANGED <<want, trade, disturbed>>
  BY DEF Mine, AmountInv, QuoteInv, Checked, TaxShown
<1>2. want.amountIn \in Nat /\ want.side \in {"BUY", "SELL"}
  BY <1>1, WantTyped
<1> DEFINE buy == Bought(curve, want.amountIn, TaxNow)
<1>3. CASE Possible(want) /\ ClearsFloor(want, trade.minOut)
  <2>1. /\ stage' = "landed" /\ got'.out = Brings
        /\ curve' = IF want.side = "BUY" THEN AfterBuy(curve, buy)
                    ELSE AfterSell(curve, want.amountIn)
    <3> HIDE DEF buy
    <3> QED
      BY <1>3 DEF Mine, Brings, buy
  <2>2. CurveKept'
    <3>1. CASE want.side = "BUY"
      <4> DEFINE s == Charged(TaxNow)
                 x == want.amountIn
      <4>1. s \in Nat /\ x \in Nat
        BY <1>1, <1>2, ChargedTyped
      <4>2. Buyable(curve, x, s) /\ curve' = AfterBuy(curve, computeCurveBuy(curve, x, s))
        BY <1>3, <2>1, <3>1 DEF Possible, Bought
      <4> HIDE DEF s, x
      <4> QED
        BY <1>1, <4>1, <4>2, BuyKeepsReserves
    <3>2. CASE want.side = "SELL"
      <4>1. Trading /\ curve' = AfterSell(curve, want.amountIn)
        BY <1>3, <2>1, <3>2 DEF Possible
      <4> QED
        BY <1>1, <1>2, <4>1, SellKeepsReserves
    <3> QED
      BY <1>2, <3>1, <3>2
  <2>3. ~disturbed => Brings >= trade.amountOut
    BY <1>1 DEF AmountInv, WillLand
  <2> DEFINE b == Brings
  <2>4. got'.out = b /\ (~disturbed => b >= trade.amountOut)
    BY <2>1, <2>3
  <2> HIDE DEF b
  <2> QED
    BY <1>1, <2>1, <2>2, <2>4 DEF AmountInv, WillLand
<1>4. CASE ~(Possible(want) /\ ClearsFloor(want, trade.minOut))
  <2>1. stage' = "reverted" /\ UNCHANGED curve
    BY <1>4 DEF Mine
  <2>2. disturbed
    <3> SUFFICES ASSUME ~disturbed PROVE FALSE
      OBVIOUS
    <3>1. /\ Possible(want) /\ Brings >= trade.amountOut
          /\ trade.amountOut \in Nat /\ trade.minOut \in 0..trade.amountOut
      BY <1>1 DEF AmountInv, WillLand
    <3>2. CASE want.side = "SELL"
      <4>1. computeCurveSell(curve, want.amountIn) \in Nat
        <5>1. FeeBps + CreatorTaxBps < BASIS_POINTS
          BY CurveAssumption DEF FeesAreSmall
        <5>2. Trading
          BY <3>1 DEF Possible
        <5> QED
          BY <1>1, <1>2, <5>1, <5>2, TradingCurve, SellTyped DEF CurveKept
      <4> DEFINE out == computeCurveSell(curve, want.amountIn)
      <4>2. out \in Nat /\ out >= trade.amountOut
        BY <3>1, <3>2, <4>1, SameCurve DEF Brings
      <4> HIDE DEF out
      <4>3. out >= trade.minOut
        BY <3>1, <4>2
      <4> QED
        BY <1>4, <3>1, <3>2, <4>3 DEF ClearsFloor, out
    <3>3. CASE want.side = "BUY"
      <4>1. /\ buy.tokensOut \in Nat /\ buy.spent \in Nat /\ buy.spent <= want.amountIn
            /\ buy.tokensOut >= trade.amountOut
        BY <1>1, <3>1, <3>3, PossibleBuy DEF Brings
      <4> HIDE DEF buy
      <4> DEFINE out == buy.tokensOut
                 spent == buy.spent
                 x == want.amountIn
                 floor == trade.minOut
      <4>2. out \in Nat /\ spent \in Nat /\ x \in Nat /\ floor \in Nat /\ spent <= x /\ floor <= out
        BY <1>2, <3>1, <4>1
      <4>3. ~(out * x >= floor * spent)
        BY <1>4, <3>1, <3>3 DEF ClearsFloor, buy
      <4> HIDE DEF out, spent, x, floor
      <4>4. floor * spent <= out * spent /\ spent * out <= x * out
        BY <4>2, Scales
      <4>5. /\ spent * out = out * spent /\ x * out = out * x
            /\ floor * spent \in Int /\ out * spent \in Int /\ out * x \in Int
        BY <4>2, Distributes
      <4> QED
        BY <4>3, <4>4, <4>5
    <3> QED
      BY <1>2, <3>2, <3>3
  <2> QED
    BY <1>1, <2>1, <2>2 DEF AmountInv, WillLand, CurveKept
<1> QED
  BY <1>3, <1>4

LEMMA SendKeepsAmounts ==
  ASSUME AmountInv, QuoteInv', SendTrade
  PROVE  AmountInv'
<1>1. /\ stage = "prepared" /\ stage' = "sent"
      /\ UNCHANGED <<curve, phase, time, want, trade, got, disturbed>>
  BY DEF SendTrade, marketVars
<1>2. Possible(want)' = Possible(want) /\ Brings' = Brings
  BY <1>1 DEF Possible, Trading, Brings, TaxNow
<1> QED
  BY <1>1, <1>2 DEF AmountInv, WillLand, CurveKept

LEMMA AmountStep ==
  ASSUME QuotesAssumption, FeesAreSmall, AmountInv, [QuotesNext]_quotesVars
  PROVE  AmountInv'
<1>1. QuoteInv'
  BY QuoteStep DEF AmountInv
<1>2. CASE UNCHANGED quotesVars \/ TokenPage
  <2>1. /\ UNCHANGED <<curve, phase, time, want, stage, trade, got>>
        /\ disturbed' \/ stage = "idle" \/ UNCHANGED <<curve, phase, disturbed>>
    BY <1>2 DEF quotesVars, marketVars, tradeVars, TokenPage, OpenPage, PageReadsLaunch,
       PageReadsCurve, PageFails
  <2>2. CurveKept'
    BY <2>1 DEF AmountInv, CurveKept
  <2> QED
    BY <1>1, <2>1, <2>2, OthersKeepAmounts
<1> QED
  BY <1>1, <1>2, TickKeepsAmounts, ChainKeepsAmounts, EarlyReadsKeepAmounts,
     ReadBlockKeepsAmounts, ReadTaxKeepsAmounts, SimulateKeepsAmounts, MineKeepsAmounts,
     SendKeepsAmounts DEF QuotesNext, Chain, PrepareTrade

\* If nobody else acts after prepareTrade was called, the trade it prepares is never
\* reverted and brings at least the amount it showed, however long it took to be signed.
THEOREM QuotesAreKept ==
  ASSUME QuotesAssumption, FeesAreSmall
  PROVE  QuotesSpec => []AsQuoted
<1>1. AmountInv => AsQuoted
  BY DEF AmountInv, WillLand, AsQuoted, Undisturbed
<1> QED
  BY <1>1, AmountInit, AmountStep, PTL DEF QuotesSpec

-----------------------------------------------------------------------------
(* Types; the trader's tokens are among those that were sold.              *)

TokensKept == curve.token <= Supply /\ Held <= Circulating

\* What is prepared is made of numbers, whatever the reads have mixed.
TradeTyped ==
  /\ stage = "simulate" => trade.snipeTaxBps \in 0..BASIS_POINTS
  /\ stage \in {"prepared", "sent", "landed", "reverted"} =>
       /\ trade.amountOut \in Nat /\ trade.minOut \in 0..trade.amountOut
       /\ trade.snipeTaxBps \in 0..BASIS_POINTS

Stages == {"idle", "launch", "state", "block", "tax", "simulate", "refused", "prepared",
           "sent", "landed", "reverted"}

SettingTyped ==
  /\ phase \in Phases
  /\ time \in 0..MaxTime /\ others \in 0..MaxOthers
  /\ want \in Wants \union {None}
  /\ stage \in Stages
  /\ launch \in Phases \union {None}
  /\ state.reserves \in {None} \union [quote : Nat, token : 0..Supply]
  /\ state.over \in {None} \union BOOLEAN
  /\ "at" \in DOMAIN page /\ page.at \in {"away", "launch", "curve", "shown"}

QuoteTypes == AmountInv /\ TokensKept /\ TradeTyped /\ SettingTyped

LEMMA QuoteTypesEnough == QuoteTypes => QuotesTypeOK
<1> SUFFICES ASSUME QuoteTypes PROVE QuotesTypeOK
  OBVIOUS
<1>1. curve \in [quote : Nat, token : 0..Supply]
  BY DEF QuoteTypes, AmountInv, CurveKept, Reserves, TokensKept
<1>2. state \in [reserves : {None} \union [quote : Nat, token : 0..Supply],
                 over : {None} \union BOOLEAN]
  <2> DEFINE r == state.reserves
             o == state.over
             R == {None} \union [quote : Nat, token : 0..Supply]
             O == {None} \union BOOLEAN
  <2>1. state = [reserves |-> r, over |-> o] /\ r \in R /\ o \in O
    BY DEF QuoteTypes, AmountInv, QuoteInv, ReadsFresh, SettingTyped
  <2> HIDE DEF r, o, R, O
  <2>2. state \in [reserves : R, over : O]
    BY <2>1
  <2> QED
    BY <2>2 DEF R, O
<1> QED
  BY <1>1, <1>2 DEF QuoteTypes, TradeTyped, SettingTyped, Stages, QuotesTypeOK

LEMMA SettingInit ==
  ASSUME QuotesAssumption, QuotesInit
  PROVE  SettingTyped /\ TradeTyped
BY DEF QuotesInit, QuotesAssumption, SettingTyped, TradeTyped, Stages, Phases, Unread, NoPage

LEMMA SettingStep ==
  ASSUME QuotesAssumption, QuoteTypes, [QuotesNext]_quotesVars
  PROVE  SettingTyped'
<1> USE DEF Answered, marketVars, tradeVars
<1>0. SettingTyped /\ state = [reserves |-> state.reserves, over |-> state.over]
      /\ curve \in [quote : Nat, token : 0..Supply]
  <2>1. curve \in [quote : Nat, token : 0..Supply]
    BY DEF QuoteTypes, AmountInv, CurveKept, Reserves, TokensKept
  <2> QED
    BY <2>1 DEF QuoteTypes, AmountInv, QuoteInv, ReadsFresh
<1>1. phase' \in Phases
  <2>1. UNCHANGED phase \/ Graduate
    BY DEF QuotesNext, quotesVars, Chain, PrepareTrade, TokenPage, Tick, OtherBuys,
       OtherSells, Ask, ReadLaunch, ReadReserves, ReadOver, Route, ReadBlock,
       ReadTax, Simulate, ReadFails, SendTrade, Mine, OpenPage, PageReadsLaunch,
       PageReadsCurve, PageFails
  <2> QED
    BY <1>0, <2>1 DEF SettingTyped, Graduate, Phases
<1>2. time' \in 0..MaxTime /\ others' \in 0..MaxOthers
  <2>1. /\ time' = time \/ (time < MaxTime /\ time' = time + 1)
        /\ others' = others \/ (others < MaxOthers /\ others' = others + 1)
    BY DEF QuotesNext, quotesVars, Chain, PrepareTrade, TokenPage, Tick, OtherBuys,
       OtherSells, Graduate, Other, Ask, ReadLaunch, ReadReserves, ReadOver,
       Route, ReadBlock, ReadTax, Simulate, ReadFails, SendTrade, Mine, OpenPage,
       PageReadsLaunch, PageReadsCurve, PageFails
  <2>2. MaxTime \in Nat /\ MaxOthers \in Nat
    BY DEF QuotesAssumption
  <2> QED
    BY <1>0, <2>1, <2>2 DEF SettingTyped
<1>3. /\ want' \in Wants \union {None}
      /\ stage' \in Stages
      /\ launch' \in Phases \union {None}
  <2>1. want' \in Wants \/ UNCHANGED want
    BY DEF QuotesNext, quotesVars, Chain, PrepareTrade, TokenPage, Tick, OtherBuys,
       OtherSells, Graduate, Other, Ask, ReadLaunch, ReadReserves, ReadOver,
       Route, ReadBlock, ReadTax, Simulate, ReadFails, SendTrade, Mine, OpenPage,
       PageReadsLaunch, PageReadsCurve, PageFails
  <2>2. launch' = phase \/ UNCHANGED launch
    BY DEF QuotesNext, quotesVars, Chain, PrepareTrade, TokenPage, Tick, OtherBuys,
       OtherSells, Graduate, Other, Ask, ReadLaunch, ReadReserves, ReadOver,
       Route, ReadBlock, ReadTax, Simulate, ReadFails, SendTrade, Mine, OpenPage,
       PageReadsLaunch, PageReadsCurve, PageFails
  <2>3. stage' \in Stages
    <3>1. CASE UNCHANGED stage
      BY <1>0, <3>1 DEF SettingTyped
    <3>2. CASE Ask \/ ReadLaunch \/ Route \/ ReadFails
      BY <3>2 DEF Ask, ReadLaunch, Route, ReadFails, Refuse, RefusedAs, Stages
    <3>3. CASE ReadBlock
      <4>1. (\E code : Refuse(code)) \/ stage' = "tax" \/ stage' = "prepared"
        <5>1. want.side = "SELL" => Sell
          BY <3>3 DEF ReadBlock
        <5>2. want.side # "SELL" /\ ~(want.side = "BUY" /\ CurveFinished) => stage' = "tax"
          BY <3>3 DEF ReadBlock
        <5>3. want.side # "SELL" /\ want.side = "BUY" /\ CurveFinished
                => Refuse("CURVE_GRADUATED")
          BY <3>3 DEF ReadBlock
        <5> QED
          BY <5>1, <5>2, <5>3 DEF Sell, Prepared
      <4> QED
        BY <4>1 DEF Refuse, RefusedAs, Stages
    <3>4. CASE ReadTax \/ Simulate \/ SendTrade \/ Mine
      BY <3>4 DEF ReadTax, Simulate, SendTrade, Mine, Refuse, RefusedAs, Prepared, Stages
    <3> QED
      BY <3>1, <3>2, <3>3, <3>4 DEF QuotesNext, quotesVars, Chain, PrepareTrade, TokenPage, Tick,
       OtherBuys, OtherSells, Graduate, Other, ReadReserves, ReadOver,
       OpenPage, PageReadsLaunch, PageReadsCurve, PageFails
  <2> QED
    BY <1>0, <2>1, <2>2, <2>3 DEF SettingTyped
<1>4. /\ state'.reserves \in {None} \union [quote : Nat, token : 0..Supply]
      /\ state'.over \in {None} \union BOOLEAN
  <2>1. \/ state' = state
        \/ state' = [state EXCEPT !.reserves = curve]
        \/ state' = [state EXCEPT !.over = phase # "NotGraduated" \/ ready(curve)]
    BY DEF QuotesNext, quotesVars, Chain, PrepareTrade, TokenPage, Tick, OtherBuys,
       OtherSells, Graduate, Other, Ask, ReadLaunch, ReadReserves, ReadOver,
       Route, ReadBlock, ReadTax, Simulate, ReadFails, SendTrade, Mine, OpenPage,
       PageReadsLaunch, PageReadsCurve, PageFails
  <2> DEFINE r == state.reserves
             o == state.over
             over == phase # "NotGraduated" \/ ready(curve)
  <2>2. state = [reserves |-> r, over |-> o]
    BY <1>0
  <2>3. over \in BOOLEAN
    OBVIOUS
  <2> HIDE DEF r, o, over
  <2>4. /\ [state EXCEPT !.reserves = curve] = [reserves |-> curve, over |-> o]
        /\ [state EXCEPT !.over = over] = [reserves |-> r, over |-> over]
    BY <2>2
  <2>5. \/ state' = state
        \/ state'.reserves = curve /\ state'.over = o
        \/ state'.reserves = r /\ state'.over = over
    BY <2>1, <2>4 DEF over
  <2> QED
    BY <1>0, <2>3, <2>5 DEF SettingTyped, r, o
<1>5. "at" \in DOMAIN page' /\ page'.at \in {"away", "launch", "curve", "shown"}
  <2>1. CASE OpenPage
    BY <2>1 DEF OpenPage, NoPage
  <2>2. CASE PageReadsLaunch
    BY <1>0, <2>2 DEF PageReadsLaunch, SettingTyped
  <2>3. CASE PageReadsCurve
    BY <1>0, <2>3 DEF PageReadsCurve, SettingTyped
  <2>4. CASE PageFails
    BY <2>4 DEF PageFails, NoPage
  <2>5. CASE UNCHANGED page
    BY <1>0, <2>5 DEF SettingTyped
  <2> QED
    BY <2>1, <2>2, <2>3, <2>4, <2>5 DEF QuotesNext, quotesVars, Chain, PrepareTrade, TokenPage,
       Tick, OtherBuys, OtherSells, Graduate, Other, Ask, ReadLaunch,
       ReadReserves, ReadOver, Route, ReadBlock, ReadTax, Simulate, ReadFails,
       SendTrade, Mine
<1> QED
  BY <1>1, <1>2, <1>3, <1>4, <1>5 DEF SettingTyped

LEMMA TokensInit ==
  ASSUME QuotesAssumption, FeesAreSmall, QuotesInit
  PROVE  TokensKept
<1>1. AmountInv
  BY AmountInit
<1>2. Held = 0 /\ phase = "NotGraduated" /\ Supply \in Nat
  BY CurveAssumption DEF QuotesInit, Held, QuotesAssumption
<1>3. curve.token \in Nat
  BY <1>1 DEF AmountInv, CurveKept, Reserves
<1>4. curve.token <= Supply
  <2> DEFINE c == Launched
  <2>1. CASE curve = c
    BY <1>2, <2>1 DEF Launched
  <2>2. ASSUME NEW x \in BuyAmounts \ {0}, curve = AfterBuy(c, Bought(c, x, 0))
        PROVE  curve.token <= Supply
    <3> DEFINE buy == computeCurveBuy(c, x, 0)
               room == sellable(c)
               full == Unclamped(c, x, 0)
    <3>1. c \in Reserves /\ c.quote \in Nat \ {0} /\ c.token = Supply
      BY CurveAssumption DEF Launched, Reserves, QuotesAssumption
    <3>2. Charged(0) = 0 /\ totalTaxBps(0) < BASIS_POINTS /\ x \in Nat
      <4>1. FeeBps + CreatorTaxBps < BASIS_POINTS /\ FeeBps + CreatorTaxBps \in Nat
        BY ONLY FeesAreSmall, CurveAssumption DEF FeesAreSmall
      <4>2. totalTaxBps(0) = FeeBps + CreatorTaxBps /\ totalTaxBps(0) = FeeBps + CreatorTaxBps
        BY ONLY <4>1, CurveAssumption DEF totalTaxBps, totalTaxBps
      <4>3. Charged(0) = 0
        BY <4>1, <4>2 DEF Charged
      <4>4. x \in Nat
        BY DEF QuotesAssumption
      <4> QED BY <4>1, <4>2, <4>3, <4>4
    <3>3. Net(x, 0) \in Nat
      BY <3>2, NetBounds
    <3> HIDE DEF c
    <3>4. curve.token = c.token - buy.tokensOut
      BY <2>2, <3>2, SameCurve DEF Bought, AfterBuy
    <3>5. full \in Nat
      BY <1>2, <3>1, <3>3, AmountOut DEF Unclamped
    <3>6. room \in Nat
      BY <1>2, <3>1, CurveAssumption DEF sellable
    <3>7. buy.tokensOut = IF full > room THEN room ELSE full
      BY DEF computeCurveBuy
    <3> HIDE DEF full, room, buy
    <3> QED
      BY <1>2, <3>1, <3>4, <3>5, <3>6, <3>7
  <2> QED
    BY <2>1, <2>2 DEF QuotesInit
<1> QED
  BY <1>2, <1>3, <1>4 DEF TokensKept, Circulating

\* A buy of anyone takes tokens from the curve only.
LEMMA BuyKeepsTokens ==
  ASSUME CurveKept, TokensKept, Trading, UNCHANGED phase, Supply \in Nat,
         NEW x \in Nat, NEW s \in Nat, Buyable(curve, x, s),
         curve' = AfterBuy(curve, computeCurveBuy(curve, x, s)),
         Held' = 0 \/ Held' = Held, Held \in Nat
  PROVE  TokensKept'
<1> DEFINE buy == computeCurveBuy(curve, x, s)
<1>1. curve' = [quote |-> curve.quote + buy.net, token |-> curve.token - buy.tokensOut]
  BY SameCurve DEF AfterBuy
<1>2. Buyable(curve, x, s)
  BY SameCurve
<1>3. buy.tokensOut \in Nat /\ buy.tokensOut <= curve.token - ReservedTokens
  BY <1>2, BuySound DEF CurveKept
<1>4. curve.token \in Nat /\ phase = "NotGraduated"
  BY DEF CurveKept, Reserves, Trading
<1> HIDE DEF buy
<1> DEFINE held == Held
           after == Held'
<1>5. held \in Nat /\ held <= Supply - curve.token /\ (after = 0 \/ after = held)
  BY <1>4 DEF TokensKept, Circulating
<1>6. curve'.token = curve.token - buy.tokensOut
  BY <1>1
<1> HIDE DEF held, after
<1>7. curve'.token <= Supply /\ after <= Supply - curve'.token
  BY <1>3, <1>4, <1>5, <1>6, CurveAssumption DEF TokensKept
<1>8. Circulating' = Supply - curve'.token
  BY <1>4 DEF Circulating
<1> QED
  BY <1>7, <1>8 DEF TokensKept, after

LEMMA HeldTyped ==
  ASSUME QuotesAssumption, QuoteTypes
  PROVE  Held \in Nat /\ Supply \in Nat \ {0} /\ curve.token \in 0..Supply
         /\ (phase = "NotGraduated" => Held <= Supply - curve.token)
         /\ Held <= Supply
<1>1. Supply \in Nat \ {0} /\ curve.token \in 0..Supply
  BY CurveAssumption DEF QuotesAssumption, QuoteTypes, AmountInv, CurveKept, Reserves, TokensKept
<1>2. stage # "idle" => want.amountIn \in Nat
  BY WantTyped DEF QuoteTypes, AmountInv, QuoteInv, Checked
<1>3. Held \in Nat
  BY <1>2 DEF Held
<1>4. Held <= Circulating
  BY DEF QuoteTypes, TokensKept
<1> QED
  BY <1>1, <1>3, <1>4 DEF Circulating

LEMMA TokensStep ==
  ASSUME QuotesAssumption, FeesAreSmall, QuoteTypes, [QuotesNext]_quotesVars
  PROVE  TokensKept'
<1> USE DEF Answered, marketVars, tradeVars
<1>1. CurveKept /\ TokensKept /\ time \in Nat /\ (stage # "idle" => want \in Wants)
  BY DEF QuoteTypes, AmountInv, QuoteInv, TaxShown, Checked
<1>2. /\ Held \in Nat /\ Supply \in Nat \ {0} /\ curve.token \in 0..Supply
      /\ (phase = "NotGraduated" => Held <= Supply - curve.token)
      /\ Held <= Supply
  BY HeldTyped
<1>3. ASSUME UNCHANGED <<curve, phase>>, Held' = 0 \/ Held' = Held
      PROVE  TokensKept'
  <2>1. Circulating' = Circulating /\ Circulating \in Nat
    BY <1>2, <1>3 DEF Circulating
  <2> QED
    BY <1>1, <1>2, <1>3, <2>1 DEF TokensKept
<1>4. CASE UNCHANGED quotesVars \/ Tick \/ TokenPage
  <2>1. UNCHANGED <<curve, phase, stage, want>>
    BY <1>4 DEF quotesVars, Tick, TokenPage, OpenPage, PageReadsLaunch, PageReadsCurve,
       PageFails
  <2> QED
    BY <1>3, <2>1 DEF Held
<1>5. CASE OtherBuys
  <2>1. Charged(0) = 0
    BY CurveAssumption DEF Charged, totalTaxBps, FeesAreSmall
  <2>2. PICK x \in BuyAmounts \ {0} :
          Buyable(curve, x, 0) /\ curve' = AfterBuy(curve, computeCurveBuy(curve, x, 0))
    BY <1>5, <2>1 DEF OtherBuys, Bought
  <2>3. x \in Nat /\ Trading /\ UNCHANGED phase
    BY <1>5 DEF QuotesAssumption, OtherBuys
  <2>4. Held' = Held
    BY <1>5 DEF OtherBuys, Other, Held
  <2> QED
    BY <1>1, <1>2, <2>2, <2>3, <2>4, BuyKeepsTokens
<1>6. CASE OtherSells
  <2>1. PICK x \in SellAmounts \ {0} :
          x + Held <= Circulating /\ curve' = AfterSell(curve, x)
    BY <1>6 DEF OtherSells
  <2>2. x \in Nat /\ phase = "NotGraduated" /\ UNCHANGED <<phase, stage, want>>
    BY <1>6 DEF QuotesAssumption, OtherSells, Other, Trading
  <2>3. curve'.token = curve.token + x
    <3>1. AfterSell(curve, x) = AfterSell(curve, x)
      BY SameCurve
    <3> QED
      BY <2>1, <3>1 DEF AfterSell
  <2>4. Held' = Held /\ Circulating' = Supply - curve'.token
        /\ Circulating = Supply - curve.token
    BY <2>2 DEF Held, Circulating
  <2> QED
    BY <1>2, <2>1, <2>2, <2>3, <2>4 DEF TokensKept
<1>7. CASE Graduate
  <2>1. Held' = Held
    BY <1>7 DEF Graduate, Other, Held
  <2>2. \/ phase' # "NotGraduated" /\ curve' = [quote |-> PhantomQuote, token |-> 0]
        \/ phase' # "NotGraduated" /\ curve' = curve
    BY <1>7 DEF Graduate
  <2>3. curve'.token \in 0..Supply /\ Circulating' = Supply
    BY <1>2, <2>2 DEF Circulating
  <2> QED
    BY <1>2, <2>1, <2>3 DEF TokensKept
<1>8. CASE Ask
  <2>1. UNCHANGED <<curve, phase>> /\ stage' = "launch"
        /\ (want'.side = "SELL" => want'.amountIn <= Circulating)
    BY <1>8 DEF Ask
  <2>2. Circulating' = Circulating /\ Circulating \in Nat
    BY <1>2, <2>1 DEF Circulating
  <2>3. Held' <= Circulating'
    BY <2>1, <2>2 DEF Held
  <2> QED
    BY <1>1, <2>1, <2>3 DEF TokensKept
<1>9. CASE ReadLaunch \/ ReadReserves \/ ReadOver \/ Route \/ ReadBlock \/ ReadTax
           \/ Simulate \/ ReadFails \/ SendTrade
  <2>1. UNCHANGED <<curve, phase, want>>
    BY <1>9 DEF ReadLaunch, ReadReserves, ReadOver, Route, ReadBlock, ReadTax,
       Simulate, ReadFails, SendTrade
  <2>2. stage \notin {"idle", "landed"}
    BY <1>9 DEF ReadLaunch, ReadReserves, ReadOver, Route, ReadBlock, ReadTax,
       Simulate, ReadFails, SendTrade
  <2>3. Held' = 0 \/ Held' = Held
    BY <2>1, <2>2 DEF Held
  <2> QED
    BY <1>3, <2>1, <2>3
<1>10. CASE Mine
  <2> DEFINE buy == Bought(curve, want.amountIn, TaxNow)
  <2>1. UNCHANGED <<phase, want>> /\ stage = "sent" /\ want \in Wants
        /\ want.amountIn \in Nat /\ want.side \in {"BUY", "SELL"}
    BY <1>1, <1>10, WantTyped DEF Mine
  <2>2. CASE stage' = "reverted" /\ UNCHANGED curve
    BY <1>3, <2>1, <2>2 DEF Held
  <2>3. CASE /\ Possible(want) /\ want.side = "BUY" /\ stage' = "landed"
             /\ curve' = AfterBuy(curve, buy)
    <3> DEFINE s == Charged(TaxNow)
               x == want.amountIn
    <3>1. s \in Nat /\ x \in Nat
      BY <1>1, <2>1, ChargedTyped
    <3>2. Buyable(curve, x, s) /\ curve' = AfterBuy(curve, computeCurveBuy(curve, x, s))
          /\ Trading
      BY <2>3 DEF Possible, Bought
    <3>3. Held' = 0
      BY <2>3 DEF Held
    <3> HIDE DEF s, x
    <3> QED
      BY <1>1, <1>2, <2>1, <3>1, <3>2, <3>3, BuyKeepsTokens
  <2>4. CASE /\ Possible(want) /\ want.side = "SELL" /\ stage' = "landed"
             /\ curve' = AfterSell(curve, want.amountIn)
    <3>1. Held' = 0 /\ Held = want.amountIn
      BY <2>1, <2>4 DEF Held
    <3>2. phase = "NotGraduated" /\ curve'.token = curve.token + want.amountIn
      BY <2>4, SameCurve DEF Possible, Trading, AfterSell
    <3>3. Circulating' = Supply - curve'.token
      BY <2>1, <3>2 DEF Circulating
    <3> QED
      BY <1>2, <2>1, <3>1, <3>2, <3>3 DEF TokensKept
  <2>5. \/ stage' = "reverted" /\ UNCHANGED curve
        \/ /\ Possible(want) /\ stage' = "landed"
           /\ curve' = IF want.side = "BUY" THEN AfterBuy(curve, buy)
                       ELSE AfterSell(curve, want.amountIn)
    <3> HIDE DEF buy
    <3> QED
      BY <1>10 DEF Mine, buy
  <2> QED
    BY <2>1, <2>2, <2>3, <2>4, <2>5
<1> QED
  BY <1>4, <1>5, <1>6, <1>7, <1>8, <1>9, <1>10 DEF QuotesNext, Chain, PrepareTrade

LEMMA LocalTyped ==
  ASSUME QuotesAssumption, NEW c \in Reserves, NEW x \in Nat, NEW s \in Nat,
         Buyable(c, x, s)
  PROVE  computeCurveBuy(c, x, s).tokensOut \in Nat
<1>1. Buyable(c, x, s)
  BY SameCurve
<1>2. computeCurveBuy(c, x, s).tokensOut \in Nat
  BY <1>1, BuySound
<1> QED
  BY <1>2, SameCurve

LEMMA PreparedTyped ==
  ASSUME QuotesAssumption, NEW source, NEW amountOut \in Nat, NEW tax \in 0..BASIS_POINTS,
         NEW local, Prepared(source, amountOut, tax, local), ~Unacceptable
  PROVE  TradeTyped'
<1>1. /\ stage' = "prepared" /\ trade'.amountOut = amountOut /\ trade'.snipeTaxBps = tax
      /\ trade'.minOut = applySlippageFloor(amountOut, want.slippageBps)
  BY DEF Prepared
<1>2. want.slippageBps \in 0..BASIS_POINTS
  BY CurveAssumption DEF QuotesAssumption, Unacceptable
<1>3. applySlippageFloor(amountOut, want.slippageBps) \in 0..amountOut
  BY <1>2, SlippageFloor
<1> QED
  BY <1>1, <1>3 DEF TradeTyped

LEMMA TradeStep ==
  ASSUME QuotesAssumption, FeesAreSmall, QuoteTypes, [QuotesNext]_quotesVars
  PROVE  TradeTyped'
<1> USE DEF Answered, marketVars, tradeVars
<1>1. TradeTyped /\ CurveKept /\ time \in Nat
      /\ (stage # "idle" => want \in Wants)
  BY DEF QuoteTypes, AmountInv, QuoteInv, TaxShown, Checked
<1>2. TaxNow \in 0..BASIS_POINTS /\ TaxNow \in Nat
  <2>1. TaxNow \in 0..StartBps /\ TaxNow \in Nat /\ StartBps \in 0..BASIS_POINTS
    BY <1>1, TaxTyped
  <2> QED
    BY <2>1, CurveAssumption
<1>3. CASE UNCHANGED <<stage, trade>>
  BY <1>1, <1>3 DEF TradeTyped
<1>4. CASE stage' \in {"launch", "state", "block", "tax", "refused"}
  BY <1>4 DEF TradeTyped
<1>5. CASE ReadBlock
  <2>1. stage = "block" /\ want \in Wants /\ ~Unacceptable /\ state.reserves # None
    BY <1>5 DEF ReadBlock, QuoteTypes, AmountInv, QuoteInv, Checked
  <2>2. want.amountIn \in Nat /\ want.amountIn > 0 /\ want.side \in {"BUY", "SELL"}
    BY <2>1, WantTyped DEF Unacceptable
  <2> DEFINE r == state.reserves
             amountOut == computeCurveSell(r, want.amountIn)
  <2>3. r \in Reserves /\ r.token \in Nat
    BY <2>1 DEF QuoteTypes, SettingTyped, Reserves
  <2>4. amountOut \in Nat
    <3>1. FeeBps + CreatorTaxBps < BASIS_POINTS
      BY CurveAssumption DEF FeesAreSmall
    <3> HIDE DEF r
    <3>2. computeCurveSell(r, want.amountIn) \in Nat
      BY <2>2, <2>3, <3>1, SellTyped
    <3> QED
      BY <3>2, SameCurve
  <2>5. CASE Prepared("LOCAL_MATH", amountOut, 0, None)
    <3> HIDE DEF amountOut
    <3>1. 0 \in 0..BASIS_POINTS
      BY CurveAssumption
    <3> QED
      BY <2>1, <2>4, <2>5, <3>1, PreparedTyped
  <2>6. \/ stage' \in {"tax", "refused"}
        \/ Prepared("LOCAL_MATH", amountOut, 0, None)
    BY <1>5, <2>2 DEF ReadBlock, Sell, Refuse, RefusedAs
  <2> QED
    BY <1>4, <2>5, <2>6
<1>6. CASE ReadTax
  <2> DEFINE tax == TaxNow
             local == computeCurveBuy(state.reserves, want.amountIn, tax)
  <2>1. stage = "tax" /\ want \in Wants /\ ~Unacceptable /\ state.reserves # None
    BY <1>6 DEF ReadTax, QuoteTypes, AmountInv, QuoteInv, Checked
  <2>2. want.amountIn \in Nat
    BY <2>1, WantTyped
  <2>3. state.reserves \in Reserves
    BY <2>1 DEF QuoteTypes, SettingTyped, Reserves
  <2>4. CASE /\ Buyable(state.reserves, want.amountIn, tax)
             /\ Prepared("LOCAL_MATH", local.tokensOut, tax, local)
    <3> DEFINE l == local
               amountOut == l.tokensOut
    <3>1. amountOut \in Nat
      BY <1>2, <2>2, <2>3, <2>4, LocalTyped
    <3>2. Prepared("LOCAL_MATH", amountOut, tax, l) /\ tax \in 0..BASIS_POINTS
      BY <1>2, <2>4
    <3> HIDE DEF amountOut, l, local, tax
    <3> QED
      BY <2>1, <3>1, <3>2, PreparedTyped
  <2>5. CASE stage' = "simulate" /\ \E l : trade' = [snipeTaxBps |-> tax, local |-> l]
    BY <1>2, <2>5 DEF TradeTyped
  <2>6. \/ stage' = "refused"
        \/ stage' = "simulate" /\ \E l : trade' = [snipeTaxBps |-> tax, local |-> l]
        \/ /\ Buyable(state.reserves, want.amountIn, tax)
           /\ Prepared("LOCAL_MATH", local.tokensOut, tax, local)
    <3> HIDE DEF local
    <3> QED
      BY <1>6 DEF ReadTax, Refuse, RefusedAs, snipeTax, local
  <2> QED
    BY <1>4, <2>4, <2>5, <2>6
<1>7. CASE Simulate
  <2>1. /\ stage = "simulate" /\ want \in Wants /\ ~Unacceptable /\ want.side = "BUY"
        /\ trade.snipeTaxBps \in 0..BASIS_POINTS
    BY <1>1, <1>7 DEF Simulate, QuoteTypes, AmountInv, QuoteInv, Checked, TradeTyped
  <2> DEFINE amountOut == Bought(curve, want.amountIn, TaxNow).tokensOut
             tax == trade.snipeTaxBps
             local == trade.local
  <2>2. CASE Possible(want) /\ Prepared("SIMULATION", amountOut, tax, local)
    <3>1. amountOut \in Nat
      BY <1>1, <2>1, <2>2, PossibleBuy
    <3> HIDE DEF amountOut, local, tax
    <3>2. tax \in 0..BASIS_POINTS
      BY <2>1 DEF tax
    <3> QED
      BY <2>1, <2>2, <3>1, <3>2, PreparedTyped
  <2> QED
    BY <1>4, <1>7, <2>2 DEF Simulate, Refuse, RefusedAs
<1>8. CASE SendTrade \/ Mine
  <2>1. stage \in {"prepared", "sent"} /\ UNCHANGED trade /\ stage' \in {"sent", "landed", "reverted"}
    BY <1>8 DEF SendTrade, Mine
  <2> QED
    BY <1>1, <2>1 DEF TradeTyped
<1>9. CASE Ask \/ ReadLaunch \/ ReadReserves \/ ReadOver \/ Route \/ ReadFails
  <2>1. stage' \in {"launch", "state", "block", "refused"}
    BY <1>9 DEF Ask, ReadLaunch, ReadReserves, ReadOver, Route, ReadFails, Refuse, RefusedAs
  <2> QED
    BY <1>4, <2>1
<1>10. CASE UNCHANGED quotesVars \/ Chain \/ TokenPage
  <2>1. UNCHANGED <<stage, trade>>
    BY <1>10 DEF quotesVars, Chain, Tick, OtherBuys, OtherSells, Graduate, Other,
       TokenPage, OpenPage, PageReadsLaunch, PageReadsCurve, PageFails
  <2> QED
    BY <1>3, <2>1
<1> QED
  BY <1>5, <1>6, <1>7, <1>8, <1>9, <1>10 DEF QuotesNext, PrepareTrade

\* Reserves, quotes and amounts are of their types, however the reads of a quote are mixed
\* with what others do; in particular the curve never holds more tokens than there are.
THEOREM QuotesTyped ==
  ASSUME QuotesAssumption, FeesAreSmall
  PROVE  QuotesSpec => []QuotesTypeOK
<1>1. QuotesInit => QuoteTypes
  BY AmountInit, TokensInit, SettingInit DEF QuoteTypes
<1>2. QuoteTypes /\ [QuotesNext]_quotesVars => QuoteTypes'
  <2> SUFFICES ASSUME QuoteTypes, [QuotesNext]_quotesVars PROVE QuoteTypes'
    OBVIOUS
  <2>1. AmountInv'
    BY AmountStep DEF QuoteTypes
  <2> QED
    BY <2>1, TokensStep, TradeStep, SettingStep DEF QuoteTypes
<1> QED
  BY <1>1, <1>2, QuoteTypesEnough, PTL DEF QuotesSpec
=============================================================================
