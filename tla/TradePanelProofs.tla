-------------------------- MODULE TradePanelProofs --------------------------
(***************************************************************************)
(* The safety of the trade panel, for every set of amounts, every number   *)
(* of transactions and of quotes under way, with a pair that is native or  *)
(* not.                                                                    *)
(***************************************************************************)
EXTENDS TradePanel, TLAPS

-----------------------------------------------------------------------------
(* Sequences of transactions.                                              *)

LEMMA Appended ==
  ASSUME NEW S, NEW s \in Seq(S), NEW t \in S
  PROVE  /\ Append(s, t) \in Seq(S)
         /\ Len(Append(s, t)) = Len(s) + 1
         /\ Len(s) \in Nat
         /\ DOMAIN Append(s, t) = 1..Len(s) + 1
         /\ DOMAIN s = 1..Len(s)
         /\ Append(s, t)[Len(s) + 1] = t
         /\ \A i \in DOMAIN s : Append(s, t)[i] = s[i]
  OBVIOUS

LEMMA Replaced ==
  ASSUME NEW S, NEW s \in Seq(S), NEW i \in DOMAIN s, NEW t \in S
  PROVE  /\ [s EXCEPT ![i] = t] \in Seq(S)
         /\ Len([s EXCEPT ![i] = t]) = Len(s)
         /\ Len(s) \in Nat \ {0}
         /\ DOMAIN [s EXCEPT ![i] = t] = 1..Len(s)
         /\ DOMAIN s = 1..Len(s)
         /\ [s EXCEPT ![i] = t][i] = t
         /\ \A j \in DOMAIN s \ {i} : [s EXCEPT ![i] = t][j] = s[j]
  OBVIOUS

-----------------------------------------------------------------------------
(* The inductive invariant.                                                *)

\* What is on the screen goes with where send is.
PhaseMatches ==
  /\ at \in {"price", "allowance"} => phase = "Quoting"
  /\ at \in {"approve", "sign"} => phase = "AwaitingWallet"
  /\ at \in {"approval", "receipt"} => phase = "Pending"

\* The form stands still while send works with what it captured.
Captured == at # "idle" => sending = inputs

\* Only the transaction that send awaits is pending, or one that was lost sight of.
InFlight ==
  \A i \in DOMAIN txs :
    txs[i].state = "pending" =>
      txs[i].unseen \/ (at \in {"approval", "receipt"} /\ i = Len(txs))

\* What send awaits is the transaction signed last.
AwaitsLatest ==
  /\ at = "approval" => /\ Len(txs) > 0
                        /\ Latest.kind = "approval"
                        /\ Latest.inputs = sending
  /\ at = "receipt" => Len(txs) > 0 /\ Latest.kind = "trade"

ConfirmedTrade ==
  phase = "Confirmed" =>
    Len(txs) > 0 /\ Latest.kind = "trade" /\ Latest.state = "success"

\* What the allowance may fail to cover a trade for.
Trouble ==
  \E i \in DOMAIN txs :
    txs[i].unseen \/ (txs[i].kind = "approval" /\ txs[i].state = "reverted")

Ready == at = "sign" \/ (at = "approval" /\ Latest.state = "success")

AllowanceReady ==
  Ready /\ NeedsApproval(sending) =>
    allowance[sending.side] >= sending.amount \/ Trouble

Inv ==
  /\ TypeOK
  /\ PhaseMatches
  /\ Captured
  /\ InFlight
  /\ AwaitsLatest
  /\ ConfirmedTrade
  /\ AllowanceReady

-----------------------------------------------------------------------------
LEMMA InputsTyped ==
  /\ Nothing \notin Inputs
  /\ \A i \in Inputs : /\ i.side \in Sides
                       /\ i.amount \in Nat
                       /\ [i EXCEPT !.amount = NoAmount] \in Inputs
  BY PanelAssumption DEF Inputs, Nothing, Sides, NoAmount

LEMMA InitInv == Init => Inv
<1> SUFFICES ASSUME Init PROVE Inv
  OBVIOUS
<1>1. TypeOK
  <2>1. inputs \in Inputs
    BY DEF Init, Inputs, Sides
  <2>2. txs \in Seq(Transactions) /\ txHash \in 0..Len(txs)
    BY DEF Init
  <2>3. allowance \in [Sides -> Nat]
    BY PanelAssumption DEF Init
  <2>4. at = "idle" /\ phase = "Idle" /\ ~busy
    BY DEF Init, busy
  <2>5. QED
    BY <2>1, <2>2, <2>3, <2>4 DEF Init, TypeOK
<1>2. QED
  BY <1>1 DEF Init, Inv, PhaseMatches, Captured, InFlight, AwaitsLatest, ConfirmedTrade,
              AllowanceReady, Ready

\* A step that leaves the transactions and the allowances alone.
LEMMA PanelStep ==
  ASSUME Inv, UNCHANGED chainVars, TypeOK', PhaseMatches', Captured',
         phase' = "Confirmed" =>
           \/ phase = "Confirmed"
           \/ Len(txs) > 0 /\ Latest.kind = "trade" /\ Latest.state = "success",
         at' \notin {"approval", "receipt"},
         \/ at \notin {"approval", "receipt"}
         \/ Latest.state # "pending",
         at' = "sign" /\ NeedsApproval(sending') =>
           allowance[sending'.side] >= sending'.amount \/ Trouble
  PROVE  Inv'
<1>1. InFlight'
  BY DEF Inv, InFlight, chainVars, Latest
<1>2. AwaitsLatest' /\ ConfirmedTrade'
  BY DEF Inv, AwaitsLatest, ConfirmedTrade, chainVars, Latest
<1>3. AllowanceReady'
  BY DEF Inv, AllowanceReady, Ready, chainVars, Latest, Trouble, NeedsApproval
<1>4. QED
  BY <1>1, <1>2, <1>3 DEF Inv

\* Quoting goes on beside anything.
LEMMA QuoteStep ==
  ASSUME Inv, UNCHANGED <<inputs, sendVars, chainVars>>, TypeOK'
  PROVE  Inv'
<1>1. PhaseMatches' /\ Captured'
  BY DEF Inv, PhaseMatches, Captured, sendVars
<1>2. InFlight' /\ AwaitsLatest' /\ ConfirmedTrade'
  BY DEF Inv, InFlight, AwaitsLatest, ConfirmedTrade, sendVars, chainVars, Latest
<1>3. AllowanceReady'
  BY DEF Inv, AllowanceReady, Ready, sendVars, chainVars, Latest, Trouble, NeedsApproval
<1>4. QED
  BY <1>1, <1>2, <1>3 DEF Inv

-----------------------------------------------------------------------------
(* The steps of the form and of the quotes.                                *)

LEMMA FollowTyped ==
  ASSUME NEW i \in Inputs, NEW shown \in Inputs \union {Nothing}, Follow(i, shown)
  PROVE  /\ inputs' \in Inputs
         /\ timer' \in BOOLEAN
         /\ prepared' \in Inputs \union {Nothing}
  BY DEF Follow

LEMMA EditInv ==
  ASSUME Inv, Edit
  PROVE  Inv'
<1>1. PICK i \in Inputs, shown \in {prepared, Nothing} :
        /\ ~busy
        /\ Follow(i, shown)
        /\ phase' \in {phase, "Idle"}
        /\ UNCHANGED <<asked, at, sending, txHash, chainVars>>
  <2>1. CASE \E side \in Sides : SwitchSide(side)
    <3>1. PICK side \in Sides : SwitchSide(side)
      BY <2>1
    <3>2. [inputs EXCEPT !.side = side, !.amount = NoAmount] \in Inputs
      BY DEF Inv, TypeOK, Inputs, NoAmount
    <3>3. QED
      BY <3>1, <3>2 DEF SwitchSide, MayEdit
  <2>2. CASE \E amount \in Amounts \union {NoAmount} : TypeAmount(amount)
    <3>1. PICK amount \in Amounts \union {NoAmount} : TypeAmount(amount)
      BY <2>2
    <3>2. [inputs EXCEPT !.amount = amount] \in Inputs
      BY DEF Inv, TypeOK, Inputs
    <3>3. QED
      BY <3>1, <3>2 DEF TypeAmount, MayEdit, sendVars
  <2>3. QED
    BY <2>1, <2>2 DEF Edit
<1>2. at = "idle"
  BY <1>1 DEF Inv, TypeOK
<1>3. ~busy'
  BY <1>1 DEF busy
<1>4. TypeOK'
  <2>1. prepared \in Inputs \union {Nothing}
    BY DEF Inv, TypeOK
  <2>2. inputs' \in Inputs /\ timer' \in BOOLEAN /\ prepared' \in Inputs \union {Nothing}
    BY <1>1, <2>1, FollowTyped
  <2>3. QED
    BY <1>1, <1>2, <1>3, <2>2 DEF Inv, TypeOK, chainVars
<1>5. PhaseMatches' /\ Captured'
  BY <1>1, <1>2 DEF PhaseMatches, Captured
<1>6. phase' = "Confirmed" => phase = "Confirmed"
  BY <1>1
<1>7. QED
  BY <1>1, <1>2, <1>4, <1>5, <1>6, PanelStep

LEMMA QuotingInv ==
  ASSUME Inv, RunQuote \/ Answer
  PROVE  Inv'
<1>1. CASE RunQuote
  <2>1. asked' \subseteq Requests
    <3>1. \A r \in asked : [r EXCEPT !.newest = FALSE] \in Requests
      BY DEF Inv, TypeOK, Requests
    <3>2. [inputs |-> inputs, newest |-> TRUE] \in Requests
      BY DEF Inv, TypeOK, Requests
    <3>3. QED
      BY <1>1, <3>1, <3>2 DEF RunQuote
  <2>2. TypeOK'
    BY <1>1, <2>1 DEF RunQuote, Inv, TypeOK, sendVars, chainVars, busy
  <2>3. QED
    BY <1>1, <2>2, QuoteStep DEF RunQuote
<1>2. CASE Answer
  <2>1. PICK r \in asked : Quoted(r)
    BY <1>2 DEF Answer
  <2>2. prepared' \in Inputs \union {Nothing} /\ asked' \subseteq Requests
    BY <2>1 DEF Quoted, prepareTrade, Inv, TypeOK, Requests
  <2>3. TypeOK'
    BY <2>1, <2>2 DEF Quoted, Inv, TypeOK, sendVars, chainVars, busy
  <2>4. QED
    BY <2>1, <2>3, QuoteStep DEF Quoted
<1>3. QED
  BY <1>1, <1>2

-----------------------------------------------------------------------------
(* The steps of send that leave the chain alone.                           *)

\* send is over, and nothing it knows of is pending.
LEMMA LeaveInv ==
  ASSUME Inv, at # "idle", at \notin {"approval", "receipt"} \/ Latest.state # "pending",
         NEW shown \in {"Confirmed", "Failed", "Rejected"}, Leave(shown),
         UNCHANGED <<asked, chainVars>>,
         inputs' \in Inputs, timer' \in BOOLEAN, prepared' \in Inputs \union {Nothing},
         shown = "Confirmed" =>
           Len(txs) > 0 /\ Latest.kind = "trade" /\ Latest.state = "success"
  PROVE  Inv'
<1>1. at' = "idle" /\ phase' = shown /\ sending' = Nothing /\ txHash' = txHash
  BY DEF Leave
<1>2. ~busy'
  BY <1>1 DEF busy
<1>3. TypeOK'
  BY <1>1, <1>2 DEF Inv, TypeOK, chainVars
<1>4. PhaseMatches' /\ Captured'
  BY <1>1 DEF PhaseMatches, Captured
<1>5. QED
  BY <1>1, <1>3, <1>4, PanelStep

\* send goes on to a place where nothing is awaited.
LEMMA GotoInv ==
  ASSUME Inv, at # "idle", at \notin {"approval", "receipt"} \/ Latest.state # "pending",
         NEW place \in {"allowance", "approve", "sign"},
         NEW shown, shown = (IF place = "allowance" THEN "Quoting" ELSE "AwaitingWallet"),
         Goto(place, shown),
         UNCHANGED <<inputs, timer, asked, chainVars>>,
         prepared' \in Inputs \union {Nothing},
         place = "sign" /\ NeedsApproval(sending) =>
           allowance[sending.side] >= sending.amount \/ Trouble
  PROVE  Inv'
<1>1. at' = place /\ phase' = shown /\ sending' = sending /\ txHash' = txHash
  BY DEF Goto
<1>2. busy' /\ at' # "idle"
  BY <1>1 DEF busy
<1>3. TypeOK'
  BY <1>1, <1>2 DEF Inv, TypeOK, chainVars
<1>4. PhaseMatches' /\ Captured'
  BY <1>1 DEF PhaseMatches, Captured, Inv
<1>5. QED
  BY <1>1, <1>3, <1>4, PanelStep

LEMMA PressInv ==
  ASSUME Inv, Press
  PROVE  Inv'
<1>1. busy' /\ at' # "idle" /\ at = "idle"
  BY DEF Press, busy, Inv, TypeOK
<1>2. TypeOK'
  BY <1>1 DEF Press, Inv, TypeOK, quoteVars, chainVars
<1>3. PhaseMatches' /\ Captured'
  BY DEF Press, PhaseMatches, Captured, quoteVars
<1>4. QED
  BY <1>1, <1>2, <1>3, PanelStep DEF Press

LEMMA CapturedTyped ==
  ASSUME Inv, at # "idle"
  PROVE  /\ sending \in Inputs
         /\ sending.side \in Sides
         /\ sending.amount \in Nat
         /\ allowance[sending.side] \in Nat
  BY InputsTyped DEF Inv, TypeOK, Captured

LEMMA RepricedInv ==
  ASSUME Inv, Repriced
  PROVE  Inv'
<1>1. at = "price" /\ phase = "Quoting" /\ prepared' = sending /\ sending \in Inputs
  BY CapturedTyped DEF Repriced, prepareTrade, Inv, PhaseMatches
<1>2. CASE NeedsApproval(sending)
  BY <1>1, <1>2, GotoInv DEF Repriced
<1>3. CASE ~NeedsApproval(sending)
  BY <1>1, <1>3, GotoInv DEF Repriced
<1>4. QED
  BY <1>2, <1>3

LEMMA AllowanceReadInv ==
  ASSUME Inv, AllowanceRead
  PROVE  Inv'
<1>1. at = "allowance" /\ prepared' \in Inputs \union {Nothing}
  BY DEF AllowanceRead, Inv, TypeOK, quoteVars
<1>2. CASE needsApproval(allowance[sending.side], sending.amount)
  BY <1>1, <1>2, GotoInv DEF AllowanceRead, quoteVars
<1>3. CASE ~needsApproval(allowance[sending.side], sending.amount)
  <2>1. allowance[sending.side] >= sending.amount
    BY <1>1, <1>3, CapturedTyped DEF needsApproval
  <2>2. QED
    BY <1>1, <1>3, <2>1, GotoInv DEF AllowanceRead, quoteVars
<1>4. QED
  BY <1>2, <1>3

LEMMA RefusalInv ==
  ASSUME Inv, Reject \/ Fails
  PROVE  Inv'
<1>1. PICK shown \in {"Failed", "Rejected"} :
        /\ at \in {"price", "allowance", "approve", "sign"}
        /\ Leave(shown)
        /\ UNCHANGED <<quoteVars, chainVars>>
  BY DEF Reject, Fails
<1>2. QED
  BY <1>1, LeaveInv DEF Inv, TypeOK, quoteVars

LEMMA LatestTyped ==
  ASSUME Inv, Len(txs) > 0
  PROVE  /\ Len(txs) \in DOMAIN txs
         /\ Latest \in Transactions
         /\ Latest.kind \in Kinds
         /\ Latest.inputs \in Inputs
         /\ Latest.state \in {"pending", "success", "reverted"}
         /\ Latest.unseen \in BOOLEAN
<1>1. Len(txs) \in DOMAIN txs /\ Latest \in Transactions
  BY DEF Inv, TypeOK, Latest
<1>2. QED
  BY <1>1 DEF Transactions

\* The approval has been mined: it either covers the trade or has reverted.
LEMMA ApprovalMinedInv ==
  ASSUME Inv, ApprovalMined
  PROVE  Inv'
<1>1. at = "approval" /\ Latest.state # "pending" /\ Len(txs) > 0 /\ Latest.kind = "approval"
  BY DEF ApprovalMined, ApprovalAwaited, Inv, AwaitsLatest
<1>2. NeedsApproval(sending) => allowance[sending.side] >= sending.amount \/ Trouble
  <2>1. CASE Latest.state = "success"
    BY <1>1, <2>1 DEF Inv, AllowanceReady, Ready
  <2>2. CASE Latest.state = "reverted"
    BY <1>1, <2>2, LatestTyped DEF Trouble, Latest
  <2>3. QED
    BY <1>1, <2>1, <2>2, LatestTyped
<1>3. prepared' \in Inputs \union {Nothing}
  BY DEF ApprovalMined, Inv, TypeOK, quoteVars
<1>4. QED
  BY <1>1, <1>2, <1>3, GotoInv DEF ApprovalMined, quoteVars

LEMMA ReceiptInv ==
  ASSUME Inv, Receipt
  PROVE  Inv'
<1>1. at = "receipt" /\ Latest.state # "pending" /\ Len(txs) > 0 /\ Latest.kind = "trade"
  BY DEF Receipt, Inv, AwaitsLatest
<1>2. /\ inputs' \in Inputs
      /\ timer' \in BOOLEAN
      /\ prepared' \in Inputs \union {Nothing}
  <2>1. inputs \in Inputs /\ timer \in BOOLEAN /\ prepared \in Inputs \union {Nothing}
    BY DEF Inv, TypeOK
  <2>2. [inputs EXCEPT !.amount = NoAmount] \in Inputs
    BY <2>1, InputsTyped
  <2>3. QED
    BY <2>1, <2>2, FollowTyped DEF Receipt
<1>3. CASE Latest.state = "success"
  BY <1>1, <1>2, <1>3, LeaveInv DEF Receipt, PhaseOf
<1>4. CASE Latest.state # "success"
  BY <1>1, <1>2, <1>4, LeaveInv DEF Receipt, PhaseOf
<1>5. QED
  BY <1>3, <1>4

-----------------------------------------------------------------------------
(* The steps that change transactions or allowances.                       *)

LEMMA BroadcastTyped ==
  ASSUME Inv, at # "idle", NEW kind \in Kinds, NEW unseen \in BOOLEAN,
         Broadcast(kind, unseen)
  PROVE  /\ txs' \in Seq(Transactions)
         /\ Len(txs') = Len(txs) + 1
         /\ Len(txs) \in Nat
         /\ DOMAIN txs = 1..Len(txs)
         /\ DOMAIN txs' = 1..Len(txs) + 1
         /\ Latest' = [kind |-> kind, inputs |-> sending, state |-> "pending",
                       unseen |-> unseen]
         /\ \A i \in DOMAIN txs : txs'[i] = txs[i]
<1> DEFINE t == [kind |-> kind, inputs |-> sending, state |-> "pending", unseen |-> unseen]
<1>1. t \in Transactions
  BY CapturedTyped DEF Transactions
<1>2. txs \in Seq(Transactions) /\ txs' = Append(txs, t)
  BY DEF Inv, TypeOK, Broadcast
<1>3. Latest' = t
  BY <1>1, <1>2, Appended DEF Latest
<1>4. QED
  BY <1>1, <1>2, <1>3, Appended

LEMMA SignInv ==
  ASSUME Inv, NEW kind \in Kinds, Sign(kind)
  PROVE  Inv'
<1>1. /\ at \in {"approve", "sign"}
      /\ at' = (IF kind = "approval" THEN "approval" ELSE "receipt")
      /\ phase' = "Pending"
      /\ Broadcast(kind, FALSE)
      /\ UNCHANGED <<sending, quoteVars, allowance>>
  BY DEF Sign, Signing
<1>2. kind \in {"approval", "trade"} /\ at # "idle"
  BY <1>1 DEF Kinds
<1> DEFINE n == Len(txs)
<1>3. /\ txs' \in Seq(Transactions)
      /\ Len(txs') = n + 1
      /\ n \in Nat
      /\ DOMAIN txs = 1..n
      /\ DOMAIN txs' = 1..n + 1
      /\ Latest' = [kind |-> kind, inputs |-> sending, state |-> "pending",
                    unseen |-> FALSE]
      /\ \A i \in DOMAIN txs : txs'[i] = txs[i]
  BY <1>1, <1>2, BroadcastTyped
<1>4. TypeOK'
  <2>1. busy' /\ at' # "idle"
    BY <1>1 DEF busy
  <2>2. txHash' \in 0..Len(txs')
    BY <1>3 DEF Sign, Inv, TypeOK
  <2>3. QED
    BY <1>1, <1>3, <2>1, <2>2 DEF Inv, TypeOK, quoteVars
<1>5. PhaseMatches' /\ Captured'
  BY <1>1, <1>2 DEF Inv, PhaseMatches, Captured, quoteVars
<1>6. InFlight'
  <2> SUFFICES ASSUME NEW i \in DOMAIN txs', txs'[i].state = "pending", i # Len(txs')
               PROVE  txs'[i].unseen
    BY <1>1 DEF InFlight
  <2>1. i \in DOMAIN txs /\ txs'[i] = txs[i]
    BY <1>3
  <2>2. QED
    BY <1>1, <2>1 DEF Inv, InFlight
<1>7. AwaitsLatest' /\ ConfirmedTrade'
  BY <1>1, <1>2, <1>3 DEF AwaitsLatest, ConfirmedTrade
<1>8. AllowanceReady'
  BY <1>1, <1>2, <1>3 DEF AllowanceReady, Ready
<1>9. QED
  BY <1>4, <1>5, <1>6, <1>7, <1>8 DEF Inv

\* A transaction of which the panel has lost sight, and send is over.
LEMMA AnswerLostInv ==
  ASSUME Inv, NEW kind \in Kinds, AnswerLost(kind)
  PROVE  Inv'
<1>1. /\ at \in {"approve", "sign"}
      /\ at' = "idle" /\ phase' = "Failed" /\ sending' = Nothing /\ txHash' = txHash
      /\ Broadcast(kind, TRUE)
      /\ UNCHANGED <<quoteVars, allowance>>
  BY DEF AnswerLost, Signing, Leave
<1> DEFINE n == Len(txs)
<1>2. /\ txs' \in Seq(Transactions)
      /\ Len(txs') = n + 1
      /\ n \in Nat
      /\ DOMAIN txs = 1..n
      /\ DOMAIN txs' = 1..n + 1
      /\ Latest' = [kind |-> kind, inputs |-> sending, state |-> "pending",
                    unseen |-> TRUE]
      /\ \A i \in DOMAIN txs : txs'[i] = txs[i]
  BY <1>1, BroadcastTyped
<1>3. TypeOK'
  <2>1. ~busy'
    BY <1>1 DEF busy
  <2>2. txHash' \in 0..Len(txs')
    BY <1>1, <1>2 DEF Inv, TypeOK
  <2>3. QED
    BY <1>1, <1>2, <2>1, <2>2 DEF Inv, TypeOK, quoteVars
<1>4. PhaseMatches' /\ Captured' /\ AwaitsLatest' /\ ConfirmedTrade' /\ AllowanceReady'
  BY <1>1 DEF PhaseMatches, Captured, AwaitsLatest, ConfirmedTrade, AllowanceReady, Ready
<1>5. InFlight'
  <2> SUFFICES ASSUME NEW i \in DOMAIN txs', txs'[i].state = "pending"
               PROVE  txs'[i].unseen
    BY DEF InFlight
  <2>1. CASE i = n + 1
    BY <1>2, <2>1 DEF Latest
  <2>2. CASE i # n + 1
    <3>1. i \in DOMAIN txs /\ txs'[i] = txs[i]
      BY <1>2, <2>2
    <3>2. QED
      BY <1>1, <3>1 DEF Inv, InFlight
  <2>3. QED
    BY <2>1, <2>2
<1>6. QED
  BY <1>3, <1>4, <1>5 DEF Inv

LEMMA ReceiptLostInv ==
  ASSUME Inv, ReceiptLost
  PROVE  Inv'
<1> DEFINE n == Len(txs)
           t == [txs[n] EXCEPT !.unseen = TRUE]
<1>1. /\ at \in {"approval", "receipt"} /\ n > 0
      /\ at' = "idle" /\ phase' = "Failed" /\ sending' = Nothing /\ txHash' = txHash
      /\ txs' = [txs EXCEPT ![n] = t]
      /\ UNCHANGED <<quoteVars, allowance>>
  BY DEF ReceiptLost, Leave, Inv, AwaitsLatest
<1>2. n \in DOMAIN txs /\ t \in Transactions /\ t.unseen = TRUE
  <2>1. n \in DOMAIN txs /\ txs[n] \in Transactions
    BY <1>1 DEF Inv, TypeOK
  <2>2. QED
    BY <2>1 DEF Transactions
<1> HIDE DEF t
<1>3. /\ txs' \in Seq(Transactions)
      /\ Len(txs') = n
      /\ DOMAIN txs' = DOMAIN txs
      /\ txs'[n] = t
      /\ \A j \in DOMAIN txs \ {n} : txs'[j] = txs[j]
  BY <1>1, <1>2, Replaced DEF Inv, TypeOK
<1>4. TypeOK'
  <2>1. ~busy'
    BY <1>1 DEF busy
  <2>2. QED
    BY <1>1, <1>3, <2>1 DEF Inv, TypeOK, quoteVars
<1>5. PhaseMatches' /\ Captured' /\ AwaitsLatest' /\ ConfirmedTrade' /\ AllowanceReady'
  BY <1>1 DEF PhaseMatches, Captured, AwaitsLatest, ConfirmedTrade, AllowanceReady, Ready
<1>6. InFlight'
  <2> SUFFICES ASSUME NEW i \in DOMAIN txs', txs'[i].state = "pending"
               PROVE  txs'[i].unseen
    BY DEF InFlight
  <2>1. CASE i = n
    BY <1>2, <1>3, <2>1
  <2>2. CASE i # n
    BY <1>3, <2>2 DEF Inv, InFlight
  <2>3. QED
    BY <2>1, <2>2
<1>7. QED
  BY <1>4, <1>5, <1>6 DEF Inv

\* While something unknown to the panel is pending there is Trouble; so what is mined
\* without trouble is what send awaits.
LEMMA MineInv ==
  ASSUME Inv, NEW i \in DOMAIN txs, Mine(i)
  PROVE  Inv'
<1> DEFINE side == txs[i].inputs.side
           amount == txs[i].inputs.amount
           taken == IF NeedsApproval(txs[i].inputs) THEN amount ELSE 0
<1>1. txs[i] \in Transactions /\ txs[i].inputs \in Inputs /\ txs[i].state = "pending"
  <2>1. txs[i] \in Transactions
    BY DEF Inv, TypeOK
  <2>2. txs[i].state = "pending"
    BY DEF Mine
  <2>3. QED
    BY <2>1, <2>2 DEF Transactions
<1>2. side \in Sides /\ amount \in Nat /\ taken \in Nat
  BY <1>1, InputsTyped DEF Inputs
<1>3. PICK state \in {"success", "reverted"} :
        /\ txs' = [txs EXCEPT ![i] = [txs[i] EXCEPT !.state = state]]
        /\ state = "reverted" => allowance' = allowance
        /\ state = "success" =>
             IF txs[i].kind = "approval"
             THEN allowance' = [allowance EXCEPT ![side] = amount]
             ELSE /\ allowance[side] >= taken
                  /\ allowance' = [allowance EXCEPT ![side] = @ - taken]
  BY DEF Mine
<1> DEFINE t == [txs[i] EXCEPT !.state = state]
<1>4. /\ t \in Transactions
      /\ t.state = state
      /\ t.kind = txs[i].kind
      /\ t.unseen = txs[i].unseen
      /\ t.inputs = txs[i].inputs
  BY <1>1, <1>3 DEF Transactions
<1>5. UNCHANGED <<quoteVars, sendVars>>
  BY DEF Mine
<1> HIDE DEF t
<1>6. /\ txs' \in Seq(Transactions)
      /\ Len(txs') = Len(txs)
      /\ Len(txs) \in Nat \ {0}
      /\ DOMAIN txs = 1..Len(txs)
      /\ DOMAIN txs' = DOMAIN txs
      /\ txs'[i] = t
      /\ \A j \in DOMAIN txs \ {i} : txs'[j] = txs[j]
  <2>1. txs' = [txs EXCEPT ![i] = t]
    BY <1>3 DEF t
  <2>2. QED
    BY <1>4, <2>1, Replaced DEF Inv, TypeOK
<1>7. allowance' \in [Sides -> Nat]
  <2>1. allowance \in [Sides -> Nat]
    BY DEF Inv, TypeOK
  <2>2. allowance[side] \in Nat
    BY <1>2, <2>1
  <2>3. CASE state = "reverted"
    BY <1>3, <2>1, <2>3
  <2>4. CASE state = "success" /\ txs[i].kind = "approval"
    BY <1>2, <1>3, <2>1, <2>4
  <2>5. CASE state = "success" /\ txs[i].kind # "approval"
    <3>1. allowance[side] - taken \in Nat
      BY <1>2, <1>3, <2>2, <2>5
    <3>2. allowance' = [allowance EXCEPT ![side] = allowance[side] - taken]
      BY <1>3, <2>5
    <3>3. QED
      BY <1>2, <2>1, <3>1, <3>2
  <2>6. QED
    BY <1>3, <2>3, <2>4, <2>5
<1>8. TypeOK'
  BY <1>5, <1>6, <1>7 DEF Inv, TypeOK, quoteVars, sendVars, busy
<1>9. PhaseMatches' /\ Captured'
  BY <1>5 DEF Inv, PhaseMatches, Captured, quoteVars, sendVars
<1>10. InFlight'
  <2> SUFFICES ASSUME NEW j \in DOMAIN txs', txs'[j].state = "pending"
               PROVE  \/ txs'[j].unseen
                      \/ at \in {"approval", "receipt"} /\ j = Len(txs')
    BY <1>5 DEF InFlight, sendVars
  <2>1. j # i /\ j \in DOMAIN txs /\ txs'[j] = txs[j]
    BY <1>3, <1>4, <1>6
  <2>2. QED
    BY <1>6, <2>1 DEF Inv, InFlight
<1>11. Latest'.kind = Latest.kind /\ Latest'.inputs = Latest.inputs
  <2>1. CASE i = Len(txs)
    BY <1>4, <1>6, <2>1 DEF Latest
  <2>2. CASE i # Len(txs)
    BY <1>6, <2>2 DEF Latest
  <2>3. QED
    BY <2>1, <2>2
<1>12. AwaitsLatest'
  BY <1>5, <1>6, <1>11 DEF Inv, AwaitsLatest, sendVars
<1>13. ConfirmedTrade'
  <2>1. Latest.state = "success" => Latest'.state = "success"
    BY <1>1, <1>6 DEF Latest
  <2>2. QED
    BY <1>5, <1>6, <1>11, <2>1 DEF Inv, ConfirmedTrade, sendVars
<1>14. Trouble => Trouble'
  <2> SUFFICES ASSUME NEW j \in DOMAIN txs,
                      txs[j].unseen \/ (txs[j].kind = "approval" /\ txs[j].state = "reverted")
               PROVE  Trouble'
    BY DEF Trouble
  <2>1. CASE j = i
    BY <1>1, <1>4, <1>6, <2>1 DEF Trouble
  <2>2. CASE j # i
    BY <1>6, <2>2 DEF Trouble
  <2>3. QED
    BY <2>1, <2>2
<1>15. AllowanceReady'
  <2> SUFFICES ASSUME Ready', NeedsApproval(sending), ~Trouble'
               PROVE  allowance'[sending.side] >= sending.amount
    BY <1>5 DEF AllowanceReady, NeedsApproval, sendVars
  <2>1. ~txs[i].unseen
    BY <1>1, <1>14 DEF Trouble
  <2>2. at \in {"approval", "receipt"} /\ i = Len(txs)
    BY <1>1, <2>1 DEF Inv, InFlight
  <2>3. at = "approval" /\ Latest'.state = "success"
    BY <1>5, <2>2 DEF Ready, sendVars
  <2>4. txs[i].kind = "approval" /\ txs[i].inputs = sending /\ state = "success"
    BY <1>4, <1>6, <2>2, <2>3 DEF Inv, AwaitsLatest, Latest
  <2>5. allowance' = [allowance EXCEPT ![side] = amount] /\ side = sending.side
        /\ amount = sending.amount
    BY <1>3, <2>4
  <2>6. allowance'[sending.side] = sending.amount
    BY <1>2, <2>5 DEF Inv, TypeOK
  <2>7. QED
    BY <1>2, <2>5, <2>6
<1>16. QED
  BY <1>8, <1>9, <1>10, <1>12, <1>13, <1>15 DEF Inv

-----------------------------------------------------------------------------
(* The theorems.                                                           *)

LEMMA NextInv == Inv /\ [Next]_vars => Inv'
<1> SUFFICES ASSUME Inv, [Next]_vars PROVE Inv'
  OBVIOUS
<1>1. CASE Edit
  BY <1>1, EditInv
<1>2. CASE RunQuote \/ Answer
  BY <1>2, QuotingInv
<1>3. CASE Press
  BY <1>3, PressInv
<1>4. CASE Send
  <2>1. CASE Repriced
    BY <2>1, RepricedInv
  <2>2. CASE AllowanceRead
    BY <2>2, AllowanceReadInv
  <2>3. CASE Reject \/ Fails
    BY <2>3, RefusalInv
  <2>4. CASE ApprovalMined
    BY <2>4, ApprovalMinedInv
  <2>5. CASE Receipt
    BY <2>5, ReceiptInv
  <2>6. CASE ReceiptLost
    BY <2>6, ReceiptLostInv
  <2>7. CASE \E kind \in Kinds : Sign(kind) \/ AnswerLost(kind)
    BY <2>7, SignInv, AnswerLostInv
  <2>8. QED
    BY <1>4, <2>1, <2>2, <2>3, <2>4, <2>5, <2>6, <2>7 DEF Send
<1>5. CASE \E i \in DOMAIN txs : Mine(i)
  BY <1>5, MineInv
<1>6. CASE UNCHANGED vars
  <2>1. TypeOK'
    BY <1>6 DEF Inv, TypeOK, vars, quoteVars, sendVars, chainVars, busy
  <2>2. QED
    BY <1>6, <2>1, QuoteStep DEF vars, quoteVars
<1>7. QED
  BY <1>1, <1>2, <1>3, <1>4, <1>5, <1>6 DEF Next

\* The inductive invariant of the panel holds in every reachable state.
THEOREM PanelInvariant == Spec => []Inv
<1>1. Init => Inv
  BY InitInv
<1>2. Inv /\ [Next]_vars => Inv'
  BY NextInv
<1>3. QED
  BY <1>1, <1>2, PTL DEF Spec

\* Every variable of the panel keeps its type, and the busy phases are those in which
\* send is under way.
THEOREM Typed == Spec => []TypeOK
<1>1. Inv => TypeOK
  BY DEF Inv
<1>2. QED
  BY <1>1, PanelInvariant, PTL

\* What the wallet is asked to sign is what the form shows (send's captured values and
\* the fields that are disabled while the panel is busy).
THEOREM Signs == Spec => []SignsWhatIsTyped
<1>1. Inv => SignsWhatIsTyped
  BY DEF Inv, Captured, SignsWhatIsTyped
<1>2. QED
  BY <1>1, PanelInvariant, PTL

\* What the panel says of a trade is true, and no transaction it knows of is pending
\* when it is ready for the next.
THEOREM Truthful == Spec => []PhaseTellsTheTruth
<1>1. Inv => PhaseTellsTheTruth
  <2> SUFFICES ASSUME Inv PROVE PhaseTellsTheTruth
    OBVIOUS
  <2>1. phase = "Confirmed" => Latest.kind = "trade" /\ Latest.state = "success"
    BY DEF Inv, ConfirmedTrade
  <2>2. ~busy => \A i \in DOMAIN txs : txs[i].state = "pending" => txs[i].unseen
    BY DEF Inv, TypeOK, InFlight
  <2>3. QED
    BY <2>1, <2>2 DEF PhaseTellsTheTruth
<1>2. QED
  BY <1>1, PanelInvariant, PTL

\* A trade is offered for signature only when the curve may take its amount (the
\* allowance read by needsApproval and the receipt of the approval that is awaited).
THEOREM Covered == Spec => []AllowanceCoversTrade
<1>1. Inv => AllowanceCoversTrade
  BY DEF Inv, AllowanceReady, Ready, Trouble, AllowanceCoversTrade
<1>2. QED
  BY <1>1, PanelInvariant, PTL
=============================================================================
