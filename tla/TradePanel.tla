----------------------------- MODULE TradePanel -----------------------------
(***************************************************************************)
(* TradePanel: buying and selling on a token's page.  Two activities share *)
(* the panel's state: quoting, which follows what the user types with a    *)
(* delay, and sending, which prices again, obtains an approval where one   *)
(* is needed, sends the trade and waits for its receipt.                   *)
(*                                                                         *)
(* An action goes from one await to the next.  Transactions of the wallet  *)
(* are mined in the order they were signed; the wallet may broadcast one   *)
(* and answer with an error, and a receipt may not be seen in time.  Every *)
(* await of the panel may also throw.                                      *)
(***************************************************************************)
EXTENDS Integers, Sequences, FiniteSets

CONSTANTS
  Amounts,
  Granted,          \* allowances that earlier visits may have left
  NativeQuote,      \* a buy pays in the chain's own coin and needs no approval
  MaxTransactions,  \* bound on the transactions signed
  MaxAsked          \* bound on the quotes under way at once

ASSUME PanelAssumption ==
  /\ Amounts \subseteq Nat \ {0}
  /\ Granted \subseteq Nat
  /\ NativeQuote \in BOOLEAN
  /\ MaxTransactions \in Nat
  /\ MaxAsked \in Nat

VARIABLES
  inputs,      \* side and amount as they stand in the form
  prepared,    \* the inputs the shown quote is for
  timer,       \* a quote is due for the inputs
  asked,       \* the quotes under way
  phase,
  at,          \* where send is
  sending,     \* the inputs send was called with
  txHash,      \* the trade whose hash is shown, 0 without one
  txs,         \* the transactions the wallet has broadcast
  allowance    \* what the curve may take of the asset each side pays with

quoteVars == <<inputs, prepared, timer, asked>>
sendVars == <<phase, at, sending, txHash>>
chainVars == <<txs, allowance>>
vars == <<quoteVars, sendVars, chainVars>>

Sides == {"BUY", "SELL"}
NoAmount == 0       \* the field is empty, or cannot be parsed
Inputs == [side : Sides, amount : Amounts \union {NoAmount}]
Nothing == [side |-> "NONE", amount |-> NoAmount]

Requests == [inputs : Inputs, newest : BOOLEAN]   \* newest: its id is requestId

Kinds == {"approval", "trade"}
Transactions ==
  [kind : Kinds, inputs : Inputs, state : {"pending", "success", "reverted"},
   unseen : BOOLEAN]     \* its hash or its receipt never reached the panel

busy == phase \in {"Quoting", "AwaitingWallet", "Pending"}
Latest == txs[Len(txs)]

Init ==
  /\ inputs = [side |-> "BUY", amount |-> NoAmount]
  /\ prepared = Nothing
  /\ timer = FALSE
  /\ asked = {}
  /\ phase = "Idle"
  /\ at = "idle"
  /\ sending = Nothing
  /\ txHash = 0
  /\ txs = << >>
  /\ allowance \in [Sides -> Granted]

-----------------------------------------------------------------------------
(* The form, and the quote that follows it.                                *)

\* Mutant of Follow: no quote is asked for while one is shown.
OnlyWhenBlank(i, shown) ==
  /\ inputs' = i
  /\ timer' = (i.amount # NoAmount /\ shown = Nothing)
  /\ prepared' = IF i.amount = NoAmount THEN Nothing ELSE shown

\* The effect of runQuote and parsedAmount: a pending timer is cleared; without an
\* amount the quote goes, with one a new timer starts.
Follow(i, shown) ==
  /\ inputs' = i
  /\ timer' = (i.amount # NoAmount)
  /\ prepared' = IF i.amount = NoAmount THEN Nothing ELSE shown

\* Mutant of MayEdit: the fields are not disabled while a trade is being sent.
AlwaysEditable == TRUE

MayEdit == ~busy

SwitchSide(side) ==
  /\ MayEdit
  /\ Follow([inputs EXCEPT !.side = side, !.amount = NoAmount], Nothing)
  /\ phase' = "Idle"
  /\ UNCHANGED <<asked, at, sending, txHash, chainVars>>

\* The slippage limit is part of what a quote is for in the same way, and edited likewise.
TypeAmount(amount) ==
  /\ MayEdit
  /\ amount # inputs.amount
  /\ Follow([inputs EXCEPT !.amount = amount], prepared)
  /\ UNCHANGED <<asked, sendVars, chainVars>>

\* runQuote up to its await.
RunQuote ==
  /\ timer
  /\ Cardinality(asked) < MaxAsked
  /\ timer' = FALSE
  /\ asked' = {[r EXCEPT !.newest = FALSE] : r \in asked}
                \union {[inputs |-> inputs, newest |-> TRUE]}
  /\ UNCHANGED <<inputs, prepared, sendVars, chainVars>>

\* What may come of prepareTrade: a trade for these inputs, or a refusal, be it of the
\* venue, of the quote or of a read that failed.
prepareTrade(i) == {i, Nothing}

\* Mutant of IsNewest: every answer is taken.
NeverStale(r) == TRUE

IsNewest(r) == r.newest

\* runQuote after its await.
Quoted(r) ==
  /\ asked' = asked \ {r}
  /\ IF IsNewest(r) THEN prepared' \in prepareTrade(r.inputs) ELSE UNCHANGED prepared
  /\ UNCHANGED <<inputs, timer, sendVars, chainVars>>

-----------------------------------------------------------------------------
(* send.                                                                   *)

NeedsApproval(i) == i.side = "SELL" \/ ~NativeQuote

\* Mutant of needsApproval: whatever was approved before will do.
OnlyIfNone(allowed, amount) == allowed = 0

needsApproval(allowed, amount) == allowed < amount

Goto(place, shown) == at' = place /\ phase' = shown /\ UNCHANGED <<sending, txHash>>

\* Mutant of Leave: the phase is not brought up to date.
StaysBusy(shown) == at' = "idle" /\ sending' = Nothing /\ UNCHANGED <<phase, txHash>>

Leave(shown) ==
  at' = "idle" /\ sending' = Nothing /\ phase' = shown /\ UNCHANGED txHash

Press ==
  /\ ~busy
  /\ prepared # Nothing
  /\ inputs.amount # NoAmount
  /\ at' = "price"
  /\ phase' = "Quoting"
  /\ sending' = inputs
  /\ txHash' = 0
  /\ UNCHANGED <<quoteVars, chainVars>>

\* Priced again, at what the form says.
Repriced ==
  /\ at = "price"
  /\ prepared' \in prepareTrade(sending) \ {Nothing}
  /\ IF NeedsApproval(sending) THEN Goto("allowance", phase)
     ELSE Goto("sign", "AwaitingWallet")
  /\ UNCHANGED <<inputs, timer, asked, chainVars>>

AllowanceRead ==
  /\ at = "allowance"
  /\ Goto(IF needsApproval(allowance[sending.side], sending.amount) THEN "approve"
          ELSE "sign", "AwaitingWallet")
  /\ UNCHANGED <<quoteVars, chainVars>>

Broadcast(kind, unseen) ==
  txs' = Append(txs, [kind |-> kind, inputs |-> sending, state |-> "pending",
                      unseen |-> unseen])

Signing(kind) == at = (IF kind = "approval" THEN "approve" ELSE "sign")

\* The wallet broadcasts the transaction and returns its hash.
Sign(kind) ==
  /\ Signing(kind)
  /\ Len(txs) < MaxTransactions
  /\ Broadcast(kind, FALSE)
  /\ at' = (IF kind = "approval" THEN "approval" ELSE "receipt")
  /\ phase' = "Pending"
  /\ txHash' = IF kind = "trade" THEN Len(txs') ELSE txHash
  /\ UNCHANGED <<sending, quoteVars, allowance>>

Reject ==
  /\ at \in {"approve", "sign"}
  /\ Leave("Rejected")
  /\ UNCHANGED <<quoteVars, chainVars>>

\* The wallet broadcasts the transaction, but its answer is an error.
AnswerLost(kind) ==
  /\ Signing(kind)
  /\ Len(txs) < MaxTransactions
  /\ Broadcast(kind, TRUE)
  /\ Leave("Failed")
  /\ UNCHANGED <<quoteVars, allowance>>

\* The trade is refused at its new price, or a call throws that has sent nothing.
Fails ==
  /\ at \in {"price", "allowance", "approve", "sign"}
  /\ Leave("Failed")
  /\ UNCHANGED <<quoteVars, chainVars>>

\* Mutant of ApprovalAwaited: the approval has only been broadcast.
NotAwaited == TRUE

\* The receipt of the approval is awaited; its status is not looked at.
ApprovalAwaited == Latest.state # "pending"

ApprovalMined ==
  /\ at = "approval"
  /\ ApprovalAwaited
  /\ Goto("sign", "AwaitingWallet")
  /\ UNCHANGED <<quoteVars, chainVars>>

\* Mutant of PhaseOf: mined is as good as done.
MinedIsConfirmed(state) == "Confirmed"

PhaseOf(state) == IF state = "success" THEN "Confirmed" ELSE "Failed"

\* After a success the amount is cleared, and the quote with it.
Receipt ==
  /\ at = "receipt"
  /\ Latest.state # "pending"
  /\ Leave(PhaseOf(Latest.state))
  /\ IF PhaseOf(Latest.state) = "Confirmed"
     THEN Follow([inputs EXCEPT !.amount = NoAmount], Nothing)
     ELSE UNCHANGED <<inputs, timer, prepared>>
  /\ UNCHANGED <<asked, chainVars>>

\* waitForTransactionReceipt throws: it timed out, or the endpoint failed.
ReceiptLost ==
  /\ at \in {"approval", "receipt"}
  /\ txs' = [txs EXCEPT ![Len(txs)].unseen = TRUE]
  /\ Leave("Failed")
  /\ UNCHANGED <<quoteVars, allowance>>

-----------------------------------------------------------------------------
(* The chain.                                                              *)

\* A trade also reverts when its price has moved; an approval may revert as well.
Mine(i) ==
  LET side == txs[i].inputs.side
      amount == txs[i].inputs.amount
      taken == IF NeedsApproval(txs[i].inputs) THEN amount ELSE 0
  IN
  /\ txs[i].state = "pending"
  /\ \A j \in 1..i - 1 : txs[j].state # "pending"
  /\ \/ /\ txs' = [txs EXCEPT ![i].state = "reverted"]
        /\ UNCHANGED allowance
     \/ /\ txs' = [txs EXCEPT ![i].state = "success"]
        /\ IF txs[i].kind = "approval"
           THEN allowance' = [allowance EXCEPT ![side] = amount]
           ELSE /\ allowance[side] >= taken
                /\ allowance' = [allowance EXCEPT ![side] = @ - taken]
  /\ UNCHANGED <<quoteVars, sendVars>>

-----------------------------------------------------------------------------
Edit ==
  \/ \E side \in Sides : SwitchSide(side)
  \/ \E amount \in Amounts \union {NoAmount} : TypeAmount(amount)

Send ==
  \/ Repriced \/ AllowanceRead \/ Reject \/ Fails
  \/ ApprovalMined \/ Receipt \/ ReceiptLost
  \/ \E kind \in Kinds : Sign(kind) \/ AnswerLost(kind)

Answer == \E r \in asked : Quoted(r)

Next == Edit \/ RunQuote \/ Answer \/ Press \/ Send \/ \E i \in DOMAIN txs : Mine(i)

Spec == Init /\ [][Next]_vars

\* Timers fire, calls return or throw, and the user answers the wallet's prompts.
FairSpec == Spec /\ WF_vars(RunQuote) /\ WF_vars(Answer) /\ WF_vars(Send)

-----------------------------------------------------------------------------
TypeOK ==
  /\ inputs \in Inputs
  /\ prepared \in Inputs \union {Nothing}
  /\ timer \in BOOLEAN
  /\ asked \subseteq Requests
  /\ phase \in {"Idle", "Quoting", "AwaitingWallet", "Pending", "Confirmed", "Failed",
                "Rejected"}
  /\ at \in {"idle", "price", "allowance", "approve", "approval", "sign", "receipt"}
  /\ at # "idle" <=> busy
  /\ sending \in Inputs \union {Nothing}
  /\ txs \in Seq(Transactions)
  /\ txHash \in 0..Len(txs)
  /\ allowance \in [Sides -> Nat]

\* What the user is asked to sign is what the form shows at that moment, although send
\* works with the values of the moment it was called.
SignsWhatIsTyped == at \in {"approve", "sign"} => sending = inputs

\* Confirmed is only said of a trade that succeeded, and Rejected only when no trade is
\* under way that the panel knows of; a trade the panel has seen broadcast is settled
\* before the panel is ready for the next one.
PhaseTellsTheTruth ==
  /\ phase = "Confirmed" => Latest.kind = "trade" /\ Latest.state = "success"
  /\ ~busy => \A i \in DOMAIN txs : txs[i].state = "pending" => txs[i].unseen

\* Unless an approval reverted, or a transaction was lost sight of, the wallet is asked to
\* sign a trade only when the curve may take its amount.
AllowanceCoversTrade ==
  at = "sign" /\ NeedsApproval(sending) =>
    \/ allowance[sending.side] >= sending.amount
    \/ \E i \in DOMAIN txs :
         txs[i].unseen \/ (txs[i].kind = "approval" /\ txs[i].state = "reverted")

\* When the user stops typing an amount, the panel ends up showing no quote but the one
\* for what was typed, however late earlier answers arrive.
QuoteSettles ==
  \A i \in Inputs :
    i.amount # NoAmount /\ <>[](inputs = i) => <>[](prepared \in {i, Nothing})

\* A trade does not keep the panel busy for ever.
SendEnds == busy ~> ~busy

\* Without an amount no quote is shown, whatever answers are still under way ("stale
\* responses discarded").
NoQuoteWithoutAmount == inputs.amount = NoAmount => prepared = Nothing

\* The quote on the screen while the wallet asks is the one that was priced for this
\* trade ("a slower earlier request must never overwrite a newer answer").
ShowsFreshQuote == at \in {"approve", "sign"} => prepared = sending

\* The transaction whose hash the panel shows is not described as failed while it is
\* pending ("a pending transaction is never described as failed").
PendingIsNotFailed == phase = "Failed" /\ txHash # 0 => txs[txHash].state # "pending"
=============================================================================
