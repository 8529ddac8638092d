----------------------------- MODULE LaunchForm -----------------------------
(***************************************************************************)
(* LaunchForm: launching a token from the web application.  submit reads   *)
(* the live terms of the factory, checks that the wallet can pay for the   *)
(* whole plan, builds the launch, obtains an ERC-20 approval and builds    *)
(* again where the opening buy needs one, simulates, asks the wallet to    *)
(* sign, waits for the receipt, and then runs the protected buys (Bundle). *)
(*                                                                         *)
(* The terms belong to the factory's owner and may change at any time, and *)
(* the page shows those it was rendered with.  An action goes from one     *)
(* await to the next; every await may throw, and the wallet may broadcast  *)
(* a transaction and answer with an error.                                 *)
(***************************************************************************)
EXTENDS Integers, Sequences, FiniteSets, FiniteSetsExt

CONSTANTS
  Erc20Pairs,
  Wallets,          \* addresses a row may name
  Creator,          \* the connected wallet
  Amounts,          \* what may be typed as an opening buy or in a row
  Details,          \* name, symbol, image and description, as one value
  Taxes,            \* creator taxes that may be typed
  Ceilings,         \* the factory's largest creator tax
  Fees,
  FirstProtocols,   \* what the page may have been rendered with
  Terms,            \* economics a launch can be pinned to
  Funds,            \* what the wallet may hold at first, of each pair
  Granted,          \* allowances that earlier visits may have left
  MaxRows,          \* MAX_DECLARABLE_SNIPE_EXEMPTIONS
  MaxChanges,       \* bound on the changes of terms and on the wallet's other spending
  MaxTransactions   \* bound on the transactions signed

Native == "native"

ASSUME LaunchAssumption ==
  /\ Native \notin Erc20Pairs
  /\ Creator \in Wallets
  /\ Amounts \subseteq Nat \ {0}
  /\ Taxes \subseteq Nat /\ Ceilings \subseteq Nat
  /\ Fees \subseteq Nat /\ Terms \subseteq Nat \ {0}
  /\ Funds \subseteq [{Native} \union Erc20Pairs -> Nat]
  /\ Granted \subseteq Nat
  /\ MaxRows \in Nat \ {0} /\ MaxChanges \in Nat /\ MaxTransactions \in Nat

VARIABLES
  form,        \* what the fields hold
  page,        \* the launch fee and the pairs the page was rendered with
  phase,       \* tx.phase
  at,          \* where submit is
  sending,     \* the fields submit was called with
  built,       \* the fee and the economics the launch is built from
  rebuilt,     \* this is the launch built after the allowance was seen to
  protocol,    \* the factory's terms
  wallet,      \* what the wallet holds
  allowance,   \* what the router may take of each pair
  txs,         \* the transactions the wallet has broadcast
  changes,
  touched      \* terms or holdings changed since submit was called

formVars == <<form, page>>
submitVars == <<phase, at, sending, built, rebuilt>>
chainVars == <<protocol, wallet, allowance, txs, changes, touched>>
vars == <<formVars, submitVars, chainVars>>

Pairs == {Native} \union Erc20Pairs
NoAmount == 0           \* an empty field is an amount of zero
Unreadable == -1        \* parseQuoteAmount cannot read the field
Typed == Amounts \union {NoAmount, Unreadable}
RowTyped == Amounts \union {NoAmount}    \* in a row, unreadable is as good as nothing
Blank == "blank"        \* a row without an address
Malformed == "malformed"
Rows == [address : Wallets \union {Blank, Malformed}, amount : RowTyped]

Forms == [pair : Pairs, devBuy : Typed, rows : Seq(Rows), bundle : BOOLEAN,
          tax : Taxes, details : Details]
NotSending == [pair |-> "none"]

Protocols == [fee : Fees, terms : Terms, ceiling : Ceilings, enabled : BOOLEAN,
              approved : SUBSET Erc20Pairs,
              rescaled : SUBSET Erc20Pairs]    \* decimals differ from the page's

ASSUME RenderedAssumption ==
  \A p \in FirstProtocols : p \in Protocols /\ p.enabled /\ p.rescaled = {}

Waived == 0             \* economics of zero waive the contract's check
Builds == [fee : Fees \union {0}, terms : Terms \union {Waived}]
NoBuild == [fee |-> 0, terms |-> Waived]

Kinds == {"approval", "launch"}
Transactions ==
  [kind : Kinds, pair : Pairs, amount : Typed, tax : Taxes, built : Builds,
   exempt : SUBSET Wallets, state : {"pending", "success", "reverted"},
   terms : Terms \union {Waived},   \* the economics the token was created on
   unseen : BOOLEAN]                \* its hash or its receipt never reached the form

busy == phase \in {"Quoting", "AwaitingWallet", "Pending"} \/ at = "bundle"
Latest == txs[Len(txs)]

-----------------------------------------------------------------------------
(* What follows from the fields.                                           *)

IsNative(f) == f.pair = Native

activeRows(f) == {i \in DOMAIN f.rows : f.rows[i].address # Blank}
bundleRecipients(f) == {i \in activeRows(f) : f.rows[i].amount \in Amounts}
bundleTotal(f) == MapThenSumSet(LAMBDA i : f.rows[i].amount, bundleRecipients(f))

bundleAmountInvalid(f) ==
  /\ f.bundle
  /\ IsNative(f)
  /\ activeRows(f) = {} \/ bundleRecipients(f) # activeRows(f)

shouldSendProtectedBuys(f) == f.bundle /\ IsNative(f) /\ bundleRecipients(f) # {}

\* Duplicates and the creator take no slot.
Exemptions(f) == {f.rows[i].address : i \in activeRows(f)} \ {Creator, Malformed}

exemptionErrors(f) ==
  \/ \E i \in activeRows(f) : f.rows[i].address = Malformed
  \/ Cardinality(Exemptions(f)) > MaxRows

\* The exact value the router insists on.
launchValue(fee, f) == fee + (IF IsNative(f) THEN f.devBuy ELSE 0)

nativePrincipalRequired(fee, f) ==
  launchValue(fee, f) + (IF shouldSendProtectedBuys(f) THEN bundleTotal(f) ELSE 0)

PullsPair(f) == ~IsNative(f) /\ f.devBuy > 0

-----------------------------------------------------------------------------
\* The page has just been rendered: it offers native launches and the pairs that are
\* approved and can be read.
Init ==
  /\ protocol \in FirstProtocols
  /\ page = [fee |-> protocol.fee, pairs |-> protocol.approved]
  /\ \E amount \in Amounts, tax \in Taxes, details \in Details :
       form = [pair |-> Native, devBuy |-> amount, bundle |-> FALSE, tax |-> tax,
               details |-> details, rows |-> << [address |-> Blank, amount |-> amount] >>]
  /\ phase = "Idle"
  /\ at = "idle"
  /\ sending = NotSending
  /\ built = NoBuild
  /\ rebuilt = FALSE
  /\ wallet \in Funds
  /\ allowance \in [Erc20Pairs -> Granted]
  /\ txs = << >>
  /\ changes = 0
  /\ touched = FALSE

-----------------------------------------------------------------------------
(* The fields.                                                             *)

\* Mutant of MayEdit: the fields are not disabled while a launch is being sent.
AlwaysEditable == TRUE

MayEdit == ~busy

\* The bound: behaviours are followed up to what comes of the last transaction.
MayContinue == Len(txs) < MaxTransactions

Edit(f) ==
  /\ MayContinue
  /\ form' = f
  /\ UNCHANGED <<page, submitVars, chainVars>>

\* These fields are never disabled.
EditDetails(details) == Edit([form EXCEPT !.details = details])

EditMoney(devBuy, tax) ==
  MayEdit /\ Edit([form EXCEPT !.devBuy = devBuy, !.tax = tax])

\* What was typed for one asset is never read as an amount of another.
changePair(pair) ==
  /\ MayEdit
  /\ pair \in page.pairs \union {Native}
  /\ Edit([form EXCEPT
       !.pair = pair,
       !.devBuy = NoAmount,
       !.rows = [i \in DOMAIN @ |-> [@[i] EXCEPT !.amount = NoAmount]],
       !.bundle = @ /\ pair = Native])

MayToggle == ~busy /\ IsNative(form) /\ activeRows(form) # {}

ToggleBundle == MayToggle /\ Edit([form EXCEPT !.bundle = ~@])

updateAddress(i, address) ==
  MayEdit /\ Edit([form EXCEPT !.rows[i].address = address])

updateAmount(i, amount) ==
  /\ MayEdit
  /\ form.bundle
  /\ IsNative(form)
  /\ Edit([form EXCEPT !.rows[i].amount = amount])

RoomForRow == Len(form.rows) < MaxRows

addWalletRow ==
  /\ MayEdit
  /\ RoomForRow
  /\ \E amount \in (IF IsNative(form) THEN Amounts ELSE {NoAmount}) :
       Edit([form EXCEPT !.rows = Append(@, [address |-> Blank, amount |-> amount])])

removeWalletRow(i) ==
  /\ MayEdit
  /\ Edit([form EXCEPT
       !.rows = SubSeq(@, 1, i - 1) \o SubSeq(@, i + 1, Len(@))])

Edits ==
  \/ \E details \in Details : EditDetails(details)
  \/ \E devBuy \in Typed, tax \in Taxes : EditMoney(devBuy, tax)
  \/ \E pair \in Pairs : changePair(pair)
  \/ ToggleBundle
  \/ addWalletRow
  \/ \E i \in DOMAIN form.rows :
       \/ removeWalletRow(i)
       \/ \E address \in Wallets \union {Blank, Malformed} : updateAddress(i, address)
       \/ \E amount \in RowTyped : updateAmount(i, amount)

-----------------------------------------------------------------------------
(* submit.                                                                 *)

Goto(place, shown) ==
  /\ at' = place
  /\ phase' = shown
  /\ UNCHANGED <<formVars, sending, chainVars>>

\* Mutant of Leave: the phase is not brought up to date.
StaysBusy(shown) ==
  /\ at' = "idle"
  /\ sending' = NotSending
  /\ built' = NoBuild /\ rebuilt' = FALSE
  /\ UNCHANGED <<formVars, phase, protocol, wallet, allowance, changes, touched>>

Leave(shown) ==
  /\ at' = "idle"
  /\ phase' = shown
  /\ sending' = NotSending
  /\ built' = NoBuild /\ rebuilt' = FALSE
  /\ UNCHANGED <<formVars, protocol, wallet, allowance, changes, touched>>

Fail == Leave("Failed") /\ UNCHANGED txs

Proceed(place) == Goto(place, phase) /\ UNCHANGED <<built, rebuilt>>

\* The button is enabled, and pressed.
Press ==
  /\ MayContinue
  /\ ~busy
  /\ ~exemptionErrors(form)
  /\ form.devBuy # Unreadable
  /\ ~bundleAmountInvalid(form)
  /\ at' = (IF IsNative(form) THEN "balance" ELSE "decimals")
  /\ phase' = "Quoting"
  /\ sending' = form
  /\ touched' = FALSE
  /\ UNCHANGED <<formVars, built, rebuilt, protocol, wallet, allowance, txs, changes>>

\* Mutant of ScaleKnown: the scale of the page is good enough.
ScaleOfThePage(pair) == TRUE

ScaleKnown(pair) == pair \notin protocol.rescaled

DecimalsRead ==
  /\ at = "decimals"
  /\ IF ScaleKnown(sending.pair) THEN Proceed("balance") ELSE Fail

\* Mutant of CanPay: the protected buys come later anyway.
CanPayLaunch(f) == wallet[Native] >= launchValue(page.fee, f)

\* Against the launch fee the page was rendered with.
CanPay(f) == wallet[Native] >= nativePrincipalRequired(page.fee, f)

BalanceRead ==
  /\ at = "balance"
  /\ IF CanPay(sending)
     THEN Proceed(IF PullsPair(sending) THEN "pairBalance" ELSE "params")
     ELSE Fail

PairBalanceRead ==
  /\ at = "pairBalance"
  /\ IF wallet[sending.pair] >= sending.devBuy THEN Proceed("params") ELSE Fail

\* buildLaunchTransaction.  What it refuses on the factory's parameters it refuses after
\* the pair was looked up, with the same outcome.
ParamsRead ==
  /\ at = "params"
  /\ IF protocol.enabled /\ sending.tax <= protocol.ceiling /\ ~exemptionErrors(sending)
     THEN /\ built' = [built EXCEPT !.fee = protocol.fee]
          /\ UNCHANGED rebuilt
          /\ Goto(IF IsNative(sending) THEN "economics" ELSE "pair", phase)
     ELSE Fail

PairRead ==
  /\ at = "pair"
  /\ IF sending.pair \in protocol.approved THEN Proceed("economics") ELSE Fail

\* Mutant of Pin: the launch is not pinned to the economics that were read.
NoPin == Waived

Pin == protocol.terms

EconomicsRead ==
  /\ at = "economics"
  /\ built' = [built EXCEPT !.terms = Pin]
  /\ UNCHANGED rebuilt
  /\ Goto(IF PullsPair(sending) /\ ~rebuilt THEN "allowance" ELSE "simulate", phase)

Rebuild == rebuilt' = TRUE /\ UNCHANGED built /\ Goto("params", phase)

needsApproval(pair, amount) == allowance[pair] < amount

AllowanceRead ==
  /\ at = "allowance"
  /\ IF needsApproval(sending.pair, sending.devBuy)
     THEN Goto("approve", "AwaitingWallet") /\ UNCHANGED <<built, rebuilt>>
     ELSE Rebuild

\* What the router and the factory ask of a launch built from b.
Accepted(f, b) ==
  /\ protocol.enabled
  /\ f.tax <= protocol.ceiling
  /\ launchValue(b.fee, f) = launchValue(protocol.fee, f)
  /\ b.terms \in {Waived, protocol.terms}
  /\ wallet[Native] >= launchValue(b.fee, f)
  /\ ~IsNative(f) => f.pair \in protocol.approved
  /\ PullsPair(f) => wallet[f.pair] >= f.devBuy /\ allowance[f.pair] >= f.devBuy

Simulated ==
  /\ at = "simulate"
  /\ Accepted(sending, built)
  /\ Goto("sign", "AwaitingWallet")
  /\ UNCHANGED <<built, rebuilt>>

Signing(kind) == at = (IF kind = "approval" THEN "approve" ELSE "sign")

Broadcast(kind, unseen) ==
  txs' = Append(txs,
    [kind |-> kind, pair |-> sending.pair, amount |-> sending.devBuy, tax |-> sending.tax,
     built |-> IF kind = "launch" THEN built ELSE NoBuild,
     exempt |-> IF kind = "launch" THEN Exemptions(sending) ELSE {},
     state |-> "pending", terms |-> Waived, unseen |-> unseen])

\* The wallet broadcasts the transaction and returns its hash.
Sign(kind) ==
  /\ Signing(kind)
  /\ MayContinue
  /\ Broadcast(kind, FALSE)
  /\ at' = (IF kind = "approval" THEN "approval" ELSE "receipt")
  /\ phase' = "Pending"
  /\ UNCHANGED <<formVars, sending, built, rebuilt, protocol, wallet, allowance, changes,
                 touched>>

Reject == at \in {"approve", "sign"} /\ Leave("Rejected") /\ UNCHANGED txs

\* The wallet broadcasts the transaction, but its answer is an error.
AnswerLost(kind) ==
  /\ Signing(kind)
  /\ MayContinue
  /\ Broadcast(kind, TRUE)
  /\ Leave("Failed")

\* A read throws, the simulation refuses, or the wallet cannot send: nothing was sent.
Fails ==
  /\ at \in {"decimals", "balance", "pairBalance", "params", "pair", "economics",
             "allowance", "simulate", "approve", "sign"}
  /\ Fail

\* waitForTransactionReceipt throws: it timed out, or the endpoint failed.
ReceiptLost ==
  /\ at \in {"approval", "receipt"}
  /\ txs' = [txs EXCEPT ![Len(txs)].unseen = TRUE]
  /\ Leave("Failed")

\* Mutant of Succeeded: mined is as good as done.
Mined(tx) == TRUE

Succeeded(tx) == tx.state = "success"

ApprovalMined ==
  /\ at = "approval"
  /\ Latest.state # "pending"
  /\ IF Succeeded(Latest) THEN Rebuild ELSE Fail

Receipt ==
  /\ at = "receipt"
  /\ Latest.state # "pending"
  /\ IF ~Succeeded(Latest) THEN Fail
     ELSE IF shouldSendProtectedBuys(sending)
     THEN Goto("bundle", "Confirmed") /\ UNCHANGED <<built, rebuilt>>
     ELSE Leave("Confirmed") /\ UNCHANGED txs

\* runBundle (Bundle), whichever way it ends; what it spends counts as other spending.
BundleEnds == at = "bundle" /\ Leave("Confirmed") /\ UNCHANGED txs

-----------------------------------------------------------------------------
(* The chain, and the rest of the wallet's life.                           *)

Change ==
  /\ changes < MaxChanges
  /\ changes' = changes + 1
  /\ touched' = TRUE
  /\ \/ /\ \/ \E fee \in Fees : protocol' = [protocol EXCEPT !.fee = fee]
           \/ \E terms \in Terms : protocol' = [protocol EXCEPT !.terms = terms]
           \/ \E ceiling \in Ceilings : protocol' = [protocol EXCEPT !.ceiling = ceiling]
           \/ protocol' = [protocol EXCEPT !.enabled = ~@]
           \/ \E p \in Erc20Pairs :
                \/ protocol' = [protocol EXCEPT !.approved = @ \ {p}]
                \/ protocol' = [protocol EXCEPT !.rescaled = @ \union {p}]
        /\ UNCHANGED wallet
     \/ /\ \E p \in Pairs : \E left \in 0..wallet[p] - 1 : wallet' = [wallet EXCEPT ![p] = left]
        /\ UNCHANGED protocol
  /\ UNCHANGED <<formVars, submitVars, allowance, txs>>

Settle(i, state, terms) == txs' = [txs EXCEPT ![i].state = state, ![i].terms = terms]

\* A transaction may also revert for reasons of its own.
Mine(i) ==
  LET tx == txs[i]
      f == [pair |-> tx.pair, devBuy |-> tx.amount, tax |-> tx.tax]
  IN
  /\ tx.state = "pending"
  /\ \A j \in 1..i - 1 : txs[j].state # "pending"
  /\ \/ Settle(i, "reverted", Waived) /\ UNCHANGED <<wallet, allowance, touched>>
     \/ /\ tx.kind = "approval"
        /\ Settle(i, "success", Waived)
        /\ allowance' = [allowance EXCEPT ![tx.pair] = tx.amount]
        /\ UNCHANGED <<wallet, touched>>
     \/ /\ tx.kind = "launch"
        /\ Accepted(f, tx.built)
        /\ Settle(i, "success", protocol.terms)
        /\ wallet' = [p \in Pairs |->
             wallet[p] - (CASE p = Native -> launchValue(tx.built.fee, f)
                            [] p = tx.pair /\ p # Native -> tx.amount
                            [] OTHER -> 0)]
        /\ allowance' = [p \in Erc20Pairs |->
             allowance[p] - (IF p = tx.pair THEN tx.amount ELSE 0)]
        /\ touched' = TRUE
  /\ UNCHANGED <<formVars, submitVars, protocol, changes>>

-----------------------------------------------------------------------------
Submit ==
  \/ DecimalsRead \/ BalanceRead \/ PairBalanceRead \/ ParamsRead \/ PairRead
  \/ EconomicsRead \/ AllowanceRead \/ Simulated \/ Reject \/ Fails \/ ReceiptLost
  \/ ApprovalMined \/ Receipt \/ BundleEnds
  \/ \E kind \in Kinds : Sign(kind) \/ AnswerLost(kind)

Next == Edits \/ Press \/ Submit \/ Change \/ \E i \in DOMAIN txs : Mine(i)

Spec == Init /\ [][Next]_vars

\* Calls return or throw, and the user answers the wallet's prompts.
FairSpec == Spec /\ WF_vars(Submit)

-----------------------------------------------------------------------------
Places == {"idle", "decimals", "balance", "pairBalance", "params", "pair", "economics",
           "allowance", "approve", "approval", "simulate", "sign", "receipt", "bundle"}

TypeOK ==
  /\ form \in Forms /\ Len(form.rows) <= MaxRows
  /\ page \in [fee : Fees, pairs : SUBSET Erc20Pairs]
  /\ phase \in {"Idle", "Quoting", "AwaitingWallet", "Pending", "Confirmed", "Failed",
                "Rejected"}
  /\ at \in Places
  /\ at # "idle" <=> busy
  /\ IF at = "idle" THEN sending = NotSending ELSE sending \in Forms
  /\ built \in Builds
  /\ rebuilt \in BOOLEAN
  /\ protocol \in Protocols
  /\ wallet \in [Pairs -> Nat]
  /\ allowance \in [Erc20Pairs -> Nat]
  /\ txs \in Seq(Transactions)
  /\ changes \in 0..MaxChanges
  /\ touched \in BOOLEAN

MoneyOf(f) == [f EXCEPT !.details = CHOOSE details \in Details : TRUE]

\* The amounts, the pair, the tax and the protected wallets the user is asked to sign
\* are those the form shows at that moment, although submit works with the values of the
\* moment it was called.
SignsWhatIsTyped == at \in {"approve", "sign"} => MoneyOf(sending) = MoneyOf(form)

\* Unless terms or holdings changed since the button was pressed, nothing is signed for a
\* plan the wallet cannot pay to its end: the ERC-20 buy is covered before its approval
\* is asked for, and read at the scale it was typed in; a launch is signed with the
\* protected buys covered too, provided the fee did not rise above the one on the page.
PlanFunded ==
  at \in {"approve", "sign"} /\ ~touched =>
    /\ ~IsNative(sending) => sending.pair \notin protocol.rescaled
    /\ PullsPair(sending) => wallet[sending.pair] >= sending.devBuy
    /\ built.fee <= page.fee =>
         wallet[Native] >= nativePrincipalRequired(built.fee, sending)

\* No token is created on other economics than those read for it, whatever the factory's
\* owner changed while the launch was with the wallet or under way.
RepegNeverLands ==
  \A i \in DOMAIN txs :
    txs[i].kind = "launch" /\ txs[i].state = "success" =>
      txs[i].terms = txs[i].built.terms

\* Confirmed is only said of a launch that succeeded, and the form is not ready for the
\* next launch while a transaction it has not lost sight of is pending.
PhaseTellsTheTruth ==
  /\ phase = "Confirmed" => Latest.kind = "launch" /\ Latest.state = "success"
  /\ ~busy => \A i \in DOMAIN txs : txs[i].state = "pending" => txs[i].unseen

\* Protected buys are only run after a native launch that succeeded, and for wallets that
\* this launch exempted from the anti-snipe tax.
BuysAreExempt ==
  at = "bundle" =>
    /\ Latest.kind = "launch" /\ Latest.state = "success" /\ Latest.pair = Native
    /\ \A i \in bundleRecipients(sending) :
         sending.rows[i].address \in Latest.exempt \union {Creator}

\* A launch does not keep the form busy for ever.
SubmitEnds == busy ~> ~busy

\* When the amounts of the protected wallets stand in the way, the sequence can be
\* disabled ("Disable the post-launch sequence if you only want exemptions.").
SequenceCanBeDisabled == ~busy /\ bundleAmountInvalid(form) => MayToggle
=============================================================================
