-------------------------- MODULE LaunchFormProofs --------------------------
(***************************************************************************)
(* The safety of the launch form, for every set of pairs, wallets, amounts *)
(* and terms, every number of rows, of changes and of transactions.        *)
(*                                                                         *)
(* What is read before an await and used after it is followed through      *)
(* submit by one invariant: what the form shows, what the factory promised *)
(* and what the wallet holds each keep to what submit took from them.      *)
(***************************************************************************)
EXTENDS LaunchForm, FiniteSetTheorems, SequenceTheorems, WellFoundedInduction, TLAPS

-----------------------------------------------------------------------------
(* The inductive invariant.                                                *)

\* What is on the screen goes with where submit is.
PhaseMatches ==
  /\ at = "idle" => phase \in {"Idle", "Confirmed", "Failed", "Rejected"}
  /\ at \in {"decimals", "balance", "pairBalance", "params", "pair", "economics",
             "allowance", "simulate"} => phase \in {"Quoting", "Pending"}
  /\ at \in {"approve", "sign"} => phase = "AwaitingWallet"
  /\ at \in {"approval", "receipt"} => phase = "Pending"
  /\ at = "bundle" => phase = "Confirmed"

\* What the fields say of money stands still while submit works with what it was given.
Captured == at # "idle" => MoneyOf(sending) = MoneyOf(form)

\* What was pressed had no error in it.
Checked ==
  at # "idle" => sending.devBuy # Unreadable /\ ~exemptionErrors(sending)

\* A launch is simulated and signed on economics that were read for it.
Pinned == at \in {"simulate", "sign"} => built.terms \in Terms

\* How far submit has seen to the money, as long as nothing has moved since.
Funded ==
  ~touched =>
    /\ at \notin {"idle", "decimals"} /\ ~IsNative(sending) =>
         sending.pair \notin protocol.rescaled
    /\ at \notin {"idle", "decimals", "balance"} => CanPay(sending)
    /\ at \notin {"idle", "decimals", "balance", "pairBalance"} /\ PullsPair(sending) =>
         wallet[sending.pair] >= sending.devBuy

\* Of every transaction: its amount was readable, a launch is pinned, and one that
\* succeeded did so on the terms it was pinned to.
Signed ==
  \A i \in DOMAIN txs :
    /\ txs[i].amount # Unreadable
    /\ txs[i].kind = "launch" => txs[i].built.terms \in Terms
    /\ txs[i].kind = "launch" /\ txs[i].state = "success" =>
         txs[i].terms = txs[i].built.terms

\* Only the transaction that submit awaits is pending, or one that was lost sight of.
InFlight ==
  \A i \in DOMAIN txs :
    txs[i].state = "pending" =>
      txs[i].unseen \/ (at \in {"approval", "receipt"} /\ i = Len(txs))

LatestIs(kind) == Len(txs) > 0 /\ Latest.kind = kind

\* What submit awaits is the transaction signed last, made from the fields it works with.
AwaitsLatest ==
  /\ at = "approval" => LatestIs("approval")
  /\ at \in {"receipt", "bundle"} =>
       LatestIs("launch") /\ Latest.pair = sending.pair /\ Latest.exempt = Exemptions(sending)
  /\ at = "bundle" => shouldSendProtectedBuys(sending)
  /\ phase = "Confirmed" => LatestIs("launch") /\ Latest.state = "success"

Inv ==
  /\ TypeOK
  /\ PhaseMatches
  /\ Captured
  /\ Checked
  /\ Pinned
  /\ Funded
  /\ Signed
  /\ InFlight
  /\ AwaitsLatest

-----------------------------------------------------------------------------
(* What the rows add up to.  The library sums a set by taking one element  *)
(* after another; that this is defined, and a number, goes by induction on *)
(* how many there are, which is to say by the least counterexample.        *)

\* The library's sum over the rows in S, as a function of the subset summed.
Sums(g, rows, S) ==
  g = [s \in SUBSET S |->
         IF s = {} THEN 0
         ELSE rows[CHOOSE x \in s : TRUE].amount + g[s \ {CHOOSE x \in s : TRUE}]]

\* A set of numbers that is not empty has a least one: a proof by least counterexample needs
\* no operator for its induction.
LEMMA LeastNumber ==
  ASSUME NEW T \in SUBSET Nat, T # {}
  PROVE  \E n \in T : \A m \in T : n <= m
<1> DEFINE less == {p \in Nat \X Nat : p[1] < p[2]}
<1>1. IsWellFoundedOn(less, Nat)
  BY NatLessThanWellFounded DEF OpToRel
<1> HIDE DEF less
<1>2. PICK n \in T : \A m \in T : <<m, n>> \notin less
  BY <1>1, WFMin
<1>3. \A m \in T : ~(m < n)
  BY <1>2 DEF less
<1> QED
  BY <1>3

\* One of the elements goes: fewer are left.
LEMMA OneLess ==
  ASSUME NEW S, IsFiniteSet(S), NEW s \in SUBSET S, NEW x \in s
  PROVE  /\ s \ {x} \in SUBSET S
         /\ Cardinality(s) \in Nat /\ Cardinality(s \ {x}) \in Nat
         /\ Cardinality(s \ {x}) = Cardinality(s) - 1
<1>1. IsFiniteSet(s)
  BY FS_Subset
<1> QED
  BY <1>1, FS_RemoveElement, FS_CardinalityType

\* The sum over the rows, which the library chooses among the functions that satisfy its
\* equation, is one of them: there is such a function, on any finite set of rows.
LEMMA SumIsDefined ==
  ASSUME NEW S, IsFiniteSet(S), NEW rows, \A i \in S : rows[i].amount \in Nat
  PROVE  \E g : Sums(g, rows, S)
<1> DEFINE One(s) == CHOOSE x \in s : TRUE
           Summed(g, s) == IF s = {} THEN 0 ELSE rows[One(s)].amount + g[s \ {One(s)}]
           UpTo(n) == {s \in SUBSET S : Cardinality(s) <= n}
           SumsTo(n, g) == \A s \in UpTo(n) : g[s] = Summed(g, s)
           Defined == {n \in Nat : \E g : SumsTo(n, g)}
<1>1. \A s \in (SUBSET S) \ {{}} : /\ s \ {One(s)} \in SUBSET S
                                /\ Cardinality(s) \in Nat
                                /\ Cardinality(s \ {One(s)}) = Cardinality(s) - 1
  <2> TAKE s \in (SUBSET S) \ {{}}
  <2>1. One(s) \in s
    <3>1. s # {}
      OBVIOUS
    <3>2. PICK x : x \in s
      BY <3>1
    <3> QED
      BY <3>2, Zenon
  <2> HIDE DEF One
  <2> QED
    BY <2>1, OneLess
<1>2. 0 \in Defined
  <2> DEFINE g == [s \in SUBSET S |-> 0]
  <2>1. \A s \in UpTo(0) : s = {}
    BY <1>1, FS_EmptySet, FS_Subset
  <2>2. SumsTo(0, g)
    BY <2>1
  <2> QED
    BY <2>2
<1>3. ASSUME NEW n \in Nat, n \in Defined PROVE n + 1 \in Defined
  <2>1. PICK g : SumsTo(n, g)
    BY <1>3
  <2> DEFINE h == [s \in SUBSET S |-> Summed(g, s)]
  <2>2. \A s \in UpTo(n) : h[s] = g[s]
    BY <2>1
  <2>3. ASSUME NEW s \in UpTo(n + 1) PROVE h[s] = Summed(h, s)
    <3>1. CASE s = {}
      BY <3>1
    <3>2. CASE s # {}
      <4>1. s \ {One(s)} \in UpTo(n)
        BY <1>1, <3>2
      <4>2. h[s \ {One(s)}] = g[s \ {One(s)}]
        BY <2>2, <4>1
      <4>3. h[s] = Summed(g, s)
        OBVIOUS
      <4>4. Summed(h, s) = rows[One(s)].amount + h[s \ {One(s)}]
        BY <3>2
      <4>5. Summed(g, s) = rows[One(s)].amount + g[s \ {One(s)}]
        BY <3>2
      <4> HIDE DEF h, One, Summed
      <4> QED
        BY <4>2, <4>3, <4>4, <4>5, Zenon
    <3> QED
      BY <3>1, <3>2
  <2>4. SumsTo(n + 1, h)
    BY <2>3
  <2> HIDE DEF h, SumsTo
  <2> QED
    BY <2>4
<1>4. Defined = Nat
  <2> SUFFICES ASSUME Nat \ Defined # {} PROVE FALSE
    OBVIOUS
  <2>1. PICK n \in Nat \ Defined : \A m \in Nat \ Defined : n <= m
    BY LeastNumber
  <2> HIDE DEF Defined
  <2>2. n # 0 /\ n - 1 \in Nat /\ n - 1 \in Defined
    BY <1>2, <2>1
  <2> QED
    BY <1>3, <2>1, <2>2
<1>5. PICK g : SumsTo(Cardinality(S), g)
  <2>1. Cardinality(S) \in Defined
    <3> HIDE DEF Defined
    <3> QED
      BY <1>4, FS_CardinalityType
  <2> HIDE DEF SumsTo
  <2> QED
    BY <2>1
<1>6. \A s \in SUBSET S : g[s] = Summed(g, s)
  BY <1>5, FS_Subset
<1> DEFINE h == [s \in SUBSET S |-> Summed(g, s)]
<1>7. \A s \in SUBSET S : h[s] = g[s]
  BY <1>6
<1>8. \A s \in SUBSET S : Summed(h, s) = Summed(g, s)
  BY <1>1, <1>7
<1>9. h = [s \in SUBSET S |-> Summed(h, s)]
  BY <1>8
<1>10. Sums(h, rows, S)
  BY <1>9 DEF Sums
<1> HIDE DEF h
<1> QED
  BY <1>10

\* Among sets of rows there is one with fewest.
LEMMA SmallestSet ==
  ASSUME NEW S, IsFiniteSet(S), NEW B \in SUBSET SUBSET S, B # {}
  PROVE  \E s \in B : \A t \in B : Cardinality(s) <= Cardinality(t)
<1> DEFINE sizes == {Cardinality(s) : s \in B}
<1>1. \A s \in B : Cardinality(s) \in Nat
  BY FS_Subset, FS_CardinalityType
<1>2. sizes \in SUBSET Nat
  BY <1>1
<1>3. sizes # {}
  OBVIOUS
<1>4. PICK n \in sizes : \A m \in sizes : n <= m
  <2> HIDE DEF sizes
  <2> QED
    BY <1>2, <1>3, LeastNumber
<1> QED
  BY <1>4

\* A sum of numbers is a number: else a smallest set whose sum is none has a row to lose.
LEMMA SumIsNumber ==
  ASSUME NEW S, IsFiniteSet(S), NEW rows, \A i \in S : rows[i].amount \in Nat,
         NEW g, Sums(g, rows, S)
  PROVE  \A s \in SUBSET S : g[s] \in Nat
<1> DEFINE Bad == {s \in SUBSET S : g[s] \notin Nat}
<1> SUFFICES ASSUME Bad # {} PROVE FALSE
  OBVIOUS
<1>1. Bad \in SUBSET SUBSET S
  OBVIOUS
<1>2. PICK s \in Bad : \A t \in Bad : Cardinality(s) <= Cardinality(t)
  <2> HIDE DEF Bad
  <2> QED
    BY <1>1, SmallestSet
<1> DEFINE x == CHOOSE y \in s : TRUE
<1>3. s # {} /\ x \in s
  <2>1. s # {}
    BY <1>2 DEF Sums
  <2>2. PICK y : y \in s
    BY <2>1
  <2> QED
    BY <2>1, <2>2, Zenon
<1>4. g[s] = rows[x].amount + g[s \ {x}]
  BY <1>2, <1>3 DEF Sums
<1> HIDE DEF x
<1>5. g[s \ {x}] \in Nat
  BY <1>2, <1>3, OneLess
<1>6. rows[x].amount \in Nat
  BY <1>2, <1>3
<1> QED
  BY <1>2, <1>4, <1>5, <1>6

\* The rows of a form, and what the protected buys of all of them take.
LEMMA FormTypes ==
  ASSUME NEW f \in Forms
  PROVE  /\ f.pair \in Pairs /\ f.devBuy \in Typed /\ f.rows \in Seq(Rows)
         /\ f.bundle \in BOOLEAN /\ f.tax \in Taxes /\ f.details \in Details
         /\ Len(f.rows) \in Nat /\ DOMAIN f.rows = 1..Len(f.rows)
         /\ \A i \in DOMAIN f.rows : /\ f.rows[i].address \in Wallets \union {Blank, Malformed}
                                     /\ f.rows[i].amount \in RowTyped
<1>1. /\ f.pair \in Pairs /\ f.devBuy \in Typed /\ f.rows \in Seq(Rows)
      /\ f.bundle \in BOOLEAN /\ f.tax \in Taxes /\ f.details \in Details
  BY DEF Forms
<1>2. /\ Len(f.rows) \in Nat /\ DOMAIN f.rows = 1..Len(f.rows)
      /\ \A i \in DOMAIN f.rows : f.rows[i] \in Rows
  BY <1>1
<1> QED
  BY <1>1, <1>2 DEF Rows

\* What the bundle's protected buys take together (bundleTotal) is a number of wei.
LEMMA TotalIsNumber ==
  ASSUME NEW f \in Forms
  PROVE  bundleTotal(f) \in Nat
<1> DEFINE S == bundleRecipients(f)
<1>1. IsFiniteSet(S)
  <2>1. DOMAIN f.rows = 1..Len(f.rows) /\ Len(f.rows) \in Nat
    BY FormTypes, Zenon
  <2>2. IsFiniteSet(DOMAIN f.rows)
    BY <2>1, FS_Interval
  <2>3. S \subseteq DOMAIN f.rows
    BY DEF bundleRecipients, activeRows
  <2> HIDE DEF S
  <2> QED
    BY <2>2, <2>3, FS_Subset, Zenon
<1>2. \A i \in S : f.rows[i].amount \in Nat
  BY LaunchAssumption DEF bundleRecipients
<1>3. bundleTotal(f) = (CHOOSE g : Sums(g, f.rows, S))[S]
  BY DEF bundleTotal, MapThenSumSet, MapThenFoldSet, Sums
<1> HIDE DEF S
<1>4. PICK g : g = (CHOOSE h : Sums(h, f.rows, S)) /\ Sums(g, f.rows, S)
  BY <1>1, <1>2, SumIsDefined
<1>5. \A s \in SUBSET S : g[s] \in Nat
  BY <1>1, <1>2, <1>4, SumIsNumber
<1> QED
  BY <1>3, <1>4, <1>5

-----------------------------------------------------------------------------
(* The operators of the module.                                            *)

\* The kinds of values the form works with, and that what cannot be read is not an amount.
LEMMA ConstantTypes ==
  /\ Native \in Pairs /\ Native \notin Erc20Pairs
  /\ Typed \subseteq Int /\ RowTyped \subseteq Nat /\ RowTyped \subseteq Typed
  /\ Unreadable \notin RowTyped /\ NoAmount \in RowTyped
  /\ \A x \in Typed \ {Unreadable} : x \in Nat
  /\ Fees \subseteq Nat /\ Terms \subseteq Nat /\ Waived \notin Terms
  /\ NoBuild \in Builds
BY LaunchAssumption DEF Pairs, Typed, RowTyped, Unreadable, NoAmount, Waived, Builds, NoBuild

\* The router is sent a number, and a lower fee never asks for more.
LEMMA Principal ==
  ASSUME NEW f \in Forms, f.devBuy # Unreadable, NEW low \in Nat, NEW high \in Nat, low <= high
  PROVE  /\ launchValue(low, f) \in Nat
         /\ nativePrincipalRequired(low, f) \in Nat
         /\ nativePrincipalRequired(low, f) <= nativePrincipalRequired(high, f)
<1>1. f.devBuy \in Nat
  BY FormTypes, ConstantTypes
<1>2. launchValue(low, f) \in Nat /\ launchValue(high, f) \in Nat
      /\ launchValue(low, f) <= launchValue(high, f)
  BY <1>1 DEF launchValue
<1>3. bundleTotal(f) \in Nat
  BY TotalIsNumber
<1> QED
  BY <1>2, <1>3 DEF nativePrincipalRequired

\* Only wallets are declared exempt.
LEMMA ExemptionsType ==
  ASSUME NEW f \in Forms
  PROVE  Exemptions(f) \subseteq Wallets
BY FormTypes DEF Exemptions, activeRows

\* Every protected buy of a form without errors is for the creator or an exempt wallet.
LEMMA RecipientsExempt ==
  ASSUME NEW f \in Forms, ~exemptionErrors(f), NEW i \in bundleRecipients(f)
  PROVE  f.rows[i].address \in Exemptions(f) \union {Creator}
BY DEF exemptionErrors, Exemptions, bundleRecipients

\* A list of transactions grows by one at its end.
LEMMA Appended ==
  ASSUME NEW S, NEW s \in Seq(S), NEW t \in S
  PROVE  /\ Append(s, t) \in Seq(S)
         /\ Len(Append(s, t)) = Len(s) + 1
         /\ Len(s) \in Nat
         /\ DOMAIN Append(s, t) = 1..Len(s) + 1
         /\ DOMAIN s = 1..Len(s)
         /\ Append(s, t)[Len(s) + 1] = t
         /\ \A i \in DOMAIN s : Append(s, t)[i] = s[i]
  OBVIOUS

\* One transaction of a list changes.
LEMMA Replaced ==
  ASSUME NEW S, NEW s \in Seq(S), NEW i \in DOMAIN s, NEW t \in S
  PROVE  /\ [s EXCEPT ![i] = t] \in Seq(S)
         /\ Len([s EXCEPT ![i] = t]) = Len(s)
         /\ Len(s) \in Nat \ {0}
         /\ DOMAIN [s EXCEPT ![i] = t] = 1..Len(s)
         /\ DOMAIN s = 1..Len(s)
         /\ [s EXCEPT ![i] = t][i] = t
         /\ \A j \in DOMAIN s \ {i} : [s EXCEPT ![i] = t][j] = s[j]
  OBVIOUS

\* A row is taken off the form.
LEMMA Removed ==
  ASSUME NEW S, NEW s \in Seq(S), NEW i \in DOMAIN s
  PROVE  /\ SubSeq(s, 1, i - 1) \o SubSeq(s, i + 1, Len(s)) \in Seq(S)
         /\ Len(SubSeq(s, 1, i - 1) \o SubSeq(s, i + 1, Len(s))) = Len(s) - 1
  OBVIOUS

-----------------------------------------------------------------------------
\* The page as it was rendered.
LEMMA InitInv == Init => Inv
<1> SUFFICES ASSUME Init PROVE Inv
  OBVIOUS
<1>1. protocol \in Protocols
  BY RenderedAssumption DEF Init
<1>2. form \in Forms /\ Len(form.rows) <= MaxRows
  <2>1. PICK amount \in Amounts, tax \in Taxes, details \in Details :
          form = [pair |-> Native, devBuy |-> amount, bundle |-> FALSE, tax |-> tax,
                  details |-> details, rows |-> << [address |-> Blank, amount |-> amount] >>]
    BY DEF Init
  <2>2. << [address |-> Blank, amount |-> amount] >> \in Seq(Rows)
    BY DEF Rows, RowTyped
  <2> QED
    BY <2>1, <2>2, LaunchAssumption, ConstantTypes DEF Forms, Typed
<1>3. page \in [fee : Fees, pairs : SUBSET Erc20Pairs]
  BY <1>1 DEF Init, Protocols
<1>4. wallet \in [Pairs -> Nat] /\ allowance \in [Erc20Pairs -> Nat]
  BY LaunchAssumption DEF Init, Pairs
<1>5. built \in Builds /\ changes \in 0..MaxChanges /\ txs \in Seq(Transactions)
  BY ConstantTypes, LaunchAssumption DEF Init
<1>6. phase = "Idle" /\ at = "idle" /\ ~busy
  BY DEF Init, busy
<1>7. sending = NotSending /\ rebuilt \in BOOLEAN /\ touched \in BOOLEAN
  BY DEF Init
<1>8. TypeOK
  BY <1>1, <1>2, <1>3, <1>4, <1>5, <1>6, <1>7 DEF TypeOK, Places
<1> QED
  BY <1>8 DEF Init, Inv, PhaseMatches, Captured, Checked, Pinned, Funded, Signed, InFlight,
              AwaitsLatest

-----------------------------------------------------------------------------
(* The kinds of step there are.                                            *)

\* A field changes, and nothing else does.
LEMMA EditStep ==
  ASSUME Inv, UNCHANGED <<page, submitVars, chainVars>>,
         form' \in Forms, Len(form'.rows) <= MaxRows,
         at # "idle" => MoneyOf(form') = MoneyOf(form)
  PROVE  Inv'
<1> USE DEF submitVars, chainVars
<1>1. TypeOK'
  BY DEF Inv, TypeOK, busy
<1>2. PhaseMatches' /\ Checked' /\ Pinned'
  BY DEF Inv, PhaseMatches, Checked, Pinned
<1>3. Captured'
  BY DEF Inv, Captured
<1>4. Funded'
  BY DEF Inv, Funded, CanPay
<1>5. Signed' /\ InFlight' /\ AwaitsLatest'
  BY DEF Inv, Signed, InFlight, AwaitsLatest, LatestIs, Latest
<1> QED
  BY <1>1, <1>2, <1>3, <1>4, <1>5 DEF Inv

\* submit goes from one place to another, and no transaction is sent.
LEMMA SubmitStep ==
  ASSUME Inv, UNCHANGED <<formVars, sending, chainVars>>,
         at # "idle", at' \in Places \ {"idle", "approval", "receipt"},
         built' \in Builds, rebuilt' \in BOOLEAN,
         PhaseMatches', Pinned', Funded',
         at \in {"approval", "receipt"} => Latest.state # "pending",
         at' = "bundle" => /\ at = "receipt" /\ Latest.state = "success"
                           /\ shouldSendProtectedBuys(sending)
  PROVE  Inv'
<1> USE DEF formVars, chainVars
<1>1. phase' \in {"Quoting", "AwaitingWallet", "Pending", "Confirmed"}
      /\ (phase' = "Confirmed" => at' = "bundle") /\ busy'
  BY DEF PhaseMatches, Places, busy
<1>2. TypeOK'
  BY <1>1 DEF Inv, TypeOK, Places
<1>3. Captured' /\ Checked'
  BY DEF Inv, Captured, Checked
<1>4. Signed'
  BY DEF Inv, Signed
<1>5. InFlight'
  BY DEF Inv, InFlight, Latest
<1>6. AwaitsLatest'
  BY <1>1 DEF Inv, AwaitsLatest, LatestIs, Latest
<1> QED
  BY <1>2, <1>3, <1>4, <1>5, <1>6 DEF Inv

\* submit is over, and no transaction is sent.
LEMMA LeaveStep ==
  ASSUME Inv, UNCHANGED <<formVars, chainVars>>, at # "idle",
         at' = "idle", sending' = NotSending, built' = NoBuild, rebuilt' = FALSE,
         phase' \in {"Confirmed", "Failed", "Rejected"},
         at \in {"approval", "receipt"} => Latest.state # "pending",
         phase' = "Confirmed" => LatestIs("launch") /\ Latest.state = "success"
  PROVE  Inv'
<1> USE DEF formVars, chainVars
<1>1. TypeOK'
  BY ConstantTypes DEF Inv, TypeOK, busy, Places
<1>2. PhaseMatches' /\ Captured' /\ Checked' /\ Pinned' /\ Funded'
  BY DEF PhaseMatches, Captured, Checked, Pinned, Funded
<1>3. Signed'
  BY DEF Inv, Signed
<1>4. InFlight'
  BY DEF Inv, InFlight, Latest
<1>5. AwaitsLatest'
  BY DEF AwaitsLatest, LatestIs, Latest
<1> QED
  BY <1>1, <1>2, <1>3, <1>4, <1>5 DEF Inv

\* A transaction is sent, and submit awaits it or has lost sight of it at once.
LEMMA BroadcastStep ==
  ASSUME Inv, NEW kind \in Kinds, NEW unseen \in BOOLEAN, Signing(kind),
         Broadcast(kind, unseen),
         UNCHANGED <<formVars, protocol, wallet, allowance, changes, touched>>,
         \/ /\ ~unseen /\ phase' = "Pending"
            /\ at' = (IF kind = "approval" THEN "approval" ELSE "receipt")
            /\ UNCHANGED <<sending, built, rebuilt>>
         \/ /\ unseen /\ phase' = "Failed" /\ at' = "idle"
            /\ sending' = NotSending /\ built' = NoBuild /\ rebuilt' = FALSE
  PROVE  Inv'
<1> USE DEF formVars
<1>0. /\ at \in {"approve", "sign"} /\ (kind = "launch" <=> at = "sign") /\ at # "idle"
      /\ sending \in Forms /\ built \in Builds /\ txs \in Seq(Transactions)
      /\ sending.devBuy # Unreadable
      /\ kind = "launch" => built.terms \in Terms
  BY DEF Inv, TypeOK, Checked, Pinned, Signing, Kinds
<1> DEFINE tx == [kind |-> kind, pair |-> sending.pair, amount |-> sending.devBuy,
                  tax |-> sending.tax,
                  built |-> IF kind = "launch" THEN built ELSE NoBuild,
                  exempt |-> IF kind = "launch" THEN Exemptions(sending) ELSE {},
                  state |-> "pending", terms |-> Waived, unseen |-> unseen]
<1>1. txs' = Append(txs, tx)
  BY DEF Broadcast
<1>2. tx \in Transactions
  BY <1>0, FormTypes, ExemptionsType, ConstantTypes DEF Transactions
<1>3. /\ txs' \in Seq(Transactions) /\ Len(txs') = Len(txs) + 1 /\ Len(txs) \in Nat
      /\ DOMAIN txs' = 1..Len(txs) + 1 /\ DOMAIN txs = 1..Len(txs)
      /\ txs'[Len(txs) + 1] = tx
      /\ \A i \in DOMAIN txs : txs'[i] = txs[i]
  <2> HIDE DEF tx
  <2> QED
    BY <1>0, <1>1, <1>2, Appended
<1>4. /\ tx.kind = kind /\ tx.amount = sending.devBuy /\ tx.state = "pending"
      /\ tx.unseen = unseen /\ tx.pair = sending.pair
      /\ kind = "launch" => tx.built = built /\ tx.exempt = Exemptions(sending)
  OBVIOUS
<1> HIDE DEF tx
<1>5. Latest' = tx
  BY <1>3 DEF Latest
<1>6. TypeOK'
  <2>1. at' \in Places /\ (at' # "idle" <=> busy')
    BY DEF Places, busy
  <2>2. IF at' = "idle" THEN sending' = NotSending ELSE sending' \in Forms
    BY <1>0
  <2>3. built' \in Builds /\ rebuilt' \in BOOLEAN
    BY <1>0, ConstantTypes DEF Inv, TypeOK
  <2> QED
    BY <1>3, <2>1, <2>2, <2>3 DEF Inv, TypeOK
<1>7. PhaseMatches' /\ Pinned'
  BY DEF PhaseMatches, Pinned
<1>8. Captured' /\ Checked'
  BY <1>0 DEF Inv, Captured, Checked
<1>9. Funded'
  BY <1>0 DEF Inv, Funded, CanPay
<1>10. Signed'
  BY <1>0, <1>3, <1>4 DEF Inv, Signed
<1>11. InFlight'
  <2> SUFFICES ASSUME NEW i \in DOMAIN txs', txs'[i].state = "pending"
               PROVE  txs'[i].unseen \/ (at' \in {"approval", "receipt"} /\ i = Len(txs'))
    BY DEF InFlight
  <2>1. CASE i = Len(txs) + 1
    BY <1>3, <1>4, <2>1
  <2>2. CASE i # Len(txs) + 1
    BY <1>0, <1>3, <2>2 DEF Inv, InFlight
  <2> QED
    BY <2>1, <2>2
<1>12. AwaitsLatest'
  BY <1>0, <1>3, <1>4, <1>5 DEF AwaitsLatest, LatestIs, Kinds
<1> QED
  BY <1>6, <1>7, <1>8, <1>9, <1>10, <1>11, <1>12 DEF Inv

-----------------------------------------------------------------------------
(* Every action.                                                           *)

\* Typing, choosing a pair, adding and removing rows, at any time.
LEMMA EditsInv ==
  ASSUME Inv, Edits
  PROVE  Inv'
<1>0. /\ form \in Forms /\ Len(form.rows) <= MaxRows
      /\ at # "idle" <=> busy
      /\ page.pairs \subseteq Erc20Pairs
  BY DEF Inv, TypeOK
<1> DEFINE Good(f) == /\ f \in Forms /\ Len(f.rows) <= MaxRows
                      /\ at # "idle" => MoneyOf(f) = MoneyOf(form)
<1>1. SUFFICES \E f : Good(f) /\ Edit(f)
  BY EditStep DEF Edit
<1>2. ASSUME NEW details \in Details, EditDetails(details)
      PROVE  \E f : Good(f) /\ Edit(f)
  <2> DEFINE f == [form EXCEPT !.details = details]
  <2>1. f \in Forms /\ f.rows = form.rows
    BY <1>0 DEF Forms
  <2>2. MoneyOf(f) = MoneyOf(form)
    BY <1>0 DEF Forms, MoneyOf
  <2> QED
    BY <1>0, <1>2, <2>1, <2>2 DEF EditDetails
<1>3. ASSUME NEW devBuy \in Typed, NEW tax \in Taxes, EditMoney(devBuy, tax)
      PROVE  \E f : Good(f) /\ Edit(f)
  <2> DEFINE f == [form EXCEPT !.devBuy = devBuy, !.tax = tax]
  <2>1. f \in Forms /\ f.rows = form.rows
    BY <1>0 DEF Forms
  <2> QED
    BY <1>0, <1>3, <2>1 DEF EditMoney, MayEdit
<1>4. ASSUME NEW pair \in Pairs, changePair(pair)
      PROVE  \E f : Good(f) /\ Edit(f)
  <2> DEFINE rows == [i \in DOMAIN form.rows |-> [form.rows[i] EXCEPT !.amount = NoAmount]]
             f == [form EXCEPT !.pair = pair, !.devBuy = NoAmount, !.rows = rows,
                               !.bundle = form.bundle /\ pair = Native]
  <2>1. /\ form.rows \in Seq(Rows) /\ Len(form.rows) \in Nat
        /\ DOMAIN form.rows = 1..Len(form.rows)
    BY <1>0, FormTypes
  <2>2. \A i \in DOMAIN form.rows : [form.rows[i] EXCEPT !.amount = NoAmount] \in Rows
    <3>1. \A i \in DOMAIN form.rows : form.rows[i] \in Rows
      BY <2>1
    <3> QED
      BY <3>1, ConstantTypes DEF Rows
  <2>3. rows \in Seq(Rows) /\ Len(rows) = Len(form.rows)
    BY <2>1, <2>2
  <2> HIDE DEF rows
  <2>4. f \in Forms /\ f.rows = rows
    BY <1>0, <2>3, ConstantTypes DEF Forms
  <2>5. Edit(f)
    BY <1>4 DEF changePair, rows
  <2>6. at = "idle"
    BY <1>0, <1>4 DEF changePair, MayEdit
  <2> HIDE DEF f
  <2> QED
    BY <1>0, <2>3, <2>4, <2>5, <2>6
<1>5. CASE ToggleBundle
  <2> DEFINE f == [form EXCEPT !.bundle = ~form.bundle]
  <2>1. f \in Forms /\ f.rows = form.rows
    BY <1>0 DEF Forms
  <2> QED
    BY <1>0, <1>5, <2>1 DEF ToggleBundle, MayToggle
<1>6. CASE addWalletRow
  <2>1. PICK amount \in RowTyped :
          Edit([form EXCEPT !.rows = Append(@, [address |-> Blank, amount |-> amount])])
    BY <1>6 DEF addWalletRow, RowTyped
  <2> DEFINE rows == Append(form.rows, [address |-> Blank, amount |-> amount])
             f == [form EXCEPT !.rows = rows]
  <2>2. [address |-> Blank, amount |-> amount] \in Rows
    BY DEF Rows
  <2>3. rows \in Seq(Rows) /\ Len(rows) = Len(form.rows) + 1 /\ Len(form.rows) \in Nat
    BY <1>0, <2>2, FormTypes, Appended
  <2>4. Edit(f)
    BY <2>1
  <2> HIDE DEF rows
  <2>5. f \in Forms /\ f.rows = rows
    BY <1>0, <2>3 DEF Forms
  <2>6. at = "idle" /\ Len(form.rows) < MaxRows
    BY <1>0, <1>6 DEF addWalletRow, MayEdit, RoomForRow
  <2> HIDE DEF f
  <2> QED
    BY <2>3, <2>4, <2>5, <2>6, LaunchAssumption
<1>7. ASSUME NEW i \in DOMAIN form.rows, removeWalletRow(i)
      PROVE  \E f : Good(f) /\ Edit(f)
  <2> DEFINE rows == SubSeq(form.rows, 1, i - 1) \o SubSeq(form.rows, i + 1, Len(form.rows))
             f == [form EXCEPT !.rows = rows]
  <2>1. rows \in Seq(Rows) /\ Len(rows) = Len(form.rows) - 1 /\ Len(form.rows) \in Nat
    BY <1>0, FormTypes, Removed
  <2>2. Edit(f) /\ at = "idle"
    BY <1>0, <1>7 DEF removeWalletRow, MayEdit
  <2> HIDE DEF rows
  <2>3. f \in Forms /\ f.rows = rows
    BY <1>0, <2>1 DEF Forms
  <2> HIDE DEF f
  <2> QED
    BY <1>0, <2>1, <2>2, <2>3, LaunchAssumption
<1>8. ASSUME NEW i \in DOMAIN form.rows,
             \/ \E address \in Wallets \union {Blank, Malformed} : updateAddress(i, address)
             \/ \E amount \in RowTyped : updateAmount(i, amount)
      PROVE  \E f : Good(f) /\ Edit(f)
  <2>1. PICK row \in Rows : Edit([form EXCEPT !.rows = [form.rows EXCEPT ![i] = row]])
    <3>1. form.rows[i] \in Rows
      BY <1>0, FormTypes
    <3>2. ASSUME NEW address \in Wallets \union {Blank, Malformed}, updateAddress(i, address)
          PROVE  \E row \in Rows : Edit([form EXCEPT !.rows = [form.rows EXCEPT ![i] = row]])
      <4> DEFINE row == [form.rows[i] EXCEPT !.address = address]
      <4>1. row \in Rows
        BY <3>1 DEF Rows
      <4>2. Edit([form EXCEPT !.rows = [form.rows EXCEPT ![i] = row]])
        BY <3>2 DEF updateAddress
      <4> QED
        BY <4>1, <4>2
    <3>3. ASSUME NEW amount \in RowTyped, updateAmount(i, amount)
          PROVE  \E row \in Rows : Edit([form EXCEPT !.rows = [form.rows EXCEPT ![i] = row]])
      <4> DEFINE row == [form.rows[i] EXCEPT !.amount = amount]
      <4>1. row \in Rows
        BY <3>1 DEF Rows
      <4>2. Edit([form EXCEPT !.rows = [form.rows EXCEPT ![i] = row]])
        BY <3>3 DEF updateAmount
      <4> QED
        BY <4>1, <4>2
    <3> QED
      BY <1>8, <3>2, <3>3
  <2> DEFINE rows == [form.rows EXCEPT ![i] = row]
             f == [form EXCEPT !.rows = rows]
  <2>2. rows \in Seq(Rows) /\ Len(rows) = Len(form.rows)
    BY <1>0, FormTypes, Replaced
  <2>3. at = "idle"
    BY <1>0, <1>8 DEF updateAddress, updateAmount, MayEdit
  <2>4. Edit(f)
    BY <2>1
  <2> HIDE DEF rows
  <2>5. f \in Forms /\ f.rows = rows
    BY <1>0, <2>2 DEF Forms
  <2> HIDE DEF f
  <2> QED
    BY <1>0, <2>2, <2>3, <2>4, <2>5
<1> QED
  BY <1>2, <1>3, <1>4, <1>5, <1>6, <1>7, <1>8 DEF Edits

\* The button: submit captures the form and checks it.
LEMMA PressInv ==
  ASSUME Inv, Press
  PROVE  Inv'
<1>0. /\ at = "idle" /\ form \in Forms /\ form' = form /\ sending' = form
      /\ at' = (IF IsNative(form) THEN "balance" ELSE "decimals") /\ phase' = "Quoting"
      /\ form.devBuy # Unreadable /\ ~exemptionErrors(form)
  BY DEF Inv, TypeOK, Press, formVars
<1>1. TypeOK'
  BY <1>0 DEF Inv, TypeOK, Press, formVars, busy, Places
<1>2. PhaseMatches' /\ Pinned' /\ Captured' /\ Checked'
  BY <1>0 DEF PhaseMatches, Pinned, Captured, Checked
<1>3. Funded'
  BY <1>0 DEF Funded, Press
<1>4. Signed'
  BY DEF Inv, Signed, Press
<1>5. InFlight'
  BY <1>0 DEF Inv, InFlight, Press
<1>6. AwaitsLatest'
  BY <1>0 DEF AwaitsLatest
<1> QED
  BY <1>1, <1>2, <1>3, <1>4, <1>5, <1>6 DEF Inv

\* A read, a simulation or the wallet that throws.
LEMMA FailInv ==
  ASSUME Inv, at # "idle", Fail, at \in {"approval", "receipt"} => Latest.state # "pending"
  PROVE  Inv'
<1>1. /\ UNCHANGED <<formVars, chainVars>>
      /\ at' = "idle" /\ sending' = NotSending /\ built' = NoBuild /\ rebuilt' = FALSE
      /\ phase' = "Failed"
  BY DEF Fail, Leave, chainVars
<1> QED
  BY <1>1, LeaveStep

\* Once the money has been seen to, going on changes nothing about it.
LEMMA StaysFunded ==
  ASSUME Inv, UNCHANGED <<sending, protocol, wallet, page, touched>>,
         at \notin {"idle", "decimals", "balance", "pairBalance"}
  PROVE  Funded'
BY DEF Inv, Funded, CanPay

\* The reads before the launch is built, and the checks of what was read.
LEMMA ReadsInv ==
  ASSUME Inv,
         DecimalsRead \/ BalanceRead \/ PairBalanceRead
  PROVE  Inv'
<1>1. ASSUME Fail, at # "idle", at \notin {"approval", "receipt"} PROVE Inv'
  BY <1>1, FailInv
<1>2. ASSUME NEW place \in {"balance", "pairBalance", "params"}, Proceed(place),
             at \in {"decimals", "balance", "pairBalance"}, Funded'
      PROVE  Inv'
  <2>1. /\ UNCHANGED <<formVars, sending, chainVars, built, rebuilt>>
        /\ at' = place /\ phase' = phase
    BY <1>2 DEF Proceed, Goto
  <2>2. PhaseMatches' /\ Pinned'
    BY <1>2, <2>1 DEF Inv, PhaseMatches, Pinned
  <2>3. built' \in Builds /\ rebuilt' \in BOOLEAN
    BY <2>1 DEF Inv, TypeOK
  <2> QED
    BY <1>2, <2>1, <2>2, <2>3, SubmitStep DEF Places
<1>3. CASE DecimalsRead /\ ScaleKnown(sending.pair)
  <2>1. at = "decimals" /\ Proceed("balance")
    BY <1>3 DEF DecimalsRead
  <2>2. Funded'
    BY <1>3, <2>1 DEF Proceed, Goto, Funded, ScaleKnown, chainVars
  <2> QED
    BY <1>2, <2>1, <2>2
<1>4. CASE BalanceRead /\ CanPay(sending)
  <2>1. at = "balance" /\ Proceed(IF PullsPair(sending) THEN "pairBalance" ELSE "params")
    BY <1>4 DEF BalanceRead
  <2>2. Funded'
    BY <1>4, <2>1 DEF Inv, Proceed, Goto, Funded, CanPay, chainVars, formVars
  <2>3. PICK place \in {"pairBalance", "params"} : Proceed(place)
    BY <2>1
  <2> QED
    BY <1>2, <2>1, <2>2, <2>3
<1>5. CASE PairBalanceRead /\ wallet[sending.pair] >= sending.devBuy
  <2>1. at = "pairBalance" /\ Proceed("params")
    BY <1>5 DEF PairBalanceRead
  <2>2. Funded'
    BY <1>5, <2>1 DEF Inv, Proceed, Goto, Funded, CanPay, chainVars, formVars
  <2> QED
    BY <1>2, <2>1, <2>2
<1> QED
  BY <1>1, <1>3, <1>4, <1>5 DEF DecimalsRead, BalanceRead, PairBalanceRead

\* Where the launch is built and its allowance seen to.
LEMMA BuildInv ==
  ASSUME Inv,
         \/ ParamsRead \/ PairRead \/ EconomicsRead \/ AllowanceRead \/ Simulated
         \/ ApprovalMined
  PROVE  Inv'
<1>0. sending \in Forms \/ at = "idle"
  BY DEF Inv, TypeOK
<1>1. ASSUME Fail, at # "idle", at \in {"approval", "receipt"} => Latest.state # "pending"
      PROVE Inv'
  BY <1>1, FailInv
<1>2. ASSUME UNCHANGED <<formVars, sending, chainVars>>,
             at \notin {"idle", "decimals", "balance", "pairBalance"},
             at' \in Places \ {"idle", "approval", "receipt", "bundle"},
             at = "approval" => Latest.state # "pending", at # "receipt",
             built' \in Builds, rebuilt' \in BOOLEAN, PhaseMatches', Pinned'
      PROVE  Inv'
  <2>1. Funded'
    BY <1>2, StaysFunded DEF chainVars, formVars
  <2> QED
    BY <1>2, <2>1, SubmitStep
<1> USE DEF Goto, Proceed, Rebuild
<1>3. protocol \in Protocols /\ built \in Builds /\ rebuilt \in BOOLEAN
  BY DEF Inv, TypeOK
<1>4. CASE ParamsRead /\ ~Fail
  <2>1. /\ at = "params" /\ built' = [built EXCEPT !.fee = protocol.fee]
        /\ UNCHANGED <<rebuilt, formVars, sending, chainVars, phase>>
        /\ at' \in {"economics", "pair"}
    BY <1>4 DEF ParamsRead
  <2>2. built' \in Builds
    BY <1>3, <2>1 DEF Builds, Protocols
  <2>3. PhaseMatches' /\ Pinned'
    BY <2>1 DEF Inv, PhaseMatches, Pinned
  <2> QED
    BY <1>2, <1>3, <2>1, <2>2, <2>3 DEF Places
<1>5. CASE PairRead /\ ~Fail
  <2>1. /\ at = "pair" /\ at' = "economics"
        /\ UNCHANGED <<built, rebuilt, formVars, sending, chainVars, phase>>
    BY <1>5 DEF PairRead
  <2>2. PhaseMatches' /\ Pinned'
    BY <2>1 DEF Inv, PhaseMatches, Pinned
  <2> QED
    BY <1>2, <1>3, <2>1, <2>2 DEF Places
<1>6. CASE EconomicsRead
  <2>1. /\ at = "economics" /\ built' = [built EXCEPT !.terms = protocol.terms]
        /\ UNCHANGED <<rebuilt, formVars, sending, chainVars, phase>>
        /\ at' \in {"allowance", "simulate"}
    BY <1>6 DEF EconomicsRead, Pin
  <2>2. built' \in Builds /\ built'.terms \in Terms
    BY <1>3, <2>1 DEF Builds, Protocols
  <2>3. PhaseMatches' /\ Pinned'
    BY <2>1, <2>2 DEF Inv, PhaseMatches, Pinned
  <2> QED
    BY <1>2, <1>3, <2>1, <2>2, <2>3 DEF Places
<1>7. CASE AllowanceRead
  <2>1. /\ at = "allowance"
        /\ UNCHANGED <<built, formVars, sending, chainVars>> /\ rebuilt' \in BOOLEAN
        /\ \/ at' = "approve" /\ phase' = "AwaitingWallet"
           \/ at' = "params" /\ phase' = phase
    BY <1>3, <1>7 DEF AllowanceRead
  <2>2. PhaseMatches' /\ Pinned'
    BY <2>1 DEF Inv, PhaseMatches, Pinned
  <2> QED
    BY <1>2, <1>3, <2>1, <2>2 DEF Places
<1>8. CASE Simulated
  <2>1. /\ at = "simulate" /\ at' = "sign" /\ phase' = "AwaitingWallet"
        /\ UNCHANGED <<built, rebuilt, formVars, sending, chainVars>>
    BY <1>8 DEF Simulated
  <2>2. PhaseMatches' /\ Pinned'
    BY <2>1 DEF Inv, PhaseMatches, Pinned
  <2> QED
    BY <1>2, <1>3, <2>1, <2>2 DEF Places
<1>9. CASE ApprovalMined /\ ~Fail
  <2>1. /\ at = "approval" /\ at' = "params" /\ phase' = phase /\ Latest.state # "pending"
        /\ UNCHANGED <<built, formVars, sending, chainVars>> /\ rebuilt' \in BOOLEAN
    BY <1>9 DEF ApprovalMined
  <2>2. PhaseMatches' /\ Pinned'
    BY <2>1 DEF Inv, PhaseMatches, Pinned
  <2> QED
    BY <1>2, <1>3, <2>1, <2>2 DEF Places
<1> QED
  BY <1>1, <1>4, <1>5, <1>6, <1>7, <1>8, <1>9 DEF ParamsRead, PairRead, ApprovalMined

\* What the wallet is asked to sign is broadcast.
LEMMA SignaturesInv ==
  ASSUME Inv, NEW kind \in Kinds, Sign(kind) \/ AnswerLost(kind)
  PROVE  Inv'
<1>1. CASE Sign(kind)
  BY <1>1, BroadcastStep DEF Sign
<1>2. CASE AnswerLost(kind)
  BY <1>2, BroadcastStep DEF AnswerLost, Leave
<1> QED
  BY <1>1, <1>2

\* The receipt is not seen: whatever becomes of the transaction, the form has lost it.
LEMMA ReceiptLostInv ==
  ASSUME Inv, ReceiptLost
  PROVE  Inv'
<1>0. /\ at \in {"approval", "receipt"} /\ Len(txs) > 0 /\ txs \in Seq(Transactions)
      /\ at' = "idle" /\ sending' = NotSending /\ built' = NoBuild /\ rebuilt' = FALSE
      /\ phase' = "Failed"
      /\ UNCHANGED <<form, page, protocol, wallet, allowance, changes, touched>>
  BY DEF ReceiptLost, Leave, formVars, Inv, TypeOK, AwaitsLatest, LatestIs
<1> DEFINE n == Len(txs)
           tx == [txs[n] EXCEPT !.unseen = TRUE]
<1>1. n \in DOMAIN txs /\ txs[n] \in Transactions
  BY <1>0
<1>2. /\ tx \in Transactions /\ tx.unseen
      /\ tx.amount = txs[n].amount /\ tx.kind = txs[n].kind /\ tx.built = txs[n].built
      /\ tx.state = txs[n].state /\ tx.terms = txs[n].terms
  BY <1>1 DEF Transactions
<1>3. txs' = [txs EXCEPT ![n] = tx]
  BY DEF ReceiptLost
<1> HIDE DEF tx
<1>4. /\ txs' \in Seq(Transactions) /\ DOMAIN txs' = DOMAIN txs
      /\ txs'[n] = tx /\ \A i \in DOMAIN txs \ {n} : txs'[i] = txs[i]
  BY <1>0, <1>1, <1>2, <1>3, Replaced
<1>5. TypeOK'
  BY <1>0, <1>4, ConstantTypes DEF Inv, TypeOK, busy, Places
<1>6. PhaseMatches' /\ Captured' /\ Checked' /\ Pinned' /\ Funded'
  BY <1>0 DEF PhaseMatches, Captured, Checked, Pinned, Funded
<1>7. Signed'
  BY <1>2, <1>4 DEF Inv, Signed
<1>8. InFlight'
  BY <1>0, <1>2, <1>4 DEF Inv, InFlight
<1>9. AwaitsLatest'
  BY <1>0 DEF AwaitsLatest
<1> QED
  BY <1>5, <1>6, <1>7, <1>8, <1>9 DEF Inv

\* The wallet says no, a receipt arrives, the bundle takes over or is done.
LEMMA EndingsInv ==
  ASSUME Inv,
         Reject \/ Fails \/ Receipt \/ BundleEnds
  PROVE  Inv'
<1>1. CASE Fails
  BY <1>1, FailInv DEF Fails
<1>2. CASE Receipt /\ Fail
  BY <1>2, FailInv DEF Receipt
<1>3. CASE Reject
  BY <1>3, LeaveStep DEF Reject, Leave, chainVars
<1>4. CASE BundleEnds
  <2>1. LatestIs("launch") /\ Latest.state = "success"
    BY <1>4 DEF Inv, BundleEnds, AwaitsLatest, PhaseMatches
  <2> QED
    BY <1>4, <2>1, LeaveStep DEF BundleEnds, Leave, chainVars
<1>5. CASE Receipt /\ ~Fail
  <2>1. /\ at = "receipt" /\ Latest.state = "success" /\ LatestIs("launch")
    BY <1>5 DEF Inv, Receipt, Succeeded, AwaitsLatest
  <2>2. CASE shouldSendProtectedBuys(sending)
    <3>1. /\ at' = "bundle" /\ phase' = "Confirmed"
          /\ UNCHANGED <<built, rebuilt, formVars, sending, chainVars>>
      BY <1>5, <2>1, <2>2 DEF Receipt, Goto, Succeeded
    <3>2. PhaseMatches' /\ Pinned'
      BY <3>1 DEF PhaseMatches, Pinned
    <3>3. Funded'
      BY <2>1, <3>1, StaysFunded DEF chainVars, formVars
    <3>4. built' \in Builds /\ rebuilt' \in BOOLEAN
      BY <3>1 DEF Inv, TypeOK
    <3> QED
      BY <2>1, <2>2, <3>1, <3>2, <3>3, <3>4, SubmitStep DEF Places
  <2>3. CASE ~shouldSendProtectedBuys(sending)
    <3>1. Leave("Confirmed") /\ UNCHANGED txs
      BY <1>5, <2>1, <2>3 DEF Receipt, Succeeded
    <3> QED
      BY <2>1, <3>1, LeaveStep DEF Leave, chainVars
  <2> QED
    BY <2>2, <2>3
<1> QED
  BY <1>1, <1>2, <1>3, <1>4, <1>5

\* The factory's owner and the wallet's other spending: the form takes no notice.
LEMMA ChangeInv ==
  ASSUME Inv, Change
  PROVE  Inv'
<1>0. UNCHANGED <<form, page, phase, at, sending, built, rebuilt, allowance, txs>> /\ touched'
  BY DEF Change, formVars, submitVars
<1>1. protocol' \in Protocols
  <2>1. protocol \in Protocols
    BY DEF Inv, TypeOK
  <2>2. CASE protocol' = protocol
    BY <2>1, <2>2
  <2>3. CASE \/ \E fee \in Fees : protocol' = [protocol EXCEPT !.fee = fee]
             \/ \E terms \in Terms : protocol' = [protocol EXCEPT !.terms = terms]
             \/ \E ceiling \in Ceilings : protocol' = [protocol EXCEPT !.ceiling = ceiling]
             \/ protocol' = [protocol EXCEPT !.enabled = ~@]
             \/ \E p \in Erc20Pairs :
                  \/ protocol' = [protocol EXCEPT !.approved = @ \ {p}]
                  \/ protocol' = [protocol EXCEPT !.rescaled = @ \union {p}]
    BY <2>1, <2>3 DEF Protocols
  <2> QED
    BY <2>2, <2>3 DEF Change
<1>2. wallet' \in [Pairs -> Nat]
  <2>1. wallet \in [Pairs -> Nat]
    BY DEF Inv, TypeOK
  <2> QED
    BY <2>1 DEF Change
<1>3. changes' \in 0..MaxChanges
  BY LaunchAssumption DEF Inv, TypeOK, Change
<1>4. TypeOK'
  BY <1>0, <1>1, <1>2, <1>3 DEF Inv, TypeOK, busy
<1>5. PhaseMatches' /\ Captured' /\ Checked' /\ Pinned'
  BY <1>0 DEF Inv, PhaseMatches, Captured, Checked, Pinned
<1>6. Funded' /\ Signed'
  BY <1>0 DEF Inv, Funded, Signed
<1>7. InFlight' /\ AwaitsLatest'
  BY <1>0 DEF Inv, InFlight, AwaitsLatest, LatestIs, Latest
<1> QED
  BY <1>4, <1>5, <1>6, <1>7 DEF Inv

\* A transaction becomes part of the chain, or does not.
LEMMA MineInv ==
  ASSUME Inv, NEW i \in DOMAIN txs, Mine(i)
  PROVE  Inv'
<1> DEFINE tx == txs[i]
           f == [pair |-> tx.pair, devBuy |-> tx.amount, tax |-> tx.tax]
<1>0. /\ UNCHANGED <<form, page, phase, at, sending, built, rebuilt, protocol, changes>>
      /\ tx.state = "pending" /\ txs \in Seq(Transactions) /\ tx \in Transactions
      /\ protocol \in Protocols /\ wallet \in [Pairs -> Nat] /\ allowance \in [Erc20Pairs -> Nat]
      /\ tx.amount # Unreadable /\ tx.kind \in Kinds /\ tx.amount \in Typed /\ tx.pair \in Pairs
      /\ tx.built \in Builds
      /\ tx.kind = "launch" => tx.built.terms \in Terms
  <2>1. /\ UNCHANGED <<form, page, phase, at, sending, built, rebuilt, protocol, changes>>
        /\ tx.state = "pending"
    BY DEF Mine, formVars, submitVars
  <2>2. /\ txs \in Seq(Transactions) /\ protocol \in Protocols
        /\ wallet \in [Pairs -> Nat] /\ allowance \in [Erc20Pairs -> Nat]
    BY DEF Inv, TypeOK
  <2>3. tx \in Transactions
    BY <2>2
  <2>4. tx.kind \in Kinds /\ tx.amount \in Typed /\ tx.pair \in Pairs /\ tx.built \in Builds
    BY <2>3 DEF Transactions
  <2>5. tx.amount # Unreadable /\ (tx.kind = "launch" => tx.built.terms \in Terms)
    BY DEF Inv, Signed
  <2> QED
    BY <2>1, <2>2, <2>3, <2>4, <2>5
<1>1. PICK state \in {"success", "reverted"}, terms \in Terms \union {Waived} :
        /\ txs' = [txs EXCEPT ![i].state = state, ![i].terms = terms]
        /\ \/ state = "reverted" /\ UNCHANGED <<wallet, allowance, touched>>
           \/ /\ state = "success" /\ tx.kind = "approval"
              /\ allowance' = [allowance EXCEPT ![tx.pair] = tx.amount]
              /\ UNCHANGED <<wallet, touched>>
           \/ /\ state = "success" /\ tx.kind = "launch" /\ terms = protocol.terms
              /\ Accepted(f, tx.built)
              /\ wallet' = [p \in Pairs |->
                   wallet[p] - (CASE p = Native -> launchValue(tx.built.fee, f)
                                  [] p = tx.pair /\ p # Native -> tx.amount
                                  [] OTHER -> 0)]
              /\ allowance' = [p \in Erc20Pairs |->
                   allowance[p] - (IF p = tx.pair THEN tx.amount ELSE 0)]
              /\ touched' = TRUE
  <2>1. protocol.terms \in Terms
    BY <1>0 DEF Protocols
  <2> QED
    BY <2>1 DEF Mine, Settle
<1> DEFINE mined == [tx EXCEPT !.state = state, !.terms = terms]
<1>2. /\ mined \in Transactions /\ mined.state = state /\ mined.terms = terms
      /\ mined.kind = tx.kind /\ mined.amount = tx.amount /\ mined.built = tx.built
      /\ mined.pair = tx.pair /\ mined.exempt = tx.exempt /\ mined.unseen = tx.unseen
  BY <1>0 DEF Transactions
<1>3. txs' = [txs EXCEPT ![i] = mined]
  BY <1>1
<1> HIDE DEF mined
<1>4. /\ txs' \in Seq(Transactions) /\ DOMAIN txs' = DOMAIN txs /\ Len(txs') = Len(txs)
      /\ txs'[i] = mined /\ \A j \in DOMAIN txs \ {i} : txs'[j] = txs[j]
      /\ DOMAIN txs = 1..Len(txs)
  BY <1>0, <1>2, <1>3, Replaced
<1>5. wallet' \in [Pairs -> Nat] /\ allowance' \in [Erc20Pairs -> Nat]
      /\ touched' \in BOOLEAN
  <2>1. touched \in BOOLEAN /\ tx.amount \in Nat /\ tx.built.fee \in Nat
    <3>1. tx.built.fee \in Fees \union {0}
      BY <1>0 DEF Builds
    <3>2. tx.amount \in Typed \ {Unreadable}
      BY <1>0
    <3>3. touched \in BOOLEAN
      BY DEF Inv, TypeOK
    <3>4. tx.amount \in Nat
      <4> HIDE DEF tx
      <4> QED
        BY <3>2, ConstantTypes, Zenon
    <3>5. tx.built.fee \in Nat
      <4> HIDE DEF tx
      <4>1. Fees \union {0} \subseteq Nat
        BY LaunchAssumption
      <4> QED
        BY <3>1, <4>1, Zenon
    <3> QED
      BY <3>3, <3>4, <3>5, Zenon
  <2>2. CASE state = "reverted"
    BY <1>0, <1>1, <2>1, <2>2
  <2>3. CASE state = "success" /\ tx.kind = "approval"
    BY <1>0, <1>1, <2>1, <2>3
  <2>4. CASE state = "success" /\ tx.kind = "launch"
    <3>1. /\ Accepted(f, tx.built) /\ touched' = TRUE
          /\ wallet' = [p \in Pairs |->
               wallet[p] - (CASE p = Native -> launchValue(tx.built.fee, f)
                              [] p = tx.pair /\ p # Native -> tx.amount
                              [] OTHER -> 0)]
          /\ allowance' = [p \in Erc20Pairs |->
               allowance[p] - (IF p = tx.pair THEN tx.amount ELSE 0)]
      BY <1>1, <2>4
    <3> DEFINE value == launchValue(tx.built.fee, f)
    <3>2. value \in Nat /\ wallet[Native] >= value
      BY <2>1, <3>1 DEF Accepted, launchValue, IsNative
    <3>3. tx.pair # Native => wallet[tx.pair] >= tx.amount /\ allowance[tx.pair] >= tx.amount
      BY <1>0, <2>1, <3>1, ConstantTypes DEF Accepted, PullsPair, IsNative, Pairs
    <3> HIDE DEF value
    <3>4. ASSUME NEW p \in Pairs PROVE wallet'[p] \in Nat
      <4>1. CASE p = Native
        BY <1>0, <3>1, <3>2, <4>1 DEF value
      <4>2. CASE p # Native /\ p = tx.pair
        BY <1>0, <2>1, <3>1, <3>3, <4>2
      <4>3. CASE p # Native /\ p # tx.pair
        BY <1>0, <3>1, <4>3
      <4> QED
        BY <4>1, <4>2, <4>3
    <3>5. ASSUME NEW p \in Erc20Pairs PROVE allowance'[p] \in Nat
      BY <1>0, <2>1, <3>1, <3>3, ConstantTypes
    <3> QED
      BY <3>1, <3>4, <3>5
  <2> QED
    BY <1>0, <1>1, <2>2, <2>3, <2>4 DEF Kinds
<1>6. TypeOK'
  BY <1>0, <1>4, <1>5 DEF Inv, TypeOK, busy
<1>7. PhaseMatches' /\ Captured' /\ Checked' /\ Pinned'
  BY <1>0 DEF Inv, PhaseMatches, Captured, Checked, Pinned
<1>8. Funded'
  <2>1. ~touched' => ~touched /\ wallet' = wallet
    BY <1>1
  <2> QED
    BY <1>0, <2>1 DEF Inv, Funded, CanPay
<1>9. Signed'
  <2>1. state = "success" /\ tx.kind = "launch" => terms = tx.built.terms
    <3> SUFFICES ASSUME state = "success", tx.kind = "launch" PROVE terms = tx.built.terms
      OBVIOUS
    <3>1. terms = protocol.terms /\ Accepted(f, tx.built)
      BY <1>1
    <3> QED
      BY <1>0, <3>1, ConstantTypes DEF Accepted
  <2> QED
    BY <1>0, <1>2, <1>4, <2>1 DEF Inv, Signed
<1>10. InFlight'
  BY <1>0, <1>1, <1>2, <1>4 DEF Inv, InFlight
<1>11. AwaitsLatest'
  <2>1. CASE i = Len(txs)
    <3>1. Latest = tx /\ Latest' = mined
      BY <1>4, <2>1 DEF Latest
    <3> QED
      BY <1>0, <1>2, <1>4, <3>1 DEF Inv, AwaitsLatest, LatestIs
  <2>2. CASE i # Len(txs)
    <3>1. Len(txs) > 0 => Latest' = Latest
      BY <1>0, <1>4, <2>2 DEF Latest
    <3> QED
      BY <1>0, <1>4, <3>1 DEF Inv, AwaitsLatest, LatestIs
  <2> QED
    BY <2>1, <2>2
<1> QED
  BY <1>6, <1>7, <1>8, <1>9, <1>10, <1>11 DEF Inv

\* Every step of the form, of the chain and of the factory's owner keeps the invariant.
LEMMA NextInv == Inv /\ [Next]_vars => Inv'
<1> SUFFICES ASSUME Inv, [Next]_vars PROVE Inv'
  OBVIOUS
<1>1. CASE Edits
  BY <1>1, EditsInv
<1>2. CASE Press
  BY <1>2, PressInv
<1>3. CASE Submit
  BY <1>3, ReadsInv, BuildInv, EndingsInv, ReceiptLostInv, SignaturesInv DEF Submit
<1>4. CASE Change
  BY <1>4, ChangeInv
<1>5. CASE \E i \in DOMAIN txs : Mine(i)
  BY <1>5, MineInv
<1>6. CASE UNCHANGED vars
  <2>1. form' \in Forms /\ Len(form'.rows) <= MaxRows /\ MoneyOf(form') = MoneyOf(form)
    BY <1>6 DEF vars, formVars, Inv, TypeOK
  <2> QED
    BY <1>6, <2>1, EditStep DEF vars, formVars
<1> QED
  BY <1>1, <1>2, <1>3, <1>4, <1>5, <1>6 DEF Next

-----------------------------------------------------------------------------
(* The theorems.                                                           *)

\* The inductive invariant: at every place of submit, what it captured, read, checked and sent
\* still agrees with the form, the factory and the wallet as far as that place relies on it.
THEOREM Invariant == Spec => []Inv
<1> QED
  BY InitInv, NextInv, PTL DEF Spec

\* Every state of the form is of the kind its declaration says, the fields are editable
\* exactly while nothing is being sent, and no more rows are declared than the factory takes.
THEOREM FormsTyped == Spec => []TypeOK
<1>1. Inv => TypeOK
  BY DEF Inv
<1> QED
  BY <1>1, Invariant, PTL

\* submit works with what the fields held when it was called, across every read, approval
\* and rebuild: what the wallet is asked to sign is what the form still shows.
THEOREM Signs == Spec => []SignsWhatIsTyped
<1>1. Inv => SignsWhatIsTyped
  BY DEF Inv, Captured, SignsWhatIsTyped
<1> QED
  BY <1>1, Invariant, PTL

\* As long as neither the terms nor the holdings moved, nothing is signed for a plan that
\* the wallet cannot pay to its end, however many wallets the plan buys for.
THEOREM PlanIsFunded == Spec => []PlanFunded
<1>1. Inv => PlanFunded
  <2> SUFFICES ASSUME Inv, at \in {"approve", "sign"}, ~touched
               PROVE  /\ ~IsNative(sending) => sending.pair \notin protocol.rescaled
                      /\ PullsPair(sending) => wallet[sending.pair] >= sending.devBuy
                      /\ built.fee <= page.fee =>
                           wallet[Native] >= nativePrincipalRequired(built.fee, sending)
    BY DEF PlanFunded
  <2>1. /\ sending \in Forms /\ sending.devBuy # Unreadable
        /\ page.fee \in Nat /\ built.fee \in Nat /\ wallet[Native] \in Nat
    <3>1. /\ sending \in Forms /\ sending.devBuy # Unreadable
          /\ page \in [fee : Fees, pairs : SUBSET Erc20Pairs] /\ built \in Builds
          /\ wallet \in [Pairs -> Nat]
      BY DEF Inv, TypeOK, Checked
    <3>2. page.fee \in Fees /\ built.fee \in Fees \union {0}
      BY <3>1 DEF Builds
    <3>3. Fees \union {0} \subseteq Nat
      BY LaunchAssumption
    <3>4. wallet[Native] \in Nat
      BY <3>1 DEF Pairs
    <3>5. page.fee \in Nat /\ built.fee \in Nat
      BY <3>2, <3>3
    <3> QED
      BY <3>1, <3>4, <3>5, Zenon
  <2>2. /\ ~IsNative(sending) => sending.pair \notin protocol.rescaled
        /\ PullsPair(sending) => wallet[sending.pair] >= sending.devBuy
        /\ wallet[Native] >= nativePrincipalRequired(page.fee, sending)
    BY DEF Inv, Funded, CanPay
  <2>3. ASSUME built.fee <= page.fee
        PROVE  wallet[Native] >= nativePrincipalRequired(built.fee, sending)
    <3>1. /\ nativePrincipalRequired(built.fee, sending) \in Nat
          /\ nativePrincipalRequired(page.fee, sending) \in Nat
          /\ nativePrincipalRequired(built.fee, sending) <= nativePrincipalRequired(page.fee, sending)
      BY <2>1, <2>3, Principal
    <3> QED
      BY <2>1, <2>2, <3>1
  <2> QED
    BY <2>2, <2>3
<1> QED
  BY <1>1, Invariant, PTL

\* expectedEconomics does its work: whatever the factory's owner changes, and whenever, no
\* token is created on other economics than those that were read for it.
THEOREM Repegs == Spec => []RepegNeverLands
<1>1. Inv => RepegNeverLands
  BY DEF Inv, Signed, RepegNeverLands
<1> QED
  BY <1>1, Invariant, PTL

\* What the form says of a launch is true of it, and it is not ready for another while a
\* transaction it still has in sight is pending.
THEOREM Truthful == Spec => []PhaseTellsTheTruth
<1>1. Inv => PhaseTellsTheTruth
  BY DEF Inv, TypeOK, AwaitsLatest, LatestIs, InFlight, PhaseTellsTheTruth
<1> QED
  BY <1>1, Invariant, PTL

\* The protected buys that follow a launch are for wallets that this launch exempted.
THEOREM Exempt == Spec => []BuysAreExempt
<1>1. Inv => BuysAreExempt
  <2> SUFFICES ASSUME Inv, at = "bundle"
               PROVE  /\ Latest.kind = "launch" /\ Latest.state = "success"
                      /\ Latest.pair = Native
                      /\ \A i \in bundleRecipients(sending) :
                           sending.rows[i].address \in Latest.exempt \union {Creator}
    BY DEF BuysAreExempt
  <2>1. sending \in Forms /\ ~exemptionErrors(sending) /\ phase = "Confirmed"
    BY DEF Inv, TypeOK, Checked, PhaseMatches
  <2>2. /\ Latest.kind = "launch" /\ Latest.state = "success"
        /\ Latest.pair = sending.pair /\ Latest.exempt = Exemptions(sending)
        /\ sending.pair = Native
    BY <2>1 DEF Inv, AwaitsLatest, LatestIs, shouldSendProtectedBuys, IsNative
  <2> QED
    BY <2>1, <2>2, RecipientsExempt
<1> QED
  BY <1>1, Invariant, PTL
=============================================================================
