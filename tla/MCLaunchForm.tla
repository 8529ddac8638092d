---------------------------- MODULE MCLaunchForm ----------------------------
(***************************************************************************)
(* A page rendered at the lower fee, with its one ERC-20 pair approved.    *)
(***************************************************************************)
EXTENDS LaunchForm

CONSTANTS usd, me, friend

OnePair == {usd}
TwoWallets == {me, friend}

Rendered == {[fee |-> 1, terms |-> 1, ceiling |-> 1, enabled |-> TRUE,
              approved |-> {usd}, rescaled |-> {}]}

Purse == {[p \in Pairs |-> IF p = Native THEN 2 ELSE 1]}
=============================================================================
