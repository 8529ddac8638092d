------------------------------ MODULE MCBundle ------------------------------
(***************************************************************************)
(* A curve with the proportions of a real launch (1.68 to 4.2 of quote,    *)
(* 28.57 % of the supply reserved), in percent instead of basis points.    *)
(***************************************************************************)
EXTENDS Bundle

CONSTANTS w1, w2, w3, w4

Wallets == {w1, w2, w3, w4}
Reserved == (10000 * 168) \div (168 + 420)
=============================================================================
