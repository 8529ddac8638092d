------------------------------ MODULE MCQuotes ------------------------------
(***************************************************************************)
(* The curve of MCBundle, in percent, with the tax of a real launch: 99 %  *)
(* at first, 6 % after a second, nothing after two of its three seconds.   *)
(***************************************************************************)
EXTENDS Quotes

ClockSkews == {-1, 1}
Reserved == (10000 * 168) \div (168 + 420)
=============================================================================
