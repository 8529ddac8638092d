---------------------------- MODULE MCRetention ----------------------------
(***************************************************************************)
(* A small instance of Retention: two tokens that trade in three hours.    *)
(***************************************************************************)
EXTENDS Retention

CONSTANTS t1, t2

TwoTokens == {t1, t2}
ThreeHours == 1..3

\* One token trades twice in the first hour and in every later one; the other, once.
FiveTrades == 1..5
TokensTraded == [x \in 1..5 |-> IF x = 4 THEN t2 ELSE t1]
HoursTraded == <<1, 1, 2, 2, 3>>
=============================================================================
