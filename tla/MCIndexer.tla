----------------------------- MODULE MCIndexer -----------------------------
(***************************************************************************)
(* Small instances of Indexer for TLC.                                     *)
(***************************************************************************)
EXTENDS Indexer, TLC

CONSTANTS t1, t2, x1, x2

OneToken == {t1}
TwoTokens == {t1, t2}
OneTrade == {x1}
TwoTrades == {x1, x2}
AllOfT1 == [x \in Trades |-> t1]

CurvesOnly == {"curves"}
Nobody == {}
=============================================================================
