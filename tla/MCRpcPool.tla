----------------------------- MODULE MCRpcPool -----------------------------
(***************************************************************************)
(* Two callers, the streams of the indexer, over two endpoints.            *)
(***************************************************************************)
EXTENDS RpcPool

CONSTANTS c1, c2, drpc, ordofi

TwoStreams == {c1, c2}
OneStream == {c1}
TwoEndpoints == {drpc, ordofi}
ConfiguredOrder == [e \in TwoEndpoints |-> IF e = drpc THEN 1 ELSE 2]
Drpc == {drpc}
=============================================================================
