------------------------------- MODULE Chain -------------------------------
(***************************************************************************)
(* The chain the indexer reads, as seen through its log source: a sequence *)
(* of blocks that grows at the head and whose last few blocks may be       *)
(* replaced.  The chain is not code of the repository; it is modelled from *)
(* the questions Scanner asks a LogSource (head, getLogs, blockHash) and   *)
(* from readLaunchedToken.                                                 *)
(***************************************************************************)
EXTENDS Integers, Sequences

CONSTANTS
  Tokens,       \* launches the factory may emit
  Trades,       \* CurveBuy / CurveSell logs, by (transactionHash, logIndex)
  TokenOf,      \* TokenOf[x]: the token whose curve emitted trade x
  MaxHead,      \* bound: the chain stops growing at this height
  MaxReorgs,    \* bound: how many reorganisations happen
  ReorgDepth    \* how many blocks below the head a reorganisation may replace

ASSUME ChainAssumption ==
  /\ TokenOf \in [Trades -> Tokens]
  /\ MaxHead \in Nat
  /\ MaxReorgs \in Nat
  /\ ReorgDepth \in Nat

VARIABLES
  chain,        \* the canonical chain: chain[h] is the block at height h
  reorgs        \* how many reorganisations have happened

chainVars == <<chain, reorgs>>

\* "hash" is the fork a block was mined on.  A height is mined once per fork, so
\* two hashes of one height are equal exactly when the blocks are the same.
Block == [hash : Nat, launches : SUBSET Tokens, trades : SUBSET Trades]

NoHash == 0

Height == Len(chain)
Hash(h) == chain[h].hash

OnChain(t, c) == \E h \in DOMAIN c : t \in c[h].launches

\* One launch per token, one log per trade, and no trade before its launch.
WellFormed(c) ==
  \A h, g \in DOMAIN c :
    /\ \A t \in c[h].launches \cap c[g].launches : h = g
    /\ \A x \in c[h].trades \cap c[g].trades : h = g
    /\ \A x \in c[h].trades : \E k \in 1..h : TokenOf[x] \in c[k].launches

ChainTypeOK ==
  /\ chain \in Seq(Block)
  /\ Len(chain) <= MaxHead
  /\ reorgs \in 0..MaxReorgs

ChainInit ==
  /\ chain = << >>
  /\ reorgs = 0

Contents == [launches : SUBSET Tokens, trades : SUBSET Trades]

Mined(c) == [hash |-> reorgs + 1, launches |-> c.launches, trades |-> c.trades]

\* The chain grows by one block.
Mine ==
  /\ Height < MaxHead
  /\ \E c \in Contents :
       /\ chain' = Append(chain, Mined(c))
       /\ WellFormed(chain')
  /\ UNCHANGED reorgs

\* The last blocks, at most ReorgDepth of them, are replaced by those of a new fork.
Reorg ==
  /\ reorgs < MaxReorgs
  /\ \E first \in 1..Height :
       /\ Height - first < ReorgDepth
       /\ \E new \in [first..Height -> Contents] :
            /\ chain' = [h \in 1..Height |->
                           IF h < first THEN chain[h]
                           ELSE [hash |-> reorgs + 2, launches |-> new[h].launches,
                                 trades |-> new[h].trades]]
            /\ WellFormed(chain')
  /\ reorgs' = reorgs + 1
=============================================================================
