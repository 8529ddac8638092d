--------------------------- MODULE IndexerProofs ---------------------------
(***************************************************************************)
(* What TLAPS proves of Indexer, for every chain, every set of tokens and  *)
(* trades, every confirmation depth and every bound.                       *)
(***************************************************************************)
EXTENDS Indexer, FiniteSetTheorems, TLAPS

-----------------------------------------------------------------------------
(* The chain.                                                              *)

\* A new block leaves the blocks below it as they are.
LEMMA MineKeeps ==
  ASSUME ChainTypeOK, Mine
  PROVE  /\ ChainTypeOK'
         /\ Height' = Height + 1
         /\ \A h \in 1..Height : chain'[h] = chain[h]
<1> USE DEF ChainTypeOK, Height
<1>1. PICK c \in Contents : chain' = Append(chain, Mined(c))
  BY DEF Mine
<1>2. Mined(c) \in Block
  BY DEF Mined, Contents, Block
<1>3. chain' \in Seq(Block) /\ Len(chain') = Len(chain) + 1
  BY <1>1, <1>2
<1>4. \A h \in 1..Len(chain) : chain'[h] = chain[h]
  BY <1>1, <1>2
<1>5. Len(chain') <= MaxHead /\ reorgs' = reorgs
  BY <1>3, ChainAssumption DEF Mine
<1> QED
  BY <1>3, <1>4, <1>5

\* A reorganisation replaces at most the ReorgDepth blocks at the head.
LEMMA ReorgKeeps ==
  ASSUME ChainTypeOK, Reorg
  PROVE  /\ ChainTypeOK'
         /\ Height' = Height
         /\ \A h \in 1..Height : h <= Height - ReorgDepth => chain'[h] = chain[h]
<1> USE DEF ChainTypeOK, Height
<1>1. PICK first \in 1..Len(chain) :
        /\ Len(chain) - first < ReorgDepth
        /\ \E new \in [first..Len(chain) -> Contents] :
             chain' = [h \in 1..Len(chain) |->
                         IF h < first THEN chain[h]
                         ELSE [hash |-> reorgs + 2, launches |-> new[h].launches,
                               trades |-> new[h].trades]]
  BY DEF Reorg
<1>2. PICK new \in [first..Len(chain) -> Contents] :
        chain' = [h \in 1..Len(chain) |->
                    IF h < first THEN chain[h]
                    ELSE [hash |-> reorgs + 2, launches |-> new[h].launches,
                          trades |-> new[h].trades]]
  BY <1>1
<1>3. Len(chain) \in Nat /\ \A h \in 1..Len(chain) : chain[h] \in Block
  OBVIOUS
<1>4. \A h \in 1..Len(chain) : chain'[h] \in Block
  <2> TAKE h \in 1..Len(chain)
  <2>1. CASE h < first
    BY <1>2, <1>3, <2>1
  <2>2. CASE ~(h < first)
    <3>1. new[h] \in Contents
      BY <1>2, <2>2
    <3> QED
      BY <1>2, <2>2, <3>1, ChainAssumption DEF Contents, Block
  <2> QED
    BY <2>1, <2>2
<1>5. chain' \in Seq(Block) /\ Len(chain') = Len(chain)
  BY <1>2, <1>3, <1>4
<1>6. \A h \in 1..Len(chain) : h <= Len(chain) - ReorgDepth => chain'[h] = chain[h]
  BY <1>1, <1>2, <1>3, ChainAssumption
<1>7. reorgs' \in 0..MaxReorgs
  BY ChainAssumption DEF Reorg
<1> QED
  BY <1>5, <1>6, <1>7

-----------------------------------------------------------------------------
(* Types.                                                                  *)

\* The blocks a tick is about to read exist: what makes the types of the logs and of
\* the hash it reads inductive.
Readable ==
  \A s \in Streams : pc[s] \in {"ceiling", "fetch", "stamp"} => top[s] \in 1..Height

TypeInv == TypeOK /\ Readable

LEMMA ReturnType ==
  ASSUME NEW s \in Streams, TickTypeOK, Return(s)
  PROVE  TickTypeOK'
BY DEF TickTypeOK, Return, Streams, Labels, NoHash

\* Only a tick's own steps change its position, so the others keep Readable.
LEMMA ReturnReadable ==
  ASSUME NEW s \in Streams, TickTypeOK, Readable, Return(s), UNCHANGED chainVars
  PROVE  Readable'
BY DEF TickTypeOK, Readable, Return, Streams, chainVars, Height

LEMMA InsertMissingType ==
  ASSUME NEW K, NEW rows \in [K -> Nat], NEW J, NEW logs \in SUBSET (J \X Nat)
  PROVE  InsertMissing(rows, logs) \in [K -> Nat]
<1> SUFFICES ASSUME NEW k \in K, rows[k] = 0, \E l \in logs : l[1] = k
             PROVE  (CHOOSE l \in logs : l[1] = k)[2] \in Nat
  BY DEF InsertMissing
<1>1. (CHOOSE l \in logs : l[1] = k) \in logs
  OBVIOUS
<1> QED
  BY <1>1

LEMMA HashType ==
  ASSUME ChainTypeOK, NEW h \in 1..Height
  PROVE  Hash(h) \in Nat
<1>1. chain[h] \in Block
  BY DEF ChainTypeOK, Height
<1> QED
  BY <1>1 DEF Hash, Block

LEMMA LogsInType ==
  ASSUME ChainTypeOK, NEW s \in Streams, NEW from \in Nat, NEW to \in 1..Height, from >= 1
  PROVE  /\ LogsIn(s, from, to) \subseteq (Tokens \union Trades) \X Nat
         /\ s = "factory" => LogsIn(s, from, to) \subseteq Tokens \X Nat
<1>1. \A h \in from..to : chain[h] \in Block /\ h \in Nat
  BY DEF ChainTypeOK, Height
<1>2. \A h \in from..to : LogsOf(s, chain[h]) \subseteq Tokens \union Trades
  BY <1>1 DEF LogsOf, Block
<1>3. \A h \in from..to : s = "factory" => LogsOf(s, chain[h]) \subseteq Tokens
  BY <1>1 DEF LogsOf, Block
<1>4. LogsIn(s, from, to) \subseteq (Tokens \union Trades) \X Nat
  BY <1>1, <1>2 DEF LogsIn
<1>5. s = "factory" => LogsIn(s, from, to) \subseteq Tokens \X Nat
  BY <1>1, <1>3 DEF LogsIn
<1> QED
  BY <1>4, <1>5

LEMMA TradeCountType ==
  ASSUME NEW t, NEW rows
  PROVE  Cardinality(TradesOf(t, rows)) \in Nat
<1>1. TradesOf(t, rows) \subseteq Trades
  BY DEF TradesOf
<1>2. IsFiniteSet(TradesOf(t, rows))
  BY <1>1, FS_Subset, IndexerAssumption
<1> QED
  BY <1>2, FS_CardinalityType

LEMMA InitType == Init => TypeInv
<1> SUFFICES ASSUME Init PROVE TypeInv
  OBVIOUS
<1> USE CheckpointAssumption, ChainAssumption, IndexerAssumption DEF Init
<1>1. ChainTypeOK
  BY DEF ChainInit, ChainTypeOK
<1>2. CheckpointTypeOK
  BY DEF CheckpointInit, CheckpointTypeOK
<1>3. DbTypeOK
  BY DEF DbTypeOK
<1>4. TickTypeOK
  BY DEF TickTypeOK, Labels, NoHash, Streams
<1>5. calm \in BOOLEAN
  OBVIOUS
<1>6. AuxTypeOK
  BY <1>5 DEF AuxTypeOK
<1>7. Readable
  BY DEF Readable
<1> QED
  BY <1>1, <1>2, <1>3, <1>4, <1>6, <1>7 DEF TypeInv, TypeOK

\* The steps of a tick that only read: nothing but the tick's locals changes.
LEMMA ReadingStepsType ==
  ASSUME TypeInv, NEW s \in Streams,
         \/ BeginTick(s) \/ Verify(s) \/ VerifyFails(s) \/ ReadHead(s)
         \/ s = "curves" /\ ReadCeiling
  PROVE  TickTypeOK' /\ Readable'
<1> USE CheckpointAssumption, ChainAssumption, IndexerAssumption
    DEF TypeInv, TypeOK, TickTypeOK, Readable, GoTo, chainVars, Height
<1>0. Len(chain) \in Nat
  BY DEF ChainTypeOK
<1>1. CASE BeginTick(s)
  BY <1>1 DEF BeginTick, Idle, CheckpointTypeOK, checkpointVars, Streams, Labels
<1>2. CASE Verify(s)
  BY <1>2 DEF Verify, RollbackTarget, Streams, Labels, NoHash
<1>3. CASE VerifyFails(s)
  BY <1>3 DEF VerifyFails, Streams, Labels, NoHash
<1>4. CASE ReadHead(s)
  <2>1. CASE Return(s)
    BY <2>1, <1>4, ReturnType, ReturnReadable DEF ReadHead
  <2>2. CASE ~Return(s)
    BY <2>2, <1>0, <1>4 DEF ReadHead, SafeHead, NoBlock, Streams, Labels
  <2> QED
    BY <2>1, <2>2
<1>5. CASE s = "curves" /\ ReadCeiling
  <2>1. CASE Return("curves")
    BY <2>1, <1>5, ReturnType, ReturnReadable DEF ReadCeiling
  <2>2. CASE ~Return("curves")
    BY <2>2, <1>0, <1>5 DEF ReadCeiling, Ceiling, CheckpointTypeOK, Streams, Labels
  <2> QED
    BY <2>1, <2>2
<1> QED
  BY <1>1, <1>2, <1>3, <1>4, <1>5

\* The steps that take the logs and the hash from the chain.
LEMMA FetchingStepsType ==
  ASSUME TypeInv, NEW s \in Streams, FetchLogs(s) \/ ReadStamp(s)
  PROVE  TickTypeOK' /\ Readable'
<1> USE DEF TypeInv, TypeOK, TickTypeOK, Readable, GoTo, chainVars
<1>0. Height \in Nat
  BY DEF ChainTypeOK, Height
<1>1. CASE FetchLogs(s)
  <2>1. PICK reached \in (at[s] + 1)..top[s] :
          /\ top' = [top EXCEPT ![s] = reached]
          /\ found' = [found EXCEPT ![s] = LogsIn(s, at[s] + 1, reached)]
    BY <1>1 DEF FetchLogs
  <2>2. top[s] \in 1..Height /\ reached \in 1..Height /\ at[s] + 1 \in Nat /\ at[s] + 1 >= 1
    BY <1>0, <1>1, <2>1 DEF FetchLogs
  <2>3. /\ LogsIn(s, at[s] + 1, reached) \subseteq (Tokens \union Trades) \X Nat
        /\ s = "factory" => LogsIn(s, at[s] + 1, reached) \subseteq Tokens \X Nat
    BY <2>2, LogsInType
  <2>4. Height' = Height
    BY <1>1 DEF FetchLogs, Height
  <2> QED
    BY <1>1, <2>1, <2>2, <2>3, <2>4 DEF FetchLogs, Streams, Labels
<1>2. CASE ReadStamp(s)
  <2>0. top[s] \in 1..Height
    BY <1>2 DEF ReadStamp
  <2>1. ForeignHash \in Nat
    BY ChainAssumption DEF ForeignHash
  <2>9. Hash(top[s]) \in Nat
    BY <2>0, HashType
  <2>2. stamp' \in [Streams -> Nat]
    BY <1>2, <2>1, <2>9 DEF ReadStamp
  <2>3. pc' \in [Streams -> Labels]
    BY <1>2 DEF ReadStamp, Labels
  <2>4. TickTypeOK'
    BY <1>2, <2>2, <2>3 DEF ReadStamp
  <2> QED
    BY <1>2, <2>4 DEF ReadStamp, Height
<1> QED
  BY <1>1, <1>2

\* The processors: rows, aggregates, and what the window's logs come down to.
LEMMA ProcessingStepsType ==
  ASSUME TypeInv,
         \/ RecordLaunches \/ MatchTrades \/ InsertTrades \/ RefreshStats
         \/ \E s \in Streams : SyncPhases(s)
  PROVE  DbTypeOK' /\ TickTypeOK' /\ AuxTypeOK' /\ Readable'
<1> USE DEF TypeInv, TypeOK, TickTypeOK, AuxTypeOK, DbTypeOK, Readable, GoTo, chainVars,
            auxVars, dbVars, Height
<1>1. CASE RecordLaunches
  <2>1. PICK prepared \in SUBSET found["factory"] :
          /\ tokenBlock' = InsertMissing(tokenBlock, prepared)
          /\ skipped' = skipped \union {l[1] : l \in found["factory"] \ prepared}
    BY <1>1 DEF RecordLaunches
  <2>2. prepared \in SUBSET (Tokens \X Nat)
    BY <2>1
  <2>3. tokenBlock' \in [Tokens -> Nat]
    BY <2>1, <2>2, InsertMissingType
  <2>4. skipped' \subseteq Tokens
    BY <2>1
  <2>5. pc' \in [Streams -> Labels]
    BY <1>1 DEF RecordLaunches, Labels
  <2> QED
    BY <1>1, <2>3, <2>4, <2>5 DEF RecordLaunches
<1>2. CASE \E s \in Streams : SyncPhases(s)
  <2>1. pc' \in [Streams -> Labels]
    BY <1>2 DEF SyncPhases, Labels
  <2> QED
    BY <1>2, <2>1 DEF SyncPhases
<1>3. CASE MatchTrades
  <2>1. pc' \in [Streams -> Labels]
    BY <1>3 DEF MatchTrades, Labels
  <2>2. Matched(found["curves"]) \subseteq found["curves"]
    BY DEF Matched
  <2>3. /\ found' \in [Streams -> SUBSET ((Tokens \union Trades) \X Nat)]
        /\ found'["factory"] = found["factory"]
    BY <1>3, <2>2 DEF MatchTrades, Streams
  <2> QED
    BY <1>3, <2>1, <2>3 DEF MatchTrades
<1>4. CASE InsertTrades
  <2>1. pc' \in [Streams -> Labels]
    BY <1>4 DEF InsertTrades, Labels
  <2>2. found["curves"] \in SUBSET ((Tokens \union Trades) \X Nat)
    BY DEF Streams
  <2>3. InsertMissing(tradeBlock, found["curves"]) \in [Trades -> Nat]
    BY <2>2, InsertMissingType
  <2>4. tradeBlock' \in [Trades -> Nat]
    BY <1>4, <2>3 DEF InsertTrades
  <2> QED
    BY <1>4, <2>1, <2>4 DEF InsertTrades
<1>5. CASE RefreshStats
  <2>1. pc' \in [Streams -> Labels]
    BY <1>5 DEF RefreshStats, Labels
  <2>2. tradeCount' \in [Tokens -> Nat]
    BY <1>5, TradeCountType DEF RefreshStats
  <2> QED
    BY <1>5, <2>1, <2>2 DEF RefreshStats
<1> QED
  BY <1>1, <1>2, <1>3, <1>4, <1>5

\* The checkpoint writes of a tick that got through.
LEMMA CommittingStepsType ==
  ASSUME TypeInv, NEW s \in Streams,
         \/ AdvanceFind(s) \/ Advance(s) \/ Resolve(s)
         \/ s = "curves" /\ InsertRejected
         \/ ProcessFails(s) \/ Abandon(s)
  PROVE  CheckpointTypeOK' /\ TickTypeOK' /\ Readable'
<1> USE DEF TypeInv, TypeOK, CheckpointTypeOK, checkpointVars, chainVars, Height
<1>0. TickTypeOK /\ Readable /\ at[s] \in Nat /\ top[s] \in Nat /\ stamp[s] \in Nat
  BY DEF TickTypeOK
<1>1. CASE AdvanceFind(s)
  <2>1. CASE Return(s)
    BY <1>0, <1>1, <2>1, ReturnType, ReturnReadable DEF AdvanceFind
  <2>2. CASE ~Return(s)
    <3>1. pc' \in [Streams -> Labels]
      BY <1>1, <2>2 DEF AdvanceFind, GoTo, Labels, TickTypeOK
    <3> QED
      BY <1>0, <1>1, <2>2, <3>1 DEF AdvanceFind, GoTo, TickTypeOK, Readable
  <2> QED
    BY <2>1, <2>2
<1>2. CASE Advance(s)
  <2>1. pc' \in [Streams -> Labels]
    BY <1>2 DEF Advance, GoTo, Labels, TickTypeOK
  <2>2. CheckpointTypeOK'
    BY <1>0, <1>2 DEF Advance, AdvanceTo
  <2> QED
    BY <1>0, <1>2, <2>1, <2>2 DEF Advance, GoTo, TickTypeOK, Readable
<1>3. CASE Resolve(s)
  <2>1. CheckpointTypeOK'
    BY <1>3 DEF Resolve, ResolveFailedBlocksThrough
  <2> QED
    BY <1>0, <1>3, <2>1, ReturnType, ReturnReadable DEF Resolve
<1>4. CASE s = "curves" /\ InsertRejected
  <2>1. CheckpointTypeOK'
    BY <1>0, <1>4 DEF InsertRejected, RecordFailedBlock
  <2> QED
    BY <1>0, <1>4, <2>1, ReturnType, ReturnReadable DEF InsertRejected
<1>5. CASE ProcessFails(s)
  <2>1. CheckpointTypeOK'
    BY <1>0, <1>5 DEF ProcessFails, RecordFailedBlock
  <2> QED
    BY <1>0, <1>5, <2>1, ReturnType, ReturnReadable DEF ProcessFails
<1>6. CASE Abandon(s)
  BY <1>0, <1>6, ReturnType, ReturnReadable DEF Abandon
<1> QED
  BY <1>1, <1>2, <1>3, <1>4, <1>5, <1>6

\* The rollback after a divergence.
LEMMA RollbackStepsType ==
  ASSUME TypeInv, NEW s \in Streams,
         Rewind(s) \/ DeleteTokensAbove \/ DeleteTradesAbove \/ CascadeFind \/ CascadeWrite
  PROVE  CheckpointTypeOK' /\ DbTypeOK' /\ TickTypeOK' /\ Readable'
<1> USE DEF TypeInv, TypeOK, CheckpointTypeOK, DbTypeOK, checkpointVars, dbVars, chainVars,
            Height
<1>0. TickTypeOK /\ Readable /\ \A z \in Streams : top[z] \in Nat
  BY DEF TickTypeOK
<1>1. CASE Rewind(s)
  <2>1. CheckpointTypeOK'
    BY <1>0, <1>1 DEF Rewind, RollbackTo
  <2>2. CASE Return(s)
    BY <1>0, <1>1, <2>1, <2>2, ReturnType, ReturnReadable DEF Rewind
  <2>3. CASE ~Return(s)
    <3>1. pc' \in [Streams -> Labels]
      BY <1>1, <2>3 DEF Rewind, GoTo, Labels, TickTypeOK
    <3> QED
      BY <1>0, <1>1, <2>1, <2>3, <3>1 DEF Rewind, GoTo, TickTypeOK, Readable
  <2> QED
    BY <2>2, <2>3
<1>2. CASE DeleteTokensAbove
  <2>1. pc' \in [Streams -> Labels]
    BY <1>2 DEF DeleteTokensAbove, GoTo, Labels, TickTypeOK
  <2>2. DbTypeOK'
    BY <1>2 DEF DeleteTokensAbove
  <2>3. orphaned' \in BOOLEAN
    BY <1>2 DEF DeleteTokensAbove
  <2> QED
    BY <1>0, <1>2, <2>1, <2>2, <2>3 DEF DeleteTokensAbove, GoTo, TickTypeOK, Readable
<1>3. CASE DeleteTradesAbove
  <2>1. pc' \in [Streams -> Labels]
    BY <1>3 DEF DeleteTradesAbove, GoTo, Labels, TickTypeOK
  <2>2. DbTypeOK'
    BY <1>3 DEF DeleteTradesAbove
  <2> QED
    BY <1>0, <1>3, <2>1, <2>2 DEF DeleteTradesAbove, GoTo, TickTypeOK, Readable
<1>4. CASE CascadeFind
  <2>2. CASE Return("factory")
    BY <1>0, <1>4, <2>2, ReturnType, ReturnReadable DEF CascadeFind, Streams
  <2>3. CASE ~Return("factory")
    <3>1. pc' \in [Streams -> Labels]
      BY <1>4, <2>3 DEF CascadeFind, GoTo, Labels, TickTypeOK
    <3> QED
      BY <1>0, <1>4, <2>3, <3>1 DEF CascadeFind, GoTo, TickTypeOK, Readable
  <2> QED
    BY <2>2, <2>3
<1>5. CASE CascadeWrite
  <2>1. CheckpointTypeOK'
    BY <1>0, <1>5 DEF CascadeWrite, RollbackTo, Streams
  <2> QED
    BY <1>0, <1>5, <2>1, ReturnType, ReturnReadable DEF CascadeWrite, Streams
<1> QED
  BY <1>1, <1>2, <1>3, <1>4, <1>5

\* A crash and the start-up after it.
LEMMA RestartType ==
  ASSUME TypeInv, Restart
  PROVE  CheckpointTypeOK' /\ TickTypeOK' /\ AuxTypeOK' /\ Readable'
<1> USE DEF TypeInv, TypeOK
<1>1. CheckpointTypeOK'
  <2>1. CASE UNCHANGED checkpointVars
    BY <2>1 DEF CheckpointTypeOK, checkpointVars
  <2>2. CASE \E earliest \in LaunchBlocks : FastForward("curves", earliest - 1)
    <3>1. PICK earliest \in LaunchBlocks : FastForward("curves", earliest - 1)
      BY <2>2
    <3>2. earliest - 1 \in Nat
      BY DEF LaunchBlocks, DbTypeOK
    <3> QED
      BY <3>1, <3>2 DEF FastForward, CheckpointTypeOK, checkpointVars
  <2> QED
    BY <2>1, <2>2 DEF Restart
<1>2. TickTypeOK'
  BY DEF Restart, TickTypeOK, Labels, NoHash, Streams
<1>3. AuxTypeOK'
  BY IndexerAssumption DEF Restart, AuxTypeOK
<1>4. Readable'
  BY DEF Restart, Readable
<1> QED
  BY <1>1, <1>2, <1>3, <1>4

LEMMA NextType ==
  ASSUME TypeInv, [Next]_vars
  PROVE  TypeInv'
<1> USE DEF TypeInv, TypeOK
<1>1. CASE UNCHANGED vars
  BY <1>1 DEF vars, chainVars, checkpointVars, dbVars, tickVars, auxVars, ChainTypeOK,
              CheckpointTypeOK, DbTypeOK, TickTypeOK, AuxTypeOK, Readable, Height
<1>2. CASE ChainGrows \/ ChainReorganises
  <2>1. ChainTypeOK' /\ Height' >= Height
    BY <1>2, MineKeeps, ReorgKeeps DEF ChainGrows, ChainReorganises, ChainTypeOK, Height
  <2>2. UNCHANGED indexerVars
    BY <1>2 DEF ChainGrows, ChainReorganises
  <2>3. Height \in Nat /\ Height' \in Nat
    BY <2>1 DEF ChainTypeOK, Height
  <2>4. Readable'
    BY <2>1, <2>2, <2>3 DEF Readable, indexerVars, tickVars
  <2>5. CheckpointTypeOK' /\ DbTypeOK' /\ TickTypeOK' /\ AuxTypeOK'
    BY <2>2 DEF indexerVars, checkpointVars, dbVars, tickVars, auxVars, CheckpointTypeOK,
                DbTypeOK, TickTypeOK, AuxTypeOK
  <2> QED
    BY <2>1, <2>4, <2>5
<1>3. CASE \E s \in Streams :
             \/ BeginTick(s) \/ Verify(s) \/ VerifyFails(s) \/ ReadHead(s)
             \/ s = "curves" /\ ReadCeiling
  <2>1. TickTypeOK' /\ Readable'
    BY <1>3, ReadingStepsType
  <2>2. misreads' \in 0..MaxMisreads
    BY <1>3, IndexerAssumption
       DEF BeginTick, Verify, VerifyFails, ReadHead, ReadCeiling, AuxTypeOK, auxVars
  <2>3. UNCHANGED <<chainVars, checkpointVars, dbVars, crashes, calm, skipped>>
    BY <1>3 DEF BeginTick, Verify, VerifyFails, ReadHead, ReadCeiling, auxVars
  <2> QED
    BY <2>1, <2>2, <2>3 DEF chainVars, checkpointVars, dbVars, ChainTypeOK,
                            CheckpointTypeOK, DbTypeOK, AuxTypeOK
<1>4. CASE \E s \in Streams : FetchLogs(s) \/ ReadStamp(s)
  <2>1. TickTypeOK' /\ Readable'
    BY <1>4, FetchingStepsType
  <2>2. misreads' \in 0..MaxMisreads
    BY <1>4, IndexerAssumption DEF FetchLogs, ReadStamp, AuxTypeOK, auxVars
  <2>3. UNCHANGED <<chainVars, checkpointVars, dbVars, crashes, calm, skipped>>
    BY <1>4 DEF FetchLogs, ReadStamp, auxVars
  <2> QED
    BY <2>1, <2>2, <2>3 DEF chainVars, checkpointVars, dbVars, ChainTypeOK,
                            CheckpointTypeOK, DbTypeOK, AuxTypeOK
<1>5. CASE \/ RecordLaunches \/ MatchTrades \/ InsertTrades \/ RefreshStats
          \/ \E s \in Streams : SyncPhases(s)
  <2>1. UNCHANGED <<chainVars, checkpointVars>>
    BY <1>5 DEF RecordLaunches, SyncPhases, MatchTrades, InsertTrades, RefreshStats
  <2> QED
    BY <1>5, <2>1, ProcessingStepsType
       DEF chainVars, checkpointVars, ChainTypeOK, CheckpointTypeOK
<1>6. CASE \E s \in Streams :
             \/ AdvanceFind(s) \/ Advance(s) \/ Resolve(s)
             \/ s = "curves" /\ InsertRejected
             \/ ProcessFails(s) \/ Abandon(s)
  <2>1. UNCHANGED <<chainVars, dbVars, auxVars>>
    BY <1>6 DEF AdvanceFind, Advance, Resolve, InsertRejected, ProcessFails, Abandon
  <2>2. CheckpointTypeOK' /\ TickTypeOK' /\ Readable'
    BY <1>6, CommittingStepsType
  <2> QED
    BY <2>1, <2>2 DEF chainVars, dbVars, auxVars, ChainTypeOK, DbTypeOK, AuxTypeOK
<1>7. CASE \E s \in Streams :
             \/ Rewind(s) \/ DeleteTokensAbove \/ DeleteTradesAbove
             \/ CascadeFind \/ CascadeWrite
  <2>1. UNCHANGED <<chainVars, auxVars>>
    BY <1>7 DEF Rewind, DeleteTokensAbove, DeleteTradesAbove, CascadeFind, CascadeWrite
  <2>2. CheckpointTypeOK' /\ DbTypeOK' /\ TickTypeOK' /\ Readable'
    BY <1>7, RollbackStepsType
  <2> QED
    BY <2>1, <2>2 DEF chainVars, auxVars, ChainTypeOK, AuxTypeOK
<1>8. CASE Restart
  <2>1. UNCHANGED <<chainVars, dbVars>>
    BY <1>8 DEF Restart
  <2> QED
    BY <1>8, <2>1, RestartType DEF chainVars, dbVars, ChainTypeOK, DbTypeOK
<1>9. CASE \E s \in Streams : Pause(s)
  <2>1. PICK s \in Streams : Pause(s)
    BY <1>9
  <2>2. PICK paused \in BOOLEAN : SetPaused(s, paused)
    BY <2>1 DEF Pause
  <2>3. isPaused' \in [Streams -> BOOLEAN]
    BY <2>1, <2>2 DEF Pause, SetPaused, CheckpointTypeOK
  <2> QED
    BY <2>1, <2>3 DEF Pause, SetPaused, chainVars, dbVars, tickVars, auxVars, ChainTypeOK,
                      CheckpointTypeOK, DbTypeOK, TickTypeOK, AuxTypeOK, Readable, Height
<1>10. CASE CalmDown
  BY <1>10 DEF CalmDown, chainVars, checkpointVars, dbVars, tickVars, ChainTypeOK,
               CheckpointTypeOK, DbTypeOK, TickTypeOK, AuxTypeOK, Readable, Height
<1> QED
  BY <1>1, <1>2, <1>3, <1>4, <1>5, <1>6, <1>7, <1>8, <1>9, <1>10
     DEF Next, FactoryStep, CurveStep, Fault, Step, Streams

\* The types hold in every state of every execution (TypeOK of the runs).
THEOREM TypeCorrect == Spec => []TypeOK
<1>1. Init => TypeInv
  BY InitType
<1>2. TypeInv /\ [Next]_vars => TypeInv'
  BY NextType
<1>3. TypeInv => TypeOK
  BY DEF TypeInv
<1> QED
  BY <1>1, <1>2, <1>3, PTL DEF Spec

-----------------------------------------------------------------------------
(* What holds while the confirmation depth is respected: reorganisations   *)
(* replace at most that many blocks, and no endpoint answers from a fork   *)
(* of its own.  Then a tick only ever touches settled blocks, blocks that  *)
(* no reorganisation can replace any more, so a hash once read stays the   *)
(* canonical one and no rollback ever begins.                              *)

DepthRespected == ReorgDepth <= ConfirmationDepth /\ MaxMisreads = 0

Settled(h) == 1 <= h /\ h <= Height - ConfirmationDepth

\* A recorded hash is the canonical one, and its block is settled.
CheckpointsSettled ==
  \A s \in Streams :
    cpHash[s] # NoHash => Settled(cpBlock[s]) /\ cpHash[s] = Hash(cpBlock[s])

RollingBack == {"delete", "rewind", "cascade", "cascade_write"}

Stamped == {"record", "phases", "match", "insert", "stats", "find", "advance", "resolve"}

\* So is everything a tick holds; and its advance goes forwards.
TicksSettled ==
  \A s \in Streams :
    /\ pc[s] \notin RollingBack
    /\ pc[s] = "verify" => Settled(at[s]) /\ stamp[s] = Hash(at[s])
    /\ pc[s] \in {"ceiling", "fetch", "stamp"} \union Stamped => Settled(top[s])
    /\ pc[s] \in Stamped => stamp[s] = Hash(top[s])
    /\ pc[s] = "advance" => cpBlock[s] <= top[s]
    /\ pc[s] = "resolve" => top[s] <= cpBlock[s]

SettledInv == TypeInv /\ CheckpointsSettled /\ TicksSettled /\ NeverScansPastFactory

LEMMA InitSettled == Init => SettledInv
BY InitType DEF SettledInv, Init, CheckpointInit, CheckpointsSettled, TicksSettled,
   NeverScansPastFactory, Holding, RollingBack, Stamped, NoHash, Streams

\* Growth and shallow reorganisations keep settled blocks settled, hash and all.
LEMMA SettledStays ==
  ASSUME DepthRespected, ChainTypeOK, ChainGrows \/ ChainReorganises
  PROVE  \A h \in Int : Settled(h) => Settled(h)' /\ Hash(h)' = Hash(h)
<1> USE IndexerAssumption, ChainAssumption DEF Settled, Hash, DepthRespected
<1>0. Height \in Nat
  BY DEF ChainTypeOK, Height
<1>1. CASE ChainGrows
  BY <1>0, <1>1, MineKeeps DEF ChainGrows
<1>2. CASE ChainReorganises
  <2>1. Height' = Height /\ \A h \in 1..Height : h <= Height - ReorgDepth => chain'[h] = chain[h]
    BY <1>2, ReorgKeeps DEF ChainReorganises
  <2> QED
    BY <1>0, <2>1
<1> QED
  BY <1>1, <1>2

LEMMA ChainStepSettled ==
  ASSUME DepthRespected, SettledInv, ChainGrows \/ ChainReorganises
  PROVE  CheckpointsSettled' /\ TicksSettled' /\ NeverScansPastFactory'
<1>1. \A h \in Int : Settled(h) => Settled(h)' /\ Hash(h)' = Hash(h)
  BY SettledStays DEF SettledInv, TypeInv, TypeOK
<1>2. UNCHANGED <<cpBlock, cpHash, pc, at, top, stamp>>
  BY DEF ChainGrows, ChainReorganises, indexerVars, checkpointVars, tickVars
<1>3. \A s \in Streams : cpBlock[s] \in Int /\ at[s] \in Int /\ top[s] \in Int
  BY DEF SettledInv, TypeInv, TypeOK, CheckpointTypeOK, TickTypeOK
<1>4. CheckpointsSettled'
  BY <1>1, <1>2, <1>3 DEF SettledInv, CheckpointsSettled
<1>5. TicksSettled'
  BY <1>1, <1>2, <1>3 DEF SettledInv, TicksSettled
<1>6. NeverScansPastFactory'
  BY <1>2 DEF SettledInv, NeverScansPastFactory
<1> QED
  BY <1>4, <1>5, <1>6

\* While the chain stands still, so do heights and hashes.
LEMMA ChainStill ==
  ASSUME UNCHANGED chainVars
  PROVE  \A h : (Settled(h)' <=> Settled(h)) /\ Hash(h)' = Hash(h)
BY DEF chainVars, Settled, Hash, Height

\* A tick that returns has nothing left to keep, and no tick but s moved.
LEMMA ReturnSettled ==
  ASSUME NEW s \in Streams, SettledInv, Return(s), UNCHANGED chainVars,
         UNCHANGED cpBlock
  PROVE  TicksSettled' /\ NeverScansPastFactory'
<1> USE DEF SettledInv, TypeInv, TypeOK, TickTypeOK
<1>1. \A z \in Streams : z # s => /\ pc'[z] = pc[z] /\ at'[z] = at[z]
                                   /\ top'[z] = top[z] /\ stamp'[z] = stamp[z]
  BY DEF Return
<1>2. pc'[s] = "idle"
  BY DEF Return
<1>3. TicksSettled'
  BY <1>1, <1>2, ChainStill DEF TicksSettled, RollingBack, Stamped
<1>4. NeverScansPastFactory'
  <2>1. CASE s = "curves"
    BY <1>2, <2>1 DEF NeverScansPastFactory, Holding
  <2>2. CASE s # "curves"
    <3>1. pc'["curves"] = pc["curves"] /\ top'["curves"] = top["curves"]
      BY <1>1, <2>2 DEF Streams
    <3> QED
      BY <3>1 DEF NeverScansPastFactory
  <2> QED
    BY <2>1, <2>2
<1> QED
  BY <1>3, <1>4

LEMMA ReadingStepsSettled ==
  ASSUME DepthRespected, SettledInv, NEW s \in Streams,
         \/ BeginTick(s) \/ Verify(s) \/ VerifyFails(s) \/ ReadHead(s)
         \/ s = "curves" /\ ReadCeiling
         \/ FetchLogs(s) \/ ReadStamp(s)
  PROVE  TicksSettled' /\ NeverScansPastFactory'
<1> USE DEF SettledInv
<1>1. UNCHANGED <<chainVars, cpBlock, cpHash>>
  BY DEF BeginTick, Verify, VerifyFails, ReadHead, ReadCeiling, FetchLogs, ReadStamp,
         checkpointVars
<1>2. \A h : (Settled(h)' <=> Settled(h)) /\ Hash(h)' = Hash(h)
  BY <1>1, ChainStill
<1>3. TickTypeOK /\ Height \in Nat /\ \A z \in Streams : cpBlock[z] \in Nat
  BY DEF TypeInv, TypeOK, ChainTypeOK, CheckpointTypeOK, Height
<1>4. misreads >= MaxMisreads
  BY IndexerAssumption DEF DepthRespected, TypeInv, TypeOK, AuxTypeOK
<1> HIDE DEF SettledInv
<1> USE DEF GoTo, TickTypeOK
<1>5. CASE Return(s)
  BY <1>1, <1>5, ReturnSettled
<1>6. CASE BeginTick(s)
  BY <1>1, <1>2, <1>3, <1>6 DEF SettledInv, BeginTick, TicksSettled, CheckpointsSettled,
     NeverScansPastFactory, RollingBack, Stamped, Holding, Streams
<1>7. CASE Verify(s)
  <2>1. Hash(at[s]) = stamp[s]
    BY <1>7 DEF SettledInv, Verify, TicksSettled
  <2>2. /\ pc' = [pc EXCEPT ![s] = "head"]
        /\ stamp' = [stamp EXCEPT ![s] = NoHash]
        /\ UNCHANGED <<at, top>>
    BY <1>3, <1>4, <1>7, <2>1, IndexerAssumption
       DEF Verify, SettledInv, TypeInv, TypeOK, AuxTypeOK
  <2> QED
    BY <1>1, <1>2, <1>3, <2>2 DEF SettledInv, TicksSettled, NeverScansPastFactory,
       RollingBack, Stamped, Holding, Streams
<1>8. CASE VerifyFails(s)
  BY <1>1, <1>2, <1>3, <1>8 DEF SettledInv, VerifyFails, TicksSettled,
     NeverScansPastFactory, RollingBack, Stamped, Holding, Streams
<1>9. CASE ReadHead(s) /\ ~Return(s)
  <2>1. Settled(SafeHead)
    BY <1>3, <1>9, IndexerAssumption DEF ReadHead, SafeHead, NoBlock, Settled
  <2>2. /\ top' = [top EXCEPT ![s] = SafeHead]
        /\ pc' = [pc EXCEPT ![s] = IF s = "curves" THEN "ceiling" ELSE "fetch"]
        /\ UNCHANGED <<at, stamp>>
    BY <1>9 DEF ReadHead
  <2> QED
    BY <1>1, <1>2, <1>3, <2>1, <2>2 DEF SettledInv, TicksSettled,
       NeverScansPastFactory, RollingBack, Stamped, Holding, Streams
<1>10. CASE s = "curves" /\ ReadCeiling /\ ~Return(s)
  <2>1. Ceiling(top["curves"]) <= cpBlock["factory"]
    BY <1>3 DEF Ceiling, Streams
  <2>2. Settled(Ceiling(top["curves"]))
    BY <1>3, <1>10, IndexerAssumption
       DEF SettledInv, ReadCeiling, Ceiling, TicksSettled, Settled, Streams
  <2>3. /\ top' = [top EXCEPT !["curves"] = Ceiling(top["curves"])]
        /\ pc' = [pc EXCEPT !["curves"] = "fetch"]
        /\ UNCHANGED <<at, stamp>>
    BY <1>10 DEF ReadCeiling
  <2> QED
    BY <1>1, <1>2, <1>3, <2>1, <2>2, <2>3 DEF SettledInv, TicksSettled,
       NeverScansPastFactory, RollingBack, Stamped, Holding, Streams
<1>11. CASE FetchLogs(s)
  <2>1. PICK reached \in (at[s] + 1)..top[s] : top' = [top EXCEPT ![s] = reached]
    BY <1>11 DEF FetchLogs
  <2>2. Settled(top[s]) /\ Settled(reached) /\ reached <= top[s]
    BY <1>3, <1>11, <2>1, IndexerAssumption DEF SettledInv, FetchLogs, TicksSettled, Settled
  <2>3. pc' = [pc EXCEPT ![s] = "stamp"] /\ UNCHANGED <<at, stamp>>
    BY <1>11 DEF FetchLogs
  <2>4. pc["curves"] = "fetch" => top["curves"] <= cpBlock["factory"]
    BY DEF SettledInv, NeverScansPastFactory, Holding
  <2> QED
    BY <1>1, <1>2, <1>3, <1>11, <2>1, <2>2, <2>3, <2>4 DEF FetchLogs, SettledInv,
       TicksSettled, NeverScansPastFactory, RollingBack, Stamped, Holding, Streams
<1>12. CASE ReadStamp(s)
  <2>1. stamp' = [stamp EXCEPT ![s] = Hash(top[s])]
    BY <1>4, <1>12, IndexerAssumption DEF ReadStamp, SettledInv, TypeInv, TypeOK, AuxTypeOK
  <2>2. /\ pc' = [pc EXCEPT ![s] = IF s = "factory" THEN "record" ELSE "match"]
        /\ UNCHANGED <<at, top>>
        /\ pc[s] = "stamp"
    BY <1>12 DEF ReadStamp
  <2> QED
    BY <1>1, <1>2, <1>3, <2>1, <2>2 DEF SettledInv, TicksSettled,
       NeverScansPastFactory, RollingBack, Stamped, Holding, Streams
<1> QED
  BY <1>5, <1>6, <1>7, <1>8, <1>9, <1>10, <1>11, <1>12

LEMMA ProcessingStepsSettled ==
  ASSUME SettledInv,
         \/ RecordLaunches \/ MatchTrades \/ InsertTrades \/ RefreshStats
         \/ \E s \in Streams : SyncPhases(s)
  PROVE  TicksSettled' /\ NeverScansPastFactory'
<1>1. UNCHANGED <<chainVars, cpBlock, cpHash, at, top, stamp>>
  BY DEF RecordLaunches, SyncPhases, MatchTrades, InsertTrades, RefreshStats,
         checkpointVars
<1>2. \A h : (Settled(h)' <=> Settled(h)) /\ Hash(h)' = Hash(h)
  BY <1>1, ChainStill
<1>3. PICK s \in Streams, to \in {"phases", "find", "insert", "stats"} :
        /\ pc[s] \in {"record", "phases", "match", "insert", "stats"}
        /\ s = "curves" => pc[s] \in Holding
        /\ pc' = [pc EXCEPT ![s] = to]
  BY DEF RecordLaunches, SyncPhases, MatchTrades, InsertTrades, RefreshStats, GoTo, Streams,
         Holding
<1>4. pc \in [Streams -> Labels]
  BY DEF SettledInv, TypeInv, TypeOK, TickTypeOK
<1>5. TicksSettled'
  BY <1>1, <1>2, <1>3, <1>4 DEF SettledInv, TicksSettled, RollingBack, Stamped
<1>6. pc'["curves"] \in Holding => pc["curves"] \in Holding
  BY <1>3, <1>4 DEF Holding, Streams
<1>7. NeverScansPastFactory'
  BY <1>1, <1>6 DEF SettledInv, NeverScansPastFactory
<1> QED
  BY <1>5, <1>7

LEMMA CommittingStepsSettled ==
  ASSUME SettledInv, NEW s \in Streams,
         \/ AdvanceFind(s) \/ Advance(s) \/ Resolve(s)
         \/ s = "curves" /\ InsertRejected
         \/ ProcessFails(s) \/ Abandon(s)
  PROVE  /\ CheckpointsSettled' /\ TicksSettled' /\ NeverScansPastFactory'
         /\ \A z \in Streams : cpBlock[z] <= cpBlock'[z]
<1>1. UNCHANGED chainVars
  BY DEF AdvanceFind, Advance, Resolve, InsertRejected, ProcessFails, Abandon
<1>2. \A h : (Settled(h)' <=> Settled(h)) /\ Hash(h)' = Hash(h)
  BY <1>1, ChainStill
<1>3. TickTypeOK /\ CheckpointTypeOK
  BY DEF SettledInv, TypeInv, TypeOK
<1>4. CASE ~Advance(s)
  <2>1. UNCHANGED <<cpBlock, cpHash>>
    BY <1>4 DEF AdvanceFind, Resolve, ResolveFailedBlocksThrough, InsertRejected,
                ProcessFails, RecordFailedBlock, Abandon, checkpointVars
  <2>2. CheckpointsSettled' /\ \A z \in Streams : cpBlock[z] <= cpBlock'[z]
    BY <1>2, <1>3, <2>1 DEF SettledInv, CheckpointsSettled, CheckpointTypeOK
  <2>3. CASE Return(s)
    BY <1>1, <2>1, <2>2, <2>3, ReturnSettled
  <2>4. CASE ~Return(s)
    <3>1. /\ pc[s] = "find" /\ pc' = [pc EXCEPT ![s] = "advance"]
          /\ cpBlock[s] <= top[s]
          /\ UNCHANGED <<at, top, stamp>>
      BY <1>4, <2>4 DEF AdvanceFind, MayAdvance, GoTo, Resolve, InsertRejected,
                        ProcessFails, Abandon
    <3> QED
      BY <1>2, <1>3, <2>1, <2>2, <3>1 DEF SettledInv, TicksSettled, TickTypeOK,
         NeverScansPastFactory, RollingBack, Stamped, Holding, Streams
  <2> QED
    BY <2>3, <2>4
<1>5. CASE Advance(s)
  <2>1. /\ pc[s] = "advance" /\ pc' = [pc EXCEPT ![s] = "resolve"]
        /\ cpBlock' = [cpBlock EXCEPT ![s] = top[s]]
        /\ cpHash' = [cpHash EXCEPT ![s] = stamp[s]]
        /\ UNCHANGED <<at, top, stamp>>
    BY <1>5 DEF Advance, AdvanceTo, GoTo
  <2>2. Settled(top[s]) /\ stamp[s] = Hash(top[s]) /\ cpBlock[s] <= top[s]
    BY <2>1 DEF SettledInv, TicksSettled, Stamped
  <2>3. \A z \in Streams : cpBlock[z] <= cpBlock'[z]
    BY <1>3, <2>1, <2>2 DEF CheckpointTypeOK
  <2>4. CheckpointsSettled'
    BY <1>2, <1>3, <2>1, <2>2 DEF SettledInv, CheckpointsSettled, CheckpointTypeOK
  <2>5. TicksSettled'
    BY <1>2, <1>3, <2>1, <2>2 DEF SettledInv, TicksSettled, TickTypeOK, CheckpointTypeOK,
       RollingBack, Stamped
  <2>6. NeverScansPastFactory'
    <3>1. cpBlock["factory"] <= cpBlock'["factory"]
      BY <2>3 DEF Streams
    <3>2. /\ top["curves"] \in Nat /\ cpBlock["factory"] \in Nat
          /\ cpBlock'["factory"] \in Nat
      BY <1>3, <2>1 DEF TickTypeOK, CheckpointTypeOK, Streams
    <3>3. pc'["curves"] \in Holding => pc["curves"] \in Holding
      BY <1>3, <2>1 DEF TickTypeOK, Holding, Streams
    <3> QED
      BY <2>1, <3>1, <3>2, <3>3 DEF SettledInv, NeverScansPastFactory
  <2> QED
    BY <2>3, <2>4, <2>5, <2>6
<1> QED
  BY <1>4, <1>5

\* No rollback is ever under way.
LEMMA RollbackStepsImpossible ==
  ASSUME SettledInv, NEW s \in Streams
  PROVE  ~(Rewind(s) \/ DeleteTokensAbove \/ DeleteTradesAbove \/ CascadeFind \/ CascadeWrite)
BY DEF SettledInv, TicksSettled, RollingBack, Rewind, DeleteTokensAbove, DeleteTradesAbove,
       CascadeFind, CascadeWrite, Streams

LEMMA RestartSettled ==
  ASSUME SettledInv, Restart
  PROVE  /\ CheckpointsSettled' /\ TicksSettled' /\ NeverScansPastFactory'
         /\ \A z \in Streams : cpBlock[z] <= cpBlock'[z]
<1>1. UNCHANGED chainVars /\ \A s \in Streams : pc'[s] = "idle"
  BY DEF Restart
<1>2. \A h : (Settled(h)' <=> Settled(h)) /\ Hash(h)' = Hash(h)
  BY <1>1, ChainStill
<1>3. TicksSettled' /\ NeverScansPastFactory'
  BY <1>1 DEF TicksSettled, NeverScansPastFactory, RollingBack, Stamped, Holding, Streams
<1>4. CheckpointTypeOK
  BY DEF SettledInv, TypeInv, TypeOK
<1>5. CheckpointsSettled' /\ \A z \in Streams : cpBlock[z] <= cpBlock'[z]
  <2>1. CASE UNCHANGED checkpointVars
    BY <1>2, <1>4, <2>1
       DEF SettledInv, CheckpointsSettled, checkpointVars, CheckpointTypeOK
  <2>2. CASE ~UNCHANGED checkpointVars
    <3>1. PICK to \in Int : /\ ~(cpBlock["curves"] >= to)
                            /\ cpBlock' = [cpBlock EXCEPT !["curves"] = to]
                            /\ cpHash' = [cpHash EXCEPT !["curves"] = 0]
      BY <2>2 DEF Restart, FastForward, LaunchBlocks, SettledInv, TypeInv, TypeOK, DbTypeOK
    <3> QED
      BY <1>2, <1>4, <3>1
         DEF SettledInv, CheckpointsSettled, CheckpointTypeOK, Streams, NoHash
  <2> QED
    BY <2>1, <2>2
<1> QED
  BY <1>3, <1>5

LEMMA NextSettled ==
  ASSUME DepthRespected, SettledInv, [Next]_vars
  PROVE  SettledInv' /\ \A z \in Streams : cpBlock[z] <= cpBlock'[z]
<1>1. TypeInv'
  BY NextType DEF SettledInv
<1>2. \A z \in Streams : cpBlock[z] \in Nat
  BY DEF SettledInv, TypeInv, TypeOK, CheckpointTypeOK
<1>3. ASSUME UNCHANGED <<chainVars, cpBlock, cpHash, tickVars>>
      PROVE  /\ CheckpointsSettled' /\ TicksSettled' /\ NeverScansPastFactory'
             /\ \A z \in Streams : cpBlock[z] <= cpBlock'[z]
  <2>1. \A h : (Settled(h)' <=> Settled(h)) /\ Hash(h)' = Hash(h)
    BY <1>3, ChainStill
  <2>2. UNCHANGED <<cpBlock, cpHash, pc, at, top, stamp>>
    BY <1>3 DEF tickVars
  <2> QED
    BY <1>2, <2>1, <2>2
       DEF SettledInv, CheckpointsSettled, TicksSettled, NeverScansPastFactory
<1>4. ASSUME TicksSettled', NeverScansPastFactory', UNCHANGED <<chainVars, cpBlock, cpHash>>
      PROVE  /\ CheckpointsSettled'
             /\ \A z \in Streams : cpBlock[z] <= cpBlock'[z]
  <2>1. \A h : (Settled(h)' <=> Settled(h)) /\ Hash(h)' = Hash(h)
    BY <1>4, ChainStill
  <2> QED
    BY <1>2, <1>4, <2>1 DEF SettledInv, CheckpointsSettled
<1> DEFINE Kept == /\ CheckpointsSettled' /\ TicksSettled' /\ NeverScansPastFactory'
                   /\ \A z \in Streams : cpBlock[z] <= cpBlock'[z]
<1> SUFFICES Kept
  BY <1>1 DEF SettledInv
<1>5. CASE UNCHANGED vars
  BY <1>3, <1>5 DEF vars, checkpointVars
<1>6. CASE ChainGrows \/ ChainReorganises
  <2>1. UNCHANGED cpBlock
    BY <1>6 DEF ChainGrows, ChainReorganises, indexerVars, checkpointVars
  <2> QED
    BY <1>2, <1>6, <2>1, ChainStepSettled
<1>7. ASSUME NEW s \in Streams,
             \/ BeginTick(s) \/ Verify(s) \/ VerifyFails(s) \/ ReadHead(s)
             \/ s = "curves" /\ ReadCeiling
             \/ FetchLogs(s) \/ ReadStamp(s)
      PROVE  Kept
  <2>1. UNCHANGED <<chainVars, cpBlock, cpHash>>
    BY <1>7 DEF BeginTick, Verify, VerifyFails, ReadHead, ReadCeiling, FetchLogs, ReadStamp,
                checkpointVars
  <2> QED
    BY <1>4, <1>7, <2>1, ReadingStepsSettled
<1>8. CASE \/ RecordLaunches \/ MatchTrades \/ InsertTrades \/ RefreshStats
          \/ \E s \in Streams : SyncPhases(s)
  <2>1. UNCHANGED <<chainVars, cpBlock, cpHash>>
    BY <1>8 DEF RecordLaunches, SyncPhases, MatchTrades, InsertTrades, RefreshStats,
                checkpointVars
  <2> QED
    BY <1>4, <1>8, <2>1, ProcessingStepsSettled
<1>9. ASSUME NEW s \in Streams,
             \/ AdvanceFind(s) \/ Advance(s) \/ Resolve(s)
             \/ s = "curves" /\ InsertRejected
             \/ ProcessFails(s) \/ Abandon(s)
      PROVE  Kept
  BY <1>9, CommittingStepsSettled
<1>10. ASSUME NEW s \in Streams
       PROVE  ~(\/ Rewind(s) \/ DeleteTokensAbove \/ DeleteTradesAbove
                \/ CascadeFind \/ CascadeWrite)
  BY RollbackStepsImpossible
<1>11. CASE Restart
  BY <1>11, RestartSettled
<1>12. CASE \E s \in Streams : Pause(s)
  BY <1>3, <1>12 DEF Pause, SetPaused
<1>13. CASE CalmDown
  BY <1>3, <1>13 DEF CalmDown, checkpointVars
<1> QED
  BY <1>5, <1>6, <1>7, <1>8, <1>9, <1>10, <1>11, <1>12, <1>13
     DEF Next, FactoryStep, CurveStep, Fault, Step, Streams

\* While the confirmation depth is respected, the curve stream never holds a window
\* that the factory checkpoint does not cover (maxBlock, index.ts), whatever crashes,
\* outages, pauses and interleavings there are.
THEOREM CurvesStayBehindFactory ==
  ASSUME DepthRespected
  PROVE  Spec => []NeverScansPastFactory
<1>1. Init => SettledInv
  BY InitSettled
<1>2. SettledInv /\ [Next]_vars => SettledInv'
  BY NextSettled
<1>3. SettledInv => NeverScansPastFactory
  BY DEF SettledInv
<1> QED
  BY <1>1, <1>2, <1>3, PTL DEF Spec

\* While the confirmation depth is respected, no checkpoint ever moves back: no block
\* is given up once it has been taken in (advance and rollbackTo, checkpoint.ts).
THEOREM CheckpointsMonotonic ==
  ASSUME DepthRespected
  PROVE  Spec => CheckpointsNeverMoveBack
<1>1. Init => SettledInv
  BY InitSettled
<1>2. SettledInv /\ [Next]_vars => SettledInv'
  BY NextSettled
<1>3. SettledInv /\ [Next]_vars => [\A s \in Streams : cpBlock[s] <= cpBlock'[s]]_vars
  BY NextSettled
<1> QED
  BY <1>1, <1>2, <1>3, PTL DEF Spec, CheckpointsNeverMoveBack

LEMMA FailuresStep ==
  ASSUME SettledInv, [Next]_vars
  PROVE  \A s \in Streams : \A b \in failed[s] \ failed'[s] : b <= cpBlock[s]
<1>1. CASE \E s \in Streams : Resolve(s)
  <2>1. PICK s \in Streams : Resolve(s)
    BY <1>1
  <2>2. /\ failed' = [failed EXCEPT ![s] = {b \in failed[s] : b > top[s]}]
        /\ top[s] <= cpBlock[s]
    BY <2>1 DEF Resolve, ResolveFailedBlocksThrough, SettledInv, TicksSettled
  <2>3. /\ failed \in [Streams -> SUBSET Nat]
        /\ top[s] \in Nat /\ cpBlock[s] \in Nat
    BY DEF SettledInv, TypeInv, TypeOK, CheckpointTypeOK, TickTypeOK
  <2> QED
    BY <2>2, <2>3
<1>2. CASE ~\E s \in Streams : Resolve(s)
  <2>1. failed \in [Streams -> SUBSET Nat]
    BY DEF SettledInv, TypeInv, TypeOK, CheckpointTypeOK
  <2>2. \/ UNCHANGED failed
        \/ \E s \in Streams : \E b : failed' = [failed EXCEPT ![s] = @ \union {b}]
    BY <1>2 DEF Next, FactoryStep, CurveStep, Fault, Step, vars, checkpointVars, indexerVars,
       BeginTick, Verify, VerifyFails, ReadHead, ReadCeiling, FetchLogs, ReadStamp,
       RecordLaunches, SyncPhases, MatchTrades, InsertTrades, InsertRejected, RefreshStats,
       AdvanceFind, Advance, AdvanceTo, DeleteTokensAbove, DeleteTradesAbove, Rewind,
       RollbackTo, CascadeFind, CascadeWrite, Restart, FastForward, Abandon, ProcessFails,
       RecordFailedBlock, Pause, SetPaused, ChainGrows, ChainReorganises, CalmDown, Streams
  <2>3. \A s \in Streams : failed[s] \subseteq failed'[s]
    BY <2>1, <2>2
  <2> QED
    BY <2>3
<1> QED
  BY <1>1, <1>2

\* While the confirmation depth is respected, a FailedBlock row is resolved only once
\* its stream's checkpoint has passed it (resolveFailedBlocksThrough, checkpoint.ts).
THEOREM FailuresOutlastTheirBlock ==
  ASSUME DepthRespected
  PROVE  Spec => FailuresResolvedOnlyWhenPassed
<1>1. Init => SettledInv
  BY InitSettled
<1>2. SettledInv /\ [Next]_vars => SettledInv'
  BY NextSettled
<1>3. SettledInv /\ [Next]_vars
        => [\A s \in Streams : \A b \in failed[s] \ failed'[s] : b <= cpBlock[s]]_vars
  BY FailuresStep
<1> QED
  BY <1>1, <1>2, <1>3, PTL DEF Spec, FailuresResolvedOnlyWhenPassed

-----------------------------------------------------------------------------
(* What the checkpoints vouch for, while the depth is respected.           *)

\* The logs of the window a tick holds.
Window(s) == LogsIn(s, at[s] + 1, top[s])

\* Every launch of these blocks has its row, unless it was given up on ...
LaunchesTaken(from, to) ==
  \A h \in from..to : \A t \in chain[h].launches : tokenBlock[t] = h \/ t \in skipped

\* ... and so has every trade of a token with a row.
TradesTaken(from, to) ==
  \A h \in from..to : \A x \in chain[h].trades :
    tokenBlock[TokenOf[x]] # 0 => tradeBlock[x] = h

\* Below a checkpoint only the trades of tokens that were given up on once may be missing:
\* a start-up that goes past their launch, because no row shows it, goes past their trades.
TradesKept(from, to) ==
  \A h \in from..to : \A x \in chain[h].trades :
    tokenBlock[TokenOf[x]] # 0 => tradeBlock[x] = h \/ TokenOf[x] \in skipped

\* A token's aggregate is right, or a trade above the block tells that it is to be refreshed.
CountedTo(block) ==
  \A t \in Tokens :
    \/ tradeCount[t] = Cardinality(TradesOf(t, tradeBlock))
    \/ \E x \in TradesOf(t, tradeBlock) : tradeBlock[x] > block

\* Every row is of a settled block that holds its log, and no trade is without its token.
RowsCanonical ==
  /\ \A t \in Tokens : tokenBlock[t] # 0 =>
       Settled(tokenBlock[t]) /\ t \in chain[tokenBlock[t]].launches
  /\ \A x \in Trades : tradeBlock[x] # 0 =>
       /\ Settled(tradeBlock[x]) /\ x \in chain[tradeBlock[x]].trades
       /\ tokenBlock[TokenOf[x]] # 0

\* The launches before a row have theirs: a window's rows are written together.
RowsContiguous ==
  \A t \in Tokens : tokenBlock[t] # 0 => LaunchesTaken(StartBlock + 1, tokenBlock[t])

\* Checkpoints start at StartBlock and stay among the settled blocks.
Reach ==
  \A s \in Streams :
    cpBlock[s] >= StartBlock /\ (cpBlock[s] = StartBlock \/ Settled(cpBlock[s]))

\* Everything at or below a checkpoint has been taken in.
Vouches ==
  /\ \A s \in Streams : LaunchesTaken(StartBlock + 1, cpBlock[s])
  /\ TradesKept(StartBlock + 1, cpBlock["curves"])
  /\ CountedTo(cpBlock["curves"])

Windowed == {"fetch", "stamp", "record", "match", "insert", "stats", "phases", "find", "advance"}

\* How far a tick has got: it works on the blocks after its checkpoint, what it holds is
\* what the chain has there, and what its processor is done with is in the tables.
TickFits(s) ==
  /\ pc[s] \notin {"idle", "resolve"} => at[s] = cpBlock[s]
  /\ pc[s] \in Windowed => at[s] < top[s]
  /\ pc[s] \in {"stamp", "record", "match"} => found[s] = Window(s)
  /\ pc[s] \in {"insert", "stats"} => found[s] = Matched(Window(s))
  /\ s = "factory" /\ pc[s] \in {"phases", "find", "advance"} =>
       LaunchesTaken(at[s] + 1, top[s])
  /\ s = "curves" /\ pc[s] \in {"stats", "phases", "find", "advance"} =>
       TradesTaken(at[s] + 1, top[s])
  /\ s = "curves" /\ pc[s] \in {"phases", "find", "advance"} => CountedTo(top[s])

LedgerInv ==
  /\ SettledInv
  /\ WellFormed(chain)
  /\ RowsCanonical
  /\ RowsContiguous
  /\ Reach
  /\ Vouches
  /\ \A s \in Streams : TickFits(s)

\* The types these proofs need, in one place.
LEMMA LedgerTypes ==
  ASSUME LedgerInv
  PROVE  /\ chain \in Seq(Block) /\ Height \in Nat /\ DOMAIN chain = 1..Height
         /\ \A h \in 1..Height : chain[h].launches \subseteq Tokens /\ chain[h].trades \subseteq Trades
         /\ tokenBlock \in [Tokens -> Nat] /\ tradeBlock \in [Trades -> Nat]
         /\ tradeCount \in [Tokens -> Nat]
         /\ pc \in [Streams -> Labels] /\ at \in [Streams -> Nat] /\ top \in [Streams -> Nat]
         /\ found \in [Streams -> SUBSET ((Tokens \union Trades) \X Nat)]
         /\ cpBlock \in [Streams -> Nat] /\ StartBlock \in Nat
         /\ TokenOf \in [Trades -> Tokens]
<1>1. TypeOK
  BY DEF LedgerInv, SettledInv, TypeInv
<1>2. chain \in Seq(Block) /\ Height \in Nat /\ DOMAIN chain = 1..Height
  BY <1>1 DEF TypeOK, ChainTypeOK, Height
<1>3. \A h \in 1..Height : chain[h] \in Block
  BY <1>2 DEF Height
<1>4. \A h \in 1..Height : chain[h].launches \subseteq Tokens /\ chain[h].trades \subseteq Trades
  BY <1>3 DEF Block
<1> QED
  BY <1>1, <1>2, <1>4, ChainAssumption, CheckpointAssumption
     DEF TypeOK, DbTypeOK, TickTypeOK, CheckpointTypeOK

\* A settled block is one of the chain.
LEMMA SettledExists ==
  ASSUME LedgerInv, NEW h \in Int, Settled(h)
  PROVE  h \in 1..Height /\ h \in DOMAIN chain /\ h \in Nat
BY LedgerTypes, IndexerAssumption DEF Settled

\* What is below a settled block is settled.
LEMMA SettledBelow ==
  ASSUME LedgerInv, NEW top0 \in Nat, Settled(top0), NEW h \in 1..top0
  PROVE  Settled(h) /\ h \in 1..Height /\ h \in DOMAIN chain /\ h \in Nat
<1>1. Settled(h)
  BY LedgerTypes, IndexerAssumption DEF Settled
<1> QED
  BY <1>1, SettledExists

\* A token is launched once, and a trade is logged once.
LEMMA LoggedOnce ==
  ASSUME LedgerInv, NEW h \in DOMAIN chain, NEW g \in DOMAIN chain
  PROVE  /\ \A t : t \in chain[h].launches /\ t \in chain[g].launches => h = g
         /\ \A x : x \in chain[h].trades /\ x \in chain[g].trades => h = g
BY DEF LedgerInv, WellFormed

\* A row of a token is no later than any trade of it.
LEMMA LaunchedBefore ==
  ASSUME LedgerInv, NEW h \in DOMAIN chain, NEW x \in chain[h].trades
  PROVE  /\ x \in Trades /\ TokenOf[x] \in Tokens
         /\ tokenBlock[TokenOf[x]] # 0 => tokenBlock[TokenOf[x]] <= h
         /\ \E k \in 1..h : k \in DOMAIN chain /\ TokenOf[x] \in chain[k].launches
<1>1. x \in Trades /\ TokenOf[x] \in Tokens
  BY LedgerTypes
<1>2. PICK k \in 1..h : TokenOf[x] \in chain[k].launches
  BY DEF LedgerInv, WellFormed
<1>3. k \in DOMAIN chain
  BY <1>2, LedgerTypes
<1>4. ASSUME tokenBlock[TokenOf[x]] # 0 PROVE tokenBlock[TokenOf[x]] <= h
  <2>1. Settled(tokenBlock[TokenOf[x]]) /\ TokenOf[x] \in chain[tokenBlock[TokenOf[x]]].launches
    BY <1>1, <1>4 DEF LedgerInv, RowsCanonical
  <2>2. tokenBlock[TokenOf[x]] \in DOMAIN chain
    BY <1>1, <2>1, LedgerTypes, SettledExists
  <2>3. tokenBlock[TokenOf[x]] = k
    BY <1>2, <1>3, <2>1, <2>2, LoggedOnce
  <2> QED
    BY <1>2, <2>3, LedgerTypes
<1> QED
  BY <1>1, <1>2, <1>3, <1>4

\* The members of a window.
LEMMA WindowMembers ==
  ASSUME NEW s, NEW from, NEW to
  PROVE  /\ \A l \in LogsIn(s, from, to) : l = <<l[1], l[2]>>
         /\ \A k, h : <<k, h>> \in LogsIn(s, from, to)
                        <=> h \in from..to /\ k \in LogsOf(s, chain[h])
BY DEF LogsIn

\* A tick holds settled blocks only.
LEMMA WindowSettled ==
  ASSUME LedgerInv, NEW s \in Streams, pc[s] \in {"ceiling", "fetch", "stamp"} \union Stamped
  PROVE  /\ Settled(top[s]) /\ top[s] \in Nat
         /\ \A h \in at[s] + 1 .. top[s] :
              Settled(h) /\ h \in 1..Height /\ h \in DOMAIN chain /\ h \in Nat
<1>1. Settled(top[s]) /\ top[s] \in Nat /\ at[s] \in Nat
  BY LedgerTypes DEF LedgerInv, SettledInv, TicksSettled
<1>2. \A h \in at[s] + 1 .. top[s] : h \in 1..top[s]
  BY <1>1
<1> QED
  BY <1>1, <1>2, SettledBelow

\* The empty database and a chain without blocks.
LEMMA InitLedger == Init => LedgerInv
<1> SUFFICES ASSUME Init PROVE LedgerInv
  OBVIOUS
<1>1. SettledInv
  BY InitSettled
<1>2. WellFormed(chain)
  BY DEF Init, ChainInit, WellFormed
<1>3. RowsCanonical /\ RowsContiguous /\ \A s \in Streams : TickFits(s)
  BY ChainAssumption DEF Init, RowsCanonical, RowsContiguous, TickFits, Windowed
<1>4. Reach
  BY CheckpointAssumption DEF Init, CheckpointInit, Reach, Streams
<1>5. Vouches
  <2>1. cpBlock["factory"] = StartBlock /\ cpBlock["curves"] = StartBlock /\ StartBlock \in Nat
    BY CheckpointAssumption DEF Init, CheckpointInit, Streams
  <2>2. \A t \in Tokens : TradesOf(t, tradeBlock) = {}
    BY DEF Init, TradesOf
  <2>3. CountedTo(StartBlock)
    BY <2>2, FS_EmptySet DEF Init, CountedTo
  <2> QED
    BY <2>1, <2>3 DEF Vouches, LaunchesTaken, TradesKept, Streams
<1> QED
  BY <1>1, <1>2, <1>3, <1>4, <1>5 DEF LedgerInv

\* Growth and shallow reorganisations leave the settled blocks as they are.
LEMMA BlocksStay ==
  ASSUME DepthRespected, LedgerInv, ChainGrows \/ ChainReorganises
  PROVE  /\ \A h \in Int : Settled(h) => Settled(h)' /\ chain'[h] = chain[h]
         /\ WellFormed(chain)'
<1> USE IndexerAssumption, ChainAssumption DEF Settled, DepthRespected
<1>0. Height \in Nat /\ ChainTypeOK
  BY LedgerTypes DEF LedgerInv, SettledInv, TypeInv, TypeOK
<1>1. WellFormed(chain)'
  BY DEF ChainGrows, ChainReorganises, Mine, Reorg
<1>2. CASE ChainGrows
  BY <1>0, <1>1, <1>2, MineKeeps DEF ChainGrows
<1>3. CASE ChainReorganises
  <2>1. Height' = Height /\ \A h \in 1..Height : h <= Height - ReorgDepth => chain'[h] = chain[h]
    BY <1>0, <1>3, ReorgKeeps DEF ChainReorganises
  <2> QED
    BY <1>0, <1>1, <2>1
<1> QED
  BY <1>2, <1>3

\* At or below a checkpoint every block is settled.
LEMMA VouchedSettled ==
  ASSUME LedgerInv, NEW s \in Streams
  PROVE  \A h \in StartBlock + 1 .. cpBlock[s] :
           Settled(h) /\ h \in 1..Height /\ h \in DOMAIN chain /\ h \in Nat
<1>1. cpBlock[s] \in Nat /\ StartBlock \in Nat
  BY LedgerTypes
<1>2. CASE cpBlock[s] = StartBlock
  BY <1>1, <1>2
<1>3. CASE Settled(cpBlock[s])
  <2>1. \A h \in StartBlock + 1 .. cpBlock[s] : h \in 1..cpBlock[s]
    BY <1>1
  <2> QED
    BY <1>1, <1>3, <2>1, SettledBelow
<1> QED
  BY <1>2, <1>3 DEF LedgerInv, Reach

\* The chain moves on, above all that has been read.
LEMMA ChainStepLedger ==
  ASSUME DepthRespected, LedgerInv, SettledInv', ChainGrows \/ ChainReorganises
  PROVE  LedgerInv'
<1>1. \A h \in Int : Settled(h) => Settled(h)' /\ chain'[h] = chain[h]
  BY BlocksStay
<1>2. WellFormed(chain)'
  BY BlocksStay
<1>3. UNCHANGED <<cpBlock, tokenBlock, tradeBlock, tradeCount, pc, at, top, found, skipped>>
  BY DEF ChainGrows, ChainReorganises, indexerVars, checkpointVars, dbVars, tickVars, auxVars
<1>4. RowsCanonical'
  <2>1. (\A t \in Tokens : tokenBlock[t] \in Int) /\ \A x \in Trades : tradeBlock[x] \in Int
    BY LedgerTypes
  <2> QED
    BY <1>1, <1>3, <2>1 DEF LedgerInv, RowsCanonical
<1>5. Reach'
  BY <1>1, <1>3, LedgerTypes DEF LedgerInv, Reach
<1>6. \A s \in Streams : \A h \in StartBlock + 1 .. cpBlock[s] : chain'[h] = chain[h]
  BY <1>1, VouchedSettled
<1>7. Vouches'
  <2>1. "curves" \in Streams
    BY DEF Streams
  <2> QED
    BY <1>3, <1>6, <2>1 DEF LedgerInv, Vouches, LaunchesTaken, TradesKept, CountedTo, TradesOf
<1>8. RowsContiguous'
  <2> SUFFICES ASSUME NEW t \in Tokens, tokenBlock[t] # 0
               PROVE  LaunchesTaken(StartBlock + 1, tokenBlock[t])'
    BY <1>3 DEF RowsContiguous
  <2>1. Settled(tokenBlock[t]) /\ tokenBlock[t] \in Nat /\ StartBlock \in Nat
    BY LedgerTypes DEF LedgerInv, RowsCanonical
  <2>2. \A h \in StartBlock + 1 .. tokenBlock[t] : h \in 1..tokenBlock[t]
    BY <2>1
  <2>3. \A h \in StartBlock + 1 .. tokenBlock[t] : chain'[h] = chain[h]
    BY <1>1, <2>1, <2>2, SettledBelow
  <2> QED
    BY <1>3, <2>3 DEF LedgerInv, RowsContiguous, LaunchesTaken
<1>9. ASSUME NEW s \in Streams PROVE TickFits(s)'
  <2>1. TickFits(s)
    BY DEF LedgerInv
  <2>2. CASE pc[s] \notin {"ceiling", "fetch", "stamp"} \union Stamped
    BY <1>3, <2>1, <2>2 DEF TickFits, Stamped, Windowed
  <2>3. CASE pc[s] \in {"ceiling", "fetch", "stamp"} \union Stamped
    <3>1. \A h \in at[s] + 1 .. top[s] : chain'[h] = chain[h]
      BY <1>1, <2>3, WindowSettled
    <3>2. Window(s)' = Window(s)
      BY <1>3, <3>1 DEF Window, LogsIn
    <3>3. Matched(Window(s))' = Matched(Window(s))
      BY <1>3, <3>2 DEF Matched
    <3>4. /\ LaunchesTaken(at[s] + 1, top[s])' <=> LaunchesTaken(at[s] + 1, top[s])
          /\ TradesTaken(at[s] + 1, top[s])' <=> TradesTaken(at[s] + 1, top[s])
          /\ CountedTo(top[s])' <=> CountedTo(top[s])
      BY <1>3, <3>1 DEF LaunchesTaken, TradesTaken, CountedTo, TradesOf
    <3> QED
      BY <1>3, <2>1, <3>2, <3>3, <3>4 DEF TickFits
  <2> QED
    BY <2>2, <2>3
<1> QED
  BY <1>2, <1>4, <1>5, <1>7, <1>8, <1>9 DEF LedgerInv

\* What stays as it is when no checkpoint and no row changes.
LEMMA TablesStay ==
  ASSUME LedgerInv,
         UNCHANGED <<chainVars, cpBlock, tokenBlock, tradeBlock, tradeCount, skipped>>
  PROVE  /\ WellFormed(chain)' /\ RowsCanonical' /\ RowsContiguous' /\ Reach' /\ Vouches'
         /\ \A s, from, to : LogsIn(s, from, to)' = LogsIn(s, from, to)
         /\ \A logs : Matched(logs)' = Matched(logs)
         /\ \A from, to : /\ LaunchesTaken(from, to)' <=> LaunchesTaken(from, to)
                          /\ TradesTaken(from, to)' <=> TradesTaken(from, to)
         /\ \A block : CountedTo(block)' <=> CountedTo(block)
<1>1. chain' = chain /\ Height' = Height
  BY DEF chainVars, Height
<1>2. \A h : Settled(h)' <=> Settled(h)
  BY <1>1 DEF Settled
<1>3. \A from, to : /\ LaunchesTaken(from, to)' <=> LaunchesTaken(from, to)
                    /\ TradesTaken(from, to)' <=> TradesTaken(from, to)
                    /\ TradesKept(from, to)' <=> TradesKept(from, to)
  BY <1>1 DEF LaunchesTaken, TradesTaken, TradesKept
<1>4. \A block : CountedTo(block)' <=> CountedTo(block)
  BY DEF CountedTo, TradesOf
<1>5. WellFormed(chain)' /\ RowsCanonical' /\ Reach'
  BY <1>1, <1>2 DEF LedgerInv, RowsCanonical, Reach
<1>6. RowsContiguous' /\ Vouches'
  BY <1>3, <1>4 DEF LedgerInv, RowsContiguous, Vouches
<1>7. \A s, from, to : LogsIn(s, from, to)' = LogsIn(s, from, to)
  BY <1>1 DEF LogsIn
<1>8. \A logs : Matched(logs)' = Matched(logs)
  BY DEF Matched
<1> QED
  BY <1>3, <1>4, <1>5, <1>6, <1>7, <1>8

\* One tick goes on, the other stays where it is.
LEMMA TickStepLedger ==
  ASSUME LedgerInv, SettledInv', NEW s \in Streams, TickFits(s)',
         UNCHANGED <<chainVars, cpBlock, tokenBlock, tradeBlock, tradeCount, skipped>>,
         \A z \in Streams \ {s} : /\ pc'[z] = pc[z] /\ at'[z] = at[z]
                                  /\ top'[z] = top[z] /\ found'[z] = found[z]
  PROVE  LedgerInv'
<1>1. ASSUME NEW z \in Streams \ {s} PROVE TickFits(z)'
  <2>1. TickFits(z)
    BY DEF LedgerInv
  <2>2. Window(z)' = Window(z) /\ Matched(Window(z))' = Matched(Window(z))
    BY TablesStay DEF Window
  <2>3. /\ LaunchesTaken(at[z] + 1, top[z])' <=> LaunchesTaken(at[z] + 1, top[z])
        /\ TradesTaken(at[z] + 1, top[z])' <=> TradesTaken(at[z] + 1, top[z])
        /\ CountedTo(top[z])' <=> CountedTo(top[z])
    BY TablesStay
  <2> QED
    BY <2>1, <2>2, <2>3 DEF TickFits
<1> QED
  BY <1>1, TablesStay DEF LedgerInv

\* A tick that returns holds nothing.
LEMMA ReturnLedger ==
  ASSUME LedgerInv, SettledInv', NEW s \in Streams, Return(s),
         UNCHANGED <<chainVars, cpBlock, tokenBlock, tradeBlock, tradeCount, skipped>>
  PROVE  LedgerInv'
<1>1. /\ pc' = [pc EXCEPT ![s] = "idle"] /\ at' = [at EXCEPT ![s] = 0]
      /\ top' = [top EXCEPT ![s] = 0] /\ found' = [found EXCEPT ![s] = {}]
  BY DEF Return
<1>2. pc'[s] = "idle"
  BY <1>1, LedgerTypes
<1>3. TickFits(s)'
  BY <1>2 DEF TickFits, Windowed
<1>4. \A z \in Streams \ {s} : /\ pc'[z] = pc[z] /\ at'[z] = at[z]
                               /\ top'[z] = top[z] /\ found'[z] = found[z]
  BY <1>1, LedgerTypes
<1> QED
  BY <1>3, <1>4, TickStepLedger

\* A tick that goes on to another await, with the block it read its checkpoint at and the
\* window it holds.
LEMMA GoOnLedger ==
  ASSUME LedgerInv, SettledInv', NEW s \in Streams, NEW label, NEW a, NEW b, NEW logs,
         pc' = [pc EXCEPT ![s] = label], at' = [at EXCEPT ![s] = a],
         top' = [top EXCEPT ![s] = b], found' = [found EXCEPT ![s] = logs],
         UNCHANGED <<chainVars, cpBlock, tokenBlock, tradeBlock, tradeCount, skipped>>,
         label \notin {"idle", "resolve"} => a = cpBlock[s],
         label \in Windowed => a < b,
         label \in {"stamp", "record", "match"} => logs = LogsIn(s, a + 1, b),
         label \in {"insert", "stats"} => logs = Matched(LogsIn(s, a + 1, b)),
         s = "factory" /\ label \in {"phases", "find", "advance"} => LaunchesTaken(a + 1, b),
         s = "curves" /\ label \in {"stats", "phases", "find", "advance"} =>
           TradesTaken(a + 1, b),
         s = "curves" /\ label \in {"phases", "find", "advance"} => CountedTo(b)
  PROVE  LedgerInv'
<1>1. pc'[s] = label /\ at'[s] = a /\ top'[s] = b /\ found'[s] = logs
  BY LedgerTypes
<1>2. \A z \in Streams \ {s} : /\ pc'[z] = pc[z] /\ at'[z] = at[z]
                               /\ top'[z] = top[z] /\ found'[z] = found[z]
  BY LedgerTypes
<1>3. Window(s)' = LogsIn(s, a + 1, b) /\ Matched(Window(s))' = Matched(LogsIn(s, a + 1, b))
  BY <1>1, TablesStay DEF Window
<1>4. /\ LaunchesTaken(at[s] + 1, top[s])' <=> LaunchesTaken(a + 1, b)
      /\ TradesTaken(at[s] + 1, top[s])' <=> TradesTaken(a + 1, b)
      /\ CountedTo(top[s])' <=> CountedTo(b)
  BY <1>1, TablesStay
<1>5. cpBlock'[s] = cpBlock[s]
  OBVIOUS
<1>6. TickFits(s)'
  BY <1>1, <1>3, <1>4, <1>5 DEF TickFits
<1> QED
  BY <1>2, <1>6, TickStepLedger

\* The reads of a tick, up to the logs and the hash of its window.
LEMMA ReadingStepsLedger ==
  ASSUME LedgerInv, SettledInv', NEW s \in Streams,
         \/ BeginTick(s) \/ Verify(s) \/ VerifyFails(s) \/ ReadHead(s)
         \/ s = "curves" /\ ReadCeiling
         \/ FetchLogs(s) \/ ReadStamp(s)
  PROVE  LedgerInv'
<1>1. UNCHANGED <<chainVars, cpBlock, tokenBlock, tradeBlock, tradeCount, skipped>>
  BY DEF BeginTick, Verify, VerifyFails, ReadHead, ReadCeiling, FetchLogs, ReadStamp,
         checkpointVars, dbVars, auxVars
<1>2. TickFits(s) /\ cpBlock[s] \in Nat /\ at[s] \in Nat /\ top[s] \in Nat
  BY LedgerTypes DEF LedgerInv
<1>3. at = [at EXCEPT ![s] = at[s]] /\ top = [top EXCEPT ![s] = top[s]]
      /\ found = [found EXCEPT ![s] = found[s]]
  BY LedgerTypes
<1>4. CASE Return(s)
  BY <1>1, <1>4, ReturnLedger
<1>5. CASE BeginTick(s)
  <2>1. PICK label \in {"verify", "head"} : pc' = [pc EXCEPT ![s] = label]
    BY <1>5 DEF BeginTick, GoTo
  <2>2. at' = [at EXCEPT ![s] = cpBlock[s]] /\ top' = top /\ found' = found
    BY <1>5 DEF BeginTick
  <2> QED
    BY <1>1, <1>3, <2>1, <2>2, GoOnLedger DEF Windowed
<1>6. CASE Verify(s)
  <2>1. pc' = [pc EXCEPT ![s] = "delete"] \/ pc' = [pc EXCEPT ![s] = "head"]
    BY <1>6 DEF Verify, GoTo
  <2>2. PICK b : top' = [top EXCEPT ![s] = b]
    BY <1>3, <1>6 DEF Verify
  <2>3. at' = at /\ found' = found /\ at[s] = cpBlock[s]
    BY <1>2, <1>6 DEF Verify, TickFits
  <2>4. PICK a, logs : a = at[s] /\ logs = found[s]
    OBVIOUS
  <2>5. at' = [at EXCEPT ![s] = a] /\ found' = [found EXCEPT ![s] = logs] /\ a = cpBlock[s]
    BY <1>3, <2>3, <2>4
  <2>6. CASE pc' = [pc EXCEPT ![s] = "delete"]
    BY <1>1, <2>2, <2>5, <2>6, GoOnLedger DEF Windowed
  <2>7. CASE pc' = [pc EXCEPT ![s] = "head"]
    BY <1>1, <2>2, <2>5, <2>7, GoOnLedger DEF Windowed
  <2> QED
    BY <2>1, <2>6, <2>7
<1>7. CASE VerifyFails(s)
  <2>1. /\ pc' = [pc EXCEPT ![s] = "head"] /\ at' = at /\ top' = top /\ found' = found
        /\ at[s] = cpBlock[s]
    BY <1>2, <1>7 DEF VerifyFails, TickFits, GoTo
  <2>2. PICK a, b, logs : a = at[s] /\ b = top[s] /\ logs = found[s]
    OBVIOUS
  <2>3. /\ at' = [at EXCEPT ![s] = a] /\ top' = [top EXCEPT ![s] = b]
        /\ found' = [found EXCEPT ![s] = logs] /\ a = cpBlock[s]
    BY <1>3, <2>1, <2>2
  <2>4. pc' = [pc EXCEPT ![s] = "head"]
    BY <2>1
  <2> QED
    BY <1>1, <2>3, <2>4, GoOnLedger DEF Windowed
<1>8. CASE ReadHead(s) /\ ~Return(s)
  <2>1. /\ pc' = [pc EXCEPT ![s] = IF s = "curves" THEN "ceiling" ELSE "fetch"]
        /\ top' = [top EXCEPT ![s] = SafeHead] /\ at' = at /\ found' = found
        /\ at[s] = cpBlock[s] /\ (s = "factory" => ~(SafeHead <= at[s]))
    BY <1>2, <1>8 DEF ReadHead, TickFits, GoTo
  <2>2. SafeHead \in Nat
    BY LedgerTypes, IndexerAssumption DEF SafeHead, NoBlock
  <2>3. PICK a, b, logs : a = at[s] /\ b = SafeHead /\ logs = found[s]
    OBVIOUS
  <2>4. /\ top' = [top EXCEPT ![s] = b] /\ at' = [at EXCEPT ![s] = a]
        /\ found' = [found EXCEPT ![s] = logs] /\ a = cpBlock[s]
    BY <1>3, <2>1, <2>3
  <2>5. CASE s = "curves"
    <3>1. pc' = [pc EXCEPT ![s] = "ceiling"]
      BY <2>1, <2>5
    <3> QED
      BY <1>1, <2>4, <3>1, GoOnLedger DEF Windowed
  <2>6. CASE s # "curves"
    <3>1. pc' = [pc EXCEPT ![s] = "fetch"] /\ a < b
      BY <1>2, <2>1, <2>2, <2>3, <2>6 DEF Streams
    <3> QED
      BY <1>1, <2>4, <3>1, GoOnLedger
  <2> QED
    BY <2>5, <2>6
<1>9. CASE s = "curves" /\ ReadCeiling /\ ~Return(s)
  <2> DEFINE b == Ceiling(top["curves"])
  <2>1. /\ pc' = [pc EXCEPT ![s] = "fetch"]
        /\ top' = [top EXCEPT ![s] = b] /\ at' = at /\ found' = found
        /\ at[s] = cpBlock[s] /\ ~(b <= at[s])
    BY <1>2, <1>9 DEF ReadCeiling, TickFits, GoTo
  <2>2. b \in Nat
    BY LedgerTypes DEF Ceiling, Streams
  <2>3. at[s] < b
    BY <1>2, <2>1, <2>2
  <2> HIDE DEF b
  <2> QED
    BY <1>1, <1>3, <2>1, <2>3, GoOnLedger
<1>10. CASE FetchLogs(s)
  <2>1. PICK reached \in (at[s] + 1)..top[s] :
          /\ top' = [top EXCEPT ![s] = reached]
          /\ found' = [found EXCEPT ![s] = LogsIn(s, at[s] + 1, reached)]
    BY <1>10 DEF FetchLogs
  <2>2. pc' = [pc EXCEPT ![s] = "stamp"] /\ at' = at /\ at[s] = cpBlock[s]
    BY <1>2, <1>10 DEF FetchLogs, TickFits, GoTo
  <2>3. at[s] < reached
    BY <1>2, <2>1
  <2> QED
    BY <1>1, <1>3, <2>1, <2>2, <2>3, GoOnLedger
<1>11. CASE ReadStamp(s)
  <2>1. PICK label \in {"record", "match"} : pc' = [pc EXCEPT ![s] = label]
    BY <1>11 DEF ReadStamp, GoTo
  <2>2. /\ at' = at /\ top' = top /\ found' = found
        /\ at[s] = cpBlock[s] /\ at[s] < top[s] /\ found[s] = LogsIn(s, at[s] + 1, top[s])
    BY <1>2, <1>11 DEF ReadStamp, TickFits, Windowed, Window
  <2>3. PICK a, b, logs : a = at[s] /\ b = top[s] /\ logs = found[s]
    OBVIOUS
  <2>4. /\ top' = [top EXCEPT ![s] = b] /\ at' = [at EXCEPT ![s] = a]
        /\ found' = [found EXCEPT ![s] = logs] /\ a = cpBlock[s] /\ a < b
        /\ logs = LogsIn(s, a + 1, b)
    BY <1>3, <2>2, <2>3
  <2> QED
    BY <1>1, <2>1, <2>4, GoOnLedger
<1> QED
  BY <1>4, <1>5, <1>6, <1>7, <1>8, <1>9, <1>10, <1>11

\* The steps after the processor that write no checkpoint's block, and the failures.
LEMMA ClosingStepsLedger ==
  ASSUME LedgerInv, SettledInv', NEW s \in Streams,
         \/ SyncPhases(s) \/ AdvanceFind(s) \/ Resolve(s)
         \/ s = "curves" /\ MatchTrades
         \/ s = "curves" /\ InsertRejected
         \/ ProcessFails(s) \/ Abandon(s)
  PROVE  LedgerInv'
<1>1. UNCHANGED <<chainVars, cpBlock, tokenBlock, tradeBlock, tradeCount, skipped>>
  BY DEF SyncPhases, AdvanceFind, Resolve, ResolveFailedBlocksThrough, MatchTrades,
         InsertRejected, ProcessFails, RecordFailedBlock, Abandon, checkpointVars, dbVars, auxVars
<1>2. TickFits(s) /\ cpBlock[s] \in Nat /\ at[s] \in Nat /\ top[s] \in Nat
  BY LedgerTypes DEF LedgerInv
<1>3. at = [at EXCEPT ![s] = at[s]] /\ top = [top EXCEPT ![s] = top[s]]
      /\ found = [found EXCEPT ![s] = found[s]]
  BY LedgerTypes
<1>4. CASE Return(s)
  BY <1>1, <1>4, ReturnLedger
<1>5. CASE (SyncPhases(s) \/ AdvanceFind(s)) /\ ~Return(s)
  <2>1. PICK label \in {"find", "advance"} : pc' = [pc EXCEPT ![s] = label]
    BY <1>5 DEF SyncPhases, AdvanceFind, GoTo
  <2>2. /\ at' = at /\ top' = top /\ found' = found /\ pc[s] \in {"phases", "find"}
    BY <1>5 DEF SyncPhases, AdvanceFind
  <2>3. /\ at[s] = cpBlock[s] /\ at[s] < top[s]
        /\ s = "factory" => LaunchesTaken(at[s] + 1, top[s])
        /\ s = "curves" => TradesTaken(at[s] + 1, top[s]) /\ CountedTo(top[s])
    BY <1>2, <2>2 DEF TickFits, Windowed
  <2>4. PICK a, b, logs : a = at[s] /\ b = top[s] /\ logs = found[s]
    OBVIOUS
  <2>5. /\ top' = [top EXCEPT ![s] = b] /\ at' = [at EXCEPT ![s] = a]
        /\ found' = [found EXCEPT ![s] = logs] /\ a = cpBlock[s] /\ a < b
        /\ s = "factory" => LaunchesTaken(a + 1, b)
        /\ s = "curves" => TradesTaken(a + 1, b) /\ CountedTo(b)
    BY <1>3, <2>2, <2>3, <2>4
  <2> QED
    BY <1>1, <2>1, <2>5, GoOnLedger
<1>6. CASE s = "curves" /\ MatchTrades
  <2>1. /\ pc' = [pc EXCEPT ![s] = "insert"] /\ at' = at /\ top' = top
        /\ found' = [found EXCEPT ![s] = Matched(found[s])] /\ pc[s] = "match"
    BY <1>6 DEF MatchTrades, GoTo
  <2>2. at[s] = cpBlock[s] /\ at[s] < top[s] /\ found[s] = LogsIn(s, at[s] + 1, top[s])
    BY <1>2, <2>1 DEF TickFits, Windowed, Window
  <2> QED
    BY <1>1, <1>3, <2>1, <2>2, GoOnLedger
<1> QED
  BY <1>4, <1>5, <1>6 DEF SyncPhases, Resolve, InsertRejected, ProcessFails, Abandon

\* An insert keeps the rows there are, and a new row is that of one of the logs.
LEMMA InsertedRows ==
  ASSUME NEW rows, NEW logs, NEW k \in DOMAIN rows
  PROVE  /\ rows[k] # 0 => InsertMissing(rows, logs)[k] = rows[k]
         /\ rows[k] = 0 => \/ InsertMissing(rows, logs)[k] = 0 /\ \A l \in logs : l[1] # k
                           \/ \E l \in logs : l[1] = k /\ InsertMissing(rows, logs)[k] = l[2]
<1>1. InsertMissing(rows, logs)[k]
        = IF rows[k] = 0 /\ (\E l \in logs : l[1] = k)
          THEN (CHOOSE l \in logs : l[1] = k)[2] ELSE rows[k]
  BY DEF InsertMissing
<1>2. CASE rows[k] = 0 /\ \E l \in logs : l[1] = k
  <2>1. PICK l \in logs : l = CHOOSE m \in logs : m[1] = k
    BY <1>2
  <2>2. l[1] = k
    BY <1>2, <2>1
  <2> QED
    BY <1>1, <1>2, <2>1, <2>2
<1> QED
  BY <1>1, <1>2

\* What RecordLaunches does to the rows: those there are stay, a new one is of the window,
\* and every launch of the window has its row or was given up on.
LEMMA RecordedRows ==
  ASSUME LedgerInv, RecordLaunches
  PROVE  /\ \A t \in Tokens : tokenBlock[t] # 0 => tokenBlock'[t] = tokenBlock[t]
         /\ \A t \in Tokens : tokenBlock[t] = 0 /\ tokenBlock'[t] # 0 =>
              /\ tokenBlock'[t] \in at["factory"] + 1 .. top["factory"]
              /\ t \in chain[tokenBlock'[t]].launches
         /\ LaunchesTaken(at["factory"] + 1, top["factory"])'
         /\ skipped \subseteq skipped'
         /\ pc["factory"] = "record" /\ at["factory"] = cpBlock["factory"]
         /\ cpBlock["factory"] < top["factory"]
         /\ UNCHANGED <<chainVars, cpBlock, at, top, found, tradeBlock, tradeCount>>
         /\ pc' = [pc EXCEPT !["factory"] = "phases"]
<1> DEFINE a == at["factory"]
           b == top["factory"]
<1>0. "factory" \in Streams
  BY DEF Streams
<1>1. /\ pc["factory"] = "record" /\ pc' = [pc EXCEPT !["factory"] = "phases"]
      /\ UNCHANGED <<chainVars, cpBlock, at, top, found, tradeBlock, tradeCount>>
  BY DEF RecordLaunches, GoTo, checkpointVars
<1>2. a = cpBlock["factory"] /\ a < b /\ found["factory"] = LogsIn("factory", a + 1, b)
  BY <1>0, <1>1 DEF LedgerInv, TickFits, Windowed, Window
<1>3. \A l \in found["factory"] : l[2] \in a + 1 .. b /\ l[1] \in chain[l[2]].launches
  BY <1>2 DEF LogsIn, LogsOf
<1>4. \A h \in a + 1 .. b : h \in DOMAIN chain /\ h \in Nat
  BY <1>0, <1>1, WindowSettled DEF Stamped
<1>5. PICK prepared \in SUBSET found["factory"] :
        /\ tokenBlock' = InsertMissing(tokenBlock, prepared)
        /\ skipped' = skipped \union {l[1] : l \in found["factory"] \ prepared}
  BY DEF RecordLaunches
<1>6. DOMAIN tokenBlock = Tokens
  BY LedgerTypes
<1>7. \A t \in Tokens : tokenBlock[t] # 0 => tokenBlock'[t] = tokenBlock[t]
  BY <1>5, <1>6, InsertedRows
<1>8. \A t \in Tokens : tokenBlock[t] = 0 =>
        \/ tokenBlock'[t] = 0 /\ \A l \in prepared : l[1] # t
        \/ \E l \in prepared : l[1] = t /\ tokenBlock'[t] = l[2]
  BY <1>5, <1>6, InsertedRows
<1>9. ASSUME NEW t \in Tokens, tokenBlock[t] = 0, tokenBlock'[t] # 0
      PROVE  tokenBlock'[t] \in a + 1 .. b /\ t \in chain[tokenBlock'[t]].launches
  BY <1>3, <1>5, <1>8, <1>9
<1>10. LaunchesTaken(a + 1, b)'
  <2> SUFFICES ASSUME NEW h \in a + 1 .. b, NEW t \in chain[h].launches, t \notin skipped'
               PROVE  tokenBlock'[t] = h
    BY <1>1 DEF LaunchesTaken, chainVars
  <2>1. t \in Tokens /\ h \in DOMAIN chain
    BY <1>4, LedgerTypes
  <2>2. <<t, h>> \in found["factory"]
    BY <1>2, WindowMembers DEF LogsOf
  <2>3. <<t, h>> \in prepared
    BY <1>5, <2>2
  <2>4. CASE tokenBlock[t] # 0
    <3>1. Settled(tokenBlock[t]) /\ t \in chain[tokenBlock[t]].launches
      BY <2>1, <2>4 DEF LedgerInv, RowsCanonical
    <3>2. tokenBlock[t] \in DOMAIN chain
      BY <2>1, <3>1, LedgerTypes, SettledExists
    <3> QED
      BY <1>7, <2>1, <2>4, <3>1, <3>2, LoggedOnce
  <2>5. CASE tokenBlock[t] = 0
    <3>1. PICK l \in prepared : l[1] = t /\ tokenBlock'[t] = l[2]
      BY <1>8, <2>1, <2>3, <2>5
    <3>2. l[2] \in DOMAIN chain /\ t \in chain[l[2]].launches
      BY <1>3, <1>4, <1>5, <3>1
    <3> QED
      BY <2>1, <3>1, <3>2, LoggedOnce
  <2> QED
    BY <2>4, <2>5
<1> QED
  BY <1>1, <1>2, <1>5, <1>7, <1>9, <1>10

\* The launches of a window become rows, all at once.
LEMMA RecordLaunchesLedger ==
  ASSUME LedgerInv, SettledInv', RecordLaunches
  PROVE  LedgerInv'
<1> DEFINE cpF == cpBlock["factory"]
           cpC == cpBlock["curves"]
           b == top["factory"]
<1>0. "factory" \in Streams /\ "curves" \in Streams /\ Streams = {"factory", "curves"}
  BY DEF Streams
<1>1. UNCHANGED <<chainVars, cpBlock, at, top, found, tradeBlock, tradeCount>>
  BY RecordedRows
<1>2. chain' = chain /\ Height' = Height /\ \A h : Settled(h)' <=> Settled(h)
  BY <1>1 DEF chainVars, Height, Settled
<1>3. \A t \in Tokens : tokenBlock[t] # 0 => tokenBlock'[t] = tokenBlock[t]
  BY RecordedRows
<1>4. \A t \in Tokens : tokenBlock[t] = 0 /\ tokenBlock'[t] # 0 =>
        tokenBlock'[t] \in cpF + 1 .. b /\ t \in chain[tokenBlock'[t]].launches
  BY RecordedRows
<1>5. /\ LaunchesTaken(cpF + 1, b)' /\ skipped \subseteq skipped' /\ cpF < b
      /\ at["factory"] = cpF /\ pc["factory"] = "record"
  BY RecordedRows, <1>1
<1>6. \A h \in cpF + 1 .. b : Settled(h) /\ h \in DOMAIN chain /\ h \in Nat
  BY <1>0, <1>5, WindowSettled DEF Stamped
<1>7. cpF \in Nat /\ cpC \in Nat /\ b \in Nat /\ StartBlock \in Nat /\ cpF >= StartBlock
  BY <1>0, LedgerTypes DEF LedgerInv, Reach
<1>8. ASSUME NEW from \in Nat \ {0}, NEW to \in Nat, LaunchesTaken(from, to),
             \A h \in from..to : h \in DOMAIN chain
      PROVE  LaunchesTaken(from, to)'
  <2> SUFFICES ASSUME NEW h \in from..to, NEW t \in chain[h].launches, t \notin skipped'
               PROVE  tokenBlock'[t] = h
    BY <1>2 DEF LaunchesTaken
  <2>1. t \in Tokens /\ h # 0
    BY <1>8, LedgerTypes
  <2>2. tokenBlock[t] = h
    BY <1>5, <1>8 DEF LaunchesTaken
  <2> QED
    BY <1>3, <2>1, <2>2
<1>9. \A s \in Streams : LaunchesTaken(StartBlock + 1, cpBlock[s])'
  <2> SUFFICES ASSUME NEW s \in Streams PROVE LaunchesTaken(StartBlock + 1, cpBlock[s])'
    OBVIOUS
  <2>1. LaunchesTaken(StartBlock + 1, cpBlock[s])
    BY DEF LedgerInv, Vouches
  <2>2. \A h \in StartBlock + 1 .. cpBlock[s] : h \in DOMAIN chain
    BY VouchedSettled
  <2>3. StartBlock + 1 \in Nat \ {0} /\ cpBlock[s] \in Nat
    BY LedgerTypes
  <2>4. PICK from, to : from = StartBlock + 1 /\ to = cpBlock[s]
    OBVIOUS
  <2>5. LaunchesTaken(from, to)'
    BY <1>8, <2>1, <2>2, <2>3, <2>4
  <2> QED
    BY <1>1, <2>4, <2>5
<1>10. ASSUME NEW h \in DOMAIN chain, h <= cpF, NEW x \in chain[h].trades,
              tokenBlock'[TokenOf[x]] # 0
       PROVE  tokenBlock[TokenOf[x]] # 0
  <2> SUFFICES ASSUME tokenBlock[TokenOf[x]] = 0 PROVE FALSE
    OBVIOUS
  <2>1. TokenOf[x] \in Tokens
    BY LaunchedBefore
  <2>2. PICK k \in 1..h : k \in DOMAIN chain /\ TokenOf[x] \in chain[k].launches
    BY LaunchedBefore
  <2>3. PICK g \in cpF + 1 .. b : TokenOf[x] \in chain[g].launches
    BY <1>4, <1>10, <2>1
  <2>4. g = k
    BY <1>6, <2>2, <2>3, LoggedOnce
  <2>5. h \in Nat
    BY LedgerTypes
  <2> QED
    BY <1>7, <1>10, <2>2, <2>3, <2>4, <2>5
<1>11. RowsCanonical'
  <2>1. ASSUME NEW t \in Tokens, tokenBlock'[t] # 0
        PROVE  Settled(tokenBlock'[t]) /\ t \in chain[tokenBlock'[t]].launches
    <3>1. CASE tokenBlock[t] # 0
      BY <1>3, <3>1 DEF LedgerInv, RowsCanonical
    <3>2. CASE tokenBlock[t] = 0
      BY <1>4, <1>6, <2>1, <3>2
    <3> QED
      BY <3>1, <3>2
  <2>2. \A x \in Trades : TokenOf[x] \in Tokens
    BY LedgerTypes
  <2> QED
    BY <1>1, <1>2, <1>3, <2>1, <2>2 DEF LedgerInv, RowsCanonical
<1>12. RowsContiguous'
  <2> SUFFICES ASSUME NEW t \in Tokens, tokenBlock'[t] # 0
               PROVE  LaunchesTaken(StartBlock + 1, tokenBlock[t])'
    BY DEF RowsContiguous
  <2>1. CASE tokenBlock[t] # 0
    <3>1. LaunchesTaken(StartBlock + 1, tokenBlock[t]) /\ Settled(tokenBlock[t])
      BY <2>1 DEF LedgerInv, RowsContiguous, RowsCanonical
    <3>2. StartBlock + 1 \in Nat \ {0} /\ tokenBlock[t] \in Nat
      BY LedgerTypes
    <3>3. \A h \in StartBlock + 1 .. tokenBlock[t] : h \in 1..tokenBlock[t]
      BY <1>7, <3>2
    <3>4. \A h \in StartBlock + 1 .. tokenBlock[t] : h \in DOMAIN chain
      BY <3>1, <3>2, <3>3, SettledBelow
    <3>5. PICK from, to : from = StartBlock + 1 /\ to = tokenBlock[t]
      OBVIOUS
    <3>6. LaunchesTaken(from, to)'
      BY <1>8, <3>1, <3>2, <3>4, <3>5
    <3> QED
      BY <1>3, <2>1, <3>5, <3>6
  <2>2. CASE tokenBlock[t] = 0
    <3>1. tokenBlock'[t] \in cpF + 1 .. b
      BY <1>4, <2>2
    <3>2. LaunchesTaken(StartBlock + 1, cpF)' /\ LaunchesTaken(cpF + 1, b)'
      BY <1>0, <1>5, <1>9
    <3>3. \A h \in StartBlock + 1 .. tokenBlock'[t] :
            h \in StartBlock + 1 .. cpF \/ h \in cpF + 1 .. b
      BY <1>7, <3>1
    <3> QED
      BY <1>1, <3>2, <3>3 DEF LaunchesTaken
  <2> QED
    BY <2>1, <2>2
<1>13. Vouches'
  <2>1. TradesKept(StartBlock + 1, cpC)'
    <3> SUFFICES ASSUME NEW h \in StartBlock + 1 .. cpC, NEW x \in chain[h].trades,
                        tokenBlock'[TokenOf[x]] # 0, TokenOf[x] \notin skipped
                 PROVE  tradeBlock[x] = h
      BY <1>1, <1>2, <1>5 DEF TradesKept
    <3>1. h \in DOMAIN chain
      BY <1>0, VouchedSettled
    <3>2. tokenBlock[TokenOf[x]] # 0
      <4> SUFFICES ASSUME tokenBlock[TokenOf[x]] = 0 PROVE FALSE
        OBVIOUS
      <4>1. TokenOf[x] \in Tokens
        BY <3>1, LaunchedBefore
      <4>2. PICK k \in 1..h : k \in DOMAIN chain /\ TokenOf[x] \in chain[k].launches
        BY <3>1, LaunchedBefore
      <4>3. PICK g \in cpF + 1 .. b : TokenOf[x] \in chain[g].launches
        BY <1>4, <4>1
      <4>4. g = k
        BY <1>6, <4>2, <4>3, LoggedOnce
      <4>5. k \in StartBlock + 1 .. cpC
        BY <1>7, <4>2, <4>3, <4>4
      <4>6. tokenBlock[TokenOf[x]] = k
        BY <1>0, <4>2, <4>5 DEF LedgerInv, Vouches, LaunchesTaken
      <4> QED
        BY <4>5, <4>6, <1>7
    <3> QED
      BY <3>2 DEF LedgerInv, Vouches, TradesKept
  <2>2. CountedTo(cpC)'
    BY <1>1 DEF LedgerInv, Vouches, CountedTo, TradesOf
  <2> QED
    BY <1>1, <1>9, <2>1, <2>2 DEF Vouches
<1>14. TickFits("factory")'
  <2>1. pc'["factory"] = "phases"
    BY <1>0, LedgerTypes, RecordedRows
  <2>2. /\ at'["factory"] = cpBlock'["factory"] /\ at'["factory"] < top'["factory"]
        /\ LaunchesTaken(at["factory"] + 1, top["factory"])'
    BY <1>1, <1>5, RecordedRows
  <2> QED
    BY <2>1, <2>2 DEF TickFits, Windowed
<1>15. TickFits("curves")'
  <2>1. pc'["curves"] = pc["curves"]
    BY <1>0, LedgerTypes, RecordedRows
  <2>2. TickFits("curves")
    BY <1>0 DEF LedgerInv
  <2>3. Window("curves")' = Window("curves")
    BY <1>1, <1>2 DEF Window, LogsIn
  <2>4. CountedTo(top["curves"])' <=> CountedTo(top["curves"])
    BY <1>1 DEF CountedTo, TradesOf
  <2>5. ASSUME pc["curves"] \in {"insert", "stats", "phases", "find", "advance"}
        PROVE  \A h \in at["curves"] + 1 .. top["curves"] : h \in DOMAIN chain /\ h <= cpF
    <3>1. \A h \in at["curves"] + 1 .. top["curves"] : h \in DOMAIN chain /\ h \in Nat
      BY <1>0, <2>5, WindowSettled DEF Stamped
    <3>2. top["curves"] <= cpF /\ top["curves"] \in Nat /\ at["curves"] \in Nat
      BY <1>0, <2>5, LedgerTypes DEF LedgerInv, SettledInv, NeverScansPastFactory, Holding
    <3> QED
      BY <1>7, <3>1, <3>2
  <2>6. ASSUME pc["curves"] \in {"insert", "stats"}
        PROVE  Matched(Window("curves"))' = Matched(Window("curves"))
    <3> SUFFICES ASSUME NEW l \in Window("curves")
                 PROVE  tokenBlock'[TokenOf[l[1]]] # 0 <=> tokenBlock[TokenOf[l[1]]] # 0
      BY <2>3 DEF Matched
    <3>1. l[2] \in at["curves"] + 1 .. top["curves"] /\ l[1] \in chain[l[2]].trades
      BY DEF Window, LogsIn, LogsOf
    <3>2. l[2] \in DOMAIN chain /\ l[2] <= cpF
      BY <2>5, <2>6, <3>1
    <3>3. TokenOf[l[1]] \in Tokens
      BY <3>1, <3>2, LaunchedBefore
    <3> QED
      BY <1>3, <1>10, <3>1, <3>2, <3>3
  <2>7. ASSUME pc["curves"] \in {"stats", "phases", "find", "advance"}
        PROVE  TradesTaken(at["curves"] + 1, top["curves"])'
    <3>1. TradesTaken(at["curves"] + 1, top["curves"])
      BY <2>2, <2>7 DEF TickFits
    <3> SUFFICES ASSUME NEW h \in at["curves"] + 1 .. top["curves"],
                        NEW x \in chain[h].trades, tokenBlock'[TokenOf[x]] # 0
                 PROVE  tradeBlock[x] = h
      BY <1>1, <1>2 DEF TradesTaken
    <3>2. tokenBlock[TokenOf[x]] # 0
      BY <1>10, <2>5, <2>7
    <3> QED
      BY <3>1, <3>2 DEF TradesTaken
  <2> QED
    BY <1>1, <2>1, <2>2, <2>3, <2>4, <2>6, <2>7 DEF TickFits
<1>16. Reach' /\ WellFormed(chain)'
  BY <1>1, <1>2 DEF LedgerInv, Reach
<1>17. \A s \in Streams : TickFits(s)'
  BY <1>0, <1>14, <1>15
<1> QED
  BY <1>11, <1>12, <1>13, <1>16, <1>17 DEF LedgerInv

\* What InsertTrades does to the rows: those there are stay, a new one is of the window and
\* has its token, and every trade of the window whose token has a row has one too.
LEMMA InsertedTrades ==
  ASSUME LedgerInv, InsertTrades
  PROVE  /\ \A x \in Trades : tradeBlock[x] # 0 => tradeBlock'[x] = tradeBlock[x]
         /\ \A x \in Trades : tradeBlock[x] = 0 /\ tradeBlock'[x] # 0 =>
              /\ tradeBlock'[x] \in at["curves"] + 1 .. top["curves"]
              /\ x \in chain[tradeBlock'[x]].trades
              /\ tokenBlock[TokenOf[x]] # 0
         /\ TradesTaken(at["curves"] + 1, top["curves"])'
         /\ pc["curves"] = "insert" /\ at["curves"] = cpBlock["curves"]
         /\ cpBlock["curves"] < top["curves"]
         /\ found["curves"] = Matched(Window("curves"))
         /\ UNCHANGED <<chainVars, cpBlock, at, top, found, tokenBlock, tradeCount, skipped>>
         /\ pc' = [pc EXCEPT !["curves"] = "stats"]
<1> DEFINE a == at["curves"]
           b == top["curves"]
           logs == found["curves"]
<1>0. "curves" \in Streams
  BY DEF Streams
<1>1. /\ pc["curves"] = "insert" /\ pc' = [pc EXCEPT !["curves"] = "stats"]
      /\ UNCHANGED <<chainVars, cpBlock, at, top, found, tokenBlock, tradeCount, skipped>>
      /\ tradeBlock' = InsertMissing(tradeBlock, logs)
  BY DEF InsertTrades, GoTo, checkpointVars, auxVars
<1>2. a = cpBlock["curves"] /\ a < b /\ logs = Matched(Window("curves"))
  BY <1>0, <1>1 DEF LedgerInv, TickFits, Windowed
<1>3. \A l \in logs : /\ l[2] \in a + 1 .. b /\ l[1] \in chain[l[2]].trades
                      /\ tokenBlock[TokenOf[l[1]]] # 0
  BY <1>2 DEF Matched, Window, LogsIn, LogsOf
<1>4. \A h \in a + 1 .. b : h \in DOMAIN chain /\ h \in Nat
  BY <1>0, <1>1, WindowSettled DEF Stamped
<1>5. DOMAIN tradeBlock = Trades
  BY LedgerTypes
<1>6. \A x \in Trades : tradeBlock[x] # 0 => tradeBlock'[x] = tradeBlock[x]
  BY <1>1, <1>5, InsertedRows
<1>7. \A x \in Trades : tradeBlock[x] = 0 =>
        \/ tradeBlock'[x] = 0 /\ \A l \in logs : l[1] # x
        \/ \E l \in logs : l[1] = x /\ tradeBlock'[x] = l[2]
  BY <1>1, <1>5, InsertedRows
<1>8. ASSUME NEW x \in Trades, tradeBlock[x] = 0, tradeBlock'[x] # 0
      PROVE  /\ tradeBlock'[x] \in a + 1 .. b /\ x \in chain[tradeBlock'[x]].trades
             /\ tokenBlock[TokenOf[x]] # 0
  BY <1>3, <1>7, <1>8
<1>9. TradesTaken(a + 1, b)'
  <2> SUFFICES ASSUME NEW h \in a + 1 .. b, NEW x \in chain[h].trades,
                      tokenBlock[TokenOf[x]] # 0
               PROVE  tradeBlock'[x] = h
    BY <1>1 DEF TradesTaken, chainVars
  <2>1. x \in Trades /\ h \in DOMAIN chain
    BY <1>4, LedgerTypes
  <2>2. <<x, h>> \in logs
    BY <1>2, WindowMembers DEF LogsOf, Matched, Window
  <2>3. CASE tradeBlock[x] # 0
    <3>1. Settled(tradeBlock[x]) /\ x \in chain[tradeBlock[x]].trades
      BY <2>1, <2>3 DEF LedgerInv, RowsCanonical
    <3>2. tradeBlock[x] \in DOMAIN chain
      BY <2>1, <3>1, LedgerTypes, SettledExists
    <3> QED
      BY <1>6, <2>1, <2>3, <3>1, <3>2, LoggedOnce
  <2>4. CASE tradeBlock[x] = 0
    <3>1. PICK l \in logs : l[1] = x /\ tradeBlock'[x] = l[2]
      BY <1>7, <2>1, <2>2, <2>4
    <3>2. l[2] \in DOMAIN chain /\ x \in chain[l[2]].trades
      BY <1>3, <1>4, <3>1
    <3> QED
      BY <2>1, <3>1, <3>2, LoggedOnce
  <2> QED
    BY <2>3, <2>4
<1> QED
  BY <1>1, <1>2, <1>6, <1>8, <1>9

\* The factory stream's tick is about launches only.
LEMMA FactoryTickStays ==
  ASSUME LedgerInv,
         UNCHANGED <<chainVars, cpBlock, tokenBlock, at, top, found, skipped>>,
         pc'["factory"] = pc["factory"]
  PROVE  TickFits("factory")'
<1>1. TickFits("factory")
  BY DEF LedgerInv, Streams
<1>2. Window("factory")' = Window("factory")
  BY DEF Window, LogsIn, chainVars
<1>3. Matched(Window("factory"))' = Matched(Window("factory"))
  BY <1>2 DEF Matched
<1>4. LaunchesTaken(at["factory"] + 1, top["factory"])'
        <=> LaunchesTaken(at["factory"] + 1, top["factory"])
  BY DEF LaunchesTaken, chainVars
<1> QED
  BY <1>1, <1>2, <1>3, <1>4 DEF TickFits

\* The trades of a window become rows, all at once.
LEMMA InsertTradesLedger ==
  ASSUME LedgerInv, SettledInv', InsertTrades
  PROVE  LedgerInv'
<1> DEFINE cpC == cpBlock["curves"]
           b == top["curves"]
<1>0. "factory" \in Streams /\ "curves" \in Streams /\ Streams = {"factory", "curves"}
  BY DEF Streams
<1>1. UNCHANGED <<chainVars, cpBlock, at, top, found, tokenBlock, tradeCount, skipped>>
  BY InsertedTrades
<1>2. chain' = chain /\ Height' = Height /\ \A h : Settled(h)' <=> Settled(h)
  BY <1>1 DEF chainVars, Height, Settled
<1>3. \A x \in Trades : tradeBlock[x] # 0 => tradeBlock'[x] = tradeBlock[x]
  BY InsertedTrades
<1>4. \A x \in Trades : tradeBlock[x] = 0 /\ tradeBlock'[x] # 0 =>
        /\ tradeBlock'[x] \in cpC + 1 .. b /\ x \in chain[tradeBlock'[x]].trades
        /\ tokenBlock[TokenOf[x]] # 0
  BY InsertedTrades
<1>5. /\ TradesTaken(at["curves"] + 1, top["curves"])' /\ cpC < b /\ at["curves"] = cpC
      /\ pc["curves"] = "insert" /\ found["curves"] = Matched(Window("curves"))
  BY InsertedTrades
<1>6. \A h \in cpC + 1 .. b : Settled(h) /\ h \in DOMAIN chain /\ h \in Nat
  BY <1>0, <1>5, WindowSettled DEF Stamped
<1>7. cpC \in Nat /\ b \in Nat /\ StartBlock \in Nat
  BY <1>0, LedgerTypes
<1>8. WellFormed(chain)' /\ Reach' /\ RowsContiguous'
  BY <1>1, <1>2 DEF LedgerInv, Reach, RowsContiguous, LaunchesTaken
<1>9. RowsCanonical'
  <2>1. ASSUME NEW x \in Trades, tradeBlock'[x] # 0
        PROVE  /\ Settled(tradeBlock'[x]) /\ x \in chain[tradeBlock'[x]].trades
               /\ tokenBlock[TokenOf[x]] # 0
    <3>1. CASE tradeBlock[x] # 0
      BY <1>3, <3>1 DEF LedgerInv, RowsCanonical
    <3>2. CASE tradeBlock[x] = 0
      BY <1>4, <1>6, <2>1, <3>2
    <3> QED
      BY <3>1, <3>2
  <2> QED
    BY <1>1, <1>2, <2>1 DEF LedgerInv, RowsCanonical
<1>10. Vouches'
  <2>1. TradesKept(StartBlock + 1, cpC)'
    <3> SUFFICES ASSUME NEW h \in StartBlock + 1 .. cpC, NEW x \in chain[h].trades,
                        tokenBlock[TokenOf[x]] # 0, TokenOf[x] \notin skipped
                 PROVE  tradeBlock'[x] = h
      BY <1>1, <1>2 DEF TradesKept
    <3>1. h \in DOMAIN chain /\ h # 0
      BY <1>0, <1>7, VouchedSettled
    <3>2. tradeBlock[x] = h /\ x \in Trades
      BY <3>1, LedgerTypes DEF LedgerInv, Vouches, TradesKept
    <3> QED
      BY <1>3, <3>1, <3>2
  <2>2. CountedTo(cpC)'
    <3> SUFFICES ASSUME NEW t \in Tokens
                 PROVE  \/ tradeCount[t] = Cardinality(TradesOf(t, tradeBlock'))
                        \/ \E x \in TradesOf(t, tradeBlock') : tradeBlock'[x] > cpC
      BY <1>1 DEF CountedTo, TradesOf
    <3>1. CASE \E x \in Trades : TokenOf[x] = t /\ tradeBlock[x] = 0 /\ tradeBlock'[x] # 0
      BY <1>4, <1>7, <3>1 DEF TradesOf
    <3>2. CASE ~\E x \in Trades : TokenOf[x] = t /\ tradeBlock[x] = 0 /\ tradeBlock'[x] # 0
      <4>1. TradesOf(t, tradeBlock') = TradesOf(t, tradeBlock)
        BY <1>3, <3>2 DEF TradesOf
      <4>2. \/ tradeCount[t] = Cardinality(TradesOf(t, tradeBlock))
            \/ \E x \in TradesOf(t, tradeBlock) : tradeBlock[x] > cpC
        BY DEF LedgerInv, Vouches, CountedTo
      <4>3. \A x \in TradesOf(t, tradeBlock) : tradeBlock'[x] = tradeBlock[x]
        BY <1>3 DEF TradesOf
      <4> QED
        BY <4>1, <4>2, <4>3
    <3> QED
      BY <3>1, <3>2
  <2>3. \A s \in Streams : LaunchesTaken(StartBlock + 1, cpBlock[s])'
    BY <1>1, <1>2 DEF LedgerInv, Vouches, LaunchesTaken
  <2> QED
    BY <1>1, <2>1, <2>2, <2>3 DEF Vouches
<1>11. TickFits("factory")'
  <2>1. pc'["factory"] = pc["factory"]
    BY <1>0, LedgerTypes, InsertedTrades
  <2> QED
    BY <1>1, <2>1, FactoryTickStays
<1>12. TickFits("curves")'
  <2>1. pc'["curves"] = "stats"
    BY <1>0, LedgerTypes, InsertedTrades
  <2>2. Matched(Window("curves"))' = Matched(Window("curves"))
    BY <1>1, <1>2 DEF Matched, Window, LogsIn
  <2> QED
    BY <1>1, <1>5, <2>1, <2>2 DEF TickFits, Windowed
<1>13. \A s \in Streams : TickFits(s)'
  BY <1>0, <1>11, <1>12
<1> QED
  BY <1>8, <1>9, <1>10, <1>13 DEF LedgerInv

\* The aggregates of the window's tokens are computed again from the rows.
LEMMA RefreshStatsLedger ==
  ASSUME LedgerInv, SettledInv', RefreshStats
  PROVE  LedgerInv'
<1> DEFINE cpC == cpBlock["curves"]
           b == top["curves"]
<1>0. "factory" \in Streams /\ "curves" \in Streams /\ Streams = {"factory", "curves"}
  BY DEF Streams
<1>1. /\ UNCHANGED <<chainVars, cpBlock, at, top, found, tokenBlock, tradeBlock, skipped>>
      /\ pc["curves"] = "stats" /\ pc' = [pc EXCEPT !["curves"] = "phases"]
      /\ tradeCount' = [t \in Tokens |->
                          IF t \in Touched /\ tokenBlock[t] # 0
                          THEN Cardinality(TradesOf(t, tradeBlock)) ELSE tradeCount[t]]
  BY DEF RefreshStats, GoTo, checkpointVars, auxVars
<1>2. chain' = chain /\ Height' = Height /\ \A h : Settled(h)' <=> Settled(h)
  BY <1>1 DEF chainVars, Height, Settled
<1>3. /\ at["curves"] = cpC /\ cpC < b /\ found["curves"] = Matched(Window("curves"))
      /\ TradesTaken(at["curves"] + 1, top["curves"])
  BY <1>0, <1>1 DEF LedgerInv, TickFits, Windowed
<1>4. cpC \in Nat /\ b \in Nat /\ \A x \in Trades : tradeBlock[x] \in Nat
  BY <1>0, LedgerTypes
<1>5. CountedTo(b)'
  <2> SUFFICES ASSUME NEW t \in Tokens,
                      \A x \in TradesOf(t, tradeBlock) : ~(tradeBlock[x] > b)
               PROVE  tradeCount'[t] = Cardinality(TradesOf(t, tradeBlock))
    BY <1>1 DEF CountedTo
  <2>1. \/ tradeCount[t] = Cardinality(TradesOf(t, tradeBlock))
        \/ \E x \in TradesOf(t, tradeBlock) : tradeBlock[x] > cpC
    BY DEF LedgerInv, Vouches, CountedTo
  <2>2. CASE \E x \in TradesOf(t, tradeBlock) : tradeBlock[x] > cpC
    <3>1. PICK x \in TradesOf(t, tradeBlock) : tradeBlock[x] > cpC
      BY <2>2
    <3>2. /\ tradeBlock[x] \in cpC + 1 .. b /\ x \in chain[tradeBlock[x]].trades
          /\ tokenBlock[t] # 0 /\ TokenOf[x] = t
      BY <1>4, <3>1 DEF TradesOf, LedgerInv, RowsCanonical
    <3>3. <<x, tradeBlock[x]>> \in Matched(Window("curves"))
      BY <1>3, <3>2, WindowMembers DEF Matched, Window, LogsOf
    <3>4. t \in Touched
      BY <1>3, <3>2, <3>3 DEF Touched
    <3> QED
      BY <1>1, <3>2, <3>4
  <2> QED
    BY <1>1, <2>1, <2>2
<1>6. WellFormed(chain)' /\ Reach' /\ RowsContiguous' /\ RowsCanonical'
  BY <1>1, <1>2 DEF LedgerInv, Reach, RowsContiguous, LaunchesTaken, RowsCanonical
<1>7. Vouches'
  <2>1. CountedTo(cpC)'
    <3> SUFFICES ASSUME NEW t \in Tokens
                 PROVE  \/ tradeCount'[t] = Cardinality(TradesOf(t, tradeBlock))
                        \/ \E x \in TradesOf(t, tradeBlock) : tradeBlock[x] > cpC
      BY <1>1 DEF CountedTo
    <3>1. \/ tradeCount'[t] = Cardinality(TradesOf(t, tradeBlock))
          \/ \E x \in TradesOf(t, tradeBlock) : tradeBlock[x] > b
      BY <1>1, <1>5 DEF CountedTo
    <3>2. \A x \in TradesOf(t, tradeBlock) : tradeBlock[x] > b => tradeBlock[x] > cpC
      BY <1>3, <1>4 DEF TradesOf
    <3> QED
      BY <3>1, <3>2
  <2> QED
    BY <1>1, <1>2, <2>1 DEF LedgerInv, Vouches, LaunchesTaken, TradesKept
<1>8. TickFits("factory")'
  <2>1. pc'["factory"] = pc["factory"]
    BY <1>0, <1>1, LedgerTypes
  <2> QED
    BY <1>1, <2>1, FactoryTickStays
<1>9. TickFits("curves")'
  <2>1. pc'["curves"] = "phases"
    BY <1>0, <1>1, LedgerTypes
  <2>2. TradesTaken(at["curves"] + 1, top["curves"])'
    BY <1>1, <1>2, <1>3 DEF TradesTaken
  <2>3. CountedTo(top["curves"])'
    BY <1>1, <1>5 DEF CountedTo
  <2> QED
    BY <1>1, <1>3, <2>1, <2>2, <2>3 DEF TickFits, Windowed
<1>10. \A s \in Streams : TickFits(s)'
  BY <1>0, <1>8, <1>9
<1> QED
  BY <1>6, <1>7, <1>10 DEF LedgerInv

\* What a tick that is about to advance has done, so that its checkpoint may vouch for it.
LEMMA AdvanceVouches ==
  ASSUME LedgerInv, NEW s \in Streams, pc[s] = "advance"
  PROVE  /\ Settled(top[s]) /\ top[s] \in Nat /\ cpBlock[s] < top[s]
         /\ LaunchesTaken(StartBlock + 1, top[s])
         /\ s = "curves" =>
              /\ TradesKept(StartBlock + 1, top[s])
              /\ TradesTaken(cpBlock[s] + 1, top[s])
              /\ CountedTo(top[s])
<1>1. Settled(top[s]) /\ top[s] \in Nat
  BY WindowSettled DEF Stamped
<1>2. at[s] = cpBlock[s] /\ at[s] < top[s] /\ TickFits(s)
  BY DEF LedgerInv, TickFits, Windowed
<1>3. cpBlock[s] \in Nat /\ cpBlock["factory"] \in Nat /\ StartBlock \in Nat
  BY LedgerTypes DEF Streams
<1>4. \A h \in StartBlock + 1 .. top[s] :
        h \in StartBlock + 1 .. cpBlock[s] \/ h \in cpBlock[s] + 1 .. top[s]
  BY <1>1, <1>3
<1>5. CASE s = "factory"
  <2>1. LaunchesTaken(StartBlock + 1, cpBlock[s]) /\ LaunchesTaken(cpBlock[s] + 1, top[s])
    BY <1>2, <1>5 DEF LedgerInv, Vouches, TickFits
  <2> QED
    BY <1>1, <1>2, <1>4, <1>5, <2>1 DEF LaunchesTaken
<1>6. CASE s = "curves"
  <2>1. top[s] <= cpBlock["factory"]
    BY <1>6 DEF LedgerInv, SettledInv, NeverScansPastFactory, Holding
  <2>2. LaunchesTaken(StartBlock + 1, cpBlock["factory"])
    BY DEF LedgerInv, Vouches, Streams
  <2>3. \A h \in StartBlock + 1 .. top[s] : h \in StartBlock + 1 .. cpBlock["factory"]
    BY <1>1, <1>3, <2>1
  <2>4. LaunchesTaken(StartBlock + 1, top[s])
    BY <2>2, <2>3 DEF LaunchesTaken
  <2>5. /\ TradesKept(StartBlock + 1, cpBlock[s]) /\ TradesTaken(cpBlock[s] + 1, top[s])
        /\ CountedTo(top[s])
    BY <1>2, <1>6 DEF LedgerInv, Vouches, TickFits
  <2>6. TradesKept(StartBlock + 1, top[s])
    BY <1>4, <2>5 DEF TradesKept, TradesTaken
  <2> QED
    BY <1>1, <1>2, <2>4, <2>5, <2>6
<1> QED
  BY <1>5, <1>6 DEF Streams

\* The checkpoint moves to the end of a window that is in the tables.
LEMMA AdvanceLedger ==
  ASSUME LedgerInv, SettledInv', NEW s \in Streams, Advance(s)
  PROVE  LedgerInv'
<1>1. /\ UNCHANGED <<chainVars, tokenBlock, tradeBlock, tradeCount, at, top, found, skipped>>
      /\ cpBlock' = [cpBlock EXCEPT ![s] = top[s]]
      /\ pc[s] = "advance" /\ pc' = [pc EXCEPT ![s] = "resolve"]
  BY DEF Advance, AdvanceTo, GoTo, dbVars, auxVars
<1>2. chain' = chain /\ Height' = Height /\ \A h : Settled(h)' <=> Settled(h)
  BY <1>1 DEF chainVars, Height, Settled
<1>3. /\ Settled(top[s]) /\ top[s] \in Nat /\ cpBlock[s] < top[s]
      /\ LaunchesTaken(StartBlock + 1, top[s])
      /\ s = "curves" => TradesKept(StartBlock + 1, top[s]) /\ CountedTo(top[s])
  BY <1>1, AdvanceVouches
<1>4. cpBlock'[s] = top[s] /\ \A z \in Streams \ {s} : cpBlock'[z] = cpBlock[z]
  BY <1>1, LedgerTypes
<1>5. \A from, to : /\ LaunchesTaken(from, to)' <=> LaunchesTaken(from, to)
                    /\ TradesTaken(from, to)' <=> TradesTaken(from, to)
                    /\ TradesKept(from, to)' <=> TradesKept(from, to)
  BY <1>1, <1>2 DEF LaunchesTaken, TradesTaken, TradesKept
<1>6. \A block : CountedTo(block)' <=> CountedTo(block)
  BY <1>1 DEF CountedTo, TradesOf
<1>7. WellFormed(chain)' /\ RowsContiguous' /\ RowsCanonical'
  BY <1>1, <1>2, <1>5 DEF LedgerInv, RowsContiguous, RowsCanonical
<1>8. Reach'
  <2>1. cpBlock[s] >= StartBlock /\ cpBlock[s] \in Nat /\ StartBlock \in Nat
    BY LedgerTypes DEF LedgerInv, Reach
  <2>2. top[s] >= StartBlock
    BY <1>3, <2>1
  <2>3. \A z \in Streams \ {s} :
          cpBlock[z] >= StartBlock /\ (cpBlock[z] = StartBlock \/ Settled(cpBlock[z]))
    BY DEF LedgerInv, Reach
  <2>4. \A z \in Streams :
          cpBlock'[z] >= StartBlock /\ (cpBlock'[z] = StartBlock \/ Settled(cpBlock'[z]))
    BY <1>3, <1>4, <2>2, <2>3
  <2> QED
    BY <1>2, <2>4 DEF Reach
<1>9. Vouches'
  <2>1. \A z \in Streams : LaunchesTaken(StartBlock + 1, cpBlock'[z])
    BY <1>3, <1>4 DEF LedgerInv, Vouches
  <2>2. TradesKept(StartBlock + 1, cpBlock'["curves"]) /\ CountedTo(cpBlock'["curves"])
    <3>1. CASE s = "curves"
      BY <1>3, <1>4, <3>1
    <3>2. CASE s # "curves"
      <4>1. cpBlock'["curves"] = cpBlock["curves"]
        BY <1>4, <3>2 DEF Streams
      <4> QED
        BY <4>1 DEF LedgerInv, Vouches
    <3> QED
      BY <3>1, <3>2
  <2>3. PICK from, toF, toC : /\ from = StartBlock + 1 /\ toF = cpBlock'["factory"]
                              /\ toC = cpBlock'["curves"]
    OBVIOUS
  <2>4. LaunchesTaken(from, toF)' /\ LaunchesTaken(from, toC)'
    BY <1>5, <2>1, <2>3 DEF Streams
  <2>5. TradesKept(from, toC)' /\ CountedTo(toC)'
    BY <1>5, <1>6, <2>2, <2>3
  <2> QED
    BY <2>3, <2>4, <2>5 DEF Vouches, Streams
<1>10. ASSUME NEW z \in Streams PROVE TickFits(z)'
  <2>1. CASE z = s
    <3>1. pc'[z] = "resolve"
      BY <1>1, <2>1, LedgerTypes
    <3> QED
      BY <3>1 DEF TickFits, Windowed
  <2>2. CASE z # s
    <3>1. pc'[z] = pc[z] /\ cpBlock'[z] = cpBlock[z] /\ TickFits(z)
      BY <1>1, <1>4, <2>2, LedgerTypes DEF LedgerInv
    <3>2. Window(z)' = Window(z)
      BY <1>1, <1>2 DEF Window, LogsIn
    <3>3. Matched(Window(z))' = Matched(Window(z))
      BY <1>1, <3>2 DEF Matched
    <3>4. /\ LaunchesTaken(at[z] + 1, top[z])' <=> LaunchesTaken(at[z] + 1, top[z])
          /\ TradesTaken(at[z] + 1, top[z])' <=> TradesTaken(at[z] + 1, top[z])
          /\ CountedTo(top[z])' <=> CountedTo(top[z])
      BY <1>1, <1>2 DEF LaunchesTaken, TradesTaken, CountedTo, TradesOf
    <3> QED
      BY <1>1, <3>1, <3>2, <3>3, <3>4 DEF TickFits
  <2> QED
    BY <2>1, <2>2
<1> QED
  BY <1>7, <1>8, <1>9, <1>10 DEF LedgerInv

\* Where a start-up takes the curve stream: nothing below the earliest row is missed, but
\* the trades of tokens whose launch was given up on.
LEMMA FastForwardVouches ==
  ASSUME LedgerInv, NEW earliest \in LaunchBlocks, \A b \in LaunchBlocks : earliest <= b,
         cpBlock["curves"] < earliest - 1
  PROVE  /\ earliest - 1 \in Nat /\ Settled(earliest - 1) /\ earliest - 1 >= StartBlock
         /\ LaunchesTaken(StartBlock + 1, earliest - 1)
         /\ TradesKept(StartBlock + 1, earliest - 1)
         /\ CountedTo(earliest - 1)
         /\ \A h \in StartBlock + 1 .. earliest - 1 : \A x \in chain[h].trades :
              tokenBlock[TokenOf[x]] = 0
         /\ \A x \in Trades : tradeBlock[x] # 0 => tradeBlock[x] > earliest - 1
<1>1. PICK t \in Tokens : earliest = tokenBlock[t] /\ tokenBlock[t] # 0
  BY DEF LaunchBlocks
<1>2. \A k \in Tokens : tokenBlock[k] # 0 => earliest <= tokenBlock[k]
  BY DEF LaunchBlocks
<1>3. Settled(earliest) /\ LaunchesTaken(StartBlock + 1, earliest)
  BY <1>1 DEF LedgerInv, RowsCanonical, RowsContiguous
<1>4. earliest \in Nat /\ StartBlock \in Nat /\ cpBlock["curves"] \in Nat
      /\ cpBlock["curves"] >= StartBlock
  BY <1>1, LedgerTypes DEF LedgerInv, Reach, Streams
<1>5. earliest - 1 \in Nat /\ earliest - 1 >= StartBlock /\ earliest - 1 \in 1..earliest
  BY <1>4
<1>6. Settled(earliest - 1)
  BY <1>3, <1>4, <1>5, SettledBelow
<1>7. \A h \in StartBlock + 1 .. earliest - 1 : h \in StartBlock + 1 .. earliest
  BY <1>4
<1>8. LaunchesTaken(StartBlock + 1, earliest - 1)
  BY <1>3, <1>7 DEF LaunchesTaken
<1>9. ASSUME NEW h \in StartBlock + 1 .. earliest - 1, NEW x \in chain[h].trades
      PROVE  tokenBlock[TokenOf[x]] = 0
  <2>1. h \in 1..earliest /\ h \in Nat
    BY <1>4
  <2>2. h \in DOMAIN chain
    BY <1>3, <1>4, <2>1, SettledBelow
  <2>3. TokenOf[x] \in Tokens /\ (tokenBlock[TokenOf[x]] # 0 => tokenBlock[TokenOf[x]] <= h)
    BY <2>2, LaunchedBefore
  <2>4. tokenBlock[TokenOf[x]] \in Nat
    BY <2>3, LedgerTypes
  <2> QED
    BY <1>2, <1>4, <2>1, <2>3, <2>4
<1>10. TradesKept(StartBlock + 1, earliest - 1)
  BY <1>9 DEF TradesKept
<1>11. ASSUME NEW x \in Trades, tradeBlock[x] # 0
       PROVE  tradeBlock[x] > earliest - 1
  <2>1. /\ Settled(tradeBlock[x]) /\ x \in chain[tradeBlock[x]].trades
        /\ tokenBlock[TokenOf[x]] # 0
    BY <1>11 DEF LedgerInv, RowsCanonical
  <2>2. tradeBlock[x] \in DOMAIN chain /\ tradeBlock[x] \in Nat
    BY <2>1, LedgerTypes, SettledExists
  <2>3. TokenOf[x] \in Tokens /\ tokenBlock[TokenOf[x]] <= tradeBlock[x]
    BY <2>1, <2>2, LaunchedBefore
  <2>4. tokenBlock[TokenOf[x]] \in Nat
    BY <2>3, LedgerTypes
  <2> QED
    BY <1>2, <1>4, <2>1, <2>2, <2>3, <2>4
<1>12. CountedTo(earliest - 1)
  <2>1. CountedTo(cpBlock["curves"])
    BY DEF LedgerInv, Vouches
  <2> SUFFICES ASSUME NEW k \in Tokens, NEW x \in TradesOf(k, tradeBlock)
               PROVE  tradeBlock[x] > earliest - 1
    BY <2>1 DEF CountedTo
  <2> QED
    BY <1>11 DEF TradesOf
<1> QED
  BY <1>5, <1>6, <1>8, <1>9, <1>10, <1>11, <1>12

\* The process dies and is started again.
LEMMA RestartLedger ==
  ASSUME LedgerInv, SettledInv', Restart
  PROVE  LedgerInv'
<1>1. UNCHANGED <<chainVars, tokenBlock, tradeBlock, tradeCount, skipped>>
  BY DEF Restart, dbVars
<1>2. \A s \in Streams : pc'[s] = "idle"
  BY DEF Restart
<1>3. \A s \in Streams : TickFits(s)'
  BY <1>2 DEF TickFits, Windowed
<1>4. chain' = chain /\ Height' = Height /\ \A h : Settled(h)' <=> Settled(h)
  BY <1>1 DEF chainVars, Height, Settled
<1>5. \A from, to : /\ LaunchesTaken(from, to)' <=> LaunchesTaken(from, to)
                    /\ TradesKept(from, to)' <=> TradesKept(from, to)
  BY <1>1, <1>4 DEF LaunchesTaken, TradesKept
<1>6. \A block : CountedTo(block)' <=> CountedTo(block)
  BY <1>1 DEF CountedTo, TradesOf
<1>7. WellFormed(chain)' /\ RowsContiguous' /\ RowsCanonical'
  BY <1>1, <1>4, <1>5 DEF LedgerInv, RowsContiguous, RowsCanonical
<1>8. CASE UNCHANGED cpBlock
  BY <1>1, <1>3, <1>4, <1>7, <1>8, TablesStay DEF LedgerInv
<1>9. CASE ~UNCHANGED cpBlock
  <2>1. PICK earliest \in LaunchBlocks :
          /\ \A b \in LaunchBlocks : earliest <= b
          /\ ~(cpBlock["curves"] >= earliest - 1)
          /\ cpBlock' = [cpBlock EXCEPT !["curves"] = earliest - 1]
    BY <1>9 DEF Restart, FastForward, checkpointVars
  <2>2. earliest \in Nat /\ cpBlock["curves"] \in Nat
    BY LedgerTypes DEF LaunchBlocks, Streams
  <2>3. cpBlock["curves"] < earliest - 1
    BY <2>1, <2>2
  <2>4. PICK to : to = earliest - 1
    OBVIOUS
  <2>5. /\ to \in Nat /\ Settled(to) /\ to >= StartBlock
        /\ LaunchesTaken(StartBlock + 1, to) /\ TradesKept(StartBlock + 1, to) /\ CountedTo(to)
    BY <2>1, <2>3, <2>4, FastForwardVouches
  <2>6. cpBlock'["curves"] = to /\ cpBlock'["factory"] = cpBlock["factory"]
    BY <2>1, <2>4, LedgerTypes DEF Streams
  <2>7. Reach'
    BY <1>4, <2>5, <2>6 DEF LedgerInv, Reach, Streams
  <2>8. LaunchesTaken(StartBlock + 1, cpBlock["factory"])
    BY DEF LedgerInv, Vouches, Streams
  <2>9. PICK from, toF : from = StartBlock + 1 /\ toF = cpBlock["factory"]
    OBVIOUS
  <2>10. /\ LaunchesTaken(from, to)' /\ LaunchesTaken(from, toF)'
         /\ TradesKept(from, to)' /\ CountedTo(to)'
    BY <1>5, <1>6, <2>5, <2>8, <2>9
  <2>11. Vouches'
    BY <2>6, <2>9, <2>10 DEF Vouches, Streams
  <2> QED
    BY <1>3, <1>7, <2>7, <2>11 DEF LedgerInv
<1> QED
  BY <1>8, <1>9

\* What neither the chain, the tables nor the ticks notice.
LEMMA UnnoticedLedger ==
  ASSUME LedgerInv, SettledInv',
         UNCHANGED <<chainVars, cpBlock, tokenBlock, tradeBlock, tradeCount, skipped,
                     pc, at, top, found>>
  PROVE  LedgerInv'
<1>1. "factory" \in Streams /\ TickFits("factory")
  BY DEF LedgerInv, Streams
<1>2. /\ WellFormed(chain)' /\ RowsCanonical' /\ RowsContiguous' /\ Reach' /\ Vouches'
      /\ Window("factory")' = Window("factory")
  BY TablesStay DEF Window
<1>3. pc'["factory"] = pc["factory"]
  OBVIOUS
<1>4. TickFits("factory")'
  BY <1>3, FactoryTickStays
<1>5. \A z \in Streams \ {"factory"} : /\ pc'[z] = pc[z] /\ at'[z] = at[z]
                                       /\ top'[z] = top[z] /\ found'[z] = found[z]
  OBVIOUS
<1> QED
  BY <1>1, <1>4, <1>5, TickStepLedger

\* While the depth is respected, the checkpoints vouch for the tables in every step.
LEMMA NextLedger ==
  ASSUME DepthRespected, LedgerInv, [Next]_vars
  PROVE  LedgerInv'
<1>1. SettledInv'
  BY NextSettled DEF LedgerInv
<1>2. CASE UNCHANGED vars
  BY <1>1, <1>2, UnnoticedLedger DEF vars, checkpointVars, dbVars, tickVars, auxVars
<1>3. CASE ChainGrows \/ ChainReorganises
  BY <1>1, <1>3, ChainStepLedger
<1>4. ASSUME NEW s \in Streams,
             \/ BeginTick(s) \/ Verify(s) \/ VerifyFails(s) \/ ReadHead(s)
             \/ s = "curves" /\ ReadCeiling
             \/ FetchLogs(s) \/ ReadStamp(s)
      PROVE  LedgerInv'
  BY <1>1, <1>4, ReadingStepsLedger
<1>5. ASSUME NEW s \in Streams,
             \/ SyncPhases(s) \/ AdvanceFind(s) \/ Resolve(s)
             \/ s = "curves" /\ MatchTrades
             \/ s = "curves" /\ InsertRejected
             \/ ProcessFails(s) \/ Abandon(s)
      PROVE  LedgerInv'
  BY <1>1, <1>5, ClosingStepsLedger
<1>6. ASSUME NEW s \in Streams, Advance(s)
      PROVE  LedgerInv'
  BY <1>1, <1>6, AdvanceLedger
<1>7. CASE RecordLaunches \/ InsertTrades \/ RefreshStats
  BY <1>1, <1>7, RecordLaunchesLedger, InsertTradesLedger, RefreshStatsLedger
<1>8. ASSUME NEW s \in Streams
      PROVE  ~(\/ Rewind(s) \/ DeleteTokensAbove \/ DeleteTradesAbove
               \/ CascadeFind \/ CascadeWrite)
  BY RollbackStepsImpossible DEF LedgerInv
<1>9. CASE Restart
  BY <1>1, <1>9, RestartLedger
<1>10. CASE (\E s \in Streams : Pause(s)) \/ CalmDown
  BY <1>1, <1>10, UnnoticedLedger
     DEF Pause, SetPaused, CalmDown, checkpointVars, dbVars, tickVars, auxVars
<1>11. ASSUME NEW s \in Streams, Step(s)
       PROVE  LedgerInv'
  BY <1>4, <1>5, <1>6, <1>8, <1>11 DEF Step
<1>12. CASE FactoryStep
  BY <1>7, <1>8, <1>11, <1>12 DEF FactoryStep, Streams
<1>13. CASE CurveStep
  <2>1. "curves" \in Streams
    BY DEF Streams
  <2> QED
    BY <1>4, <1>5, <1>7, <1>8, <1>11, <1>13, <2>1 DEF CurveStep
<1>14. CASE Fault
  BY <1>4, <1>5, <1>9, <1>14 DEF Fault
<1> QED
  BY <1>2, <1>3, <1>10, <1>12, <1>13, <1>14 DEF Next

-----------------------------------------------------------------------------
(* The indexer implements the ledger, while the depth is respected.        *)

\* The log is the settled part of the chain.
LogIsSettled ==
  /\ SafeHead \in Nat /\ SafeHead <= Height
  /\ ConfirmedLog \in Seq(Block) /\ Len(ConfirmedLog) = SafeHead
  /\ \A h \in 1..SafeHead : ConfirmedLog[h] = chain[h]
  /\ \A h \in Int : Settled(h) <=> h \in 1..SafeHead

LEMMA ConfirmedLogIs == LedgerInv => LogIsSettled
<1> SUFFICES ASSUME LedgerInv PROVE LogIsSettled
  OBVIOUS
<1>1. chain \in Seq(Block) /\ Height \in Nat /\ Height = Len(chain)
  BY LedgerTypes DEF Height
<1>2. SafeHead \in Nat /\ SafeHead <= Height
  BY <1>1, IndexerAssumption DEF SafeHead, NoBlock
<1>3. \A h \in Int : Settled(h) <=> h \in 1..SafeHead
  BY <1>1, IndexerAssumption DEF SafeHead, NoBlock, Settled
<1>4. PICK n : n = SafeHead
  OBVIOUS
<1>5. /\ SubSeq(chain, 1, n) \in Seq(Block) /\ Len(SubSeq(chain, 1, n)) = n
      /\ \A h \in 1..n : SubSeq(chain, 1, n)[h] = chain[h]
  BY <1>1, <1>2, <1>4
<1> QED
  BY <1>2, <1>3, <1>4, <1>5 DEF ConfirmedLog, LogIsSettled

LEMMA ConfirmedLogStays == LedgerInv' => LogIsSettled'
BY ConfirmedLogIs, PTL

\* The members of a table's rows through a block.
LEMMA RowsThroughMembers ==
  ASSUME NEW rows, NEW block
  PROVE  \A e : e \in RowsThrough(rows, block)
                  <=> \E k \in DOMAIN rows : e = <<k, rows[k]>> /\ rows[k] \in 1..block
BY DEF RowsThrough

\* The chain's steps append to the log, or leave it as it is.
LEMMA ChainStepRefines ==
  ASSUME DepthRespected, LedgerInv, LedgerInv', ChainGrows \/ ChainReorganises
  PROVE  [Ledger!LedgerNext]_Ledger!ledgerVars
<1>1. UNCHANGED <<cpBlock, tokenBlock, tradeBlock, skipped>>
  BY DEF ChainGrows, ChainReorganises, indexerVars, checkpointVars, dbVars, auxVars
<1>2. /\ SafeHead \in Nat /\ ConfirmedLog \in Seq(Block) /\ Len(ConfirmedLog) = SafeHead
      /\ \A h \in 1..SafeHead : ConfirmedLog[h] = chain[h]
      /\ \A h \in Int : Settled(h) <=> h \in 1..SafeHead
  BY ConfirmedLogIs DEF LogIsSettled
<1>3. /\ SafeHead' \in Nat /\ ConfirmedLog' \in Seq(Block) /\ Len(ConfirmedLog') = SafeHead'
      /\ \A h \in 1..SafeHead' : ConfirmedLog'[h] = chain'[h]
      /\ \A h \in Int : Settled(h)' <=> h \in 1..SafeHead'
  BY ConfirmedLogStays DEF LogIsSettled
<1>4. \A h \in Int : Settled(h) => Settled(h)' /\ chain'[h] = chain[h]
  BY BlocksStay
<1>5. SafeHead <= SafeHead'
  <2>1. SafeHead = 0 \/ SafeHead \in 1..SafeHead
    BY <1>2
  <2> QED
    BY <1>2, <1>3, <1>4, <2>1
<1>6. \A h \in 1..SafeHead : ConfirmedLog'[h] = ConfirmedLog[h]
  BY <1>2, <1>3, <1>4, <1>5
<1>7. PICK n, m, old, new : /\ n = SafeHead /\ m = SafeHead'
                            /\ old = ConfirmedLog /\ new = ConfirmedLog'
  OBVIOUS
<1>8. SubSeq(new, 1, n) = old /\ (n = m => new = old)
  BY <1>2, <1>3, <1>5, <1>6, <1>7
<1>9. UNCHANGED <<RowsThrough(tokenBlock, cpBlock["factory"]),
                  RowsThrough(tradeBlock, cpBlock["curves"])>>
  BY <1>1
<1>10. CASE SafeHead' = SafeHead
  BY <1>1, <1>7, <1>8, <1>9, <1>10 DEF Ledger!ledgerVars
<1>11. CASE SafeHead' # SafeHead
  <2>1. Len(ConfirmedLog') > Len(ConfirmedLog)
    BY <1>2, <1>3, <1>5, <1>11
  <2>2. SubSeq(ConfirmedLog', 1, Len(ConfirmedLog)) = ConfirmedLog
    BY <1>2, <1>7, <1>8
  <2> QED
    BY <1>1, <1>9, <2>1, <2>2 DEF Ledger!LedgerNext, Ledger!Confirm
<1> QED
  BY <1>10, <1>11

\* The rows a stream writes before it advances are no part of the ledger yet.
LEMMA RowsAbove ==
  ASSUME NEW rows, NEW rows2, NEW block \in Nat, DOMAIN rows = DOMAIN rows2,
         \A k \in DOMAIN rows : rows[k] # 0 => rows2[k] = rows[k],
         \A k \in DOMAIN rows : rows[k] = 0 /\ rows2[k] # 0 => rows2[k] > block /\ rows2[k] \in Nat
  PROVE  RowsThrough(rows2, block) = RowsThrough(rows, block)
<1>1. \A k \in DOMAIN rows : rows[k] \in 1..block => rows2[k] = rows[k]
  OBVIOUS
<1>2. \A k \in DOMAIN rows : rows2[k] \in 1..block => rows2[k] = rows[k]
  OBVIOUS
<1>3. \A e : e \in RowsThrough(rows2, block) <=> e \in RowsThrough(rows, block)
  BY <1>1, <1>2, RowsThroughMembers
<1> QED
  BY <1>3

\* RecordLaunches gives launches up, and InsertTrades is no step of the ledger.
LEMMA RecordsRefine ==
  ASSUME LedgerInv, LedgerInv', RecordLaunches \/ InsertTrades
  PROVE  [Ledger!LedgerNext]_Ledger!ledgerVars
<1>1. cpBlock["factory"] \in Nat /\ cpBlock["curves"] \in Nat
  BY LedgerTypes DEF Streams
<1>2. /\ DOMAIN tokenBlock = Tokens /\ DOMAIN tokenBlock' = Tokens
      /\ DOMAIN tradeBlock = Trades /\ DOMAIN tradeBlock' = Trades
  BY DEF LedgerInv, SettledInv, TypeInv, TypeOK, DbTypeOK
<1>3. CASE RecordLaunches
  <2>1. /\ UNCHANGED <<chainVars, cpBlock, tradeBlock>> /\ skipped \subseteq skipped'
        /\ \A t \in Tokens : tokenBlock[t] # 0 => tokenBlock'[t] = tokenBlock[t]
        /\ at["factory"] = cpBlock["factory"]
        /\ \A t \in Tokens : tokenBlock[t] = 0 /\ tokenBlock'[t] # 0 =>
             tokenBlock'[t] \in at["factory"] + 1 .. top["factory"]
        /\ pc["factory"] = "record"
    BY <1>3, RecordedRows
  <2>2. top["factory"] \in Nat
    BY LedgerTypes DEF Streams
  <2>3. \A t \in Tokens : tokenBlock[t] = 0 /\ tokenBlock'[t] # 0 =>
          tokenBlock'[t] > cpBlock["factory"] /\ tokenBlock'[t] \in Nat
    BY <1>1, <2>1, <2>2
  <2>4. PICK block \in Nat : block = cpBlock["factory"]
    BY <1>1
  <2> PICK old, new : old = tokenBlock /\ new = tokenBlock'
    OBVIOUS
  <2>5. RowsThrough(new, block) = RowsThrough(old, block)
    BY <1>2, <2>1, <2>3, <2>4, RowsAbove
  <2>6. RowsThrough(tokenBlock, cpBlock["factory"])' = RowsThrough(tokenBlock, cpBlock["factory"])
    BY <2>1, <2>4, <2>5
  <2>7. UNCHANGED <<ConfirmedLog, RowsThrough(tradeBlock, cpBlock["curves"])>>
    BY <2>1 DEF ConfirmedLog, SafeHead, Height, chainVars
  <2> QED
    BY <2>1, <2>6, <2>7 DEF Ledger!LedgerNext, Ledger!GiveUp
<1>4. CASE InsertTrades
  <2>1. /\ UNCHANGED <<chainVars, cpBlock, tokenBlock, skipped>>
        /\ \A x \in Trades : tradeBlock[x] # 0 => tradeBlock'[x] = tradeBlock[x]
        /\ at["curves"] = cpBlock["curves"]
        /\ \A x \in Trades : tradeBlock[x] = 0 /\ tradeBlock'[x] # 0 =>
             tradeBlock'[x] \in at["curves"] + 1 .. top["curves"]
    BY <1>4, InsertedTrades
  <2>2. top["curves"] \in Nat
    BY LedgerTypes DEF Streams
  <2>3. \A x \in Trades : tradeBlock[x] = 0 /\ tradeBlock'[x] # 0 =>
          tradeBlock'[x] > cpBlock["curves"] /\ tradeBlock'[x] \in Nat
    BY <1>1, <2>1, <2>2
  <2>4. PICK block \in Nat : block = cpBlock["curves"]
    BY <1>1
  <2> PICK old, new : old = tradeBlock /\ new = tradeBlock'
    OBVIOUS
  <2>5. RowsThrough(new, block) = RowsThrough(old, block)
    BY <1>2, <2>1, <2>3, <2>4, RowsAbove
  <2>6. RowsThrough(tradeBlock, cpBlock["curves"])' = RowsThrough(tradeBlock, cpBlock["curves"])
    BY <2>1, <2>4, <2>5
  <2>7. UNCHANGED <<ConfirmedLog, RowsThrough(tokenBlock, cpBlock["factory"])>>
    BY <2>1 DEF ConfirmedLog, SafeHead, Height, chainVars
  <2> QED
    BY <2>1, <2>6, <2>7 DEF Ledger!ledgerVars
<1> QED
  BY <1>3, <1>4

\* The factory's advance takes launches in.
LEMMA FactoryAdvanceRefines ==
  ASSUME LedgerInv, Advance("factory")
  PROVE  Ledger!LedgerNext
<1> DEFINE cpF == cpBlock["factory"]
           to == top["factory"]
           new == Ledger!LaunchesOf(cpF, to)
           old == RowsThrough(tokenBlock, cpF)
           all == RowsThrough(tokenBlock, to)
<1>1. /\ UNCHANGED <<chainVars, tokenBlock, tradeBlock, skipped>>
      /\ cpBlock' = [cpBlock EXCEPT !["factory"] = to] /\ pc["factory"] = "advance"
  BY DEF Advance, AdvanceTo, dbVars, auxVars
<1>2. /\ Settled(to) /\ to \in Nat /\ cpF < to /\ cpF \in Nat
      /\ LaunchesTaken(StartBlock + 1, to)
      /\ StartBlock \in Nat /\ cpF >= StartBlock
  BY <1>1, AdvanceVouches, LedgerTypes DEF Streams, LedgerInv, Reach
<1>3. /\ SafeHead \in Nat /\ Len(ConfirmedLog) = SafeHead /\ to \in 1..SafeHead
      /\ \A h \in 1..SafeHead : ConfirmedLog[h] = chain[h]
  BY <1>2, ConfirmedLogIs DEF LogIsSettled
<1>4. \A h \in cpF + 1 .. to : h \in 1..SafeHead
  BY <1>2, <1>3
<1>5. \A h \in cpF + 1 .. to : ConfirmedLog[h] = chain[h]
  BY <1>3, <1>4
<1>6. \A e : e \in new <=> \E h \in cpF + 1 .. to : \E t \in chain[h].launches : e = <<t, h>>
  BY <1>5 DEF Ledger!LaunchesOf, Ledger!Range
<1>7. DOMAIN tokenBlock = Tokens /\ \A t \in Tokens : tokenBlock[t] \in Nat
  BY LedgerTypes
<1>8. old \subseteq all
  <2>1. \A h \in 1..cpF : h \in 1..to
    BY <1>2
  <2> QED
    BY <2>1 DEF RowsThrough
<1>9. all \subseteq old \union new
  <2> SUFFICES ASSUME NEW t \in Tokens, tokenBlock[t] \in 1..to, tokenBlock[t] \notin 1..cpF
               PROVE  <<t, tokenBlock[t]>> \in new
    BY <1>7 DEF RowsThrough
  <2>1. tokenBlock[t] \in cpF + 1 .. to
    BY <1>2, <1>7
  <2>2. t \in chain[tokenBlock[t]].launches
    BY <2>1 DEF LedgerInv, RowsCanonical
  <2> QED
    BY <1>6, <2>1, <2>2
<1>10. \A l \in new \ all : l[1] \in skipped
  <2> SUFFICES ASSUME NEW h \in cpF + 1 .. to, NEW t \in chain[h].launches, t \notin skipped
               PROVE  <<t, h>> \in all
    BY <1>6
  <2>1. h \in StartBlock + 1 .. to
    BY <1>2
  <2>2. tokenBlock[t] = h
    BY <1>2, <2>1 DEF LaunchesTaken
  <2>3. t \in Tokens /\ h \in 1..to
    <3>1. h \in 1..to
      BY <1>2
    <3>2. h \in 1..Height
      BY <1>2, <3>1, SettledBelow
    <3> QED
      BY <3>1, <3>2, LedgerTypes
  <2> QED
    BY <1>7, <2>2, <2>3 DEF RowsThrough
<1>11. /\ cpBlock'["factory"] = to /\ cpBlock'["curves"] = cpBlock["curves"]
  BY <1>1, LedgerTypes DEF Streams
<1>12. UNCHANGED <<ConfirmedLog, RowsThrough(tradeBlock, cpBlock["curves"])>>
  BY <1>1, <1>11 DEF ConfirmedLog, SafeHead, Height, chainVars
<1>13. RowsThrough(tokenBlock, cpBlock["factory"])' = all
  BY <1>1, <1>11
<1>14. to \in cpF + 1 .. Len(ConfirmedLog)
  BY <1>2, <1>3
<1>15. Ledger!TakeLaunches
  <2> HIDE DEF new, old, all
  <2> QED
    BY <1>1, <1>8, <1>9, <1>10, <1>11, <1>12, <1>13, <1>14
       DEF Ledger!TakeLaunches, Ledger!Range, new, old
<1> QED
  BY <1>15 DEF Ledger!LedgerNext

\* How the curve stream's checkpoint moves to a settled block: with the trades of the
\* blocks it passes, of the tokens the ledger knows.
LEMMA CurvesMoveRefines ==
  ASSUME LedgerInv, NEW to \in Nat, Settled(to), cpBlock["curves"] < to,
         UNCHANGED <<chainVars, tokenBlock, tradeBlock, skipped>>,
         cpBlock' = [cpBlock EXCEPT !["curves"] = to],
         TradesTaken(cpBlock["curves"] + 1, to),
         \A x \in Trades : tradeBlock[x] \in cpBlock["curves"] + 1 .. to =>
           tokenBlock[TokenOf[x]] <= cpBlock["factory"]
  PROVE  Ledger!LedgerNext
<1> DEFINE cpC == cpBlock["curves"]
           cpF == cpBlock["factory"]
           read == Ledger!TradesFrom(cpC, to)
           old == RowsThrough(tradeBlock, cpC)
           all == RowsThrough(tradeBlock, to)
           known == {e \in read : Ledger!Known(e[1])}
<1>1. cpC \in Nat /\ cpF \in Nat
  BY LedgerTypes DEF Streams
<1>2. /\ SafeHead \in Nat /\ Len(ConfirmedLog) = SafeHead /\ to \in 1..SafeHead
      /\ \A h \in 1..SafeHead : ConfirmedLog[h] = chain[h]
  BY ConfirmedLogIs DEF LogIsSettled
<1>3. \A h \in cpC + 1 .. to : h \in 1..SafeHead /\ h \in 1..to
  BY <1>1, <1>2
<1>4. \A h \in cpC + 1 .. to : ConfirmedLog[h] = chain[h]
  BY <1>2, <1>3
<1>5. \A e : e \in read <=> \E h \in cpC + 1 .. to : \E x \in chain[h].trades : e = <<x, h>>
  BY <1>4 DEF Ledger!TradesFrom, Ledger!Range
<1>6. /\ DOMAIN tradeBlock = Trades /\ \A x \in Trades : tradeBlock[x] \in Nat
      /\ DOMAIN tokenBlock = Tokens /\ \A t \in Tokens : tokenBlock[t] \in Nat
      /\ \A x \in Trades : TokenOf[x] \in Tokens
  BY LedgerTypes
<1>7. \A x \in Trades : Ledger!Known(x) <=> tokenBlock[TokenOf[x]] \in 1..cpF
  <2> TAKE x \in Trades
  <2>1. PICK t \in Tokens : t = TokenOf[x]
    BY <1>6
  <2>2. ASSUME tokenBlock[t] \in 1..cpF
        PROVE  \E l \in RowsThrough(tokenBlock, cpF) : l[1] = t
    <3>1. <<t, tokenBlock[t]>> \in RowsThrough(tokenBlock, cpF)
      BY <1>6, <2>2, RowsThroughMembers
    <3> QED
      BY <3>1
  <2>3. ASSUME NEW l \in RowsThrough(tokenBlock, cpF), l[1] = t
        PROVE  tokenBlock[t] \in 1..cpF
    BY <2>3, RowsThroughMembers
  <2> QED
    BY <2>1, <2>2, <2>3 DEF Ledger!Known
<1>8. old \subseteq all
  <2>1. \A h \in 1..cpC : h \in 1..to
    BY <1>1
  <2> QED
    BY <2>1 DEF RowsThrough
<1>9. all \subseteq old \union known
  <2> SUFFICES ASSUME NEW x \in Trades, tradeBlock[x] \in 1..to, tradeBlock[x] \notin 1..cpC
               PROVE  <<x, tradeBlock[x]>> \in known
    BY <1>6 DEF RowsThrough
  <2>1. tradeBlock[x] \in cpC + 1 .. to
    BY <1>1, <1>6
  <2>2. x \in chain[tradeBlock[x]].trades /\ tokenBlock[TokenOf[x]] # 0
    BY <2>1 DEF LedgerInv, RowsCanonical
  <2>3. <<x, tradeBlock[x]>> \in read
    BY <1>5, <2>1, <2>2
  <2>4. tokenBlock[TokenOf[x]] \in 1..cpF
    BY <1>1, <1>6, <2>1, <2>2
  <2>5. Ledger!Known(x)
    BY <1>7, <2>4
  <2> QED
    BY <2>3, <2>5
<1>10. known \subseteq all
  <2> SUFFICES ASSUME NEW h \in cpC + 1 .. to, NEW x \in chain[h].trades, Ledger!Known(x)
               PROVE  <<x, h>> \in all
    BY <1>5
  <2>1. h \in 1..to /\ h \in 1..Height
    BY <1>3, SettledBelow
  <2>2. x \in Trades
    BY <2>1, LedgerTypes
  <2>3. tokenBlock[TokenOf[x]] # 0
    BY <1>1, <1>7, <2>2
  <2>4. tradeBlock[x] = h
    BY <2>3 DEF TradesTaken
  <2> QED
    BY <1>6, <2>1, <2>2, <2>4 DEF RowsThrough
<1>11. all = old \union known
  BY <1>8, <1>9, <1>10
<1>12. cpBlock'["curves"] = to /\ cpBlock'["factory"] = cpF
  BY LedgerTypes DEF Streams
<1>13. UNCHANGED <<ConfirmedLog, RowsThrough(tokenBlock, cpBlock["factory"])>>
  BY <1>12 DEF ConfirmedLog, SafeHead, Height, chainVars
<1>14. RowsThrough(tradeBlock, cpBlock["curves"])' = all
  BY <1>12
<1>15. to \in cpC + 1 .. Len(ConfirmedLog)
  BY <1>1, <1>2
<1>16. Ledger!TakeTrades
  <2> HIDE DEF old, all
  <2> QED
    BY <1>11, <1>12, <1>13, <1>14, <1>15
       DEF Ledger!TakeTrades, Ledger!Range, old, read, known
<1> QED
  BY <1>16 DEF Ledger!LedgerNext

\* The curve stream's advance takes trades in.
LEMMA CurvesAdvanceRefines ==
  ASSUME LedgerInv, Advance("curves")
  PROVE  Ledger!LedgerNext
<1>0. "curves" \in Streams /\ "factory" \in Streams
  BY DEF Streams
<1>1. /\ UNCHANGED <<chainVars, tokenBlock, tradeBlock, skipped>>
      /\ cpBlock' = [cpBlock EXCEPT !["curves"] = top["curves"]] /\ pc["curves"] = "advance"
  BY DEF Advance, AdvanceTo, dbVars, auxVars
<1>2. PICK to \in Nat : to = top["curves"]
  BY <1>0, LedgerTypes
<1>3. /\ Settled(to) /\ cpBlock["curves"] < to
      /\ TradesTaken(cpBlock["curves"] + 1, to)
  BY <1>0, <1>1, <1>2, AdvanceVouches
<1>4. /\ to <= cpBlock["factory"] /\ cpBlock["factory"] \in Nat /\ cpBlock["curves"] \in Nat
  BY <1>0, <1>1, <1>2, LedgerTypes DEF LedgerInv, SettledInv, NeverScansPastFactory, Holding
<1>5. ASSUME NEW x \in Trades, tradeBlock[x] \in cpBlock["curves"] + 1 .. to
      PROVE  tokenBlock[TokenOf[x]] <= cpBlock["factory"]
  <2>1. /\ Settled(tradeBlock[x]) /\ x \in chain[tradeBlock[x]].trades
        /\ tokenBlock[TokenOf[x]] # 0
    BY <1>4, <1>5 DEF LedgerInv, RowsCanonical
  <2>2. tradeBlock[x] \in DOMAIN chain
    BY <1>4, <1>5, <2>1, SettledExists
  <2>3. TokenOf[x] \in Tokens /\ tokenBlock[TokenOf[x]] <= tradeBlock[x]
    BY <2>1, <2>2, LaunchedBefore
  <2>4. tokenBlock[TokenOf[x]] \in Nat
    BY <2>3, LedgerTypes
  <2> QED
    BY <1>4, <1>5, <2>3, <2>4
<1>6. cpBlock' = [cpBlock EXCEPT !["curves"] = to]
  BY <1>1, <1>2
<1> QED
  BY <1>1, <1>3, <1>5, <1>6, CurvesMoveRefines

\* A start-up takes in blocks known to hold no trade of a known token, or nothing.
LEMMA RestartRefines ==
  ASSUME LedgerInv, Restart
  PROVE  [Ledger!LedgerNext]_Ledger!ledgerVars
<1>1. UNCHANGED <<chainVars, tokenBlock, tradeBlock, skipped>>
  BY DEF Restart, dbVars
<1>2. CASE UNCHANGED cpBlock
  BY <1>1, <1>2 DEF Ledger!ledgerVars, ConfirmedLog, SafeHead, Height, chainVars
<1>3. CASE ~UNCHANGED cpBlock
  <2>1. PICK earliest \in LaunchBlocks :
          /\ \A b \in LaunchBlocks : earliest <= b
          /\ ~(cpBlock["curves"] >= earliest - 1)
          /\ cpBlock' = [cpBlock EXCEPT !["curves"] = earliest - 1]
    BY <1>3 DEF Restart, FastForward, checkpointVars
  <2>2. earliest \in Nat /\ cpBlock["curves"] \in Nat /\ StartBlock \in Nat
        /\ cpBlock["curves"] >= StartBlock
    BY LedgerTypes DEF LaunchBlocks, Streams, LedgerInv, Reach
  <2>3. cpBlock["curves"] < earliest - 1
    BY <2>1, <2>2
  <2>4. PICK to : to = earliest - 1
    OBVIOUS
  <2>5. /\ to \in Nat /\ Settled(to) /\ cpBlock["curves"] < to
        /\ cpBlock' = [cpBlock EXCEPT !["curves"] = to]
        /\ \A h \in StartBlock + 1 .. to : \A x \in chain[h].trades : tokenBlock[TokenOf[x]] = 0
        /\ \A x \in Trades : tradeBlock[x] # 0 => tradeBlock[x] > to
    BY <2>1, <2>3, <2>4, FastForwardVouches
  <2>6. TradesTaken(cpBlock["curves"] + 1, to)
    <3>1. \A h \in cpBlock["curves"] + 1 .. to : h \in StartBlock + 1 .. to
      BY <2>2
    <3> QED
      BY <2>5, <3>1 DEF TradesTaken
  <2>7. \A x \in Trades : tradeBlock[x] \notin cpBlock["curves"] + 1 .. to
    <3>1. \A x \in Trades : tradeBlock[x] \in Nat
      BY LedgerTypes
    <3> QED
      BY <2>2, <2>5, <3>1
  <2> QED
    BY <1>1, <2>5, <2>6, <2>7, CurvesMoveRefines
<1> QED
  BY <1>2, <1>3

\* Every step of the indexer is a step of the ledger, or none.
LEMMA StepRefines ==
  ASSUME DepthRespected, LedgerInv, LedgerInv', [Next]_vars
  PROVE  [Ledger!LedgerNext]_Ledger!ledgerVars
<1>1. ASSUME UNCHANGED <<chainVars, cpBlock, tokenBlock, tradeBlock, skipped>>
      PROVE  UNCHANGED Ledger!ledgerVars
  BY <1>1 DEF Ledger!ledgerVars, ConfirmedLog, SafeHead, Height, chainVars
<1>2. CASE ChainGrows \/ ChainReorganises
  BY <1>2, ChainStepRefines
<1>3. CASE RecordLaunches \/ InsertTrades
  BY <1>3, RecordsRefine
<1>4. CASE \E s \in Streams : Advance(s)
  BY <1>4, FactoryAdvanceRefines, CurvesAdvanceRefines DEF Streams
<1>5. CASE Restart
  BY <1>5, RestartRefines
<1>6. ASSUME NEW s \in Streams
      PROVE  ~(\/ Rewind(s) \/ DeleteTokensAbove \/ DeleteTradesAbove
               \/ CascadeFind \/ CascadeWrite)
  BY RollbackStepsImpossible DEF LedgerInv
<1>7. ASSUME NEW s \in Streams,
             \/ BeginTick(s) \/ Verify(s) \/ VerifyFails(s) \/ ReadHead(s)
             \/ FetchLogs(s) \/ ReadStamp(s) \/ SyncPhases(s) \/ AdvanceFind(s)
             \/ Resolve(s) \/ ProcessFails(s) \/ Abandon(s) \/ Pause(s)
      PROVE  UNCHANGED <<chainVars, cpBlock, tokenBlock, tradeBlock, skipped>>
  BY <1>7 DEF BeginTick, Verify, VerifyFails, ReadHead, FetchLogs, ReadStamp, SyncPhases,
     AdvanceFind, Resolve, ResolveFailedBlocksThrough, ProcessFails, RecordFailedBlock,
     Abandon, Pause, SetPaused, checkpointVars, dbVars, auxVars
<1>8. CASE \/ UNCHANGED vars \/ ReadCeiling \/ MatchTrades \/ InsertRejected
           \/ RefreshStats \/ CalmDown
  <2>1. UNCHANGED <<chainVars, cpBlock, tokenBlock, tradeBlock, skipped>>
    BY <1>8 DEF vars, ReadCeiling, MatchTrades, InsertRejected, RecordFailedBlock,
       RefreshStats, CalmDown, checkpointVars, dbVars, auxVars
  <2> QED
    BY <1>1, <2>1
<1>9. ASSUME NEW s \in Streams, Step(s)
      PROVE  [Ledger!LedgerNext]_Ledger!ledgerVars
  BY <1>1, <1>4, <1>6, <1>7, <1>9 DEF Step
<1>10. CASE FactoryStep
  BY <1>3, <1>6, <1>9, <1>10 DEF FactoryStep, Streams
<1>11. CASE CurveStep
  BY <1>3, <1>6, <1>8, <1>9, <1>11 DEF CurveStep, Streams
<1>12. CASE Fault
  BY <1>1, <1>5, <1>7, <1>12 DEF Fault
<1>13. CASE \E s \in Streams : Pause(s)
  BY <1>1, <1>7, <1>13
<1> QED
  BY <1>2, <1>8, <1>10, <1>11, <1>12, <1>13 DEF Next

LEMMA InitRefines == Init => Ledger!LedgerInit
<1> SUFFICES ASSUME Init PROVE Ledger!LedgerInit
  OBVIOUS
<1>1. chain = << >> /\ \A s \in Streams : cpBlock[s] = StartBlock
  BY DEF Init, ChainInit, CheckpointInit
<1>2. SafeHead = 0
  BY <1>1, IndexerAssumption DEF SafeHead, Height, NoBlock
<1>3. ConfirmedLog = << >>
  BY <1>1, <1>2 DEF ConfirmedLog
<1>4. \A block : RowsThrough(tokenBlock, block) = {} /\ RowsThrough(tradeBlock, block) = {}
  BY DEF Init, RowsThrough
<1> QED
  BY <1>1, <1>3, <1>4 DEF Init, Ledger!LedgerInit, Streams

\* Where no read of prepareLaunch fails, no launch is given up on: the factory still
\* knows every launch of a settled block.
GivesUpOnNothing == ~ReadsMayFail => skipped = {}

LEMMA NextGivesUpOnNothing ==
  ASSUME LedgerInv, GivesUpOnNothing, [Next]_vars
  PROVE  GivesUpOnNothing'
<1>1. CASE RecordLaunches
  <2> SUFFICES ASSUME ~ReadsMayFail PROVE skipped' = {}
    BY DEF GivesUpOnNothing
  <2>1. PICK prepared \in SUBSET found["factory"] :
          /\ \A l \in found["factory"] \ prepared : ~OnChain(l[1], chain)
          /\ skipped' = skipped \union {l[1] : l \in found["factory"] \ prepared}
    BY <1>1 DEF RecordLaunches
  <2>2. pc["factory"] = "record" /\ "factory" \in Streams
    BY <1>1 DEF RecordLaunches, Streams
  <2>3. found["factory"] = LogsIn("factory", at["factory"] + 1, top["factory"])
    BY <2>2 DEF LedgerInv, TickFits, Window
  <2>4. ASSUME NEW l \in found["factory"] PROVE OnChain(l[1], chain)
    <3>1. l[2] \in at["factory"] + 1 .. top["factory"] /\ l[1] \in chain[l[2]].launches
      BY <2>3, <2>4 DEF LogsIn, LogsOf
    <3>2. l[2] \in DOMAIN chain
      BY <2>2, <3>1, WindowSettled DEF Stamped
    <3> QED
      BY <3>1, <3>2 DEF OnChain
  <2> QED
    BY <2>1, <2>4 DEF GivesUpOnNothing
<1>2. CASE ~RecordLaunches
  <2>1. UNCHANGED skipped
    BY <1>2 DEF Next, FactoryStep, CurveStep, Fault, Step, vars, indexerVars, auxVars,
       BeginTick, Verify, VerifyFails, ReadHead, ReadCeiling, FetchLogs, ReadStamp,
       SyncPhases, MatchTrades, InsertTrades, InsertRejected, RefreshStats,
       AdvanceFind, Advance, Resolve, DeleteTokensAbove, DeleteTradesAbove, Rewind,
       CascadeFind, CascadeWrite, Restart, Abandon, ProcessFails, Pause,
       ChainGrows, ChainReorganises, CalmDown
  <2> QED
    BY <2>1 DEF GivesUpOnNothing
<1> QED
  BY <1>1, <1>2

\* While the confirmation depth is respected, the indexer implements the ledger: two
\* readers of an append-only log, which take each confirmed block in once and in order,
\* whatever crashes, outages, pauses and interleavings there are.
THEOREM ImplementsLedger ==
  ASSUME DepthRespected
  PROVE  Spec => RefinesLedger
<1>1. Init => LedgerInv /\ Ledger!LedgerInit
  BY InitLedger, InitRefines
<1>2. LedgerInv /\ [Next]_vars => LedgerInv'
  BY NextLedger
<1>3. LedgerInv /\ LedgerInv' /\ [Next]_vars => [Ledger!LedgerNext]_Ledger!ledgerVars
  BY StepRefines
<1> QED
  BY <1>1, <1>2, <1>3, PTL DEF Spec, RefinesLedger, Ledger!LedgerSpec

\* While the confirmation depth is respected, the token rows a factory checkpoint covers
\* are those of the canonical chain, at every moment, less those given up on.
THEOREM LaunchesStayExact ==
  ASSUME DepthRespected
  PROVE  Spec => [](LaunchesExact /\ VouchedLaunchesExact)
<1>1. Init => LedgerInv
  BY InitLedger
<1>2. LedgerInv /\ [Next]_vars => LedgerInv'
  BY NextLedger
<1>3. LedgerInv => LaunchesExact /\ VouchedLaunchesExact
  <2> SUFFICES ASSUME LedgerInv PROVE LaunchesExact
    BY DEF VouchedLaunchesExact
  <2>1. \A t \in Tokens : tokenBlock[t] # 0 => t \in chain[tokenBlock[t]].launches
    BY DEF LedgerInv, RowsCanonical
  <2>2. LaunchesTaken(StartBlock + 1, cpBlock["factory"])
    BY DEF LedgerInv, Vouches, Streams
  <2>3. \A h \in StartBlock + 1 .. cpBlock["factory"] : h # 0
    BY LedgerTypes
  <2> QED
    BY <2>1, <2>2, <2>3 DEF LaunchesExact, LaunchesTaken
<1> QED
  BY <1>1, <1>2, <1>3, PTL DEF Spec

\* While the confirmation depth is respected, no stored trade is one the chain does not
\* have (insertTrades, curve.ts; reorg.ts).
THEOREM NoPhantomTrades ==
  ASSUME DepthRespected
  PROVE  Spec => []VouchedTradesCanonical
<1>1. Init => LedgerInv
  BY InitLedger
<1>2. LedgerInv /\ [Next]_vars => LedgerInv'
  BY NextLedger
<1>3. LedgerInv => VouchedTradesCanonical
  <2> SUFFICES ASSUME LedgerInv, NEW x \in Trades, tradeBlock[x] \in 1..cpBlock["curves"]
               PROVE  x \in chain[tradeBlock[x]].trades
    BY DEF VouchedTradesCanonical
  <2>1. tradeBlock[x] # 0
    BY LedgerTypes DEF Streams
  <2> QED
    BY <2>1 DEF LedgerInv, RowsCanonical
<1> QED
  BY <1>1, <1>2, <1>3, PTL DEF Spec

\* While the confirmation depth is respected and no read of prepareLaunch fails, no trade
\* at or below the curve checkpoint is missing whose token has a row.  Where reads fail
\* this is false: a start-up may pass over the trades of a token recorded later.
THEOREM NoTradeIsLost ==
  ASSUME DepthRespected, ReadsMayFail = FALSE
  PROVE  Spec => []CascadeBringsTradesBack
<1>1. Init => LedgerInv /\ GivesUpOnNothing
  BY InitLedger DEF Init, GivesUpOnNothing
<1>2. LedgerInv /\ GivesUpOnNothing /\ [Next]_vars => LedgerInv' /\ GivesUpOnNothing'
  BY NextLedger, NextGivesUpOnNothing
<1>3. LedgerInv /\ GivesUpOnNothing => CascadeBringsTradesBack
  <2> SUFFICES ASSUME LedgerInv, GivesUpOnNothing,
                      NEW h \in StartBlock + 1 .. cpBlock["curves"], NEW x \in chain[h].trades,
                      tokenBlock[TokenOf[x]] # 0
               PROVE  tradeBlock[x] # 0
    BY DEF CascadeBringsTradesBack
  <2>1. TradesKept(StartBlock + 1, cpBlock["curves"]) /\ skipped = {}
    BY DEF LedgerInv, Vouches, GivesUpOnNothing
  <2>2. h # 0
    BY LedgerTypes DEF Streams
  <2> QED
    BY <2>1, <2>2 DEF TradesKept
<1> QED
  BY <1>1, <1>2, <1>3, PTL DEF Spec

\* While the confirmation depth is respected, but whatever reads fail: only the trades of
\* a token that was once given up on may be missing below the curve checkpoint.
THEOREM OnlyGivenUpTradesAreLost ==
  ASSUME DepthRespected
  PROVE  Spec => []TradesKept(StartBlock + 1, cpBlock["curves"])
<1>1. Init => LedgerInv
  BY InitLedger
<1>2. LedgerInv /\ [Next]_vars => LedgerInv'
  BY NextLedger
<1>3. LedgerInv => TradesKept(StartBlock + 1, cpBlock["curves"])
  BY DEF LedgerInv, Vouches
<1> QED
  BY <1>1, <1>2, <1>3, PTL DEF Spec

\* While the confirmation depth is respected, a token's aggregate counts its stored trades
\* as soon as the curve checkpoint has passed them all: a replay neither inflates it nor
\* leaves it stale, wherever the process died (refreshTokenStatsBatch, curve.ts).
THEOREM StatsStayFresh ==
  ASSUME DepthRespected
  PROVE  Spec => []StatsFresh
<1>1. Init => LedgerInv
  BY InitLedger
<1>2. LedgerInv /\ [Next]_vars => LedgerInv'
  BY NextLedger
<1>3. LedgerInv => StatsFresh
  <2> SUFFICES ASSUME LedgerInv, NEW t \in Tokens,
                      \A x \in TradesOf(t, tradeBlock) : tradeBlock[x] <= cpBlock["curves"]
               PROVE  tradeCount[t] = Cardinality(TradesOf(t, tradeBlock))
    BY DEF StatsFresh
  <2>1. \/ tradeCount[t] = Cardinality(TradesOf(t, tradeBlock))
        \/ \E x \in TradesOf(t, tradeBlock) : tradeBlock[x] > cpBlock["curves"]
    BY DEF LedgerInv, Vouches, CountedTo
  <2>2. \A x \in TradesOf(t, tradeBlock) : ~(tradeBlock[x] > cpBlock["curves"])
    BY LedgerTypes DEF TradesOf, Streams
  <2> QED
    BY <2>1, <2>2
<1> QED
  BY <1>1, <1>2, <1>3, PTL DEF Spec

-----------------------------------------------------------------------------
(* What holds of every reorganisation, however deep and whenever it comes, *)
(* as long as no endpoint answers from a fork of its own: a stream rolls   *)
(* back only for a hash that is no longer canonical.                       *)

\* The block a reorganisation starts from: those below stay, those above are new.
LEMMA Fork ==
  ASSUME ChainTypeOK, Reorg
  PROVE  /\ Height' = Height /\ reorgs' = reorgs + 1
         /\ \E first \in 1..Height :
              /\ Height - first < ReorgDepth
              /\ \A h \in 1..Height : h < first => chain'[h] = chain[h]
              /\ \A h \in 1..Height : h >= first => Hash(h)' = reorgs + 2
<1> USE DEF ChainTypeOK, Height
<1>1. PICK first \in 1..Len(chain) :
        /\ Len(chain) - first < ReorgDepth
        /\ \E new \in [first..Len(chain) -> Contents] :
             chain' = [h \in 1..Len(chain) |->
                         IF h < first THEN chain[h]
                         ELSE [hash |-> reorgs + 2, launches |-> new[h].launches,
                               trades |-> new[h].trades]]
  BY DEF Reorg
<1>2. PICK new \in [first..Len(chain) -> Contents] :
        chain' = [h \in 1..Len(chain) |->
                    IF h < first THEN chain[h]
                    ELSE [hash |-> reorgs + 2, launches |-> new[h].launches,
                          trades |-> new[h].trades]]
  BY <1>1
<1>3. Len(chain') = Len(chain)
  BY ReorgKeeps
<1>4. \A h \in 1..Len(chain) : h < first => chain'[h] = chain[h]
  BY <1>2
<1>5. \A h \in 1..Len(chain) : h >= first => chain'[h].hash = reorgs + 2
  BY <1>2
<1>6. reorgs' = reorgs + 1
  BY DEF Reorg
<1> QED
  BY <1>1, <1>3, <1>4, <1>5, <1>6 DEF Hash

\* Every block was mined on the first fork or on one of the reorganisations so far.
HashesKnown == \A h \in 1..Height : Hash(h) \in 1..(reorgs + 1)

\* No block gets back a hash that a stream may have recorded before.
LEMMA HashesNew ==
  ASSUME ChainTypeOK, HashesKnown, ChainGrows \/ ChainReorganises
  PROVE  /\ HashesKnown' /\ Height' \in Nat /\ Height' >= Height
         /\ reorgs' \in Nat /\ reorgs' >= reorgs
         /\ \A h \in 1..Height : \A hash \in 0..(reorgs + 1) :
              hash # Hash(h) => hash # chain'[h].hash
<1> USE ChainAssumption
<1>0. Height \in Nat /\ reorgs \in Nat
  BY DEF ChainTypeOK, Height
<1>1. CASE ChainGrows
  <2>1. /\ Height' = Height + 1 /\ reorgs' = reorgs
        /\ \A h \in 1..Height : chain'[h] = chain[h]
    BY <1>1, MineKeeps DEF ChainGrows, Mine
  <2>2. chain'[Height + 1].hash = reorgs + 1
    <3>1. PICK c \in Contents : chain' = Append(chain, Mined(c))
      BY <1>1 DEF ChainGrows, Mine
    <3>2. chain'[Height + 1] = Mined(c)
      BY <3>1 DEF ChainTypeOK, Height
    <3> QED
      BY <3>2 DEF Mined
  <2>3. \A h \in 1..Height' : h \in 1..Height \/ h = Height + 1
    BY <1>0, <2>1
  <2>4. HashesKnown'
    BY <1>0, <2>1, <2>2, <2>3 DEF HashesKnown, Hash
  <2> QED
    BY <1>0, <2>1, <2>4 DEF Hash
<1>2. CASE ChainReorganises
  <2>1. /\ Height' = Height /\ reorgs' = reorgs + 1
        /\ \E first \in 1..Height :
             /\ \A h \in 1..Height : h < first => chain'[h] = chain[h]
             /\ \A h \in 1..Height : h >= first => Hash(h)' = reorgs + 2
    BY <1>2, Fork DEF ChainReorganises
  <2>2. \A h \in 1..Height : chain'[h].hash = Hash(h) \/ chain'[h].hash = reorgs + 2
    BY <1>0, <2>1 DEF Hash
  <2>3. HashesKnown'
    BY <1>0, <2>1, <2>2 DEF HashesKnown, Hash
  <2> QED
    BY <1>0, <2>1, <2>2, <2>3
<1> QED
  BY <1>1, <1>2

\* What a stream's checkpoint and its tick know of the chain: recorded hashes are of
\* blocks that exist, and a verdict against one is final.
Judged(s) ==
  /\ cpHash[s] <= reorgs + 1 /\ stamp[s] <= reorgs + 1
  /\ cpHash[s] # NoHash => cpBlock[s] \in 1..Height
  /\ pc[s] = "verify" => at[s] \in 1..Height /\ stamp[s] # NoHash
  /\ pc[s] \in {"delete", "rewind"} =>
       at[s] \in 1..Height /\ stamp[s] # NoHash /\ stamp[s] # Hash(at[s])
  /\ pc[s] \in Windowed => top[s] \in 1..Height
  /\ pc[s] = "advance" =>
       \/ cpBlock[s] <= top[s]
       \/ /\ s = "curves"
          /\ cpHash[s] = NoHash

OrphanInv == TypeInv /\ HashesKnown /\ \A s \in Streams : Judged(s)

\* The types these proofs need, in one place.
LEMMA OrphanTypes ==
  ASSUME OrphanInv
  PROVE  /\ ChainTypeOK /\ Height \in Nat /\ reorgs \in Nat
         /\ cpBlock \in [Streams -> Nat] /\ cpHash \in [Streams -> Nat]
         /\ pc \in [Streams -> Labels] /\ at \in [Streams -> Nat]
         /\ top \in [Streams -> Nat] /\ stamp \in [Streams -> Nat]
BY DEF OrphanInv, TypeInv, TypeOK, ChainTypeOK, CheckpointTypeOK, TickTypeOK, Height

LEMMA InitOrphan == Init => OrphanInv
BY InitType, ChainAssumption
   DEF OrphanInv, Init, CheckpointInit, ChainInit, HashesKnown, Judged, Windowed, NoHash, Height

LEMMA ChainStepJudged ==
  ASSUME OrphanInv, ChainGrows \/ ChainReorganises
  PROVE  HashesKnown' /\ \A s \in Streams : Judged(s)'
<1>1. /\ HashesKnown' /\ Height' \in Nat /\ Height' >= Height
      /\ reorgs' \in Nat /\ reorgs' >= reorgs
      /\ \A h \in 1..Height : \A hash \in 0..(reorgs + 1) :
           hash # Hash(h) => hash # chain'[h].hash
  BY HashesNew, OrphanTypes DEF OrphanInv
<1>2. UNCHANGED <<cpBlock, cpHash, pc, at, top, stamp>>
  BY DEF ChainGrows, ChainReorganises, indexerVars, checkpointVars, tickVars
<1>3. ASSUME NEW s \in Streams PROVE Judged(s)'
  <2>1. Judged(s)
    BY DEF OrphanInv
  <2>2. cpHash[s] \in 0..(reorgs + 1) /\ stamp[s] \in 0..(reorgs + 1) /\ Height \in Nat
    BY <2>1, OrphanTypes DEF Judged
  <2>3. \A h \in 1..Height : h \in 1..Height'
    BY <1>1, <2>2
  <2>4. pc[s] \in {"delete", "rewind"} => stamp[s] # chain'[at[s]].hash
    BY <1>1, <2>1, <2>2 DEF Judged
  <2> QED
    BY <1>1, <1>2, <2>1, <2>2, <2>3, <2>4, OrphanTypes DEF Judged, Hash
<1> QED
  BY <1>1, <1>3

\* The steps that leave the checkpoints as they are.
LEMMA LookingJudged ==
  ASSUME OrphanInv, MaxMisreads = 0, NEW s \in Streams,
         \/ BeginTick(s) \/ Verify(s) \/ VerifyFails(s) \/ ReadHead(s)
         \/ s = "curves" /\ ReadCeiling
         \/ FetchLogs(s) \/ ReadStamp(s) \/ SyncPhases(s) \/ AdvanceFind(s)
         \/ s = "factory" /\ (RecordLaunches \/ DeleteTokensAbove \/ CascadeFind)
         \/ s = "curves" /\ (MatchTrades \/ InsertTrades \/ InsertRejected \/ RefreshStats)
         \/ s = "curves" /\ DeleteTradesAbove
         \/ Resolve(s) \/ Abandon(s) \/ ProcessFails(s)
  PROVE  Judged(s)'
<1>1. UNCHANGED <<chain, reorgs, cpBlock, cpHash>>
  BY DEF BeginTick, Verify, VerifyFails, ReadHead, ReadCeiling, FetchLogs, ReadStamp,
         SyncPhases, AdvanceFind, RecordLaunches, DeleteTokensAbove, CascadeFind,
         MatchTrades, InsertTrades, InsertRejected, RefreshStats, DeleteTradesAbove,
         Resolve, Abandon, ProcessFails, checkpointVars, chainVars, RecordFailedBlock,
         ResolveFailedBlocksThrough
<1>2. Height' = Height /\ \A h : Hash(h)' = Hash(h)
  BY <1>1 DEF Height, Hash
<1>3. Judged(s) /\ cpHash[s] \in Nat /\ cpBlock[s] \in Nat
  BY OrphanTypes DEF OrphanInv
<1>4. misreads >= MaxMisreads
  BY IndexerAssumption DEF OrphanInv, TypeInv, TypeOK, AuxTypeOK
<1> USE OrphanTypes DEF GoTo
<1>5. CASE Return(s)
  BY <1>1, <1>2, <1>3, <1>5 DEF Return, Judged, Windowed, NoHash
<1>6. CASE BeginTick(s)
  BY <1>1, <1>2, <1>3, <1>6 DEF BeginTick, Judged, Windowed, NoHash
<1>7. CASE Verify(s)
  <2>1. \/ /\ Hash(at[s]) # stamp[s]
           /\ pc' = [pc EXCEPT ![s] = "delete"] /\ stamp' = stamp
        \/ /\ pc' = [pc EXCEPT ![s] = "head"] /\ stamp' = [stamp EXCEPT ![s] = NoHash]
    BY <1>4, <1>7, IndexerAssumption DEF Verify, OrphanInv, TypeInv, TypeOK, AuxTypeOK
  <2>2. pc[s] = "verify" /\ at' = at
    BY <1>7 DEF Verify
  <2> QED
    BY <1>1, <1>2, <1>3, <2>1, <2>2 DEF Judged, Windowed, NoHash
<1>8. CASE VerifyFails(s)
  BY <1>1, <1>2, <1>3, <1>8 DEF VerifyFails, Judged, Windowed, NoHash
<1>9. CASE ReadHead(s) /\ ~Return(s)
  BY <1>1, <1>2, <1>3, <1>9, IndexerAssumption
     DEF ReadHead, SafeHead, NoBlock, Judged, Windowed
<1>10. CASE s = "curves" /\ ReadCeiling /\ ~Return(s)
  BY <1>1, <1>2, <1>3, <1>10
     DEF ReadCeiling, Ceiling, Judged, Windowed, OrphanInv, TypeInv, Readable, Streams
<1>11. CASE FetchLogs(s)
  <2>1. top[s] \in 1..Height /\ at[s] \in Nat
    BY <1>11 DEF FetchLogs, OrphanInv, TypeInv, Readable
  <2>2. PICK reached \in (at[s] + 1)..top[s] : top' = [top EXCEPT ![s] = reached]
    BY <1>11 DEF FetchLogs
  <2>3. reached \in 1..Height
    BY <2>1, <2>2
  <2> QED
    BY <1>1, <1>2, <1>3, <1>11, <2>2, <2>3 DEF FetchLogs, Judged, Windowed
<1>12. CASE ReadStamp(s)
  <2>1. top[s] \in 1..Height
    BY <1>12 DEF ReadStamp, OrphanInv, TypeInv, Readable
  <2>2. stamp' = [stamp EXCEPT ![s] = Hash(top[s])]
    BY <1>4, <1>12, IndexerAssumption DEF ReadStamp, OrphanInv, TypeInv, TypeOK, AuxTypeOK
  <2>3. Hash(top[s]) <= reorgs + 1
    BY <2>1 DEF OrphanInv, HashesKnown
  <2> QED
    BY <1>1, <1>2, <1>3, <1>12, <2>1, <2>2, <2>3 DEF ReadStamp, Judged, Windowed
<1>13. CASE SyncPhases(s)
  BY <1>1, <1>2, <1>3, <1>13 DEF SyncPhases, Judged, Windowed
<1>14. CASE AdvanceFind(s) /\ ~Return(s)
  BY <1>1, <1>2, <1>3, <1>14 DEF AdvanceFind, MayAdvance, Judged, Windowed
<1>15. CASE s = "factory" /\ (RecordLaunches \/ DeleteTokensAbove \/ CascadeFind) /\ ~Return(s)
  BY <1>1, <1>2, <1>3, <1>15
     DEF RecordLaunches, DeleteTokensAbove, CascadeFind, Judged, Windowed
<1>16. CASE s = "curves" /\ (MatchTrades \/ InsertTrades \/ RefreshStats \/ DeleteTradesAbove)
  BY <1>1, <1>2, <1>3, <1>16
     DEF MatchTrades, InsertTrades, RefreshStats, DeleteTradesAbove, Judged, Windowed
<1> QED
  BY <1>5, <1>6, <1>7, <1>8, <1>9, <1>10, <1>11, <1>12, <1>13, <1>14, <1>15, <1>16
     DEF InsertRejected, Resolve, Abandon, ProcessFails

\* The steps that move a checkpoint or start a new process.
LEMMA MovingJudged ==
  ASSUME OrphanInv, NEW s \in Streams,
         Advance(s) \/ Rewind(s) \/ (s = "factory" /\ CascadeWrite) \/ Restart
  PROVE  \A z \in Streams : Judged(z)'
<1>1. UNCHANGED <<chain, reorgs>> /\ \A z \in Streams : Judged(z)
  BY DEF Advance, Rewind, CascadeWrite, Restart, chainVars, OrphanInv
<1>2. Height' = Height /\ \A h : Hash(h)' = Hash(h)
  BY <1>1 DEF Height, Hash
<1> USE OrphanTypes DEF Judged, Windowed, NoHash
<1>3. CASE Advance(s)
  BY <1>1, <1>2, <1>3 DEF Advance, AdvanceTo, GoTo
<1>4. CASE Rewind(s)
  BY <1>1, <1>2, <1>4 DEF Rewind, RollbackTo, GoTo, Return
<1>5. CASE s = "factory" /\ CascadeWrite
  BY <1>1, <1>2, <1>5 DEF CascadeWrite, RollbackTo, Return, Streams
<1>6. CASE Restart
  <2>1. /\ pc' = [z \in Streams |-> "idle"] /\ stamp' = [z \in Streams |-> 0]
        /\ \/ UNCHANGED <<cpBlock, cpHash>>
           \/ \E b : /\ cpBlock' = [cpBlock EXCEPT !["curves"] = b]
                     /\ cpHash' = [cpHash EXCEPT !["curves"] = 0]
    BY <1>6 DEF Restart, FastForward, checkpointVars
  <2> QED
    BY <1>1, <1>2, <2>1
<1> QED
  BY <1>3, <1>4, <1>5, <1>6

\* A tick's step leaves the other stream's tick alone, and all but the cascade its checkpoint.
LEMMA OthersJudged ==
  ASSUME OrphanInv, NEW s \in Streams, NEW z \in Streams \ {s},
         \/ BeginTick(s) \/ Verify(s) \/ VerifyFails(s) \/ ReadHead(s)
         \/ s = "curves" /\ ReadCeiling
         \/ FetchLogs(s) \/ ReadStamp(s) \/ SyncPhases(s) \/ AdvanceFind(s)
         \/ s = "factory" /\ (RecordLaunches \/ DeleteTokensAbove \/ CascadeFind)
         \/ s = "curves" /\ (MatchTrades \/ InsertTrades \/ InsertRejected \/ RefreshStats)
         \/ s = "curves" /\ DeleteTradesAbove
         \/ Resolve(s) \/ Abandon(s) \/ ProcessFails(s)
  PROVE  Judged(z)'
<1>1. UNCHANGED <<chain, reorgs, cpBlock, cpHash>>
  BY DEF BeginTick, Verify, VerifyFails, ReadHead, ReadCeiling, FetchLogs, ReadStamp,
         SyncPhases, AdvanceFind, RecordLaunches, DeleteTokensAbove, CascadeFind,
         MatchTrades, InsertTrades, InsertRejected, RefreshStats, DeleteTradesAbove,
         Resolve, Abandon, ProcessFails, checkpointVars, chainVars, RecordFailedBlock,
         ResolveFailedBlocksThrough
<1>2. pc'[z] = pc[z] /\ at'[z] = at[z] /\ top'[z] = top[z] /\ stamp'[z] = stamp[z]
  BY OrphanTypes
     DEF BeginTick, Verify, VerifyFails, ReadHead, ReadCeiling, FetchLogs, ReadStamp,
         SyncPhases, AdvanceFind, RecordLaunches, DeleteTokensAbove, CascadeFind,
         MatchTrades, InsertTrades, InsertRejected, RefreshStats, DeleteTradesAbove,
         Resolve, Abandon, ProcessFails, GoTo, Return
<1> QED
  BY <1>1, <1>2 DEF OrphanInv, Judged, Hash, Height

LEMMA NextOrphan ==
  ASSUME MaxMisreads = 0, OrphanInv, [Next]_vars
  PROVE  OrphanInv'
<1>1. TypeInv'
  BY NextType DEF OrphanInv
<1>2. CASE ChainGrows \/ ChainReorganises
  BY <1>1, <1>2, ChainStepJudged DEF OrphanInv
<1>3. CASE UNCHANGED <<chain, reorgs, cpBlock, cpHash, pc, at, top, stamp>>
  BY <1>1, <1>3 DEF OrphanInv, HashesKnown, Judged, Hash, Height
<1>4. ASSUME NEW s \in Streams,
             Advance(s) \/ Rewind(s) \/ (s = "factory" /\ CascadeWrite) \/ Restart
      PROVE  OrphanInv'
  <2>1. UNCHANGED <<chain, reorgs>>
    BY <1>4 DEF Advance, Rewind, CascadeWrite, Restart, chainVars
  <2>2. HashesKnown'
    BY <2>1 DEF OrphanInv, HashesKnown, Hash, Height
  <2> QED
    BY <1>1, <1>4, <2>2, MovingJudged DEF OrphanInv
<1>5. ASSUME NEW s \in Streams,
         \/ BeginTick(s) \/ Verify(s) \/ VerifyFails(s) \/ ReadHead(s)
         \/ s = "curves" /\ ReadCeiling
         \/ FetchLogs(s) \/ ReadStamp(s) \/ SyncPhases(s) \/ AdvanceFind(s)
         \/ s = "factory" /\ (RecordLaunches \/ DeleteTokensAbove \/ CascadeFind)
         \/ s = "curves" /\ (MatchTrades \/ InsertTrades \/ InsertRejected \/ RefreshStats)
         \/ s = "curves" /\ DeleteTradesAbove
         \/ Resolve(s) \/ Abandon(s) \/ ProcessFails(s)
      PROVE  OrphanInv'
  <2>1. UNCHANGED <<chain, reorgs>>
    BY <1>5 DEF BeginTick, Verify, VerifyFails, ReadHead, ReadCeiling, FetchLogs, ReadStamp,
         SyncPhases, AdvanceFind, RecordLaunches, DeleteTokensAbove, CascadeFind,
         MatchTrades, InsertTrades, InsertRejected, RefreshStats, DeleteTradesAbove,
         Resolve, Abandon, ProcessFails, chainVars
  <2>2. HashesKnown'
    BY <2>1 DEF OrphanInv, HashesKnown, Hash, Height
  <2>3. Judged(s)'
    BY <1>5, LookingJudged
  <2>4. \A z \in Streams \ {s} : Judged(z)'
    BY <1>5, OthersJudged
  <2> QED
    BY <1>1, <2>2, <2>3, <2>4 DEF OrphanInv
<1>6. CASE UNCHANGED vars \/ (\E s \in Streams : Pause(s)) \/ CalmDown
  BY <1>3, <1>6 DEF vars, chainVars, checkpointVars, tickVars, Pause, SetPaused, CalmDown
<1> QED
  BY <1>2, <1>4, <1>5, <1>6 DEF Next, FactoryStep, CurveStep, Fault, Step, Streams

\* Only these steps move a checkpoint down.
LEMMA OrphansStep ==
  ASSUME OrphanInv, [Next]_vars, NEW s \in Streams, cpBlock'[s] < cpBlock[s]
  PROVE  \/ pc[s] = "rewind" /\ stamp[s] # NoHash /\ stamp[s] # Hash(at[s])
         \/ /\ s = "curves"
            /\ \/ pc["factory"] = "cascade_write"
               \/ pc["curves"] = "advance" /\ cpHash["curves"] = NoHash
<1> USE OrphanTypes
<1>1. Judged(s)
  BY DEF OrphanInv
<1>2. cpBlock' # cpBlock
  OBVIOUS
<1>3. \/ \E z \in Streams : Advance(z) \/ Rewind(z)
      \/ CascadeWrite \/ Restart
  BY <1>2 DEF Next, FactoryStep, CurveStep, Fault, Step, Streams, vars, chainVars, indexerVars,
     ChainGrows, ChainReorganises, CalmDown, Pause, SetPaused, checkpointVars,
     BeginTick, Verify, VerifyFails, ReadHead, ReadCeiling, FetchLogs, ReadStamp,
     SyncPhases, AdvanceFind, RecordLaunches, DeleteTokensAbove, CascadeFind,
     MatchTrades, InsertTrades, InsertRejected, RefreshStats, DeleteTradesAbove,
     Resolve, Abandon, ProcessFails, RecordFailedBlock, ResolveFailedBlocksThrough
<1>4. ASSUME NEW z \in Streams, Advance(z)
      PROVE  s = "curves" /\ pc["curves"] = "advance" /\ cpHash["curves"] = NoHash
  BY <1>1, <1>4 DEF Advance, AdvanceTo, Judged
<1>5. ASSUME NEW z \in Streams, Rewind(z)
      PROVE  pc[s] = "rewind" /\ stamp[s] # NoHash /\ stamp[s] # Hash(at[s])
  BY <1>1, <1>5 DEF Rewind, RollbackTo, Judged
<1>6. CASE CascadeWrite
  BY <1>6 DEF CascadeWrite, RollbackTo, Streams
<1>7. CASE Restart
  <2>1. PICK earliest \in LaunchBlocks : FastForward("curves", earliest - 1)
    BY <1>2, <1>7 DEF Restart, checkpointVars
  <2>2. earliest - 1 \in Int
    BY DEF LaunchBlocks, OrphanInv, TypeInv, TypeOK, DbTypeOK
  <2> QED
    BY <2>1, <2>2 DEF FastForward, checkpointVars
<1> QED
  BY <1>3, <1>4, <1>5, <1>6, <1>7

\* Whatever the depth of reorganisations, the faults, crashes and interleavings: no stream
\* gives up blocks but for a recorded hash that is not canonical when it does, the curve
\* stream's cascade and its own repair of one apart (handleReorg).
THEOREM RollbacksHaveCause ==
  MaxMisreads = 0 /\ Spec => RewindsOnlyOrphans
<1> SUFFICES ASSUME MaxMisreads = 0 PROVE Spec => RewindsOnlyOrphans
  OBVIOUS
<1>1. Init => OrphanInv
  BY InitOrphan
<1>2. OrphanInv /\ [Next]_vars => OrphanInv'
  BY NextOrphan
<1>3. OrphanInv /\ [Next]_vars =>
        [\A s \in Streams : cpBlock'[s] < cpBlock[s] =>
           \/ pc[s] = "rewind" /\ stamp[s] # NoHash /\ stamp[s] # Hash(at[s])
           \/ /\ s = "curves"
              /\ \/ pc["factory"] = "cascade_write"
                 \/ pc["curves"] = "advance" /\ cpHash["curves"] = NoHash]_vars
  BY OrphansStep
<1> QED
  BY <1>1, <1>2, <1>3, PTL DEF Spec, RewindsOnlyOrphans

-----------------------------------------------------------------------------
(* What holds of deep reorganisations that come between two ticks, while   *)
(* sources, database and processors answer: whenever the hash recorded by  *)
(* the factory stream is canonical, its token rows are exact, as long as a *)
(* reorganisation goes no deeper than what the stream keeps between itself *)
(* and the head and what it then rewinds.                                  *)

QuietChain == QuietReorgs /\ ~FaultsHappen /\ ReorgDepth <= 2 * ConfirmationDepth

NoRowAbove(b) == \A t \in Tokens : tokenBlock[t] <= b

\* The rows at or below a block are of this chain, and no launch in between is missing.
SoundTo(b) ==
  /\ \A t \in Tokens : tokenBlock[t] \in 1..b => t \in chain[tokenBlock[t]].launches
  /\ LaunchesTaken(StartBlock + 1, b)

\* Hashes a read of the chain has brought: of a fork so far, or of an endpoint's own.
Known == 1..(reorgs + 1) \union {ForeignHash}

\* What survives any reorganisation: with a recorded hash all that a rewind would keep, and
\* everything if the hash is canonical; without one everything, since the rewind before
\* went back far enough.
Resting ==
  \/ cpHash["factory"] = NoHash /\ cpBlock["factory"] <= StartBlock /\ NoRowAbove(0)
  \/ /\ cpHash["factory"] = NoHash
     /\ cpBlock["factory"] + 2 * ConfirmationDepth <= Height
     /\ SoundTo(cpBlock["factory"])
  \/ /\ cpHash["factory"] \in Known
     /\ 1 <= cpBlock["factory"] /\ cpBlock["factory"] + ConfirmationDepth <= Height
     /\ SoundTo(RollbackTarget(cpBlock["factory"]))
     /\ cpHash["factory"] = Hash(cpBlock["factory"]) => SoundTo(cpBlock["factory"])

BeforeWrites == {"head", "fetch", "stamp", "record"}
AfterWrites == {"phases", "find", "advance"}
AtRest == {"idle", "verify", "delete", "resolve", "cascade", "cascade_write"}

\* How far the factory's tick has got.
FactoryFits ==
  /\ pc["factory"] \in AtRest \union BeforeWrites =>
       Resting /\ NoRowAbove(cpBlock["factory"])
  /\ pc["factory"] \in BeforeWrites => SoundTo(cpBlock["factory"])
  /\ pc["factory"] \in {"verify", "delete"} \union BeforeWrites \union AfterWrites =>
       at["factory"] = cpBlock["factory"]
  /\ pc["factory"] \in {"verify", "delete"} => cpHash["factory"] # NoHash
  /\ pc["factory"] = "verify" => stamp["factory"] = cpHash["factory"]
  /\ pc["factory"] \in {"fetch", "stamp", "record"} \union AfterWrites =>
       /\ cpBlock["factory"] < top["factory"]
       /\ top["factory"] + ConfirmationDepth <= Height
  /\ pc["factory"] \in {"stamp", "record"} => found["factory"] = Window("factory")
  /\ pc["factory"] \in {"record"} \union AfterWrites => stamp["factory"] \in Known
  /\ pc["factory"] \in {"rewind"} \union AfterWrites =>
       NoRowAbove(top["factory"]) /\ SoundTo(top["factory"])
  /\ pc["factory"] \in {"delete", "rewind"} =>
       /\ top["factory"] = RollbackTarget(cpBlock["factory"])
       /\ 1 <= cpBlock["factory"] /\ cpBlock["factory"] + ConfirmationDepth <= Height
  /\ pc["factory"] \notin {"ceiling", "match", "insert", "stats"}

QuietInv ==
  /\ TypeInv /\ calm /\ HashesKnown /\ WellFormed(chain)
  /\ NoRowAbove(Height)
  /\ cpBlock["factory"] <= Height \/ cpBlock["factory"] <= StartBlock
  /\ FactoryFits

\* The types these proofs need, in one place.
LEMMA QuietTypes ==
  ASSUME QuietInv
  PROVE  /\ ChainTypeOK /\ Height \in Nat /\ reorgs \in Nat /\ DOMAIN chain = 1..Height
         /\ reorgs <= MaxReorgs /\ MaxReorgs \in Nat
         /\ \A h \in 1..Height : chain[h].launches \subseteq Tokens
         /\ tokenBlock \in [Tokens -> Nat] /\ StartBlock \in Nat /\ ConfirmationDepth \in Nat
         /\ cpBlock \in [Streams -> Nat] /\ cpHash \in [Streams -> Nat]
         /\ pc \in [Streams -> Labels] /\ at \in [Streams -> Nat]
         /\ top \in [Streams -> Nat] /\ stamp \in [Streams -> Nat]
         /\ DOMAIN found = Streams /\ "factory" \in Streams
         /\ cpBlock["factory"] \in Nat /\ top["factory"] \in Nat /\ at["factory"] \in Nat
<1>1. TypeOK
  BY DEF QuietInv, TypeInv
<1>2. ChainTypeOK /\ Height \in Nat /\ DOMAIN chain = 1..Height
  BY <1>1 DEF TypeOK, ChainTypeOK, Height
<1>3. \A h \in 1..Height : chain[h] \in Block
  BY <1>2 DEF ChainTypeOK, Height
<1>4. \A h \in 1..Height : chain[h].launches \subseteq Tokens
  BY <1>3 DEF Block
<1>5. reorgs \in Nat /\ reorgs <= MaxReorgs
  BY <1>2, ChainAssumption DEF ChainTypeOK
<1>6. "factory" \in Streams
  BY DEF Streams
<1> QED
  BY <1>1, <1>2, <1>4, <1>5, <1>6, ChainAssumption, CheckpointAssumption, IndexerAssumption
     DEF TypeOK, DbTypeOK, TickTypeOK, CheckpointTypeOK

\* The numbers among them, which the arithmetic of every step uses.
LEMMA QuietNumbers ==
  ASSUME QuietInv
  PROVE  /\ Height \in Nat /\ reorgs \in Nat /\ reorgs <= MaxReorgs /\ MaxReorgs \in Nat
         /\ StartBlock \in Nat /\ ConfirmationDepth \in Nat
         /\ cpBlock["factory"] \in Nat /\ top["factory"] \in Nat /\ at["factory"] \in Nat
         /\ \A t \in Tokens : tokenBlock[t] \in Nat
BY QuietTypes

\* What is sound to a block is sound to those below.
LEMMA SoundBelow ==
  ASSUME QuietInv, NEW b \in Nat, SoundTo(b), NEW c \in Nat, c <= b
  PROVE  SoundTo(c)
<1>1. \A h \in StartBlock + 1 .. c : h \in StartBlock + 1 .. b
  BY QuietTypes
<1>2. \A h : h \in 1..c => h \in 1..b
  OBVIOUS
<1> QED
  BY <1>1, <1>2 DEF SoundTo, LaunchesTaken

\* Soundness up to a block depends on the blocks up to there.
LEMMA SoundStays ==
  ASSUME QuietInv, NEW g \in Nat, \A h \in 1..g : chain'[h] = chain[h],
         UNCHANGED <<tokenBlock, skipped>>,
         NEW b \in Nat, SoundTo(b), b <= g \/ b <= StartBlock,
         \A t \in Tokens : tokenBlock[t] \in 1..b => tokenBlock[t] <= g
  PROVE  SoundTo(b)'
<1>1. \A t \in Tokens : tokenBlock[t] \in 1..b => chain'[tokenBlock[t]] = chain[tokenBlock[t]]
  BY QuietTypes
<1>2. \A h \in StartBlock + 1 .. b : chain'[h] = chain[h]
  BY QuietTypes
<1> QED
  BY <1>1, <1>2 DEF SoundTo, LaunchesTaken

LEMMA InitQuiet == QuietChain /\ Init => QuietInv
<1> SUFFICES ASSUME QuietChain, Init PROVE QuietInv
  OBVIOUS
<1>1. TypeInv /\ HashesKnown
  BY InitType, InitOrphan DEF OrphanInv
<1>2. WellFormed(chain) /\ Height = 0
  BY DEF Init, ChainInit, WellFormed, Height
<1>3. \A t \in Tokens : tokenBlock[t] = 0
  BY DEF Init
<1>4. "factory" \in Streams /\ StartBlock \in Nat
  BY CheckpointAssumption DEF Streams
<1>5. /\ pc["factory"] = "idle" /\ cpBlock["factory"] = StartBlock
      /\ cpHash["factory"] = NoHash
  BY <1>4 DEF Init, CheckpointInit, NoHash
<1>6. calm
  BY IndexerAssumption DEF Init, QuietChain
<1> QED
  BY <1>1, <1>2, <1>3, <1>4, <1>5, <1>6
     DEF QuietInv, FactoryFits, Resting, NoRowAbove, BeforeWrites, AfterWrites, AtRest

\* A growing chain leaves what is below as it is.
LEMMA GrowthQuiet ==
  ASSUME QuietInv, TypeInv', ChainGrows
  PROVE  QuietInv'
<1> USE QuietNumbers
<1>1. /\ Height' = Height + 1 /\ reorgs' = reorgs
      /\ \A h \in 1..Height : chain'[h] = chain[h]
  BY QuietTypes, MineKeeps DEF ChainGrows, Mine
<1>2. HashesKnown'
  BY QuietTypes, HashesNew DEF QuietInv
<1>3. WellFormed(chain)'
  BY DEF ChainGrows, Mine
<1>4. UNCHANGED <<cpBlock, cpHash, tokenBlock, pc, at, top, stamp, found, calm, skipped>>
  BY DEF ChainGrows, indexerVars, checkpointVars, dbVars, tickVars, auxVars
<1>5. \A b \in Nat : SoundTo(b) /\ (b <= Height \/ b <= StartBlock) => SoundTo(b)'
  <2> SUFFICES ASSUME NEW b \in Nat, SoundTo(b), b <= Height \/ b <= StartBlock
               PROVE  SoundTo(b)'
    OBVIOUS
  <2>1. \A t \in Tokens : tokenBlock[t] <= Height
    BY DEF QuietInv, NoRowAbove
  <2> QED
    BY <1>1, <1>4, <2>1, SoundStays
<1>6. PICK c, r, b : c = cpBlock["factory"] /\ r = RollbackTarget(c) /\ b = top["factory"]
  OBVIOUS
<1>7. c \in Nat /\ r \in Nat /\ b \in Nat /\ r <= c
  BY <1>6 DEF RollbackTarget
<1>8. /\ SoundTo(cpBlock["factory"])' <=> SoundTo(c)'
      /\ SoundTo(RollbackTarget(cpBlock["factory"]))' <=> SoundTo(r)'
      /\ SoundTo(top["factory"])' <=> SoundTo(b)'
  BY <1>4, <1>6 DEF SoundTo, LaunchesTaken, RollbackTarget
<1>9. c <= Height \/ c <= StartBlock
  BY <1>6 DEF QuietInv
<1>10. /\ SoundTo(c) => SoundTo(c)'
       /\ SoundTo(r) => SoundTo(r)'
       /\ SoundTo(b) /\ b <= Height => SoundTo(b)'
  BY <1>5, <1>7, <1>9
<1>11. 1 <= c /\ c <= Height => Hash(c)' = Hash(c)
  BY <1>1, <1>7 DEF Hash
<1>12. Hash(cpBlock["factory"])' = Hash(c)'
  BY <1>4, <1>6 DEF Hash
<1>13. Known' = Known
  BY <1>1 DEF Known, ForeignHash
<1>14. ASSUME Resting PROVE Resting'
  <2>1. ASSUME cpHash["factory"] = NoHash, c <= StartBlock, NoRowAbove(0) PROVE Resting'
    BY <1>4, <1>6, <2>1 DEF Resting, NoRowAbove
  <2>2. ASSUME cpHash["factory"] = NoHash, c + 2 * ConfirmationDepth <= Height, SoundTo(c)
        PROVE  Resting'
    <3>1. SoundTo(cpBlock["factory"])'
      BY <1>8, <1>10, <2>2
    <3>2. cpBlock'["factory"] + 2 * ConfirmationDepth <= Height'
      BY <1>1, <1>4, <1>6, <1>7, <2>2
    <3> QED
      BY <1>4, <2>2, <3>1, <3>2 DEF Resting
  <2>3. ASSUME cpHash["factory"] \in Known, 1 <= c, c + ConfirmationDepth <= Height,
               SoundTo(r), cpHash["factory"] = Hash(c) => SoundTo(c)
        PROVE  Resting'
    <3>1. Hash(c)' = Hash(c)
      BY <1>7, <1>11, <2>3
    <3>2. /\ SoundTo(RollbackTarget(cpBlock["factory"]))'
          /\ cpHash["factory"] = Hash(c) => SoundTo(cpBlock["factory"])'
      BY <1>8, <1>10, <2>3
    <3>3. 1 <= cpBlock'["factory"] /\ cpBlock'["factory"] + ConfirmationDepth <= Height'
      BY <1>1, <1>4, <1>6, <1>7, <2>3
    <3> QED
      BY <1>4, <1>12, <1>13, <2>3, <3>1, <3>2, <3>3 DEF Resting
  <2> QED
    BY <1>6, <1>14, <2>1, <2>2, <2>3 DEF Resting
<1>15. b <= Height => Window("factory")' = Window("factory")
  BY <1>1, <1>4, <1>6 DEF Window, LogsIn
<1>16. FactoryFits'
  BY <1>1, <1>4, <1>6, <1>7, <1>8, <1>10, <1>13, <1>14, <1>15
     DEF QuietInv, FactoryFits, NoRowAbove, BeforeWrites, AfterWrites, AtRest
<1> QED
  BY <1>1, <1>2, <1>3, <1>4, <1>16 DEF QuietInv, NoRowAbove

\* A reorganisation meets a factory stream at rest.  It reaches down to no block that
\* another rewind would keep, and its hashes are none that was recorded.
LEMMA ReorgQuiet ==
  ASSUME QuietChain, QuietInv, TypeInv', ChainReorganises
  PROVE  QuietInv'
<1> USE QuietNumbers
<1>1. pc["factory"] = "idle"
  BY QuietTypes DEF ChainReorganises, QuietChain, Idle
<1>2. PICK first \in 1..Height :
        /\ Height - first < ReorgDepth
        /\ \A h \in 1..Height : h < first => chain'[h] = chain[h]
        /\ \A h \in 1..Height : h >= first => Hash(h)' = reorgs + 2
  BY QuietTypes, Fork DEF ChainReorganises
<1>3. Height' = Height /\ reorgs' = reorgs + 1 /\ reorgs < MaxReorgs
  BY QuietTypes, Fork DEF ChainReorganises, Reorg
<1>4. HashesKnown'
  BY QuietTypes, HashesNew DEF QuietInv
<1>5. WellFormed(chain)'
  BY DEF ChainReorganises, Reorg
<1>6. UNCHANGED <<cpBlock, cpHash, tokenBlock, pc, at, top, stamp, found, calm, skipped>>
  BY DEF ChainReorganises, indexerVars, checkpointVars, dbVars, tickVars, auxVars
<1>7. PICK g \in Nat : g = first - 1
  BY <1>2
<1>8. g >= Height - 2 * ConfirmationDepth /\ \A h \in 1..g : chain'[h] = chain[h]
  <2>1. ReorgDepth \in Nat /\ ReorgDepth <= 2 * ConfirmationDepth
    BY ChainAssumption DEF QuietChain
  <2>2. g >= Height - 2 * ConfirmationDepth
    BY <1>2, <1>7, <2>1
  <2>3. \A h \in 1..g : h \in 1..Height /\ h < first
    BY <1>2, <1>7
  <2> QED
    BY <1>2, <2>2, <2>3
<1>9. ASSUME NEW b \in Nat, SoundTo(b), b <= g PROVE SoundTo(b)'
  <2>1. \A t \in Tokens : tokenBlock[t] \in 1..b => tokenBlock[t] <= g
    BY <1>7, <1>9
  <2>2. UNCHANGED <<tokenBlock, skipped>>
    BY <1>6
  <2> QED
    BY <1>7, <1>8, <1>9, <2>1, <2>2, SoundStays
<1>10. PICK c, r : c = cpBlock["factory"] /\ r = RollbackTarget(c)
  OBVIOUS
<1>11. c \in Nat /\ r \in Nat /\ (r + ConfirmationDepth <= c \/ r = 0)
  BY <1>10 DEF RollbackTarget
<1>12. /\ SoundTo(cpBlock["factory"])' <=> SoundTo(c)'
       /\ SoundTo(RollbackTarget(cpBlock["factory"]))' <=> SoundTo(r)'
       /\ Hash(cpBlock["factory"])' = Hash(c)'
  BY <1>6, <1>10 DEF SoundTo, LaunchesTaken, RollbackTarget, Hash
<1>13. Known \subseteq Known' /\ \A hash \in Known : hash # reorgs + 2
  <2>1. Known = 1..(reorgs + 1) \union {MaxReorgs + 2}
    BY DEF Known, ForeignHash
  <2>2. Known' = 1..(reorgs + 2) \union {MaxReorgs + 2}
    <3>1. reorgs' + 1 = reorgs + 2
      BY <1>3
    <3> QED
      BY <3>1 DEF Known, ForeignHash
  <2>3. reorgs + 2 \notin Known
    BY <1>3, <2>1
  <2>4. 1..(reorgs + 1) \subseteq 1..(reorgs + 2)
    OBVIOUS
  <2>5. Known \subseteq Known'
    BY <2>2, <2>4 DEF Known, ForeignHash
  <2> QED
    BY <2>3, <2>5
<1>14. Resting /\ NoRowAbove(cpBlock["factory"])
  BY <1>1 DEF QuietInv, FactoryFits, AtRest
<1>15. ASSUME cpHash["factory"] = NoHash /\ c <= StartBlock /\ NoRowAbove(0)
       PROVE  Resting'
  BY <1>6, <1>10, <1>15 DEF Resting, NoRowAbove
<1>16. ASSUME cpHash["factory"] = NoHash, c + 2 * ConfirmationDepth <= Height, SoundTo(c)
       PROVE  Resting'
  <2>1. c <= g
    BY <1>8, <1>11, <1>16
  <2>2. SoundTo(c)'
    BY <1>9, <1>11, <1>16, <2>1
  <2> QED
    BY <1>3, <1>6, <1>10, <1>12, <1>16, <2>2 DEF Resting
<1>17. ASSUME cpHash["factory"] \in Known, 1 <= c, c + ConfirmationDepth <= Height, SoundTo(r),
              cpHash["factory"] = Hash(c) => SoundTo(c)
       PROVE  Resting'
  <2>1. r <= g
    <3>1. r = 0 \/ r + 2 * ConfirmationDepth <= Height
      BY <1>11, <1>17
    <3> QED
      BY <1>7, <1>8, <1>11, <3>1
  <2>2. SoundTo(r)'
    BY <1>9, <1>11, <1>17, <2>1
  <2>3. ASSUME cpHash["factory"] = Hash(c)' PROVE SoundTo(c)'
    <3>1. c \in 1..Height
      BY <1>11, <1>17
    <3>2. c < first
      BY <1>2, <1>11, <1>13, <1>17, <2>3, <3>1
    <3>3. c <= g /\ c \in 1..g
      BY <1>2, <1>7, <1>11, <3>1, <3>2
    <3>4. Hash(c)' = Hash(c)
      BY <1>8, <3>3 DEF Hash
    <3> QED
      BY <1>9, <1>11, <1>17, <2>3, <3>3, <3>4
  <2> QED
    BY <1>3, <1>6, <1>10, <1>12, <1>13, <1>17, <2>2, <2>3 DEF Resting
<1>18. Resting'
  BY <1>10, <1>14, <1>15, <1>16, <1>17 DEF Resting
<1>19. FactoryFits'
  BY <1>1, <1>6, <1>14, <1>18
     DEF FactoryFits, NoRowAbove, BeforeWrites, AfterWrites, AtRest
<1> QED
  BY <1>3, <1>4, <1>5, <1>6, <1>19 DEF QuietInv, NoRowAbove

factoryPart == <<chain, reorgs, calm, tokenBlock, skipped, cpBlock["factory"], cpHash["factory"],
                 pc["factory"], at["factory"], top["factory"], stamp["factory"],
                 found["factory"]>>

\* What the factory stream owns stays as it is.
LEMMA AloneQuiet ==
  ASSUME QuietInv, TypeInv', UNCHANGED factoryPart
  PROVE  QuietInv'
<1>1. UNCHANGED <<chain, reorgs, calm, tokenBlock, skipped>>
  BY DEF factoryPart
<1>2. /\ cpBlock'["factory"] = cpBlock["factory"] /\ cpHash'["factory"] = cpHash["factory"]
      /\ pc'["factory"] = pc["factory"] /\ at'["factory"] = at["factory"]
      /\ top'["factory"] = top["factory"] /\ stamp'["factory"] = stamp["factory"]
      /\ found'["factory"] = found["factory"]
  BY DEF factoryPart
<1>3. Height' = Height /\ HashesKnown' /\ WellFormed(chain)' /\ Known' = Known
  BY <1>1 DEF QuietInv, Height, HashesKnown, Hash, WellFormed, Known, ForeignHash
<1>4. Resting' <=> Resting
  BY <1>1, <1>2, <1>3 DEF Resting, SoundTo, NoRowAbove, LaunchesTaken, RollbackTarget, Hash
<1>5. Window("factory")' = Window("factory")
  BY <1>1, <1>2 DEF Window, LogsIn
<1>6. FactoryFits'
  BY <1>1, <1>2, <1>3, <1>4, <1>5
     DEF QuietInv, FactoryFits, SoundTo, NoRowAbove, LaunchesTaken, RollbackTarget
<1> QED
  BY <1>1, <1>2, <1>3, <1>6 DEF QuietInv, NoRowAbove

\* The steps of the curve stream and of the operator.
LEMMA CurvesQuiet ==
  ASSUME QuietInv, TypeInv', CurveStep \/ (\E s \in Streams : Pause(s)) \/ CalmDown \/ UNCHANGED vars
  PROVE  QuietInv'
<1>1. calm
  BY DEF QuietInv
<1>2. "curves" # "factory"
  OBVIOUS
<1>3. UNCHANGED factoryPart
  BY <1>1, <1>2, QuietTypes
     DEF factoryPart, CurveStep, Step, Pause, SetPaused, CalmDown, vars, chainVars, checkpointVars,
         dbVars, tickVars, auxVars, BeginTick, Verify, ReadHead, ReadCeiling, FetchLogs, ReadStamp,
         SyncPhases, AdvanceFind, Advance, Resolve, Rewind, MatchTrades, InsertTrades,
         InsertRejected, RefreshStats, DeleteTradesAbove, Return, GoTo, AdvanceTo, RollbackTo,
         RecordFailedBlock, ResolveFailedBlocksThrough
<1> QED
  BY <1>3, AloneQuiet
\* A step that leaves the tables, the chain and the factory checkpoint as they are has only
\* the factory's tick to account for.
LEMMA FrameQuiet ==
  ASSUME QuietInv, UNCHANGED <<chain, reorgs, calm, tokenBlock, skipped>>,
         cpBlock'["factory"] = cpBlock["factory"], cpHash'["factory"] = cpHash["factory"]
  PROVE  /\ Height' = Height /\ HashesKnown' /\ WellFormed(chain)' /\ Known' = Known /\ calm'
         /\ NoRowAbove(Height)'
         /\ (cpBlock["factory"] <= Height \/ cpBlock["factory"] <= StartBlock)'
         /\ Resting' <=> Resting
         /\ NoRowAbove(cpBlock["factory"])' <=> NoRowAbove(cpBlock["factory"])
         /\ SoundTo(cpBlock["factory"])' <=> SoundTo(cpBlock["factory"])
         /\ RollbackTarget(cpBlock["factory"])' = RollbackTarget(cpBlock["factory"])
         /\ top'["factory"] = top["factory"] =>
              /\ NoRowAbove(top["factory"])' <=> NoRowAbove(top["factory"])
              /\ SoundTo(top["factory"])' <=> SoundTo(top["factory"])
<1>1. Height' = Height /\ HashesKnown' /\ WellFormed(chain)' /\ Known' = Known
  BY DEF QuietInv, Height, HashesKnown, Hash, WellFormed, Known, ForeignHash
<1>2. Resting' <=> Resting
  BY <1>1 DEF Resting, SoundTo, NoRowAbove, LaunchesTaken, RollbackTarget, Hash
<1> QED
  BY <1>1, <1>2 DEF QuietInv, NoRowAbove, SoundTo, LaunchesTaken, RollbackTarget

\* The factory's awaits that only read.
LEMMA LookingQuiet ==
  ASSUME QuietInv, TypeInv',
         \/ BeginTick("factory") \/ Verify("factory") \/ ReadHead("factory")
         \/ FetchLogs("factory") \/ ReadStamp("factory") \/ SyncPhases("factory")
         \/ AdvanceFind("factory") \/ Resolve("factory") \/ CascadeFind \/ CascadeWrite
  PROVE  QuietInv'
<1> USE QuietNumbers
<1>1. /\ UNCHANGED <<chain, reorgs, calm, tokenBlock, skipped>>
      /\ cpBlock'["factory"] = cpBlock["factory"] /\ cpHash'["factory"] = cpHash["factory"]
  BY QuietTypes DEF BeginTick, Verify, ReadHead, FetchLogs, ReadStamp, SyncPhases, AdvanceFind, Resolve,
         CascadeFind, CascadeWrite, chainVars, checkpointVars, dbVars, auxVars,
         ResolveFailedBlocksThrough, RollbackTo
<1>2. /\ Height' = Height /\ HashesKnown' /\ WellFormed(chain)' /\ Known' = Known /\ calm'
      /\ NoRowAbove(Height)'
      /\ (cpBlock["factory"] <= Height \/ cpBlock["factory"] <= StartBlock)'
      /\ Resting' <=> Resting
      /\ NoRowAbove(cpBlock["factory"])' <=> NoRowAbove(cpBlock["factory"])
      /\ SoundTo(cpBlock["factory"])' <=> SoundTo(cpBlock["factory"])
      /\ RollbackTarget(cpBlock["factory"])' = RollbackTarget(cpBlock["factory"])
      /\ top'["factory"] = top["factory"] =>
           /\ NoRowAbove(top["factory"])' <=> NoRowAbove(top["factory"])
           /\ SoundTo(top["factory"])' <=> SoundTo(top["factory"])
  BY <1>1, FrameQuiet
<1>3. FactoryFits
  BY DEF QuietInv
<1>4. Known \subseteq Nat \ {NoHash}
  BY ChainAssumption DEF Known, ForeignHash, NoHash
<1> SUFFICES FactoryFits'
  BY <1>2 DEF QuietInv
<1> USE DEF GoTo, BeforeWrites, AfterWrites, AtRest
<1>5. ASSUME Return("factory"), Resting, NoRowAbove(cpBlock["factory"]) PROVE FactoryFits'
  <2>1. pc'["factory"] = "idle"
    BY QuietTypes, <1>5 DEF Return
  <2> QED
    BY <1>2, <1>5, <2>1 DEF FactoryFits
<1>6. CASE BeginTick("factory")
  <2>1. pc["factory"] = "idle" /\ at'["factory"] = cpBlock["factory"]
    BY QuietTypes, <1>6 DEF BeginTick, Idle
  <2>2. Resting /\ NoRowAbove(cpBlock["factory"])
    BY <1>3, <2>1 DEF FactoryFits
  <2>3. CASE cpHash["factory"] # NoHash /\ cpBlock["factory"] > 0
    <3>1. pc'["factory"] = "verify" /\ stamp'["factory"] = cpHash["factory"]
      BY QuietTypes, <1>6, <2>3 DEF BeginTick
    <3> QED
      BY <1>1, <1>2, <2>1, <2>2, <2>3, <3>1 DEF FactoryFits
  <2>4. CASE ~(cpHash["factory"] # NoHash /\ cpBlock["factory"] > 0)
    <3>1. pc'["factory"] = "head"
      BY QuietTypes, <1>6, <2>4 DEF BeginTick
    <3>2. SoundTo(cpBlock["factory"])
      <4>1. cpHash["factory"] \notin Known \/ cpBlock["factory"] = 0
        BY QuietTypes, <1>4, <2>4
      <4>2. \/ cpBlock["factory"] <= StartBlock /\ NoRowAbove(0)
            \/ SoundTo(cpBlock["factory"])
        BY <2>2, <4>1 DEF Resting
      <4>3. ASSUME cpBlock["factory"] <= StartBlock, NoRowAbove(0)
            PROVE  SoundTo(cpBlock["factory"])
        <5>1. \A t \in Tokens : tokenBlock[t] \notin 1..cpBlock["factory"]
          BY <4>3 DEF NoRowAbove
        <5>2. \A h : h \notin StartBlock + 1 .. cpBlock["factory"]
          BY <4>3
        <5> QED
          BY <5>1, <5>2 DEF SoundTo, LaunchesTaken
      <4> QED
        BY <4>2, <4>3
    <3> QED
      BY <1>1, <1>2, <2>1, <2>2, <3>1, <3>2 DEF FactoryFits
  <2> QED
    BY <2>3, <2>4
<1>7. CASE Verify("factory")
  <2>1. /\ pc["factory"] = "verify" /\ at'["factory"] = at["factory"]
        /\ \/ pc'["factory"] = "delete" /\ top'["factory"] = RollbackTarget(at["factory"])
           \/ pc'["factory"] = "head" /\ Hash(at["factory"]) = stamp["factory"]
    BY QuietTypes, <1>7 DEF Verify
  <2>2. /\ Resting /\ NoRowAbove(cpBlock["factory"])
        /\ at["factory"] = cpBlock["factory"] /\ cpHash["factory"] # NoHash
        /\ stamp["factory"] = cpHash["factory"]
    BY <1>3, <2>1 DEF FactoryFits
  <2>3. /\ 1 <= cpBlock["factory"] /\ cpBlock["factory"] + ConfirmationDepth <= Height
        /\ cpHash["factory"] = Hash(cpBlock["factory"]) => SoundTo(cpBlock["factory"])
    BY <2>2 DEF Resting
  <2> QED
    BY <1>1, <1>2, <2>1, <2>2, <2>3 DEF FactoryFits
<1>8. CASE ReadHead("factory")
  <2>1. \/ Return("factory")
        \/ /\ pc'["factory"] = "fetch" /\ at'["factory"] = at["factory"]
           /\ SafeHead # NoBlock /\ at["factory"] < SafeHead /\ top'["factory"] = SafeHead
    BY QuietTypes, <1>8 DEF ReadHead, SafeHead, NoBlock
  <2>2. pc["factory"] = "head"
    BY <1>8 DEF ReadHead
  <2>3. /\ Resting /\ NoRowAbove(cpBlock["factory"]) /\ SoundTo(cpBlock["factory"])
        /\ at["factory"] = cpBlock["factory"]
    BY <1>3, <2>2 DEF FactoryFits
  <2>4. SafeHead # NoBlock => SafeHead + ConfirmationDepth <= Height
    BY DEF SafeHead, NoBlock
  <2> QED
    BY <1>1, <1>2, <1>5, <2>1, <2>3, <2>4 DEF FactoryFits
<1>9. CASE FetchLogs("factory")
  <2>1. PICK reached \in (at["factory"] + 1)..top["factory"] :
          /\ top'["factory"] = reached
          /\ found'["factory"] = LogsIn("factory", at["factory"] + 1, reached)
    BY QuietTypes, <1>9 DEF FetchLogs
  <2>2. pc["factory"] = "fetch" /\ pc'["factory"] = "stamp" /\ at'["factory"] = at["factory"]
    BY QuietTypes, <1>9 DEF FetchLogs
  <2>3. /\ Resting /\ NoRowAbove(cpBlock["factory"]) /\ SoundTo(cpBlock["factory"])
        /\ at["factory"] = cpBlock["factory"] /\ top["factory"] + ConfirmationDepth <= Height
    BY <1>3, <2>2 DEF FactoryFits
  <2>4. Window("factory")' = LogsIn("factory", at["factory"] + 1, reached)
    BY <1>1, <2>1, <2>2 DEF Window, LogsIn
  <2>5. cpBlock["factory"] < reached /\ reached + ConfirmationDepth <= Height
    BY <2>1, <2>3
  <2> QED
    BY <1>1, <1>2, <2>1, <2>2, <2>3, <2>4, <2>5 DEF FactoryFits
<1>10. CASE ReadStamp("factory")
  <2>1. /\ pc["factory"] = "stamp" /\ pc'["factory"] = "record"
        /\ at'["factory"] = at["factory"] /\ top'["factory"] = top["factory"]
        /\ found'["factory"] = found["factory"]
        /\ stamp'["factory"] \in {Hash(top["factory"]), ForeignHash}
    BY QuietTypes, <1>10 DEF ReadStamp
  <2>2. /\ Resting /\ NoRowAbove(cpBlock["factory"]) /\ SoundTo(cpBlock["factory"])
        /\ at["factory"] = cpBlock["factory"] /\ found["factory"] = Window("factory")
        /\ cpBlock["factory"] < top["factory"]
        /\ top["factory"] + ConfirmationDepth <= Height
    BY <1>3, <2>1 DEF FactoryFits
  <2>3. Window("factory")' = Window("factory")
    BY <1>1, <2>1 DEF Window, LogsIn
  <2>4. top["factory"] \in 1..Height
    BY <2>2
  <2>5. stamp'["factory"] \in Known
    BY <2>1, <2>4 DEF QuietInv, HashesKnown, Known
  <2> QED
    BY <1>1, <1>2, <2>1, <2>2, <2>3, <2>5 DEF FactoryFits
<1>11. CASE SyncPhases("factory") \/ AdvanceFind("factory")
  <2>1. pc["factory"] \in AfterWrites
    BY <1>11 DEF SyncPhases, AdvanceFind
  <2>2. /\ NoRowAbove(top["factory"]) /\ SoundTo(top["factory"])
        /\ at["factory"] = cpBlock["factory"] /\ stamp["factory"] \in Known
        /\ cpBlock["factory"] < top["factory"]
        /\ top["factory"] + ConfirmationDepth <= Height
    BY <1>3, <2>1 DEF FactoryFits
  <2>3. /\ pc'["factory"] \in AfterWrites /\ at'["factory"] = at["factory"]
        /\ top'["factory"] = top["factory"] /\ stamp'["factory"] = stamp["factory"]
    BY QuietTypes, <1>11, <2>2 DEF SyncPhases, AdvanceFind, MayAdvance
  <2> QED
    BY <1>1, <1>2, <2>2, <2>3 DEF FactoryFits
<1>12. CASE Resolve("factory") \/ CascadeWrite
  <2>1. pc["factory"] \in {"resolve", "cascade_write"} /\ Return("factory")
    BY <1>12 DEF Resolve, CascadeWrite
  <2> QED
    BY <1>3, <1>5, <2>1 DEF FactoryFits
<1>13. CASE CascadeFind
  <2>1. pc["factory"] = "cascade" /\ (Return("factory") \/ pc'["factory"] = "cascade_write")
    BY QuietTypes, <1>13 DEF CascadeFind
  <2>2. Resting /\ NoRowAbove(cpBlock["factory"])
    BY <1>3, <2>1 DEF FactoryFits
  <2> QED
    BY <1>2, <1>5, <2>1, <2>2 DEF FactoryFits
<1> QED
  BY <1>6, <1>7, <1>8, <1>9, <1>10, <1>11, <1>12, <1>13
\* The insert of a window: its logs are on this chain, so whatever is not recorded was
\* given up on.
LEMMA RecordQuiet ==
  ASSUME QuietInv, TypeInv', RecordLaunches
  PROVE  QuietInv'
<1>0. DOMAIN tokenBlock = Tokens
  BY QuietTypes
<1>1. /\ UNCHANGED <<chain, reorgs, calm, cpBlock, cpHash>>
      /\ pc["factory"] = "record" /\ pc'["factory"] = "phases"
      /\ at'["factory"] = at["factory"] /\ top'["factory"] = top["factory"]
      /\ stamp'["factory"] = stamp["factory"]
  BY QuietTypes DEF RecordLaunches, GoTo, chainVars, checkpointVars
<1>2. PICK prepared \in SUBSET found["factory"] :
        /\ tokenBlock' = InsertMissing(tokenBlock, prepared)
        /\ skipped' = skipped \union {l[1] : l \in found["factory"] \ prepared}
  BY DEF RecordLaunches
<1>3. \A t \in Tokens : tokenBlock[t] # 0 => tokenBlock'[t] = tokenBlock[t]
  BY <1>0, <1>2, InsertedRows
<1>4. \A t \in Tokens : tokenBlock[t] = 0 =>
        \/ tokenBlock'[t] = 0 /\ \A l \in prepared : l[1] # t
        \/ \E l \in prepared : l[1] = t /\ tokenBlock'[t] = l[2]
  BY <1>0, <1>2, InsertedRows
<1> USE QuietNumbers
<1>5. PICK a, b : a = cpBlock["factory"] /\ b = top["factory"]
  OBVIOUS
<1>6. /\ NoRowAbove(a) /\ SoundTo(a)
      /\ at["factory"] = a /\ found["factory"] = LogsIn("factory", a + 1, b)
      /\ a \in Nat /\ b \in Nat /\ a < b /\ b + ConfirmationDepth <= Height
      /\ stamp["factory"] \in Known
  BY <1>1, <1>5 DEF QuietInv, FactoryFits, BeforeWrites, Window
<1>7. \A h \in StartBlock + 1 .. b : h \in Nat /\ h \in DOMAIN chain
  <2>1. DOMAIN chain = 1..Height
    BY QuietTypes
  <2> QED
    BY <1>6, <2>1
<1>8. ASSUME NEW h \in DOMAIN chain, NEW g \in DOMAIN chain, NEW t \in chain[h].launches,
             t \in chain[g].launches
      PROVE  h = g
  BY <1>8 DEF QuietInv, WellFormed
<1>9. \A l \in prepared : l[2] \in a + 1 .. b /\ l[1] \in chain[l[2]].launches
  BY <1>6, <1>2 DEF LogsIn, LogsOf
<1>10. ASSUME NEW t \in Tokens, tokenBlock'[t] # 0
       PROVE  tokenBlock'[t] \in 1..b /\ t \in chain[tokenBlock'[t]].launches
  <2>1. CASE tokenBlock[t] # 0
    <3>1. tokenBlock[t] \in 1..a
      BY <1>6, <2>1 DEF NoRowAbove
    <3> QED
      BY <1>6, <1>3, <2>1, <3>1 DEF SoundTo
  <2>2. CASE tokenBlock[t] = 0
    <3>1. PICK l \in prepared : l[1] = t /\ tokenBlock'[t] = l[2]
      BY <1>4, <1>10, <2>2
    <3> QED
      BY <1>6, <1>9, <3>1
  <2> QED
    BY <2>1, <2>2
<1>11. ASSUME NEW h \in StartBlock + 1 .. b, NEW t \in chain[h].launches, t \notin skipped'
       PROVE  tokenBlock'[t] = h
  <2>1. t \in Tokens /\ h \in DOMAIN chain /\ h \in Nat /\ h # 0
    <3>1. h \in DOMAIN chain /\ h \in Nat /\ h # 0
      BY <1>7
    <3>2. \A k \in DOMAIN chain : chain[k].launches \subseteq Tokens
      BY QuietTypes
    <3> QED
      BY <3>1, <3>2
  <2>2. CASE h <= a
    <3>1. h \in StartBlock + 1 .. a
      BY <1>6, <2>2
    <3>2. tokenBlock[t] = h
      BY <1>6, <1>2, <1>11, <3>1 DEF SoundTo, LaunchesTaken
    <3> QED
      BY <1>3, <2>1, <3>2
  <2>3. CASE h > a
    <3>1. h \in a + 1 .. b
      BY <1>6, <2>3
    <3>2. <<t, h>> \in prepared
      BY <1>6, <1>2, <1>11, <3>1, WindowMembers DEF LogsOf
    <3>3. tokenBlock'[t] # 0
      <4>1. CASE tokenBlock[t] # 0
        BY <1>3, <2>1, <4>1
      <4>2. CASE tokenBlock[t] = 0
        <5>1. PICK l \in prepared : tokenBlock'[t] = l[2]
          BY <1>4, <2>1, <3>2, <4>2
        <5> QED
          BY <1>6, <1>9, <5>1
      <4> QED
        BY <4>1, <4>2
    <3>4. tokenBlock'[t] \in DOMAIN chain /\ t \in chain[tokenBlock'[t]].launches
      <4>1. tokenBlock'[t] \in 1..b /\ t \in chain[tokenBlock'[t]].launches
        BY <1>10, <2>1, <3>3
      <4>2. \A k \in 1..b : k \in DOMAIN chain
        <5>1. DOMAIN chain = 1..Height
          BY QuietTypes
        <5> QED
          BY <1>6, <5>1
      <4> QED
        BY <4>1, <4>2
    <3> QED
      BY <1>8, <2>1, <3>4
  <2> QED
    BY <1>6, <2>1, <2>2, <2>3
<1>12. SoundTo(b)' /\ NoRowAbove(b)'
  <2>1. NoRowAbove(b)'
    BY <1>6, <1>10 DEF NoRowAbove
  <2>2. \A t \in Tokens : tokenBlock'[t] \in 1..b => t \in chain[tokenBlock'[t]].launches
    BY <1>6, <1>10
  <2>3. LaunchesTaken(StartBlock + 1, b)'
    BY <1>1, <1>11 DEF LaunchesTaken
  <2> QED
    BY <1>1, <2>1, <2>2, <2>3 DEF SoundTo
<1>13. SoundTo(top["factory"])' /\ NoRowAbove(top["factory"])'
  BY <1>1, <1>5, <1>12 DEF SoundTo, NoRowAbove, LaunchesTaken
<1>14. /\ Height' = Height /\ HashesKnown' /\ WellFormed(chain)' /\ Known' = Known
  BY <1>1 DEF QuietInv, Height, HashesKnown, Hash, WellFormed, Known, ForeignHash
<1>15. NoRowAbove(Height)'
  BY <1>6, <1>10, <1>14 DEF NoRowAbove
<1>16. FactoryFits'
  BY <1>1, <1>5, <1>6, <1>13, <1>14 DEF FactoryFits, BeforeWrites, AfterWrites, AtRest
<1> QED
  BY <1>1, <1>14, <1>15, <1>16 DEF QuietInv

\* The checkpoint moves up to what has just been recorded.
LEMMA AdvanceQuiet ==
  ASSUME QuietInv, TypeInv', Advance("factory")
  PROVE  QuietInv'
<1> USE QuietNumbers
<1>1. /\ UNCHANGED <<chain, reorgs, calm, tokenBlock, skipped>>
      /\ pc["factory"] = "advance" /\ pc'["factory"] = "resolve"
      /\ cpBlock'["factory"] = top["factory"] /\ cpHash'["factory"] = stamp["factory"]
  BY QuietTypes DEF Advance, AdvanceTo, GoTo, chainVars, dbVars, auxVars
<1>2. PICK b, r : b = top["factory"] /\ r = RollbackTarget(b)
  OBVIOUS
<1>3. /\ NoRowAbove(b) /\ SoundTo(b) /\ stamp["factory"] \in Known
      /\ b \in Nat /\ 1 <= b /\ b + ConfirmationDepth <= Height
  BY <1>1, <1>2 DEF QuietInv, FactoryFits, AfterWrites
<1>4. r \in Nat /\ r <= b
  BY <1>2, <1>3 DEF RollbackTarget
<1>5. SoundTo(r)
  BY <1>3, <1>4, SoundBelow
<1>6. /\ Height' = Height /\ HashesKnown' /\ WellFormed(chain)' /\ Known' = Known
  BY <1>1 DEF QuietInv, Height, HashesKnown, Hash, WellFormed, Known, ForeignHash
<1>7. /\ SoundTo(cpBlock["factory"])' /\ SoundTo(RollbackTarget(cpBlock["factory"]))'
      /\ NoRowAbove(cpBlock["factory"])'
  BY <1>1, <1>2, <1>3, <1>5 DEF SoundTo, NoRowAbove, LaunchesTaken, RollbackTarget
<1>8. Resting'
  BY <1>1, <1>2, <1>3, <1>6, <1>7 DEF Resting
<1>9. FactoryFits'
  BY <1>1, <1>7, <1>8 DEF FactoryFits, BeforeWrites, AfterWrites, AtRest
<1> QED
  BY <1>1, <1>2, <1>3, <1>6, <1>9 DEF QuietInv, NoRowAbove

\* The rows above the target go, those below are the ones that survive.
LEMMA DeleteQuiet ==
  ASSUME QuietInv, TypeInv', DeleteTokensAbove
  PROVE  QuietInv'
<1> USE QuietNumbers
<1>1. /\ UNCHANGED <<chain, reorgs, calm, skipped, cpBlock, cpHash>>
      /\ pc["factory"] = "delete" /\ pc'["factory"] = "rewind"
      /\ top'["factory"] = top["factory"]
      /\ tokenBlock' = [t \in Tokens |-> IF tokenBlock[t] > top["factory"] THEN 0
                                         ELSE tokenBlock[t]]
  BY QuietTypes DEF DeleteTokensAbove, Doomed, GoTo, chainVars, checkpointVars, auxVars
<1>2. PICK b : b = top["factory"]
  OBVIOUS
<1>3. /\ b = RollbackTarget(cpBlock["factory"]) /\ b \in Nat
      /\ 1 <= cpBlock["factory"] /\ cpBlock["factory"] + ConfirmationDepth <= Height
      /\ cpHash["factory"] # NoHash /\ Resting
  BY <1>1, <1>2 DEF QuietInv, FactoryFits, AtRest
<1>4. SoundTo(b)
  BY <1>3 DEF Resting
<1>5. \A t \in Tokens : tokenBlock'[t] = IF tokenBlock[t] > b THEN 0 ELSE tokenBlock[t]
  BY <1>1, <1>2
<1>6. NoRowAbove(b)'
  BY <1>3, <1>5 DEF NoRowAbove
<1>7. SoundTo(b)'
  <2>1. ASSUME NEW t \in Tokens, tokenBlock'[t] \in 1..b
        PROVE  t \in chain[tokenBlock'[t]].launches
    <3>1. tokenBlock'[t] = tokenBlock[t]
      BY <1>3, <1>5, <2>1
    <3> QED
      BY <1>4, <2>1, <3>1 DEF SoundTo
  <2>2. ASSUME NEW h \in StartBlock + 1 .. b, NEW t \in chain[h].launches, t \notin skipped
        PROVE  tokenBlock'[t] = h
    <3>1. tokenBlock[t] = h
      BY <1>4, <2>2 DEF SoundTo, LaunchesTaken
    <3>2. t \in Tokens /\ h <= b
      BY QuietTypes, <1>3 DEF RollbackTarget
    <3> QED
      BY <1>3, <1>5, <3>1, <3>2
  <2> QED
    BY <1>1, <2>1, <2>2 DEF SoundTo, LaunchesTaken
<1>8. SoundTo(top["factory"])' /\ NoRowAbove(top["factory"])'
  BY <1>1, <1>2, <1>6, <1>7 DEF SoundTo, NoRowAbove, LaunchesTaken
<1>9. /\ Height' = Height /\ HashesKnown' /\ WellFormed(chain)'
  BY <1>1 DEF QuietInv, Height, HashesKnown, Hash, WellFormed
<1>10. NoRowAbove(Height)'
  <2>1. \A t \in Tokens : tokenBlock[t] <= Height
    BY DEF QuietInv, NoRowAbove
  <2>2. \A t \in Tokens : tokenBlock'[t] <= Height
    BY <1>3, <1>5, <2>1
  <2> QED
    BY <1>9, <2>2 DEF NoRowAbove
<1>11. FactoryFits'
  BY <1>1, <1>2, <1>3, <1>8, <1>9
     DEF FactoryFits, BeforeWrites, AfterWrites, AtRest, RollbackTarget
<1> QED
  BY <1>1, <1>9, <1>10, <1>11 DEF QuietInv

\* The checkpoint follows: far enough back that no reorganisation reaches it before it has
\* a hash again.
LEMMA RewindQuiet ==
  ASSUME QuietInv, TypeInv', Rewind("factory")
  PROVE  QuietInv'
<1> USE QuietNumbers
<1>1. /\ UNCHANGED <<chain, reorgs, calm, tokenBlock, skipped>>
      /\ pc["factory"] = "rewind" /\ pc'["factory"] = "cascade"
      /\ cpBlock'["factory"] = top["factory"] /\ cpHash'["factory"] = NoHash
  BY QuietTypes DEF Rewind, RollbackTo, GoTo, NoHash, chainVars, dbVars, auxVars
<1>2. PICK b, c : b = top["factory"] /\ c = cpBlock["factory"]
  OBVIOUS
<1>3. /\ NoRowAbove(b) /\ SoundTo(b) /\ b = RollbackTarget(c) /\ b \in Nat /\ c \in Nat
      /\ 1 <= c /\ c + ConfirmationDepth <= Height
  BY <1>1, <1>2 DEF QuietInv, FactoryFits
<1>4. b = 0 \/ b + 2 * ConfirmationDepth <= Height
  BY <1>3 DEF RollbackTarget
<1>5. /\ Height' = Height /\ HashesKnown' /\ WellFormed(chain)'
  BY <1>1 DEF QuietInv, Height, HashesKnown, Hash, WellFormed
<1>6. SoundTo(cpBlock["factory"])' /\ NoRowAbove(cpBlock["factory"])'
  BY <1>1, <1>2, <1>3 DEF SoundTo, NoRowAbove, LaunchesTaken
<1>7. b = 0 => NoRowAbove(0)'
  BY <1>1, <1>3 DEF NoRowAbove
<1>8. Resting'
  BY <1>1, <1>2, <1>3, <1>4, <1>5, <1>6, <1>7 DEF Resting
<1>9. FactoryFits'
  BY <1>1, <1>6, <1>8 DEF FactoryFits, BeforeWrites, AfterWrites, AtRest
<1> QED
  BY <1>1, <1>2, <1>3, <1>4, <1>5, <1>9 DEF QuietInv, NoRowAbove

LEMMA NextQuiet ==
  ASSUME QuietChain, QuietInv, [Next]_vars
  PROVE  QuietInv'
<1>1. TypeInv' /\ calm
  BY NextType DEF QuietInv
<1>2. CASE FactoryStep
  BY <1>1, <1>2, LookingQuiet, RecordQuiet, AdvanceQuiet, DeleteQuiet, RewindQuiet
     DEF FactoryStep, Step
<1>3. CASE CurveStep \/ (\E s \in Streams : Pause(s)) \/ CalmDown \/ UNCHANGED vars
  BY <1>1, <1>3, CurvesQuiet
<1>4. CASE ChainGrows
  BY <1>1, <1>4, GrowthQuiet
<1>5. CASE ChainReorganises
  BY <1>1, <1>5, ReorgQuiet
<1>6. ~Fault
  BY <1>1 DEF Fault
<1> QED
  BY <1>2, <1>3, <1>4, <1>5, <1>6 DEF Next

LEMMA QuietIsExact == QuietInv => VouchedLaunchesExact
<1> SUFFICES ASSUME QuietInv, Vouched("factory"), pc["factory"] # "rewind"
             PROVE  LaunchesExact
  BY DEF VouchedLaunchesExact
<1> USE QuietNumbers
<1>1. SoundTo(cpBlock["factory"])
  <2>1. CASE pc["factory"] \in AfterWrites
    <3>1. SoundTo(top["factory"]) /\ cpBlock["factory"] <= top["factory"]
      BY <2>1 DEF QuietInv, FactoryFits
    <3> QED
      BY <3>1, SoundBelow
  <2>2. CASE pc["factory"] \notin AfterWrites
    <3>1. Resting
      BY QuietTypes, <2>2 DEF QuietInv, FactoryFits, AtRest, BeforeWrites, AfterWrites, Labels
    <3> QED
      BY <3>1 DEF Resting, Vouched
  <2> QED
    BY <2>1, <2>2
<1>2. \A b : b \in StartBlock + 1 .. cpBlock["factory"] => b \in 1..cpBlock["factory"]
  OBVIOUS
<1> QED
  BY <1>1, <1>2 DEF LaunchesExact, SoundTo, LaunchesTaken

\* While faults stay away and the chain reorganises between two ticks, once or often, down
\* to twice the confirmation depth: as soon as the factory's recorded hash is canonical, its
\* rows are the launches of this chain, but for those given up on.
THEOREM LaunchesComeBack == QuietChain /\ Spec => []VouchedLaunchesExact
<1> SUFFICES ASSUME QuietChain PROVE Spec => []VouchedLaunchesExact
  OBVIOUS
<1>1. Init => QuietInv
  BY InitQuiet
<1>2. QuietInv /\ [Next]_vars => QuietInv'
  BY NextQuiet
<1>3. QuietInv => VouchedLaunchesExact
  BY QuietIsExact
<1> QED
  BY <1>1, <1>2, <1>3, PTL DEF Spec

-----------------------------------------------------------------------------
(* What a rewind leaves behind, as long as it answers the first            *)
(* reorganisation: that one may come at any await and go as deep as twice  *)
(* the confirmation depth, and anything may fail.                          *)

FirstFork == MaxReorgs <= 1 /\ MaxMisreads = 0 /\ ReorgDepth <= 2 * ConfirmationDepth

\* A block of the first fork, which is canonical for good once the reorganisation is over.
Old(h) == h \in 1..Height /\ Hash(h) = 1

OldBelow == \A g \in 1..Height : Old(g) => \A h \in 1..g : Old(h)

\* A hash of the first fork is recorded deep enough for the block a rewind from it goes back
\* to; a hash of the second is canonical.
Backed(hash, b) ==
  /\ hash = 1 => /\ b + ConfirmationDepth <= Height
                 /\ b <= ConfirmationDepth \/ Old(b - ConfirmationDepth)
  /\ hash = 2 => b \in 1..Height /\ Hash(b) = 2

RowsOld ==
  \A t \in Tokens : /\ tokenBlock[t] <= Height
                    /\ Old(tokenBlock[t]) => t \in chain[tokenBlock[t]].launches

FoundOld ==
  \A l \in found["factory"] : /\ l[2] \in 1..Height
                              /\ Old(l[2]) => l[1] \in chain[l[2]].launches

TickOld ==
  /\ pc["factory"] = "verify" => Backed(stamp["factory"], at["factory"])
  /\ pc["factory"] \in {"record"} \union AfterWrites => Backed(stamp["factory"], top["factory"])
  /\ pc["factory"] \in {"fetch", "stamp", "record"} \union AfterWrites =>
       top["factory"] + ConfirmationDepth <= Height
  /\ pc["factory"] \in {"delete", "rewind"} =>
       reorgs = 1 /\ (top["factory"] = 0 \/ Old(top["factory"]))
  /\ pc["factory"] = "rewind" => NoRowAbove(top["factory"])

FirstInv ==
  /\ OrphanInv /\ OldBelow /\ RowsOld /\ FoundOld /\ TickOld
  /\ Backed(cpHash["factory"], cpBlock["factory"])

LEMMA FirstTypes ==
  ASSUME FirstFork, FirstInv
  PROVE  /\ ChainTypeOK /\ HashesKnown /\ Height \in Nat /\ reorgs \in 0..1
         /\ tokenBlock \in [Tokens -> Nat] /\ ConfirmationDepth \in Nat /\ ReorgDepth \in Nat
         /\ "factory" \in Streams /\ cpBlock["factory"] \in Nat /\ cpHash["factory"] \in Nat
         /\ cpBlock \in [Streams -> Nat] /\ cpHash \in [Streams -> Nat]
         /\ pc \in [Streams -> Labels]
         /\ at \in [Streams -> Nat] /\ top \in [Streams -> Nat] /\ stamp \in [Streams -> Nat]
         /\ at["factory"] \in Nat /\ top["factory"] \in Nat /\ stamp["factory"] \in Nat
         /\ DOMAIN found = Streams /\ found["factory"] \subseteq Tokens \X Nat
<1>1. TypeOK /\ OrphanInv
  BY DEF FirstInv, OrphanInv, TypeInv
<1>2. "factory" \in Streams
  BY DEF Streams
<1>3. reorgs \in 0..1
  BY <1>1, ChainAssumption DEF TypeOK, ChainTypeOK, FirstFork
<1> QED
  BY <1>1, <1>2, <1>3, OrphanTypes, ChainAssumption, IndexerAssumption
     DEF TypeOK, DbTypeOK, TickTypeOK, CheckpointTypeOK, OrphanInv

LEMMA InitFirst == Init => FirstInv
<1> SUFFICES ASSUME Init PROVE FirstInv
  OBVIOUS
<1>1. OrphanInv /\ Height = 0
  BY InitOrphan DEF Init, ChainInit, Height
<1>2. "factory" \in Streams
  BY DEF Streams
<1>3. pc["factory"] = "idle" /\ found["factory"] = {} /\ cpHash["factory"] = 0
  BY <1>2 DEF Init, CheckpointInit
<1>4. \A t \in Tokens : tokenBlock[t] = 0
  BY DEF Init
<1> QED
  BY <1>1, <1>3, <1>4
     DEF FirstInv, OldBelow, RowsOld, FoundOld, TickOld, Backed, Old, AfterWrites

\* The chain keeps its first blocks, but for those the reorganisation replaces.
LEMMA OldStays ==
  ASSUME FirstFork, FirstInv, ChainGrows \/ ChainReorganises
  PROVE  /\ Height' \in Nat /\ Height' >= Height
         /\ \A h \in 1..Height : Old(h)' => Old(h) /\ chain'[h] = chain[h]
         /\ \A h \in 1..Height :
              Old(h) /\ (reorgs = 1 \/ h + 2 * ConfirmationDepth <= Height) => Old(h)'
         /\ \A h \in 1..Height : Hash(h) = 2 => Hash(h)' = 2
         /\ OldBelow'
         /\ reorgs = 1 => reorgs' = 1
<1> USE FirstTypes
<1>1. CASE ChainGrows
  <2>1. /\ Height' = Height + 1 /\ reorgs' = reorgs
        /\ \A h \in 1..Height : chain'[h] = chain[h]
    BY <1>1, MineKeeps DEF ChainGrows, Mine
  <2>2. chain'[Height + 1].hash = reorgs + 1
    <3>1. PICK c \in Contents : chain' = Append(chain, Mined(c))
      BY <1>1 DEF ChainGrows, Mine
    <3>2. chain'[Height + 1] = Mined(c)
      BY <3>1 DEF ChainTypeOK, Height
    <3> QED
      BY <3>2 DEF Mined
  <2>3. \A h \in 1..Height : Hash(h)' = Hash(h) /\ (Old(h)' <=> Old(h))
    BY <2>1 DEF Hash, Old
  <2>4. \A k : k = Height + 1 /\ Old(k)' => reorgs = 0
    BY <2>1, <2>2 DEF Hash, Old
  <2>5. reorgs = 0 => \A h \in 1..Height : Old(h)
    BY DEF HashesKnown, Old
  <2>6. ASSUME NEW g \in 1..Height', Old(g)', NEW h \in 1..g PROVE Old(h)'
    <3>1. CASE g \in 1..Height
      <4>0. h \in 1..Height /\ Old(g)
        BY <2>3, <2>6, <3>1
      <4>1. Old(h) /\ h \in 1..Height
        BY <3>1, <4>0 DEF FirstInv, OldBelow
      <4> QED
        BY <2>3, <4>1
    <3>2. CASE g = Height + 1
      BY <2>3, <2>4, <2>5, <2>6, <3>2
    <3> QED
      BY <2>1, <3>1, <3>2
  <2> QED
    BY <2>1, <2>3, <2>6 DEF OldBelow
<1>2. CASE ChainReorganises
  <2>1. PICK first \in 1..Height :
          /\ Height - first < ReorgDepth
          /\ \A h \in 1..Height : h < first => chain'[h] = chain[h]
          /\ \A h \in 1..Height : h >= first => Hash(h)' = reorgs + 2
    BY <1>2, Fork DEF ChainReorganises
  <2>2. Height' = Height /\ reorgs = 0
    <3>1. Height' = Height
      BY <1>2, Fork DEF ChainReorganises
    <3>2. reorgs < MaxReorgs
      BY <1>2 DEF ChainReorganises, Reorg
    <3> QED
      BY <3>1, <3>2, ChainAssumption DEF FirstFork
  <2>3. \A h \in 1..Height : Hash(h) = 1
    BY <2>2 DEF HashesKnown
  <2>4. \A h \in 1..Height : Old(h) /\ (Old(h)' <=> h < first)
    BY <2>1, <2>2, <2>3 DEF Old, Hash
  <2>5. \A h \in 1..Height : h + 2 * ConfirmationDepth <= Height => h < first
    BY <2>1 DEF FirstFork
  <2>6. OldBelow'
    <3> SUFFICES ASSUME NEW g \in 1..Height, Old(g)', NEW h \in 1..g PROVE Old(h)'
      BY <2>2 DEF OldBelow
    <3> QED
      BY <2>4
  <2> QED
    BY <2>1, <2>2, <2>3, <2>4, <2>5, <2>6
<1> QED
  BY <1>1, <1>2

LEMMA BackedStays ==
  ASSUME FirstFork, FirstInv, ChainGrows \/ ChainReorganises,
         NEW hash \in Nat, NEW b \in Nat, Backed(hash, b)
  PROVE  Backed(hash, b)'
<1> USE FirstTypes, OldStays
<1>1. ASSUME hash = 1
      PROVE  b + ConfirmationDepth <= Height' /\ (b <= ConfirmationDepth \/ Old(b - ConfirmationDepth)')
  <2>1. b + ConfirmationDepth <= Height
    BY <1>1 DEF Backed
  <2>2. CASE b > ConfirmationDepth
    <3>1. PICK h \in 1..Height : h = b - ConfirmationDepth
      BY <2>1, <2>2
    <3>2. Old(h)
      BY <1>1, <2>2, <3>1 DEF Backed
    <3>3. Old(h)'
      BY <2>1, <3>1, <3>2
    <3> QED
      BY <2>1, <3>1, <3>3
  <2> QED
    BY <2>1, <2>2
<1> QED
  BY <1>1 DEF Backed

LEMMA ChainStepFirst ==
  ASSUME FirstFork, FirstInv, OrphanInv', ChainGrows \/ ChainReorganises
  PROVE  FirstInv'
<1> USE FirstTypes, OldStays
<1>1. UNCHANGED <<cpBlock, cpHash, tokenBlock, pc, at, top, stamp, found>>
  BY DEF ChainGrows, ChainReorganises, indexerVars, checkpointVars, dbVars, tickVars
<1>2. PICK c, hc, b, a, hs : /\ c = cpBlock["factory"] /\ hc = cpHash["factory"]
                             /\ b = top["factory"] /\ a = at["factory"] /\ hs = stamp["factory"]
  OBVIOUS
<1>3. /\ Backed(cpHash["factory"], cpBlock["factory"])' <=> Backed(hc, c)'
      /\ Backed(stamp["factory"], at["factory"])' <=> Backed(hs, a)'
      /\ Backed(stamp["factory"], top["factory"])' <=> Backed(hs, b)'
      /\ Old(top["factory"])' <=> Old(b)'
  BY <1>1, <1>2 DEF Backed, Old, Hash
<1>4. /\ Backed(hc, c) => Backed(hc, c)'
      /\ Backed(hs, a) => Backed(hs, a)'
      /\ Backed(hs, b) => Backed(hs, b)'
  BY <1>2, BackedStays
<1>5. RowsOld'
  <2> SUFFICES ASSUME NEW t \in Tokens, NEW h, h = tokenBlock[t]
               PROVE  h <= Height' /\ (Old(h)' => t \in chain'[h].launches)
    BY <1>1 DEF RowsOld, Old, Hash
  <2>1. h \in Nat /\ h <= Height /\ (Old(h) => t \in chain[h].launches)
    BY DEF FirstInv, RowsOld
  <2>2. Old(h)' => h \in 1..Height
    BY <2>1 DEF Old
  <2> QED
    BY <2>1, <2>2
<1>6. FoundOld'
  <2> SUFFICES ASSUME NEW l \in found["factory"], NEW h, h = l[2]
               PROVE  h \in 1..Height' /\ (Old(h)' => l[1] \in chain'[h].launches)
    BY <1>1 DEF FoundOld, Old, Hash
  <2>1. h \in 1..Height /\ (Old(h) => l[1] \in chain[h].launches)
    BY DEF FirstInv, FoundOld
  <2> QED
    BY <2>1
<1>7. NoRowAbove(top["factory"])' <=> NoRowAbove(top["factory"])
  BY <1>1 DEF NoRowAbove
<1>8. reorgs = 1 /\ Old(b) => Old(b)'
  BY DEF Old
<1>9. TickOld'
  BY <1>1, <1>2, <1>3, <1>4, <1>7, <1>8 DEF FirstInv, TickOld, AfterWrites
<1> QED
  BY <1>2, <1>3, <1>4, <1>5, <1>6, <1>9 DEF FirstInv

\* The factory's tick ends, or a new process begins.
LEMMA IdleFirst ==
  ASSUME FirstInv, OrphanInv', UNCHANGED <<chain, reorgs, tokenBlock>>,
         cpBlock'["factory"] = cpBlock["factory"], cpHash'["factory"] = cpHash["factory"],
         pc'["factory"] = "idle", found'["factory"] = {}
  PROVE  FirstInv'
BY DEF FirstInv, OldBelow, RowsOld, FoundOld, TickOld, Backed, Old, Hash, Height, AfterWrites

\* What the factory stream owns stays as it is.
LEMMA AloneFirst ==
  ASSUME FirstInv, OrphanInv', UNCHANGED <<chain, reorgs, tokenBlock>>,
         cpBlock'["factory"] = cpBlock["factory"], cpHash'["factory"] = cpHash["factory"],
         pc'["factory"] = pc["factory"], found'["factory"] = found["factory"],
         at'["factory"] = at["factory"], top'["factory"] = top["factory"],
         stamp'["factory"] = stamp["factory"]
  PROVE  FirstInv'
BY DEF FirstInv, OldBelow, RowsOld, FoundOld, TickOld, Backed, Old, Hash, Height, AfterWrites,
       NoRowAbove
\* The factory's awaits before its inserts, and its verdict.
LEMMA LookingFirst ==
  ASSUME FirstFork, FirstInv, OrphanInv',
         \/ BeginTick("factory") \/ Verify("factory") \/ VerifyFails("factory")
         \/ ReadHead("factory") \/ FetchLogs("factory") \/ ReadStamp("factory")
         \/ SyncPhases("factory") \/ AdvanceFind("factory") \/ CascadeFind
  PROVE  FirstInv'
<1> USE FirstTypes
<1>1. /\ UNCHANGED <<chain, reorgs, tokenBlock>>
      /\ cpBlock'["factory"] = cpBlock["factory"] /\ cpHash'["factory"] = cpHash["factory"]
  BY DEF BeginTick, Verify, VerifyFails, ReadHead, FetchLogs, ReadStamp, SyncPhases,
         AdvanceFind, CascadeFind, chainVars, checkpointVars, dbVars, auxVars
<1>2. /\ Height' = Height /\ OldBelow' /\ RowsOld'
      /\ Backed(cpHash["factory"], cpBlock["factory"])'
      /\ \A h : Old(h)' <=> Old(h)
      /\ \A hash, b : Backed(hash, b)' <=> Backed(hash, b)
  BY <1>1 DEF FirstInv, OldBelow, RowsOld, Backed, Old, Hash, Height
<1>3. FoundOld /\ TickOld
  BY DEF FirstInv
<1>4. misreads >= MaxMisreads
  BY IndexerAssumption DEF FirstFork, FirstInv, OrphanInv, TypeInv, TypeOK, AuxTypeOK
<1>5. found'["factory"] = found["factory"] => FoundOld'
  BY <1>1, <1>2, <1>3 DEF FoundOld
<1>6. /\ Backed(stamp["factory"], at["factory"])'
           <=> Backed(stamp'["factory"], at'["factory"])
      /\ Backed(stamp["factory"], top["factory"])'
           <=> Backed(stamp'["factory"], top'["factory"])
      /\ Old(top["factory"])' <=> Old(top'["factory"])
  BY <1>1 DEF Backed, Old, Hash, Height
<1> USE DEF GoTo, AfterWrites
<1>7. ASSUME Return("factory") PROVE FirstInv'
  BY <1>1, <1>7, IdleFirst DEF Return
<1> SUFFICES FoundOld' /\ TickOld'
  BY <1>2 DEF FirstInv
<1>8. CASE BeginTick("factory")
  <2>1. /\ found' = found
        /\ \/ /\ pc'["factory"] = "verify" /\ stamp'["factory"] = cpHash["factory"]
              /\ at'["factory"] = cpBlock["factory"]
           \/ pc'["factory"] = "head"
    BY <1>8 DEF BeginTick
  <2>2. Backed(cpHash["factory"], cpBlock["factory"])
    BY DEF FirstInv
  <2> QED
    BY <1>2, <1>5, <1>6, <2>1, <2>2 DEF TickOld
<1>9. CASE Verify("factory")
  <2>1. /\ pc["factory"] = "verify" /\ at' = at /\ found' = found
        /\ \/ /\ pc'["factory"] = "delete" /\ Hash(at["factory"]) # stamp["factory"]
              /\ top'["factory"] = RollbackTarget(at["factory"])
           \/ pc'["factory"] = "head"
    BY <1>4, <1>9, IndexerAssumption
       DEF Verify, FirstFork, FirstInv, OrphanInv, TypeInv, TypeOK, AuxTypeOK
  <2>2. Backed(stamp["factory"], at["factory"])
    BY <1>3, <2>1 DEF TickOld
  <2>3. /\ at["factory"] \in 1..Height /\ stamp["factory"] # NoHash
        /\ stamp["factory"] <= reorgs + 1
    BY <2>1 DEF FirstInv, OrphanInv, Judged
  <2>4. CASE pc'["factory"] = "delete"
    <3>1. Hash(at["factory"]) # stamp["factory"] /\ top'["factory"] = RollbackTarget(at["factory"])
      BY <2>1, <2>4
    <3>2. Hash(at["factory"]) \in 1..(reorgs + 1)
      BY <2>3 DEF HashesKnown
    <3>3. stamp["factory"] = 1 /\ reorgs = 1
      BY <2>2, <2>3, <3>1, <3>2 DEF Backed, NoHash
    <3>4. top'["factory"] = 0 \/ Old(top'["factory"])
      BY <2>2, <3>1, <3>3 DEF Backed, RollbackTarget
    <3> QED
      BY <1>1, <1>2, <1>5, <1>6, <2>1, <2>4, <3>3, <3>4 DEF TickOld
  <2>5. CASE pc'["factory"] = "head"
    BY <1>5, <2>1, <2>5 DEF TickOld
  <2> QED
    BY <2>1, <2>4, <2>5
<1>10. CASE VerifyFails("factory")
  <2>1. pc'["factory"] = "head" /\ found' = found
    BY <1>10 DEF VerifyFails
  <2> QED
    BY <1>5, <2>1 DEF TickOld
<1>11. CASE ReadHead("factory") /\ ~Return("factory")
  <2>1. /\ pc'["factory"] = "fetch" /\ found' = found
        /\ SafeHead # NoBlock /\ top'["factory"] = SafeHead
    BY <1>11 DEF ReadHead, SafeHead, NoBlock
  <2>2. top'["factory"] + ConfirmationDepth <= Height
    BY <2>1 DEF SafeHead, NoBlock
  <2> QED
    BY <1>2, <1>5, <2>1, <2>2 DEF TickOld
<1>12. CASE FetchLogs("factory")
  <2>1. PICK reached \in (at["factory"] + 1)..top["factory"] :
          /\ top'["factory"] = reached
          /\ found'["factory"] = LogsIn("factory", at["factory"] + 1, reached)
    BY <1>12 DEF FetchLogs
  <2>2. pc["factory"] = "fetch" /\ pc'["factory"] = "stamp"
    BY <1>12 DEF FetchLogs
  <2>3. top["factory"] + ConfirmationDepth <= Height
    BY <1>3, <2>2 DEF TickOld
  <2>4. reached + ConfirmationDepth <= Height /\ \A h \in at["factory"] + 1 .. reached : h \in 1..Height
    BY <2>1, <2>3
  <2>5. \A l \in found'["factory"] : l[2] \in 1..Height /\ l[1] \in chain[l[2]].launches
    BY <2>1, <2>4 DEF LogsIn, LogsOf
  <2>6. FoundOld'
    BY <1>1, <1>2, <2>5 DEF FoundOld
  <2> QED
    BY <1>2, <2>1, <2>2, <2>4, <2>6 DEF TickOld
<1>13. CASE ReadStamp("factory")
  <2>1. /\ pc["factory"] = "stamp" /\ pc'["factory"] = "record"
        /\ top'["factory"] = top["factory"] /\ found' = found
        /\ stamp'["factory"] = Hash(top["factory"])
    BY <1>4, <1>13, IndexerAssumption
       DEF ReadStamp, FirstFork, FirstInv, OrphanInv, TypeInv, TypeOK, AuxTypeOK
  <2>2. top["factory"] + ConfirmationDepth <= Height
    BY <1>3, <2>1 DEF TickOld
  <2>3. top["factory"] \in 1..Height
    BY <2>1 DEF FirstInv, OrphanInv, Judged, Windowed
  <2>4. ASSUME Hash(top["factory"]) = 1, top["factory"] > ConfirmationDepth
        PROVE  Old(top["factory"] - ConfirmationDepth)
    <3>1. Old(top["factory"])
      BY <2>3, <2>4 DEF Old
    <3>2. top["factory"] - ConfirmationDepth \in 1..top["factory"]
      BY <2>3, <2>4
    <3> QED
      BY <2>3, <3>1, <3>2 DEF FirstInv, OldBelow
  <2>5. Backed(Hash(top["factory"]), top["factory"])
    BY <2>2, <2>3, <2>4 DEF Backed
  <2> QED
    BY <1>2, <1>5, <1>6, <2>1, <2>2, <2>5 DEF TickOld
<1>14. CASE SyncPhases("factory") \/ (AdvanceFind("factory") /\ ~Return("factory"))
  <2>1. /\ pc["factory"] \in AfterWrites /\ pc'["factory"] \in AfterWrites
        /\ top' = top /\ stamp' = stamp /\ found' = found
    BY <1>14 DEF SyncPhases, AdvanceFind
  <2> QED
    BY <1>2, <1>3, <1>5, <1>6, <2>1 DEF TickOld
<1>15. CASE CascadeFind /\ ~Return("factory")
  <2>1. pc'["factory"] = "cascade_write" /\ found' = found
    BY <1>15 DEF CascadeFind
  <2> QED
    BY <1>5, <2>1 DEF TickOld
<1> QED
  BY <1>7, <1>8, <1>9, <1>10, <1>11, <1>12, <1>13, <1>14, <1>15
     DEF FirstInv, ReadHead, AdvanceFind, CascadeFind

\* The factory's statements on the database.
LEMMA WritingFirst ==
  ASSUME FirstFork, FirstInv, OrphanInv',
         RecordLaunches \/ Advance("factory") \/ DeleteTokensAbove \/ Rewind("factory")
  PROVE  FirstInv'
<1>0. DOMAIN tokenBlock = Tokens
  BY FirstTypes
<1>1. CASE RecordLaunches
  <2>1. PICK prepared \in SUBSET found["factory"] :
          tokenBlock' = InsertMissing(tokenBlock, prepared)
    BY <1>1 DEF RecordLaunches
  <2>2. \A t \in Tokens : \/ tokenBlock'[t] = tokenBlock[t]
                          \/ \E l \in prepared : l[1] = t /\ tokenBlock'[t] = l[2]
    BY <1>0, <2>1, InsertedRows
  <2>3. /\ UNCHANGED <<chain, reorgs, cpBlock, cpHash, at, top, stamp, found>>
        /\ pc["factory"] = "record" /\ pc'["factory"] = "phases"
    BY <1>1, FirstTypes DEF RecordLaunches, GoTo, chainVars, checkpointVars
  <2>4. /\ Height' = Height /\ OldBelow' /\ FoundOld' /\ TickOld'
        /\ Backed(cpHash["factory"], cpBlock["factory"])'
    BY <2>3 DEF FirstInv, OldBelow, FoundOld, TickOld, Backed, Old, Hash, Height, AfterWrites
  <2>5. ASSUME NEW t \in Tokens
        PROVE  /\ tokenBlock'[t] <= Height
               /\ Old(tokenBlock'[t]) => t \in chain[tokenBlock'[t]].launches
    <3>1. CASE tokenBlock'[t] = tokenBlock[t]
      BY <3>1 DEF FirstInv, RowsOld
    <3>2. ASSUME NEW l \in prepared, l[1] = t, tokenBlock'[t] = l[2]
          PROVE  /\ tokenBlock'[t] <= Height
                 /\ Old(tokenBlock'[t]) => t \in chain[tokenBlock'[t]].launches
      BY <2>1, <3>2, FirstTypes DEF FirstInv, FoundOld
    <3> QED
      BY <2>2, <3>1, <3>2
  <2>6. RowsOld'
    BY <2>3, <2>4, <2>5 DEF RowsOld, Old, Hash
  <2> QED
    BY <2>4, <2>6 DEF FirstInv
<1>2. CASE Advance("factory")
  <2>1. /\ UNCHANGED <<chain, reorgs, tokenBlock, at, top, stamp, found>>
        /\ pc["factory"] = "advance" /\ pc'["factory"] = "resolve"
        /\ cpBlock'["factory"] = top["factory"] /\ cpHash'["factory"] = stamp["factory"]
    BY <1>2, FirstTypes DEF Advance, AdvanceTo, GoTo, chainVars, dbVars
  <2>2. Backed(stamp["factory"], top["factory"])
    BY <2>1 DEF FirstInv, TickOld, AfterWrites
  <2>3. Backed(cpHash["factory"], cpBlock["factory"])'
    BY <2>1, <2>2 DEF Backed, Old, Hash, Height
  <2> QED
    BY <2>1, <2>3 DEF FirstInv, OldBelow, RowsOld, FoundOld, TickOld, Old, Hash, Height,
                      AfterWrites
<1>3. CASE DeleteTokensAbove
  <2>1. /\ UNCHANGED <<chain, reorgs, cpBlock, cpHash, at, top, stamp, found>>
        /\ pc["factory"] = "delete" /\ pc'["factory"] = "rewind"
        /\ \A t \in Tokens : tokenBlock'[t] = IF tokenBlock[t] > top["factory"] THEN 0
                                              ELSE tokenBlock[t]
    BY <1>3, FirstTypes DEF DeleteTokensAbove, Doomed, GoTo, chainVars, checkpointVars
  <2>2. /\ Height' = Height /\ OldBelow' /\ FoundOld'
        /\ Backed(cpHash["factory"], cpBlock["factory"])'
    BY <2>1 DEF FirstInv, OldBelow, FoundOld, Backed, Old, Hash, Height
  <2>3. \A t \in Tokens : /\ tokenBlock'[t] <= top["factory"]
                          /\ tokenBlock'[t] = 0 \/ tokenBlock'[t] = tokenBlock[t]
    BY <2>1, FirstTypes
  <2>4. TickOld'
    BY <2>1, <2>2, <2>3 DEF FirstInv, TickOld, Old, Hash, NoRowAbove, AfterWrites
  <2>5. RowsOld'
    <3>1. ~Old(0)
      BY DEF Old
    <3>2. \A t \in Tokens : /\ tokenBlock'[t] <= Height
                            /\ Old(tokenBlock'[t]) => t \in chain[tokenBlock'[t]].launches
      BY <2>3, <3>1, FirstTypes DEF FirstInv, RowsOld
    <3> QED
      BY <2>1, <2>2, <3>2 DEF RowsOld, Old, Hash
  <2> QED
    BY <2>2, <2>4, <2>5 DEF FirstInv
<1>4. CASE Rewind("factory")
  <2>1. /\ UNCHANGED <<chain, reorgs, tokenBlock, at, top, stamp, found>>
        /\ pc'["factory"] = "cascade" /\ cpHash'["factory"] = 0
    BY <1>4, FirstTypes DEF Rewind, RollbackTo, GoTo, chainVars, dbVars
  <2>2. Backed(cpHash["factory"], cpBlock["factory"])'
    BY <2>1 DEF Backed
  <2> QED
    BY <2>1, <2>2 DEF FirstInv, OldBelow, RowsOld, FoundOld, TickOld, Old, Hash, Height,
                      AfterWrites
<1> QED
  BY <1>1, <1>2, <1>3, <1>4

LEMMA NextFirst ==
  ASSUME FirstFork, FirstInv, [Next]_vars
  PROVE  FirstInv'
<1>1. OrphanInv'
  BY NextOrphan DEF FirstFork, FirstInv
<1>2. ASSUME UNCHANGED <<chain, reorgs, tokenBlock>>,
             cpBlock'["factory"] = cpBlock["factory"], cpHash'["factory"] = cpHash["factory"],
             Return("factory") \/ Restart
      PROVE  FirstInv'
  <2>1. pc'["factory"] = "idle" /\ found'["factory"] = {}
    BY <1>2, FirstTypes DEF Return, Restart
  <2> QED
    BY <1>1, <1>2, <2>1, IdleFirst
<1>3. CASE FactoryStep
  <2>1. CASE Resolve("factory") \/ CascadeWrite
    BY <1>2, <2>1, FirstTypes
       DEF Resolve, CascadeWrite, ResolveFailedBlocksThrough, RollbackTo, chainVars, dbVars
  <2> QED
    BY <1>1, <1>3, <2>1, LookingFirst, WritingFirst DEF FactoryStep, Step
<1>4. CASE CurveStep \/ (\E s \in Streams : Pause(s)) \/ CalmDown \/ UNCHANGED vars
           \/ Abandon("curves") \/ ProcessFails("curves") \/ VerifyFails("curves")
  <2>1. /\ UNCHANGED <<chain, reorgs, tokenBlock>>
        /\ cpBlock'["factory"] = cpBlock["factory"] /\ cpHash'["factory"] = cpHash["factory"]
        /\ pc'["factory"] = pc["factory"] /\ found'["factory"] = found["factory"]
        /\ at'["factory"] = at["factory"] /\ top'["factory"] = top["factory"]
        /\ stamp'["factory"] = stamp["factory"]
    BY <1>4, FirstTypes
       DEF CurveStep, Step, Pause, SetPaused, CalmDown, vars, chainVars, checkpointVars,
           dbVars, tickVars, auxVars, BeginTick, Verify, VerifyFails, ReadHead, ReadCeiling,
           FetchLogs, ReadStamp, SyncPhases, AdvanceFind, Advance, Resolve, Rewind, MatchTrades,
           InsertTrades, InsertRejected, RefreshStats, DeleteTradesAbove, Abandon, ProcessFails,
           Return, GoTo, AdvanceTo, RollbackTo, RecordFailedBlock, ResolveFailedBlocksThrough
  <2> QED
    BY <1>1, <2>1, AloneFirst
<1>5. CASE ChainGrows \/ ChainReorganises
  BY <1>1, <1>5, ChainStepFirst
<1>6. CASE Abandon("factory") \/ ProcessFails("factory") \/ Restart
  BY <1>2, <1>6, FirstTypes
     DEF Abandon, ProcessFails, Restart, FastForward, RecordFailedBlock, chainVars, dbVars,
         checkpointVars
<1>7. CASE VerifyFails("factory")
  BY <1>1, <1>7, LookingFirst
<1> QED
  BY <1>3, <1>4, <1>5, <1>6, <1>7 DEF Next, Fault, Streams

\* What the rewind finds.
LEMMA FirstStep ==
  ASSUME FirstFork, FirstInv, [Next]_vars, cpBlock'["factory"] < cpBlock["factory"],
         NEW t \in Tokens, tokenBlock'[t] # 0
  PROVE  tokenBlock'[t] <= cpBlock'["factory"] /\ t \in chain[tokenBlock'[t]].launches
<1> USE FirstTypes
<1>1. pc["factory"] = "rewind"
  BY OrphansStep DEF FirstInv
<1>2. Rewind("factory")
  <2>1. cpBlock' # cpBlock
    OBVIOUS
  <2>2. \/ \E z \in Streams : Advance(z) \/ Rewind(z)
        \/ CascadeWrite \/ Restart
    BY <2>1 DEF Next, FactoryStep, CurveStep, Fault, Step, Streams, vars, chainVars, indexerVars,
       ChainGrows, ChainReorganises, CalmDown, Pause, SetPaused, checkpointVars,
       BeginTick, Verify, VerifyFails, ReadHead, ReadCeiling, FetchLogs, ReadStamp,
       SyncPhases, AdvanceFind, RecordLaunches, DeleteTokensAbove, CascadeFind,
       MatchTrades, InsertTrades, InsertRejected, RefreshStats, DeleteTradesAbove,
       Resolve, Abandon, ProcessFails, RecordFailedBlock, ResolveFailedBlocksThrough
  <2> QED
    BY <1>1, <2>2 DEF Advance, AdvanceTo, Rewind, RollbackTo, CascadeWrite, Restart, FastForward,
       checkpointVars, Streams
<1>3. tokenBlock' = tokenBlock /\ cpBlock'["factory"] = top["factory"]
  BY <1>2 DEF Rewind, RollbackTo, dbVars, FirstInv, OrphanInv, TypeInv, TypeOK, CheckpointTypeOK
<1>4. /\ tokenBlock[t] <= top["factory"] /\ tokenBlock[t] \in Nat
      /\ top["factory"] = 0 \/ Old(top["factory"])
      /\ Old(tokenBlock[t]) => t \in chain[tokenBlock[t]].launches
  BY <1>1 DEF FirstInv, TickOld, RowsOld, NoRowAbove
<1>5. top["factory"] \in 1..Height /\ Old(top["factory"]) /\ tokenBlock[t] \in 1..top["factory"]
  BY <1>3, <1>4 DEF Old
<1>6. Old(tokenBlock[t])
  BY <1>5 DEF FirstInv, OldBelow
<1> QED
  BY <1>3, <1>4, <1>6

\* Whatever fails, and at whatever await the first reorganisation comes: the factory's rewind
\* from it leaves no row above the new checkpoint and only launches of the canonical chain,
\* when the reorganisation is no deeper than the block it was recorded at and the rewind
\* together allow.
THEOREM FirstRewindIsClean ==
  FirstFork /\ Spec => RewindLeavesOnlyCanonicalLaunches
<1> SUFFICES ASSUME FirstFork PROVE Spec => RewindLeavesOnlyCanonicalLaunches
  OBVIOUS
<1>1. Init => FirstInv
  BY InitFirst
<1>2. FirstInv /\ [Next]_vars => FirstInv'
  BY NextFirst
<1>3. FirstInv /\ [Next]_vars =>
        [cpBlock'["factory"] < cpBlock["factory"] =>
           \A t \in Tokens : tokenBlock'[t] # 0 =>
             /\ tokenBlock'[t] <= cpBlock'["factory"]
             /\ t \in chain[tokenBlock'[t]].launches]_vars
  BY FirstStep
<1> QED
  BY <1>1, <1>2, <1>3, PTL DEF Spec, RewindLeavesOnlyCanonicalLaunches
=============================================================================
