---------------------------- MODULE Checkpoints ----------------------------
(***************************************************************************)
(* CheckpointRepository: one IndexerState row per stream and the           *)
(* FailedBlock rows.  Each repository method that touches the database     *)
(* twice (a findUnique, then an update) is split here into what the read   *)
(* decides and what the update writes, because anything may happen in      *)
(* between.  lastError, lastSuccessAt and logWindowSize are reporting and  *)
(* left out.                                                               *)
(***************************************************************************)
EXTENDS Integers

CONSTANT
  StartBlock    \* INDEXER_START_BLOCK: lastProcessedBlock of a row just created

ASSUME CheckpointAssumption == StartBlock \in Nat

VARIABLES
  cpBlock,      \* lastProcessedBlock
  cpHash,       \* lastProcessedBlockHash, 0 for null
  isPaused,
  failed        \* blockNumber of the unresolved FailedBlock rows

checkpointVars == <<cpBlock, cpHash, isPaused, failed>>

Streams == {"factory", "curves"}

CheckpointTypeOK ==
  /\ cpBlock \in [Streams -> Nat]
  /\ cpHash \in [Streams -> Nat]
  /\ isPaused \in [Streams -> BOOLEAN]
  /\ failed \in [Streams -> SUBSET Nat]

\* getOrCreate on an empty table.
CheckpointInit ==
  /\ cpBlock = [s \in Streams |-> StartBlock]
  /\ cpHash = [s \in Streams |-> 0]
  /\ isPaused = [s \in Streams |-> FALSE]
  /\ failed = [s \in Streams |-> {}]

\* advance: the findUnique refuses to move backwards ...
MayAdvance(s, to) == cpBlock[s] <= to

\* ... and the update does not look again.
AdvanceTo(s, to, hash) ==
  /\ cpBlock' = [cpBlock EXCEPT ![s] = to]
  /\ cpHash' = [cpHash EXCEPT ![s] = hash]
  /\ UNCHANGED <<isPaused, failed>>

RollbackTo(s, to) ==
  /\ cpBlock' = [cpBlock EXCEPT ![s] = to]
  /\ cpHash' = [cpHash EXCEPT ![s] = 0]
  /\ UNCHANGED <<isPaused, failed>>

\* rollbackIfAhead: what its findUnique decides; the update is RollbackTo.
IsAhead(s, to) == cpBlock[s] > to

\* Mutant of FastForward: moves backwards too.
MoveTo(s, to) == RollbackTo(s, to)

\* fastForward runs at start-up, before any scanner, so it is one step.
FastForward(s, to) ==
  IF cpBlock[s] >= to THEN UNCHANGED checkpointVars
  ELSE /\ cpBlock' = [cpBlock EXCEPT ![s] = to]
       /\ cpHash' = [cpHash EXCEPT ![s] = 0]
       /\ UNCHANGED <<isPaused, failed>>

RecordFailedBlock(s, block) ==
  /\ failed' = [failed EXCEPT ![s] = @ \union {block}]
  /\ UNCHANGED <<cpBlock, cpHash, isPaused>>

ResolveFailedBlocksThrough(s, block) ==
  /\ failed' = [failed EXCEPT ![s] = {b \in @ : b > block}]
  /\ UNCHANGED <<cpBlock, cpHash, isPaused>>

SetPaused(s, paused) ==
  /\ isPaused' = [isPaused EXCEPT ![s] = paused]
  /\ UNCHANGED <<cpBlock, cpHash, failed>>
=============================================================================
