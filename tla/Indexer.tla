------------------------------ MODULE Indexer ------------------------------
(***************************************************************************)
(* The indexer process in tail mode: two Scanners, "factory" and "curves", *)
(* that run concurrently in one process over one database.                 *)
(*                                                                         *)
(* One action is one await of Scanner.tick: a read of the chain, or one    *)
(* statement of the database.  Between two of them the other stream, the   *)
(* chain, an operator or a crash may act.  pc[s] names the await stream s  *)
(* is about to make, and the other per-stream variables are the locals of  *)
(* tick that are still alive there.                                        *)
(*                                                                         *)
(* The factory stream owns token rows and the curve stream owns trade      *)
(* rows; deleting a token deletes its trades (onDelete: Cascade).  A row   *)
(* is modelled by the block it was recorded from.                          *)
(***************************************************************************)
EXTENDS Chain, Checkpoints, FiniteSets

CONSTANTS
  ConfirmationDepth,  \* CONFIRMATION_DEPTH
  QuietReorgs,        \* TRUE: the chain reorganises only between two ticks
  ReadsMayFail,       \* TRUE: the reads of prepareLaunch may fail
  Pausable,           \* the streams an operator pauses and resumes (setPaused)
  FaultsHappen,       \* TRUE: sources, database and processors fail for some time
  MaxFailed,          \* bound: unresolved FailedBlock rows at one time
  MaxMisreads,        \* bound: blockHash answers of an endpoint on another fork
  MaxCrashes          \* bound: how often the process dies and is restarted

ASSUME IndexerAssumption ==
  /\ IsFiniteSet(Trades)
  /\ ConfirmationDepth \in Nat
  /\ QuietReorgs \in BOOLEAN
  /\ ReadsMayFail \in BOOLEAN
  /\ Pausable \subseteq Streams
  /\ FaultsHappen \in BOOLEAN
  /\ MaxFailed \in Nat
  /\ MaxMisreads \in Nat
  /\ MaxCrashes \in Nat

VARIABLES
  tokenBlock,   \* Token rows: launchBlock, 0 when there is no row
  tradeBlock,   \* Trade rows: blockNumber, 0 when there is no row
  tradeCount,   \* the aggregate stored in Token.tradeCount
  pc,           \* the await each stream's tick is at
  at,           \* checkpoint.lastProcessedBlock as read by this tick
  top,          \* confirmed head, then boundary, then reached; or rollbackTo
  stamp,        \* recordedHash, the one being verified or given up; then reachedHash
  found,        \* the logs being processed, as <<log, block>> pairs
  orphaned,     \* a token matched by the curve stream's window lost its row
  misreads, crashes,
  calm,         \* sources, database and processors have stopped failing
  skipped       \* observed only: tokens some window's prepareLaunch gave up on

dbVars == <<tokenBlock, tradeBlock, tradeCount>>
tickVars == <<pc, at, top, stamp, found, orphaned>>
auxVars == <<misreads, crashes, calm, skipped>>
vars == <<chainVars, checkpointVars, dbVars, tickVars, auxVars>>

\* createMany with skipDuplicates: an existing row is left as it is.
InsertMissing(rows, logs) ==
  [k \in DOMAIN rows |->
     IF rows[k] = 0 /\ (\E l \in logs : l[1] = k)
     THEN (CHOOSE l \in logs : l[1] = k)[2] ELSE rows[k]]

TradesOf(t, rows) == {x \in Trades : TokenOf[x] = t /\ rows[x] # 0}

-----------------------------------------------------------------------------
(* Leaving a tick, and what may go wrong in one.                           *)

\* tick returns or throws; the tail loop sleeps and starts another one.
Return(s) ==
  /\ pc' = [pc EXCEPT ![s] = "idle"]
  /\ at' = [at EXCEPT ![s] = 0]
  /\ top' = [top EXCEPT ![s] = 0]
  /\ stamp' = [stamp EXCEPT ![s] = NoHash]
  /\ found' = [found EXCEPT ![s] = {}]
  /\ orphaned' = (orphaned /\ s # "curves")

GoTo(s, label) == pc' = [pc EXCEPT ![s] = label]

Idle(s) == pc[s] = "idle"

\* The await fails: the source is unavailable or the range too wide, or the database
\* is unreachable.  Nothing more is written and the checkpoint is retained.
Abandon(s) ==
  /\ ~Idle(s)
  /\ Return(s)
  /\ UNCHANGED <<chainVars, checkpointVars, dbVars, auxVars>>

Processing == {"record", "phases", "match", "insert", "stats"}

\* options.process throws anything else: the range is recorded as failed.
ProcessFails(s) ==
  /\ pc[s] \in Processing
  /\ Cardinality(failed["factory"]) + Cardinality(failed["curves"]) < MaxFailed
  /\ RecordFailedBlock(s, at[s] + 1)
  /\ Return(s)
  /\ UNCHANGED <<chainVars, dbVars, auxVars>>

-----------------------------------------------------------------------------
(* Scanner.tick, up to the processor.                                      *)

BeginTick(s) ==
  /\ Idle(s)
  /\ ~isPaused[s]
  /\ at' = [at EXCEPT ![s] = cpBlock[s]]
  /\ IF cpHash[s] # NoHash /\ cpBlock[s] > 0
     THEN /\ GoTo(s, "verify")
          /\ stamp' = [stamp EXCEPT ![s] = cpHash[s]]
     ELSE /\ GoTo(s, "head")
          /\ UNCHANGED stamp
  /\ UNCHANGED <<top, found, orphaned>>
  /\ UNCHANGED <<chainVars, checkpointVars, dbVars, auxVars>>

\* What an endpoint on a fork of its own answers: the hash of no canonical block.
ForeignHash == MaxReorgs + 2

\* Mutant of RollbackTarget: rewind to the divergence only.
ToRecorded(block) == block

\* checkForReorg: rewind past the divergence, not just to it.
RollbackTarget(block) ==
  IF block > ConfirmationDepth THEN block - ConfirmationDepth ELSE 0

\* handleReorg, up to the verdict.  The endpoint asked may be on a fork of its own.
Verify(s) ==
  /\ pc[s] = "verify"
  /\ \E misread \in BOOLEAN :
       /\ misread => misreads < MaxMisreads
       /\ misreads' = IF misread THEN misreads + 1 ELSE misreads
       /\ IF misread \/ Hash(at[s]) # stamp[s]
          THEN /\ GoTo(s, "delete")
               /\ top' = [top EXCEPT ![s] = RollbackTarget(at[s])]
               /\ UNCHANGED stamp
          ELSE /\ GoTo(s, "head")
               /\ stamp' = [stamp EXCEPT ![s] = NoHash]
               /\ UNCHANGED top
  /\ UNCHANGED <<at, found, orphaned>>
  /\ UNCHANGED <<chainVars, checkpointVars, dbVars, crashes, calm, skipped>>

\* Mutant of VerifyFails: an unreadable hash taken for a reorg.
FailureIsReorg(s) ==
  /\ pc[s] = "verify"
  /\ GoTo(s, "delete")
  /\ top' = [top EXCEPT ![s] = RollbackTarget(at[s])]
  /\ UNCHANGED <<at, stamp, found, orphaned>>
  /\ UNCHANGED <<chainVars, checkpointVars, dbVars, auxVars>>

\* handleReorg's blockHash read fails: that is not a reorg, the tick goes on.
VerifyFails(s) ==
  /\ pc[s] = "verify"
  /\ GoTo(s, "head")
  /\ stamp' = [stamp EXCEPT ![s] = NoHash]
  /\ UNCHANGED <<at, top, found, orphaned>>
  /\ UNCHANGED <<chainVars, checkpointVars, dbVars, auxVars>>

NoBlock == 0

\* safeHead: null when the chain is not deeper than the depth.
SafeHead == IF Height > ConfirmationDepth THEN Height - ConfirmationDepth ELSE NoBlock

\* source.head, and the comparison with the checkpoint.
ReadHead(s) ==
  /\ pc[s] = "head"
  /\ LET confirmed == SafeHead IN
       IF confirmed = NoBlock \/ (s = "factory" /\ confirmed <= at[s])
       THEN Return(s)
       ELSE /\ GoTo(s, IF s = "curves" THEN "ceiling" ELSE "fetch")
            /\ top' = [top EXCEPT ![s] = confirmed]
            /\ UNCHANGED <<at, stamp, found, orphaned>>
  /\ UNCHANGED <<chainVars, checkpointVars, dbVars, auxVars>>

\* Mutant of Ceiling: strictly below the factory checkpoint.
OneBelow(confirmed) ==
  IF cpBlock["factory"] <= confirmed THEN cpBlock["factory"] - 1 ELSE confirmed

\* maxBlock of the curve scanner: the factory checkpoint, read once per tick.
Ceiling(confirmed) ==
  IF cpBlock["factory"] < confirmed THEN cpBlock["factory"] ELSE confirmed

ReadCeiling ==
  /\ pc["curves"] = "ceiling"
  /\ LET boundary == Ceiling(top["curves"]) IN
       IF boundary <= at["curves"]
       THEN Return("curves")
       ELSE /\ GoTo("curves", "fetch")
            /\ top' = [top EXCEPT !["curves"] = boundary]
            /\ UNCHANGED <<at, stamp, found, orphaned>>
  /\ UNCHANGED <<chainVars, checkpointVars, dbVars, auxVars>>

LogsOf(s, block) == IF s = "factory" THEN block.launches ELSE block.trades

\* Mutant of LogsIn: an exclusive upper bound.
SkipsLast(s, from, to) == UNION {LogsOf(s, chain[h]) \X {h} : h \in from .. to - 1}

LogsIn(s, from, to) ==
  UNION {LogsOf(s, chain[h]) \X {h} : h \in from..to}

\* source.getLogs: the source answers up to the block its window reaches.
FetchLogs(s) ==
  /\ pc[s] = "fetch"
  /\ \E reached \in (at[s] + 1)..top[s] :
       /\ top' = [top EXCEPT ![s] = reached]
       /\ found' = [found EXCEPT ![s] = LogsIn(s, at[s] + 1, reached)]
  /\ GoTo(s, "stamp")
  /\ UNCHANGED <<at, stamp, orphaned>>
  /\ UNCHANGED <<chainVars, checkpointVars, dbVars, auxVars>>

\* The hash of the block reached, read before anything is written.
ReadStamp(s) ==
  /\ pc[s] = "stamp"
  /\ \/ /\ stamp' = [stamp EXCEPT ![s] = Hash(top[s])]
        /\ UNCHANGED misreads
     \/ /\ misreads < MaxMisreads
        /\ misreads' = misreads + 1
        /\ stamp' = [stamp EXCEPT ![s] = ForeignHash]
  /\ GoTo(s, IF s = "factory" THEN "record" ELSE "match")
  /\ UNCHANGED <<at, top, found, orphaned>>
  /\ UNCHANGED <<chainVars, checkpointVars, dbVars, crashes, calm, skipped>>

-----------------------------------------------------------------------------
(* processFactoryLogs.                                                     *)

\* prepareLaunch for every launch of the window, then one insert of those prepared.
\* A launch is dropped when the factory no longer knows it, or when a read fails.  The reads
\* of the launches are awaits of their own; no property depends on a point between them.
RecordLaunches ==
  /\ pc["factory"] = "record"
  /\ \E prepared \in SUBSET found["factory"] :
       LET dropped == found["factory"] \ prepared IN
       /\ \A l \in prepared : OnChain(l[1], chain)
       /\ \A l \in dropped : ReadsMayFail \/ ~OnChain(l[1], chain)
       /\ tokenBlock' = InsertMissing(tokenBlock, prepared)
       /\ skipped' = skipped \union {l[1] : l \in dropped}
  /\ GoTo("factory", "phases")
  /\ UNCHANGED <<at, top, stamp, found, orphaned>>
  /\ UNCHANGED <<chainVars, checkpointVars, tradeBlock, tradeCount, misreads, crashes,
                 calm>>

-----------------------------------------------------------------------------
(* processCurveLogs.                                                       *)

\* findManyByCurves: a log whose token has no row is counted as unmatched and dropped.
Matched(logs) == {l \in logs : tokenBlock[TokenOf[l[1]]] # 0}

MatchTrades ==
  /\ pc["curves"] = "match"
  /\ found' = [found EXCEPT !["curves"] = Matched(@)]
  /\ GoTo("curves", "insert")
  /\ UNCHANGED <<at, top, stamp, orphaned>>
  /\ UNCHANGED <<chainVars, checkpointVars, dbVars, auxVars>>

\* recordMany.  A matched token whose row is gone breaks the foreign key: the whole
\* insert fails (InsertRejected).
InsertTrades ==
  /\ pc["curves"] = "insert"
  /\ ~orphaned
  /\ tradeBlock' = InsertMissing(tradeBlock, found["curves"])
  /\ GoTo("curves", "stats")
  /\ UNCHANGED <<at, top, stamp, found, orphaned>>
  /\ UNCHANGED <<chainVars, checkpointVars, tokenBlock, tradeCount, auxVars>>

InsertRejected ==
  /\ pc["curves"] = "insert"
  /\ orphaned
  /\ RecordFailedBlock("curves", at["curves"] + 1)
  /\ Return("curves")
  /\ UNCHANGED <<chainVars, dbVars, auxVars>>

\* Mutant of Touched: only tokens with trades not stored yet.
NewlyTraded == {TokenOf[l[1]] : l \in {k \in found["curves"] : tradeBlock[k[1]] = 0}}

\* refreshTokenStatsBatch: the aggregates of every touched token, from stored rows.
Touched == {TokenOf[l[1]] : l \in found["curves"]}

RefreshStats ==
  /\ pc["curves"] = "stats"
  /\ tradeCount' = [t \in Tokens |->
                      IF t \in Touched /\ tokenBlock[t] # 0
                      THEN Cardinality(TradesOf(t, tradeBlock)) ELSE tradeCount[t]]
  /\ GoTo("curves", "phases")
  /\ UNCHANGED <<at, top, stamp, found, orphaned>>
  /\ UNCHANGED <<chainVars, checkpointVars, tokenBlock, tradeBlock, auxVars>>

\* Both processors end with the phase changes their windows report: reads that may
\* throw, and writes to Token.phase, which is not modelled here.
SyncPhases(s) ==
  /\ pc[s] = "phases"
  /\ GoTo(s, "find")
  /\ UNCHANGED <<at, top, stamp, found, orphaned>>
  /\ UNCHANGED <<chainVars, checkpointVars, dbVars, auxVars>>

-----------------------------------------------------------------------------
(* Scanner.tick, after the processor.                                      *)

AdvanceFind(s) ==
  /\ pc[s] = "find"
  /\ IF MayAdvance(s, top[s])
     THEN /\ GoTo(s, "advance")
          /\ UNCHANGED <<at, top, stamp, found, orphaned>>
     ELSE Return(s)
  /\ UNCHANGED <<chainVars, checkpointVars, dbVars, auxVars>>

Advance(s) ==
  /\ pc[s] = "advance"
  /\ AdvanceTo(s, top[s], stamp[s])
  /\ GoTo(s, "resolve")
  /\ UNCHANGED <<at, top, stamp, found, orphaned>>
  /\ UNCHANGED <<chainVars, dbVars, auxVars>>

Resolve(s) ==
  /\ pc[s] = "resolve"
  /\ ResolveFailedBlocksThrough(s, top[s])
  /\ Return(s)
  /\ UNCHANGED <<chainVars, dbVars, auxVars>>

-----------------------------------------------------------------------------
(* handleReorg, once the hashes differ.                                    *)

\* Mutant of Doomed: a deletion that starts one block too high.
AllButNext(block) == {t \in Tokens : tokenBlock[t] > block + 1}

Doomed(block) == {t \in Tokens : tokenBlock[t] > block}

\* deleteAbove of the factory scanner, and the trades that go with the tokens.
DeleteTokensAbove ==
  /\ pc["factory"] = "delete"
  /\ LET doomed == Doomed(top["factory"]) IN
       /\ tokenBlock' = [t \in Tokens |-> IF t \in doomed THEN 0 ELSE tokenBlock[t]]
       /\ tradeBlock' = [x \in Trades |->
                           IF TokenOf[x] \in doomed THEN 0 ELSE tradeBlock[x]]
       /\ tradeCount' = [t \in Tokens |-> IF t \in doomed THEN 0 ELSE tradeCount[t]]
       /\ orphaned' = (orphaned \/ (pc["curves"] = "insert" /\ Touched \cap doomed # {}))
  /\ GoTo("factory", "rewind")
  /\ UNCHANGED <<at, top, stamp, found>>
  /\ UNCHANGED <<chainVars, checkpointVars, auxVars>>

\* deleteAbove of the curve scanner.  Token.tradeCount is not touched.
DeleteTradesAbove ==
  /\ pc["curves"] = "delete"
  /\ tradeBlock' = [x \in Trades |->
                      IF tradeBlock[x] > top["curves"] THEN 0 ELSE tradeBlock[x]]
  /\ GoTo("curves", "rewind")
  /\ UNCHANGED <<at, top, stamp, found, orphaned>>
  /\ UNCHANGED <<chainVars, checkpointVars, tokenBlock, tradeCount, auxVars>>

\* rollbackTo of the stream's own checkpoint; only the factory has a cascade to run.
Rewind(s) ==
  /\ pc[s] = "rewind"
  /\ RollbackTo(s, top[s])
  /\ IF s = "factory"
     THEN /\ GoTo(s, "cascade")
          /\ UNCHANGED <<at, top, stamp, found, orphaned>>
     ELSE Return(s)
  /\ UNCHANGED <<chainVars, dbVars, auxVars>>

\* rollbackIfAhead of the curve stream: the read ...
CascadeFind ==
  /\ pc["factory"] = "cascade"
  /\ IF IsAhead("curves", top["factory"])
     THEN /\ GoTo("factory", "cascade_write")
          /\ UNCHANGED <<at, top, stamp, found, orphaned>>
     ELSE Return("factory")
  /\ UNCHANGED <<chainVars, checkpointVars, dbVars, auxVars>>

\* ... and the update.
CascadeWrite ==
  /\ pc["factory"] = "cascade_write"
  /\ RollbackTo("curves", top["factory"])
  /\ Return("factory")
  /\ UNCHANGED <<chainVars, dbVars, auxVars>>

-----------------------------------------------------------------------------
(* The process, its operator and the chain.                                *)

\* The process dies wherever it is.  Start-up fast-forwards the curve stream to just
\* before the earliest indexed launch, and then both tails begin.
LaunchBlocks == {tokenBlock[t] : t \in Tokens} \ {0}

Restart ==
  /\ crashes < MaxCrashes
  /\ crashes' = crashes + 1
  /\ \/ LaunchBlocks = {} /\ UNCHANGED checkpointVars
     \/ \E earliest \in LaunchBlocks :
          /\ \A b \in LaunchBlocks : earliest <= b
          /\ FastForward("curves", earliest - 1)
  /\ pc' = [s \in Streams |-> "idle"]
  /\ at' = [s \in Streams |-> 0]
  /\ top' = [s \in Streams |-> 0]
  /\ stamp' = [s \in Streams |-> NoHash]
  /\ found' = [s \in Streams |-> {}]
  /\ orphaned' = FALSE
  /\ UNCHANGED <<chainVars, dbVars, misreads, calm, skipped>>

Pause(s) ==
  /\ s \in Pausable
  /\ \E paused \in BOOLEAN : SetPaused(s, paused)
  /\ UNCHANGED <<chainVars, dbVars, tickVars, auxVars>>

\* The outage, if there is one, ends.
CalmDown ==
  /\ ~calm
  /\ calm' = TRUE
  /\ UNCHANGED <<chainVars, checkpointVars, dbVars, tickVars, misreads, crashes, skipped>>

indexerVars == <<checkpointVars, dbVars, tickVars, auxVars>>

ChainGrows == Mine /\ UNCHANGED indexerVars

ChainReorganises ==
  /\ QuietReorgs => \A s \in Streams : Idle(s)
  /\ Reorg
  /\ UNCHANGED indexerVars

-----------------------------------------------------------------------------

Init ==
  /\ ChainInit
  /\ CheckpointInit
  /\ tokenBlock = [t \in Tokens |-> 0]
  /\ tradeBlock = [x \in Trades |-> 0]
  /\ tradeCount = [t \in Tokens |-> 0]
  /\ pc = [s \in Streams |-> "idle"]
  /\ at = [s \in Streams |-> 0]
  /\ top = [s \in Streams |-> 0]
  /\ stamp = [s \in Streams |-> NoHash]
  /\ found = [s \in Streams |-> {}]
  /\ orphaned = FALSE
  /\ misreads = 0
  /\ crashes = 0
  /\ calm = ~FaultsHappen
  /\ skipped = {}

\* A tick of stream s goes on by one await.
Step(s) ==
  \/ BeginTick(s)
  \/ Verify(s)
  \/ ReadHead(s)
  \/ FetchLogs(s)
  \/ ReadStamp(s)
  \/ SyncPhases(s)
  \/ AdvanceFind(s)
  \/ Advance(s)
  \/ Resolve(s)
  \/ Rewind(s)

FactoryStep ==
  \/ Step("factory")
  \/ RecordLaunches
  \/ DeleteTokensAbove
  \/ CascadeFind
  \/ CascadeWrite

CurveStep ==
  \/ Step("curves")
  \/ ReadCeiling
  \/ MatchTrades
  \/ InsertTrades
  \/ InsertRejected
  \/ RefreshStats
  \/ DeleteTradesAbove

Fault ==
  /\ ~calm
  /\ \/ \E s \in Streams : Abandon(s) \/ ProcessFails(s) \/ VerifyFails(s)
     \/ Restart

Next ==
  \/ FactoryStep
  \/ CurveStep
  \/ Fault
  \/ \E s \in Streams : Pause(s)
  \/ ChainGrows
  \/ ChainReorganises
  \/ CalmDown

Spec == Init /\ [][Next]_vars

\* Both tails loop for ever, and every await of a tick is answered one way or another.
FairSpec ==
  /\ Spec
  /\ WF_vars(FactoryStep)
  /\ WF_vars(CurveStep)
  /\ WF_vars(ChainGrows)

-----------------------------------------------------------------------------
(* Properties.                                                             *)

Labels == {"idle", "verify", "head", "ceiling", "fetch", "stamp", "record", "phases",
           "match", "insert", "stats", "find", "advance", "resolve", "delete",
           "rewind", "cascade", "cascade_write"}

DbTypeOK ==
  /\ tokenBlock \in [Tokens -> Nat]
  /\ tradeBlock \in [Trades -> Nat]
  /\ tradeCount \in [Tokens -> Nat]

TickTypeOK ==
  /\ pc \in [Streams -> Labels]
  /\ at \in [Streams -> Nat]
  /\ top \in [Streams -> Nat]
  /\ stamp \in [Streams -> Nat]
  /\ found \in [Streams -> SUBSET ((Tokens \union Trades) \X Nat)]
  /\ found["factory"] \subseteq Tokens \X Nat
  /\ orphaned \in BOOLEAN

AuxTypeOK ==
  /\ misreads \in 0..MaxMisreads
  /\ crashes \in 0..MaxCrashes
  /\ calm \in BOOLEAN
  /\ skipped \subseteq Tokens

\* Types of every variable.
TypeOK == ChainTypeOK /\ CheckpointTypeOK /\ DbTypeOK /\ TickTypeOK /\ AuxTypeOK

\* While the curve stream holds a window, the factory checkpoint covers it: a curve
\* log is never looked up before the factory stream has finished with its block
\* (maxBlock in index.ts, "Never scan past the factory").
Holding == {"fetch", "stamp", "match", "insert", "stats", "phases", "find", "advance"}

NeverScansPastFactory ==
  pc["curves"] \in Holding => top["curves"] <= cpBlock["factory"]

\* The token rows a factory checkpoint vouches for are those of the canonical chain:
\* no row at or below it names a block without that launch, and no launch below it
\* lacks its row, unless prepareLaunch gave up on it.
LaunchesExact ==
  LET covered == StartBlock + 1 .. cpBlock["factory"] IN
  /\ \A t \in Tokens : tokenBlock[t] \in covered => t \in chain[tokenBlock[t]].launches
  /\ \A h \in covered : \A t \in chain[h].launches :
       tokenBlock[t] = h \/ t \in skipped

\* A recorded hash that is canonical vouches for everything below it, because block
\* hashes chain: it is what handleReorg trusts before it lets a tick go on.
Vouched(s) == cpHash[s] # NoHash /\ cpHash[s] = Hash(cpBlock[s])

\* After a reorganisation and the rollback it causes, once the factory checkpoint has a
\* canonical hash again, its token rows are those of the new chain: rewinding by the
\* confirmation depth reached every row that had to go, and every launch came back.
\* That holds also when the reorganisation was only an endpoint's misreading.
VouchedLaunchesExact ==
  Vouched("factory") /\ pc["factory"] # "rewind" => LaunchesExact

\* The curve stream's counterpart: no stored trade at or below a canonical checkpoint
\* is missing from the chain (reorg.ts: re-scanning "costs nothing compared to
\* persisting a trade that no longer exists").
VouchedTradesCanonical ==
  Vouched("curves") =>
    \A x \in Trades : tradeBlock[x] \in 1..cpBlock["curves"]
                      => x \in chain[tradeBlock[x]].trades

\* No trade of a token that has a row is missing at or below two canonical
\* checkpoints: what the factory's rollback deleted with its tokens has come back
\* through the cascade to the curve checkpoint (scanner.ts: "Anything this deletion
\* invalidated for another stream has to come back with it").
CascadeBringsTradesBack ==
  Vouched("factory") /\ Vouched("curves") =>
    \A h \in StartBlock + 1 .. cpBlock["curves"] : \A x \in chain[h].trades :
      tokenBlock[TokenOf[x]] # 0 => tradeBlock[x] # 0

\* Once a canonical curve checkpoint covers every stored trade of a token, the stored
\* aggregate counts exactly those trades (curve.ts: "a replay cannot inflate them,
\* and a rollback cannot leave them stale").
StatsFresh ==
  Vouched("curves") => \A t \in Tokens :
    (\A x \in TradesOf(t, tradeBlock) : tradeBlock[x] <= cpBlock["curves"])
      => tradeCount[t] = Cardinality(TradesOf(t, tradeBlock))

\* No tick, crash or race moves a checkpoint back, so no block is scanned twice for
\* good: the promise of a confirmation depth no reorganisation reaches.
CheckpointsNeverMoveBack ==
  [][\A s \in Streams : cpBlock[s] <= cpBlock'[s]]_vars

\* When the factory stream rewinds, what it leaves is sound: no token row above the new
\* checkpoint, and every row at or below it on the canonical chain.  That is what
\* deleting before rewinding, and rewinding by the confirmation depth, are for.
RewindLeavesOnlyCanonicalLaunches ==
  [][cpBlock'["factory"] < cpBlock["factory"] =>
       \A t \in Tokens : tokenBlock'[t] # 0 =>
         /\ tokenBlock'[t] <= cpBlock'["factory"]
         /\ t \in chain[tokenBlock'[t]].launches]_vars

\* A checkpoint moves down only for a recorded hash that is no longer canonical, not even
\* when it moves two awaits after the verdict (scanner.ts: never "on the strength of an RPC
\* hiccup").  The curve stream's moves down for the factory's cascade too, and for its own
\* advance when a cascade has just moved it up.
RewindsOnlyOrphans ==
  [][\A s \in Streams : cpBlock'[s] < cpBlock[s] =>
       \/ pc[s] = "rewind" /\ stamp[s] # NoHash /\ stamp[s] # Hash(at[s])
       \/ /\ s = "curves"
          /\ \/ pc["factory"] = "cascade_write"
             \/ pc["curves"] = "advance" /\ cpHash["curves"] = NoHash]_vars

\* The cascade only ever pulls the curve stream back ("a no-op for a stream already at or
\* below the rollback point", checkpoint.ts).
CascadeOnlyPullsBack == [][CascadeWrite => cpBlock'["curves"] <= cpBlock["curves"]]_vars

\* A tick that moves a checkpoint up starts from a block that is still canonical: no
\* reorganisation goes unnoticed ("Cannot verify right now. Doing nothing is correct",
\* scanner.ts, of a tick that then goes on).
AdvancesFromCanonical ==
  [][\A s \in Streams : cpBlock'[s] > cpBlock[s] /\ cpHash[s] # NoHash => Vouched(s)]_vars

\* A FailedBlock row is resolved only when the stream's checkpoint has passed the
\* block ("any failure at or below it has been retried", checkpoint.ts).
FailuresResolvedOnlyWhenPassed ==
  [][\A s \in Streams : \A b \in failed[s] \ failed'[s] : b <= cpBlock[s]]_vars

\* If the source and the database fail only for a while, both streams reach the
\* confirmed head of a chain that has stopped, whatever reorganisations, crashes and
\* rollbacks came before: neither stream waits on the other for ever (scanner.ts on
\* maxBlock: "That produced a real deadlock").
AtConfirmedHead(s) == cpBlock[s] = MaxHead - ConfirmationDepth

CatchesUp == <>calm => <>[](\A s \in Streams : AtConfirmedHead(s))

-----------------------------------------------------------------------------
(* The abstract specification, implemented while the chain reorganises no  *)
(* deeper than the confirmation depth.                                     *)

\* The rows a checkpoint has reached; rows above it belong to a window in flight.
ConfirmedLog == SubSeq(chain, 1, SafeHead)

RowsThrough(rows, block) ==
  {<<k, rows[k]>> : k \in {j \in DOMAIN rows : rows[j] \in 1..block}}

Ledger == INSTANCE ConfirmedLedger WITH
  First <- StartBlock,
  log <- ConfirmedLog,
  covered <- [factory |-> cpBlock["factory"], curves |-> cpBlock["curves"]],
  launches <- RowsThrough(tokenBlock, cpBlock["factory"]),
  trades <- RowsThrough(tradeBlock, cpBlock["curves"]),
  givenUp <- skipped

\* The indexer implements the ledger: two readers of an append-only log, each taking
\* its blocks in exactly once and in order, under every crash, failure and interleaving.
RefinesLedger == Ledger!LedgerSpec
=============================================================================
