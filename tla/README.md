# Stunks in TLA+

Stunks is a launchpad front end for the pons bonding-curve protocol: an indexer copies
launches and trades from the chain into PostgreSQL, a web application shows them and
prepares transactions, and a few scripts age and rank the data. This directory holds TLA+
models of the parts whose correctness depends on order, failure and arithmetic at a
boundary, the TLC configurations that check them on small instances, and proofs of the
central invariants for every value of the constants.

`PROJECT.json` is the index: components, runs, mutants, the source lines behind every
definition, hazards, findings and theorems. Paths below are relative to the repository.

## 1. The system

| Component | Source | State | Operations | Interacts with |
|---|---|---|---|---|
| Scanner | `apps/indexer/src/scanner.ts`, `reorg.ts`, `index.ts` | the locals of one tick; a paused flag and one row per stream in the database | `tick`, `handleReorg`, `runTail`, `runBackfill`; start-up `fastForward` | a LogSource, the processors, the checkpoint repository |
| Checkpoints | `packages/database/src/repositories/checkpoint.ts` | `IndexerCheckpoint` and `FailedBlock` rows | `advance`, `rollbackTo`, `rollbackIfAhead`, `fastForward`, `setPaused`, `recordFailedBlock`, `resolveFailedBlocksThrough` | both scanners, an operator |
| Factory processor | `processors/factory.ts`, `repositories/launch-batch.ts`, `token.ts` | `Token`, `Creator` rows | `processFactoryLogs`, `deleteAboveBlock` | contract reads through the pool |
| Curve processor | `processors/curve.ts`, `repositories/trade-batch.ts`, `trade.ts` | `Trade` rows, counters and prices on `Token` | `processCurveLogs`, `syncTokenPhases`, `refreshTokenStatsBatch` | `Token` rows written by the factory stream |
| RPC log source | `sources/rpc.ts`, `packages/web3/src/log-range.ts` | the adaptive window | `getLogs`, `onSuccess`, `onRejected` | the pool |
| RPC pool | `packages/web3/src/rpc-pool.ts`, `errors.ts` | health, cooldown, pacing and batch limit of each endpoint | `request`, `requestBatch` | every reader of the chain |
| HyperSync source | `sources/hypersync.ts` | none | `getLogs` | an archive service |
| Retention scripts | `scripts/rollup-aggregates.ts`, `score-trending.ts`, `prune-trades.ts` | `Candle`, `VolumeSnapshot`, trending scores; they delete `Trade` rows | one run each, by hand or by a timer | the tables the indexer writes |
| Curve mathematics | `packages/pons/src/curve/*`, `fees/split.ts`, `packages/utils/src/money.ts` | none | buys, sells, quotes, price impact, snipe tax | trade and bundle preparation |
| Trade and bundle preparation | `packages/pons/src/trade/*` | none | `prepareTrade`, `needsApproval`, `planBundle` | the web application |
| Launch | `packages/pons/src/launch/*`, `apps/web/src/app/launch/*` | the fields of a form, the state of one transaction | `submit`: builder, exemptions, funding, transaction states | the wallet, the factory's terms, the bundle |
| Contract reads, graduation | `packages/pons/src/client`, `graduation`, `events` | one cached address record | stateless reads | indexer and web application |
| Explore, ranking | `repositories/explore.ts`, `trending.ts` | a cursor | the token list page by page, whether it is ranked | rows of `Token`, the web application |
| Web application | `apps/web` | React state of forms | trade panel, token page, explore page | wallet, pool, database |
| Maintenance scripts | `scripts/backfill-metadata.ts`, `moderate.ts` and others | a buffer of one run | pictures of tokens, moderation with its audit log | rows of `Token` |

The two streams of the indexer are two loops in one Node process. They share no memory;
they share rows. The curve stream reads the factory's checkpoint at the start of a window
(`maxBlock`), looks tokens up by curve address, and inserts trades with a foreign key to
them. The factory stream, when it detects a reorganisation, deletes tokens, which deletes
their trades (`onDelete: Cascade`), and rewinds the curve stream's checkpoint
(`cascadeStreams`). Every `await` is a point where the other loop, the chain, an operator
or a crash may act, and no transaction spans two of them.

### What is hard, and what makes each part correct

* **Scanner.** The chain moves between any two reads; logs and the hash recorded for them
  come from separate calls; a crash falls between processing and `advance`; the other
  stream moves this stream's checkpoint. Correct: rows at or below a checkpoint are those
  of the canonical chain, nothing is skipped, both streams reach the confirmed head.
* **Loops.** A backfill has two loops of which one decides when the other may end; the tail
  slows its factory stream down by what it last knew of both. Correct: a checkpoint claims
  what was scanned, a backfill ends with both streams done, and a factory that falls behind
  is not held back.
* **Checkpoints.** `advance`, `rollbackIfAhead` and `fastForward` read the row and then
  write it. Correct: a race loses no rewind and moves no checkpoint back without a cause.
* **Processors.** Partial writes followed by a retry; one launch of several failing; a
  token deleted between lookup and insert. Correct: replay converges to the same rows and
  counters.
* **Window.** Endpoints refuse ranges for a limit they do not state truthfully, and fail
  for other reasons with the same error. Correct: the window converges on the limit and a
  refused range is eventually served.
* **Retention.** Three scripts and the indexer touch the same hours, and each script may
  die between two statements. Correct: a candle never tells part of an hour, nothing is
  pruned that no candle covers, a second run completes the first.
* **Pool.** Concurrent calls share health and limits across awaits, and fix the order in
  which they ask before the first of them; a batch limit can reach zero. Correct: no
  endpoint that could answer is left out, an answer is complete, every call ends, and
  batching is not given up without cause.
* **Curve and bundles.** Rounding, caps at graduation, taxes that decay; the buys of a
  bundle land late, with gaps, among strangers' trades. Correct: no trade gives value
  away, a floor never rejects an order that the bundle itself can produce, and what is
  shown of a buy is what became of it.
* **Trade panel.** Quotes answer in any order while the user types; a trade is priced,
  approved, signed and awaited across six awaits, each of which may fail. Correct: what is
  signed is what the form shows, the allowance suffices, and what the panel says of a
  trade is true.
* **Trade preparation.** A quote is put together from reads of different moments, partly
  by local arithmetic and partly by simulation. Correct: what is signed undisturbed brings
  what was quoted, no tax exceeds the one shown, and while the reads are answered nothing
  possible is refused.
* **Launch form.** Up to a dozen awaits between the button and the token, two of them
  signatures, on terms that a third party may change. Correct: the money, pair, tax and
  wallets that are signed are those the form shows, at terms the signer saw, for a plan the
  wallet can pay; protected buys are exempt. Name and image may be edited to the end.
* **Catalogue.** Five writers of one table, by hand, by timer or for ever, and readers who
  come back for the next page. Correct: a traversal misses nothing that stayed, a picture
  is never given up for want of an answer, the audit log explains what is hidden.

## 2. Modules

| Module | Models | Uses |
|---|---|---|
| `Chain` | the canonical chain: blocks with launches and trades, hashes, `Mine` and `Reorganise` | |
| `Checkpoints` | both streams' checkpoint rows and failed blocks, split between read and write | `Chain` |
| `Indexer` | two scanners, two processors, rows, crashes, an operator; the refinement mapping to `ConfirmedLedger` | `Chain`, `Checkpoints` |
| `ConfirmedLedger` | what the indexer promises: two readers of an append-only log | |
| `MCIndexer` | instances for TLC | `Indexer` |
| `IndexerProofs` | types; under shallow reorganisations the rows, the counters and the refinement of `ConfirmedLedger`; what is left of that under deeper ones | `Indexer`, TLAPS |
| `RunControl` | the loops of `main()`: one-shot backfill and tail, ticks reduced to what they report | |
| `MCRunControl` | a backfill over HyperSync and a tail over RPC | `RunControl` |
| `RunControlProofs` | types, checkpoints, the end of a backfill, the lag of the factory | `RunControl`, TLAPS |
| `LogWindow` | `AdaptiveLogWindow` and the way `getLogs` drives it | |
| `Retention` | rollup, ranking and pruning beside the indexer | |
| `MCRetention` | an instance for TLC | `Retention` |
| `RetentionProofs` | candles are complete and final, pruning deletes nothing uncovered | `Retention`, TLAPS |
| `RpcPool` | callers that share a pool of endpoints: failover, cooldowns, batches and chunks | |
| `MCRpcPool` | two callers and two endpoints for TLC | `RpcPool` |
| `RpcPoolProofs` | the inductive invariant of the pool; bounds of the log window, soundness of its bracket | `RpcPool`, `LogWindow`, TLAPS |
| `Curve` | the reserves of a curve; money and curve arithmetic: fees, buys with their clamp, sells | |
| `Bundle` | `planBundle`, and `runBundle` of the launch form beside a moving curve | `Curve` |
| `MCBundle` | a curve with the proportions of a real launch, in percent | `Bundle` |
| `BundleProofs` | solvency of the curve, and that no round trip pays; results shown are results; a bundle clears its own floors; quotes are kept, taxes told, refusals right | `Bundle`, `Quotes`, TLAPS |
| `Quotes` | `prepareTrade` from its first read to the mined transaction, and the token page | `Curve` |
| `MCQuotes` | the same curve, a tax that decays over three seconds | `Quotes` |
| `TradePanel` | quoting and sending of the trade panel, wallet and chain | |
| `TradePanelProofs` | the inductive invariant of the panel | `TradePanel`, TLAPS |
| `LaunchForm` | the launch form from the first keystroke to the protected buys, with wallet, factory and chain | |
| `MCLaunchForm` | one ERC-20 pair, one row | `LaunchForm` |
| `LaunchFormProofs` | the inductive invariant of the launch form | `LaunchForm`, TLAPS |
| `Catalogue` | the token table with its writers, and a visitor who pages through it | |
| `CatalogueProofs` | the three promises of the catalogue, lists and pages in order | `Catalogue`, TLAPS |

Some definitions are marked `Mutant of X` in a comment. They are plausible slips in the
code behind X, with the parameters of X; no action uses them. Each property of a passing
run has one, listed under `mutants`: put in the place of X it must make TLC report the
property.

### Indexer

`pc[s]` names the await that stream `s` is about to make. One pass through `tick` is

    idle -> verify -> head -> ceiling (curves) -> fetch -> stamp
         -> record -> phases                        (factory)
         -> match -> insert -> stats -> phases      (curves)
         -> find -> advance -> resolve -> idle

and a failed verification goes `delete -> rewind -> cascade -> cascade_write -> idle`.
`BeginTick` is the entry of `tick` with its paused check, `Verify` and `VerifyFails` are
`handleReorg` up to its verdict, `ReadHead` is `safeHead` and its comparison with the
checkpoint, `ReadCeiling` is `maxBlock`, `FetchLogs` is `getLogs` (any prefix of the range,
since a source returns how far it got), `ReadStamp` is the hash of the last block reached,
`RecordLaunches` to `SyncPhases` are the processors, `AdvanceFind`, `Advance` and `Resolve`
are the calls on the checkpoint repository. `DeleteTokensAbove`, `DeleteTradesAbove`,
`Rewind`, `CascadeFind` and `CascadeWrite` are the rollback, during which `stamp[s]` keeps
the recorded hash that was found wanting. `Abandon` is every await that
throws because a source or the database is away; `ProcessFails` is every other throw of a
processor, which also writes a `FailedBlock` row. `Restart` is a crash of the process, the
start-up `fastForward` of the curve stream included. `at`, `top`, `stamp` and `found` are
the locals of `tick` that are alive at that await.

A row is the block it was recorded from (0: no row); a token and its launch have the same
name, and so have a trade row and its log. A block's hash is the number of the
reorganisation that made it, which is unique per height, so two blocks have equal hashes
exactly when they are the same block. `isPaused` is read at the start of a tick.

### RunControl

One tick is four steps (`Begin`, `ReadHead`, `ReadCeiling`, `FetchLogs`) and its end
(`Advance`, `NothingToScan`, or one of the failures), between which the other stream, the
clock and the chain may move. `Return` hands the `ScanTickResult` to whichever loop asked
for it: `TailReturns` is the body of `Scanner.tail` with `main()`'s `onTick` and
`factoryInterval`, `BackfillReturns` the bodies of `Scanner.backfill` and of `main()`'s
curve loop. `report`, `factoryDone` are `main()`'s locals; `sleep` is the `sleep()` of a
loop, in units of `TAIL_INTERVAL_MS`, one of which is also the time of a block. `covered`
and `gained` are history. What happens to rows, operators who pause a stream, and
reorganisations are in `Indexer`, which has the same ticks in finer steps.

### LogWindow

`span`, `lastGood`, `ceiling` and `successes` are the fields of `AdaptiveLogWindow`, under
their names. `backlog` is the distance from the checkpoint to the boundary, `allows` the
endpoint's limit, which it never states. `Served`, `Rejected` and `TimesOut` are one call
of `getLogs` with its three outcomes, `BoundaryMoves` is the chain growing.

### Retention

Trades have an hour; candles and snapshots are reduced to the number of trades they tell.
`StoreWindow`, `RefreshCounters` and `TakeBack` are the curve stream storing a window,
refreshing counters, and a shallow reorganisation. The scripts are modelled statement by
statement (`StartRollup`, `BuildCandles`, `BuildSnapshots`; `ReadCohort`, `ClearScores`,
`WriteScores`; `StartPrune`, `DeleteChunk`, `EndPrune`), and each may die between two
statements. `ReachHours` is how many hours before the newest one a reorganisation may reach
back into: none, for what the run shows and the theorems say of candles and pruning, and one
for finding 21. One thing is excluded by the guards: the indexer inserting into an hour older
than the newest one it has stored (the one-shot backfill, run together with these scripts).

### RpcPool

`serves[e]` is the largest batch an endpoint takes, which no code knows; `limit[e]` is
`maxBatchSize` (`Unknown` for `null`), `failures` and `cooling` are the health of the
endpoints, `call[c]` is what caller `c` is doing. A caller runs alone between two awaits,
so an action goes from the answer of one POST to the sending of the next: `Answered`,
`Fails`, `Refuses` and `Rejects` are the four ways a POST ends (a result; a failure worth a
retry; a batch that is too large; an error that is thrown at once), `Retry` is the end of a
backoff, `CooldownEnds` that of a cooldown. `Asking` is `requestWholeBatch` up to its first
POST, or one request; `Splitting` is `requestBatchInChunks`; `Throwing` is the `catch` of
`requestBatch`; `MovingOn` is the step to the next endpoint. The caller of batches is the
cache of block times, and `batchUnsupported` is its flag.

Pacing is left out: `respectPacing` returns at once unless an endpoint has `minIntervalMs`,
and none is configured with it. Under the strategy `fastest` the healthy endpoints come in
any order, since latencies are arbitrary. How the text of an error is classified is not
modelled, only the class; a size that a refusal names is taken to be one the endpoint
serves.

### Curve and Bundle

A curve is a pair of reserves; its fees and its reserved allocation are constants, as they
are for one launch. The operators bear the names of the functions. `Net` is what the three
deductions leave of an input, each floored by itself; `Buyable` says where
`computeCurveBuy` does not throw; the factor `BASIS_POINTS` that `getAmountOut` and
`getAmountIn` carry on both sides of their divisions is left out, since both are called
without a fee. In `Bundle`, `PathOf` is the loop that prices the rows one behind the other,
`LastInLine` the order of `worstCaseFloors`, `Refused` every way in which `planBundle` says
no that a row of the form can meet (rows are taken from the exemption list, and a row
without an amount is filtered out before). `CodeSeen` to `BlockRead` are the awaits before
the first signature, `Send`, `Declined` and `AnswerLost` one turn of the signing loop,
`Unsent`, `Receipt` and `ReceiptLost` one turn of the second loop. The curve contract is
external: `Lands` applies the same arithmetic and reverts a buy that misses its floor, where
a clamped buy is held to the price of its floor and not to the quantity, as
`computeCurveBuy`'s comment tells.

### Quotes

`want` holds the arguments of `prepareTrade`, `stage` the read it waits for; `launch`, `state`,
`now` are what it has read, `trade` the `PreparedTrade` or the refusal. `ReadReserves` and
`ReadOver` are two of the calls of `readCurveState`: the browser's client does not batch
them. `Route` is the venue, `ReadTax` is `quoteBuy` up to its choice between local
arithmetic and `simulateBuy`, which is `Simulate`. `SendTrade` and `Mine` stand for what
`TradePanel` has in detail. A refusal bears the code of the quote, all of which
`prepareTrade` passes on as `QUOTE_FAILED`, and whether it came of an answer: to
`simulateBuy` a call that fails is a revert like any other. `page` is one load of the token page, which swallows what
`readCurveState` throws (`Zero`). `time` is the seconds since the launch, by which the tax
halves in `SHIFT_STEPS` steps; `Skews` is the difference of the browser's clock, used when
the block cannot be read. The contract is external: `TaxNow`, `Bought`, `Possible` and
`ClearsFloor` say what the code relies on.

### TradePanel

`inputs`, `prepared`, `phase`, `txHash` are the state of the component; `timer` is the
debounce, `asked` the quotes under way, of which the `newest` bears the current
`requestId`. `at` is the await of `send`, `sending` the values its closure captured.
`Follow` is what the effect of `runQuote` does on every change of the form. The slippage
setting is part of what a quote is for and is edited like the amount, so it has no
component of its own. Transactions of the wallet are mined in the order of their nonces;
`Mine` lets either kind revert. `unseen` marks a transaction whose hash or receipt the
panel never saw.

### LaunchForm

`form` is the fields, `page` what the server rendered, `phase` the phase of `TxState`, `at`
the await of `submit`, `sending` the values its closure captured, `built` the parameters of
`buildLaunchTransaction` that others may change (fee and economics). `Press` is the button
with its conditions, the actions from `DecimalsRead` to `BundleEnds` are the awaits in
order: the launch is built, an ERC-20 opening buy gets its approval, the launch is built
again, simulated, signed, awaited. `Sign`, `Reject`, `AnswerLost` and `Fails` are what a
wallet may answer. `Change` is the owner of the factory or the wallet's other use;
`Accepted` is what router and factory require, as the code's own checks and comments tell.
Details (name, image, links) are one value; only that they may be edited while the rest is
locked matters. Not modelled: the upload and size of an image, and `runBundle`, which is
`Bundle`.

### Catalogue

`rows` is the token table by launch; a row inserted again after a rollback has a new `id`,
as its primary key would. `RecordLaunch` and `DeleteAbove` are the factory stream,
`StartMetadata`, `Examine`, `Drain` are `backfill-metadata.ts`, `ReadToken`, `Moderate`
(and a second moderator, `ModerateAtOnce`) are `moderate.ts`, `ReadCohort`, `ClearScores`,
`WriteScores` are `score-trending.ts` as far as the list sees it. `ListTokens`,
`AskScored`, `Render`, `LoadMore` are one request of the explore page: the list and the
question whether it is ranked are two queries. `Found` is Prisma's `cursor`, `skip: 1` and
`take`, with its behaviour for a cursor whose row has gone; `InOrder` is the order the
database returns rows in, and `Without` the filter of `visibleTokens`. `steady` and `derailed` are
history. A score is zero or positive.

## 3. Runs

| Run | Configuration | Instance | States |
|---|---|---|---|
| `shallow` | `MCIndexerShallow.cfg` | 1 token, 1 trade, 3 blocks, depth 1, 1 reorganisation of depth 1, 1 crash, outages, failing processors and reads | 832,456 |
| `reorg` | `MCIndexerReorg.cfg` | the same chain, 1 reorganisation of depth 2 in the middle of ticks, outages, 1 crash | 748,980 |
| `quiet` | `MCIndexerQuiet.cfg` | 4 blocks, 1 reorganisation of depth 2 between ticks, 1 misread hash, an operator on the curve stream | 2,291,760 |
| `window` | `MCLogWindowBackfill.cfg` | spans 2 to 16, every limit from 2 to 17, 2 timeouts | 6,825 |
| `retention` | `MCRetention.cfg` | 2 tokens, 5 trades in 3 hours, 1 reorganisation within the newest hour, every script any number of times | 651,801 |
| `pool` | `MCRpcPool.cfg` | 2 callers, 2 endpoints that take batches of 0, 2 or 3, batches of 3, 2 attempts, cooldown after 1 failure | 357,143 |
| `bundle` | `MCBundle.cfg` | up to 3 of 4 wallets, 2 amounts of which 2 large ones reach graduation, 1 stranger's trade, 100 basis points to the whole | 663,456 |
| `panel` | `MCTradePanel.cfg` | 2 amounts, 2 transactions, 2 quotes under way, an allowance for the smaller amount left over | 984,925 |
| `launch` | `MCLaunchForm.cfg` | 1 ERC-20 pair, 1 row, 2 launches' worth of details, 1 change of terms or holdings, 2 transactions | 847,780 |
| `control` | `MCRunControl.cfg` | backfill over HyperSync from block 0, tail over RPC from two checkpoints; head 4 to 10, windows of 2, back-off of 3, 1 fault | 812,213 |
| `catalogue` | `MCCatalogue.cfg` | 3 launches, 2 of them indexed, pages of 1, both orders, 2 pieces of work by scripts, moderators or a rollback, 1 visit | 4,248,162 |
| `quotes` | `MCQuotes.cfg` | a buy that fits and one beyond graduation, a sell, a tax that decays within 3 s, a clock that is right, slow or fast, 4 acts of others | 1,161,036 |

Every run must hold. What a theorem of section 5 says of every instance is repeated in a run
only where the run belongs to the same question. `TypeOK` is stated in every module that has state and is checked by adding it to a
configuration; it is proved for all of them (`Indexer`, `LogWindow`,
`Retention`, `RpcPool`, `Bundle`, `Quotes`, `TradePanel`, `LaunchForm`, `RunControl`,
`Catalogue`).

**shallow** asks what the indexer owes its readers as long as the confirmation depth does
its work. `RefinesLedger`: the whole process implements `ConfirmedLedger` under the mapping
at the end of `Indexer`, in which rows above a checkpoint (a window in flight, or one abandoned after
its writes) do not exist yet; so rows at or below a checkpoint are those of the canonical
chain, less the launches `prepareLaunch` gave up on (`LaunchesExact` says it directly for
launches). `StatsFresh`: counters equal the rows once the checkpoint covers them.
`CheckpointsNeverMoveBack`: the split read and write of `advance` and `rollbackIfAhead` are
harmless here.

**reorg** lets a reorganisation go deeper than that while ticks are under way, sources fail
and the process dies. The factory's rewind from it leaves no token row above the new
checkpoint and only canonical ones below (`RewindLeavesOnlyCanonicalLaunches`). A checkpoint
moves down only for a recorded hash that is not canonical at that moment, by the cascade, or
by an advance of the curve stream just after a cascade has raised its checkpoint
(`RewindsOnlyOrphans`; the third case comes with finding 19 and a depth of 3 or more). Both streams reach the
confirmed head once failures stop (`CatchesUp`). The first of these is about the first
reorganisation: one that nobody noticed (finding 20) leaves rows that the rewind of a second
one keeps, as `MCIndexerSecondReorg.cfg` shows.

**quiet** keeps the reorganisation out of the middle of a tick, because logs and their hash
are separate reads and a change between them is not detectable later. Then, whenever the
factory's recorded hash is canonical, its token rows are exact (`VouchedLaunchesExact`),
also after a rollback for a hash that an endpoint misreported. Nothing fails in this run:
with a failure in the right place the property is false, because a tick that cannot read the
hash overwrites it (finding 20), and because the rows of an abandoned tick lie above a
checkpoint that may survive the reorganisation (finding 23).

**window** covers backfill. The sizer converges for every limit (`Converges`), its lower
bound is never wrong (`BracketSound`), and a stream with work is served again and again (`KeepsServing`).

**retention** asks whether candles are final when built (`CandlesComplete`) and whether
pruning can delete what no candle covers (`PrunedIsCovered`), as long as a reorganisation
stays within the newest hour. Across the boundary of an hour both fail
(`MCRetentionReorg.cfg`, finding 21).

**pool** asks what callers that share endpoints get. A request fails only after every
endpoint was asked, though the order was fixed when it began (`NoEndpointSkipped`), while two callers
overwrite each other's lessons; every call ends, with a limit of zero too
(`EveryCallEnds`). `BatchesServed`: with a dependable endpoint for small batches and others
that take any size but may always fail, a caller that keeps asking is served in the end.
That answers are complete, that limits are never too low and that batching is given up only
if nobody serves a batch is proved (section 5).

**bundle** asks what the planner's arithmetic is worth on a moving curve. The product of
the reserves never falls, the reserved tokens stay, and all that was sold could be sold
back out of what was paid (`CurveSolvent`). While no stranger buys in between, no buy of the bundle reverts,
whichever others were declined, lost or are still pending, and strangers may sell
(`ClearsOwnFloors`), and each is filled with at least what was shown for it
(`FilledAsShown`). What the user is told of a buy is what became of it
(`ResultsMatchChain`).

**panel** asks whether the trade panel keeps its two activities apart. What the wallet is
asked to sign is what the form says, though `send` works with captured values
(`SignsWhatIsTyped`); `Confirmed` is said only of a trade that succeeded, and the panel is
ready again only when no transaction it knows of is pending, unless it lost sight of one
(`PhaseTellsTheTruth`); a trade is offered for signature only with its allowance in place
(`AllowanceCoversTrade`); once the user stops typing, no older quote stays on the screen
(`QuoteSettles`); every send ends (`SendEnds`).

**launch** asks the same of the launch form, over a longer road. Amounts, pair, tax and
protected wallets that the wallet is asked to sign are those on the form
(`SignsWhatIsTyped`); unless terms or holdings changed since the button was pressed, nothing
is signed for a plan the wallet cannot pay to its end (`PlanFunded`); whatever the owner
changes in between, no token comes into being on other economics than were read for it
(`RepegNeverLands`); `Confirmed` is said of launches that succeeded
(`PhaseTellsTheTruth`); protected buys run only for wallets this launch exempted
(`BuysAreExempt`); the form does not stay busy (`SubmitEnds`).

**control** asks what the loops make of their ticks. A checkpoint claims no block that was
not scanned (`NothingSkipped`), as long as HyperSync never answers with the block it was
asked to start from. A tail's factory stays near the head whatever the curve stream does
(`StaysNearHead`). A backfill ends (`BackfillEnds`), at or beyond the head it started from,
with the curve stream short of the factory by one tick's gain at most
(`EndsWithinOneTick`).

**catalogue** asks what a visitor and a moderator can rely on. Going through the newest
tokens to the last page shows every token that was listed all along, once
(`TraversalComplete`, the pinned token apart); a row counts as examined only if its picture
is what its calldata yields (`MissIsEvidence`), though runs crash, rows are rolled back and
reinserted, and `--retry` reopens them; what is hidden or shown is what the last audited
decision says (`AuditExplainsStatus`).

**quotes** asks what a prepared trade is worth. If nobody else acts, it lands and brings at
least what was shown, however it was priced and however long the wallet took (`AsQuoted`);
the tax paid is at most the one shown, whatever others do (`TaxWasTold`); with the reads
answered and nobody else about, what is refused could not have been done
(`RefusesOnlyTheImpossible`).

The bounds. One token and one trade suffice for the indexer because its steps treat tokens
and trades independently, apart from a trade's reference to its token; three blocks with
depth 1 give a checkpoint with a block below, at and above it, and a rollback that stops in
the middle; four are used where two rollbacks may follow each other. A second crash adds no
new kind of state to the instances that were tried. A second reorganisation does, when the
first went unnoticed (`MCIndexerSecondReorg.cfg`), and for what holds nevertheless there are
the theorems `LaunchesComeBack` and `RollbacksHaveCause`, which bound neither. With depth 1 a cascade has nothing to raise,
because a curve stream ahead of the factory's target rewinds to that target at least;
`MCIndexerRaisingCascade.cfg` has depth 2. The window's bounds are wide enough for growth, bracketing,
settling and probing to happen in one behaviour. In `Retention` three hours give a
complete, a completing and a filling hour. In `RpcPool` the sizes 0, 2 and 3 against
batches of 3 give an endpoint that serves nothing, one that needs two chunks with a short
last one, and one that takes all; two callers suffice for one to overwrite what the other
has learned or to change health under it. `TwoTokens` and `TwoTrades` in `MCIndexer` are
for longer runs by hand. `Bundle` needs three buys for one to have both a predecessor that
may be missing and a successor, a fourth row to exceed the list, and amounts of which one
never and two always reach the clamp; percent instead of basis points keeps products within
TLC's integers and makes every rounding coarser. In `TradePanel` two transactions are an
approval and its trade, or two trades; two quotes under way are one that is newest and one
that is late. In `LaunchForm` one row can be absent, blank, malformed, the creator's or a
friend's; two transactions are an approval and a launch, or a launch lost sight of and
another; the wallet starts with what one launch and one protected buy cost, not two. In
`RunControl` a pause of the backed-off factory is longer than what one of its ticks makes
up for, and the head moves for three such pauses. In `Catalogue` pages of one card make
every boundary between rows a boundary between pages. In `Quotes` the tax passes through
four levels, of which the first leaves nothing to be bought, and four acts of others are
what it takes to sell a curve out, sweep it and create its pool.

**Fairness.** `FairSpec` of `Indexer` is weak fairness of each stream's steps and of the
chain growing: both tails loop for ever, sleep for a bounded time, and every await returns
or throws. `CatchesUp` starts from `calm`, the point after which sources, database and
processors answer; no fairness makes the system calm. `FairWindowSpec` of `LogWindow` is weak
fairness of the request: a tick with work asks, and the endpoint answers in some way. The
number of unrelated timeouts is bounded, so eventually only the range decides. `FairSpec`
of `RpcPool` is weak fairness of the end of each caller's POST or backoff: a POST is
answered, or `AbortSignal.timeout` fires. Nothing makes an endpoint outside `Dependable`
answer, and no caller is obliged to ask. `FairSpec` of `TradePanel` is weak fairness of the
debounce timer, of answers to quotes, and of the steps of `send`: calls return or throw
(`waitForTransactionReceipt` has a timeout) and the user answers the wallet's prompts. The
user is not obliged to type or press anything, and no transaction need be mined. `FairSpec`
of `LaunchForm` is the same for `submit`. `FairSpec` of `RunControl` is weak fairness of
each stream's next step (requests are answered, timers fire) and of time passing; faults
and restarts are bounded and never obliged.

**Deadlock** is checked except where the system may stop: in `Retention`, where the scripts
stop when the five trades have come and gone; in `Bundle` and `Quotes`, where a bundle or a
trade is over; in `TradePanel` and `LaunchForm`, where the bound on transactions may leave
a prompt that can only be declined and a page at rest; in `RunControl`, where a backfill has
ended; and in `Catalogue`, when work and visits are used up.

**Configurations for use by hand** belong to no run. Each states one claim of the
repository's own comments, and TLC refutes it; the numbers are those of section 4.
`MCIndexerOrphanTrade` (1), `MCIndexerLostCascade` (2), `MCRpcPoolStarved` (3),
`MCLogWindowTail` (4), `MCRetentionClaims` (5, 6), `MCRetentionReorg` (21),
`MCTradePanelLostReceipt` (7), `MCQuotesClaims` (9, 10, 11), `MCRunControlShort` (12),
`MCRunControlThrow` (13), `MCRunControlStall` (14), `MCCatalogueClaims` (15, 16, 22),
`MCLaunchFormDisable` (17), `MCIndexerSkippedBlocks` (18), `MCIndexerRaisingCascade` (19),
`MCIndexerUnnoticed` (20). `MCRetentionClaims`, `MCRetentionReorg`, `MCQuotesClaims` and
`MCCatalogueClaims` list several claims, of which TLC shows the first that fails; take it
off the list to see the next. Adding
`ShowsFreshQuote` or `NoQuoteWithoutAmount` to `MCTradePanel.cfg` shows 8.
`MCIndexerSecondReorg` is about the limits of a theorem (section 5).

## 4. Disagreements between the code and its own documentation

Each of 1 to 22 has a counterexample found by TLC under the configuration that section 3
names for it; 23 is shown by the source alone. The `findings` of `PROJECT.json` quote the
lines.

1. `VouchedTradesCanonical`: when the factory stream notices a reorganisation first, its cascade
   clears the curve checkpoint's hash, so the curve stream never compares it and never
   deletes its orphaned trades.
2. `CascadeBringsTradesBack`: a curve tick under way while the factory rewinds drops the logs of the
   deleted tokens as unmatched and then advances past them.
3. `SmallEndpointsGetATurn`: once every endpoint has declared a limit, a batch is cut to the
   largest of them, and the endpoint with the smaller one is never asked, however long the
   other is down.
4. `KeepsServing`, while tailing: at the head a short success counts as a success of the whole window;
   after an outage the window no longer narrows, and the stream stands still.
5. `RerunFinishesInterrupted`: a rollup that dies between a batch's candles and its snapshots is
   not completed by the next.
6. `CountersSurvivePruning`: the next trade of a pruned token recomputes its counters from the
   rows left.
7. `PendingIsNotFailed`: a receipt that is not seen in time makes the trade panel say "Transaction
   failed" of a pending trade, where its own comment asks for "we do not know yet".
8. `ShowsFreshQuote`, `NoQuoteWithoutAmount`: the trade panel's fresh quote is not numbered,
   and clearing the amount does not number anything either, so a late answer replaces the
   quote of the trade being signed, or shows one for a side that was left.
9. `ReadyIsRead`: a curve that cannot be read is shown as one that has nothing left to
   sell, "ready to graduate", under the words "Read live from the curve".
10. `ApprovalIsOffered`: within the anti-snipe window a buy of an ERC-20 launch is priced by
    a simulation that needs the allowance, so it is refused before the approval is offered.
11. `PartialFillIsSaid`: such a buy, if it exhausts the curve, comes without the warning that
    it will be filled in part.
12. `BackfillReachesHead`: the curve loop of a backfill may end on a tick that read its
    ceiling before the factory's last advance; "until both streams reach the confirmed head"
    holds but for that tick.
13. `BackfillStops`: when a processor throws in a backfill, the other loop goes on for ever
    and the one-shot process neither works nor ends.
14. `NothingSkipped`, if HyperSync may stall: a response whose `next_block` is the first
    block asked for counts as having covered everything.
15. `OfficialOnce`: the pinned token comes again on the page where its own place is.
16. `RankingIsScored`: whether a list is ranked is asked after the list was read, and of
    hidden tokens too.
17. `SequenceCanBeDisabled`: the box of the post-launch sequence cannot be unticked when its
    rows are without addresses, though the error message says to disable it.
18. `CascadeBringsTradesBack`, without any reorganisation: the start-up fast-forward takes
    the earliest launch with a row for the earliest curve. If the reads of an earlier launch
    failed and the process dies before the checkpoint is written, the curve stream is moved
    past that launch, which the factory then records after all; its trades are never read.
19. `CascadeOnlyPullsBack`: `rollbackIfAhead` reads, then writes without comparing. If the
    curve stream has noticed the reorganisation too and rewinds further between the two, the
    cascade moves its checkpoint up, over blocks whose trades that rewind has just deleted.
    An `advance` that has read its row before may move it down again.
20. `AdvancesFromCanonical`: when the recorded hash cannot be compared, "doing nothing" is
    not what happens: the tick goes on, and its `advance` overwrites the only evidence of a
    reorganisation, which is then never noticed.
21. `CandlesComplete` and `PrunedIsCovered`, across the boundary of an hour: the rollup never
    returns to an hour it has built, and it builds the hour before that of the newest trade
    at once. A reorganisation that reaches back into that hour leaves candles that count
    orphaned trades and not those that replace them, and a prune whose cutoff is the end of
    the newest candle then deletes trades that are in none.
22. `AuditTellsBefore`: an audit entry gives as the former status what `moderate.ts` had read;
    of two moderators at once the second reports a status that the first had replaced.
23. Without a model: a launch whose reads fail is not scanned again, though a comment says
    it is; counters stay stale after a rollback of the curve stream alone; a retry
    after partial writes keeps rows of an orphaned fork if the checkpoint itself survived
    it; the window size is documented as persisted and is not; the launch form drops the
    hash of a launch whose receipt it did not see; the health report calls every healthy
    indexer degraded; the staleness shown on the explore page knows no chain head.

The invariants of `shallow` are thus the strongest that hold: each of 1, 2, 19 and 20 needs a
reorganisation deeper than the confirmation depth, and 18, which came out of the attempt to
prove that no trade is lost, is why the ledger's second reader keeps the trades of those
tokens only that are known when it reads, and why a theorem about lost trades has to except
the tokens once given up on.

## 5. Proofs

`IndexerProofs`, for every chain length, depth, bound and number of tokens and trades:

* `TypeCorrect`: `Spec => []TypeOK`. The type invariant is not inductive: a tick reads
  `chain[h]` for the heights in its locals, and the result has a type only if the block
  exists. `TypeInv` adds `Readable`: checkpoint, boundary and window of a tick in flight lie
  within the chain wherever they will be read, which needs that a reorganisation does not
  shorten the chain.
* `CurvesStayBehindFactory`, `CheckpointsMonotonic`, `FailuresOutlastTheirBlock`: under
  `DepthRespected`, which says that no reorganisation reaches below the confirmation depth
  and no endpoint misreads. The inductive invariant `SettledInv` is `TypeInv` and three
  more parts: `CheckpointsSettled` (a recorded hash is that of the canonical block, and
  every checkpoint is confirmed), `TicksSettled` (the locals of a tick agree with the
  checkpoint it read: nothing else moves that checkpoint between its read and its write,
  and the hash it is about to record is canonical) and `NeverScansPastFactory`. From it no
  tick ever enters a rollback (`RollbackStepsImpossible`), and the monotonicity of the
  checkpoints follows although `advance` does not compare again when it writes.

* `ImplementsLedger` (`RefinesLedger`), `LaunchesStayExact` (`LaunchesExact` and
  `VouchedLaunchesExact`), `NoPhantomTrades`, `OnlyGivenUpTradesAreLost` and
  `StatsStayFresh` (`StatsFresh`), under the same assumption, and `NoTradeIsLost`, for which
  no read of `prepareLaunch` may fail besides (finding 18 is what happens if one does). They
  share the inductive invariant `LedgerInv`, which adds to `SettledInv`
    * `WellFormed`: a launch is in one block only, a trade in one block only and not before
      its launch, so that a row names its log;
    * `RowsCanonical`: every row, also one of a window in flight or of a crash, is of a
      confirmed block that holds its log;
    * `RowsContiguous`: the launches before a row have theirs. A crash leaves rows above the
      checkpoint, and the start-up fast-forward takes the earliest of them for the earliest
      launch; this is what makes that right but for launches given up on;
    * `Reach` and `Vouches`: checkpoints start at `StartBlock`, and below them launches are
      complete, trades kept, and counters right;
    * `TickFits`: what a tick holds at each await is what the chain has between its
      checkpoint and its top, and what its processor is done with is in the tables.
      Between insert and refresh a counter is wrong; then a trade above the
      checkpoint tells that it is about to be refreshed, by this tick or by the replay of its
      window after a crash.

  The refinement goes by actions. The chain growing confirms blocks or stutters; `RecordLaunches` gives up on
  what it could not read; `Advance` of the factory takes the launches of its window, `Advance`
  of the curve stream its trades; `InsertTrades` and everything before it stutter, because
  their rows lie above a checkpoint. `Restart` stutters or, if it moves the curve stream,
  takes a range that holds no trade of a known token: every row is at or above the earliest,
  and no trade comes before its launch.

  Three theorems say what is left when reorganisations go deeper.
* `RollbacksHaveCause` (`RewindsOnlyOrphans`), for reorganisations of any depth and number, at
  any await, with every fault and crash, as long as no endpoint misreads. In `OrphanInv` the
  hash of a block tells which reorganisation made it and is never given again
  (`HashesKnown`), so that a recorded hash that once differed from the canonical one differs
  for good: the verdict still holds two awaits later, when the checkpoint moves (`Judged`).
  The last part of `Judged` is where the attempt failed first: an `advance` could move the
  curve stream's checkpoint down, after a cascade that had raised it. The property excepts
  this now, and finding 19 records it. An endpoint that misreads makes a verdict that was
  never true, so that hypothesis cannot go.
* `LaunchesComeBack` (`VouchedLaunchesExact`), under `QuietChain`: reorganisations come
  between ticks, any number of them, down to twice the confirmation depth; nothing fails or
  crashes, but endpoints may misread and `prepareLaunch` may give up. `QuietInv` says
  what survives a reorganisation (`Resting`): the factory's checkpoint is at least the
  confirmation depth below the head, so rows down to the block a rewind goes to are sound
  (`SoundTo`), and all of them are if the recorded hash is canonical; and at rest no row lies
  above the checkpoint (`NoRowAbove`). `FactoryFits` carries this through a tick. A
  reorganisation deeper than twice the depth reaches below the target of the rewind, and
  then the property is false.
* `FirstRewindIsClean` (`RewindLeavesOnlyCanonicalLaunches`), under `FirstFork`: one
  reorganisation, at whatever await and no deeper than twice the confirmation depth, no
  misreads, every fault and crash. Here nothing can be said of rows as such: a window that was
  read before the reorganisation may be stored after it. What is invariant (`FirstInv`)
  speaks of the blocks that the reorganisation leaves in place (`Old`, a prefix by `OldBelow`): whatever
  row, log in hand or block bears one of their heights is of this chain (`RowsOld`,
  `FoundOld`), and a hash of the first fork is only ever recorded or compared for a block
  from which a rewind lands in that prefix (`Backed`, `TickOld`). With a second
  reorganisation the property is false (`MCIndexerSecondReorg.cfg`).

`RetentionProofs`, for any number of tokens, trades and hours, every batch size and every
retention window:

* `TablesTyped` (`TypeOK`), however far rollbacks reach; and, given that they stay within the
  newest hour (`ReachHours = 0`, without which finding 21 is what happens),
  `CandlesAreComplete` (`CandlesComplete`), `PruningIsSafe` (`PrunedIsCovered`) and
  `CandlesAreFinal` (a candle that exists is never given another value, an action
  property). The inductive invariant `Inv` follows the hours in order: below the hour the
  rollup has reached, its cursor while it runs and the newest candle otherwise, every
  candle is complete (`Built`); the hour the indexer fills lies above all of it
  (`TipIsNewest`, `BehindTip`); a prune under way stays below the newest candle (`Cut`). What
  connects them is that a batch skips no hour: it begins where the candles end, and the
  candles of a batch are one statement, so a rollup that dies leaves no gap. Pruning thins
  out the rows that candles are counted from, but only below the point from which any later
  rollup counts.

`RpcPoolProofs`, for any number of callers and endpoints, any sizes, attempts and
thresholds:

* `PoolInvariant`: `PoolInv` is inductive. It says that limits are honest (an endpoint
  serves no more than its limit), that batching is given up only if nobody serves batches,
  and of every call under way (`Sound`) that the results so far are its offset, that its
  chunk is positive, and that the endpoints that have failed it and those still in its order
  are together all of them if it is a single request. What makes it inductive is that the
  endpoint that answered one chunk is capable of the next, whatever was learned in between,
  because its limit is honest; so a batch that has begun in chunks never finds itself
  without an endpoint.
* `LimitsSound`, `RequestsAskAll`, `ChunksAddUp`, `BatchingGivenUpForCause` and `Typed` are
  its corollaries. The proofs assume what
  `PoolAssumption` says: finitely many endpoints, at least one, with distinct positions.

The same module extends `LogWindow`, the window by which logs are asked for, and has for
every configuration of the sizer and every endpoint:

* `WindowTypes`: the window stays within `MinSpan..MaxSpan`, the bookkeeping within its
  bounds.
* `BackfillBracketSound`: if the backlog is never shorter than the largest window, the
  lower bound is a span the endpoint serves. The assumption is what separates backfill
  from tailing (finding 4).

`BundleProofs`, for every supply, phantom reserve, allocation, fee and tax, every list of
buys and any number of strangers:

* `Solvent`: the reserves keep `quote * token >= PhantomQuote * Supply` and
  `token >= ReservedTokens`, and from the two it follows that selling everything that is
  outside back at once is covered by what was paid in. The inductive invariant is
  those two with `token <= Supply`, a positive quote reserve, and that planned amounts come
  from the form. Each buy and each sell keeps the product because every division rounds towards
  the curve: `AmountOut` bounds `getAmountOut` by the exact quotient, `AmountIn` makes the
  `+ 1n` of `getAmountIn` cover what the clamp sells, and `BuySound` joins them with
  `NetBounds`, that grossing up by the sum of the taxes leaves at least the net price after
  three separate floors, or all the input.
* `RoundTrip`: in every state that satisfies the invariant a buy costs at most its input,
  and selling it back returns at most its net price.
* `BundleTyped` and `ResultsTold` (`ResultsMatchChain`), from `ResultsInv`. The types include
  that the two loops of `planBundle`, written as recursive functions over the list, return a
  buy with a floor for every row; such a function is defined for every length by a least
  length for which it would not be. `LoopsFit` keeps the two loops of `runBundle` on one
  index: no result before everything is signed, then one for each buy in its order.
  `ShownIsSo` is what makes the results true: a transaction that was mined stays as it was
  mined, and "failed" is said exactly of the buys without a hash.
* `OwnFloorsCleared` (`ClearsOwnFloors`) and `FilledNearlyAsShown`, for plans of which
  `RoundingAbsorbed` holds: the tolerance, taken of a floor, is at least `MaxRecipients` units.
  With the form's 300 basis points a floor of 34 units for each row is enough; a floor of a
  real launch has some 10^27. The hypothesis is about the plan, not about what happens to
  it, and it cannot go: without it both are false (below). The argument compares the curve `c`
  the plan was made on with the curve a buy finds. In `FloorInv` its quote reserve is at most
  what the plan expects after the rows up to the last one filled, whichever of them were
  left out, and its product is at least that of `c` (`Ahead`). Of the rows
  a plan prices one behind the other, all but the last are filled whole, so each leaves a product that
  exceeds the one before by less than one quote reserve (`WholeBuy`, `PathBefore`); so a
  curve with less quote and no smaller product gives at most one unit less for each row
  before (`Rounding`, `NearlyAsPriced`), clamped or not, and the tolerance absorbs those
  units (`FloorsLeave`, `LandsWell`). Buys land in the order of their signatures
  (`SignedInOrder`), or the quote could run ahead of the plan. Strangers may sell; a buy of
  theirs ends the promise. `FilledNearlyAsShown` is `FilledAsShown` but for one unit for each row before.

The same module extends `Quotes` and has what `prepareTrade` promises, on the same curve,
for every supply, reserve, threshold, tax schedule, clock, amount and slippage:

* `TaxToldBefore` (`TaxWasTold`) and `RefusalsAreRight` (`RefusesOnlyTheImpossible`), from
  `QuoteInv`: what was read of an undisturbed curve is how it still is (`ReadsFresh`), what
  was checked still holds (`Checked`), and the tax shown is at least the present one
  (`TaxShown`). `TaxFalls` is what these rest on: with a second the tax stays or at least
  halves. Powers of two are not within the provers' arithmetic; `PowerCounts` has them as
  numbers of subsets, `PowerDoubles` compares two such numbers.
* `QuotesAreKept` (`AsQuoted`), if `FeesAreSmall`: three times the protocol's fee and the
  creator's tax are at most everything. Each is at most 1,000 basis points
  of 10,000 (`packages/pons/src/pons.integration.test.ts:92` and `:106`). The
  hypothesis is needed because of what `Charged` models: where the deductions would exceed
  the whole input, the contract was seen to take the tax alone. When the tax falls below
  that point the fees come back, and only because the tax has halved does the trader
  not pay more than before. `AmountInv` says of a prepared trade that it is possible now and
  would bring at least what was quoted (`WillLand`). A lower tax leaves more (`NetGrows`),
  more buys more (`AmountOutGrows`), and a buy that stays or becomes clamped brings no less
  than before (`BuyGrows`).
* `QuotesTyped` (`TypeOK` of `Quotes`), under the same assumption: amounts, floors and
  reserves are never negative, no reserve exceeds the supply, and nobody, the trader included,
  sells more than is in circulation (`TokensKept`).

`TradePanelProofs`, for all amounts, any number of transactions, quotes and leftover
allowances: `Signs`, `Truthful`, `Covered` and `Typed`, the safety invariants of run
`panel`, from `PanelInvariant`. The inductive invariant ties the phase to the place of
`send` (`PhaseMatches`), keeps the captured values equal to the form while the panel is
busy (`Captured`), and says that the only transaction pending in sight is the one that is
awaited (`InFlight`), which is the last one signed (`AwaitsLatest`). The last two are what
`Covered` needs: between the mining of an approval and the signature of its trade nothing
else may be mined that takes from the allowance, unless it was lost sight of.

`LaunchFormProofs`, for every set of pairs, wallets, amounts and terms, any number of rows, of
changes by others and of transactions: `Signs` (`SignsWhatIsTyped`), `PlanIsFunded`
(`PlanFunded`), `Repegs` (`RepegNeverLands`), `Truthful` (`PhaseTellsTheTruth`), `Exempt`
(`BuysAreExempt`) and `FormsTyped`, the safety invariants of run `launch`, from `Invariant`.
Beside the parts it shares with the panel (`PhaseMatches`, `Captured`, `InFlight`,
`AwaitsLatest`), its inductive invariant says how far `submit` has seen to the money at each
await (`Funded`), that a launch is simulated and signed on economics read for it (`Pinned`),
and of every transaction what it was made from (`Signed`). The second build, after the
approval, is why `Funded` must hold of the balances and not of the checks: they are not
repeated there.

`RunControlProofs`, for every mode and source, all heads, windows, intervals and slacks,
and any number of faults:

* `LoopsTyped`, and with it `LoopInv`: of a tick in flight, that it began at the stream's
  checkpoint, which nobody else moves, that its boundary is at most the head it read and its
  head at most the present one, and that a loop with a tick in flight is running and awake.
* `CheckpointsHonest`: `NothingSkipped`, given that HyperSync does not stall (`MayStall`).
* `EndsCovered`: `EndsWithinOneTick`. `EndInv` makes it inductive: `factoryDone` is true
  exactly when the factory loop has returned, after which its checkpoint rests; and a curve
  tick in flight is bound for a boundary that is short of the factory's checkpoint by at
  most `gained` (`CurveTickAims`).
* `FactoryStaysNear`: `StaysNearHead`, given that the process finds the factory near the
  head. `NearInv` counts a pause before it is taken: lag and remaining pause together stay
  below the bound. It holds because the long pause is granted on a head that was read in
  that tick, or else costs a fault, and a tick that scans anything gains at least the block
  that a short pause costs.

`CatalogueProofs`, for any number of launches, any page size, and any amount of work by
scripts, moderators and the indexer:

* `TraversalsComplete` (`TraversalComplete`). The inductive invariant `TraversalInv` says
  where a traversal of the newest tokens stands (`Pages`): of the rows listed all along, those
  down to the row the pages have come to were shown, each once, those after it were not,
  and where there is no next page all of them were. A row inserted above is not in it; a row
  that goes away leaves `steady`; what must not go away is the row of the cursor, which is what
  `derailed` says. That a page is the next part of the list is a fact about `Found`:
  `OrderedLists` says that the order the database is asked for exists and is strict
  (`PlacesDiffer`: the place of a row is the number of those before it), `SliceOf` what
  `skip` and `take` leave of it.
* `MissesAreEvidence` (`MissIsEvidence`), with `FoundInTheCalldata`: an answer on its way
  to the table is for a row id, and a row inserted again has a new one, so an answer never reaches a
  row it is not about.
* `AuditExplains` (`AuditExplainsStatus`): a decision and its log entry are one
  transaction, and a row comes to the table visible and under an id no decision names.
* `TypesKept` (`TypeOK`): ids are never given twice, and whatever is under way names ids that
  were given.

Only model-checked: every liveness property; `FilledAsShown` to the unit; and
`ClearsOwnFloors` without `RoundingAbsorbed`. The last two are not true for all constants.
Rounding may cost a buy
one unit when another falls out, and with a slippage of zero or a handful of units in the
pool that unit is too much. With a quote reserve of 87, 77 tokens of which 21 are reserved, a
creator tax of 300 basis points and no slippage, take buys of 1, 97 and 16: if the first is
declined, the third gets 2 tokens under a floor of 3. With reserves of 30 and 26 (1
reserved), 500 basis points of fees, a slippage of 3400 and buys of 1, 4 and 5, it gets 2
where 3 were shown. The run has both properties on the
instance of a real launch in percent, where they hold without the proviso.
Liveness, fairness and `ENABLED` are beyond the proof system used here. So are the induction
theorems of its library, which take a predicate as a parameter; the sums over rows in
`LaunchFormProofs`, the ranges of hours in `RetentionProofs` and the rows of a plan in
`BundleProofs` are reasoned about by a least counterexample instead (`LeastNumber`,
`IndexInduction`).

## 6. What is abstracted, and what is missing

* Amounts, prices, volumes, 24-hour aggregates, creators, phases and metadata of tokens;
  of the derived columns only `tradeCount` is kept. `SyncPhases` is a step without effect
  on the modelled tables, kept because the process may die or the tick fail there.
* A statement of the database is atomic; `recordMany` and `recordLaunches` of a window are
  one statement each.
* `Abandon` may happen at any await, also where the code would answer with a partial
  result.
* Backoff inside sources; `verifyLineage`, `resolveFailedBlock` and `splitBlockRange`, which
  have no callers; in `RunControl` also paused streams and reorganisations, which `Indexer`
  has.
* The HyperSync query, its authorisation and the decoding of its logs. Address chunking and
  decoding of the RPC source.
* Pacing and statistics of the RPC pool, and the patterns that classify error messages.
* Price impact, which only warns, and the decay schedule shown to the user.
* Metadata limits and image handling of a launch; gas ceilings and the encoding of calls.
* Filters, search and leaderboards of the explore queries, and the arithmetic of scores and
  prices (`recompute-prices.ts`); the home page, wallet connection, staleness labels and the
  image route. `verify-database.ts` and `verify-pons.ts` only read and report; the block
  cache of the indexer holds immutable values and its health snapshot only reports.

## 7. Plan

Done: `Chain`, `Checkpoints`, `Indexer`, `ConfirmedLedger`, `RunControl`, `LogWindow`,
`Retention`, `RpcPool`, `Curve`, `Bundle`, `Quotes`, `TradePanel`, `LaunchForm`, `Catalogue`,
and the eight proof modules above, in which every safety property of the runs is stated by a
theorem, but for `FilledAsShown`, which is stated with the rounding it needs. What is left, in
order:

1. An abstract specification of the pool, a single endpoint that answers or fails, and the
   composition with `LogWindow` (a refusal of one endpoint ends the call for all).
2. `Retention`: the exemption list against a score table that is cleared and rewritten.
