----------------------------- MODULE RunControl -----------------------------
(***************************************************************************)
(* main() of the indexer (index.ts) and the two loops of scanner.ts it     *)
(* drives: the one-shot backfill that ends when both streams have caught   *)
(* up, and the tail that follows the head for ever and slows the factory   *)
(* stream down while the curve stream is the one that is behind.           *)
(*                                                                         *)
(* What a tick does to the tables is the subject of Indexer.  Here a tick  *)
(* is what main() sees of it: it takes time, the other stream's ticks      *)
(* interleave with its steps, and it reports how far it got.  The RPC pool *)
(* and HyperSync are the log sources; covered tells what a source really   *)
(* scanned from what the checkpoint claims.                                *)
(***************************************************************************)
EXTENDS Integers

CONSTANTS
  Configs,            \* modes (config.backfillOnly) with their sources (BACKFILL_SOURCE)
  FirstCheckpoints,   \* for each mode, the checkpoints the process may find
  FirstHead,          \* the confirmed head at that moment
  FirstLaunch,        \* the block of the first launch
  NearHead,           \* FACTORY_NEAR_HEAD_BLOCKS
  Slack,              \* FACTORY_SLACK_BLOCKS
  Multiplier,         \* FACTORY_BACKOFF_MULTIPLIER, in units of TAIL_INTERVAL_MS
  Window,             \* bound: blocks one tick covers at most
  MaxHead,            \* bound: confirmed head
  MaxFaults,          \* bound: ticks that fail or dawdle, and restarts
  MayStall            \* whether HyperSync may answer without having scanned anything

Streams == {"factory", "curves"}

\* No checkpoint is ahead of the head the process finds.
ASSUME RunControlAssumption ==
  /\ Configs \subseteq [mode : {"tail", "backfill"}, source : {"rpc", "hypersync"}]
  /\ {FirstHead, FirstLaunch, NearHead, Slack, Window, MaxHead, MaxFaults} \subseteq Nat
  /\ FirstHead <= MaxHead
  /\ \A m \in {"tail", "backfill"} : FirstCheckpoints[m] \subseteq [Streams -> 0..FirstHead]
  /\ Multiplier \in Nat \ {0}
  /\ MayStall \in BOOLEAN

VARIABLES
  mode, source,       \* the configuration
  confirmed,          \* the highest block deep enough to be settled
  cp,                 \* lastProcessedBlock of each stream
  covered,            \* what each stream has scanned without a gap
  tick,               \* the tick in flight
  sleep,              \* units until the loop ticks again
  loop,               \* "running", "returned" or "thrown"
  report,             \* factoryBlock, curveBlock, factoryAtHead, factoryLag
  factoryDone,
  faults,
  gained              \* history: what a backfill's factory scanned during the last curve tick

progress == <<cp, covered>>
control == <<sleep, loop, report, factoryDone>>
vars == <<mode, source, confirmed, progress, tick, control, faults, gained>>

Unread == -1          \* null: no head was read

Idle == [at |-> "idle", from |-> 0, head |-> 0, boundary |-> 0, reached |-> 0, scanned |-> 0]

NoReport == [factoryBlock |-> 0, curveBlock |-> 0, factoryAtHead |-> FALSE, factoryLag |-> Unread]

Least(a, b) == IF a < b THEN a ELSE b

\* The curve stream is started above the history in which no curve existed, once a launch
\* is indexed.  There is nothing to scan below it.
FastForward(checkpoints) ==
  IF checkpoints["factory"] >= FirstLaunch /\ checkpoints["curves"] < FirstLaunch - 1
  THEN [checkpoints EXCEPT !["curves"] = FirstLaunch - 1] ELSE checkpoints

Init ==
  /\ \E config \in Configs : mode = config.mode /\ source = config.source
  /\ confirmed = FirstHead
  /\ \E found \in FirstCheckpoints[mode] : cp = FastForward(found)
  /\ covered = cp
  /\ tick = [s \in Streams |-> Idle]
  /\ sleep = [s \in Streams |-> 0]
  /\ loop = [s \in Streams |-> "running"]
  /\ report = NoReport
  /\ factoryDone = FALSE
  /\ faults = 0
  /\ gained = 0

-----------------------------------------------------------------------------
(* The tail: what its callbacks keep, and how long the factory waits.      *)

Lag(head, to) == IF head > to THEN head - to ELSE 0

\* Mutant of FactoryNearHead: the factory backs off whenever the curve stream is far
\* behind, wherever the factory itself is.
WhereverItIs(r) == TRUE

FactoryNearHead(r) ==
  r.factoryAtHead \/ (r.factoryLag # Unread /\ r.factoryLag <= NearHead)

ShouldBackOff(r) == FactoryNearHead(r) /\ r.factoryBlock - r.curveBlock > Slack

Interval(s, r) == IF s = "factory" /\ ShouldBackOff(r) THEN Multiplier ELSE 1

\* onTick of each stream.  A tick that could not read the head keeps the last distance.
OnTick(s, to, caughtUp, head) ==
  IF s = "curves" THEN [report EXCEPT !.curveBlock = to]
  ELSE [report EXCEPT !.factoryBlock = to, !.factoryAtHead = caughtUp,
                      !.factoryLag = IF head = Unread THEN @ ELSE Lag(head, to)]

TailReturns(s, to, caughtUp, head) ==
  /\ mode = "tail"
  /\ report' = OnTick(s, to, caughtUp, head)
  /\ sleep' = [sleep EXCEPT ![s] = Interval(s, report')]
  /\ UNCHANGED <<loop, factoryDone>>

-----------------------------------------------------------------------------
(* The backfill: Scanner.backfill for the factory, main()'s own loop for   *)
(* the curve stream.                                                       *)

\* Mutant of BackfillReturns: the loop is left before onProgress is told.
LeavesUntold(s, scanned, caughtUp) ==
  /\ mode = "backfill"
  /\ sleep' = [sleep EXCEPT ![s] = IF scanned = 0 THEN 1 ELSE 0]
  /\ IF caughtUp /\ (s = "factory" \/ factoryDone)
     THEN loop' = [loop EXCEPT ![s] = "returned"] ELSE UNCHANGED loop
  /\ UNCHANGED <<report, factoryDone>>

\* Mutant of MayFinish: the curve stream ends whenever it meets its ceiling.
MeetsItsCeiling(s) == TRUE

\* The curve loop ends only once the factory reported that it is done.
MayFinish(s) == s = "factory" \/ factoryDone

\* A tick that made no progress is followed by a pause.
BackfillReturns(s, scanned, caughtUp) ==
  /\ mode = "backfill"
  /\ factoryDone' = IF s = "factory" THEN caughtUp ELSE factoryDone
  /\ loop' = IF caughtUp /\ MayFinish(s) THEN [loop EXCEPT ![s] = "returned"] ELSE loop
  /\ sleep' = [sleep EXCEPT ![s] = IF scanned = 0 THEN 1 ELSE 0]
  /\ UNCHANGED report

\* A ScanTickResult reaches the loop that asked for it.
Return(s, to, scanned, caughtUp, head) ==
  /\ tick' = [tick EXCEPT ![s] = Idle]
  /\ TailReturns(s, to, caughtUp, head) \/ BackfillReturns(s, scanned, caughtUp)

\* tail logs what a tick throws and goes on; backfill and main's loop do not catch it.
Throw(s) ==
  /\ tick' = [tick EXCEPT ![s] = Idle]
  /\ \/ /\ mode = "tail"
        /\ sleep' = [sleep EXCEPT ![s] = Interval(s, report)]
        /\ UNCHANGED <<loop, report, factoryDone>>
     \/ /\ mode = "backfill"
        /\ loop' = [loop EXCEPT ![s] = "thrown"]
        /\ UNCHANGED <<sleep, report, factoryDone>>

-----------------------------------------------------------------------------
(* One tick, in the steps between which the other stream and the chain     *)
(* may move.                                                               *)

Fault == /\ faults < MaxFaults
         /\ faults' = faults + 1

Begin(s) ==
  /\ loop[s] = "running"
  /\ tick[s].at = "idle"
  /\ sleep[s] = 0
  /\ tick' = [tick EXCEPT ![s] = [Idle EXCEPT !.at = "begun", !.from = cp[s]]]
  /\ gained' = IF s = "curves" THEN 0 ELSE gained
  /\ UNCHANGED <<mode, source, confirmed, progress, control, faults>>

ReadHead(s) ==
  /\ tick[s].at = "begun"
  /\ tick' = [tick EXCEPT ![s].at = "head", ![s].head = confirmed]
  /\ UNCHANGED <<mode, source, confirmed, progress, control, faults, gained>>

\* maxBlock: the curve stream never scans past the factory's checkpoint.
Boundary(s) == IF s = "curves" THEN Least(tick[s].head, cp["factory"]) ELSE tick[s].head

NothingToScan(s) ==
  /\ tick[s].at = "head"
  /\ Boundary(s) <= tick[s].from
  /\ Return(s, tick[s].from, 0, TRUE, tick[s].head)
  /\ UNCHANGED <<mode, source, confirmed, progress, faults, gained>>

ReadCeiling(s) ==
  /\ tick[s].at = "head"
  /\ Boundary(s) > tick[s].from
  /\ tick' = [tick EXCEPT ![s].at = "asking", ![s].boundary = Boundary(s)]
  /\ UNCHANGED <<mode, source, confirmed, progress, control, faults, gained>>

\* Mutant of Reached: the source is believed to have covered all it was asked for.
AllOfIt(s, scanned) == tick[s].boundary

\* reachedBlock.  HyperSync's next_block is the first block it did not cover; a response
\* without one, or with the block it was asked to start from, counts as everything.
Reached(s, scanned) ==
  IF source = "hypersync" /\ scanned = 0 THEN tick[s].boundary
  ELSE tick[s].from + scanned

\* getLogs and blockHash: a prefix of the range, the whole range if it is short.
FetchLogs(s) ==
  /\ tick[s].at = "asking"
  /\ \E scanned \in 0 .. Least(Window, tick[s].boundary - tick[s].from) :
       /\ scanned = 0 => source = "hypersync" /\ MayStall
       /\ tick' = [tick EXCEPT ![s].at = "fetched", ![s].scanned = scanned,
                               ![s].reached = Reached(s, scanned)]
  /\ UNCHANGED <<mode, source, confirmed, progress, control, faults, gained>>

\* process, advance, resolveFailedBlocksThrough.
Advance(s) ==
  /\ tick[s].at = "fetched"
  /\ cp' = [cp EXCEPT ![s] = tick[s].reached]
  /\ covered' = [covered EXCEPT ![s] = IF @ = tick[s].from THEN @ + tick[s].scanned ELSE @]
  /\ Return(s, tick[s].reached, tick[s].reached - tick[s].from,
            tick[s].reached >= tick[s].boundary, tick[s].head)
  /\ gained' = IF mode = "backfill" /\ s = "factory" /\ tick["curves"].at # "idle"
               THEN gained + tick[s].reached - tick[s].from ELSE gained
  /\ UNCHANGED <<mode, source, confirmed, faults>>

\* handleSourceFailure and handleDatabaseFailure: the checkpoint is kept, no head reported.
SourceFails(s) ==
  /\ tick[s].at \in {"begun", "asking", "fetched"}
  /\ Fault
  /\ Return(s, tick[s].from, 0, FALSE, Unread)
  /\ UNCHANGED <<mode, source, confirmed, progress, gained>>

\* RangeTooWideError: no progress, but the head was read.
TooWide(s) ==
  /\ tick[s].at = "asking"
  /\ source = "rpc"
  /\ Fault
  /\ Return(s, tick[s].from, 0, FALSE, tick[s].head)
  /\ UNCHANGED <<mode, source, confirmed, progress, gained>>

\* The processor cannot make sense of the logs.  An error of the database in a call before
\* the fetch throws as well and has the same effect on the loop.
ProcessorThrows(s) ==
  /\ tick[s].at = "fetched"
  /\ Fault
  /\ Throw(s)
  /\ UNCHANGED <<mode, source, confirmed, progress, gained>>

Tick(s) ==
  \/ Begin(s) \/ ReadHead(s) \/ NothingToScan(s) \/ ReadCeiling(s) \/ FetchLogs(s) \/ Advance(s)
Trouble(s) == SourceFails(s) \/ TooWide(s) \/ ProcessorThrows(s)

-----------------------------------------------------------------------------
(* The chain, the clock and the process.                                   *)

Ended == mode = "backfill" /\ \A s \in Streams : loop[s] = "returned"

Later == [s \in Streams |-> IF sleep[s] > 0 THEN sleep[s] - 1 ELSE 0]

\* In a unit of time the chain settles a block.  A factory tick takes less than that; one
\* that takes longer is a fault.  Curve ticks take as long as they like.
Pass ==
  /\ ~Ended
  /\ confirmed' = IF confirmed < MaxHead THEN confirmed + 1 ELSE confirmed
  /\ sleep' = Later
  /\ \/ mode = "tail" /\ sleep["factory"] = 0 /\ confirmed < MaxHead /\ Fault
     \/ (mode = "backfill" \/ sleep["factory"] > 0) /\ UNCHANGED faults
  /\ UNCHANGED <<mode, source, progress, tick, loop, report, factoryDone, gained>>

\* The process is killed and started again, with the same configuration.
Restart ==
  /\ ~Ended
  /\ Fault
  /\ cp' = FastForward(cp)
  /\ covered' = [s \in Streams |-> IF covered[s] = cp[s] THEN cp'[s] ELSE covered[s]]
  /\ tick' = [s \in Streams |-> Idle]
  /\ sleep' = [s \in Streams |-> 0]
  /\ loop' = [s \in Streams |-> "running"]
  /\ report' = NoReport
  /\ factoryDone' = FALSE
  /\ gained' = 0
  /\ UNCHANGED <<mode, source, confirmed>>

Next == (\E s \in Streams : Tick(s) \/ Trouble(s)) \/ Pass \/ Restart

Spec == Init /\ [][Next]_vars

\* Requests are answered and timers fire.
FairSpec == Spec /\ WF_vars(Pass) /\ \A s \in Streams : WF_vars(Tick(s))

-----------------------------------------------------------------------------
(* Properties.                                                             *)

TypeOK ==
  /\ [mode |-> mode, source |-> source] \in Configs
  /\ confirmed \in 0..MaxHead
  /\ cp \in [Streams -> 0..MaxHead]
  /\ covered \in [Streams -> 0..MaxHead]
  /\ \A s \in Streams : tick[s].at \in {"idle", "begun", "head", "asking", "fetched"}
  /\ sleep \in [Streams -> 0..Multiplier]
  /\ loop \in [Streams -> {"running", "returned", "thrown"}]
  /\ report.factoryLag \in Unread..MaxHead
  /\ factoryDone \in BOOLEAN
  /\ faults \in 0..MaxFaults
  /\ gained \in Nat

\* A checkpoint never claims a block nobody scanned, whatever part of a range a source
\* covers (types.ts: "The scanner must checkpoint to THIS value ... or it will silently
\* skip blocks").
NothingSkipped == covered = cp

\* A factory that falls behind the head is not held back for it: it loses a pause of the
\* backed-off interval for the head it drifts from and for each fault, and no more (the
\* outage recorded in factoryInterval lost ground "without bound").
StaysNearHead ==
  mode = "tail" => confirmed - cp["factory"] <= NearHead + Multiplier * (1 + faults)

\* When the one-shot backfill ends, the factory is at the head it last read and the curve
\* stream short of it by what the factory scanned during its last tick at most.
EndsWithinOneTick ==
  Ended => cp["factory"] >= FirstHead /\ cp["factory"] - cp["curves"] <= gained

\* The one-shot backfill ends unless a processor throws: neither stream waits for the
\* other for ever (an earlier version, the comment above the loops says, "deadlocked").
BackfillEnds == mode = "backfill" ~> (Ended \/ \E s \in Streams : loop[s] = "thrown")

\* What the comment on the backfill says: "Run until both streams reach the confirmed
\* head, then stop."
BackfillReachesHead == Ended => cp["curves"] = cp["factory"]

\* What a one-shot process should do, whatever its processors make of the logs: it stops.
BackfillStops == mode = "backfill" ~> Ended
=============================================================================
