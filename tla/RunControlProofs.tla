-------------------------- MODULE RunControlProofs --------------------------
(***************************************************************************)
(* What the loops of the indexer guarantee for every choice of heads,      *)
(* windows and intervals: checkpoints claim no more than was scanned, the  *)
(* factory of a tail stays near the head, and a backfill that ends has     *)
(* covered the chain but for one tick.                                     *)
(***************************************************************************)
EXTENDS RunControl, TLAPS

Places == {"idle", "begun", "head", "asking", "fetched"}

TickTypes == [at : Places, from : 0..MaxHead, head : 0..MaxHead, boundary : 0..MaxHead,
              reached : 0..MaxHead, scanned : 0..MaxHead]

Reports == [factoryBlock : 0..MaxHead, curveBlock : 0..MaxHead, factoryAtHead : BOOLEAN,
            factoryLag : Unread..MaxHead]

TypeInv ==
  /\ [mode |-> mode, source |-> source] \in Configs
  /\ confirmed \in FirstHead..MaxHead
  /\ cp \in [Streams -> 0..MaxHead]
  /\ covered \in [Streams -> 0..MaxHead]
  /\ tick \in [Streams -> TickTypes]
  /\ sleep \in [Streams -> 0..Multiplier]
  /\ loop \in [Streams -> {"running", "returned", "thrown"}]
  /\ report \in Reports
  /\ factoryDone \in BOOLEAN
  /\ faults \in 0..MaxFaults
  /\ gained \in Nat

\* The locals of a tick, at the await it has come to.
TickAgrees(s) ==
  LET t == tick[s]
  IN  /\ cp[s] <= confirmed
      /\ t.at # "idle" => t.from = cp[s] /\ loop[s] = "running" /\ sleep[s] = 0
      /\ t.at \in {"head", "asking", "fetched"} => FirstHead <= t.head /\ t.head <= confirmed
      /\ t.at \in {"asking", "fetched"} => /\ t.from < t.boundary /\ t.boundary <= t.head
                                           /\ s = "factory" => t.boundary = t.head
      /\ t.at = "fetched" => /\ t.from < t.reached /\ t.reached <= t.boundary
                             /\ t.scanned <= t.reached - t.from
                             /\ ~MayStall => t.reached = t.from + t.scanned

LoopInv == TypeInv /\ \A s \in Streams : TickAgrees(s)

LEMMA ConstantTypes ==
  /\ FirstHead \in Nat /\ FirstLaunch \in Nat /\ NearHead \in Nat /\ Slack \in Nat
  /\ Window \in Nat /\ MaxHead \in Nat /\ MaxFaults \in Nat
  /\ FirstHead <= MaxHead
  /\ Multiplier \in Nat /\ Multiplier > 0
  /\ MayStall \in BOOLEAN
BY RunControlAssumption

LEMMA IdleType == Idle \in TickTypes /\ Idle.at = "idle"
BY ConstantTypes DEF Idle, TickTypes, Places

\* The start-up fast-forward moves the curve checkpoint alone, and not beyond the factory's.
LEMMA FastForwardType ==
  ASSUME NEW checkpoints \in [Streams -> 0..MaxHead]
  PROVE  /\ FastForward(checkpoints) \in [Streams -> 0..MaxHead]
         /\ FastForward(checkpoints)["factory"] = checkpoints["factory"]
         /\ \/ FastForward(checkpoints)["curves"] = checkpoints["curves"]
            \/ FastForward(checkpoints)["curves"] <= checkpoints["factory"]
<1>1. CASE checkpoints["factory"] >= FirstLaunch /\ checkpoints["curves"] < FirstLaunch - 1
  BY <1>1, ConstantTypes DEF FastForward, Streams
<1>2. CASE ~(checkpoints["factory"] >= FirstLaunch /\ checkpoints["curves"] < FirstLaunch - 1)
  BY <1>2 DEF FastForward
<1> QED
  BY <1>1, <1>2

LEMMA LoopInit == Init => LoopInv
<1> SUFFICES ASSUME Init PROVE LoopInv
  OBVIOUS
<1>1. PICK config \in Configs : mode = config.mode /\ source = config.source
  BY DEF Init
<1>2. config \in [mode : {"tail", "backfill"}, source : {"rpc", "hypersync"}]
  BY <1>1, RunControlAssumption
<1>3. [mode |-> mode, source |-> source] \in Configs
  BY <1>1, <1>2
<1>4. PICK found \in FirstCheckpoints[mode] : cp = FastForward(found)
  BY DEF Init
<1>5. found \in [Streams -> 0..FirstHead]
  BY <1>1, <1>2, <1>4, RunControlAssumption
<1>6. found \in [Streams -> 0..MaxHead]
  BY <1>5, ConstantTypes
<1>7. cp \in [Streams -> 0..MaxHead] /\ cp["factory"] <= FirstHead /\ cp["curves"] <= FirstHead
  <2>1. found["factory"] \in 0..FirstHead /\ found["curves"] \in 0..FirstHead
    BY <1>5 DEF Streams
  <2>2. cp \in [Streams -> 0..MaxHead] /\ cp["factory"] = found["factory"]
    BY <1>4, <1>6, FastForwardType
  <2>3. cp["curves"] = found["curves"] \/ cp["curves"] <= found["factory"]
    BY <1>4, <1>6, FastForwardType
  <2>4. cp["curves"] \in 0..MaxHead
    BY <2>2 DEF Streams
  <2> QED
    BY <2>1, <2>2, <2>3, <2>4, ConstantTypes
<1>8. report \in Reports
  <2>1. Unread \in Unread..MaxHead /\ 0 \in 0..MaxHead
    BY ConstantTypes DEF Unread
  <2> QED
    BY <2>1 DEF Init, NoReport, Reports
<1>9. TypeInv
  <2>1. /\ tick \in [Streams -> TickTypes] /\ covered \in [Streams -> 0..MaxHead]
        /\ sleep \in [Streams -> 0..Multiplier]
        /\ loop \in [Streams -> {"running", "returned", "thrown"}]
    BY <1>7, IdleType, ConstantTypes DEF Init
  <2>2. confirmed \in FirstHead..MaxHead /\ faults \in 0..MaxFaults /\ gained \in Nat
    BY ConstantTypes DEF Init
  <2> QED
    BY <1>3, <1>7, <1>8, <2>1, <2>2 DEF Init, TypeInv
<1>10. \A s \in Streams : TickAgrees(s)
  BY <1>7, IdleType, ConstantTypes DEF Init, TickAgrees, Streams
<1> QED
  BY <1>9, <1>10 DEF LoopInv

-----------------------------------------------------------------------------
(* The result of a tick reaches its loop.                                  *)

LEMMA IntervalType ==
  ASSUME NEW s, NEW r
  PROVE  Interval(s, r) \in 0..Multiplier /\ Interval(s, r) \in {1, Multiplier}
BY ConstantTypes DEF Interval

LEMMA OnTickType ==
  ASSUME report \in Reports, NEW s \in Streams, NEW to \in 0..MaxHead,
         NEW caughtUp \in BOOLEAN, NEW head \in Unread..MaxHead
  PROVE  OnTick(s, to, caughtUp, head) \in Reports
<1>1. head # Unread => Lag(head, to) \in Unread..MaxHead
  BY ConstantTypes DEF Lag, Unread
<1>2. CASE s = "curves"
  BY <1>2 DEF OnTick, Reports
<1>3. CASE s # "curves" /\ head = Unread
  BY <1>3 DEF OnTick, Reports
<1>4. CASE s # "curves" /\ head # Unread
  BY <1>1, <1>4 DEF OnTick, Reports
<1> QED
  BY <1>2, <1>3, <1>4

LEMMA ReturnType ==
  ASSUME TypeInv, NEW s \in Streams, NEW to \in 0..MaxHead, NEW scanned \in Nat,
         NEW caughtUp \in BOOLEAN, NEW head \in Unread..MaxHead,
         Return(s, to, scanned, caughtUp, head)
  PROVE  /\ tick' = [tick EXCEPT ![s] = Idle]
         /\ tick' \in [Streams -> TickTypes]
         /\ sleep' \in [Streams -> 0..Multiplier]
         /\ loop' \in [Streams -> {"running", "returned", "thrown"}]
         /\ report' \in Reports
         /\ factoryDone' \in BOOLEAN
         /\ \A other \in Streams \ {s} : sleep'[other] = sleep[other] /\ loop'[other] = loop[other]
<1> USE DEF TypeInv, Return
<1>1. tick' = [tick EXCEPT ![s] = Idle] /\ tick' \in [Streams -> TickTypes]
  BY IdleType
<1>2. CASE TailReturns(s, to, caughtUp, head)
  BY <1>1, <1>2, OnTickType, IntervalType DEF TailReturns
<1>3. CASE BackfillReturns(s, scanned, caughtUp)
  BY <1>1, <1>3, ConstantTypes DEF BackfillReturns
<1> QED
  BY <1>2, <1>3

LEMMA ThrowType ==
  ASSUME TypeInv, NEW s \in Streams, Throw(s)
  PROVE  /\ tick' = [tick EXCEPT ![s] = Idle]
         /\ tick' \in [Streams -> TickTypes]
         /\ sleep' \in [Streams -> 0..Multiplier]
         /\ loop' \in [Streams -> {"running", "returned", "thrown"}]
         /\ report' = report /\ factoryDone' = factoryDone
         /\ \A other \in Streams \ {s} : sleep'[other] = sleep[other] /\ loop'[other] = loop[other]
BY IdleType, IntervalType DEF TypeInv, Throw

\* A tick that is over leaves the other one as it was.
LEMMA TickOver ==
  ASSUME LoopInv, TypeInv', NEW s \in Streams,
         tick' = [tick EXCEPT ![s] = Idle], confirmed' = confirmed,
         cp' \in [Streams -> 0..MaxHead], cp'[s] <= confirmed,
         \A other \in Streams \ {s} :
           cp'[other] = cp[other] /\ sleep'[other] = sleep[other] /\ loop'[other] = loop[other]
  PROVE  \A r \in Streams : TickAgrees(r)'
<1> TAKE r \in Streams
<1>1. CASE r = s
  BY <1>1, IdleType DEF TickAgrees, LoopInv, TypeInv
<1>2. CASE r # s
  BY <1>2 DEF TickAgrees, LoopInv, TypeInv
<1> QED
  BY <1>1, <1>2

-----------------------------------------------------------------------------
(* The step preserves the invariant.                                       *)

\* A step of a tick that is not its last.
LEMMA TickGoesOn ==
  ASSUME LoopInv, TypeInv', NEW s \in Streams, TickAgrees(s)',
         NEW t, tick' = [tick EXCEPT ![s] = t],
         UNCHANGED <<confirmed, cp, sleep, loop>>
  PROVE  LoopInv'
<1> SUFFICES ASSUME NEW r \in Streams, r # s PROVE TickAgrees(r)'
  BY DEF LoopInv
<1>1. tick'[r] = tick[r]
  BY DEF LoopInv, TypeInv
<1> QED
  BY <1>1 DEF LoopInv, TickAgrees

\* A tick that ends without having moved its checkpoint.
LEMMA NoProgress ==
  ASSUME LoopInv, NEW s \in Streams, UNCHANGED <<mode, source, confirmed, cp, covered, gained>>,
         faults' \in 0..MaxFaults,
         \/ \E to \in 0..MaxHead, caughtUp \in BOOLEAN, head \in Unread..MaxHead :
              Return(s, to, 0, caughtUp, head)
         \/ Throw(s)
  PROVE  LoopInv'
<1>1. /\ tick' = [tick EXCEPT ![s] = Idle]
      /\ TypeInv'
      /\ \A other \in Streams \ {s} : sleep'[other] = sleep[other] /\ loop'[other] = loop[other]
  <2>1. CASE Throw(s)
    BY <2>1, ThrowType DEF LoopInv, TypeInv
  <2>2. CASE ~Throw(s)
    <3>1. PICK to \in 0..MaxHead, caughtUp \in BOOLEAN, head \in Unread..MaxHead :
                 Return(s, to, 0, caughtUp, head)
      BY <2>2
    <3>2. /\ tick' = [tick EXCEPT ![s] = Idle]
          /\ tick' \in [Streams -> TickTypes]
          /\ sleep' \in [Streams -> 0..Multiplier]
          /\ loop' \in [Streams -> {"running", "returned", "thrown"}]
          /\ report' \in Reports
          /\ factoryDone' \in BOOLEAN
          /\ \A other \in Streams \ {s} :
               sleep'[other] = sleep[other] /\ loop'[other] = loop[other]
      BY <3>1, ReturnType DEF LoopInv
    <3> QED
      BY <3>2 DEF LoopInv, TypeInv
  <2> QED
    BY <2>1, <2>2
<1>2. cp'[s] <= confirmed /\ cp' \in [Streams -> 0..MaxHead]
  BY DEF LoopInv, TickAgrees, TypeInv
<1> QED
  BY <1>1, <1>2, TickOver DEF LoopInv

LEMMA LeastType ==
  ASSUME NEW a \in Int, NEW b \in Int
  PROVE  Least(a, b) \in {a, b} /\ Least(a, b) <= a /\ Least(a, b) <= b
BY DEF Least

LEMMA BoundaryType ==
  ASSUME LoopInv, NEW s \in Streams
  PROVE  /\ Boundary(s) \in 0..MaxHead
         /\ Boundary(s) <= tick[s].head
         /\ s = "factory" => Boundary(s) = tick[s].head
         /\ s = "curves" => Boundary(s) \in {tick[s].head, cp["factory"]}
                            /\ Boundary(s) <= cp["factory"]
<1>1. tick[s].head \in 0..MaxHead
  BY DEF LoopInv, TypeInv, TickTypes
<1>2. cp["factory"] \in 0..MaxHead
  BY DEF LoopInv, TypeInv, Streams
<1> QED
  BY <1>1, <1>2, LeastType, ConstantTypes DEF Boundary, Streams

\* What Advance finds in the tick it ends.
LEMMA Fetched ==
  ASSUME LoopInv, NEW s \in Streams, tick[s].at = "fetched"
  PROVE  /\ tick[s] \in TickTypes
         /\ tick[s].reached \in 0..MaxHead
         /\ tick[s].from = cp[s]
         /\ tick[s].from < tick[s].reached /\ tick[s].reached <= tick[s].boundary
         /\ tick[s].boundary <= tick[s].head /\ tick[s].head <= confirmed
         /\ tick[s].head \in Unread..MaxHead
BY ConstantTypes DEF LoopInv, TypeInv, TickAgrees, TickTypes, Unread

LEMMA LoopNext == LoopInv /\ [Next]_vars => LoopInv'
<1> SUFFICES ASSUME LoopInv, [Next]_vars PROVE LoopInv'
  OBVIOUS
<1> USE DEF progress, control
<1>0. TypeInv /\ \A s \in Streams : TickAgrees(s)
  BY DEF LoopInv
<1>1. ASSUME NEW s \in Streams, Begin(s) PROVE LoopInv'
  <2> DEFINE t == [Idle EXCEPT !.at = "begun", !.from = cp[s]]
  <2>1. t \in TickTypes /\ t.at = "begun" /\ t.from = cp[s]
    BY <1>0, IdleType DEF TypeInv, TickTypes, Places
  <2>2. tick' = [tick EXCEPT ![s] = t] /\ tick' \in [Streams -> TickTypes] /\ tick'[s] = t
    BY <1>0, <1>1, <2>1 DEF TypeInv, Begin
  <2> HIDE DEF t
  <2>3. TypeInv'
    BY <1>0, <1>1, <2>2 DEF TypeInv, Begin
  <2>4. TickAgrees(s)'
    BY <1>0, <1>1, <2>1, <2>2 DEF TickAgrees, Begin
  <2> QED
    BY <1>1, <2>2, <2>3, <2>4, TickGoesOn DEF Begin
<1>2. ASSUME NEW s \in Streams, ReadHead(s) PROVE LoopInv'
  <2> DEFINE t == [tick[s] EXCEPT !.at = "head", !.head = confirmed]
  <2>1. /\ t \in TickTypes /\ t.at = "head" /\ t.head = confirmed /\ t.from = tick[s].from
    <3>1. confirmed \in 0..MaxHead /\ tick[s] \in TickTypes
      BY <1>0, ConstantTypes DEF TypeInv
    <3> QED
      BY <3>1 DEF TickTypes, Places
  <2>2. tick' = [tick EXCEPT ![s] = t] /\ tick' \in [Streams -> TickTypes] /\ tick'[s] = t
    BY <1>0, <1>2, <2>1 DEF TypeInv, ReadHead
  <2> HIDE DEF t
  <2>3. TypeInv'
    BY <1>0, <1>2, <2>2 DEF TypeInv, ReadHead
  <2>4. TickAgrees(s)'
    BY <1>0, <1>2, <2>1, <2>2, ConstantTypes DEF TickAgrees, ReadHead, TypeInv
  <2> QED
    BY <1>2, <2>2, <2>3, <2>4, TickGoesOn DEF ReadHead
<1>3. ASSUME NEW s \in Streams, NothingToScan(s) PROVE LoopInv'
  <2>1. tick[s].from \in 0..MaxHead /\ tick[s].head \in Unread..MaxHead
    BY <1>0, ConstantTypes DEF TypeInv, TickTypes, Unread
  <2> QED
    BY <1>0, <1>3, <2>1, NoProgress DEF NothingToScan, TypeInv
<1>4. ASSUME NEW s \in Streams, ReadCeiling(s) PROVE LoopInv'
  <2> DEFINE t == [tick[s] EXCEPT !.at = "asking", !.boundary = Boundary(s)]
  <2>1. /\ t \in TickTypes /\ t.at = "asking" /\ t.boundary = Boundary(s)
        /\ t.from = tick[s].from /\ t.head = tick[s].head
    BY <1>0, BoundaryType DEF TypeInv, TickTypes, Places
  <2>2. tick' = [tick EXCEPT ![s] = t] /\ tick' \in [Streams -> TickTypes] /\ tick'[s] = t
    BY <1>0, <1>4, <2>1 DEF TypeInv, ReadCeiling
  <2> HIDE DEF t
  <2>3. TypeInv'
    BY <1>0, <1>4, <2>2 DEF TypeInv, ReadCeiling
  <2>4. TickAgrees(s)'
    BY <1>0, <1>4, <2>1, <2>2, BoundaryType DEF TickAgrees, ReadCeiling
  <2> QED
    BY <1>4, <2>2, <2>3, <2>4, TickGoesOn DEF ReadCeiling
<1>5. ASSUME NEW s \in Streams, FetchLogs(s) PROVE LoopInv'
  <2>1. PICK scanned \in 0 .. Least(Window, tick[s].boundary - tick[s].from) :
          /\ scanned = 0 => source = "hypersync" /\ MayStall
          /\ tick' = [tick EXCEPT ![s].at = "fetched", ![s].scanned = scanned,
                                  ![s].reached = Reached(s, scanned)]
    BY <1>5 DEF FetchLogs
  <2>2. /\ tick[s] \in TickTypes /\ tick[s].from \in 0..MaxHead /\ tick[s].boundary \in 0..MaxHead
        /\ tick[s].from < tick[s].boundary
    BY <1>0, <1>5 DEF FetchLogs, TypeInv, TickAgrees, TickTypes
  <2>3. scanned \in Nat /\ scanned <= tick[s].boundary - tick[s].from
    BY <2>1, <2>2, ConstantTypes, LeastType
  <2>4. /\ Reached(s, scanned) \in 0..MaxHead
        /\ tick[s].from < Reached(s, scanned) /\ Reached(s, scanned) <= tick[s].boundary
        /\ scanned <= Reached(s, scanned) - tick[s].from
        /\ ~MayStall => Reached(s, scanned) = tick[s].from + scanned
    BY <2>1, <2>2, <2>3, ConstantTypes DEF Reached
  <2> DEFINE t == [tick[s] EXCEPT !.at = "fetched", !.scanned = scanned,
                                  !.reached = Reached(s, scanned)]
  <2>5. /\ t \in TickTypes /\ t.at = "fetched" /\ t.scanned = scanned
        /\ t.reached = Reached(s, scanned)
        /\ t.from = tick[s].from /\ t.head = tick[s].head /\ t.boundary = tick[s].boundary
    <3>1. scanned \in 0..MaxHead
      BY <2>2, <2>3, ConstantTypes
    <3> QED
      BY <2>2, <2>4, <3>1 DEF TickTypes, Places
  <2>6. tick' = [tick EXCEPT ![s] = t] /\ tick' \in [Streams -> TickTypes] /\ tick'[s] = t
    BY <1>0, <2>1, <2>5 DEF TypeInv
  <2> HIDE DEF t
  <2>7. TypeInv'
    BY <1>0, <1>5, <2>6 DEF TypeInv, FetchLogs
  <2>8. TickAgrees(s)'
    BY <1>0, <1>5, <2>4, <2>5, <2>6 DEF TickAgrees, FetchLogs
  <2>9. UNCHANGED <<confirmed, cp, sleep, loop>>
    BY <1>5 DEF FetchLogs
  <2>10. PICK u : tick' = [tick EXCEPT ![s] = u]
    BY <2>6
  <2> QED
    BY <2>7, <2>8, <2>9, <2>10, TickGoesOn, Zenon
<1>6. ASSUME NEW s \in Streams, Advance(s) PROVE LoopInv'
  <2> DEFINE t == tick[s]
  <2>1. /\ t \in TickTypes /\ t.reached \in 0..MaxHead /\ t.from = cp[s]
        /\ t.from < t.reached /\ t.reached <= t.boundary
        /\ t.boundary <= t.head /\ t.head <= confirmed /\ t.head \in Unread..MaxHead
    BY <1>0, <1>6, Fetched DEF Advance
  <2>2. t.from \in 0..MaxHead /\ t.scanned \in 0..MaxHead /\ t.boundary \in 0..MaxHead
    BY <2>1 DEF TickTypes
  <2> DEFINE gain == t.reached - t.from
             caughtUp == t.reached >= t.boundary
  <2>3. gain \in Nat /\ caughtUp \in BOOLEAN
    BY <2>1, <2>2, ConstantTypes
  <2>4. Return(s, t.reached, gain, caughtUp, t.head)
    BY <1>6 DEF Advance
  <2>5. /\ tick' = [tick EXCEPT ![s] = Idle]
        /\ tick' \in [Streams -> TickTypes]
        /\ sleep' \in [Streams -> 0..Multiplier]
        /\ loop' \in [Streams -> {"running", "returned", "thrown"}]
        /\ report' \in Reports
        /\ factoryDone' \in BOOLEAN
        /\ \A other \in Streams \ {s} : sleep'[other] = sleep[other] /\ loop'[other] = loop[other]
    <3>1. PICK to \in 0..MaxHead, scanned \in Nat, isOver \in BOOLEAN, head \in Unread..MaxHead :
                 Return(s, to, scanned, isOver, head)
      BY <2>1, <2>3, <2>4
    <3> QED
      BY <1>0, <3>1, ReturnType
  <2>6. /\ cp' = [cp EXCEPT ![s] = t.reached] /\ cp' \in [Streams -> 0..MaxHead]
        /\ cp'[s] = t.reached /\ cp'[s] <= confirmed
    BY <1>0, <1>6, <2>1, <2>2, ConstantTypes DEF Advance, TypeInv
  <2>7. covered' \in [Streams -> 0..MaxHead]
    <3>1. covered[s] = t.from => covered[s] + t.scanned \in 0..MaxHead
      BY <1>0, <1>6, <2>1, <2>2, ConstantTypes DEF TickAgrees, Advance
    <3> QED
      BY <1>0, <1>6, <3>1 DEF Advance, TypeInv
  <2>8. gained' \in Nat
    BY <1>0, <1>6, <2>1, <2>2, <2>3 DEF Advance, TypeInv
  <2>9. TypeInv'
    BY <1>0, <1>6, <2>5, <2>6, <2>7, <2>8 DEF TypeInv, Advance
  <2>10. \A other \in Streams \ {s} : cp'[other] = cp[other]
    BY <1>0, <2>6 DEF TypeInv
  <2>11. confirmed' = confirmed
    BY <1>6 DEF Advance
  <2> QED
    BY <2>5, <2>6, <2>9, <2>10, <2>11, TickOver DEF LoopInv
<1>7. ASSUME NEW s \in Streams, SourceFails(s) PROVE LoopInv'
  <2>1. tick[s].from \in 0..MaxHead /\ Unread \in Unread..MaxHead
    BY <1>0, ConstantTypes DEF TypeInv, TickTypes, Unread
  <2>2. faults' \in 0..MaxFaults
    BY <1>0, <1>7, ConstantTypes DEF SourceFails, Fault, TypeInv
  <2> QED
    BY <1>7, <2>1, <2>2, NoProgress DEF SourceFails
<1>8. ASSUME NEW s \in Streams, TooWide(s) PROVE LoopInv'
  <2>1. tick[s].from \in 0..MaxHead /\ tick[s].head \in Unread..MaxHead
    BY <1>0, ConstantTypes DEF TypeInv, TickTypes, Unread
  <2>2. faults' \in 0..MaxFaults
    BY <1>0, <1>8, ConstantTypes DEF TooWide, Fault, TypeInv
  <2> QED
    BY <1>8, <2>1, <2>2, NoProgress DEF TooWide
<1>9. ASSUME NEW s \in Streams, ProcessorThrows(s) PROVE LoopInv'
  <2>1. faults' \in 0..MaxFaults
    BY <1>0, <1>9, ConstantTypes DEF ProcessorThrows, Fault, TypeInv
  <2> QED
    BY <1>9, <2>1, NoProgress DEF ProcessorThrows
<1>10. CASE Pass
  <2>1. /\ confirmed' \in FirstHead..MaxHead /\ confirmed <= confirmed'
        /\ faults' \in 0..MaxFaults
    BY <1>0, <1>10, ConstantTypes DEF Pass, TypeInv, Fault
  <2>2. sleep' \in [Streams -> 0..Multiplier] /\ \A s \in Streams : sleep[s] = 0 => sleep'[s] = 0
    BY <1>0, <1>10, ConstantTypes DEF Pass, TypeInv, Later
  <2>3. TypeInv'
    BY <1>0, <1>10, <2>1, <2>2 DEF Pass, TypeInv
  <2>4. ASSUME NEW s \in Streams PROVE TickAgrees(s)'
    <3>1. cp[s] \in 0..MaxHead /\ tick[s] \in TickTypes /\ tick[s].head \in 0..MaxHead
      BY <1>0 DEF TypeInv, TickTypes
    <3>2. /\ UNCHANGED <<cp, tick, loop>>
          /\ confirmed \in Nat /\ confirmed' \in Nat
      BY <1>0, <1>10, <2>1, ConstantTypes DEF Pass, TypeInv
    <3> QED
      BY <1>0, <2>1, <2>2, <3>1, <3>2, ConstantTypes DEF TickAgrees
  <2> QED
    BY <2>3, <2>4 DEF LoopInv
<1>11. CASE Restart
  <2>1. /\ cp' \in [Streams -> 0..MaxHead] /\ cp'["factory"] = cp["factory"]
        /\ cp'["curves"] = cp["curves"] \/ cp'["curves"] <= cp["factory"]
    BY <1>0, <1>11, FastForwardType DEF Restart, TypeInv
  <2>2. tick' \in [Streams -> TickTypes] /\ \A s \in Streams : tick'[s].at = "idle"
    BY <1>11, IdleType DEF Restart
  <2>3. report' \in Reports
    <3>1. Unread \in Unread..MaxHead /\ 0 \in 0..MaxHead
      BY ConstantTypes DEF Unread
    <3> QED
      BY <1>11, <3>1 DEF Restart, NoReport, Reports
  <2>4. covered' \in [Streams -> 0..MaxHead]
    BY <1>0, <1>11, <2>1 DEF Restart, TypeInv
  <2>5. TypeInv'
    <3>1. sleep' \in [Streams -> 0..Multiplier] /\ gained' \in Nat /\ faults' \in 0..MaxFaults
      BY <1>0, <1>11, ConstantTypes DEF Restart, Fault, TypeInv
    <3>2. loop' \in [Streams -> {"running", "returned", "thrown"}]
      BY <1>11 DEF Restart
    <3> QED
      BY <1>0, <1>11, <2>1, <2>2, <2>3, <2>4, <3>1, <3>2 DEF Restart, TypeInv
  <2>6. \A s \in Streams : cp'[s] <= confirmed
    <3>1. /\ cp["factory"] <= confirmed /\ cp["curves"] <= confirmed
          /\ cp["factory"] \in 0..MaxHead /\ cp["curves"] \in 0..MaxHead
          /\ cp'["factory"] \in 0..MaxHead /\ cp'["curves"] \in 0..MaxHead
          /\ confirmed \in Nat
      BY <1>0, <2>1, ConstantTypes DEF TypeInv, TickAgrees, Streams
    <3> QED
      BY <2>1, <3>1, ConstantTypes DEF Streams
  <2> QED
    BY <1>11, <2>2, <2>5, <2>6 DEF Restart, LoopInv, TickAgrees
<1>12. CASE UNCHANGED vars
  BY <1>0, <1>12 DEF vars, LoopInv, TypeInv, TickAgrees
<1> QED
  BY <1>1, <1>2, <1>3, <1>4, <1>5, <1>6, <1>7, <1>8, <1>9, <1>10, <1>11, <1>12
     DEF Next, Tick, Trouble

LEMMA LoopInvariant == Spec => []LoopInv
BY LoopInit, LoopNext, PTL DEF Spec

\* Checkpoints, ticks and what the loops keep of each other have the types of the source.
THEOREM LoopsTyped == Spec => []TypeOK
<1>1. LoopInv => TypeOK
  BY ConstantTypes DEF LoopInv, TypeInv, TypeOK, TickTypes, Places, Reports
<1> QED
  BY <1>1, LoopInvariant, PTL

-----------------------------------------------------------------------------
(* What a checkpoint claims.                                               *)

\* A checkpoint never claims a block nobody scanned, unless HyperSync answers with the
\* block it was asked to start from.
THEOREM CheckpointsHonest ==
  ASSUME ~MayStall
  PROVE  Spec => []NothingSkipped
<1>1. Init => NothingSkipped
  BY DEF Init, NothingSkipped
<1>2. LoopInv /\ LoopInv' /\ NothingSkipped /\ [Next]_vars => NothingSkipped'
  <2> SUFFICES ASSUME LoopInv, LoopInv', NothingSkipped, [Next]_vars PROVE NothingSkipped'
    OBVIOUS
  <2>1. ASSUME NEW s \in Streams, Advance(s) PROVE NothingSkipped'
    <3>1. /\ tick[s].at = "fetched" /\ tick[s].from = cp[s]
          /\ tick[s].reached = tick[s].from + tick[s].scanned
      BY <2>1 DEF Advance, LoopInv, TickAgrees
    <3>2. cp' = [cp EXCEPT ![s] = tick[s].reached]
      BY <2>1 DEF Advance
    <3>3. covered' = [covered EXCEPT ![s] = tick[s].from + tick[s].scanned]
      BY <2>1, <3>1 DEF Advance, NothingSkipped, LoopInv, TypeInv
    <3> QED
      BY <3>1, <3>2, <3>3 DEF NothingSkipped
  <2>2. CASE Restart
    <3>1. covered' = [s \in Streams |-> cp'[s]]
      BY <2>2 DEF Restart, NothingSkipped
    <3> QED
      BY <3>1 DEF NothingSkipped, LoopInv, TypeInv
  <2>3. CASE UNCHANGED <<cp, covered>>
    BY <2>3 DEF NothingSkipped
  <2> QED
    BY <2>1, <2>2, <2>3 DEF Next, Tick, Trouble, vars, progress, Begin, ReadHead, NothingToScan,
       ReadCeiling, FetchLogs, SourceFails, TooWide, ProcessorThrows, Pass
<1> QED
  BY <1>1, <1>2, LoopInvariant, PTL DEF Spec

-----------------------------------------------------------------------------
(* The end of a backfill.                                                  *)

\* How far a curve tick in flight will bring the curve stream if it is caught up: to the
\* factory's checkpoint, less what the factory has scanned since the tick began.
CurveTickAims ==
  LET t == tick["curves"]
      sinceBegun == cp["factory"] - gained
  IN  /\ t.at = "head" => sinceBegun <= t.head
      /\ t.at \in {"asking", "fetched"} => sinceBegun <= t.boundary

EndInv ==
  mode = "backfill" =>
    /\ factoryDone => loop["factory"] = "returned" /\ cp["factory"] >= FirstHead
    /\ loop["factory"] = "returned" => factoryDone
    /\ CurveTickAims
    /\ loop["curves"] = "returned" => factoryDone /\ cp["factory"] - cp["curves"] <= gained

LEMMA EndInit == Init => EndInv
BY IdleType DEF Init, EndInv, CurveTickAims, Streams

\* What a backfill's loop makes of a result.
LEMMA BackfillEnding ==
  ASSUME TypeInv, mode = "backfill", NEW s \in Streams, NEW to, NEW scanned, NEW caughtUp, NEW head,
         caughtUp \in BOOLEAN, Return(s, to, scanned, caughtUp, head)
  PROVE  /\ s = "factory" => /\ factoryDone' = caughtUp
                             /\ loop'["factory"] = IF caughtUp THEN "returned" ELSE loop["factory"]
         /\ s = "curves" => /\ factoryDone' = factoryDone
                            /\ loop'["curves"] = IF caughtUp /\ factoryDone THEN "returned"
                                                 ELSE loop["curves"]
BY DEF Return, TailReturns, BackfillReturns, MayFinish, TypeInv, Streams

\* The two results there are.
LEMMA CaughtUpEnding ==
  ASSUME TypeInv, mode = "backfill", NEW s \in Streams, NEW to, NEW scanned, NEW head,
         Return(s, to, scanned, TRUE, head)
  PROVE  /\ s = "factory" => factoryDone' /\ loop'["factory"] = "returned"
         /\ s = "curves" => /\ factoryDone' = factoryDone
                            /\ loop'["curves"] = IF factoryDone THEN "returned"
                                                 ELSE loop["curves"]
BY DEF Return, TailReturns, BackfillReturns, MayFinish, TypeInv, Streams

LEMMA ShortEnding ==
  ASSUME TypeInv, mode = "backfill", NEW s \in Streams, NEW to, NEW scanned, NEW head,
         Return(s, to, scanned, FALSE, head)
  PROVE  /\ loop' = loop
         /\ s = "factory" => ~factoryDone'
         /\ s = "curves" => factoryDone' = factoryDone
BY DEF Return, TailReturns, BackfillReturns, TypeInv, Streams

\* A backfill's tick that ends without progress, short of its boundary.
LEMMA EndsShort ==
  ASSUME LoopInv, LoopInv', EndInv, mode = "backfill", NEW s \in Streams,
         UNCHANGED <<mode, cp, gained>>, tick[s].at # "idle",
         (\E to, head : Return(s, to, 0, FALSE, head)) \/ Throw(s)
  PROVE  EndInv'
<1>1. tick' = [tick EXCEPT ![s] = Idle] /\ Idle.at = "idle"
  BY IdleType DEF Return, Throw
<1>2. loop[s] = "running"
  BY DEF LoopInv, TickAgrees
<1>3. \A r \in Streams \ {s} : loop'[r] = loop[r] /\ tick'[r] = tick[r]
  BY <1>1 DEF Return, Throw, BackfillReturns, TailReturns, LoopInv, TypeInv
<1>4. s = "factory" => ~factoryDone
  BY <1>2 DEF EndInv
<1>5. /\ loop'[s] # "returned"
      /\ s = "factory" => ~factoryDone'
      /\ s = "curves" => factoryDone' = factoryDone
  <2>1. CASE Throw(s)
    BY <1>4, <2>1 DEF Throw, LoopInv, TypeInv
  <2>2. CASE ~Throw(s)
    <3>1. PICK to, head : Return(s, to, 0, FALSE, head)
      BY <2>2
    <3> QED
      BY <1>2, <3>1, ShortEnding DEF LoopInv
  <2> QED
    BY <2>1, <2>2
<1>6. CASE s = "factory"
  BY <1>2, <1>3, <1>4, <1>5, <1>6 DEF EndInv, CurveTickAims, Streams
<1>7. CASE s = "curves"
  BY <1>1, <1>3, <1>5, <1>7 DEF EndInv, CurveTickAims, Streams, LoopInv, TypeInv
<1> QED
  BY <1>6, <1>7 DEF Streams

LEMMA EndNext == LoopInv /\ LoopInv' /\ EndInv /\ [Next]_vars => EndInv'
<1> SUFFICES ASSUME LoopInv, LoopInv', EndInv, [Next]_vars, mode' = "backfill" PROVE EndInv'
  BY DEF EndInv
<1> USE DEF progress, control
<1>0. /\ mode = "backfill"
      /\ "factory" \in Streams /\ "curves" \in Streams
      /\ cp["factory"] \in Nat /\ cp["curves"] \in Nat /\ gained \in Nat /\ confirmed \in Nat
      /\ tick["curves"] \in TickTypes /\ tick["factory"] \in TickTypes
      /\ cp["factory"] <= confirmed
  <2>1. mode = "backfill"
    BY DEF Next, Tick, Trouble, vars, Begin, ReadHead, NothingToScan, ReadCeiling, FetchLogs,
       Advance, SourceFails, TooWide, ProcessorThrows, Pass, Restart
  <2>2. "factory" \in Streams /\ "curves" \in Streams
    BY DEF Streams
  <2> QED
    BY <2>1, <2>2, ConstantTypes DEF LoopInv, TypeInv, TickAgrees
<1>1. /\ factoryDone => loop["factory"] = "returned" /\ cp["factory"] >= FirstHead
      /\ loop["factory"] = "returned" => factoryDone
      /\ CurveTickAims
      /\ loop["curves"] = "returned" => factoryDone /\ cp["factory"] - cp["curves"] <= gained
  BY <1>0 DEF EndInv
<1>2. ASSUME NEW s \in Streams, Begin(s) PROVE EndInv'
  <2>1. CASE s = "curves"
    <3>1. tick'["curves"].at = "begun" /\ loop'["curves"] = "running"
      BY <1>0, <1>2, <2>1, IdleType DEF Begin, LoopInv, TypeInv, Idle
    <3> QED
      BY <1>1, <1>2, <3>1 DEF Begin, EndInv, CurveTickAims
  <2>2. CASE s = "factory"
    <3>1. tick'["curves"] = tick["curves"]
      BY <1>0, <1>2, <2>2 DEF Begin, LoopInv, TypeInv
    <3> QED
      BY <1>1, <1>2, <2>2, <3>1 DEF Begin, EndInv, CurveTickAims
  <2> QED
    BY <2>1, <2>2 DEF Streams
<1>3. ASSUME NEW s \in Streams, ReadHead(s) PROVE EndInv'
  <2>1. CASE s = "curves"
    <3>1. tick'["curves"].at = "head" /\ tick'["curves"].head = confirmed
      BY <1>0, <1>3, <2>1 DEF ReadHead, LoopInv, TypeInv, TickTypes
    <3> QED
      BY <1>0, <1>1, <1>3, <3>1 DEF ReadHead, EndInv, CurveTickAims
  <2>2. CASE s = "factory"
    <3>1. tick'["curves"] = tick["curves"]
      BY <1>0, <1>3, <2>2 DEF ReadHead, LoopInv, TypeInv
    <3> QED
      BY <1>1, <1>3, <3>1 DEF ReadHead, EndInv, CurveTickAims
  <2> QED
    BY <2>1, <2>2 DEF Streams
<1>4. ASSUME NEW s \in Streams, ReadCeiling(s) PROVE EndInv'
  <2>1. CASE s = "curves"
    <3>1. tick'["curves"].at = "asking" /\ tick'["curves"].boundary = Boundary("curves")
      BY <1>0, <1>4, <2>1 DEF ReadCeiling, LoopInv, TypeInv, TickTypes
    <3>2. Boundary("curves") \in {tick["curves"].head, cp["factory"]}
      BY <1>0, BoundaryType
    <3>3. cp["factory"] - gained <= tick["curves"].head
      BY <1>1, <1>4, <2>1 DEF ReadCeiling, CurveTickAims
    <3> QED
      BY <1>0, <1>1, <1>4, <3>1, <3>2, <3>3 DEF ReadCeiling, EndInv, CurveTickAims
  <2>2. CASE s = "factory"
    <3>1. tick'["curves"] = tick["curves"]
      BY <1>0, <1>4, <2>2 DEF ReadCeiling, LoopInv, TypeInv
    <3> QED
      BY <1>1, <1>4, <3>1 DEF ReadCeiling, EndInv, CurveTickAims
  <2> QED
    BY <2>1, <2>2 DEF Streams
<1>5. ASSUME NEW s \in Streams, FetchLogs(s) PROVE EndInv'
  <2>1. \/ tick'["curves"] = tick["curves"]
        \/ /\ tick["curves"].at = "asking" /\ tick'["curves"].at = "fetched"
           /\ tick'["curves"].boundary = tick["curves"].boundary
    <3>1. PICK scanned : tick' = [tick EXCEPT ![s].at = "fetched", ![s].scanned = scanned,
                                              ![s].reached = Reached(s, scanned)]
      BY <1>5 DEF FetchLogs
    <3> QED
      BY <1>0, <1>5, <3>1 DEF FetchLogs, LoopInv, TypeInv, TickTypes
  <2>2. UNCHANGED <<mode, cp, gained, factoryDone, loop>>
    BY <1>5 DEF FetchLogs
  <2>3. CurveTickAims'
    BY <1>1, <2>1, <2>2 DEF CurveTickAims
  <2> QED
    BY <1>1, <2>2, <2>3, Zenon DEF EndInv
<1>6. ASSUME NEW s \in Streams, NothingToScan(s) PROVE EndInv'
  <2>1. /\ Return(s, tick[s].from, 0, TRUE, tick[s].head)
        /\ tick' = [tick EXCEPT ![s] = Idle]
        /\ UNCHANGED <<cp, gained>>
    BY <1>6 DEF NothingToScan, Return
  <2>2. /\ tick[s].from = cp[s] /\ loop[s] = "running" /\ FirstHead <= tick[s].head
        /\ \A r \in Streams \ {s} : loop'[r] = loop[r] /\ tick'[r] = tick[r]
    BY <1>6, <2>1 DEF NothingToScan, Return, BackfillReturns, TailReturns, LoopInv, TypeInv, TickAgrees
  <2>3. CASE s = "factory"
    <3>1. factoryDone' /\ loop'["factory"] = "returned"
      BY <1>0, <2>1, <2>3, CaughtUpEnding DEF LoopInv
    <3>2. cp["factory"] >= FirstHead
      BY <1>0, <1>6, <2>2, <2>3, BoundaryType, ConstantTypes DEF NothingToScan, TickTypes
    <3>3. loop'["curves"] = loop["curves"] /\ tick'["curves"] = tick["curves"]
      BY <1>0, <2>2, <2>3
    <3>4. loop["curves"] # "returned"
      BY <1>1, <2>2, <2>3
    <3> QED
      BY <1>1, <2>1, <3>1, <3>2, <3>3, <3>4 DEF EndInv, CurveTickAims
  <2>4. CASE s = "curves"
    <3>1. factoryDone' = factoryDone /\ loop'["factory"] = loop["factory"]
      BY <1>0, <2>1, <2>2, <2>4, CaughtUpEnding DEF LoopInv
    <3>2. loop'["curves"] = "returned" => factoryDone
      BY <1>0, <2>1, <2>2, <2>4, CaughtUpEnding DEF LoopInv
    <3>3. cp["factory"] - cp["curves"] <= gained
      <4>1. /\ cp["factory"] - gained <= tick["curves"].head
            /\ Boundary("curves") <= cp["curves"]
        BY <1>1, <1>6, <2>2, <2>4 DEF NothingToScan, CurveTickAims
      <4>2. Boundary("curves") \in {tick["curves"].head, cp["factory"]}
        BY <1>0, BoundaryType
      <4> QED
        BY <1>0, <4>1, <4>2 DEF TickTypes
    <3>4. tick'["curves"].at = "idle"
      BY <1>0, <2>1, <2>4, IdleType DEF LoopInv, TypeInv
    <3> QED
      BY <1>1, <2>1, <3>1, <3>2, <3>3, <3>4 DEF EndInv, CurveTickAims
  <2> QED
    BY <2>3, <2>4 DEF Streams
<1>7. ASSUME NEW s \in Streams, Advance(s) PROVE EndInv'
  <2> DEFINE t == tick[s]
             gain == t.reached - t.from
             caughtUp == t.reached >= t.boundary
  <2>1. /\ t.reached \in Nat /\ t.from \in Nat /\ t.boundary \in Nat /\ t.head \in Nat
        /\ t.from = cp[s] /\ t.from < t.reached
        /\ s = "factory" => t.boundary = t.head
        /\ FirstHead <= t.head /\ loop[s] = "running"
    BY <1>7, ConstantTypes DEF Advance, LoopInv, TypeInv, TickAgrees, TickTypes
  <2>2. caughtUp \in BOOLEAN /\ (caughtUp <=> t.reached >= t.boundary)
    BY <2>1
  <2>3. /\ Return(s, t.reached, gain, caughtUp, t.head)
        /\ tick' = [tick EXCEPT ![s] = Idle] /\ cp' = [cp EXCEPT ![s] = t.reached]
        /\ gained' = IF s = "factory" /\ tick["curves"].at # "idle" THEN gained + t.reached - t.from
                     ELSE gained
    BY <1>0, <1>7 DEF Advance, Return
  <2>4. /\ \A r \in Streams \ {s} : loop'[r] = loop[r] /\ tick'[r] = tick[r] /\ cp'[r] = cp[r]
        /\ cp'[s] = t.reached
    BY <2>3 DEF Return, BackfillReturns, TailReturns, LoopInv, TypeInv
  <2>5. /\ s = "factory" => /\ factoryDone' = caughtUp
                            /\ loop'["factory"] = IF caughtUp THEN "returned" ELSE loop["factory"]
        /\ s = "curves" => /\ factoryDone' = factoryDone
                           /\ loop'["curves"] = IF caughtUp /\ factoryDone THEN "returned"
                                                ELSE loop["curves"]
    <3> HIDE DEF t, gain, caughtUp
    <3> QED
      BY <1>0, <2>2, <2>3, BackfillEnding DEF LoopInv
  <2>6. CASE s = "factory"
    <3>1. loop["curves"] # "returned" /\ loop'["curves"] = loop["curves"]
          /\ tick'["curves"] = tick["curves"]
      BY <1>0, <1>1, <2>1, <2>4, <2>6
    <3>2. factoryDone' => cp'["factory"] >= FirstHead
      <4>1. factoryDone' => caughtUp
        BY <2>5, <2>6
      <4> QED
        BY <2>1, <2>2, <2>4, <2>6, <4>1, ConstantTypes
    <3>3. factoryDone' <=> loop'["factory"] = "returned"
      BY <1>0, <2>1, <2>2, <2>5, <2>6
    <3>4. tick["curves"].at # "idle" => cp'["factory"] - gained' = cp["factory"] - gained
      BY <1>0, <2>1, <2>3, <2>4, <2>6
    <3>5. CurveTickAims'
      <4>1. CurveTickAims
        BY <1>1
      <4> QED
        BY <3>1, <3>4, <4>1 DEF CurveTickAims
    <3> QED
      BY <3>1, <3>2, <3>3, <3>5 DEF EndInv
  <2>7. CASE s = "curves"
    <3>1. tick'["curves"].at = "idle"
      BY <1>0, <2>3, <2>7, IdleType DEF LoopInv, TypeInv
    <3>2. /\ cp'["factory"] = cp["factory"] /\ loop'["factory"] = loop["factory"]
          /\ factoryDone' = factoryDone /\ gained' = gained
      BY <1>0, <2>3, <2>4, <2>5, <2>7
    <3>3. cp["factory"] - gained <= t.boundary
      BY <1>1, <1>7, <2>7 DEF CurveTickAims, Advance
    <3>4. loop'["curves"] = "returned" => caughtUp /\ factoryDone
      BY <2>1, <2>5, <2>7
    <3>5. loop'["curves"] = "returned" => cp'["factory"] - cp'["curves"] <= gained'
      BY <1>0, <2>1, <2>2, <2>4, <2>7, <3>2, <3>3, <3>4
    <3> QED
      BY <1>1, <3>1, <3>2, <3>4, <3>5 DEF EndInv, CurveTickAims
  <2> QED
    BY <2>6, <2>7 DEF Streams
<1>8. ASSUME NEW s \in Streams, Trouble(s) PROVE EndInv'
  <2>1. /\ UNCHANGED <<mode, cp, gained>> /\ tick[s].at # "idle"
        /\ (\E to, head : Return(s, to, 0, FALSE, head)) \/ Throw(s)
    BY <1>8 DEF Trouble, SourceFails, TooWide, ProcessorThrows
  <2> QED
    BY <1>0, <2>1, EndsShort
<1>9. CASE Pass
  BY <1>1, <1>9 DEF Pass, EndInv, CurveTickAims
<1>10. CASE Restart
  BY <1>10, IdleType DEF Restart, EndInv, CurveTickAims, Streams
<1>11. CASE UNCHANGED vars
  BY <1>1, <1>11 DEF vars, EndInv, CurveTickAims
<1> QED
  BY <1>2, <1>3, <1>4, <1>5, <1>6, <1>7, <1>8, <1>9, <1>10, <1>11 DEF Next, Tick

\* A one-shot backfill that ends has covered the chain up to the head it started from with
\* the factory, and with the curve stream all but what the factory scanned during the last
\* curve tick.
THEOREM EndsCovered == Spec => []EndsWithinOneTick
<1>1. EndInv => EndsWithinOneTick
  BY DEF EndInv, EndsWithinOneTick, Ended, Streams
<1> QED
  BY <1>1, EndInit, EndNext, LoopInvariant, PTL DEF Spec

-----------------------------------------------------------------------------
(* The factory of a tail stays near the head.                              *)

\* The factory the tail finds is no further behind than one backed-off pause takes it.
StartsNear ==
  \A found \in FirstCheckpoints["tail"] : FirstHead - found["factory"] <= NearHead + Multiplier

Room(n) == NearHead + Multiplier * (1 + n)

LEMMA RoomGrows ==
  ASSUME NEW n \in Nat
  PROVE  /\ Room(n) \in Nat
         /\ Room(n + 1) = Room(n) + Multiplier
         /\ NearHead + Multiplier + n <= Room(n)
<1>1. \A m \in Nat \ {0}, k \in Nat : m * k \in Nat /\ m * (1 + (k + 1)) = m * (1 + k) + m
  OBVIOUS
<1>2. \A m \in Nat \ {0}, k \in Nat : m + k <= m * (1 + k)
  <2> SUFFICES ASSUME NEW m \in Nat \ {0}, NEW k \in Nat PROVE m + k <= m * (1 + k)
    OBVIOUS
  <2>1. m * (1 + k) = m + m * k /\ m * k \in Nat
    OBVIOUS
  <2>2. m * k = k + (m - 1) * k /\ (m - 1) * k \in Nat
    OBVIOUS
  <2> QED
    BY <2>1, <2>2
<1> QED
  BY <1>1, <1>2, ConstantTypes DEF Room

\* What the factory's pause will cost is counted before it is taken.
NearInv ==
  mode = "tail" =>
    /\ confirmed - cp["factory"] + sleep["factory"] <= Room(faults)
    /\ tick["factory"].at \in {"head", "asking", "fetched"} =>
         confirmed - tick["factory"].head <= faults

LEMMA NearInit == StartsNear /\ Init => NearInv
<1> SUFFICES ASSUME StartsNear, Init, mode = "tail" PROVE NearInv
  BY DEF NearInv
<1>1. PICK found \in FirstCheckpoints["tail"] : cp = FastForward(found)
  BY DEF Init
<1>2. found \in [Streams -> 0..FirstHead]
  BY <1>1, RunControlAssumption
<1>3. found \in [Streams -> 0..MaxHead]
  BY <1>2, ConstantTypes
<1>4. cp["factory"] = found["factory"] /\ found["factory"] \in 0..FirstHead
  BY <1>1, <1>2, <1>3, FastForwardType DEF Streams
<1>5. FirstHead - found["factory"] <= NearHead + Multiplier
  BY <1>1 DEF StartsNear
<1>6. /\ tick["factory"].at = "idle" /\ sleep["factory"] = 0
      /\ confirmed = FirstHead /\ faults = 0
  BY IdleType DEF Init, Streams
<1>7. Room(0) \in Nat /\ NearHead + Multiplier + 0 <= Room(0)
  BY RoomGrows
<1> QED
  BY <1>4, <1>5, <1>6, <1>7, ConstantTypes DEF NearInv

\* The backed-off interval follows only on a tick that ended near the head it had read.
LEMMA FactoryWaits ==
  ASSUME TypeInv, mode = "tail", NEW to \in 0..MaxHead, NEW scanned, NEW caughtUp \in BOOLEAN,
         NEW head \in 0..MaxHead, Return("factory", to, scanned, caughtUp, head)
  PROVE  \/ sleep'["factory"] = 1
         \/ sleep'["factory"] = Multiplier /\ (caughtUp \/ head - to <= NearHead)
<1>1. TailReturns("factory", to, caughtUp, head)
  BY DEF Return, BackfillReturns
<1>2. /\ sleep'["factory"] = Interval("factory", report')
      /\ report' = OnTick("factory", to, caughtUp, head)
  BY <1>1 DEF TailReturns, TypeInv, Streams
<1>3. head # Unread /\ report.factoryLag \in Unread..MaxHead
  BY ConstantTypes DEF Unread, TypeInv, Reports
<1>4. report'.factoryAtHead = caughtUp /\ report'.factoryLag = Lag(head, to)
  BY <1>2, <1>3 DEF OnTick, TypeInv, Reports
<1>5. Lag(head, to) <= NearHead => head - to <= NearHead
  BY ConstantTypes DEF Lag
<1> QED
  BY <1>2, <1>4, <1>5 DEF Interval, ShouldBackOff, FactoryNearHead

\* A result that cost a fault may be followed by any pause.
LEMMA AnyWait ==
  ASSUME TypeInv, NEW s \in Streams,
         (\E to, scanned, caughtUp, head : Return(s, to, scanned, caughtUp, head)) \/ Throw(s)
  PROVE  /\ tick' = [tick EXCEPT ![s] = Idle]
         /\ mode = "tail" => sleep'[s] \in 0..Multiplier
         /\ \A other \in Streams \ {s} : sleep'[other] = sleep[other] /\ tick'[other] = tick[other]
BY IntervalType DEF Return, TailReturns, BackfillReturns, Throw, TypeInv

LEMMA NearNext == LoopInv /\ LoopInv' /\ NearInv /\ [Next]_vars => NearInv'
<1> SUFFICES ASSUME LoopInv, LoopInv', NearInv, [Next]_vars, mode' = "tail" PROVE NearInv'
  BY DEF NearInv
<1> USE DEF progress, control
<1>0. /\ mode = "tail" /\ TypeInv
      /\ "factory" \in Streams /\ "curves" \in Streams
      /\ cp["factory"] \in Nat /\ confirmed \in Nat /\ faults \in Nat
      /\ sleep["factory"] \in 0..Multiplier
      /\ tick["factory"] \in TickTypes /\ tick["factory"].head \in 0..MaxHead
      /\ cp["factory"] <= confirmed
  <2>1. mode = "tail"
    BY DEF Next, Tick, Trouble, vars, Begin, ReadHead, NothingToScan, ReadCeiling, FetchLogs,
       Advance, SourceFails, TooWide, ProcessorThrows, Pass, Restart
  <2>2. "factory" \in Streams /\ "curves" \in Streams
    BY DEF Streams
  <2> QED
    BY <2>1, <2>2, ConstantTypes DEF LoopInv, TypeInv, TickAgrees, TickTypes
<1>1. /\ confirmed - cp["factory"] + sleep["factory"] <= Room(faults)
      /\ tick["factory"].at \in {"head", "asking", "fetched"} =>
           confirmed - tick["factory"].head <= faults
  BY <1>0 DEF NearInv
<1>2. /\ Room(faults) \in Nat /\ Room(faults + 1) = Room(faults) + Multiplier
      /\ NearHead + Multiplier + faults <= Room(faults)
  BY <1>0, RoomGrows
<1>3. ASSUME NEW s \in Streams, Begin(s) \/ ReadHead(s) \/ ReadCeiling(s) \/ FetchLogs(s)
      PROVE  NearInv'
  <2>1. UNCHANGED <<confirmed, cp, sleep, faults>>
    BY <1>3 DEF Begin, ReadHead, ReadCeiling, FetchLogs
  <2>2. \/ tick'["factory"].at \in {"begun"}
        \/ tick'["factory"].at = "head" /\ tick'["factory"].head = confirmed
        \/ /\ tick["factory"].at \in {"head", "asking"}
           /\ tick'["factory"].head = tick["factory"].head
        \/ tick'["factory"] = tick["factory"]
    <3>1. CASE s = "curves"
      <4>1. CASE FetchLogs("curves")
        <5>1. PICK scanned :
                tick' = [tick EXCEPT !["curves"].at = "fetched", !["curves"].scanned = scanned,
                                     !["curves"].reached = Reached("curves", scanned)]
          BY <4>1 DEF FetchLogs
        <5> QED
          BY <1>0, <5>1 DEF TypeInv
      <4>2. CASE Begin("curves") \/ ReadHead("curves") \/ ReadCeiling("curves")
        BY <1>0, <4>2 DEF TypeInv, Begin, ReadHead, ReadCeiling
      <4> QED
        BY <1>3, <3>1, <4>1, <4>2
    <3>2. CASE s = "factory" /\ Begin(s)
      BY <1>0, <3>2 DEF TypeInv, Begin, Idle
    <3>3. CASE s = "factory" /\ ReadHead(s)
      BY <1>0, <3>3 DEF TypeInv, TickTypes, ReadHead
    <3>4. CASE s = "factory" /\ ReadCeiling(s)
      BY <1>0, <3>4 DEF TypeInv, TickTypes, ReadCeiling
    <3>5. CASE s = "factory" /\ FetchLogs(s)
      <4>1. PICK scanned : tick' = [tick EXCEPT ![s].at = "fetched", ![s].scanned = scanned,
                                                ![s].reached = Reached(s, scanned)]
        BY <3>5 DEF FetchLogs
      <4> QED
        BY <1>0, <3>5, <4>1 DEF TypeInv, TickTypes, FetchLogs
    <3> QED
      BY <1>3, <3>1, <3>2, <3>3, <3>4, <3>5 DEF Streams
  <2> QED
    BY <1>0, <1>1, <2>1, <2>2 DEF NearInv
<1>4. ASSUME NothingToScan("factory") PROVE NearInv'
  <2>1. /\ Return("factory", tick["factory"].from, 0, TRUE, tick["factory"].head)
        /\ UNCHANGED <<confirmed, cp, faults>>
        /\ tick["factory"].at = "head" /\ Boundary("factory") <= tick["factory"].from
    BY <1>4 DEF NothingToScan
  <2>2. tick["factory"].from = cp["factory"] /\ cp["factory"] \in 0..MaxHead
        /\ tick["factory"].head <= cp["factory"]
    BY <1>0, <2>1, BoundaryType DEF LoopInv, TypeInv, TickAgrees
  <2>3. sleep'["factory"] \in 0..Multiplier /\ tick'["factory"].at = "idle"
    BY <1>0, <2>1, AnyWait, IdleType DEF TypeInv
  <2> QED
    BY <1>0, <1>1, <1>2, <2>1, <2>2, <2>3, ConstantTypes DEF NearInv
<1>5. ASSUME Advance("factory") PROVE NearInv'
  <2> DEFINE t == tick["factory"]
             gain == t.reached - t.from
             caughtUp == t.reached >= t.boundary
  <2>1. /\ t.reached \in 0..MaxHead /\ t.from = cp["factory"] /\ t.from < t.reached
        /\ t.boundary = t.head /\ t.head \in 0..MaxHead /\ t.boundary \in 0..MaxHead
    BY <1>0, <1>5, Fetched DEF Advance, LoopInv, TickAgrees
  <2>2. caughtUp \in BOOLEAN /\ (caughtUp => t.reached >= t.head)
    BY <2>1, ConstantTypes
  <2>3. Return("factory", t.reached, gain, caughtUp, t.head)
    BY <1>5 DEF Advance
  <2>4. \/ sleep'["factory"] = 1
        \/ sleep'["factory"] = Multiplier /\ (caughtUp \/ t.head - t.reached <= NearHead)
    <3> HIDE DEF t, gain, caughtUp
    <3> QED
      BY <1>0, <2>1, <2>2, <2>3, FactoryWaits
  <2>5. /\ UNCHANGED <<confirmed, faults>> /\ cp'["factory"] = t.reached
        /\ tick'["factory"].at = "idle" /\ confirmed - t.head <= faults
    BY <1>0, <1>1, <1>5, IdleType DEF Advance, Return, TypeInv
  <2>6. CASE sleep'["factory"] = 1
    BY <1>0, <1>1, <1>2, <2>1, <2>5, <2>6, ConstantTypes DEF NearInv
  <2>7. CASE sleep'["factory"] = Multiplier /\ t.head - t.reached <= NearHead
    BY <1>0, <1>2, <2>1, <2>5, <2>7, ConstantTypes DEF NearInv
  <2>8. CASE sleep'["factory"] = Multiplier /\ caughtUp
    <3>1. t.head - t.reached <= NearHead
      BY <2>1, <2>2, <2>8, ConstantTypes
    <3> QED
      BY <2>7, <2>8, <3>1
  <2> QED
    BY <2>4, <2>6, <2>7, <2>8
<1>6. ASSUME Trouble("factory") PROVE NearInv'
  <2>1. /\ (\E to, scanned, caughtUp, head : Return("factory", to, scanned, caughtUp, head))
           \/ Throw("factory")
        /\ UNCHANGED <<confirmed, cp>> /\ faults' = faults + 1
    BY <1>6 DEF Trouble, SourceFails, TooWide, ProcessorThrows, Fault
  <2>2. sleep'["factory"] \in 0..Multiplier /\ tick'["factory"].at = "idle"
    BY <1>0, <2>1, AnyWait, IdleType DEF TypeInv
  <2> QED
    BY <1>0, <1>1, <1>2, <2>1, <2>2, ConstantTypes DEF NearInv
<1>7. ASSUME NothingToScan("curves") \/ Advance("curves") \/ Trouble("curves") PROVE NearInv'
  <2>1. /\ (\E to, scanned, caughtUp, head : Return("curves", to, scanned, caughtUp, head))
           \/ Throw("curves")
        /\ confirmed' = confirmed /\ cp'["factory"] = cp["factory"]
        /\ faults' = faults \/ faults' = faults + 1
    <3>1. CASE NothingToScan("curves")
      BY <3>1 DEF NothingToScan
    <3>2. CASE Advance("curves")
      BY <1>0, <3>2 DEF Advance, TypeInv
    <3>3. CASE Trouble("curves")
      BY <3>3 DEF Trouble, SourceFails, TooWide, ProcessorThrows, Fault
    <3> QED
      BY <1>7, <3>1, <3>2, <3>3
  <2>2. sleep'["factory"] = sleep["factory"] /\ tick'["factory"] = tick["factory"]
    BY <1>0, <2>1, AnyWait
  <2> QED
    BY <1>0, <1>1, <1>2, <2>1, <2>2, ConstantTypes DEF NearInv
<1>8. CASE Pass
  <2>1. /\ UNCHANGED <<cp, tick>> /\ confirmed' \in {confirmed, confirmed + 1}
        /\ sleep'["factory"] = IF sleep["factory"] > 0 THEN sleep["factory"] - 1 ELSE 0
        /\ \/ sleep["factory"] = 0 /\ faults' = faults + 1
           \/ sleep["factory"] > 0 /\ faults' = faults
    BY <1>0, <1>8, ConstantTypes DEF Pass, Later, Fault
  <2>2. tick["factory"].at # "idle" => sleep["factory"] = 0
    BY <1>0 DEF LoopInv, TickAgrees
  <2>3. CASE sleep["factory"] = 0 /\ faults' = faults + 1
    BY <1>0, <1>1, <1>2, <2>1, <2>3, ConstantTypes DEF NearInv
  <2>4. CASE sleep["factory"] > 0 /\ faults' = faults
    <3>1. tick["factory"].at = "idle" /\ tick' = tick
      BY <1>0, <2>1, <2>2, <2>4
    <3> QED
      BY <1>0, <1>1, <1>2, <2>1, <2>4, <3>1 DEF NearInv
  <2> QED
    BY <2>1, <2>3, <2>4
<1>9. CASE Restart
  <2>1. /\ confirmed' = confirmed /\ faults' = faults + 1 /\ cp'["factory"] = cp["factory"]
        /\ sleep'["factory"] = 0 /\ tick'["factory"].at = "idle"
    BY <1>0, <1>9, FastForwardType, IdleType DEF Restart, Fault, TypeInv
  <2> QED
    BY <1>0, <1>1, <1>2, <2>1, ConstantTypes DEF NearInv
<1>10. CASE UNCHANGED vars
  BY <1>1, <1>10 DEF vars, NearInv
<1> QED
  BY <1>3, <1>4, <1>5, <1>6, <1>7, <1>8, <1>9, <1>10 DEF Next, Tick, Streams

\* The factory of a tail loses at most one backed-off pause for the head it drifts from and
\* one for each fault, whatever the curve stream does.
THEOREM FactoryStaysNear ==
  ASSUME StartsNear
  PROVE  Spec => []StaysNearHead
<1>1. LoopInv /\ NearInv => StaysNearHead
  <2> SUFFICES ASSUME LoopInv, NearInv, mode = "tail"
               PROVE  confirmed - cp["factory"] <= NearHead + Multiplier * (1 + faults)
    BY DEF StaysNearHead
  <2>1. confirmed - cp["factory"] + sleep["factory"] <= Room(faults)
    BY DEF NearInv
  <2>2. confirmed \in Nat /\ cp["factory"] \in Nat /\ sleep["factory"] \in Nat /\ faults \in Nat
    BY ConstantTypes DEF LoopInv, TypeInv, Streams
  <2>3. Room(faults) \in Nat /\ Room(faults) = NearHead + Multiplier * (1 + faults)
    BY <2>2, RoomGrows DEF Room
  <2> QED
    BY <2>1, <2>2, <2>3
<1> QED
  BY <1>1, NearInit, NearNext, LoopInvariant, PTL DEF Spec
=============================================================================
