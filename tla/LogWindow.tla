----------------------------- MODULE LogWindow -----------------------------
(***************************************************************************)
(* AdaptiveLogWindow (log-range.ts) and the part of RpcLogSource.getLogs   *)
(* that drives it: how many blocks one stream asks an endpoint for, and    *)
(* what it learns from the answer.                                         *)
(*                                                                         *)
(* A request is clamped to the window, but also to what is left to scan:   *)
(* in backfill the two are the same, at the head of the chain they are     *)
(* not.  The endpoint serves ranges up to a limit of its own.              *)
(***************************************************************************)
EXTENDS Integers

CONSTANTS
  MinSpan, MaxSpan, InitialSpan,   \* the constructor's arguments
  ReprobeInterval,                 \* CEILING_REPROBE_INTERVAL
  Allowances,                      \* the limits the endpoint may have
  MinBacklog,                      \* blocks left to scan at least: none at the head,
                                   \* more than any window in backfill
  MaxBacklog,                      \* bound: blocks left to scan at most
  MaxTimeouts                      \* bound: requests within the limit that time out

ASSUME WindowAssumption ==
  /\ MinSpan \in Nat \ {0}
  /\ MaxSpan \in Nat
  /\ MinSpan <= MaxSpan
  /\ InitialSpan \in MinSpan..MaxSpan
  /\ ReprobeInterval \in Nat \ {0}
  /\ Allowances \subseteq Nat
  /\ MinBacklog \in Nat
  /\ MaxBacklog \in Nat
  /\ MinBacklog <= MaxBacklog
  /\ MaxTimeouts \in Nat

VARIABLES
  span,         \* blocks the next request may cover
  lastGood,     \* largest span observed to succeed, 0 until one does
  ceiling,      \* smallest span observed to fail, 0 (null) until one does
  successes,    \* successesAtSettled
  allows,       \* what the endpoint really serves
  backlog,      \* toBlock - fromBlock + 1 of the next query
  answer,       \* how the last request ended
  timeouts      \* how many requests within the limit have timed out

windowVars == <<span, lastGood, ceiling, successes>>
sizerVars == <<windowVars, allows, backlog, answer, timeouts>>

NoCeiling == 0

Clamp(value) ==
  IF value < MinSpan THEN MinSpan ELSE IF value > MaxSpan THEN MaxSpan ELSE value

Midpoint(good, bound) == Clamp((good + bound) \div 2)

\* Mutant of OnRejected: keeps the bound it already had.
KeepsOldBound ==
  /\ ceiling' = IF ceiling = NoCeiling THEN span ELSE ceiling
  /\ successes' = 0
  /\ span' = Midpoint(lastGood, ceiling')
  /\ UNCHANGED lastGood

OnRejected ==
  /\ ceiling' = IF ceiling = NoCeiling \/ span < ceiling THEN span ELSE ceiling
  /\ successes' = 0
  /\ span' = Midpoint(lastGood, ceiling')
  /\ UNCHANGED lastGood

\* No upper bound known: grow geometrically to find one.
Grow ==
  /\ ceiling' = NoCeiling
  /\ span' = Clamp(span + span \div 4 + 1)

\* Still bracketing: step to the midpoint.
Bracket ==
  /\ ceiling' - lastGood' > 1
  /\ span' = Midpoint(lastGood', ceiling')
  /\ UNCHANGED successes

\* Settled: sit at the largest good span, and only now and then try the bound again.
Settle ==
  /\ ceiling' - lastGood' <= 1
  /\ \/ /\ successes + 1 < ReprobeInterval
        /\ successes' = successes + 1
        /\ span' = Clamp(lastGood')
     \/ /\ successes + 1 >= ReprobeInterval
        /\ successes' = 0
        /\ span' = Clamp(ceiling')

\* Mutant of OnSuccess: a success above the bound does not drop it.
BoundNeverDropped ==
  /\ lastGood' = IF span > lastGood THEN span ELSE lastGood
  /\ IF ceiling = NoCeiling THEN Grow /\ UNCHANGED successes
     ELSE UNCHANGED ceiling /\ (Bracket \/ Settle)

OnSuccess ==
  /\ lastGood' = IF span > lastGood THEN span ELSE lastGood
  /\ \/ /\ ceiling = NoCeiling
        /\ Grow
        /\ UNCHANGED successes
     \/ /\ ceiling # NoCeiling
        /\ span >= ceiling
        /\ Grow
        /\ successes' = 0
     \/ /\ ceiling # NoCeiling
        /\ span < ceiling
        /\ UNCHANGED ceiling
        /\ Bracket \/ Settle

-----------------------------------------------------------------------------
(* RpcLogSource.getLogs.                                                   *)

\* Mutant of Width: toBlock is one block short.
OneShort == IF backlog > span THEN span - 1 ELSE backlog

\* requested > allowed ? allowed : requested
Width == IF backlog > span THEN span ELSE backlog

Served ==
  /\ backlog > 0
  /\ Width <= allows
  /\ OnSuccess
  /\ backlog' = IF backlog - Width > MinBacklog THEN backlog - Width ELSE MinBacklog
  /\ answer' = "served"
  /\ UNCHANGED <<allows, timeouts>>

\* LOG_RANGE_TOO_WIDE, or a range so wide that the endpoint never finishes it.
Rejected ==
  /\ backlog > 0
  /\ Width > allows
  /\ OnRejected
  /\ answer' = "rejected"
  /\ UNCHANGED <<allows, backlog, timeouts>>

\* A TIMEOUT that has nothing to do with the range counts as a rejection too.
TimesOut ==
  /\ backlog > 0
  /\ Width <= allows
  /\ timeouts < MaxTimeouts
  /\ timeouts' = timeouts + 1
  /\ OnRejected
  /\ answer' = "timeout"
  /\ UNCHANGED <<allows, backlog>>

\* The boundary moves on: by one block at the head, by more after an outage.
BoundaryMoves ==
  /\ \E more \in backlog + 1 .. MaxBacklog : backlog' = more
  /\ UNCHANGED <<windowVars, allows, answer, timeouts>>

WindowInit ==
  /\ span = InitialSpan
  /\ lastGood = 0
  /\ ceiling = NoCeiling
  /\ successes = 0
  /\ allows \in Allowances
  /\ backlog = MinBacklog
  /\ answer = "none"
  /\ timeouts = 0

WindowNext == Served \/ Rejected \/ TimesOut \/ BoundaryMoves

WindowSpec == WindowInit /\ [][WindowNext]_sizerVars

\* Every tick asks, and the endpoint answers.
FairWindowSpec == WindowSpec /\ WF_sizerVars(Served \/ Rejected)

-----------------------------------------------------------------------------
(* Properties.                                                             *)

WindowTypeOK ==
  /\ span \in MinSpan..MaxSpan
  /\ lastGood \in 0..MaxSpan
  /\ ceiling \in 0..MaxSpan
  /\ successes \in 0..ReprobeInterval
  /\ allows \in Nat
  /\ backlog \in MinBacklog..MaxBacklog
  /\ answer \in {"none", "served", "rejected", "timeout"}
  /\ timeouts \in 0..MaxTimeouts

\* The window never believes in a span the endpoint would refuse.
BracketSound == lastGood <= allows

\* A sizer that is refused now and then still converges: from some time on the largest
\* span known to succeed is the largest the endpoint serves (or the configured cap).
Converges == <>[](lastGood = allows \/ lastGood = MaxSpan)

\* A stream with blocks to scan is served again and again: a refusal narrows the window
\* until the endpoint accepts it (scanner.ts: "Retry next tick with the narrowed
\* window").
KeepsServing == []<>(answer = "served" \/ backlog = 0)
=============================================================================
