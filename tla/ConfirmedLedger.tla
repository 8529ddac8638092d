-------------------------- MODULE ConfirmedLedger --------------------------
(***************************************************************************)
(* What the indexer promises, without scanners, checkpoints rows, ticks or *)
(* failures: two readers of one append-only log.                           *)
(*                                                                         *)
(* log is the confirmed part of the chain.  covered[s] is how much of it   *)
(* stream s has taken in, and launches and trades are what it made of      *)
(* that: exactly the launches of the part covered, less those it gave up   *)
(* on, and every trade of a token it knows.  Nothing taken in is ever      *)
(* taken back.                                                             *)
(***************************************************************************)
EXTENDS Integers, Sequences

CONSTANTS Trades, TokenOf, First   \* First: nothing at or below it is ever read

VARIABLES log, covered, launches, trades, givenUp

ledgerVars == <<log, covered, launches, trades, givenUp>>

Range(from, to) == from + 1 .. to

LaunchesOf(from, to) == UNION {log[h].launches \X {h} : h \in Range(from, to)}
TradesFrom(from, to) == UNION {log[h].trades \X {h} : h \in Range(from, to)}

Known(x) == \E l \in launches : l[1] = TokenOf[x]

LedgerInit ==
  /\ log = << >>
  /\ covered = [factory |-> First, curves |-> First]
  /\ launches = {}
  /\ trades = {}
  /\ givenUp = {}

Confirm ==
  /\ Len(log') > Len(log)
  /\ SubSeq(log', 1, Len(log)) = log
  /\ UNCHANGED <<covered, launches, trades, givenUp>>

GiveUp ==
  /\ givenUp \subseteq givenUp'
  /\ UNCHANGED <<log, covered, launches, trades>>

\* The launches of some more blocks; only a token given up on may be missing.
TakeLaunches ==
  \E to \in Range(covered.factory, Len(log)) :
    LET new == LaunchesOf(covered.factory, to) IN
    /\ covered' = [covered EXCEPT !.factory = to]
    /\ launches \subseteq launches'
    /\ launches' \subseteq launches \union new
    /\ \A l \in new \ launches' : l[1] \in givenUp
    /\ UNCHANGED <<log, trades, givenUp>>

\* Every trade of some more blocks whose token is known.  The blocks may be known to
\* hold none, in which case the factory need not have covered them yet.
TakeTrades ==
  \E to \in Range(covered.curves, Len(log)) :
    /\ covered' = [covered EXCEPT !.curves = to]
    /\ trades' = trades \union {e \in TradesFrom(covered.curves, to) : Known(e[1])}
    /\ UNCHANGED <<log, launches, givenUp>>

LedgerNext == Confirm \/ GiveUp \/ TakeLaunches \/ TakeTrades

LedgerSpec == LedgerInit /\ [][LedgerNext]_ledgerVars
=============================================================================
