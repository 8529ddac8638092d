----------------------------- MODULE Catalogue -----------------------------
(***************************************************************************)
(* The token table as the web site lists it, with everybody who writes it: *)
(* the factory stream, which inserts launches and deletes those above a    *)
(* rollback, backfill-metadata.ts, score-trending.ts, moderate.ts; and a   *)
(* visitor of the explore page (explore/page.tsx, queries.ts, explore.ts)  *)
(* who loads one page after another.                                       *)
(*                                                                         *)
(* A launch is a number, the order of the launches on the chain.  A row is *)
(* a new one each time its launch is inserted: it has another id then.     *)
(***************************************************************************)
EXTENDS Integers, Sequences, FiniteSets, SequencesExt

CONSTANTS
  Launches,        \* 1..n, in the order of the chain
  FirstLaunches,   \* how many of them are indexed at first
  Wrapped,         \* launches whose calldata does not show the launch tuple
  Official,        \* NEXT_PUBLIC_OFFICIAL_TOKEN, 0 when it is unset
  PageSize,        \* PAGE_SIZE
  Sorts,           \* the orders a visitor may ask for
  None,            \* null
  MaxWork,         \* bound: moderations, rollbacks and runs of the scripts, together
  MaxVisits        \* bound: traversals by the visitor

ASSUME CatalogueAssumption ==
  /\ IsFiniteSet(Launches) /\ Launches = 1..Cardinality(Launches)
  /\ FirstLaunches \in 0..Cardinality(Launches)
  /\ Wrapped \subseteq Launches
  /\ Official \in Launches \union {0}
  /\ PageSize \in Nat \ {0}
  /\ Sorts \subseteq {"NEW", "TRENDING"}
  /\ None \notin Nat
  /\ {MaxWork, MaxVisits} \subseteq Nat

VARIABLES
  rows,         \* the token table: a record for each launch indexed
  ids,          \* the last id given to a row
  audit,        \* AdminAuditLog, oldest first
  moderating,   \* what moderate.ts has read of the token it is about to change
  metadata,     \* a run of backfill-metadata.ts
  scoring,      \* a run of score-trending.ts
  visit,        \* the visitor's page, and what the pages before it showed
  steady,       \* history: rows listed all through the traversal
  derailed,     \* history: a page was asked for at a row no longer listed
  done          \* how much work was done, and how many visits there were

vars == <<rows, ids, audit, moderating, metadata, scoring, visit, steady, derailed, done>>

Indexed == DOMAIN rows

\* The launch a row id belongs to, if the row is still there.
RowsOf(id) == {t \in Indexed : rows[t].id = id}

\* where: HIDDEN and FLAGGED tokens are not listed.
Listed(t) == t \in Indexed /\ ~rows[t].hidden

NoVisit == [at |-> "away", sort |-> "NEW", cursor |-> None, list |-> <<>>, next |-> None,
            pin |-> None, scored |-> TRUE, cards |-> <<>>]
NoRun == [at |-> "off", pending |-> {}, buffer |-> {}]

\* What the calldata of a launch yields: a picture, or nothing.
Extracted(t) == IF t \in Wrapped THEN "none" ELSE "picture"

\* A row just inserted: with its picture, or without if the transaction could not be read.
NewRow(t, id, answered) ==
  [id |-> id, hidden |-> FALSE, score |-> 0, checked |-> answered,
   image |-> IF answered THEN Extracted(t) ELSE "none"]

Init ==
  /\ rows = [t \in 1..FirstLaunches |-> NewRow(t, t, TRUE)]
  /\ ids = FirstLaunches
  /\ audit = <<>>
  /\ moderating = None
  /\ metadata = NoRun
  /\ scoring = NoRun
  /\ visit = NoVisit
  /\ steady = {}
  /\ derailed = FALSE
  /\ done = [work |-> 0, visits |-> 0]

Count(what, max) ==
  /\ done[what] < max
  /\ done' = [done EXCEPT ![what] = @ + 1]

\* The rows that a traversal may still be expected to show.
Keep == steady' = {id \in steady : \E t \in DOMAIN rows' : rows'[t].id = id /\ ~rows'[t].hidden}

-----------------------------------------------------------------------------
(* The factory stream.                                                     *)

\* recordMany: the next launch of the chain, its calldata read or not.
RecordLaunch ==
  /\ \E t \in Launches \ Indexed, answered \in BOOLEAN :
       /\ \A u \in Launches \ Indexed : t <= u
       /\ rows' = [u \in Indexed \union {t} |->
                    IF u = t THEN NewRow(t, ids + 1, answered) ELSE rows[u]]
  /\ ids' = ids + 1
  /\ UNCHANGED <<audit, moderating, metadata, scoring, visit, steady, derailed, done>>

\* deleteAboveBlock: what else was known of those tokens goes with them.
DeleteAbove ==
  /\ Count("work", MaxWork)
  /\ \E last \in {0} \union Indexed :
       rows' = [t \in {u \in Indexed : u <= last} |-> rows[t]]
  /\ Keep
  /\ UNCHANGED <<ids, audit, moderating, metadata, scoring, visit, derailed>>

-----------------------------------------------------------------------------
(* moderate.ts: findUnique, then one transaction of an update by id and a  *)
(* row of the audit log.  Two moderators may be at it: the one that is not *)
(* in moderating decides at once.                                          *)

ReadToken ==
  /\ moderating = None
  /\ \E t \in Indexed, hide \in BOOLEAN :
       /\ rows[t].hidden # hide
       /\ moderating' = [id |-> rows[t].id, before |-> rows[t].hidden, after |-> hide]
  /\ UNCHANGED <<rows, ids, audit, metadata, scoring, visit, steady, derailed, done>>

SetStatus(decision) ==
  \E t \in RowsOf(decision.id) :
    /\ rows' = [rows EXCEPT ![t].hidden = decision.after]
    /\ audit' = Append(audit, decision)

\* Mutant of Decide: the status is changed outside the transaction.
ChangesOnly(decision) ==
  /\ \E t \in RowsOf(decision.id) : rows' = [rows EXCEPT ![t].hidden = decision.after]
  /\ UNCHANGED audit

\* The update throws, and neither is done, when the row is gone.
Decide(decision) ==
  \/ SetStatus(decision)
  \/ RowsOf(decision.id) = {} /\ UNCHANGED <<rows, audit>>

Moderate ==
  /\ moderating # None
  /\ Count("work", MaxWork)
  /\ Decide(moderating)
  /\ moderating' = None
  /\ Keep
  /\ UNCHANGED <<ids, metadata, scoring, visit, derailed>>

ModerateAtOnce ==
  /\ Count("work", MaxWork)
  /\ \E t \in Indexed :
       Decide([id |-> rows[t].id, before |-> rows[t].hidden, after |-> ~rows[t].hidden])
  /\ Keep
  /\ UNCHANGED <<ids, moderating, metadata, scoring, visit, derailed>>

-----------------------------------------------------------------------------
(* backfill-metadata.ts.                                                   *)

\* --retry reopens the misses; then the rows never examined are listed.
StartMetadata ==
  /\ metadata.at = "off"
  /\ Count("work", MaxWork)
  /\ \E retry \in BOOLEAN :
       /\ rows' = [t \in Indexed |->
                    IF retry /\ rows[t].image = "none" THEN [rows[t] EXCEPT !.checked = FALSE]
                    ELSE rows[t]]
       /\ metadata' = [at |-> "fetching", buffer |-> {},
                       pending |-> {rows[t].id : t \in {u \in Indexed : ~rows'[u].checked}}]
  /\ UNCHANGED <<ids, audit, moderating, scoring, visit, steady, derailed>>

\* Mutant of AnswerOf: a transaction that cannot be fetched counts as examined.
EmptyHanded(id, image, answered) ==
  {[id |-> id, image |-> IF answered THEN image ELSE "none"]}

\* A transaction that cannot be fetched stays unexamined.
AnswerOf(id, image, answered) == IF answered THEN {[id |-> id, image |-> image]} ELSE {}

\* The name and symbol that anchor the search were read with the id, and the calldata of
\* a mined transaction does not change: what a row no longer there yields is not written.
Examine ==
  /\ metadata.at = "fetching"
  /\ \E id \in metadata.pending, answered \in BOOLEAN :
       metadata' = [metadata EXCEPT
         !.pending = @ \ {id},
         !.buffer = @ \union UNION {AnswerOf(id, Extracted(t), answered) : t \in RowsOf(id)}]
  /\ UNCHANGED <<rows, ids, audit, moderating, scoring, visit, steady, derailed, done>>

\* writeBatch: an UPDATE by id.
Drain ==
  /\ metadata.at = "fetching"
  /\ metadata.buffer # {} \/ metadata.pending = {}
  /\ rows' = [t \in Indexed |->
               IF \E found \in metadata.buffer : found.id = rows[t].id
               THEN [rows[t] EXCEPT !.checked = TRUE,
                       !.image = (CHOOSE f \in metadata.buffer : f.id = rows[t].id).image]
               ELSE rows[t]]
  /\ metadata' = IF metadata.pending = {} THEN NoRun ELSE [metadata EXCEPT !.buffer = {}]
  /\ UNCHANGED <<ids, audit, moderating, scoring, visit, steady, derailed, done>>

MetadataCrashes ==
  /\ metadata.at = "fetching"
  /\ metadata' = NoRun
  /\ UNCHANGED <<rows, ids, audit, moderating, scoring, visit, steady, derailed, done>>

-----------------------------------------------------------------------------
(* score-trending.ts: read a cohort, clear every score, write the new ones *)
(* chunk by chunk.                                                         *)

ReadCohort ==
  /\ scoring.at = "off"
  /\ Count("work", MaxWork)
  /\ \E cohort \in SUBSET {t \in Indexed : Listed(t)} :
       scoring' = [at |-> "scored", pending |-> {rows[t].id : t \in cohort}, buffer |-> {}]
  /\ UNCHANGED <<rows, ids, audit, moderating, metadata, visit, steady, derailed>>

ClearScores ==
  /\ scoring.at = "scored"
  /\ rows' = [t \in Indexed |-> [rows[t] EXCEPT !.score = 0]]
  /\ scoring' = IF scoring.pending = {} THEN NoRun ELSE [scoring EXCEPT !.at = "cleared"]
  /\ UNCHANGED <<ids, audit, moderating, metadata, visit, steady, derailed, done>>

WriteScores ==
  /\ scoring.at = "cleared"
  /\ \E id \in scoring.pending :
       /\ rows' = [t \in Indexed |->
                    IF rows[t].id = id THEN [rows[t] EXCEPT !.score = 1] ELSE rows[t]]
       /\ scoring' = IF scoring.pending = {id} THEN NoRun
                     ELSE [scoring EXCEPT !.pending = @ \ {id}]
  /\ UNCHANGED <<ids, audit, moderating, metadata, visit, steady, derailed, done>>

ScoringCrashes ==
  /\ scoring.at # "off"
  /\ scoring' = NoRun
  /\ UNCHANGED <<rows, ids, audit, moderating, metadata, visit, steady, derailed, done>>

-----------------------------------------------------------------------------
(* A visitor of the explore page.                                          *)

\* orderFor: the sort key, then the id, both descending.
Precedes(sort, t, u) ==
  \/ sort = "TRENDING" /\ rows[t].score > rows[u].score
  \/ sort = "TRENDING" /\ rows[t].score = rows[u].score /\ rows[t].id > rows[u].id
  \/ sort = "NEW" /\ t > u

\* findMany with a cursor takes the rows from the cursor's own, by the key it has now;
\* a cursor whose row is gone compares with null, and nothing is found.
FromCursor(sort, cursor) ==
  IF cursor = None THEN {t \in Indexed : Listed(t)}
  ELSE {t \in Indexed : Listed(t) /\ \E c \in RowsOf(cursor) : c = t \/ Precedes(sort, c, t)}

\* The elements of S, each of them before those it is paired with.
InOrder(S, before) ==
  CHOOSE order \in [1..Cardinality(S) -> S] :
    \A i, j \in 1..Cardinality(S) : i < j => <<order[i], order[j]>> \in before

\* Mutant of Skipped: the cursor's row is not skipped.
NothingSkipped(cursor) == 0

\* skip: 1, whether or not the row it is meant for is there.
Skipped(cursor) == IF cursor = None THEN 0 ELSE 1

\* Up to size elements of a list, from the one after the first skip.
Slice(list, skip, size) == SubSeq(list, skip + 1, Min({Len(list), skip + size}))

\* take: one more than a page, to know whether there is another.
Found(sort, cursor) ==
  LET tokens == FromCursor(sort, cursor)
      order == {pair \in tokens \X tokens : Precedes(sort, pair[1], pair[2])}
  IN  Slice(InOrder(tokens, order), Skipped(cursor), PageSize + 1)

Shown(found) == Slice(found, 0, PageSize)

OpenExplore ==
  /\ visit.at = "away"
  /\ Count("visits", MaxVisits)
  /\ \E sort \in Sorts : visit' = [NoVisit EXCEPT !.at = "asked", !.sort = sort]
  /\ steady' = {rows[t].id : t \in {u \in Indexed : Listed(u)}}
  /\ derailed' = FALSE
  /\ UNCHANGED <<rows, ids, audit, moderating, metadata, scoring>>

\* listTokens, without reading anything else before it.
ListTokens ==
  /\ visit.at = "asked"
  /\ LET found == Found(visit.sort, visit.cursor)
         page == Shown(found)
     IN visit' = [visit EXCEPT !.at = "listed", !.list = [i \in DOMAIN page |-> rows[page[i]].id],
                               !.next = IF Len(found) > PageSize
                                        THEN rows[Last(page)].id ELSE None]
  /\ derailed' = (derailed \/ (visit.cursor # None /\ \A c \in RowsOf(visit.cursor) : ~Listed(c)))
  /\ UNCHANGED <<rows, ids, audit, moderating, metadata, scoring, steady, done>>

\* anyTrendingScore, which looks at hidden tokens too.
AskScored ==
  /\ visit.at = "listed"
  /\ visit' = [visit EXCEPT !.at = "scored",
        !.scored = visit.sort = "TRENDING" => \E t \in Indexed : rows[t].score > 0]
  /\ UNCHANGED <<rows, ids, audit, moderating, metadata, scoring, steady, derailed, done>>

\* filter: the elements of a list other than one, in their order.
Without(list, pin) ==
  LET others == {i \in DOMAIN list : list[i] # pin}
      order == InOrder(others, {pair \in others \X others : pair[1] < pair[2]})
  IN  [k \in 1..Cardinality(others) |-> list[order[k]]]

\* officialToken is pinned to the first page, and taken from its place on that page.
Cards(list, pin) ==
  IF pin = None \/ list = <<>> THEN list ELSE <<pin>> \o Without(list, pin)

\* The page asks for the official token while it asks for the list; here it does so after,
\* and no property depends on a point between.
Render ==
  /\ visit.at = "scored"
  /\ LET pin == IF visit.cursor = None /\ Listed(Official) THEN rows[Official].id ELSE None
     IN visit' = [visit EXCEPT !.at = "shown", !.cards = @ \o Cards(visit.list, pin)]
  /\ UNCHANGED <<rows, ids, audit, moderating, metadata, scoring, steady, derailed, done>>

\* Load more tokens, as long as the page has the link.
LoadMore ==
  /\ visit.at = "shown"
  /\ visit.next # None
  /\ visit' = [visit EXCEPT !.at = "asked", !.cursor = visit.next, !.list = <<>>, !.next = None]
  /\ UNCHANGED <<rows, ids, audit, moderating, metadata, scoring, steady, derailed, done>>

Leave ==
  /\ visit.at = "shown"
  /\ visit' = NoVisit
  /\ steady' = {}
  /\ derailed' = FALSE
  /\ UNCHANGED <<rows, ids, audit, moderating, metadata, scoring, done>>

-----------------------------------------------------------------------------
Stream == RecordLaunch \/ DeleteAbove
Moderators == ReadToken \/ Moderate \/ ModerateAtOnce
Metadata == StartMetadata \/ Examine \/ Drain \/ MetadataCrashes
Scoring == ReadCohort \/ ClearScores \/ WriteScores \/ ScoringCrashes
Visitor == OpenExplore \/ ListTokens \/ AskScored \/ Render \/ LoadMore \/ Leave

Next == Stream \/ Moderators \/ Metadata \/ Scoring \/ Visitor

Spec == Init /\ [][Next]_vars

-----------------------------------------------------------------------------
(* Properties.                                                             *)

Images == {"none", "picture"}

TypeOK ==
  /\ Indexed \subseteq Launches
  /\ \A t \in Indexed : rows[t] \in [id : 1..ids, hidden : BOOLEAN, score : {0, 1},
                                     checked : BOOLEAN, image : Images]
  /\ Cardinality({rows[t].id : t \in Indexed}) = Cardinality(Indexed)
  /\ metadata.pending \subseteq 1..ids /\ metadata.buffer \subseteq [id : 1..ids, image : Images]
  /\ scoring.pending \subseteq 1..ids
  /\ visit.at \in {"away", "asked", "listed", "scored", "shown"}
  /\ visit.cursor \in {None} \union 1..ids
  /\ steady \subseteq 1..ids

AtTheEnd == visit.at = "shown" /\ visit.next = None
Times(id) == Cardinality({i \in DOMAIN visit.cards : visit.cards[i] = id})
IsOfficial(id) == Official \in RowsOf(id)

\* A visitor who goes through the newest tokens to the last page has seen every token that
\* was listed all along, and none of them twice but the pinned one, whatever was launched
\* in the meantime (explore.ts: "A cursor is stable against concurrent inserts"), as long
\* as no page was asked for at a token hidden or deleted meanwhile.
TraversalComplete ==
  AtTheEnd /\ visit.sort = "NEW" /\ ~derailed =>
    \A id \in steady : Times(id) >= 1 /\ (Times(id) = 1 \/ IsOfficial(id))

\* A token counts as examined without a picture only if its calldata shows none: an RPC
\* that would not answer "is not evidence about the calldata" (backfill-metadata.ts),
\* and a picture once recovered is never lost again.
MissIsEvidence ==
  \A t \in Indexed : rows[t].checked => rows[t].image = Extracted(t)

\* What a row's status is, the last decision in the audit log explains.
AuditExplainsStatus ==
  \A t \in Indexed :
    rows[t].hidden <=>
      \E i \in DOMAIN audit :
        /\ audit[i].id = rows[t].id /\ audit[i].after
        /\ \A later \in i + 1 .. Len(audit) : audit[later].id # rows[t].id

\* The audit log tells the status a decision found: each entry begins where the one before
\* it about the same row ended ("Append-only audit trail" with before and after,
\* schema.prisma).
AuditTellsBefore ==
  \A i, j \in DOMAIN audit :
    /\ i < j /\ audit[i].id = audit[j].id
    /\ \A k \in i + 1 .. j - 1 : audit[k].id # audit[i].id
    => audit[j].before = audit[i].after

\* What the page says of the pinned token: it "appears once rather than twice".
OfficialOnce == \A id \in steady : IsOfficial(id) => Times(id) <= 1

\* What queries.ts says of trendingScored: without it "the page would present an arbitrary
\* order as a ranking".  A page without the banner has a score on it.
RankingIsScored ==
  visit.at = "shown" /\ visit.sort = "TRENDING" /\ visit.scored /\ visit.list # <<>> =>
    \E t \in Indexed : rows[t].score > 0 /\ Listed(t)
=============================================================================
