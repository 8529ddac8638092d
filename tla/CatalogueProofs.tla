-------------------------- MODULE CatalogueProofs --------------------------
(***************************************************************************)
(* What Catalogue guarantees for any number of launches, any page size and *)
(* any amount of work: what a visitor of the newest tokens is shown, what  *)
(* is believed of a token's picture, and that the audit log accounts for   *)
(* what is hidden.                                                         *)
(***************************************************************************)
EXTENDS Catalogue, FiniteSetTheorems, FunctionTheorems, SequenceTheorems, TLAPS

-----------------------------------------------------------------------------
(* Lists in order.                                                         *)

\* before orders the elements of S one after the other.
Orders(before, S) ==
  /\ \A t \in S : <<t, t>> \notin before
  /\ \A t, u, v \in S : <<t, u>> \in before /\ <<u, v>> \in before => <<t, v>> \in before
  /\ \A t, u \in S : t = u \/ <<t, u>> \in before \/ <<u, t>> \in before

\* How many elements of S come before t, and t itself.
Place(S, before) == [t \in S |-> Cardinality({u \in S : <<u, t>> \in before}) + 1]

\* An element that comes before another has a lower place.
LEMMA PlacesDiffer ==
  ASSUME NEW S, IsFiniteSet(S), NEW before, Orders(before, S)
  PROVE  /\ Place(S, before) \in Bijection(S, 1..Cardinality(S))
         /\ \A t, u \in S : <<t, u>> \in before => Place(S, before)[t] < Place(S, before)[u]
<1> DEFINE n == Cardinality(S)
<1> DEFINE P == Place(S, before)
<1> DEFINE Above(t) == {u \in S : <<u, t>> \in before}
<1> DEFINE K(t) == Cardinality(Above(t))
<1>n. n \in Nat
  BY FS_CardinalityType
<1>p. \A t \in S : P[t] = K(t) + 1
  BY DEF Place
<1>f. P = [t \in S |-> P[t]]
  BY DEF Place
<1>1. ASSUME NEW t \in S
      PROVE  IsFiniteSet(Above(t)) /\ K(t) \in Nat /\ K(t) + 1 <= n
  <2>1. Above(t) \subseteq S \ {t}
    BY DEF Orders
  <2>2. IsFiniteSet(S \ {t}) /\ Cardinality(S \ {t}) = n - 1
    BY FS_RemoveElement
  <2>3. IsFiniteSet(Above(t)) /\ K(t) <= Cardinality(S \ {t})
    BY <2>1, <2>2, FS_Subset
  <2>4. K(t) \in Nat
    BY <2>3, FS_CardinalityType
  <2> HIDE DEF K, n
  <2> QED
    BY <1>n, <2>2, <2>3, <2>4
<1>2. ASSUME NEW t \in S, NEW u \in S, <<t, u>> \in before
      PROVE  K(t) < K(u)
  <2>1. t \notin Above(t) /\ Above(t) \union {t} \subseteq Above(u)
    BY <1>2 DEF Orders
  <2>2. Cardinality(Above(t) \union {t}) = K(t) + 1
    BY <2>1, <1>1, FS_AddElement
  <2>3. Cardinality(Above(t) \union {t}) <= K(u)
    BY <2>1, <1>1, FS_Subset
  <2>4. K(t) \in Nat /\ K(u) \in Nat
    BY <1>1
  <2> HIDE DEF K
  <2> QED
    BY <2>2, <2>3, <2>4
<1> HIDE DEF P, K, n
<1>3. P \in [S -> 1..n] /\ \A t, u \in S : <<t, u>> \in before => P[t] < P[u]
  <2>1. ASSUME NEW t \in S PROVE P[t] \in 1..n /\ K(t) \in Nat
    <3>1. K(t) \in Nat /\ K(t) + 1 <= n
      BY <1>1
    <3> QED
      BY <1>n, <1>p, <3>1
  <2>2. ASSUME NEW t \in S, NEW u \in S, <<t, u>> \in before PROVE P[t] < P[u]
    <3>1. K(t) < K(u)
      BY <1>2, <2>2
    <3> QED
      BY <1>p, <2>1, <3>1
  <2> QED
    BY <1>f, <2>1, <2>2
<1>4. ASSUME NEW t \in S, NEW u \in S, P[t] = P[u]
      PROVE  t = u
  <2>1. P[t] \in Int /\ ~(P[t] < P[u]) /\ ~(P[u] < P[t])
    BY <1>n, <1>3, <1>4
  <2> QED
    BY <1>3, <2>1 DEF Orders
<1>5. P \in Injection(S, 1..n)
  BY <1>3, <1>4 DEF Injection, IsInjective
<1>6. IsFiniteSet(1..n) /\ Cardinality(1..n) = n
  BY <1>n, FS_Interval
<1>7. P \in Surjection(S, 1..n)
  BY <1>5, <1>6, FS_Injection DEF n
<1> QED
  BY <1>3, <1>5, <1>7 DEF Bijection, P, n

\* A finite set that is ordered can be listed in that order, each of its elements once.
LEMMA InOrderLists ==
  ASSUME NEW S, IsFiniteSet(S), NEW before, Orders(before, S)
  PROVE  LET order == InOrder(S, before) IN
         /\ Cardinality(S) \in Nat
         /\ order \in [1..Cardinality(S) -> S]
         /\ \A i, j \in 1..Cardinality(S) : i < j => <<order[i], order[j]>> \in before
         /\ \A i, j \in 1..Cardinality(S) : order[i] = order[j] => i = j
         /\ \A t \in S : \E i \in 1..Cardinality(S) : order[i] = t
<1> DEFINE n == Cardinality(S)
<1> DEFINE P == Place(S, before)
<1> DEFINE Sorted(o) == \A i, j \in 1..n : i < j => <<o[i], o[j]>> \in before
<1> DEFINE byPlace == [i \in 1..n |-> CHOOSE t \in S : P[t] = i]
<1>n. n \in Nat
  BY FS_CardinalityType
<1>1. \A i \in 1..n : byPlace[i] \in S /\ P[byPlace[i]] = i
  <2>1. \A i \in 1..n : \E t \in S : P[t] = i
    BY PlacesDiffer DEF Bijection, Surjection
  <2> QED
    BY <2>1
<1>2. byPlace \in [1..n -> S] /\ Sorted(byPlace)
  <2> SUFFICES ASSUME NEW i \in 1..n, NEW j \in 1..n, i < j
               PROVE  <<byPlace[i], byPlace[j]>> \in before
    BY <1>1
  <2>1. byPlace[i] # byPlace[j] /\ <<byPlace[j], byPlace[i]>> \notin before
    <3>1. ~(j < i) /\ i # j
      BY <1>n
    <3> QED
      BY <3>1, <1>1, PlacesDiffer
  <2> QED
    BY <1>1, <2>1 DEF Orders
<1> DEFINE order == InOrder(S, before)
<1>3. order \in [1..n -> S] /\ Sorted(order)
  BY <1>2 DEF InOrder
<1>4. \A i, j \in 1..n : order[i] = order[j] => i = j
  <2> SUFFICES ASSUME NEW i \in 1..n, NEW j \in 1..n, order[i] = order[j], i < j
               PROVE  FALSE
    BY <1>n
  <2> QED
    BY <1>3 DEF Orders
<1>5. order \in Injection(1..n, S)
  BY <1>3, <1>4 DEF Injection, IsInjective
<1>6. IsFiniteSet(1..n) /\ Cardinality(1..n) = n
  BY <1>n, FS_Interval
<1>7. order \in Surjection(1..n, S)
  BY <1>5, <1>6, FS_Injection
<1>8. \A t \in S : \E i \in 1..n : order[i] = t
  BY <1>7 DEF Surjection
<1> HIDE DEF order, n
<1> QED
  BY <1>n, <1>3, <1>4, <1>8 DEF order, n

LEMMA MinOfTwo ==
  ASSUME NEW a \in Int, NEW b \in Int
  PROVE  Min({a, b}) = IF a <= b THEN a ELSE b
<1> DEFINE least == IF a <= b THEN a ELSE b
<1>1. least \in {a, b} /\ \A y \in {a, b} : least <= y
  OBVIOUS
<1>2. \A x \in {a, b} : (\A y \in {a, b} : x <= y) => x = least
  OBVIOUS
<1> QED
  BY <1>1, <1>2 DEF Min

\* A slice has the elements from the one after the first skip, up to size of them.
LEMMA SliceOf ==
  ASSUME NEW T, NEW list \in Seq(T), NEW skip \in Nat, NEW size \in Nat
  PROVE  LET cut == Slice(list, skip, size) IN
         /\ cut \in Seq(T)
         /\ skip <= Len(list) =>
              Len(cut) = IF Len(list) <= skip + size THEN Len(list) - skip ELSE size
         /\ \A k \in 1..Len(cut) : cut[k] = list[skip + k]
<1> DEFINE to == Min({Len(list), skip + size})
<1> DEFINE cut == SubSeq(list, skip + 1, to)
<1>1. to = IF Len(list) <= skip + size THEN Len(list) ELSE skip + size
  BY MinOfTwo
<1>2. to \in 0..Len(list) /\ Len(list) \in Nat
  BY <1>1
<1> HIDE DEF to
<1>3. \A i \in skip + 1 .. to : list[i] \in T
  BY <1>2
<1>4. /\ cut \in Seq(T)
      /\ Len(cut) = IF skip + 1 <= to THEN to - (skip + 1) + 1 ELSE 0
      /\ \A k \in 1 .. to - (skip + 1) + 1 : cut[k] = list[skip + 1 + k - 1]
  BY <1>2, <1>3, SubSeqProperties
<1>5. Slice(list, skip, size) = cut
  BY DEF Slice, to
<1> HIDE DEF cut
<1>6. \A k \in 1..Len(cut) : k \in 1 .. to - (skip + 1) + 1 /\ skip + 1 + k - 1 = skip + k
  BY <1>2, <1>4
<1>7. skip <= Len(list) =>
        Len(cut) = IF Len(list) <= skip + size THEN Len(list) - skip ELSE size
  BY <1>1, <1>2, <1>4
<1> QED
  BY <1>4, <1>5, <1>6, <1>7

\* Without leaves out the element it names and repeats none of the others.
LEMMA WithoutKeeps ==
  ASSUME NEW T, NEW list \in Seq(T), NEW pin
  PROVE  LET rest == Without(list, pin) IN
         /\ rest \in Seq(T)
         /\ \A k \in DOMAIN rest : \E i \in DOMAIN list : rest[k] = list[i] /\ list[i] # pin
         /\ \A i \in DOMAIN list : list[i] # pin => \E k \in DOMAIN rest : rest[k] = list[i]
         /\ \A x : (\A i, j \in DOMAIN list : list[i] = x /\ list[j] = x => i = j)
                  => \A k, l \in DOMAIN rest : rest[k] = x /\ rest[l] = x => k = l
<1> DEFINE others == {i \in DOMAIN list : list[i] # pin}
<1> DEFINE before == {pair \in others \X others : pair[1] < pair[2]}
<1> DEFINE order == InOrder(others, before)
<1> DEFINE n == Cardinality(others)
<1>1. IsFiniteSet(others)
  <2>1. IsFiniteSet(1..Len(list))
    BY FS_Interval
  <2> QED
    BY <2>1, FS_Subset
<1>2. Orders(before, others)
  <2>1. \A i, j \in others : <<i, j>> \in before <=> i < j
    OBVIOUS
  <2>2. \A i \in others : i \in Int
    OBVIOUS
  <2> HIDE DEF others, before
  <2>3. \A i \in others : <<i, i>> \notin before
    BY <2>1, <2>2
  <2>4. \A i, j, k \in others : <<i, j>> \in before /\ <<j, k>> \in before => <<i, k>> \in before
    BY <2>1, <2>2
  <2>5. ASSUME NEW i \in others, NEW j \in others
        PROVE  i = j \/ <<i, j>> \in before \/ <<j, i>> \in before
    <3>1. i \in Int /\ j \in Int
      BY <2>2
    <3> QED
      BY <2>1, <3>1
  <2> QED
    BY <2>3, <2>4, <2>5 DEF Orders
<1>3. \A i : i \in others <=> i \in DOMAIN list /\ list[i] # pin
  OBVIOUS
<1> DEFINE rest == [k \in 1..n |-> list[order[k]]]
<1>4. Without(list, pin) = rest
  BY DEF Without
<1> HIDE DEF others, before
<1>5. /\ n \in Nat /\ order \in [1..n -> others]
      /\ \A i, j \in 1..n : order[i] = order[j] => i = j
      /\ \A t \in others : \E i \in 1..n : order[i] = t
  BY <1>1, <1>2, InOrderLists
<1> HIDE DEF order, n
<1>6. \A k \in 1..n : order[k] \in DOMAIN list /\ list[order[k]] # pin /\ list[order[k]] \in T
  BY <1>3, <1>5
<1>7. rest \in Seq(T) /\ DOMAIN rest = 1..n /\ \A k \in 1..n : rest[k] = list[order[k]]
  BY <1>5, <1>6
<1> HIDE DEF rest
<1>8. \A k \in DOMAIN rest : \E i \in DOMAIN list : rest[k] = list[i] /\ list[i] # pin
  BY <1>6, <1>7
<1>9. \A i \in DOMAIN list : list[i] # pin => \E k \in DOMAIN rest : rest[k] = list[i]
  BY <1>3, <1>5, <1>7
<1>10. ASSUME NEW x, \A i, j \in DOMAIN list : list[i] = x /\ list[j] = x => i = j
       PROVE  \A k, l \in DOMAIN rest : rest[k] = x /\ rest[l] = x => k = l
  BY <1>5, <1>6, <1>7, <1>10
<1> QED
  BY <1>4, <1>7, <1>8, <1>9, <1>10

-----------------------------------------------------------------------------
(* Types.                                                                  *)

Ids == 1..ids

Tokens == [id : Ids, hidden : BOOLEAN, score : {0, 1}, checked : BOOLEAN, image : Images]
Decisions == [id : Ids, before : BOOLEAN, after : BOOLEAN]
Answers == [id : Ids, image : Images]

Visits == [at : {"away", "asked", "listed", "scored", "shown"}, sort : {"NEW", "TRENDING"},
           cursor : {None} \union Ids, list : Seq(Ids), next : {None} \union Ids,
           pin : {None}, scored : BOOLEAN, cards : Seq(Ids)]

RowsOK ==
  /\ Indexed \subseteq Launches
  /\ ids \in Nat
  /\ \A t \in Indexed : rows[t] \in Tokens
  /\ \A t, u \in Indexed : rows[t].id = rows[u].id => t = u

WritersOK ==
  /\ audit \in Seq(Decisions)
  /\ moderating \in Decisions \union {None}
  /\ metadata \in [at : {"off", "fetching"}, pending : SUBSET Ids, buffer : SUBSET Answers]
  /\ scoring \in [at : {"off", "scored", "cleared"}, pending : SUBSET Ids, buffer : {{}}]

VisitorOK ==
  /\ visit \in Visits
  /\ steady \subseteq Ids
  /\ derailed \in BOOLEAN

TypeInv == RowsOK /\ WritersOK /\ VisitorOK

LEMMA LaunchesAreNumbers ==
  /\ IsFiniteSet(Launches) /\ Launches \subseteq Nat /\ 0 \notin Launches
  /\ FirstLaunches \in Nat /\ 1..FirstLaunches \subseteq Launches
<1>1. Cardinality(Launches) \in Nat
  BY CatalogueAssumption, FS_CardinalityType
<1> QED
  BY <1>1, CatalogueAssumption

LEMMA NoVisitOK == NoVisit \in Visits
<1>1. <<>> \in Seq(Ids)
  OBVIOUS
<1> QED
  BY <1>1 DEF NoVisit, Visits

LEMMA InitTypes == Init => TypeInv
<1> SUFFICES ASSUME Init PROVE TypeInv
  OBVIOUS
<1>1. RowsOK
  BY LaunchesAreNumbers DEF Init, RowsOK, Indexed, NewRow, Tokens, Ids, Images, Extracted
<1>2. WritersOK
  BY DEF Init, WritersOK, NoRun
<1>3. VisitorOK
  BY NoVisitOK DEF Init, VisitorOK
<1> QED
  BY <1>1, <1>2, <1>3 DEF TypeInv

\* What a step does to a row, but for its hidden flag and its picture: it keeps its id, or
\* it is new and so is its id.
RowsMove ==
  /\ ids' \in {ids, ids + 1}
  /\ \A t \in Indexed' :
       \/ t \in Indexed /\ rows'[t].id = rows[t].id
       \/ t \notin Indexed /\ rows'[t].id = ids + 1 /\ ids' = ids + 1
              /\ ~rows'[t].hidden /\ (rows'[t].checked => rows'[t].image = Extracted(t))

LEMMA RecordStep ==
  ASSUME RowsOK, RecordLaunch
  PROVE  /\ RowsOK' /\ RowsMove
         /\ \A u \in Indexed : u \in Indexed' /\ rows'[u] = rows[u]
<1>1. PICK t \in Launches \ Indexed, answered \in BOOLEAN :
        rows' = [u \in Indexed \union {t} |->
                  IF u = t THEN NewRow(t, ids + 1, answered) ELSE rows[u]]
  BY DEF RecordLaunch
<1>2. ids' = ids + 1 /\ ids \in Nat /\ ids' \in Nat /\ Ids \subseteq Ids'
  BY DEF RecordLaunch, RowsOK, Ids
<1>3. Indexed' = Indexed \union {t}
  BY <1>1 DEF Indexed
<1>4. \A u \in Indexed : rows'[u] = rows[u]
  BY <1>1
<1>5. /\ rows'[t] = NewRow(t, ids + 1, answered)
      /\ rows'[t].id = ids + 1 /\ ~rows'[t].hidden
      /\ rows'[t].checked => rows'[t].image = Extracted(t)
  BY <1>1 DEF NewRow
<1>6. rows'[t] \in Tokens'
  BY <1>2, <1>5 DEF NewRow, Tokens, Ids, Images, Extracted
<1>7. \A u \in Indexed : rows[u] \in Tokens' /\ rows[u].id # ids + 1
  BY <1>2 DEF RowsOK, Tokens, Ids
<1>8. RowsOK'
  BY <1>1, <1>2, <1>3, <1>4, <1>5, <1>6, <1>7 DEF RowsOK
<1> QED
  BY <1>1, <1>2, <1>3, <1>4, <1>5, <1>8 DEF RowsMove

\* The writers that change rows but give no ids.
LEMMA SameIdsStep ==
  ASSUME RowsOK, ids' = ids, Indexed' \subseteq Indexed,
         \A t \in Indexed' : rows'[t] \in Tokens /\ rows'[t].id = rows[t].id
  PROVE  RowsOK' /\ RowsMove
BY DEF RowsOK, RowsMove, Tokens, Ids, Images

LEMMA DecideRows ==
  ASSUME RowsOK, NEW d \in Decisions, Decide(d), ids' = ids
  PROVE  RowsOK' /\ RowsMove /\ (audit \in Seq(Decisions) => audit' \in Seq(Decisions))
<1>1. CASE RowsOf(d.id) = {} /\ UNCHANGED <<rows, audit>>
  BY <1>1, SameIdsStep DEF RowsOK, Indexed
<1>2. CASE SetStatus(d)
  <2>1. PICK t \in RowsOf(d.id) : rows' = [rows EXCEPT ![t].hidden = d.after]
    BY <1>2 DEF SetStatus
  <2>2. Indexed' = Indexed
    BY <2>1 DEF Indexed
  <2>3. \A u \in Indexed : rows'[u] \in Tokens /\ rows'[u].id = rows[u].id
    BY <2>1 DEF RowsOK, Indexed, RowsOf, Tokens, Decisions
  <2>4. audit \in Seq(Decisions) => audit' \in Seq(Decisions)
    BY <1>2 DEF SetStatus
  <2> QED
    BY <2>2, <2>3, <2>4, SameIdsStep
<1> QED
  BY <1>1, <1>2 DEF Decide

\* The actions that leave the table alone.
Reads == ReadToken \/ Examine \/ MetadataCrashes \/ ReadCohort \/ ScoringCrashes

LEMMA StillRows ==
  ASSUME Reads \/ Visitor \/ UNCHANGED vars
  PROVE  rows' = rows /\ ids' = ids /\ audit' = audit /\ Indexed' = Indexed
<1>1. rows' = rows /\ ids' = ids /\ audit' = audit
  BY DEF Reads, Visitor, vars, ReadToken, Examine, MetadataCrashes, ReadCohort, ScoringCrashes,
         OpenExplore, ListTokens, AskScored, Render, LoadMore, Leave
<1> QED
  BY <1>1 DEF Indexed

LEMMA DeleteRows ==
  ASSUME DeleteAbove
  PROVE  Indexed' \subseteq Indexed /\ \A t \in Indexed' : rows'[t] = rows[t]
BY DEF DeleteAbove, Indexed

LEMMA StartRows ==
  ASSUME StartMetadata
  PROVE  /\ Indexed' = Indexed
         /\ \A t \in Indexed : \/ rows'[t] = rows[t]
                               \/ rows'[t] = [rows[t] EXCEPT !.checked = FALSE]
BY DEF StartMetadata, Indexed

LEMMA DrainRows ==
  ASSUME Drain
  PROVE  /\ Indexed' = Indexed
         /\ \A t \in Indexed :
              \/ rows'[t] = rows[t]
              \/ \E found \in metadata.buffer :
                   /\ found.id = rows[t].id
                   /\ rows'[t] = [rows[t] EXCEPT !.checked = TRUE, !.image = found.image]
<1> DEFINE Hit(t) == \E found \in metadata.buffer : found.id = rows[t].id
<1> DEFINE pick(t) == CHOOSE f \in metadata.buffer : f.id = rows[t].id
<1>1. rows' = [t \in Indexed |->
                IF Hit(t) THEN [rows[t] EXCEPT !.checked = TRUE, !.image = pick(t).image]
                ELSE rows[t]]
  BY DEF Drain
<1>2. \A t : Hit(t) => pick(t) \in metadata.buffer /\ pick(t).id = rows[t].id
  OBVIOUS
<1> HIDE DEF pick
<1>3. Indexed' = Indexed
  BY <1>1 DEF Indexed
<1> QED
  BY <1>1, <1>2, <1>3

LEMMA ScoreRows ==
  ASSUME ClearScores \/ WriteScores
  PROVE  /\ Indexed' = Indexed
         /\ \A t \in Indexed : \/ rows'[t] = rows[t]
                               \/ rows'[t] = [rows[t] EXCEPT !.score = 0]
                               \/ rows'[t] = [rows[t] EXCEPT !.score = 1]
BY DEF ClearScores, WriteScores, Indexed

\* The decision of a moderator who decides at once.
LEMMA AtOnceDecides ==
  ASSUME RowsOK, ModerateAtOnce
  PROVE  \E d \in Decisions : /\ Decide(d)
                               /\ \E t \in Indexed : d.id = rows[t].id /\ d.after = ~rows[t].hidden
<1>1. PICK t \in Indexed :
        Decide([id |-> rows[t].id, before |-> rows[t].hidden, after |-> ~rows[t].hidden])
  BY DEF ModerateAtOnce
<1>2. [id |-> rows[t].id, before |-> rows[t].hidden, after |-> ~rows[t].hidden] \in Decisions
  BY DEF RowsOK, Tokens, Decisions
<1> QED
  BY <1>1, <1>2

LEMMA RowUpdates ==
  ASSUME NEW r \in Tokens, NEW image \in Images, NEW score \in {0, 1}
  PROVE  /\ [r EXCEPT !.checked = FALSE] \in Tokens
         /\ [r EXCEPT !.checked = FALSE].id = r.id
         /\ [r EXCEPT !.checked = TRUE, !.image = image] \in Tokens
         /\ [r EXCEPT !.checked = TRUE, !.image = image].id = r.id
         /\ [r EXCEPT !.score = score] \in Tokens
         /\ [r EXCEPT !.score = score].id = r.id
BY DEF Tokens

LEMMA RowsStep ==
  ASSUME TypeInv, [Next]_vars
  PROVE  RowsOK' /\ RowsMove
<1> USE DEF TypeInv
<1>1. CASE Reads \/ Visitor \/ UNCHANGED vars
  BY <1>1, StillRows, SameIdsStep DEF RowsOK
<1>2. CASE RecordLaunch
  BY <1>2, RecordStep
<1>3. CASE DeleteAbove
  <2>1. ids' = ids
    BY <1>3 DEF DeleteAbove
  <2> QED
    BY <1>3, <2>1, DeleteRows, SameIdsStep DEF RowsOK
<1>4. CASE Moderate
  <2>1. moderating \in Decisions /\ Decide(moderating) /\ ids' = ids
    BY <1>4 DEF Moderate, WritersOK
  <2> QED
    BY <2>1, DecideRows
<1>5. CASE ModerateAtOnce
  <2>1. ids' = ids
    BY <1>5 DEF ModerateAtOnce
  <2> QED
    BY <1>5, <2>1, AtOnceDecides, DecideRows
<1>6. CASE StartMetadata
  <2>1. ids' = ids
    BY <1>6 DEF StartMetadata
  <2>2. \A t \in Indexed : rows'[t] \in Tokens /\ rows'[t].id = rows[t].id
    BY <1>6, StartRows, RowUpdates DEF RowsOK, Images
  <2>3. Indexed' = Indexed
    BY <1>6, StartRows
  <2> QED
    BY <2>1, <2>2, <2>3, SameIdsStep
<1>7. CASE Drain
  <2>1. ids' = ids
    BY <1>7 DEF Drain
  <2>2. \A found \in metadata.buffer : found.image \in Images
    BY DEF WritersOK, Answers
  <2>3. ASSUME NEW t \in Indexed
        PROVE  rows'[t] \in Tokens /\ rows'[t].id = rows[t].id
    <3>1. rows[t] \in Tokens
      BY DEF RowsOK
    <3>2. CASE rows'[t] = rows[t]
      BY <3>1, <3>2
    <3>3. ASSUME NEW found \in metadata.buffer,
                 rows'[t] = [rows[t] EXCEPT !.checked = TRUE, !.image = found.image]
          PROVE  rows'[t] \in Tokens /\ rows'[t].id = rows[t].id
      <4>1. found.image \in Images /\ 0 \in {0, 1}
        BY <2>2
      <4>2. PICK r \in Tokens : r = rows[t]
        BY <3>1
      <4>3. /\ [r EXCEPT !.checked = TRUE, !.image = found.image] \in Tokens
            /\ [r EXCEPT !.checked = TRUE, !.image = found.image].id = r.id
        BY ONLY <4>1, RowUpdates
      <4> QED
        BY ONLY <3>3, <4>2, <4>3
    <3> QED
      BY <1>7, <3>2, <3>3, DrainRows
  <2>4. Indexed' = Indexed
    BY <1>7, DrainRows
  <2> QED
    BY <2>1, <2>3, <2>4, SameIdsStep
<1>8. CASE ClearScores \/ WriteScores
  <2>1. ids' = ids
    BY <1>8 DEF ClearScores, WriteScores
  <2>2. ASSUME NEW t \in Indexed
        PROVE  rows'[t] \in Tokens /\ rows'[t].id = rows[t].id
    <3>1. PICK r \in Tokens : r = rows[t]
      BY DEF RowsOK
    <3>2. rows'[t] = r \/ \E score \in {0, 1} : rows'[t] = [r EXCEPT !.score = score]
      BY <1>8, <3>1, ScoreRows
    <3>3. PICK image : image \in Images
      BY DEF Images
    <3>4. \A score \in {0, 1} : /\ [r EXCEPT !.score = score] \in Tokens
                                /\ [r EXCEPT !.score = score].id = r.id
      BY ONLY <3>3, RowUpdates
    <3> QED
      BY ONLY <3>1, <3>2, <3>4
  <2>3. Indexed' = Indexed
    BY <1>8, ScoreRows
  <2> QED
    BY <2>1, <2>2, <2>3, SameIdsStep
<1> QED
  BY <1>1, <1>2, <1>3, <1>4, <1>5, <1>6, <1>7, <1>8
     DEF Next, Stream, Moderators, Metadata, Scoring, Reads

-----------------------------------------------------------------------------
(* Pages.                                                                  *)

\* Both orders of the explore page are total on the rows there are.
LEMMA TokensOrdered ==
  ASSUME RowsOK, NEW sort \in {"NEW", "TRENDING"}, NEW S \in SUBSET Indexed
  PROVE  IsFiniteSet(S) /\ Orders({pair \in S \X S : Precedes(sort, pair[1], pair[2])}, S)
<1> DEFINE before == {pair \in S \X S : Precedes(sort, pair[1], pair[2])}
<1>1. IsFiniteSet(S)
  BY LaunchesAreNumbers, FS_Subset DEF RowsOK
<1>2. \A t, u \in S : <<t, u>> \in before <=> Precedes(sort, t, u)
  OBVIOUS
<1>3. \A t \in S : t \in Int /\ rows[t].id \in Int /\ rows[t].score \in Int
  BY LaunchesAreNumbers DEF RowsOK, Tokens, Ids
<1>4. \A t, u \in S : rows[t].id = rows[u].id => t = u
  BY DEF RowsOK
<1> HIDE DEF before
<1>5. ASSUME NEW t \in S
      PROVE  <<t, t>> \notin before
  BY <1>2, <1>3 DEF Precedes
<1>6. ASSUME NEW t \in S, NEW u \in S, NEW v \in S, <<t, u>> \in before, <<u, v>> \in before
      PROVE  <<t, v>> \in before
  BY <1>2, <1>3, <1>6 DEF Precedes
<1>7. ASSUME NEW t \in S, NEW u \in S
      PROVE  t = u \/ <<t, u>> \in before \/ <<u, t>> \in before
  <2>1. t \in Int /\ u \in Int /\ rows[t].id \in Int /\ rows[u].id \in Int
        /\ rows[t].score \in Int /\ rows[u].score \in Int
    BY <1>3
  <2> QED
    BY <1>2, <1>4, <2>1 DEF Precedes
<1>8. Orders(before, S)
  BY <1>5, <1>6, <1>7 DEF Orders
<1> QED
  BY <1>1, <1>8 DEF before

\* The rows from the cursor's own, in the order of the page.
Ordered(sort, cursor) ==
  InOrder(FromCursor(sort, cursor),
          {pair \in FromCursor(sort, cursor) \X FromCursor(sort, cursor) :
             Precedes(sort, pair[1], pair[2])})

LEMMA OrderedLists ==
  ASSUME RowsOK, NEW sort \in {"NEW", "TRENDING"}, NEW cursor
  PROVE  LET o == Ordered(sort, cursor) IN
         /\ o \in Seq(Indexed) /\ o \in Seq(FromCursor(sort, cursor))
         /\ \A i, j \in DOMAIN o : i < j => Precedes(sort, o[i], o[j])
         /\ \A i, j \in DOMAIN o : o[i] = o[j] => i = j
         /\ \A t \in FromCursor(sort, cursor) : \E i \in DOMAIN o : o[i] = t
<1> DEFINE S == FromCursor(sort, cursor)
<1> DEFINE before == {pair \in S \X S : Precedes(sort, pair[1], pair[2])}
<1> DEFINE n == Cardinality(S)
<1> DEFINE o == Ordered(sort, cursor)
<1>1. S \subseteq Indexed
  BY DEF FromCursor
<1>2. \A t, u : <<t, u>> \in before => Precedes(sort, t, u)
  OBVIOUS
<1>3. o = InOrder(S, before)
  BY DEF Ordered
<1>4. IsFiniteSet(S) /\ Orders(before, S)
  BY <1>1, TokensOrdered
<1> HIDE DEF S, before, o
<1>5. /\ n \in Nat /\ o \in [1..n -> S]
      /\ \A i, j \in 1..n : i < j => <<o[i], o[j]>> \in before
      /\ \A i, j \in 1..n : o[i] = o[j] => i = j
      /\ \A t \in S : \E i \in 1..n : o[i] = t
  BY <1>3, <1>4, InOrderLists
<1> HIDE DEF n
<1>6. DOMAIN o = 1..n /\ o \in Seq(S) /\ o \in Seq(Indexed)
  BY <1>1, <1>5
<1> QED
  BY <1>2, <1>5, <1>6 DEF S, o

\* A page is the first PageSize of those rows, but for what is skipped; it has a next one
\* if there are more.
LEMMA PageOf ==
  ASSUME RowsOK, NEW sort \in {"NEW", "TRENDING"}, NEW cursor
  PROVE  LET o == Ordered(sort, cursor)
             skip == Skipped(cursor)
             found == Found(sort, cursor)
             page == Shown(found)
         IN /\ found \in Seq(Indexed) /\ page \in Seq(Indexed)
            /\ Len(found) > PageSize => Len(page) = PageSize
            /\ skip <= Len(o) =>
                 /\ Len(found) > PageSize <=> Len(o) > skip + PageSize
                 /\ Len(page) = IF Len(o) <= skip + PageSize THEN Len(o) - skip ELSE PageSize
            /\ \A k \in 1..Len(page) : page[k] = o[skip + k] /\ skip + k \in DOMAIN o
<1> DEFINE o == Ordered(sort, cursor)
<1> DEFINE skip == Skipped(cursor)
<1> DEFINE found == Found(sort, cursor)
<1> DEFINE page == Shown(found)
<1>1. o \in Seq(Indexed)
  BY OrderedLists
<1>2. PageSize \in Nat /\ PageSize + 1 \in Nat /\ skip \in {0, 1} /\ skip \in Nat
  BY CatalogueAssumption DEF Skipped
<1>3. found = Slice(o, skip, PageSize + 1)
  BY DEF Found, Ordered
<1>4. page = Slice(found, 0, PageSize)
  BY DEF Shown
<1> HIDE DEF o, skip, found, page
<1>5. /\ found \in Seq(Indexed)
      /\ skip <= Len(o) =>
           Len(found) = IF Len(o) <= skip + (PageSize + 1) THEN Len(o) - skip ELSE PageSize + 1
      /\ \A k \in 1..Len(found) : found[k] = o[skip + k]
  <2> DEFINE size == PageSize + 1
  <2>1. o \in Seq(Indexed) /\ skip \in Nat /\ size \in Nat /\ found = Slice(o, skip, size)
    BY ONLY <1>1, <1>2, <1>3
  <2> HIDE DEF size
  <2>2. /\ found \in Seq(Indexed)
        /\ skip <= Len(o) =>
             Len(found) = IF Len(o) <= skip + size THEN Len(o) - skip ELSE size
        /\ \A k \in 1..Len(found) : found[k] = o[skip + k]
    BY ONLY <2>1, SliceOf
  <2> QED
    BY ONLY <2>2 DEF size
<1>6. /\ page \in Seq(Indexed)
      /\ 0 <= Len(found) =>
           Len(page) = IF Len(found) <= 0 + PageSize THEN Len(found) - 0 ELSE PageSize
      /\ \A k \in 1..Len(page) : page[k] = found[0 + k]
  <2>1. found \in Seq(Indexed) /\ 0 \in Nat /\ PageSize \in Nat
    BY <1>2, <1>5
  <2> QED
    BY ONLY <1>4, <2>1, SliceOf
<1>7. Len(found) \in Nat /\ Len(o) \in Nat /\ Len(page) \in Nat
  BY <1>1, <1>5, <1>6
<1>8. Len(page) = IF Len(found) <= PageSize THEN Len(found) ELSE PageSize
  BY <1>2, <1>6, <1>7
<1>9. skip > Len(o) => Len(found) = 0
  <2>1. CASE skip > Len(o)
    <3>1. o = <<>> /\ skip = 1
      BY <1>1, <1>2, <1>7, <2>1
    <3>2. Min({Len(o), skip + (PageSize + 1)}) = 0
      BY <1>2, <3>1, MinOfTwo
    <3>3. found = <<>>
      BY <1>3, <3>1, <3>2, SubSeqEmpty DEF Slice
    <3> QED
      BY <3>3
  <2> QED
    BY <2>1
<1>10. ASSUME NEW k \in 1..Len(page)
       PROVE  page[k] = o[skip + k] /\ skip + k \in DOMAIN o
  <2>1. k \in 1..Len(found) /\ 0 + k = k
    BY <1>2, <1>7, <1>8
  <2>2. skip <= Len(o)
    BY <1>2, <1>7, <1>9, <2>1
  <2>3. skip + k \in 1..Len(o)
    BY <1>2, <1>5, <1>7, <2>1, <2>2
  <2> QED
    BY <1>1, <1>5, <1>6, <2>1, <2>3
<1>11. skip <= Len(o) => (Len(found) > PageSize <=> Len(o) > skip + PageSize)
  BY <1>2, <1>5, <1>7
<1>12. skip <= Len(o) =>
         Len(page) = IF Len(o) <= skip + PageSize THEN Len(o) - skip ELSE PageSize
  BY <1>2, <1>5, <1>7, <1>8
<1>13. Len(found) > PageSize => Len(page) = PageSize
  BY <1>2, <1>7, <1>8
<1> QED
  BY <1>5, <1>6, <1>10, <1>11, <1>12, <1>13 DEF o, skip, found, page

-----------------------------------------------------------------------------
(* The other types.                                                        *)

LEMMA IdsGrow ==
  ASSUME RowsOK, RowsMove
  PROVE  Ids \subseteq Ids'
BY DEF RowsOK, RowsMove, Ids

\* Only its own actions change what a run of backfill-metadata.ts holds.
LEMMA MetadataMoves ==
  ASSUME [Next]_vars
  PROVE  UNCHANGED metadata \/ StartMetadata \/ Examine \/ Drain \/ MetadataCrashes
BY DEF Next, Stream, Moderators, Metadata, Scoring, Visitor, vars, RecordLaunch, DeleteAbove,
   ReadToken, Moderate, ModerateAtOnce, ReadCohort, ClearScores, WriteScores, ScoringCrashes,
   OpenExplore, ListTokens, AskScored, Render, LoadMore, Leave

LEMMA WritersStep ==
  ASSUME TypeInv, [Next]_vars
  PROVE  WritersOK'
<1> DEFINE Runs == [at : {"off", "fetching"}, pending : SUBSET Ids, buffer : SUBSET Answers]
<1> DEFINE Scorings == [at : {"off", "scored", "cleared"}, pending : SUBSET Ids, buffer : {{}}]
<1>a. RowsOK /\ WritersOK
  BY DEF TypeInv
<1>r. \A t \in Indexed : rows[t].id \in Ids
  BY <1>a DEF RowsOK, Tokens
<1>1. audit' \in Seq(Decisions)
  <2>1. CASE UNCHANGED audit
    BY <1>a, <2>1 DEF WritersOK
  <2>2. CASE Moderate
    BY <1>a, <2>2, DecideRows DEF Moderate, WritersOK
  <2>3. CASE ModerateAtOnce
    <3>1. ids' = ids
      BY <2>3 DEF ModerateAtOnce
    <3> QED
      BY <1>a, <2>3, <3>1, AtOnceDecides, DecideRows DEF WritersOK
  <2> QED
    BY <2>1, <2>2, <2>3 DEF Next, Stream, Moderators, Metadata, Scoring, Visitor, vars,
       RecordLaunch, DeleteAbove, ReadToken, StartMetadata, Examine, Drain, MetadataCrashes,
       ReadCohort, ClearScores, WriteScores, ScoringCrashes, OpenExplore, ListTokens, AskScored,
       Render, LoadMore, Leave
<1>2. moderating' \in Decisions \union {None}
  <2>1. CASE ReadToken
    BY <1>a, <1>r, <2>1 DEF ReadToken, Decisions, RowsOK, Tokens
  <2>2. CASE moderating' \in {moderating, None}
    BY <1>a, <2>2 DEF WritersOK
  <2> QED
    BY <2>1, <2>2 DEF Next, Stream, Moderators, Metadata, Scoring, Visitor, vars,
       RecordLaunch, DeleteAbove, Moderate, ModerateAtOnce, StartMetadata, Examine, Drain,
       MetadataCrashes, ReadCohort, ClearScores, WriteScores, ScoringCrashes, OpenExplore,
       ListTokens, AskScored, Render, LoadMore, Leave
<1>3. metadata' \in Runs
  <2>1. CASE UNCHANGED metadata
    BY <1>a, <2>1 DEF WritersOK
  <2>2. CASE StartMetadata
    <3>1. metadata' = [at |-> "fetching", buffer |-> {},
                       pending |-> {rows[t].id : t \in {u \in Indexed : ~rows'[u].checked}}]
      BY <2>2 DEF StartMetadata
    <3>2. {rows[t].id : t \in {u \in Indexed : ~rows'[u].checked}} \subseteq Ids
      BY <1>r
    <3> QED
      BY <3>1, <3>2
  <2>3. CASE Examine
    <3>1. PICK id \in metadata.pending, answered \in BOOLEAN :
            metadata' = [metadata EXCEPT
              !.pending = @ \ {id},
              !.buffer = @ \union UNION {AnswerOf(id, Extracted(t), answered) : t \in RowsOf(id)}]
      BY <2>3 DEF Examine
    <3>2. id \in Ids
      BY <1>a DEF WritersOK
    <3>3. \A t : AnswerOf(id, Extracted(t), answered) \subseteq Answers
      BY <3>2 DEF AnswerOf, Answers, Extracted, Images
    <3>4. UNION {AnswerOf(id, Extracted(t), answered) : t \in RowsOf(id)} \subseteq Answers
      BY <3>3
    <3>5. metadata \in Runs
      BY <1>a DEF WritersOK
    <3> QED
      BY <3>1, <3>4, <3>5
  <2>4. CASE Drain \/ MetadataCrashes
    <3>1. metadata' \in {NoRun, [metadata EXCEPT !.buffer = {}]}
      BY <2>4 DEF Drain, MetadataCrashes
    <3> QED
      BY <1>a, <3>1 DEF WritersOK, NoRun
  <2> QED
    BY <2>1, <2>2, <2>3, <2>4, MetadataMoves
<1>4. scoring' \in Scorings
  <2>1. CASE UNCHANGED scoring
    BY <1>a, <2>1 DEF WritersOK
  <2>2. CASE ReadCohort
    <3>1. PICK cohort \in SUBSET {t \in Indexed : Listed(t)} :
            scoring' = [at |-> "scored", pending |-> {rows[t].id : t \in cohort}, buffer |-> {}]
      BY <2>2 DEF ReadCohort
    <3>2. {rows[t].id : t \in cohort} \subseteq Ids
      BY <1>r
    <3> QED
      BY <3>1, <3>2
  <2>3. CASE ClearScores \/ WriteScores \/ ScoringCrashes
    BY <1>a, <2>3 DEF ClearScores, WriteScores, ScoringCrashes, WritersOK, NoRun
  <2> QED
    BY <2>1, <2>2, <2>3 DEF Next, Stream, Moderators, Metadata, Scoring, Visitor, vars,
       RecordLaunch, DeleteAbove, ReadToken, Moderate, ModerateAtOnce, StartMetadata, Examine,
       Drain, MetadataCrashes, OpenExplore, ListTokens, AskScored, Render, LoadMore, Leave
<1>5. Ids \subseteq Ids'
  BY <1>a, RowsStep, IdsGrow
<1>6. Decisions \subseteq Decisions' /\ Answers \subseteq Answers'
  BY <1>5 DEF Decisions, Answers
<1> QED
  BY <1>1, <1>2, <1>3, <1>4, <1>5, <1>6 DEF WritersOK

LEMMA CardsOK ==
  ASSUME NEW T, NEW list \in Seq(T), NEW pin \in T
  PROVE  Cards(list, None) \in Seq(T) /\ Cards(list, pin) \in Seq(T)
<1>1. Without(list, pin) \in Seq(T)
  BY WithoutKeeps
<1> QED
  BY <1>1 DEF Cards

\* What ListTokens finds: the ids of a page, and the last of them if there is another page.
LEMMA ListFinds ==
  ASSUME RowsOK, visit \in Visits, ListTokens
  PROVE  LET found == Found(visit.sort, visit.cursor)
             page == Shown(found)
         IN /\ visit' = [visit EXCEPT !.at = "listed", !.list = visit'.list, !.next = visit'.next]
            /\ visit'.list = [k \in 1..Len(page) |-> rows[page[k]].id]
            /\ visit'.list \in Seq(Ids)
            /\ visit'.next \in {None} \union Ids
            /\ Len(found) <= PageSize => visit'.next = None
            /\ Len(found) > PageSize => /\ PageSize \in 1..Len(page)
                                       /\ visit'.next = rows[page[PageSize]].id
<1> DEFINE found == Found(visit.sort, visit.cursor)
<1> DEFINE page == Shown(found)
<1> DEFINE list == [k \in 1..Len(page) |-> rows[page[k]].id]
<1> DEFINE next == IF Len(found) > PageSize THEN rows[Last(page)].id ELSE None
<1>1. visit' = [visit EXCEPT !.at = "listed", !.list = [i \in DOMAIN page |-> rows[page[i]].id],
                           !.next = next]
  BY DEF ListTokens
<1>2. visit.sort \in {"NEW", "TRENDING"}
  BY DEF Visits
<1>3. /\ found \in Seq(Indexed) /\ page \in Seq(Indexed)
      /\ Len(found) > PageSize => Len(page) = PageSize
  BY <1>2, PageOf
<1> HIDE DEF found, page
<1>4. DOMAIN page = 1..Len(page) /\ Len(page) \in Nat /\ Len(found) \in Nat
  BY <1>3
<1>5. \A t \in Indexed : rows[t].id \in Ids
  BY DEF RowsOK, Tokens
<1>6. list \in Seq(Ids)
  BY <1>3, <1>4, <1>5
<1>7. Len(found) > PageSize => PageSize \in 1..Len(page) /\ next = rows[page[PageSize]].id
                             /\ next \in Ids
  BY <1>3, <1>4, <1>5, CatalogueAssumption DEF Last
<1>8. Len(found) <= PageSize => next = None
  BY <1>4, CatalogueAssumption
<1>9. next \in {None} \union Ids
  BY <1>4, <1>7, <1>8, CatalogueAssumption
<1> HIDE DEF next, list
<1>10. visit' = [visit EXCEPT !.at = "listed", !.list = list, !.next = next]
  BY <1>1, <1>4 DEF list
<1>11. visit'.list = list /\ visit'.next = next
  BY <1>10 DEF Visits
<1> QED
  BY <1>4, <1>6, <1>7, <1>8, <1>9, <1>10, <1>11 DEF found, page, list, next

\* What Render pins: nothing, or the row of the official token.
LEMMA RenderShows ==
  ASSUME RowsOK, visit \in Visits, Render
  PROVE  \E pin \in {None} \union Ids :
           /\ pin # None => Official \in Indexed /\ pin = rows[Official].id
           /\ Cards(visit.list, pin) \in Seq(Ids)
           /\ visit' = [visit EXCEPT !.at = "shown", !.cards = visit.cards \o Cards(visit.list, pin)]
<1> DEFINE pin == IF visit.cursor = None /\ Listed(Official) THEN rows[Official].id ELSE None
<1>1. visit' = [visit EXCEPT !.at = "shown", !.cards = visit.cards \o Cards(visit.list, pin)]
  BY DEF Render
<1>2. pin \in {None} \union Ids /\ (pin # None => Official \in Indexed /\ pin = rows[Official].id)
  BY DEF Listed, RowsOK, Tokens
<1> HIDE DEF pin
<1>3. visit.list \in Seq(Ids)
  BY DEF Visits
<1>4. Cards(visit.list, pin) \in Seq(Ids)
  <2>1. CASE pin = None
    BY <1>3, <2>1 DEF Cards
  <2>2. CASE pin \in Ids
    BY <1>3, <2>2, CardsOK
  <2> QED
    BY <1>2, <2>1, <2>2
<1> QED
  BY <1>1, <1>2, <1>4

LEMMA VisitorStep ==
  ASSUME TypeInv, [Next]_vars
  PROVE  VisitorOK'
<1>a. RowsOK /\ VisitorOK /\ visit \in Visits
  BY DEF TypeInv, VisitorOK
<1>1. visit' \in Visits
  <2>1. CASE UNCHANGED visit
    BY <1>a, <2>1
  <2>2. CASE OpenExplore
    <3>1. PICK sort \in Sorts : visit' = [NoVisit EXCEPT !.at = "asked", !.sort = sort]
      BY <2>2 DEF OpenExplore
    <3>2. sort \in {"NEW", "TRENDING"}
      BY CatalogueAssumption
    <3> QED
      BY <3>1, <3>2, NoVisitOK DEF Visits
  <2>3. CASE ListTokens
    <3>1. /\ visit' = [visit EXCEPT !.at = "listed", !.list = visit'.list, !.next = visit'.next]
          /\ visit'.list \in Seq(Ids) /\ visit'.next \in {None} \union Ids
      BY <1>a, <2>3, ListFinds
    <3> DEFINE list == visit'.list
    <3> DEFINE next == visit'.next
    <3> HIDE DEF list, next
    <3>2. /\ visit' = [visit EXCEPT !.at = "listed", !.list = list, !.next = next]
          /\ list \in Seq(Ids) /\ next \in {None} \union Ids
      BY <3>1 DEF list, next
    <3> QED
      BY <1>a, <3>2 DEF Visits
  <2>4. CASE AskScored
    <3>1. (visit.sort = "TRENDING" => \E t \in Indexed : rows[t].score > 0) \in BOOLEAN
      OBVIOUS
    <3> DEFINE scored == visit.sort = "TRENDING" => \E t \in Indexed : rows[t].score > 0
    <3>2. visit' = [visit EXCEPT !.at = "scored", !.scored = scored] /\ scored \in BOOLEAN
      BY <2>4, <3>1 DEF AskScored
    <3> HIDE DEF scored
    <3> QED
      BY <1>a, <3>2 DEF Visits
  <2>5. CASE Render
    <3>1. PICK pin \in {None} \union Ids :
            /\ Cards(visit.list, pin) \in Seq(Ids)
            /\ visit' = [visit EXCEPT !.at = "shown",
                                     !.cards = visit.cards \o Cards(visit.list, pin)]
      BY <1>a, <2>5, RenderShows
    <3>2. visit.cards \o Cards(visit.list, pin) \in Seq(Ids)
      BY <1>a, <3>1 DEF Visits
    <3> QED
      BY <1>a, <3>1, <3>2 DEF Visits
  <2>6. CASE LoadMore
    <3>1. <<>> \in Seq(Ids)
      OBVIOUS
    <3> QED
      BY <1>a, <2>6, <3>1 DEF LoadMore, Visits
  <2>7. CASE Leave
    BY <2>7, NoVisitOK DEF Leave
  <2> QED
    BY <2>1, <2>2, <2>3, <2>4, <2>5, <2>6, <2>7 DEF Next, Stream, Moderators, Metadata,
       Scoring, Visitor, vars, RecordLaunch, DeleteAbove, ReadToken, Moderate, ModerateAtOnce,
       StartMetadata, Examine, Drain, MetadataCrashes, ReadCohort, ClearScores, WriteScores,
       ScoringCrashes
<1>2. steady' \subseteq Ids /\ derailed' \in BOOLEAN
  <2>1. CASE OpenExplore
    <3>1. \A t \in Indexed : rows[t].id \in Ids
      BY <1>a DEF RowsOK, Tokens
    <3> QED
      BY <2>1, <3>1 DEF OpenExplore
  <2>2. CASE steady' \subseteq steady /\ derailed' \in BOOLEAN
    BY <1>a, <2>2 DEF VisitorOK
  <2>3. CASE ListTokens
    BY <1>a, <2>3 DEF VisitorOK, ListTokens
  <2> QED
    BY <1>a, <2>1, <2>2, <2>3 DEF Next, Stream, Moderators, Metadata, Scoring, Visitor, vars,
       VisitorOK, Keep, RecordLaunch, DeleteAbove, ReadToken, Moderate, ModerateAtOnce,
       StartMetadata, Examine, Drain, MetadataCrashes, ReadCohort, ClearScores, WriteScores,
       ScoringCrashes, AskScored, Render, LoadMore, Leave
<1>3. Ids \subseteq Ids'
  BY <1>a, RowsStep, IdsGrow
<1>4. Seq(Ids) \subseteq Seq(Ids')
  BY <1>3
<1>5. Visits \subseteq Visits'
  BY <1>3, <1>4 DEF Visits
<1> QED
  BY <1>1, <1>2, <1>3, <1>5 DEF VisitorOK

LEMMA TypeStep ==
  ASSUME TypeInv, [Next]_vars
  PROVE  TypeInv'
BY RowsStep, WritersStep, VisitorStep DEF TypeInv

\* A row id in use, or no longer in use, is never given to another row.
LEMMA RowsOfShrink ==
  ASSUME RowsOK, RowsMove, NEW id \in Ids
  PROVE  RowsOf(id)' \subseteq RowsOf(id)
BY DEF RowsOK, RowsMove, RowsOf, Ids, Indexed

-----------------------------------------------------------------------------
(* Pictures.                                                               *)

\* What a run of backfill-metadata.ts has found and not written yet is in the calldata of
\* the row it will be written to.
FoundInTheCalldata ==
  \A found \in metadata.buffer : \A t \in RowsOf(found.id) : found.image = Extracted(t)

PictureInv == TypeInv /\ FoundInTheCalldata /\ MissIsEvidence

LEMMA FoundStep ==
  ASSUME PictureInv, [Next]_vars
  PROVE  FoundInTheCalldata'
<1>a. RowsOK /\ WritersOK /\ FoundInTheCalldata
  BY DEF PictureInv, TypeInv
<1>1. \A id \in Ids : RowsOf(id)' \subseteq RowsOf(id)
  BY <1>a, RowsStep, RowsOfShrink DEF PictureInv
<1>2. \A found \in metadata.buffer : found.id \in Ids
  BY <1>a DEF WritersOK, Answers
<1>3. CASE metadata'.buffer \subseteq metadata.buffer
  BY <1>a, <1>1, <1>2, <1>3 DEF FoundInTheCalldata
<1>4. CASE Examine
  <2>1. PICK id \in metadata.pending, answered \in BOOLEAN :
          metadata' = [metadata EXCEPT
            !.pending = @ \ {id},
            !.buffer = @ \union UNION {AnswerOf(id, Extracted(t), answered) : t \in RowsOf(id)}]
    BY <1>4 DEF Examine
  <2>2. metadata'.buffer =
          metadata.buffer \union UNION {AnswerOf(id, Extracted(t), answered) : t \in RowsOf(id)}
    BY <1>a, <2>1 DEF WritersOK
  <2>3. \A t, u \in RowsOf(id) : t = u
    BY <1>a DEF RowsOf, RowsOK
  <2>4. id \in Ids
    BY <1>a DEF WritersOK
  <2>5. SUFFICES ASSUME NEW found \in metadata'.buffer, NEW t \in RowsOf(found.id)'
                 PROVE  found.image = Extracted(t)
    BY DEF FoundInTheCalldata
  <2>6. CASE found \in metadata.buffer
    BY <1>a, <1>1, <1>2, <2>6 DEF FoundInTheCalldata
  <2>7. ASSUME NEW u \in RowsOf(id), found \in AnswerOf(id, Extracted(u), answered)
        PROVE  found.image = Extracted(t)
    <3>1. found = [id |-> id, image |-> Extracted(u)]
      BY <2>7 DEF AnswerOf
    <3>2. t \in RowsOf(id)
      BY <1>1, <2>4, <3>1
    <3> QED
      BY <2>3, <3>1, <3>2
  <2> QED
    BY <2>2, <2>6, <2>7
<1>5. StartMetadata \/ Drain \/ MetadataCrashes => metadata'.buffer = {}
  <2>1. CASE StartMetadata
    <3>1. metadata' = [at |-> "fetching", buffer |-> {},
                       pending |-> {rows[t].id : t \in {u \in Indexed : ~rows'[u].checked}}]
      BY <2>1 DEF StartMetadata
    <3> QED
      BY <3>1
  <2>2. CASE Drain \/ MetadataCrashes
    <3>1. metadata' \in {NoRun, [metadata EXCEPT !.buffer = {}]}
      BY <2>2 DEF Drain, MetadataCrashes
    <3> QED
      BY <1>a, <3>1 DEF WritersOK, NoRun
  <2> QED
    BY <2>1, <2>2
<1>6. Examine \/ metadata'.buffer \subseteq metadata.buffer
  BY <1>5, MetadataMoves
<1> QED
  BY <1>3, <1>4, <1>6

\* What a step does to the picture of a row it keeps.
LEMMA PicturesStep ==
  ASSUME TypeInv, [Next]_vars, NEW t \in Indexed, t \in Indexed'
  PROVE  \/ rows'[t].checked = rows[t].checked /\ rows'[t].image = rows[t].image
         \/ rows'[t].checked = FALSE
         \/ \E found \in metadata.buffer : /\ found.id = rows[t].id
                                          /\ rows'[t].image = found.image
<1>a. RowsOK /\ WritersOK /\ rows[t] \in Tokens
  BY DEF TypeInv, RowsOK
<1>1. CASE Reads \/ Visitor \/ UNCHANGED vars
  BY <1>1, StillRows
<1>2. CASE RecordLaunch
  BY <1>a, <1>2, RecordStep
<1>3. CASE DeleteAbove
  BY <1>3, DeleteRows
<1>4. ASSUME NEW d \in Decisions, Decide(d)
      PROVE  rows'[t].checked = rows[t].checked /\ rows'[t].image = rows[t].image
  <2>1. CASE UNCHANGED rows
    BY <2>1
  <2>2. ASSUME NEW u \in RowsOf(d.id), rows' = [rows EXCEPT ![u].hidden = d.after]
        PROVE  rows'[t].checked = rows[t].checked /\ rows'[t].image = rows[t].image
    BY <1>a, <2>2 DEF Indexed, Tokens
  <2> QED
    BY <1>4, <2>1, <2>2 DEF Decide, SetStatus
<1>5. CASE Moderate
  BY <1>a, <1>4, <1>5 DEF Moderate, WritersOK
<1>6. CASE ModerateAtOnce
  BY <1>a, <1>4, <1>6, AtOnceDecides
<1>7. CASE StartMetadata
  BY <1>a, <1>7, StartRows DEF Tokens
<1>8. CASE Drain
  BY <1>a, <1>8, DrainRows DEF Tokens
<1>9. CASE ClearScores \/ WriteScores
  BY <1>a, <1>9, ScoreRows DEF Tokens
<1> QED
  BY <1>1, <1>2, <1>3, <1>5, <1>6, <1>7, <1>8, <1>9
     DEF Next, Stream, Moderators, Metadata, Scoring, Reads

LEMMA PictureStep ==
  ASSUME PictureInv, [Next]_vars
  PROVE  PictureInv'
<1>1. TypeInv' /\ FoundInTheCalldata'
  BY TypeStep, FoundStep DEF PictureInv
<1>2. ASSUME NEW t \in Indexed', rows'[t].checked
      PROVE  rows'[t].image = Extracted(t)
  <2>1. CASE t \notin Indexed
    BY <1>2, <2>1, RowsStep DEF PictureInv, RowsMove
  <2>2. CASE t \in Indexed
    <3>1. CASE rows'[t].checked = rows[t].checked /\ rows'[t].image = rows[t].image
      BY <1>2, <2>2, <3>1 DEF PictureInv, MissIsEvidence
    <3>2. ASSUME NEW found \in metadata.buffer, found.id = rows[t].id,
                 rows'[t].image = found.image
          PROVE  rows'[t].image = Extracted(t)
      BY <2>2, <3>2 DEF PictureInv, FoundInTheCalldata, RowsOf
    <3> QED
      BY <1>2, <2>2, <3>1, <3>2, PicturesStep DEF PictureInv
  <2> QED
    BY <2>1, <2>2
<1>3. MissIsEvidence'
  BY <1>2 DEF MissIsEvidence, Extracted
<1> QED
  BY <1>1, <1>3 DEF PictureInv

\* backfill-metadata.ts counts a token as examined without a picture only on the evidence
\* of its calldata, whoever else writes the table meanwhile.
THEOREM MissesAreEvidence == Spec => []MissIsEvidence
<1>1. Init => PictureInv
  <2> SUFFICES ASSUME Init PROVE PictureInv
    OBVIOUS
  <2>1. FoundInTheCalldata
    BY DEF Init, NoRun, FoundInTheCalldata
  <2>2. MissIsEvidence
    BY DEF Init, NewRow, MissIsEvidence, Indexed
  <2> QED
    BY <2>1, <2>2, InitTypes DEF PictureInv
<1>2. PictureInv /\ [Next]_vars => PictureInv'
  BY PictureStep
<1>3. PictureInv => MissIsEvidence
  BY DEF PictureInv
<1> QED
  BY <1>1, <1>2, <1>3, PTL DEF Spec

-----------------------------------------------------------------------------
(* The audit log.                                                          *)

\* The last decision about a row id hides it.
Hides(log, id) ==
  \E i \in DOMAIN log :
    /\ log[i].id = id /\ log[i].after
    /\ \A later \in i + 1 .. Len(log) : log[later].id # id

LEMMA HidesAppended ==
  ASSUME NEW log \in Seq(Decisions), NEW d \in Decisions, NEW id
  PROVE  Hides(Append(log, d), id) <=> IF d.id = id THEN d.after ELSE Hides(log, id)
<1> DEFINE n == Len(log)
<1> DEFINE more == Append(log, d)
<1>1. /\ n \in Nat /\ DOMAIN log = 1..n
      /\ DOMAIN more = 1 .. n + 1 /\ Len(more) = n + 1
      /\ more[n + 1] = d /\ \A i \in 1..n : more[i] = log[i]
  OBVIOUS
<1>b. d.after \in BOOLEAN
  BY DEF Decisions
<1>g. SUFFICES Hides(more, id) <=> IF d.id = id THEN d.after ELSE Hides(log, id)
  OBVIOUS
<1> HIDE DEF n, more
<1>2. Hides(more, id) <=> \E i \in 1 .. n + 1 : /\ more[i].id = id /\ more[i].after
                                            /\ \A later \in i + 1 .. n + 1 : more[later].id # id
  BY <1>1 DEF Hides
<1>3. Hides(log, id) <=> \E i \in 1 .. n : /\ log[i].id = id /\ log[i].after
                                       /\ \A later \in i + 1 .. n : log[later].id # id
  BY <1>1 DEF Hides, n
<1>4. CASE d.id = id
  <2>1. \A i \in 1..n : n + 1 \in i + 1 .. n + 1
    BY <1>1
  <2>2. n + 1 \in 1 .. n + 1 /\ (n + 1) + 1 .. n + 1 = {}
    BY <1>1
  <2>3. \A i \in 1 .. n + 1 : i = n + 1 \/ i \in 1..n
    BY <1>1
  <2>4. ASSUME d.after PROVE Hides(more, id)
    BY <1>1, <1>2, <1>4, <2>2, <2>4
  <2>5. ASSUME NEW i \in 1 .. n + 1, more[i].id = id, more[i].after,
               \A later \in i + 1 .. n + 1 : more[later].id # id
        PROVE  d.after
    BY <1>1, <1>4, <2>1, <2>3, <2>5
  <2> QED
    BY <1>2, <1>4, <2>4, <2>5
<1>5. CASE d.id # id
  <2>1. ASSUME NEW i \in 1..n
        PROVE  (\A later \in i + 1 .. n + 1 : more[later].id # id)
                 <=> (\A later \in i + 1 .. n : log[later].id # id)
    BY <1>1, <1>5
  <2>2. \A i \in 1 .. n + 1 : i = n + 1 \/ i \in 1..n
    BY <1>1
  <2>3. \A i \in 1 .. n : i \in 1 .. n + 1
    BY <1>1
  <2>4. ASSUME NEW i \in 1 .. n + 1, more[i].id = id, more[i].after,
               \A later \in i + 1 .. n + 1 : more[later].id # id
        PROVE  Hides(log, id)
    <3>1. i \in 1..n
      BY <1>1, <1>5, <2>2, <2>4
    <3> QED
      BY <1>1, <1>3, <2>1, <2>4, <3>1
  <2>5. ASSUME NEW i \in 1 .. n, log[i].id = id, log[i].after,
               \A later \in i + 1 .. n : log[later].id # id
        PROVE  Hides(more, id)
    BY <1>1, <1>2, <2>1, <2>3, <2>5
  <2> QED
    BY <1>2, <1>3, <1>5, <2>4, <2>5
<1> QED
  BY <1>4, <1>5

\* A flag only changes with an entry of the log.
LEMMA StatusMoves ==
  ASSUME TypeInv, [Next]_vars
  PROVE  \/ \E d \in Decisions : SetStatus(d) /\ ids' = ids
         \/ audit' = audit /\ \A t \in Indexed : t \in Indexed' => rows'[t].hidden = rows[t].hidden
<1>a. RowsOK /\ WritersOK /\ \A t \in Indexed : rows[t] \in Tokens
  BY DEF TypeInv, RowsOK
<1>1. CASE Reads \/ Visitor \/ UNCHANGED vars
  BY <1>1, StillRows
<1>2. CASE RecordLaunch
  <2>1. audit' = audit
    BY <1>2 DEF RecordLaunch
  <2> QED
    BY <1>a, <1>2, <2>1, RecordStep
<1>3. CASE DeleteAbove
  <2>1. audit' = audit
    BY <1>3 DEF DeleteAbove
  <2> QED
    BY <1>3, <2>1, DeleteRows
<1>4. CASE Moderate
  <2>1. moderating \in Decisions /\ ids' = ids /\ Decide(moderating)
    BY <1>a, <1>4 DEF Moderate, WritersOK
  <2> QED
    BY <2>1 DEF Decide
<1>5. CASE ModerateAtOnce
  <2>1. ids' = ids
    BY <1>5 DEF ModerateAtOnce
  <2> QED
    BY <1>a, <1>5, <2>1, AtOnceDecides DEF Decide
<1>6. CASE StartMetadata
  <2>1. audit' = audit
    BY <1>6 DEF StartMetadata
  <2> QED
    BY <1>a, <1>6, <2>1, StartRows DEF Tokens
<1>7. CASE Drain
  <2>1. audit' = audit
    BY <1>7 DEF Drain
  <2> QED
    BY <1>a, <1>7, <2>1, DrainRows DEF Tokens
<1>8. CASE ClearScores \/ WriteScores
  <2>1. audit' = audit
    BY <1>8 DEF ClearScores, WriteScores
  <2> QED
    BY <1>a, <1>8, <2>1, ScoreRows DEF Tokens
<1> QED
  BY <1>1, <1>2, <1>3, <1>4, <1>5, <1>6, <1>7, <1>8
     DEF Next, Stream, Moderators, Metadata, Scoring, Reads

AuditInv == TypeInv /\ AuditExplainsStatus

LEMMA AuditSays == AuditExplainsStatus <=> \A t \in Indexed : rows[t].hidden <=> Hides(audit, rows[t].id)
BY DEF AuditExplainsStatus, Hides

LEMMA AuditStep ==
  ASSUME AuditInv, [Next]_vars
  PROVE  AuditInv'
<1>a. /\ RowsOK /\ audit \in Seq(Decisions) /\ TypeInv
      /\ \A t \in Indexed : rows[t].hidden <=> Hides(audit, rows[t].id)
  BY AuditSays DEF AuditInv, TypeInv, WritersOK
<1>1. TypeInv' /\ RowsMove
  BY <1>a, TypeStep, RowsStep
<1>2. ASSUME NEW t \in Indexed'
      PROVE  rows'[t].hidden <=> Hides(audit', rows'[t].id)
  <2>1. ASSUME NEW d \in Decisions, SetStatus(d), ids' = ids
        PROVE  rows'[t].hidden <=> Hides(audit', rows'[t].id)
    <3>1. PICK u \in RowsOf(d.id) : rows' = [rows EXCEPT ![u].hidden = d.after]
      BY <2>1 DEF SetStatus
    <3>2. audit' = Append(audit, d)
      BY <2>1 DEF SetStatus
    <3>3. t \in Indexed /\ rows[t] \in Tokens /\ rows[u] \in Tokens
      BY <1>a, <3>1 DEF Indexed, RowsOf, RowsOK
    <3>4. rows'[t].id = rows[t].id
      BY <3>1, <3>3 DEF Indexed, RowsOf, Tokens
    <3>5. Hides(audit', rows[t].id) <=>
            IF d.id = rows[t].id THEN d.after ELSE Hides(audit, rows[t].id)
      BY <1>a, <3>2, HidesAppended
    <3>6. CASE t = u
      <4>1. rows'[t].hidden = d.after /\ rows[t].id = d.id
        BY <3>1, <3>3, <3>6 DEF Indexed, RowsOf, Tokens
      <4> QED
        BY <3>4, <3>5, <4>1
    <3>7. CASE t # u
      <4>1. rows'[t] = rows[t] /\ rows[t].id # d.id
        BY <1>a, <3>1, <3>3, <3>7 DEF Indexed, RowsOf, RowsOK
      <4> QED
        BY <1>a, <3>3, <3>4, <3>5, <4>1
    <3> QED
      BY <3>6, <3>7
  <2>2. CASE /\ audit' = audit
             /\ \A u \in Indexed : u \in Indexed' => rows'[u].hidden = rows[u].hidden
    <3>1. CASE t \in Indexed
      BY <1>a, <1>1, <2>2, <3>1 DEF RowsMove
    <3>2. CASE t \notin Indexed
      <4>1. rows'[t].id = ids + 1 /\ ~rows'[t].hidden
        BY <1>1, <3>2 DEF RowsMove
      <4>2. \A i \in DOMAIN audit : audit[i].id # ids + 1
        <5>1. ids \in Nat /\ \A i \in DOMAIN audit : audit[i] \in Decisions
          BY <1>a DEF RowsOK
        <5> QED
          BY <5>1 DEF Decisions, Ids
      <4> QED
        BY <2>2, <4>1, <4>2 DEF Hides
    <3> QED
      BY <3>1, <3>2
  <2> QED
    BY <1>a, <2>1, <2>2, StatusMoves
<1>3. AuditExplainsStatus'
  BY <1>2 DEF AuditExplainsStatus, Hides
<1> QED
  BY <1>1, <1>3 DEF AuditInv

\* A row is hidden if and only if the last decision about it in the audit log says so
\* (moderate.ts changes the status and writes the log in one transaction).
THEOREM AuditExplains == Spec => []AuditExplainsStatus
<1>1. Init => AuditInv
  <2> SUFFICES ASSUME Init PROVE AuditInv
    OBVIOUS
  <2>1. AuditExplainsStatus
    BY DEF Init, NewRow, AuditExplainsStatus, Indexed
  <2> QED
    BY <2>1, InitTypes DEF AuditInv
<1>2. AuditInv /\ [Next]_vars => AuditInv'
  BY AuditStep
<1>3. AuditInv => AuditExplainsStatus
  BY DEF AuditInv
<1> QED
  BY <1>1, <1>2, <1>3, PTL DEF Spec

-----------------------------------------------------------------------------
(* What a list of cards shows of a launch t, whose row has the id.         *)

\* It is there, and once unless it is pinned.
Once(list, id, t) ==
  \E i \in DOMAIN list :
    /\ list[i] = id
    /\ t = Official \/ \A j \in DOMAIN list : list[j] = id => j = i

\* It is not there, unless it is pinned.
Never(list, id, t) == t = Official \/ \A i \in DOMAIN list : list[i] # id

LEMMA Concatenated ==
  ASSUME NEW T, NEW s1 \in Seq(T), NEW s2 \in Seq(T)
  PROVE  LET s == s1 \o s2 IN
         /\ s \in Seq(T)
         /\ \A i \in DOMAIN s : \/ i \in DOMAIN s1 /\ s[i] = s1[i]
                              \/ \E k \in DOMAIN s2 : i = Len(s1) + k /\ s[i] = s2[k]
         /\ \A i \in DOMAIN s1 : i \in DOMAIN s /\ s[i] = s1[i]
         /\ \A i \in DOMAIN s2 : Len(s1) + i \in DOMAIN s /\ s[Len(s1) + i] = s2[i]
         /\ \A i \in DOMAIN s1, k \in DOMAIN s2 : i # Len(s1) + k
         /\ \A i, k \in DOMAIN s2 : Len(s1) + i = Len(s1) + k => i = k
<1> DEFINE s == s1 \o s2
<1>1. /\ Len(s1) \in Nat /\ Len(s2) \in Nat
      /\ DOMAIN s1 = 1..Len(s1) /\ DOMAIN s2 = 1..Len(s2)
      /\ s \in Seq(T) /\ Len(s) = Len(s1) + Len(s2)
      /\ \A i \in 1..Len(s) : s[i] = IF i <= Len(s1) THEN s1[i] ELSE s2[i - Len(s1)]
  BY ConcatProperties
<1>2. DOMAIN s = 1 .. Len(s1) + Len(s2)
  BY <1>1
<1> HIDE DEF s
<1>3. ASSUME NEW i \in DOMAIN s
      PROVE  \/ i \in DOMAIN s1 /\ s[i] = s1[i]
             \/ \E k \in DOMAIN s2 : i = Len(s1) + k /\ s[i] = s2[k]
  <2>1. CASE i <= Len(s1)
    BY <1>1, <1>2, <2>1
  <2>2. CASE i > Len(s1)
    <3>1. i - Len(s1) \in DOMAIN s2 /\ i = Len(s1) + (i - Len(s1)) /\ ~(i <= Len(s1))
      BY <1>1, <1>2, <2>2
    <3>2. s[i] = s2[i - Len(s1)]
      BY <1>1, <1>2, <3>1
    <3> QED
      BY <3>1, <3>2
  <2> QED
    BY <1>1, <1>2, <2>1, <2>2
<1>4. ASSUME NEW i \in DOMAIN s1
      PROVE  i \in DOMAIN s /\ s[i] = s1[i]
  BY <1>1, <1>2
<1>5. ASSUME NEW i \in DOMAIN s2
      PROVE  Len(s1) + i \in DOMAIN s /\ s[Len(s1) + i] = s2[i]
  <2>1. (Len(s1) + i) - Len(s1) = i /\ ~(Len(s1) + i <= Len(s1)) /\ Len(s1) + i \in 1..Len(s)
    BY <1>1
  <2> QED
    BY <1>1, <1>2, <2>1
<1>6. /\ \A i \in DOMAIN s1, k \in DOMAIN s2 : i # Len(s1) + k
      /\ \A i, k \in DOMAIN s2 : Len(s1) + i = Len(s1) + k => i = k
  BY <1>1
<1> QED
  BY <1>1, <1>3, <1>4, <1>5, <1>6 DEF s

\* Two lists one after the other show what either shows.
LEMMA ShownByEither ==
  ASSUME NEW T, NEW s1 \in Seq(T), NEW s2 \in Seq(T), NEW id, NEW t
  PROVE  /\ Once(s1, id, t) /\ Never(s2, id, t) => Once(s1 \o s2, id, t)
         /\ Never(s1, id, t) /\ Once(s2, id, t) => Once(s1 \o s2, id, t)
         /\ Never(s1, id, t) /\ Never(s2, id, t) => Never(s1 \o s2, id, t)
<1> DEFINE n == Len(s1)
<1> DEFINE s == s1 \o s2
<1>1. \A i \in DOMAIN s : \/ i \in DOMAIN s1 /\ s[i] = s1[i]
                         \/ \E k \in DOMAIN s2 : i = n + k /\ s[i] = s2[k]
  BY Concatenated
<1>2. \A i \in DOMAIN s1 : i \in DOMAIN s /\ s[i] = s1[i]
  BY Concatenated
<1>3. \A i \in DOMAIN s2 : n + i \in DOMAIN s /\ s[n + i] = s2[i]
  BY Concatenated
<1> HIDE DEF n, s
<1>4. ASSUME Once(s1, id, t), Never(s2, id, t)
      PROVE  Once(s, id, t)
  <2>1. PICK i \in DOMAIN s1 :
          s1[i] = id /\ (t = Official \/ \A j \in DOMAIN s1 : s1[j] = id => j = i)
    BY <1>4 DEF Once
  <2>2. i \in DOMAIN s /\ s[i] = id
    BY <1>2, <2>1
  <2>3. ASSUME t # Official, NEW j \in DOMAIN s, s[j] = id
        PROVE  j = i
    BY <1>1, <1>4, <2>1, <2>3 DEF Never
  <2> QED
    BY <2>2, <2>3 DEF Once
<1>5. ASSUME Never(s1, id, t), Once(s2, id, t)
      PROVE  Once(s, id, t)
  <2>1. PICK i \in DOMAIN s2 :
          s2[i] = id /\ (t = Official \/ \A j \in DOMAIN s2 : s2[j] = id => j = i)
    BY <1>5 DEF Once
  <2>2. n + i \in DOMAIN s /\ s[n + i] = id
    BY <1>3, <2>1
  <2>3. ASSUME t # Official, NEW j \in DOMAIN s, s[j] = id
        PROVE  j = n + i
    BY <1>1, <1>5, <2>1, <2>3 DEF Never
  <2> QED
    BY <2>2, <2>3 DEF Once
<1>6. ASSUME Never(s1, id, t), Never(s2, id, t)
      PROVE  Never(s, id, t)
  BY <1>1, <1>6 DEF Never
<1> QED
  BY <1>4, <1>5, <1>6 DEF s

\* And either of them shows what the two show.
LEMMA ShownByOne ==
  ASSUME NEW T, NEW s1 \in Seq(T), NEW s2 \in Seq(T), NEW id, NEW t
  PROVE  /\ Once(s1 \o s2, id, t) =>
              \/ Once(s1, id, t) /\ Never(s2, id, t)
              \/ Never(s1, id, t) /\ Once(s2, id, t)
         /\ Never(s1 \o s2, id, t) => Never(s1, id, t) /\ Never(s2, id, t)
<1> DEFINE n == Len(s1)
<1> DEFINE s == s1 \o s2
<1>1. \A i \in DOMAIN s : \/ i \in DOMAIN s1 /\ s[i] = s1[i]
                         \/ \E k \in DOMAIN s2 : i = n + k /\ s[i] = s2[k]
  BY Concatenated
<1>2. \A i \in DOMAIN s1 : i \in DOMAIN s /\ s[i] = s1[i]
  BY Concatenated
<1>3. \A i \in DOMAIN s2 : n + i \in DOMAIN s /\ s[n + i] = s2[i]
  BY Concatenated
<1>4. \A i \in DOMAIN s1, k \in DOMAIN s2 : i # n + k
  BY Concatenated
<1>5. \A i, k \in DOMAIN s2 : n + i = n + k => i = k
  BY Concatenated
<1> HIDE DEF n, s
<1>6. ASSUME NEW i \in DOMAIN s, s[i] = id, t = Official \/ \A j \in DOMAIN s : s[j] = id => j = i
      PROVE  \/ Once(s1, id, t) /\ Never(s2, id, t)
             \/ Never(s1, id, t) /\ Once(s2, id, t)
  <2>1. CASE i \in DOMAIN s1
    <3>1. Once(s1, id, t)
      BY <1>2, <1>6, <2>1 DEF Once
    <3>2. Never(s2, id, t)
      BY <1>3, <1>4, <1>6, <2>1 DEF Never
    <3> QED
      BY <3>1, <3>2
  <2>2. ASSUME NEW k \in DOMAIN s2, i = n + k
        PROVE  Never(s1, id, t) /\ Once(s2, id, t)
    <3>1. Never(s1, id, t)
      BY <1>2, <1>4, <1>6, <2>2 DEF Never
    <3>2. s2[k] = id
      BY <1>3, <1>6, <2>2
    <3>3. ASSUME t # Official, NEW j \in DOMAIN s2, s2[j] = id
          PROVE  j = k
      <4>1. n + j \in DOMAIN s /\ s[n + j] = id
        BY <1>3, <3>3
      <4>2. n + j = n + k
        BY <1>6, <2>2, <3>3, <4>1
      <4> QED
        BY <1>5, <4>2
    <3> QED
      BY <3>1, <3>2, <3>3 DEF Once
  <2> QED
    BY <1>1, <2>1, <2>2
<1>7. ASSUME Never(s, id, t)
      PROVE  Never(s1, id, t) /\ Never(s2, id, t)
  BY <1>2, <1>3, <1>7 DEF Never
<1>8. ASSUME Once(s, id, t)
      PROVE  \/ Once(s1, id, t) /\ Never(s2, id, t)
             \/ Never(s1, id, t) /\ Once(s2, id, t)
  <2>1. PICK i \in DOMAIN s : s[i] = id /\ (t = Official \/ \A j \in DOMAIN s : s[j] = id => j = i)
    BY <1>8 DEF Once
  <2> QED
    BY <1>6, <2>1
<1>9. s = s1 \o s2
  BY DEF s
<1> QED
  BY <1>7, <1>8, <1>9

\* The pinned token apart, the cards of a page are those of its list.
LEMMA CardsShow ==
  ASSUME NEW T, NEW list \in Seq(T), NEW pin \in T \union {None}, NEW id, NEW t,
         t = Official => pin \in {None, id}, t # Official => pin # id
  PROVE  /\ Once(list, id, t) => Once(Cards(list, pin), id, t)
         /\ Never(list, id, t) => Never(Cards(list, pin), id, t)
<1>1. CASE pin = None \/ list = <<>>
  BY <1>1 DEF Cards
<1>2. CASE pin \in T /\ pin # None /\ list # <<>>
  <2> DEFINE rest == Without(list, pin)
  <2>1. Cards(list, pin) = <<pin>> \o rest
    BY <1>2 DEF Cards
  <2>2. <<pin>> \in Seq(T) /\ DOMAIN <<pin>> = {1} /\ <<pin>>[1] = pin
    BY <1>2
  <2>3. /\ rest \in Seq(T)
        /\ \A k \in DOMAIN rest : \E i \in DOMAIN list : rest[k] = list[i] /\ list[i] # pin
        /\ \A i \in DOMAIN list : list[i] # pin => \E k \in DOMAIN rest : rest[k] = list[i]
        /\ (\A i, j \in DOMAIN list : list[i] = id /\ list[j] = id => i = j)
              => \A k, l \in DOMAIN rest : rest[k] = id /\ rest[l] = id => k = l
    <3> HIDE DEF rest
    <3>1. /\ rest \in Seq(T)
          /\ \A k \in DOMAIN rest : \E i \in DOMAIN list : rest[k] = list[i] /\ list[i] # pin
          /\ \A i \in DOMAIN list : list[i] # pin => \E k \in DOMAIN rest : rest[k] = list[i]
          /\ \A x : (\A i, j \in DOMAIN list : list[i] = x /\ list[j] = x => i = j)
                   => \A k, l \in DOMAIN rest : rest[k] = x /\ rest[l] = x => k = l
      BY WithoutKeeps DEF rest
    <3> QED
      BY ONLY <3>1
  <2>6. /\ rest \in Seq(T)
        /\ Never(<<pin>>, id, t) /\ Once(rest, id, t) => Once(Cards(list, pin), id, t)
        /\ Once(<<pin>>, id, t) /\ Never(rest, id, t) => Once(Cards(list, pin), id, t)
        /\ Never(<<pin>>, id, t) /\ Never(rest, id, t) => Never(Cards(list, pin), id, t)
    <3>1. <<pin>> \in Seq(T) /\ rest \in Seq(T)
      BY <2>2, <2>3
    <3> HIDE DEF rest
    <3> QED
      BY ONLY <2>1, <3>1, ShownByEither
  <2> HIDE DEF rest
  <2>4. CASE t = Official
    <3>1. Once(<<pin>>, id, t)
      BY <1>2, <2>2, <2>4 DEF Once
    <3>2. Never(rest, id, t) /\ Never(Cards(list, pin), id, t)
      BY <2>4 DEF Never
    <3> QED
      BY <2>6, <3>1, <3>2
  <2>5. CASE t # Official
    <3>1. Never(<<pin>>, id, t)
      BY <2>2, <2>5 DEF Never
    <3>2. Once(list, id, t) => Once(rest, id, t)
      <4> SUFFICES ASSUME NEW i \in DOMAIN list, list[i] = id,
                          \A j \in DOMAIN list : list[j] = id => j = i
                   PROVE  Once(rest, id, t)
        BY <2>5 DEF Once
      <4>1. PICK k \in DOMAIN rest : rest[k] = id
        BY <2>3, <2>5
      <4>2. \A l \in DOMAIN rest : rest[l] = id => l = k
        BY <2>3, <4>1
      <4> QED
        BY <4>1, <4>2 DEF Once
    <3>3. Never(list, id, t) => Never(rest, id, t)
      BY <2>3, <2>5 DEF Never
    <3> QED
      BY <2>6, <3>1, <3>2, <3>3
  <2> QED
    BY <2>4, <2>5
<1> QED
  BY <1>1, <1>2

-----------------------------------------------------------------------------
(* A traversal of the newest tokens.                                       *)

\* A row that was listed all along is still there, and listed.
SteadyListed == \A id \in steady : \E t \in RowsOf(id) : Listed(t)

\* What the pages so far showed, with what the one under way has found.
Covered == IF visit.at \in {"listed", "scored"} THEN visit.cards \o visit.list ELSE visit.cards

\* The row they have come to.
UpTo == IF visit.at = "asked" THEN visit.cursor ELSE visit.next

\* The pages showed the steady tokens down to that row, and none after it; all of them
\* when there is no other page.
Pages ==
  visit.at # "away" =>
    /\ visit.at = "asked" /\ visit.cursor = None => visit.cards = <<>>
    /\ visit.at # "asked" /\ visit.next = None =>
         \A id \in steady : \A t \in RowsOf(id) : Once(Covered, id, t)
    /\ \A c \in RowsOf(UpTo), id \in steady : \A t \in RowsOf(id) :
         IF t >= c THEN Once(Covered, id, t) ELSE Never(Covered, id, t)

TraversalInv == TypeInv /\ SteadyListed /\ (visit.sort = "NEW" /\ ~derailed => Pages)

LEMMA NoRowOfNone ==
  ASSUME RowsOK
  PROVE  RowsOf(None) = {} /\ \A t \in Indexed : rows[t].id \in Ids /\ rows[t].id # None
BY CatalogueAssumption DEF RowsOK, RowsOf, Tokens, Ids

LEMMA SteadyStep ==
  ASSUME TypeInv, SteadyListed, [Next]_vars
  PROVE  SteadyListed' /\ (OpenExplore \/ steady' \subseteq steady)
<1>a. RowsOK /\ \A t \in Indexed : rows[t] \in Tokens
  BY DEF TypeInv, RowsOK
<1>1. CASE DeleteAbove \/ Moderate \/ ModerateAtOnce
  <2>1. steady' = {id \in steady : \E t \in DOMAIN rows' : rows'[t].id = id /\ ~rows'[t].hidden}
    BY <1>1 DEF DeleteAbove, Moderate, ModerateAtOnce, Keep
  <2> QED
    BY <2>1 DEF SteadyListed, RowsOf, Listed, Indexed
<1>2. CASE OpenExplore
  <2>1. steady' = {rows[t].id : t \in {u \in Indexed : Listed(u)}} /\ rows' = rows
    BY <1>2 DEF OpenExplore
  <2> QED
    BY <1>2, <2>1 DEF SteadyListed, RowsOf, Listed, Indexed
<1>3. CASE Leave
  BY <1>3 DEF Leave, SteadyListed
<1>4. ASSUME steady' = steady, Indexed \subseteq Indexed',
             \A t \in Indexed : rows'[t].id = rows[t].id /\ rows'[t].hidden = rows[t].hidden
      PROVE  SteadyListed'
  BY <1>4 DEF SteadyListed, RowsOf, Listed
<1>5. CASE RecordLaunch
  <2>1. steady' = steady
    BY <1>5 DEF RecordLaunch
  <2> QED
    BY <1>a, <1>4, <1>5, <2>1, RecordStep
<1>6. CASE StartMetadata
  <2>1. steady' = steady
    BY <1>6 DEF StartMetadata
  <2>2. \A t \in Indexed : rows'[t].id = rows[t].id /\ rows'[t].hidden = rows[t].hidden
    BY <1>a, <1>6, StartRows DEF Tokens
  <2> QED
    BY <1>4, <1>6, <2>1, <2>2, StartRows
<1>7. CASE Drain
  <2>1. steady' = steady
    BY <1>7 DEF Drain
  <2>2. \A t \in Indexed : rows'[t].id = rows[t].id /\ rows'[t].hidden = rows[t].hidden
    BY <1>a, <1>7, DrainRows DEF Tokens
  <2> QED
    BY <1>4, <1>7, <2>1, <2>2, DrainRows
<1>8. CASE ClearScores \/ WriteScores
  <2>1. steady' = steady
    BY <1>8 DEF ClearScores, WriteScores
  <2>2. \A t \in Indexed : rows'[t].id = rows[t].id /\ rows'[t].hidden = rows[t].hidden
    BY <1>a, <1>8, ScoreRows DEF Tokens
  <2> QED
    BY <1>4, <1>8, <2>1, <2>2, ScoreRows
<1>9. CASE Reads \/ ListTokens \/ AskScored \/ Render \/ LoadMore \/ UNCHANGED vars
  <2>1. rows' = rows /\ steady' = steady
    BY <1>9 DEF Reads, ReadToken, Examine, MetadataCrashes, ReadCohort, ScoringCrashes,
       ListTokens, AskScored, Render, LoadMore, vars
  <2> QED
    BY <1>4, <2>1 DEF Indexed
<1> QED
  BY <1>1, <1>2, <1>3, <1>5, <1>6, <1>7, <1>8, <1>9
     DEF Next, Stream, Moderators, Metadata, Scoring, Visitor, Reads

\* Whoever else writes the table: what the visitor was shown stays so.
LEMMA PagesStill ==
  ASSUME TypeInv, Pages, RowsOK', RowsMove, visit' = visit, steady' \subseteq steady
  PROVE  Pages'
<1>1. RowsOK /\ steady \subseteq Ids /\ UpTo \in {None} \union Ids
  BY DEF TypeInv, VisitorOK, Visits, UpTo
<1>2. \A id \in Ids : RowsOf(id)' \subseteq RowsOf(id)
  BY <1>1, RowsOfShrink
<1>3. RowsOf(UpTo)' \subseteq RowsOf(UpTo)
  <2>1. UpTo' = UpTo
    BY DEF UpTo
  <2>2. RowsOf(None)' = {}
    BY CatalogueAssumption DEF RowsOK, RowsOf, Tokens, Ids
  <2>3. RowsOf(UpTo)' = {t \in Indexed' : rows'[t].id = UpTo}
    BY <2>1 DEF RowsOf
  <2> QED
    BY <1>1, <1>2, <2>2, <2>3 DEF RowsOf
<1>4. Covered' = Covered
  BY DEF Covered
<1>5. \A id \in steady' : id \in steady /\ RowsOf(id)' \subseteq RowsOf(id)
  BY <1>1, <1>2
<1> QED
  BY <1>3, <1>4, <1>5 DEF Pages

\* Whether a row comes after the cursor.
After(t) == visit.cursor = None \/ \E c \in RowsOf(visit.cursor) : c > t

LEMMA AfterMonotone ==
  ASSUME RowsOK, NEW d \in Indexed, NEW t \in Indexed, After(d), ~After(t)
  PROVE  t >= d
<1>1. Indexed \subseteq Nat
  BY LaunchesAreNumbers DEF RowsOK
<1>2. PICK c \in RowsOf(visit.cursor) : c > d
  BY DEF After
<1>3. c \in Nat /\ ~(c > t)
  BY <1>1 DEF After, RowsOf
<1> QED
  BY <1>1, <1>2, <1>3

LEMMA ListFacts ==
  ASSUME NEW T, NEW list \in Seq(T)
  PROVE  /\ Len(list) \in Nat /\ DOMAIN list = 1..Len(list)
         /\ \A i \in DOMAIN list : list[i] \in T
OBVIOUS

\* What the visitor sees of the order: every listed row after the cursor has its place in
\* it, beyond what is skipped, and no other row has.
LEMMA NewestOrder ==
  ASSUME TypeInv, visit.sort = "NEW",
         visit.cursor = None \/ \E c \in RowsOf(visit.cursor) : Listed(c)
  PROVE  LET o == Ordered("NEW", visit.cursor)
             skip == Skipped(visit.cursor)
         IN /\ o \in Seq(Indexed)
            /\ \A i, j \in DOMAIN o : i < j => o[i] > o[j]
            /\ skip \in Nat /\ skip <= Len(o)
            /\ \A t \in Indexed : Listed(t) /\ After(t) => \E m \in DOMAIN o : m > skip /\ o[m] = t
            /\ \A m \in DOMAIN o : m > skip => After(o[m])
<1> DEFINE o == Ordered("NEW", visit.cursor)
<1> DEFINE S == FromCursor("NEW", visit.cursor)
<1>a. RowsOK
  BY DEF TypeInv
<1>1. /\ o \in Seq(Indexed) /\ o \in Seq(S)
      /\ \A i, j \in DOMAIN o : i < j => Precedes("NEW", o[i], o[j])
      /\ \A t \in S : \E i \in DOMAIN o : o[i] = t
  BY <1>a, OrderedLists
<1>2. \A t, u : Precedes("NEW", t, u) <=> t > u
  BY DEF Precedes
<1>3. Indexed \subseteq Nat
  BY <1>a, LaunchesAreNumbers DEF RowsOK
<1>4. S = IF visit.cursor = None THEN {t \in Indexed : Listed(t)}
          ELSE {t \in Indexed : Listed(t) /\ \E c \in RowsOf(visit.cursor) : c = t \/ c > t}
  BY <1>2 DEF FromCursor
<1> HIDE DEF o, S
<1>5. /\ DOMAIN o = 1..Len(o) /\ Len(o) \in Nat
      /\ \A i \in DOMAIN o : o[i] \in S /\ o[i] \in Nat
      /\ \A i, j \in DOMAIN o : i < j => o[i] > o[j]
  <2>1. Len(o) \in Nat /\ DOMAIN o = 1..Len(o) /\ \A i \in DOMAIN o : o[i] \in S
    BY <1>1, ListFacts
  <2>2. \A i \in DOMAIN o : o[i] \in Indexed
    BY <1>1, ListFacts
  <2> QED
    BY <1>1, <1>2, <1>3, <2>1, <2>2
<1>6. CASE visit.cursor = None
  <2>1. Skipped(visit.cursor) = 0
    BY <1>6 DEF Skipped
  <2>2. \A m \in DOMAIN o : m > 0
    BY <1>5
  <2> QED
    BY <1>1, <1>4, <1>5, <1>6, <2>1, <2>2 DEF After, o
<1>7. CASE visit.cursor # None
  <2>1. Skipped(visit.cursor) = 1
    BY <1>7 DEF Skipped
  <2>2. PICK c \in RowsOf(visit.cursor) : Listed(c)
    BY <1>7
  <2>3. c \in Nat /\ \A d \in RowsOf(visit.cursor) : d = c
    BY <1>a, <1>3 DEF RowsOf, RowsOK
  <2>4. \A t \in Indexed : t \in S <=> Listed(t) /\ (c = t \/ c > t)
    BY <1>4, <1>7, <2>2, <2>3
  <2>5. c \in Indexed /\ c \in S
    BY <2>2, <2>4 DEF RowsOf
  <2>6. PICK i \in DOMAIN o : o[i] = c
    BY <1>1, <2>5
  <2>7. 1 \in DOMAIN o /\ 1 <= Len(o)
    BY <1>5, <2>6
  <2>8. \A j \in DOMAIN o : o[j] = c \/ c > o[j]
    BY <1>1, <1>5, <2>4, <1>4, <1>7
  <2>9. i = 1
    <3> SUFFICES ASSUME i > 1 PROVE FALSE
      BY <1>5
    <3>1. o[1] > c
      BY <1>5, <2>6, <2>7
    <3> QED
      BY <1>5, <2>3, <2>7, <2>8, <3>1
  <2>10. ASSUME NEW t \in Indexed, Listed(t), After(t)
         PROVE  \E m \in DOMAIN o : m > 1 /\ o[m] = t
    <3>1. c > t
      BY <1>7, <2>3, <2>10 DEF After
    <3>2. PICK m \in DOMAIN o : o[m] = t
      BY <1>1, <2>4, <2>10, <3>1
    <3>3. m # 1
      BY <1>3, <2>3, <2>6, <2>9, <3>1, <3>2
    <3> QED
      BY <1>5, <3>2, <3>3
  <2>11. ASSUME NEW m \in DOMAIN o, m > 1
         PROVE  After(o[m])
    <3>1. c > o[m]
      BY <1>5, <2>6, <2>7, <2>9, <2>11
    <3> QED
      BY <2>2, <3>1 DEF After
  <2> QED
    BY <1>1, <1>5, <2>1, <2>7, <2>10, <2>11 DEF o
<1> QED
  BY <1>6, <1>7

\* A page of the newest tokens shows what is listed after the cursor, down to the row the
\* next page starts from.
LEMMA NewestPage ==
  ASSUME TypeInv, ListTokens, visit.sort = "NEW",
         visit.cursor = None \/ \E c \in RowsOf(visit.cursor) : Listed(c),
         NEW t \in Indexed, Listed(t)
  PROVE  LET id == rows[t].id
             list == visit'.list
         IN /\ ~After(t) => Never(list, id, t) /\ \A d \in RowsOf(visit'.next) : t >= d
            /\ After(t) /\ visit'.next = None => Once(list, id, t)
            /\ After(t) => \A d \in RowsOf(visit'.next) :
                             IF t >= d THEN Once(list, id, t) ELSE Never(list, id, t)
<1> DEFINE o == Ordered("NEW", visit.cursor)
<1> DEFINE skip == Skipped(visit.cursor)
<1> DEFINE found == Found("NEW", visit.cursor)
<1> DEFINE page == Shown(found)
<1> DEFINE list == visit'.list
<1> DEFINE next == visit'.next
<1> DEFINE id == rows[t].id
<1>a. RowsOK /\ visit \in Visits
  BY DEF TypeInv, VisitorOK
<1>1. /\ o \in Seq(Indexed)
      /\ \A i, j \in DOMAIN o : i < j => o[i] > o[j]
      /\ skip \in Nat /\ skip <= Len(o)
      /\ After(t) => \E m \in DOMAIN o : m > skip /\ o[m] = t
      /\ \A m \in DOMAIN o : m > skip => After(o[m])
  BY NewestOrder
<1>2. /\ found \in Seq(Indexed) /\ page \in Seq(Indexed)
      /\ Len(found) > PageSize => Len(page) = PageSize
      /\ skip <= Len(o) =>
           /\ Len(found) > PageSize <=> Len(o) > skip + PageSize
           /\ Len(page) = IF Len(o) <= skip + PageSize THEN Len(o) - skip ELSE PageSize
      /\ \A k \in 1..Len(page) : page[k] = o[skip + k] /\ skip + k \in DOMAIN o
  BY <1>a, PageOf
<1>3. /\ list = [k \in 1..Len(page) |-> rows[page[k]].id]
      /\ Len(found) > PageSize => PageSize \in 1..Len(page) /\ next = rows[page[PageSize]].id
      /\ Len(found) <= PageSize => next = None
  BY <1>a, ListFinds
<1>4. Indexed \subseteq Nat /\ PageSize \in Nat
  BY <1>a, LaunchesAreNumbers, CatalogueAssumption DEF RowsOK
<1>5. \A u, v \in Indexed : rows[u].id = rows[v].id => u = v
  BY <1>a DEF RowsOK
<1>6. RowsOf(None) = {} /\ \A u \in Indexed : rows[u].id # None
  BY <1>a, NoRowOfNone
<1>7. \A d \in RowsOf(next) : d \in Indexed /\ rows[d].id = next
  BY DEF RowsOf
<1> HIDE DEF o, skip, found, page, list, next
<1>8. /\ DOMAIN o = 1..Len(o) /\ Len(o) \in Nat /\ Len(page) \in Nat /\ Len(found) \in Nat
      /\ \A i \in DOMAIN o : o[i] \in Indexed /\ o[i] \in Nat
  <2>1. /\ Len(o) \in Nat /\ DOMAIN o = 1..Len(o) /\ \A i \in DOMAIN o : o[i] \in Indexed
        /\ Len(page) \in Nat /\ Len(found) \in Nat
    BY <1>1, <1>2, ListFacts
  <2> QED
    BY <1>4, <2>1
<1>9. /\ DOMAIN list = 1..Len(page)
      /\ \A k \in DOMAIN list : list[k] = rows[o[skip + k]].id /\ skip + k \in DOMAIN o
  BY <1>2, <1>3
<1>10. \A k \in DOMAIN list : list[k] = id <=> o[skip + k] = t
  BY <1>5, <1>8, <1>9
<1>11. ASSUME ~After(t)
       PROVE  Never(list, id, t) /\ \A d \in RowsOf(next) : t >= d
  <2>1. \A k \in DOMAIN list : list[k] # id
    <3> SUFFICES ASSUME NEW k \in DOMAIN list, o[skip + k] = t PROVE FALSE
      BY <1>10
    <3>1. skip + k \in DOMAIN o /\ skip + k > skip
      BY <1>1, <1>8, <1>9
    <3> QED
      BY <1>1, <1>11, <3>1
  <2>2. ASSUME NEW d \in RowsOf(next)
        PROVE  t >= d
    <3>1. d \in Indexed /\ next # None /\ Len(found) > PageSize
      BY <1>3, <1>4, <1>6, <1>7, <1>8, <2>2
    <3>2. PageSize \in 1..Len(page) /\ next = rows[page[PageSize]].id
      BY <1>3, <3>1
    <3>3. page[PageSize] = o[skip + PageSize] /\ skip + PageSize \in DOMAIN o
      BY <1>2, <3>2
    <3>4. d = o[skip + PageSize]
      BY <1>5, <1>7, <1>8, <2>2, <3>2, <3>3
    <3>5. After(d)
      BY <1>1, <1>4, <3>2, <3>3, <3>4
    <3> QED
      BY <1>a, <1>11, <3>1, <3>5, AfterMonotone
  <2> QED
    BY <2>1, <2>2 DEF Never
<1>12. ASSUME After(t)
       PROVE  \E m \in DOMAIN o : m > skip /\ o[m] = t /\ \A k \in DOMAIN list : list[k] = id <=> skip + k = m
  <2>1. PICK m \in DOMAIN o : m > skip /\ o[m] = t
    <3>1. \E m \in DOMAIN o : m > skip /\ o[m] = t
      BY <1>1, <1>12
    <3> QED
      BY ONLY <3>1
  <2>2. ASSUME NEW k \in DOMAIN list
        PROVE  list[k] = id <=> skip + k = m
    <3>1. skip + k \in DOMAIN o /\ (list[k] = id <=> o[skip + k] = t)
      BY <1>9, <1>10
    <3>2. \A i \in DOMAIN o : o[i] = t => i = m
      BY <1>1, <1>8, <2>1
    <3> QED
      BY <2>1, <3>1, <3>2
  <2> QED
    BY <2>1, <2>2
<1>13. ASSUME NEW m \in DOMAIN o, m > skip,
              \A k \in DOMAIN list : list[k] = id <=> skip + k = m
       PROVE  IF m - skip <= Len(page) THEN Once(list, id, t) ELSE Never(list, id, t)
  <2>1. CASE m - skip <= Len(page)
    <3>1. m - skip \in DOMAIN list /\ skip + (m - skip) = m
      BY <1>1, <1>8, <1>9, <1>13, <2>1
    <3>2. \A k \in DOMAIN list : list[k] = id => k = m - skip
      BY <1>1, <1>8, <1>9, <1>13
    <3>3. Once(list, id, t)
      BY <1>13, <3>1, <3>2 DEF Once
    <3> QED
      BY <2>1, <3>3
  <2>2. CASE ~(m - skip <= Len(page))
    <3>1. \A k \in DOMAIN list : list[k] # id
      BY <1>1, <1>8, <1>9, <1>13, <2>2
    <3> QED
      BY <2>2, <3>1 DEF Never
  <2> QED
    BY <2>1, <2>2
<1>14. ASSUME After(t), next = None
       PROVE  Once(list, id, t)
  <2>1. PICK m \in DOMAIN o : m > skip /\ o[m] = t /\ \A k \in DOMAIN list : list[k] = id <=> skip + k = m
    BY <1>12, <1>14
  <2>2. Len(found) <= PageSize
    <3> SUFFICES ASSUME Len(found) > PageSize PROVE FALSE
      BY <1>4, <1>8
    <3>1. page[PageSize] \in Indexed /\ next = rows[page[PageSize]].id
      BY <1>2, <1>3
    <3> QED
      BY <1>6, <1>14, <3>1
  <2>3. Len(page) = Len(o) - skip
    <3>1. Len(o) <= skip + PageSize
      <4>1. ~(Len(found) > PageSize)
        BY <1>4, <1>8, <2>2
      <4>2. ~(Len(o) > skip + PageSize)
        BY <1>1, <1>2, <4>1
      <4> QED
        BY <1>1, <1>4, <1>8, <4>2
    <3> QED
      BY <1>1, <1>2, <3>1
  <2>4. m - skip <= Len(page)
    BY <1>1, <1>8, <2>3
  <2> QED
    BY <1>13, <2>1, <2>4
<1>15. ASSUME After(t), NEW d \in RowsOf(next)
       PROVE  IF t >= d THEN Once(list, id, t) ELSE Never(list, id, t)
  <2>1. PICK m \in DOMAIN o : m > skip /\ o[m] = t /\ \A k \in DOMAIN list : list[k] = id <=> skip + k = m
    BY <1>12, <1>15
  <2>2. d \in Indexed /\ next # None /\ Len(found) > PageSize
    BY <1>3, <1>4, <1>6, <1>7, <1>8, <1>15
  <2>3. PageSize \in 1..Len(page) /\ next = rows[page[PageSize]].id /\ Len(page) = PageSize
    BY <1>2, <1>3, <2>2
  <2>4. page[PageSize] = o[skip + PageSize] /\ skip + PageSize \in DOMAIN o
    BY <1>2, <2>3
  <2>5. d = o[skip + PageSize]
    BY <1>5, <1>7, <1>8, <1>15, <2>3, <2>4
  <2>6. t >= d <=> m <= skip + PageSize
    <3>1. skip + PageSize \in Nat /\ m \in Nat
      BY <1>1, <1>4, <1>8
    <3>2. m < skip + PageSize => t > d
      BY <1>1, <2>1, <2>4, <2>5
    <3>3. m > skip + PageSize => d > t
      BY <1>1, <2>1, <2>4, <2>5
    <3>4. m = skip + PageSize => d = t
      BY <2>1, <2>5
    <3> QED
      BY <1>4, <2>2, <3>1, <3>2, <3>3, <3>4
  <2>7. m <= skip + PageSize <=> m - skip <= Len(page)
    BY <1>1, <1>4, <1>8, <2>3
  <2>8. IF m - skip <= Len(page) THEN Once(list, id, t) ELSE Never(list, id, t)
    BY <1>13, <2>1
  <2> QED
    BY <2>6, <2>7, <2>8
<1> QED
  BY <1>11, <1>14, <1>15 DEF list, next

LEMMA ListKeepsPages ==
  ASSUME TraversalInv, ListTokens, visit.sort = "NEW", ~derailed'
  PROVE  Pages'
<1>a. RowsOK /\ visit \in Visits /\ visit.at = "asked" /\ steady \subseteq Ids
  BY DEF TraversalInv, TypeInv, VisitorOK, ListTokens
<1>1. rows' = rows /\ steady' = steady /\ Indexed' = Indexed
  BY DEF ListTokens, Indexed
<1>2. ~derailed /\ (visit.cursor = None \/ \E c \in RowsOf(visit.cursor) : Listed(c))
  BY DEF ListTokens
<1>3. Pages
  BY <1>2 DEF TraversalInv
<1>4. /\ visit' = [visit EXCEPT !.at = "listed", !.list = visit'.list, !.next = visit'.next]
      /\ visit'.list \in Seq(Ids)
  BY <1>a, ListFinds
<1>5. /\ visit'.at = "listed" /\ visit'.cards = visit.cards
      /\ Covered' = visit.cards \o visit'.list /\ UpTo' = visit'.next
  <2>1. visit'.at = "listed" /\ visit'.cards = visit.cards
    BY <1>a, <1>4 DEF Visits
  <2> QED
    BY <2>1 DEF Covered, UpTo
<1>6. /\ visit.cursor = None => visit.cards = <<>>
      /\ \A c \in RowsOf(visit.cursor), id \in steady : \A t \in RowsOf(id) :
           IF t >= c THEN Once(visit.cards, id, t) ELSE Never(visit.cards, id, t)
  BY <1>a, <1>3 DEF Pages, Covered, UpTo
<1> DEFINE cards == visit.cards
<1> DEFINE list == visit'.list
<1>7. cards \in Seq(Ids) /\ list \in Seq(Ids)
  BY <1>a, <1>4 DEF Visits
<1>8. ASSUME NEW id \in steady, NEW t \in RowsOf(id)
      PROVE  /\ visit'.next = None => Once(cards \o list, id, t)
             /\ \A d \in RowsOf(visit'.next) :
                  IF t >= d THEN Once(cards \o list, id, t) ELSE Never(cards \o list, id, t)
  <2>1. t \in Indexed /\ rows[t].id = id /\ Listed(t)
    <3>1. PICK u \in RowsOf(id) : Listed(u)
      BY DEF TraversalInv, SteadyListed
    <3> QED
      BY <1>a, <3>1 DEF RowsOf, RowsOK
  <2>2. /\ ~After(t) => Never(list, id, t) /\ \A d \in RowsOf(visit'.next) : t >= d
        /\ After(t) /\ visit'.next = None => Once(list, id, t)
        /\ After(t) => \A d \in RowsOf(visit'.next) :
                         IF t >= d THEN Once(list, id, t) ELSE Never(list, id, t)
    BY <1>2, <2>1, NewestPage DEF TraversalInv
  <2> HIDE DEF cards, list
  <2>3. /\ Once(cards, id, t) /\ Never(list, id, t) => Once(cards \o list, id, t)
        /\ Never(cards, id, t) /\ Once(list, id, t) => Once(cards \o list, id, t)
        /\ Never(cards, id, t) /\ Never(list, id, t) => Never(cards \o list, id, t)
    BY <1>7, ShownByEither
  <2>4. CASE After(t)
    <3>1. Never(cards, id, t)
      <4>1. CASE visit.cursor = None
        <5>1. cards = <<>>
          BY <1>6, <4>1 DEF cards
        <5> QED
          BY <5>1 DEF Never
      <4>2. CASE \E c \in RowsOf(visit.cursor) : c > t
        <5>1. PICK c \in RowsOf(visit.cursor) : c > t
          BY <4>2
        <5>2. c \in Nat /\ t \in Nat
          BY <1>a, <2>1, LaunchesAreNumbers DEF RowsOf, RowsOK
        <5>3. ~(t >= c)
          BY <5>1, <5>2
        <5> QED
          BY <1>6, <5>1, <5>3 DEF cards
      <4> QED
        BY <2>4, <4>1, <4>2 DEF After
    <3> QED
      BY <2>2, <2>3, <2>4, <3>1
  <2>5. CASE ~After(t)
    <3>1. PICK c \in RowsOf(visit.cursor) : Listed(c)
      BY <1>2, <2>5 DEF After
    <3>2. c \in Nat /\ t \in Nat /\ ~(c > t)
      BY <1>a, <2>1, <2>5, <3>1, LaunchesAreNumbers DEF RowsOf, RowsOK, After
    <3>3. Once(cards, id, t)
      <4>1. t >= c
        BY <3>2
      <4> QED
        BY <1>6, <3>1, <4>1 DEF cards
    <3>4. Once(cards \o list, id, t)
      BY <2>2, <2>3, <2>5, <3>3
    <3> QED
      BY <2>2, <2>5, <3>4
  <2> QED
    BY <2>4, <2>5
<1>9. \A id : RowsOf(id)' = RowsOf(id)
  BY <1>1 DEF RowsOf
<1>10. RowsOf(UpTo)' = RowsOf(visit'.next)
  BY <1>1, <1>5 DEF RowsOf
<1> QED
  BY <1>1, <1>5, <1>8, <1>9, <1>10 DEF Pages

LEMMA RenderKeepsPages ==
  ASSUME TraversalInv, Render, Pages
  PROVE  Pages'
<1>a. RowsOK /\ visit \in Visits /\ visit.at = "scored" /\ steady \subseteq Ids
  BY DEF TraversalInv, TypeInv, VisitorOK, Render
<1>1. rows' = rows /\ steady' = steady /\ Indexed' = Indexed
  BY DEF Render, Indexed
<1>2. PICK pin \in {None} \union Ids :
        /\ pin # None => Official \in Indexed /\ pin = rows[Official].id
        /\ Cards(visit.list, pin) \in Seq(Ids)
        /\ visit' = [visit EXCEPT !.at = "shown", !.cards = visit.cards \o Cards(visit.list, pin)]
  BY <1>a, RenderShows
<1> DEFINE cards == visit.cards
<1> DEFINE list == visit.list
<1>3. /\ visit'.at = "shown" /\ visit'.next = visit.next
      /\ Covered' = cards \o Cards(list, pin) /\ UpTo' = UpTo
      /\ Covered = cards \o list
  <2>1. /\ visit'.at = "shown" /\ visit'.next = visit.next
        /\ visit'.cards = visit.cards \o Cards(visit.list, pin)
    BY <1>a, <1>2 DEF Visits
  <2> QED
    BY <1>a, <2>1 DEF Covered, UpTo
<1>4. cards \in Seq(Ids) /\ list \in Seq(Ids)
  BY <1>a DEF Visits
<1>5. ASSUME NEW id \in steady, NEW t \in RowsOf(id)
      PROVE  /\ Once(Covered, id, t) => Once(Covered', id, t)
             /\ Never(Covered, id, t) => Never(Covered', id, t)
  <2>1. t \in Indexed /\ rows[t].id = id /\ id # None
    BY <1>a, NoRowOfNone DEF RowsOf
  <2>2. (t = Official => pin \in {None, id}) /\ (t # Official => pin # id)
    BY <1>a, <1>2, <2>1 DEF RowsOK
  <2> DEFINE shown == Cards(list, pin)
  <2>3. shown \in Seq(Ids) /\ Covered' = cards \o shown /\ Covered = cards \o list
    BY <1>2, <1>3
  <2>4. /\ Once(list, id, t) => Once(shown, id, t)
        /\ Never(list, id, t) => Never(shown, id, t)
    BY <1>4, <2>2, CardsShow
  <2> HIDE DEF cards, list, shown
  <2>5. /\ Once(cards \o list, id, t) =>
             \/ Once(cards, id, t) /\ Never(list, id, t)
             \/ Never(cards, id, t) /\ Once(list, id, t)
        /\ Never(cards \o list, id, t) => Never(cards, id, t) /\ Never(list, id, t)
    BY <1>4, ShownByOne
  <2>6. /\ Once(cards, id, t) /\ Never(shown, id, t) => Once(cards \o shown, id, t)
        /\ Never(cards, id, t) /\ Once(shown, id, t) => Once(cards \o shown, id, t)
        /\ Never(cards, id, t) /\ Never(shown, id, t) => Never(cards \o shown, id, t)
    BY <1>4, <2>3, ShownByEither
  <2> QED
    BY <2>3, <2>4, <2>5, <2>6
<1>6. \A id : RowsOf(id)' = RowsOf(id)
  BY <1>1 DEF RowsOf
<1>7. RowsOf(UpTo)' = RowsOf(UpTo)
  BY <1>1, <1>3 DEF RowsOf
<1>8. /\ visit.next = None => \A id \in steady : \A t \in RowsOf(id) : Once(Covered, id, t)
      /\ \A c \in RowsOf(UpTo), id \in steady : \A t \in RowsOf(id) :
           IF t >= c THEN Once(Covered, id, t) ELSE Never(Covered, id, t)
  BY <1>a DEF Pages
<1> QED
  BY <1>1, <1>3, <1>5, <1>6, <1>7, <1>8 DEF Pages

LEMMA TraversalStep ==
  ASSUME TraversalInv, [Next]_vars
  PROVE  TraversalInv'
<1>a. TypeInv /\ RowsOK /\ visit \in Visits /\ SteadyListed
  BY DEF TraversalInv, TypeInv, VisitorOK
<1>1. TypeInv' /\ RowsOK' /\ RowsMove
  BY <1>a, TypeStep, RowsStep
<1>2. SteadyListed' /\ (OpenExplore \/ steady' \subseteq steady)
  BY <1>a, SteadyStep
<1>3. ASSUME visit'.sort = "NEW", ~derailed'
      PROVE  Pages'
  <2>1. CASE UNCHANGED <<visit, derailed>> /\ ~OpenExplore
    BY <1>a, <1>1, <1>2, <1>3, <2>1, PagesStill DEF TraversalInv
  <2>2. CASE OpenExplore
    <3>1. PICK sort \in Sorts : visit' = [NoVisit EXCEPT !.at = "asked", !.sort = sort]
      BY <2>2 DEF OpenExplore
    <3>2. visit'.at = "asked" /\ visit'.cards = <<>> /\ visit'.cursor = None
      BY <3>1 DEF NoVisit
    <3>3. UpTo' = None
      BY <3>2 DEF UpTo
    <3>4. RowsOf(UpTo)' = {}
      <4>1. rows' = rows
        BY <2>2 DEF OpenExplore
      <4> QED
        BY <1>a, <3>3, <4>1, NoRowOfNone DEF RowsOf, Indexed
    <3> QED
      BY <3>2, <3>4 DEF Pages
  <2>3. CASE ListTokens
    <3>1. visit.sort = "NEW"
      <4>1. visit'.sort = visit.sort
        <5>1. visit' = [visit EXCEPT !.at = "listed", !.list = visit'.list, !.next = visit'.next]
          BY <1>a, <2>3, ListFinds
        <5> QED
          BY <1>a, <5>1 DEF Visits
      <4> QED
        BY <1>3, <4>1
    <3> QED
      BY <1>3, <2>3, <3>1, ListKeepsPages
  <2>4. CASE AskScored
    <3>1. /\ visit'.sort = visit.sort /\ visit'.at = "scored" /\ visit.at = "listed"
          /\ visit'.list = visit.list /\ visit'.next = visit.next /\ visit'.cards = visit.cards
      <4> DEFINE scored == visit.sort = "TRENDING" => \E t \in Indexed : rows[t].score > 0
      <4>1. visit' = [visit EXCEPT !.at = "scored", !.scored = scored] /\ visit.at = "listed"
        BY <2>4 DEF AskScored
      <4> HIDE DEF scored
      <4> QED
        BY <1>a, <4>1 DEF Visits
    <3>2. rows' = rows /\ steady' = steady /\ derailed' = derailed
      BY <2>4 DEF AskScored
    <3>3. Covered' = Covered /\ UpTo' = UpTo
      BY <3>1 DEF Covered, UpTo
    <3>4. Pages
      BY <1>3, <3>1, <3>2 DEF TraversalInv
    <3>5. /\ visit.next = None => \A id \in steady : \A t \in RowsOf(id) : Once(Covered, id, t)
          /\ \A c \in RowsOf(UpTo), id \in steady : \A t \in RowsOf(id) :
               IF t >= c THEN Once(Covered, id, t) ELSE Never(Covered, id, t)
      BY <3>1, <3>4 DEF Pages
    <3>6. (\A id : RowsOf(id)' = RowsOf(id)) /\ RowsOf(UpTo)' = RowsOf(UpTo)
      BY <3>2, <3>3 DEF RowsOf, Indexed
    <3> QED
      BY <3>1, <3>2, <3>3, <3>5, <3>6 DEF Pages
  <2>5. CASE Render
    <3>1. visit'.sort = visit.sort /\ derailed' = derailed
      <4>1. PICK pin \in {None} \union Ids :
              visit' = [visit EXCEPT !.at = "shown", !.cards = visit.cards \o Cards(visit.list, pin)]
        BY <1>a, <2>5, RenderShows
      <4>2. derailed' = derailed
        BY <2>5 DEF Render
      <4> QED
        BY <1>a, <4>1, <4>2 DEF Visits
    <3> QED
      BY <1>3, <2>5, <3>1, RenderKeepsPages DEF TraversalInv
  <2>6. CASE LoadMore
    <3>1. /\ visit.at = "shown" /\ visit.next # None
          /\ visit' = [visit EXCEPT !.at = "asked", !.cursor = visit.next, !.list = <<>>,
                                   !.next = None]
          /\ rows' = rows /\ steady' = steady /\ derailed' = derailed
      BY <2>6 DEF LoadMore
    <3>2. /\ visit'.sort = visit.sort /\ visit'.at = "asked" /\ visit'.cursor = visit.next
          /\ visit'.cards = visit.cards
      BY <1>a, <3>1 DEF Visits
    <3>3. Covered' = Covered /\ UpTo' = UpTo
      BY <3>1, <3>2 DEF Covered, UpTo
    <3>4. Pages
      BY <1>3, <3>1, <3>2 DEF TraversalInv
    <3>5. \A c \in RowsOf(UpTo), id \in steady : \A t \in RowsOf(id) :
            IF t >= c THEN Once(Covered, id, t) ELSE Never(Covered, id, t)
      BY <3>1, <3>4 DEF Pages
    <3>6. (\A id : RowsOf(id)' = RowsOf(id)) /\ RowsOf(UpTo)' = RowsOf(UpTo)
      BY <3>1, <3>3 DEF RowsOf, Indexed
    <3> QED
      BY <3>1, <3>2, <3>3, <3>5, <3>6 DEF Pages
  <2>7. CASE Leave
    BY <2>7 DEF Leave, NoVisit, Pages
  <2> QED
    BY <2>1, <2>2, <2>3, <2>4, <2>5, <2>6, <2>7 DEF Next, Stream, Moderators, Metadata,
       Scoring, Visitor, vars, RecordLaunch, DeleteAbove, ReadToken, Moderate, ModerateAtOnce,
       StartMetadata, Examine, Drain, MetadataCrashes, ReadCohort, ClearScores, WriteScores,
       ScoringCrashes
<1> QED
  BY <1>1, <1>2, <1>3 DEF TraversalInv

\* What Once says of the cards, counted.
LEMMA OnceCounts ==
  ASSUME NEW T, NEW list \in Seq(T), NEW id, NEW t, Once(list, id, t)
  PROVE  LET places == {i \in DOMAIN list : list[i] = id} IN
         Cardinality(places) >= 1 /\ (t = Official \/ Cardinality(places) = 1)
<1> DEFINE places == {i \in DOMAIN list : list[i] = id}
<1>1. PICK i \in DOMAIN list :
        list[i] = id /\ (t = Official \/ \A j \in DOMAIN list : list[j] = id => j = i)
  BY DEF Once
<1>2. IsFiniteSet(places)
  <2>1. IsFiniteSet(1..Len(list)) /\ DOMAIN list = 1..Len(list)
    BY FS_Interval, ListFacts
  <2> QED
    BY <2>1, FS_Subset
<1>3. Cardinality(places) \in Nat /\ Cardinality(places) # 0
  BY <1>1, <1>2, FS_CardinalityType, FS_EmptySet
<1>4. CASE t = Official
  BY <1>3, <1>4
<1>5. CASE t # Official
  <2>1. places = {i}
    BY <1>1, <1>5
  <2>2. Cardinality(places) = 1
    <3> HIDE DEF places
    <3> QED
      BY <2>1, FS_Singleton
  <2> QED
    BY <2>2
<1> QED
  BY <1>4, <1>5

\* A visitor who goes through the newest tokens to the last page has seen every token that
\* stayed listed, and only the pinned one twice, whatever the stream, the moderators and the
\* scripts did between two pages (explore.ts, page.tsx).
THEOREM TraversalsComplete == Spec => []TraversalComplete
<1>1. Init => TraversalInv
  <2> SUFFICES ASSUME Init PROVE TraversalInv
    OBVIOUS
  <2>1. SteadyListed /\ Pages
    BY DEF Init, NoVisit, SteadyListed, Pages
  <2> QED
    BY <2>1, InitTypes DEF TraversalInv
<1>2. TraversalInv /\ [Next]_vars => TraversalInv'
  BY TraversalStep
<1>3. TraversalInv => TraversalComplete
  <2> SUFFICES ASSUME TraversalInv, AtTheEnd, visit.sort = "NEW", ~derailed, NEW id \in steady
               PROVE  Times(id) >= 1 /\ (Times(id) = 1 \/ IsOfficial(id))
    BY DEF TraversalComplete
  <2>1. PICK t \in RowsOf(id) : Listed(t)
    BY DEF TraversalInv, SteadyListed
  <2>2. visit.at = "shown" /\ visit.next = None /\ Pages
    BY DEF AtTheEnd, TraversalInv
  <2>3. Once(visit.cards, id, t)
    BY <2>1, <2>2 DEF Pages, Covered
  <2>4. visit.cards \in Seq(Ids)
    BY DEF TraversalInv, TypeInv, VisitorOK, Visits
  <2>5. Times(id) >= 1 /\ (t = Official \/ Times(id) = 1)
    BY <2>3, <2>4, OnceCounts DEF Times
  <2> QED
    BY <2>1, <2>5 DEF IsOfficial
<1> QED
  BY <1>1, <1>2, <1>3, PTL DEF Spec

LEMMA IsABijection ==
  ASSUME NEW S, NEW T, NEW f \in [S -> T], \A a, b \in S : f[a] = f[b] => a = b,
         \A y \in T : \E x \in S : f[x] = y
  PROVE  f \in Bijection(S, T)
BY DEF Bijection, Injection, Surjection, IsInjective

\* The table keeps its types, and no two rows share an id.
THEOREM TypesKept == Spec => []TypeOK
<1>1. TypeInv /\ [Next]_vars => TypeInv'
  BY TypeStep
<1>2. TypeInv => TypeOK
  <2> SUFFICES ASSUME TypeInv PROVE TypeOK
    OBVIOUS
  <2>1. RowsOK /\ WritersOK /\ VisitorOK
    BY DEF TypeInv
  <2> DEFINE S == {rows[t].id : t \in Indexed}
  <2> DEFINE f == [t \in Indexed |-> rows[t].id]
  <2>2. f \in Bijection(Indexed, S)
    <3>1. f \in [Indexed -> S] /\ \A t, u \in Indexed : f[t] = f[u] => t = u
      BY <2>1 DEF RowsOK
    <3>2. \A id \in S : \E t \in Indexed : f[t] = id
      OBVIOUS
    <3> HIDE DEF f, S
    <3> QED
      BY <3>1, <3>2, IsABijection
  <2>3. IsFiniteSet(Indexed)
    BY <2>1, LaunchesAreNumbers, FS_Subset DEF RowsOK
  <2>4. Cardinality(S) = Cardinality(Indexed)
    <3> HIDE DEF f, S
    <3> QED
      BY <2>2, <2>3, FS_Bijection DEF ExistsBijection
  <2>5. Cardinality({rows[t].id : t \in Indexed}) = Cardinality(Indexed)
    BY <2>4
  <2>6. \A t \in Indexed : rows[t] \in [id : 1..ids, hidden : BOOLEAN, score : {0, 1},
                                       checked : BOOLEAN, image : Images]
    BY <2>1 DEF RowsOK, Tokens, Ids
  <2>7. /\ metadata.pending \subseteq 1..ids /\ metadata.buffer \subseteq [id : 1..ids, image : Images]
        /\ scoring.pending \subseteq 1..ids
    BY <2>1 DEF WritersOK, Ids, Answers
  <2>8. /\ visit.at \in {"away", "asked", "listed", "scored", "shown"}
        /\ visit.cursor \in {None} \union 1..ids
        /\ steady \subseteq 1..ids
    BY <2>1 DEF VisitorOK, Visits, Ids
  <2> QED
    BY <2>1, <2>5, <2>6, <2>7, <2>8 DEF TypeOK, RowsOK
<1> QED
  BY <1>1, <1>2, InitTypes, PTL DEF Spec
=============================================================================
