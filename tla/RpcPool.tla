------------------------------ MODULE RpcPool ------------------------------
(***************************************************************************)
(* RpcPool: several callers share a pool of unreliable endpoints.  A call  *)
(* is one request, or a batch that may have to be split into chunks no     *)
(* larger than what some endpoint is known to take.                        *)
(*                                                                         *)
(* Between two awaits a caller runs alone, so an action goes from the      *)
(* answer of one POST to the sending of the next.  What callers share is   *)
(* the health of the endpoints and the batch limits learned so far; the    *)
(* order in which a call asks the endpoints is fixed when it begins, and   *)
(* may be stale when it is used.                                           *)
(*                                                                         *)
(* No endpoint is configured with a minimum interval, so respectPacing     *)
(* returns at once and is left out.  Time appears as the end of a cooldown *)
(* and of a backoff, either of which may come at any moment.               *)
(***************************************************************************)
EXTENDS Integers, Sequences, FiniteSets

CONSTANTS
  Callers,
  Endpoints,
  Rank,         \* position in the configured list
  Fastest,      \* TRUE for the strategy "fastest", FALSE for "ordered"
  Attempts,     \* attemptsPerEndpoint
  Threshold,    \* failureThreshold
  Sizes,        \* lengths of the batches callers ask for
  Capacities,   \* the largest batches an endpoint may serve
  Explicit,     \* endpoints whose refusal names the size they allow
  Dependable    \* endpoints that always answer

ASSUME PoolAssumption ==
  /\ IsFiniteSet(Endpoints) /\ Endpoints # {}
  /\ Rank \in [Endpoints -> Nat]
  /\ \A e, f \in Endpoints : Rank[e] = Rank[f] => e = f
  /\ Fastest \in BOOLEAN
  /\ Attempts \in Nat \ {0}
  /\ Threshold \in Nat \ {0}
  /\ Sizes \subseteq Nat \ {0}
  /\ Capacities \subseteq Nat
  /\ Explicit \subseteq Endpoints
  /\ Dependable \subseteq Endpoints

VARIABLES
  serves,            \* the largest batch an endpoint serves; no code knows it
  limit,             \* maxBatchSize, Unknown for null
  failures,          \* consecutiveFailures, up to Threshold
  cooling,           \* the endpoints in cooldown
  call,              \* what each caller is doing
  batchUnsupported   \* BlockTimeCache.batchUnsupported

healthVars == <<failures, cooling>>
vars == <<serves, limit, healthVars, call, batchUnsupported>>

Unknown == -1
Whole == -1     \* the chunk size of a call that is not split

Idle == [at |-> "idle", size |-> 0, chunk |-> Whole, offset |-> 0, got |-> 0,
         order |-> << >>, attempt |-> 0, failed |-> {}, result |-> "none"]

-----------------------------------------------------------------------------
(* selectOrder, and what a call asks next.                                 *)

\* Healthy endpoints first; the cooling ones stay last rather than being removed.
Before(e, f, cool) ==
  IF e \in cool THEN f \in cool /\ Rank[e] < Rank[f]
  ELSE f \in cool \/ Fastest \/ Rank[e] < Rank[f]

\* Mutant of Orders: cooling endpoints are removed while a healthy one is left.
OnlyHealthy(S, cool) ==
  LET asked == IF S \subseteq cool THEN S ELSE S \ cool IN
  {o \in [1..Cardinality(asked) -> asked] :
     \A i, j \in DOMAIN o : i < j => o[i] # o[j] /\ Before(o[i], o[j], cool)}

Orders(S, cool) ==
  {o \in [1..Cardinality(S) -> S] :
     \A i, j \in DOMAIN o : i < j => o[i] # o[j] /\ Before(o[i], o[j], cool)}

\* How many calls the next POST carries; 0 for a request that is not a batch.
Posted(k) ==
  IF k.chunk = Whole \/ k.chunk > k.size - k.offset THEN k.size - k.offset ELSE k.chunk

Capable(n, lim) == {e \in Endpoints : lim[e] = Unknown \/ lim[e] >= n}

\* The call ends.  What remains of it is observed only.
Over(k, how) ==
  [Idle EXCEPT !.size = k.size, !.got = IF how = "served" THEN k.got ELSE 0,
               !.failed = IF how = "failed" THEN k.failed ELSE {}, !.result = how]

\* requestWholeBatch, or one request: the states a call may be in once it has chosen
\* its endpoints.
Asking(k, cool, lim) ==
  LET capable == Capable(Posted(k), lim) IN
  IF capable = {} THEN {Over(k, "unsupported")}
  ELSE {[k EXCEPT !.at = "sent", !.order = o, !.attempt = 1] : o \in Orders(capable, cool)}

Known(lim) == {lim[e] : e \in Endpoints} \ {Unknown}

\* bestKnownBatchLimit, and provenBatchCeiling when every limit is known.
Best(lim) == {n \in Known(lim) : \A m \in Known(lim) : m <= n}

\* Mutant of ChunkSize: without the Math.max.
Unguarded(n) == n

ChunkSize(n) == IF n > 1 THEN n ELSE 1

\* requestBatchInChunks, from the first chunk.
Splitting(k, cool, lim) ==
  UNION {Asking([k EXCEPT !.chunk = ChunkSize(n)], cool, lim) : n \in Best(lim)}

Splittable(k, lim) == Known(lim) # {} /\ \A n \in Known(lim) : n < k.size

\* Mutant of Throwing: no second chance in chunks.
GivesUp(k, cool, lim, how) == {Over(k, how)}

\* A call throws; a batch that was sent whole is tried again in chunks first.
Throwing(k, cool, lim, how) ==
  IF k.chunk = Whole /\ Splittable(k, lim) THEN Splitting(k, cool, lim)
  ELSE {Over(k, how)}

\* The endpoint at hand is given up for this call: the next one, if there is one.
MovingOn(k, cool, lim) ==
  IF Len(k.order) > 1
  THEN {[k EXCEPT !.at = "sent", !.order = Tail(@), !.attempt = 1]}
  ELSE Throwing(k, cool, lim, "failed")

\* Caller c goes on in one of the given states.  BatchNotSupportedError is what makes
\* the cache of block times stop batching for good.
GoesOn(c, states) ==
  \E k \in states :
    /\ call' = [call EXCEPT ![c] = k]
    /\ batchUnsupported' = (batchUnsupported \/ k.result = "unsupported")

Started(n) == [Idle EXCEPT !.size = n]

-----------------------------------------------------------------------------
(* Calls and answers.                                                      *)

Request(c) ==
  /\ call[c].at = "idle"
  /\ GoesOn(c, Asking(Started(0), cooling, limit))
  /\ UNCHANGED <<serves, limit, healthVars>>

\* requestBatch, for the cache of block times.
RequestBatch(c) ==
  /\ call[c].at = "idle"
  /\ ~batchUnsupported
  /\ \E n \in Sizes :
       LET k == Started(n) IN
       GoesOn(c, IF Unknown \notin {limit[e] : e \in Endpoints} /\ Splittable(k, limit)
                 THEN Splitting(k, cooling, limit) ELSE Asking(k, cooling, limit))
  /\ UNCHANGED <<serves, limit, healthVars>>

At(c, label) == call[c].at = label
Endpoint(c) == Head(call[c].order)

NextOffset(k) == k.offset + k.chunk

\* recordSuccess, and the next chunk if there is one.
Answered(c) ==
  /\ At(c, "sent")
  /\ LET k == [call[c] EXCEPT !.got = @ + Posted(call[c])]
         cool == cooling \ {Endpoint(c)} IN
       /\ Posted(k) <= serves[Endpoint(c)]
       /\ failures' = [failures EXCEPT ![Endpoint(c)] = 0]
       /\ cooling' = cool
       /\ GoesOn(c, IF k.chunk = Whole \/ NextOffset(k) >= k.size
                    THEN {Over(k, "served")}
                    ELSE Asking([k EXCEPT !.offset = NextOffset(k)], cool, limit))
  /\ UNCHANGED <<serves, limit>>

\* recordFailure.
CountFailure(e) ==
  /\ failures' = [failures EXCEPT ![e] = IF @ < Threshold THEN @ + 1 ELSE @]
  /\ cooling' = IF failures[e] + 1 >= Threshold THEN cooling \union {e} ELSE cooling

Failing(c) == [call[c] EXCEPT !.failed = @ \union {Endpoint(c)}]

\* A failure that another attempt, or another endpoint, may not have: the answer is
\* late, no JSON, rate limited, a block that is not there yet.
Fails(c) ==
  /\ At(c, "sent")
  /\ Endpoint(c) \notin Dependable
  /\ CountFailure(Endpoint(c))
  /\ GoesOn(c, IF call[c].attempt < Attempts
               THEN {[Failing(c) EXCEPT !.at = "backoff"]}
               ELSE MovingOn(Failing(c), cooling', limit))
  /\ UNCHANGED <<serves, limit>>

Retry(c) ==
  /\ At(c, "backoff")
  /\ call' = [call EXCEPT ![c].at = "sent", ![c].attempt = @ + 1]
  /\ UNCHANGED <<serves, limit, healthVars, batchUnsupported>>

\* The size to remember after a refusal of n calls: what the endpoint names, but always
\* less than what it refused.  A limit of 0 is never named.
Learned(e, n) ==
  IF e \in Explicit /\ serves[e] > 0 /\ serves[e] < n THEN serves[e] ELSE n - 1

\* BATCH_TOO_LARGE: the limit is remembered, health is not affected.
Refuses(c) ==
  /\ At(c, "sent")
  /\ Posted(call[c]) > serves[Endpoint(c)]
  /\ limit' = [limit EXCEPT ![Endpoint(c)] = Learned(Endpoint(c), Posted(call[c]))]
  /\ GoesOn(c, MovingOn(Failing(c), cooling, limit'))
  /\ UNCHANGED <<serves, healthVars>>

\* A revert or a bad parameter, which counts against the endpoint's health, or a log
\* range that is too wide, which does not: thrown at once.  Batches read blocks by
\* number, which nobody rejects in these ways.
Rejects(c) ==
  /\ At(c, "sent")
  /\ call[c].size = 0
  /\ \/ CountFailure(Endpoint(c))
     \/ UNCHANGED healthVars
  /\ GoesOn(c, {Over(Failing(c), "rejected")})
  /\ UNCHANGED <<serves, limit>>

CooldownEnds(e) ==
  /\ e \in cooling
  /\ cooling' = cooling \ {e}
  /\ UNCHANGED <<serves, limit, failures, call, batchUnsupported>>

-----------------------------------------------------------------------------

Init ==
  /\ serves \in [Endpoints -> Capacities]
  /\ limit = [e \in Endpoints |-> Unknown]
  /\ failures = [e \in Endpoints |-> 0]
  /\ cooling = {}
  /\ call = [c \in Callers |-> Idle]
  /\ batchUnsupported = FALSE

Progress(c) == Answered(c) \/ Fails(c) \/ Refuses(c) \/ Rejects(c) \/ Retry(c)

Next ==
  \/ \E c \in Callers : Request(c) \/ RequestBatch(c) \/ Progress(c)
  \/ \E e \in Endpoints : CooldownEnds(e)

Spec == Init /\ [][Next]_vars

\* Every POST ends: with an answer, or when AbortSignal.timeout fires.
FairSpec == Spec /\ \A c \in Callers : WF_vars(Progress(c))

-----------------------------------------------------------------------------
(* Properties.                                                             *)

Results == {"none", "served", "failed", "rejected", "unsupported"}

Calls ==
  [at : {"idle", "sent", "backoff"}, size : Nat, chunk : Nat \union {Whole}, offset : Nat,
   got : Nat, order : Seq(Endpoints), attempt : 0..Attempts, failed : SUBSET Endpoints,
   result : Results]

TypeOK ==
  /\ serves \in [Endpoints -> Capacities]
  /\ limit \in [Endpoints -> Nat \union {Unknown}]
  /\ failures \in [Endpoints -> 0..Threshold]
  /\ cooling \subseteq Endpoints
  /\ call \in [Callers -> Calls]
  /\ \A c \in Callers : call[c].at # "idle" => call[c].order # << >>
  /\ batchUnsupported \in BOOLEAN

\* A request fails for every reason but the caller's own only when no endpoint could
\* answer it, those in cooldown included (selectOrder: "a degraded answer still beats
\* no answer at all").
NoEndpointSkipped ==
  \A c \in Callers :
    call[c].result = "failed" /\ call[c].size = 0 => call[c].failed = Endpoints

\* The answer to a batch has one result for each of its calls, however it was split.
AnswerComplete ==
  \A c \in Callers : call[c].result = "served" => call[c].got = call[c].size

\* A limit learned never excludes an endpoint from a batch it would serve, whatever
\* other callers learn about it at the same time.
LimitsNotTooLow ==
  \A e \in Endpoints : limit[e] # Unknown => limit[e] >= serves[e]

\* The cache of block times stops batching for good only if there is no endpoint left
\* that serves a batch of any size (block-cache.ts: "A lagging block or a throttled
\* moment must not cost batching for the rest of the process").
StopsBatchingOnlyIfNoneServes ==
  batchUnsupported => \A e \in Endpoints : serves[e] = 0

\* Every call ends: chunks run out, and so do endpoints and attempts.
EveryCallEnds == \A c \in Callers : []<>(call[c].at = "idle")

Batching(c) == call[c].at # "idle" /\ call[c].size > 0
BatchServed(c) == call[c].result = "served" /\ call[c].size > 0
LargestSize == CHOOSE n \in Sizes : \A m \in Sizes : m <= n

\* One endpoint always answers but takes only small batches and may not say how small;
\* the others take any batch but may always fail.  A caller that keeps asking for
\* batches is then served in the end.
BatchesServed ==
  (\E e \in Dependable : /\ serves[e] > 0
                         /\ \A f \in Endpoints \ {e} : serves[f] >= LargestSize)
    => \A c \in Callers : []<>Batching(c) => []<>BatchServed(c)

\* A batch fails only after every endpoint has failed or refused a part of it: one that
\* was too small for the whole is asked in chunks before the caller is handed a failure
\* (requestBatch: an endpoint with a smaller limit "has not been asked at all - ask it
\* in chunks before handing the caller a failure").
SmallEndpointsGetATurn ==
  \A c \in Callers :
    call[c].result = "failed" /\ call[c].size > 0 => call[c].failed = Endpoints
=============================================================================
