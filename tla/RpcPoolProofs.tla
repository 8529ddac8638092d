--------------------------- MODULE RpcPoolProofs ---------------------------
(***************************************************************************)
(* What RpcPool guarantees to callers that share it, for any number of     *)
(* callers and endpoints: limits learned are never too low, a request asks *)
(* every endpoint before it fails, an answer is complete, and batching is  *)
(* given up only if nobody serves a batch.  At the end, what LogWindow     *)
(* guarantees of the ranges that are asked for.                            *)
(***************************************************************************)
EXTENDS RpcPool, LogWindow, FiniteSetTheorems, FunctionTheorems, SequenceTheorems, TLAPS

Limits == [Endpoints -> Nat \union {Unknown}]

Remaining(o) == {o[i] : i \in 1..Len(o)}

\* An order in which to ask S names each endpoint of S.
LEMMA OrderIsComplete ==
  ASSUME NEW S \in SUBSET Endpoints, S # {}, NEW cool, NEW o \in Orders(S, cool)
  PROVE  o \in Seq(Endpoints) /\ o # << >> /\ Remaining(o) = S
<1> DEFINE n == Cardinality(S)
<1>1. IsFiniteSet(S)
  BY PoolAssumption, FS_Subset
<1>2. n \in Nat /\ n # 0
  BY <1>1, FS_CardinalityType, FS_EmptySet
<1>3. o \in [1..n -> S] /\ \A i, j \in 1..n : i < j => o[i] # o[j]
  BY DEF Orders
<1>4. o \in Seq(Endpoints) /\ Len(o) = n
  BY <1>2, <1>3
<1>5. \A i, j \in 1..n : o[i] = o[j] => i = j
  BY <1>2, <1>3
<1>6. o \in Injection(1..n, S)
  BY <1>3, <1>5 DEF Injection, IsInjective
<1>7. Cardinality(1..n) = n
  BY <1>2, FS_Interval
<1>8. o \in Surjection(1..n, S)
  BY <1>1, <1>6, <1>7, FS_Injection
<1> QED
  BY <1>2, <1>3, <1>4, <1>8 DEF Remaining, Surjection

\* A call that is about to ask, and the promises about one that has begun.
Ready(k) ==
  /\ k \in Calls
  /\ k.result = "none"
  /\ k.got = k.offset
  /\ k.offset <= k.size
  /\ k.chunk = Whole => k.offset = 0
  /\ k.chunk # Whole => k.chunk > 0

Sound(k) ==
  /\ k.at # "idle" => /\ Ready(k)
                      /\ k.order # << >>
                      /\ k.at = "backoff" => k.attempt < Attempts
                      /\ k.size = 0 => Endpoints \subseteq k.failed \union Remaining(k.order)
  /\ k.result = "served" => k.got = k.size
  /\ k.result = "failed" /\ k.size = 0 => k.failed = Endpoints

LEMMA PostedType ==
  ASSUME NEW k, Ready(k)
  PROVE  /\ Posted(k) \in Nat
         /\ Posted(k) <= k.size - k.offset
         /\ k.chunk # Whole => Posted(k) <= k.chunk
  BY DEF Ready, Calls, Posted, Whole

LEMMA OverSound ==
  ASSUME NEW k \in Calls, NEW how \in Results,
         how = "served" => k.got = k.size,
         how = "failed" /\ k.size = 0 => k.failed = Endpoints
  PROVE  /\ Over(k, how) \in Calls
         /\ Sound(Over(k, how))
         /\ Over(k, how).at = "idle"
         /\ Over(k, how).result = how
<1> DEFINE got == IF how = "served" THEN k.got ELSE 0
           failed == IF how = "failed" THEN k.failed ELSE {}
<1>1. got \in Nat /\ failed \subseteq Endpoints /\ k.size \in Nat
  BY DEF Calls
<1>2. << >> \in Seq(Endpoints) /\ 0 \in 0..Attempts
  BY PoolAssumption
<1>3. Over(k, how) = [at |-> "idle", size |-> k.size, chunk |-> Whole, offset |-> 0,
                      got |-> got, order |-> << >>, attempt |-> 0, failed |-> failed,
                      result |-> how]
  <2>1. Over(k, how) = [Idle EXCEPT !.size = k.size, !.got = got, !.failed = failed,
                                    !.result = how]
    BY DEF Over
  <2> HIDE DEF got, failed
  <2> QED
    BY <2>1 DEF Idle
<1>4. how = "served" => got = k.size
  OBVIOUS
<1>5. how = "failed" /\ k.size = 0 => failed = Endpoints
  OBVIOUS
<1> HIDE DEF got, failed
<1>6. Over(k, how) \in Calls
  BY <1>1, <1>2, <1>3 DEF Calls
<1>7. /\ Over(k, how).at = "idle" /\ Over(k, how).result = how
      /\ Over(k, how).got = got /\ Over(k, how).failed = failed
      /\ Over(k, how).size = k.size
  BY <1>3
<1> HIDE DEF Over
<1> QED
  BY <1>4, <1>5, <1>6, <1>7 DEF Sound

LEMMA AskingSound ==
  ASSUME NEW k, Ready(k), NEW cool, NEW lim \in Limits, NEW r \in Asking(k, cool, lim)
  PROVE  /\ r \in Calls
         /\ Sound(r)
         /\ r.result = "unsupported" => Capable(Posted(k), lim) = {}
<1> DEFINE capable == Capable(Posted(k), lim)
<1>1. CASE capable = {}
  <2>1. r = Over(k, "unsupported")
    BY <1>1 DEF Asking
  <2> QED
    BY <1>1, <2>1, OverSound DEF Ready, Results
<1>2. CASE capable # {}
  <2>1. PICK o \in Orders(capable, cool) :
          r = [k EXCEPT !.at = "sent", !.order = o, !.attempt = 1]
    BY <1>2 DEF Asking
  <2>2. o \in Seq(Endpoints) /\ o # << >> /\ Remaining(o) = capable
    BY <1>2, OrderIsComplete DEF Capable
  <2>3. r \in Calls
    <3>1. 1 \in 0..Attempts
      BY PoolAssumption
    <3> QED
      BY <2>1, <2>2, <3>1 DEF Ready, Calls
  <2>4. /\ r.at = "sent" /\ r.order = o /\ r.size = k.size /\ r.offset = k.offset
        /\ r.got = k.got /\ r.chunk = k.chunk /\ r.result = "none" /\ r.failed = k.failed
    BY <2>1 DEF Ready, Calls
  <2>5. k.size = 0 => capable = Endpoints
    BY PostedType DEF Ready, Calls, Capable, Limits, Unknown
  <2> QED
    BY <2>2, <2>3, <2>4, <2>5 DEF Sound, Ready
<1> QED
  BY <1>1, <1>2

\* Limits that are not too low.
Honest(lim) == \A e \in Endpoints : lim[e] # Unknown => lim[e] >= serves[e]

NoneServes == \A e \in Endpoints : serves[e] = 0

LEMMA SplittingSound ==
  ASSUME NEW k, Ready(k), k.chunk = Whole, k.size > 0, NEW cool, NEW lim \in Limits,
         serves \in [Endpoints -> Nat], Honest(lim), NEW r \in Splitting(k, cool, lim)
  PROVE  r \in Calls /\ Sound(r) /\ (r.result = "unsupported" => NoneServes)
<1>1. PICK n \in Best(lim) : r \in Asking([k EXCEPT !.chunk = ChunkSize(n)], cool, lim)
  BY DEF Splitting
<1> DEFINE q == [k EXCEPT !.chunk = ChunkSize(n)]
<1>2. n \in Nat /\ \E e \in Endpoints : lim[e] = n
  BY DEF Best, Known, Limits, Unknown
<1>3. ChunkSize(n) \in Nat /\ ChunkSize(n) > 0 /\ (n > 0 => ChunkSize(n) = n)
  BY <1>2 DEF ChunkSize
<1>4. Ready(q) /\ q.chunk = ChunkSize(n)
  <2>1. q \in Calls
    BY <1>3 DEF Ready, Calls
  <2>2. /\ q.result = k.result /\ q.got = k.got /\ q.offset = k.offset
        /\ q.size = k.size /\ q.chunk = ChunkSize(n)
    BY DEF Ready, Calls
  <2> HIDE DEF q
  <2>3. q.got = q.offset /\ q.offset <= q.size /\ q.result = "none"
    BY <2>2 DEF Ready
  <2>4. ChunkSize(n) # Whole
    BY <1>3 DEF Whole
  <2> QED
    BY <1>3, <2>1, <2>2, <2>3, <2>4 DEF Ready
<1>5. Posted(q) \in Nat /\ Posted(q) <= ChunkSize(n)
  <2>1. q.chunk # Whole
    BY <1>3, <1>4 DEF Whole
  <2> HIDE DEF q
  <2> QED
    BY <1>4, <2>1, PostedType
<1>6. ASSUME Capable(Posted(q), lim) = {}
      PROVE  NoneServes
  <2>1. \A e \in Endpoints : lim[e] # Unknown /\ ~(lim[e] >= Posted(q))
    BY <1>6 DEF Capable
  <2>2. ~(n > 0)
    BY <1>2, <1>3, <1>5, <2>1
  <2>3. ChunkSize(n) = 1
    BY <1>2, <2>2 DEF ChunkSize
  <2> QED
    BY <1>5, <2>1, <2>3 DEF NoneServes, Honest, Limits, Unknown
<1> HIDE DEF q
<1> QED
  BY <1>1, <1>4, <1>6, AskingSound DEF q

LEMMA ThrowingSound ==
  ASSUME NEW k, Ready(k), k.size = 0 => k.failed = Endpoints, NEW cool,
         NEW lim \in Limits, serves \in [Endpoints -> Nat], Honest(lim),
         NEW r \in Throwing(k, cool, lim, "failed")
  PROVE  r \in Calls /\ Sound(r) /\ (r.result = "unsupported" => NoneServes)
<1>1. CASE k.chunk = Whole /\ Splittable(k, lim)
  <2>1. PICK n \in Known(lim) : n < k.size
    BY <1>1 DEF Splittable
  <2>2. k.size > 0
    BY <2>1 DEF Known, Limits, Unknown, Ready, Calls
  <2> QED
    BY <1>1, <2>2, SplittingSound DEF Throwing
<1>2. CASE ~(k.chunk = Whole /\ Splittable(k, lim))
  <2>1. r = Over(k, "failed")
    BY <1>2 DEF Throwing
  <2> QED
    BY <2>1, OverSound DEF Ready, Results
<1> QED
  BY <1>1, <1>2

LEMMA MovingOnSound ==
  ASSUME NEW k, Ready(k), k.order # << >>, Head(k.order) \in k.failed,
         k.size = 0 => Endpoints \subseteq k.failed \union Remaining(k.order),
         NEW cool, NEW lim \in Limits, serves \in [Endpoints -> Nat], Honest(lim),
         NEW r \in MovingOn(k, cool, lim)
  PROVE  r \in Calls /\ Sound(r) /\ (r.result = "unsupported" => NoneServes)
<1>1. k.order \in Seq(Endpoints) /\ k.failed \subseteq Endpoints
  BY DEF Ready, Calls
<1>2. Len(k.order) \in Nat /\ Len(k.order) # 0 /\ Head(k.order) = k.order[1]
  BY <1>1
<1>3. CASE Len(k.order) > 1
  <2>1. r = [k EXCEPT !.at = "sent", !.order = Tail(k.order), !.attempt = 1]
    BY <1>3 DEF MovingOn
  <2>2. /\ Tail(k.order) \in Seq(Endpoints)
        /\ Len(Tail(k.order)) = Len(k.order) - 1
        /\ \A i \in 1..Len(Tail(k.order)) : Tail(k.order)[i] = k.order[i + 1]
    BY <1>1, <1>2, HeadTailProperties
  <2>3. Tail(k.order) # << >>
    <3> DEFINE len == Len(k.order)
               rest == Len(Tail(k.order))
    <3>1. len \in Nat /\ len > 1 /\ rest = len - 1
      BY <1>2, <1>3, <2>2
    <3> HIDE DEF len, rest
    <3>2. rest # 0
      BY <3>1
    <3>3. Len(<< >>) = 0
      OBVIOUS
    <3> QED
      BY <3>2, <3>3 DEF rest
  <2>4. Remaining(k.order) \subseteq {Head(k.order)} \union Remaining(Tail(k.order))
    <3> SUFFICES ASSUME NEW i \in 1..Len(k.order), i # 1
                 PROVE  k.order[i] \in Remaining(Tail(k.order))
      BY <1>2 DEF Remaining
    <3>1. i - 1 \in 1..Len(Tail(k.order)) /\ Tail(k.order)[i - 1] = k.order[i]
      BY <1>2, <2>2
    <3> QED
      BY <3>1 DEF Remaining
  <2>5. r \in Calls
    <3>1. 1 \in 0..Attempts
      BY PoolAssumption
    <3> QED
      BY <2>1, <2>2, <3>1 DEF Ready, Calls
  <2>6. /\ r.at = "sent" /\ r.order = Tail(k.order) /\ r.size = k.size
        /\ r.offset = k.offset /\ r.got = k.got /\ r.chunk = k.chunk
        /\ r.result = "none" /\ r.failed = k.failed
    BY <2>1 DEF Ready, Calls
  <2> QED
    BY <2>3, <2>4, <2>5, <2>6 DEF Sound, Ready
<1>4. CASE ~(Len(k.order) > 1)
  <2>1. Len(k.order) = 1
    <3> DEFINE len == Len(k.order)
    <3>1. len \in Nat /\ len # 0 /\ ~(len > 1)
      BY <1>2, <1>4
    <3> HIDE DEF len
    <3>2. len = 1
      BY <3>1
    <3> QED
      BY <3>2 DEF len
  <2>2. Remaining(k.order) = {Head(k.order)}
    BY <1>2, <2>1 DEF Remaining
  <2>3. k.size = 0 => k.failed = Endpoints
    BY <1>1, <2>2
  <2> QED
    BY <1>4, <2>3, ThrowingSound DEF MovingOn
<1> QED
  BY <1>3, <1>4

-----------------------------------------------------------------------------
(* Every step preserves the invariant.                                     *)

Fine(k) ==
  /\ k \in Calls
  /\ Sound(k)
  /\ k.result = "unsupported" => NoneServes

\* What callers that share the pool may rely on between two steps.
PoolInv ==
  /\ TypeOK
  /\ Honest(limit)
  /\ batchUnsupported => NoneServes
  /\ \A c \in Callers : Sound(call[c])

SharedOK ==
  /\ serves' = serves
  /\ limit' \in Limits
  /\ \A e \in Endpoints : limit'[e] # Unknown => limit'[e] >= serves[e]
  /\ failures' \in [Endpoints -> 0..Threshold]
  /\ cooling' \subseteq Endpoints

LEMMA InvFacts ==
  ASSUME PoolInv
  PROVE  /\ serves \in [Endpoints -> Nat]
         /\ limit \in Limits
         /\ Honest(limit)
         /\ \A c \in Callers : call[c] \in Calls /\ Sound(call[c])
  BY PoolAssumption DEF PoolInv, TypeOK, Limits

LEMMA GoesOnPreserves ==
  ASSUME PoolInv, SharedOK, NEW c \in Callers, NEW states, \A r \in states : Fine(r),
         GoesOn(c, states)
  PROVE  PoolInv'
<1>1. PICK k \in states : /\ call' = [call EXCEPT ![c] = k]
                          /\ batchUnsupported' = (batchUnsupported \/ k.result = "unsupported")
  BY DEF GoesOn
<1>2. k \in Calls /\ Sound(k) /\ (k.result = "unsupported" => NoneServes)
  BY DEF Fine
<1>3. call \in [Callers -> Calls] /\ batchUnsupported \in BOOLEAN
  BY DEF PoolInv, TypeOK
<1>4. call' \in [Callers -> Calls]
  BY <1>1, <1>2, <1>3
<1>5. \A d \in Callers : Sound(call'[d])
  BY <1>1, <1>2, <1>3 DEF PoolInv
<1>6. \A d \in Callers : call'[d].at # "idle" => call'[d].order # << >>
  BY <1>5 DEF Sound
<1>7. batchUnsupported' \in BOOLEAN
  BY <1>1, <1>3
<1>8. batchUnsupported' => NoneServes
  BY <1>1, <1>2, <1>3 DEF PoolInv
<1>9. NoneServes' <=> NoneServes
  BY DEF SharedOK, NoneServes
<1>10. Honest(limit)'
  BY DEF SharedOK, Honest
<1>11. TypeOK'
  BY <1>4, <1>6, <1>7 DEF PoolInv, TypeOK, SharedOK, Limits
<1> QED
  BY <1>5, <1>8, <1>9, <1>10, <1>11 DEF PoolInv

LEMMA StartedReady ==
  ASSUME NEW n \in Nat
  PROVE  Ready(Started(n)) /\ Started(n).size = n /\ Started(n).chunk = Whole
         /\ Posted(Started(n)) = n
<1>1. Started(n) = [at |-> "idle", size |-> n, chunk |-> Whole, offset |-> 0, got |-> 0,
                    order |-> << >>, attempt |-> 0, failed |-> {}, result |-> "none"]
  BY DEF Started, Idle
<1>2. << >> \in Seq(Endpoints) /\ 0 \in 0..Attempts
  BY PoolAssumption
<1>3. Started(n) \in Calls
  BY <1>1, <1>2 DEF Calls, Results
<1> QED
  BY <1>1, <1>3 DEF Ready, Posted

LEMMA RequestPreserves ==
  ASSUME PoolInv, NEW c \in Callers, Request(c)
  PROVE  PoolInv'
<1>1. SharedOK
  BY InvFacts DEF Request, SharedOK, healthVars, PoolInv, TypeOK, Honest
<1>2. Capable(0, limit) # {}
  BY InvFacts, PoolAssumption DEF Capable, Limits, Unknown
<1>3. \A r \in Asking(Started(0), cooling, limit) : Fine(r)
  BY <1>2, InvFacts, StartedReady, AskingSound DEF Fine
<1> QED
  BY <1>1, <1>3, GoesOnPreserves DEF Request

LEMMA RequestBatchPreserves ==
  ASSUME PoolInv, NEW c \in Callers, RequestBatch(c)
  PROVE  PoolInv'
<1> DEFINE Known2 == Unknown \notin {limit[e] : e \in Endpoints}
<1>1. SharedOK
  BY InvFacts DEF RequestBatch, SharedOK, healthVars, PoolInv, TypeOK, Honest
<1>2. PICK n \in Sizes :
        GoesOn(c, IF Known2 /\ Splittable(Started(n), limit)
                  THEN Splitting(Started(n), cooling, limit)
                  ELSE Asking(Started(n), cooling, limit))
  BY DEF RequestBatch
<1>3. n \in Nat /\ n > 0
  BY PoolAssumption
<1>4. /\ Ready(Started(n)) /\ Started(n).size = n /\ Started(n).chunk = Whole
      /\ Posted(Started(n)) = n
  BY <1>3, StartedReady
<1>5. CASE Known2 /\ Splittable(Started(n), limit)
  <2>1. \A r \in Splitting(Started(n), cooling, limit) : Fine(r)
    BY <1>3, <1>4, InvFacts, SplittingSound DEF Fine
  <2> QED
    BY <1>1, <1>2, <1>5, <2>1, GoesOnPreserves
<1>6. CASE ~(Known2 /\ Splittable(Started(n), limit))
  <2>1. Capable(n, limit) # {}
    <3> SUFFICES ASSUME Capable(n, limit) = {}
                 PROVE  FALSE
      OBVIOUS
    <3>1. \A e \in Endpoints : limit[e] # Unknown /\ limit[e] \in Nat /\ limit[e] < n
      BY <1>3, InvFacts DEF Capable, Limits
    <3>2. Known2
      BY <3>1
    <3>3. Known(limit) # {} /\ \A m \in Known(limit) : m < n
      BY <3>1, PoolAssumption DEF Known
    <3> QED
      BY <1>4, <1>6, <3>2, <3>3 DEF Splittable
  <2>2. \A r \in Asking(Started(n), cooling, limit) : Fine(r)
    BY <1>4, <2>1, InvFacts, AskingSound DEF Fine
  <2> QED
    BY <1>1, <1>2, <1>6, <2>2, GoesOnPreserves
<1> QED
  BY <1>5, <1>6

\* A call that has been posted, and the endpoint it was posted to.
LEMMA SentFacts ==
  ASSUME PoolInv, NEW c \in Callers, call[c].at # "idle"
  PROVE  /\ Ready(call[c])
         /\ call[c].order \in Seq(Endpoints) /\ call[c].order # << >>
         /\ Endpoint(c) \in Endpoints
         /\ call[c].size = 0 => Endpoints \subseteq call[c].failed \union Remaining(call[c].order)
<1>1. Ready(call[c]) /\ call[c].order # << >>
      /\ (call[c].size = 0 => Endpoints \subseteq call[c].failed \union Remaining(call[c].order))
  BY InvFacts DEF Sound
<1>2. call[c].order \in Seq(Endpoints)
  BY InvFacts DEF Calls
<1>3. Endpoint(c) \in Endpoints
  BY <1>1, <1>2 DEF Endpoint
<1> QED
  BY <1>1, <1>2, <1>3

LEMMA AnsweredPreserves ==
  ASSUME PoolInv, NEW c \in Callers, Answered(c)
  PROVE  PoolInv'
<1> DEFINE b == call[c]
           k == [b EXCEPT !.got = @ + Posted(b)]
           j == [k EXCEPT !.offset = NextOffset(k)]
           cool == cooling \ {Endpoint(c)}
<1>1. b.at # "idle"
  BY DEF Answered, At
<1>2. /\ Ready(b) /\ Endpoint(c) \in Endpoints
  BY <1>1, SentFacts
<1>3. /\ b \in Calls /\ b.size \in Nat /\ b.offset \in Nat /\ b.chunk \in Nat \union {Whole}
      /\ b.got = b.offset /\ b.offset <= b.size /\ (b.chunk = Whole => b.offset = 0)
      /\ (b.chunk # Whole => b.chunk > 0) /\ b.result = "none"
  BY <1>2 DEF Ready, Calls
<1>4. Posted(b) \in Nat
  BY <1>2, PostedType
<1>5. /\ k.got = b.got + Posted(b) /\ k.size = b.size /\ k.offset = b.offset
      /\ k.chunk = b.chunk /\ k.result = "none" /\ k.failed = b.failed
  BY <1>3 DEF Calls
<1>6. k \in Calls
  <2>1. b.got + Posted(b) \in Nat
    BY <1>3, <1>4
  <2> QED
    BY <1>3, <2>1 DEF Calls
<1>7. Posted(k) = Posted(b)
  BY <1>5 DEF Posted
<1>8. SharedOK
  <2>1. serves' = serves /\ limit' = limit
        /\ failures' = [failures EXCEPT ![Endpoint(c)] = 0] /\ cooling' = cool
    BY DEF Answered
  <2>2. 0 \in 0..Threshold
    BY PoolAssumption
  <2>3. failures \in [Endpoints -> 0..Threshold] /\ cooling \subseteq Endpoints
    BY DEF PoolInv, TypeOK
  <2>4. failures' \in [Endpoints -> 0..Threshold]
    BY <1>2, <2>1, <2>2, <2>3
  <2>5. cooling' \subseteq Endpoints
    BY <2>1, <2>3
  <2>6. \A e \in Endpoints : limit'[e] # Unknown => limit'[e] >= serves[e]
    BY <2>1, InvFacts DEF Honest
  <2> QED
    BY <2>1, <2>4, <2>5, <2>6, InvFacts DEF SharedOK
<1>9. PICK states :
        /\ GoesOn(c, states)
        /\ states = IF k.chunk = Whole \/ NextOffset(k) >= k.size
                    THEN {Over(k, "served")} ELSE Asking(j, cool, limit)
  BY DEF Answered
<1>10. CASE k.chunk = Whole \/ NextOffset(k) >= k.size
  <2>1. k.got = k.size
    BY <1>3, <1>5, <1>10 DEF Posted, NextOffset
  <2>2. states = {Over(k, "served")}
    BY <1>9, <1>10
  <2> HIDE DEF k
  <2>3. Fine(Over(k, "served"))
    BY <1>6, <2>1, OverSound DEF Fine, Results
  <2> QED
    BY <1>8, <1>9, <2>2, <2>3, GoesOnPreserves
<1>11. CASE ~(k.chunk = Whole \/ NextOffset(k) >= k.size)
  <2>1. NextOffset(k) = b.offset + b.chunk /\ b.chunk \in Nat
    BY <1>3, <1>5, <1>11 DEF NextOffset
  <2>2. Posted(b) = b.chunk
    BY <1>3, <1>5, <1>11, <2>1 DEF Posted
  <2>3. /\ j.got = k.got /\ j.size = k.size /\ j.offset = NextOffset(k)
        /\ j.chunk = k.chunk /\ j.result = "none"
    BY <1>5, <1>6 DEF Calls
  <2>4. j \in Calls
    <3>1. NextOffset(k) \in Nat
      BY <1>3, <2>1
    <3> HIDE DEF k
    <3> QED
      BY <1>6, <3>1 DEF Calls
  <2>5. Ready(j)
    <3> HIDE DEF j, k
    <3>1. j.got = j.offset /\ j.offset <= j.size
      BY <1>3, <1>5, <1>11, <2>1, <2>2, <2>3
    <3>2. j.chunk # Whole /\ j.chunk > 0
      BY <1>3, <1>5, <1>11, <2>3
    <3> QED
      BY <2>3, <2>4, <3>1, <3>2 DEF Ready
  <2>6. Capable(Posted(j), limit) # {}
    <3>1. j.chunk # Whole
      BY <1>11, <2>3
    <3> HIDE DEF j
    <3>2. Posted(j) \in Nat /\ Posted(j) <= b.chunk
      BY <1>5, <2>3, <2>5, <3>1, PostedType
    <3> HIDE DEF k
    <3>3. Posted(b) <= serves[Endpoint(c)]
      BY <1>7 DEF Answered, k
    <3>4. limit[Endpoint(c)] = Unknown \/ limit[Endpoint(c)] >= Posted(j)
      <4>1. serves[Endpoint(c)] \in Nat /\ limit[Endpoint(c)] \in Nat \union {Unknown}
        BY <1>2, InvFacts DEF Limits
      <4>2. limit[Endpoint(c)] # Unknown => limit[Endpoint(c)] >= serves[Endpoint(c)]
        BY <1>2, InvFacts DEF Honest
      <4> QED
        BY <2>1, <2>2, <3>2, <3>3, <4>1, <4>2 DEF Unknown
    <3> QED
      BY <1>2, <3>4 DEF Capable
  <2>7. states = Asking(j, cool, limit)
    BY <1>9, <1>11
  <2> HIDE DEF j, k, cool
  <2>8. \A r \in Asking(j, cool, limit) : Fine(r)
    BY <2>5, <2>6, InvFacts, AskingSound DEF Fine
  <2> QED
    BY <1>8, <1>9, <2>7, <2>8, GoesOnPreserves
<1> QED
  BY <1>10, <1>11

LEMMA CountFailureTyped ==
  ASSUME PoolInv, NEW e \in Endpoints, CountFailure(e)
  PROVE  failures' \in [Endpoints -> 0..Threshold] /\ cooling' \subseteq Endpoints
<1>1. failures \in [Endpoints -> 0..Threshold] /\ cooling \subseteq Endpoints
  BY DEF PoolInv, TypeOK
<1>2. (IF failures[e] < Threshold THEN failures[e] + 1 ELSE failures[e]) \in 0..Threshold
  BY <1>1, PoolAssumption
<1> QED
  BY <1>1, <1>2 DEF CountFailure

\* The endpoint at hand has failed or refused the call.
LEMMA FailingFacts ==
  ASSUME PoolInv, NEW c \in Callers, call[c].at # "idle"
  PROVE  /\ Ready(Failing(c))
         /\ Failing(c).order = call[c].order /\ Failing(c).order # << >>
         /\ Head(Failing(c).order) \in Failing(c).failed
         /\ Failing(c).size = call[c].size /\ Failing(c).attempt = call[c].attempt
         /\ Failing(c).size = 0 =>
              Endpoints \subseteq Failing(c).failed \union Remaining(Failing(c).order)
<1> DEFINE b == call[c]
           k == Failing(c)
<1>1. /\ Ready(b) /\ b.order # << >> /\ Endpoint(c) \in Endpoints
      /\ b.size = 0 => Endpoints \subseteq b.failed \union Remaining(b.order)
  BY SentFacts
<1>2. b \in Calls
  BY <1>1 DEF Ready
<1>3. /\ k.order = b.order /\ k.size = b.size /\ k.attempt = b.attempt /\ k.chunk = b.chunk
      /\ k.offset = b.offset /\ k.got = b.got /\ k.result = b.result /\ k.at = b.at
      /\ k.failed = b.failed \union {Endpoint(c)}
  BY <1>2 DEF Failing, Calls
<1>4. k \in Calls
  <2>1. b.failed \union {Endpoint(c)} \subseteq Endpoints
    BY <1>1, <1>2 DEF Calls
  <2> QED
    BY <1>2, <2>1 DEF Failing, Calls
<1> HIDE DEF k
<1>5. Ready(k)
  BY <1>1, <1>3, <1>4 DEF Ready
<1>6. Head(k.order) \in k.failed
  BY <1>3 DEF Endpoint
<1> QED
  BY <1>1, <1>3, <1>5, <1>6 DEF k

LEMMA FailsPreserves ==
  ASSUME PoolInv, NEW c \in Callers, Fails(c)
  PROVE  PoolInv'
<1> DEFINE k == [Failing(c) EXCEPT !.at = "backoff"]
<1>1. call[c].at # "idle"
  BY DEF Fails, At
<1>2. Endpoint(c) \in Endpoints
  BY <1>1, SentFacts
<1>3. SharedOK
  BY <1>2, InvFacts, CountFailureTyped DEF Fails, SharedOK, Honest
<1>4. CASE call[c].attempt < Attempts
  <2>1. Failing(c) \in Calls
    BY <1>1, FailingFacts DEF Ready
  <2>2. k \in Calls
    BY <2>1 DEF Calls
  <2>3. /\ k.at = "backoff" /\ k.order = Failing(c).order /\ k.size = Failing(c).size
        /\ k.attempt = Failing(c).attempt /\ k.chunk = Failing(c).chunk
        /\ k.offset = Failing(c).offset /\ k.got = Failing(c).got
        /\ k.result = Failing(c).result /\ k.failed = Failing(c).failed
    BY <2>1 DEF Calls
  <2> HIDE DEF k
  <2>4. Ready(k) /\ k.result = "none"
    BY <1>1, <2>2, <2>3, FailingFacts DEF Ready
  <2>5. Fine(k)
    BY <1>1, <1>4, <2>2, <2>3, <2>4, FailingFacts DEF Fine, Sound
  <2>6. GoesOn(c, {k})
    BY <1>4 DEF Fails, k
  <2> QED
    BY <1>3, <2>5, <2>6, GoesOnPreserves
<1>5. CASE ~(call[c].attempt < Attempts)
  <2>1. GoesOn(c, MovingOn(Failing(c), cooling', limit))
    BY <1>5 DEF Fails
  <2>2. \A r \in MovingOn(Failing(c), cooling', limit) : Fine(r)
    BY <1>1, InvFacts, FailingFacts, MovingOnSound DEF Fine
  <2> QED
    BY <1>3, <2>1, <2>2, GoesOnPreserves
<1> QED
  BY <1>4, <1>5

LEMMA RetryPreserves ==
  ASSUME PoolInv, NEW c \in Callers, Retry(c)
  PROVE  PoolInv'
<1> DEFINE b == call[c]
           k == [b EXCEPT !.at = "sent", !.attempt = @ + 1]
<1>1. b.at = "backoff"
  BY DEF Retry, At
<1>2. b \in Calls /\ Sound(b)
  BY InvFacts
<1>3. b.attempt + 1 \in 0..Attempts
  <2>1. b.attempt \in 0..Attempts /\ b.attempt < Attempts
    BY <1>1, <1>2 DEF Sound, Calls
  <2> QED
    BY <2>1, PoolAssumption
<1>4. k \in Calls
  BY <1>2, <1>3 DEF Calls
<1>5. /\ k.at = "sent" /\ k.order = b.order /\ k.size = b.size /\ k.chunk = b.chunk
      /\ k.offset = b.offset /\ k.got = b.got /\ k.result = b.result /\ k.failed = b.failed
  BY <1>2 DEF Calls
<1>6. call' = [call EXCEPT ![c] = k] /\ UNCHANGED <<serves, limit, healthVars, batchUnsupported>>
  BY DEF Retry
<1> HIDE DEF k
<1>7. Ready(k) /\ k.result = "none"
  BY <1>1, <1>2, <1>4, <1>5 DEF Sound, Ready
<1>8. Fine(k)
  BY <1>1, <1>2, <1>4, <1>5, <1>7 DEF Fine, Sound
<1>9. GoesOn(c, {k})
  BY <1>6, <1>7 DEF GoesOn, PoolInv, TypeOK
<1>10. SharedOK
  BY <1>6, InvFacts DEF SharedOK, healthVars, PoolInv, TypeOK, Honest
<1> QED
  BY <1>8, <1>9, <1>10, GoesOnPreserves

LEMMA RefusesPreserves ==
  ASSUME PoolInv, NEW c \in Callers, Refuses(c)
  PROVE  PoolInv'
<1> DEFINE e == Endpoint(c)
           n == Posted(call[c])
<1>1. call[c].at # "idle"
  BY DEF Refuses, At
<1>2. e \in Endpoints /\ n \in Nat
  BY <1>1, SentFacts, PostedType
<1>3. n > serves[e] /\ serves[e] \in Nat
  BY <1>2, InvFacts DEF Refuses
<1>4. Learned(e, n) \in Nat /\ Learned(e, n) >= serves[e]
  BY <1>2, <1>3 DEF Learned
<1>5. /\ limit' = [limit EXCEPT ![e] = Learned(e, n)]
      /\ GoesOn(c, MovingOn(Failing(c), cooling, limit'))
      /\ UNCHANGED <<serves, healthVars>>
  BY DEF Refuses
<1> HIDE DEF e, n
<1>6. limit' \in Limits
  BY <1>2, <1>4, <1>5, InvFacts DEF Limits
<1>7. \A f \in Endpoints : limit'[f] # Unknown => limit'[f] >= serves[f]
  BY <1>2, <1>4, <1>5, InvFacts DEF Limits, Honest
<1>8. SharedOK
  BY <1>5, <1>6, <1>7 DEF SharedOK, healthVars, PoolInv, TypeOK
<1>9. \A r \in MovingOn(Failing(c), cooling, limit') : Fine(r)
  <2>1. Honest(limit')
    BY <1>7 DEF Honest
  <2> QED
    BY <1>1, <1>6, <2>1, InvFacts, FailingFacts, MovingOnSound DEF Fine
<1> QED
  BY <1>5, <1>8, <1>9, GoesOnPreserves

LEMMA RejectsPreserves ==
  ASSUME PoolInv, NEW c \in Callers, Rejects(c)
  PROVE  PoolInv'
<1>1. call[c].at # "idle"
  BY DEF Rejects, At
<1>2. Endpoint(c) \in Endpoints
  BY <1>1, SentFacts
<1>3. failures' \in [Endpoints -> 0..Threshold] /\ cooling' \subseteq Endpoints
  BY <1>2, CountFailureTyped DEF Rejects, healthVars, PoolInv, TypeOK
<1>4. SharedOK
  BY <1>3, InvFacts DEF Rejects, SharedOK, Honest
<1>5. Fine(Over(Failing(c), "rejected"))
  BY <1>1, FailingFacts, OverSound DEF Fine, Ready, Results
<1>6. GoesOn(c, {Over(Failing(c), "rejected")})
  BY DEF Rejects
<1> QED
  BY <1>4, <1>5, <1>6, GoesOnPreserves

LEMMA CooldownEndsPreserves ==
  ASSUME PoolInv, NEW e \in Endpoints, CooldownEnds(e)
  PROVE  PoolInv'
  BY DEF PoolInv, TypeOK, CooldownEnds, Honest, NoneServes, Sound, Ready

LEMMA InitInv == Init => PoolInv
<1> SUFFICES ASSUME Init
             PROVE  PoolInv
  OBVIOUS
<1>1. Idle \in Calls /\ Idle.at = "idle" /\ Idle.result = "none"
  <2>1. << >> \in Seq(Endpoints) /\ 0 \in 0..Attempts
    BY PoolAssumption
  <2> QED
    BY <2>1 DEF Idle, Calls, Results
<1>2. \A c \in Callers : call[c] = Idle
  BY DEF Init
<1>3. \A c \in Callers : Sound(call[c])
  BY <1>1, <1>2 DEF Sound
<1>4. call \in [Callers -> Calls]
  BY <1>1 DEF Init
<1>5. failures \in [Endpoints -> 0..Threshold]
  <2>1. 0 \in 0..Threshold
    BY PoolAssumption
  <2> QED
    BY <2>1 DEF Init
<1>6. TypeOK
  BY <1>1, <1>2, <1>4, <1>5 DEF Init, TypeOK
<1> QED
  BY <1>3, <1>6 DEF PoolInv, Init, Honest

\* The invariant is inductive.
THEOREM PoolInvariant == Spec => []PoolInv
<1>1. PoolInv /\ [Next]_vars => PoolInv'
  <2> SUFFICES ASSUME PoolInv, [Next]_vars
               PROVE  PoolInv'
    OBVIOUS
  <2>1. CASE UNCHANGED vars
    BY <2>1 DEF vars, healthVars, PoolInv, TypeOK, Honest, NoneServes, Sound, Ready
  <2>2. ASSUME NEW c \in Callers, Request(c) \/ RequestBatch(c) \/ Progress(c)
        PROVE  PoolInv'
    BY <2>2, RequestPreserves, RequestBatchPreserves, AnsweredPreserves, FailsPreserves,
       RefusesPreserves, RejectsPreserves, RetryPreserves DEF Progress
  <2>3. ASSUME NEW e \in Endpoints, CooldownEnds(e)
        PROVE  PoolInv'
    BY <2>3, CooldownEndsPreserves
  <2> QED
    BY <2>1, <2>2, <2>3 DEF Next
<1> QED
  BY <1>1, InitInv, PTL DEF Spec

\* Every variable keeps its type, and a call that runs has an endpoint left to ask.
THEOREM Typed == Spec => []TypeOK
<1>1. PoolInv => TypeOK
  BY DEF PoolInv
<1> QED
  BY <1>1, PoolInvariant, PTL

\* Limits learned (parseAllowedBatchSize, recordBatchLimit) never exclude an endpoint
\* from a batch it serves, however many callers are refused at once.
THEOREM LimitsSound == Spec => []LimitsNotTooLow
<1>1. PoolInv => LimitsNotTooLow
  BY DEF PoolInv, Honest, LimitsNotTooLow
<1> QED
  BY <1>1, PoolInvariant, PTL

\* A request fails only after every endpoint was asked (selectOrder), although the order
\* in which it asks them is fixed when it begins.
THEOREM RequestsAskAll == Spec => []NoEndpointSkipped
<1>1. PoolInv => NoEndpointSkipped
  BY DEF PoolInv, Sound, NoEndpointSkipped
<1> QED
  BY <1>1, PoolInvariant, PTL

\* The chunks of a batch (requestBatchInChunks) add up to the batch.
THEOREM ChunksAddUp == Spec => []AnswerComplete
<1>1. PoolInv => AnswerComplete
  BY DEF PoolInv, Sound, AnswerComplete
<1> QED
  BY <1>1, PoolInvariant, PTL

\* BatchNotSupportedError, after which the cache of block times asks for one block at a
\* time for good, is thrown only if no endpoint serves a batch at all.
THEOREM BatchingGivenUpForCause == Spec => []StopsBatchingOnlyIfNoneServes
<1>1. PoolInv => StopsBatchingOnlyIfNoneServes
  BY DEF PoolInv, NoneServes, StopsBatchingOnlyIfNoneServes
<1> QED
  BY <1>1, PoolInvariant, PTL

-----------------------------------------------------------------------------
(* LogWindow: the sizer of the windows a log source asks the pool for, for *)
(* every configuration of it and every range an endpoint may allow.        *)

LEMMA ClampRange ==
  ASSUME WindowAssumption, NEW value \in Int
  PROVE  Clamp(value) \in MinSpan..MaxSpan
BY DEF WindowAssumption, Clamp

LEMMA OnRejectedType ==
  ASSUME WindowAssumption, WindowTypeOK, OnRejected
  PROVE  /\ span' \in MinSpan..MaxSpan /\ lastGood' = lastGood
         /\ ceiling' \in 0..MaxSpan /\ successes' = 0
<1>1. ceiling' \in 0..MaxSpan
  BY DEF WindowAssumption, WindowTypeOK, OnRejected, NoCeiling
<1>2. (lastGood + ceiling') \div 2 \in Int
  BY <1>1 DEF WindowAssumption, WindowTypeOK
<1> QED
  BY <1>1, <1>2, ClampRange DEF OnRejected, Midpoint

LEMMA OnSuccessType ==
  ASSUME WindowAssumption, WindowTypeOK, OnSuccess
  PROVE  /\ span' \in MinSpan..MaxSpan /\ lastGood' \in 0..MaxSpan
         /\ ceiling' \in 0..MaxSpan /\ successes' \in 0..ReprobeInterval
         /\ lastGood' = IF span > lastGood THEN span ELSE lastGood
<1> USE DEF WindowAssumption, WindowTypeOK, NoCeiling
<1>1. lastGood' = IF span > lastGood THEN span ELSE lastGood
  BY DEF OnSuccess
<1>2. lastGood' \in 0..MaxSpan
  BY <1>1
<1>3. CASE Grow /\ successes' \in {0, successes}
  <2>1. span + span \div 4 + 1 \in Int
    OBVIOUS
  <2> QED
    BY <1>1, <1>2, <1>3, <2>1, ClampRange DEF Grow
<1>4. CASE UNCHANGED ceiling /\ Bracket
  <2>1. (lastGood' + ceiling') \div 2 \in Int
    BY <1>2, <1>4
  <2> QED
    BY <1>1, <1>2, <1>4, <2>1, ClampRange DEF Bracket, Midpoint
<1>5. CASE UNCHANGED ceiling /\ Settle
  <2>1. Clamp(lastGood') \in MinSpan..MaxSpan /\ Clamp(ceiling') \in MinSpan..MaxSpan
    BY <1>2, <1>5, ClampRange
  <2> QED
    BY <1>1, <1>2, <1>5, <2>1 DEF Settle
<1> QED
  BY <1>3, <1>4, <1>5 DEF OnSuccess

LEMMA WindowInitType ==
  ASSUME WindowAssumption, WindowInit
  PROVE  WindowTypeOK
BY DEF WindowAssumption, WindowInit, WindowTypeOK, NoCeiling

LEMMA WindowNextType ==
  ASSUME WindowAssumption, WindowTypeOK, [WindowNext]_sizerVars
  PROVE  WindowTypeOK'
<1> USE DEF WindowAssumption, WindowTypeOK
<1>1. CASE UNCHANGED sizerVars
  BY <1>1 DEF sizerVars, windowVars
<1>2. CASE Served
  <2>1. backlog' \in MinBacklog..MaxBacklog
    BY <1>2 DEF Served, Width
  <2> QED
    BY <1>2, <2>1, OnSuccessType DEF Served
<1>3. CASE Rejected
  BY <1>3, OnRejectedType DEF Rejected
<1>4. CASE TimesOut
  BY <1>4, OnRejectedType DEF TimesOut
<1>5. CASE BoundaryMoves
  BY <1>5 DEF BoundaryMoves, windowVars
<1> QED
  BY <1>1, <1>2, <1>3, <1>4, <1>5 DEF WindowNext

\* The window stays within the bounds it was constructed with (clamp, log-range.ts),
\* and the two facts it remembers stay within them too.
THEOREM WindowTypes ==
  ASSUME WindowAssumption
  PROVE  WindowSpec => []WindowTypeOK
<1>1. WindowInit => WindowTypeOK
  BY WindowInitType
<1>2. WindowTypeOK /\ [WindowNext]_sizerVars => WindowTypeOK'
  BY WindowNextType
<1> QED
  BY <1>1, <1>2, PTL DEF WindowSpec

-----------------------------------------------------------------------------

\* In backfill the backlog is longer than any window, so every request is as wide as
\* the window and a success says what onSuccess takes it to say.
BackfillInv == WindowTypeOK /\ BracketSound

LEMMA BackfillStep ==
  ASSUME WindowAssumption, MaxSpan <= MinBacklog, BackfillInv, [WindowNext]_sizerVars
  PROVE  BackfillInv'
<1> USE DEF WindowAssumption, BackfillInv, BracketSound
<1>1. WindowTypeOK'
  BY WindowNextType
<1>2. CASE UNCHANGED sizerVars
  BY <1>1, <1>2 DEF sizerVars, windowVars
<1>3. CASE Served
  <2>1. Width = span
    BY DEF Width, WindowTypeOK
  <2>2. lastGood' = IF span > lastGood THEN span ELSE lastGood
    BY <1>3, OnSuccessType DEF Served
  <2>3. span <= allows /\ allows' = allows
    BY <1>3, <2>1 DEF Served
  <2> QED
    BY <1>1, <2>2, <2>3
<1>4. CASE Rejected \/ TimesOut
  BY <1>1, <1>4 DEF Rejected, TimesOut, OnRejected
<1>5. CASE BoundaryMoves
  BY <1>1, <1>5 DEF BoundaryMoves, windowVars
<1> QED
  BY <1>2, <1>3, <1>4, <1>5 DEF WindowNext

\* In backfill, whatever the endpoint's limit and however many requests time out, the
\* window never believes in a span that the endpoint would refuse (onSuccess,
\* log-range.ts).
THEOREM BackfillBracketSound ==
  ASSUME WindowAssumption, MaxSpan <= MinBacklog
  PROVE  WindowSpec => []BracketSound
<1>1. WindowInit => BackfillInv
  BY WindowInitType DEF WindowAssumption, WindowInit, BackfillInv, BracketSound, WindowTypeOK
<1>2. BackfillInv /\ [WindowNext]_sizerVars => BackfillInv'
  BY BackfillStep
<1>3. BackfillInv => BracketSound
  BY DEF BackfillInv
<1> QED
  BY <1>1, <1>2, <1>3, PTL DEF WindowSpec
=============================================================================
