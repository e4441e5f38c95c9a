----------------------------- MODULE Gateway_proofs -----------------------------
(***************************************************************************)
(* Proofs about the gateway: GatewayKeys, RequestCleaner, ChatCompletions  *)
(* and MCGateway, which puts them together.                                *)
(*                                                                         *)
(* Keys, for any keys, requests, time to live and bound of the clock: what *)
(* a cache hit says depends on what its entry stands for, and that on what *)
(* the answer stood for that wrote it, so the invariant follows the fact   *)
(* "this key was valid at that time or later" from the table through the   *)
(* request into the cache and out again.                                   *)
(*                                                                         *)
(* Conversations, for any messages, limits and clients: what clean_messages*)
(* and split_for_condensation compute is shown by induction on the length  *)
(* of the conversation.  The induction is that a set of naturals has a     *)
(* least element, and a fold is unrolled into the sequence of its values.  *)
(***************************************************************************)
EXTENDS MCGateway, FiniteSetTheorems, SequenceTheorems, TLAPS

AskedSet == [at : {"asked", "read"}, key : Keys, now : Nat, row : BOOLEAN]

DecidedSet ==
  [at : {"decided"}, now : Nat, ok : BOOLEAN,
   why : {"master", "hit", "nopool", "answer", "error"},
   heard : {"nothing", "yes", "no"}, lastValid : Nat, lastInvalid : Nat]

RequestSet == {Idle} \cup AskedSet \cup DecidedSet

\* The history variables say what is so now, and never the future.
HistoryOK ==
  \A k \in Keys :
    /\ lastValid[k] <= clock /\ lastInvalid[k] <= clock
    /\ valid[k] => lastValid[k] = clock
    /\ ~valid[k] => lastInvalid[k] = clock

\* An entry of a cache stands for a key that was valid (or not) since its stamp.
CacheOK ==
  \A k \in Keys :
    /\ cache[k] # None => cache[k] <= lastValid[k]
    /\ negative[k] # None => negative[k] <= lastInvalid[k]

\* Each cache has an entry for the keys whose last answer to arrive was its own.
CachesFollow ==
  \A k \in Keys :
    /\ cache[k] # None <=> answered[k] = "yes"
    /\ negative[k] # None <=> answered[k] = "no"

\* What OutageFollowsLastAnswer says of one request.
HeardLast(q) ==
  q.at = "decided" /\ q.why \in {"error", "hit"} => (q.ok <=> q.heard = "yes")

\* A request q is not from the future; the row it has read was so since it began.
SoundQuery(q) ==
  /\ q.at \in {"asked", "read"} => q.now <= clock
  /\ q.at = "read" /\ q.row => q.now <= lastValid[q.key]
  /\ q.at = "read" /\ ~q.row => q.now <= lastInvalid[q.key]

\* What AcceptedWasValid and RejectedWasInvalid say of one request.
SoundVerdict(q) ==
  q.at = "decided" =>
    /\ q.ok /\ q.why = "hit" => q.lastValid + TTL > q.now
    /\ q.ok /\ q.why = "answer" => q.lastValid >= q.now
    /\ ~q.ok /\ q.why = "hit" => q.lastInvalid + TTL > q.now
    /\ ~q.ok /\ q.why = "answer" => q.lastInvalid >= q.now

RequestsOK == \A r \in Requests : SoundQuery(request[r]) /\ SoundVerdict(request[r])

IInv == KeysTypeOK /\ HistoryOK /\ CacheOK /\ RequestsOK

------------------------------------------------------------------------------
(* Requests one at a time.                                                 *)

\* What a request is follows from where it is.
LEMMA RequestKinds ==
  ASSUME NEW q \in RequestSet
  PROVE  /\ q.at \in {"asked", "read"} => q \in AskedSet
         /\ q \notin AskedSet => q.at \in {"idle", "decided"}
<1>1. Idle.at = "idle"
  BY DEF Idle
<1>2. \A d \in DecidedSet : d.at = "decided"
  BY DEF DecidedSet
<1>3. QED
  BY <1>1, <1>2 DEF RequestSet

\* The type invariant, with the set of requests by its name.
LEMMA TypeParts ==
  KeysTypeOK <=>
    /\ clock \in Nat \ {0}
    /\ valid \in [Keys -> BOOLEAN]
    /\ lastValid \in [Keys -> Nat] /\ lastInvalid \in [Keys -> Nat]
    /\ master \in Keys \cup {None}
    /\ pool \in BOOLEAN
    /\ cache \in [Keys -> Times] /\ negative \in [Keys -> Times]
    /\ answered \in [Keys -> {"nothing", "yes", "no"}]
    /\ request \in [Requests -> RequestSet]
BY Zenon DEF KeysTypeOK, RequestSet, AskedSet, DecidedSet

\* A step that replaces one request by q leaves the invariant's requests sound
\* when q is, and time and history have not moved.
LEMMA OneRequest ==
  ASSUME IInv, NEW r \in Requests, NEW q \in RequestSet,
         request' = [request EXCEPT ![r] = q],
         UNCHANGED world,
         SoundQuery(q), SoundVerdict(q)
  PROVE  request' \in [Requests -> RequestSet] /\ RequestsOK'
<1>1. request \in [Requests -> RequestSet]
  BY DEF IInv, KeysTypeOK, RequestSet, AskedSet, DecidedSet
<1>2. request' \in [Requests -> RequestSet]
  BY <1>1
<1>3. ASSUME NEW s \in Requests
      PROVE  SoundQuery(request[s])' /\ SoundVerdict(request[s])'
  <2>1. request'[s] = q \/ request'[s] = request[s]
    BY <1>1
  <2>2. SoundQuery(request[s]) /\ SoundVerdict(request[s])
    BY DEF IInv, RequestsOK
  <2>3. CASE request'[s] = q
    BY <2>3 DEF world, SoundQuery, SoundVerdict
  <2>4. CASE request'[s] = request[s]
    BY <2>2, <2>4 DEF world, SoundQuery, SoundVerdict
  <2>5. QED
    BY <2>1, <2>3, <2>4
<1>4. QED
  BY <1>2, <1>3 DEF RequestsOK

\* Requests stay as they are: what they remember stays true while time and
\* history only move forward.
LEMMA SameRequests ==
  ASSUME IInv, UNCHANGED request, clock' \in Nat, clock' >= clock,
         lastValid' \in [Keys -> Nat], lastInvalid' \in [Keys -> Nat],
         \A k \in Keys : lastValid'[k] >= lastValid[k] /\ lastInvalid'[k] >= lastInvalid[k]
  PROVE  RequestsOK' /\ (UNCHANGED <<cache, negative>> => CacheOK')
<1>1. ASSUME NEW s \in Requests
      PROVE  SoundQuery(request[s])' /\ SoundVerdict(request[s])'
  <2>1. SoundQuery(request[s]) /\ SoundVerdict(request[s])
    BY DEF IInv, RequestsOK
  <2>2. request[s] \in RequestSet
    BY DEF IInv, KeysTypeOK, RequestSet, AskedSet, DecidedSet
  <2>3. SoundVerdict(request[s])'
    BY <2>1 DEF SoundVerdict
  <2>4. CASE request[s] \in AskedSet
    <3>1. request[s].key \in Keys /\ request[s].now \in Nat
      BY <2>4 DEF AskedSet
    <3>2. lastValid[request[s].key] \in Nat /\ lastInvalid[request[s].key] \in Nat /\ clock \in Nat
      BY <3>1 DEF IInv, KeysTypeOK
    <3>3. lastValid'[request[s].key] \in Nat /\ lastInvalid'[request[s].key] \in Nat
      BY <3>1
    <3>4. QED
      BY <2>1, <2>3, <3>1, <3>2, <3>3 DEF SoundQuery
  <2>5. CASE request[s] \notin AskedSet
    <3>1. request'[s].at \in {"idle", "decided"}
      BY <2>2, <2>5, RequestKinds
    <3>2. QED
      BY <2>3, <3>1 DEF SoundQuery
  <2>6. QED
    BY <2>4, <2>5
<1>2. ASSUME UNCHANGED <<cache, negative>>, NEW k \in Keys
      PROVE  /\ cache'[k] # None => cache'[k] <= lastValid'[k]
             /\ negative'[k] # None => negative'[k] <= lastInvalid'[k]
  <2>1. /\ cache[k] \in Nat \cup {None} /\ negative[k] \in Nat \cup {None}
        /\ lastValid[k] \in Nat /\ lastInvalid[k] \in Nat
        /\ lastValid'[k] \in Nat /\ lastInvalid'[k] \in Nat
    BY DEF IInv, KeysTypeOK, Times
  <2>2. QED
    BY <1>2, <2>1 DEF IInv, CacheOK
<1>3. QED
  BY <1>1, <1>2 DEF RequestsOK, CacheOK

------------------------------------------------------------------------------
(* The steps that do not concern a request.                                *)

LEMMA TickKeeps ==
  ASSUME IInv, Tick
  PROVE  IInv'
<1>1. /\ clock \in Nat \ {0} /\ clock' = clock + 1
      /\ valid \in [Keys -> BOOLEAN] /\ lastValid \in [Keys -> Nat] /\ lastInvalid \in [Keys -> Nat]
  BY DEF IInv, KeysTypeOK, Tick
<1>2. /\ lastValid' \in [Keys -> Nat] /\ lastInvalid' \in [Keys -> Nat]
      /\ \A k \in Keys :
           /\ lastValid'[k] = IF valid[k] THEN clock + 1 ELSE lastValid[k]
           /\ lastInvalid'[k] = IF valid[k] THEN lastInvalid[k] ELSE clock + 1
  BY <1>1 DEF Tick
<1>3. \A k \in Keys : lastValid[k] <= clock /\ lastInvalid[k] <= clock
  BY DEF IInv, HistoryOK
<1>4. \A k \in Keys : lastValid'[k] >= lastValid[k] /\ lastInvalid'[k] >= lastInvalid[k]
  BY <1>1, <1>2, <1>3
<1>5. HistoryOK'
  BY <1>1, <1>2, <1>3 DEF HistoryOK, Tick
<1>6. CacheOK' /\ RequestsOK'
  BY <1>1, <1>2, <1>4, SameRequests DEF Tick
<1>7. KeysTypeOK'
  <2>1. UNCHANGED <<valid, master, pool, cache, negative, answered, request>>
    BY DEF Tick
  <2>2. KeysTypeOK
    BY DEF IInv
  <2>3. clock' \in Nat \ {0}
    BY <1>1
  <2>4. QED
    BY <1>2, <2>1, <2>2, <2>3 DEF KeysTypeOK
<1>8. QED
  BY <1>5, <1>6, <1>7 DEF IInv

LEMMA ChangeKeeps ==
  ASSUME IInv, NEW k \in Keys, Change(k)
  PROVE  IInv'
<1>1. /\ clock \in Nat \ {0} /\ clock' = clock
      /\ valid \in [Keys -> BOOLEAN] /\ lastValid \in [Keys -> Nat] /\ lastInvalid \in [Keys -> Nat]
  BY DEF IInv, KeysTypeOK, Change
<1>2. /\ lastValid' \in [Keys -> Nat] /\ lastInvalid' \in [Keys -> Nat] /\ valid' \in [Keys -> BOOLEAN]
      /\ \A j \in Keys :
           /\ lastValid'[j] = IF j = k THEN clock ELSE lastValid[j]
           /\ lastInvalid'[j] = IF j = k THEN clock ELSE lastInvalid[j]
           /\ j # k => valid'[j] = valid[j]
  BY <1>1 DEF Change
<1>3. \A j \in Keys : /\ lastValid[j] <= clock /\ lastInvalid[j] <= clock
                      /\ valid[j] => lastValid[j] = clock
                      /\ ~valid[j] => lastInvalid[j] = clock
  BY DEF IInv, HistoryOK
<1>4. \A j \in Keys : lastValid'[j] >= lastValid[j] /\ lastInvalid'[j] >= lastInvalid[j]
  BY <1>1, <1>2, <1>3
<1>5. HistoryOK'
  BY <1>1, <1>2, <1>3 DEF HistoryOK
<1>6. CacheOK' /\ RequestsOK'
  BY <1>1, <1>2, <1>4, SameRequests DEF Change
<1>7. KeysTypeOK'
  BY <1>1, <1>2 DEF IInv, KeysTypeOK, Change
<1>8. QED
  BY <1>5, <1>6, <1>7 DEF IInv

\* Opening and closing the pool, and steps that change nothing.
LEMMA PoolKeeps ==
  ASSUME IInv, InitPool \/ ClosePool \/ UNCHANGED vars
  PROVE  IInv'
<1>1. UNCHANGED <<clock, valid, lastValid, lastInvalid, master, cache, negative, answered, request>>
  BY DEF InitPool, ClosePool, vars, world
<1>2. pool' \in BOOLEAN
  BY DEF InitPool, ClosePool, vars, IInv, KeysTypeOK
<1>3. KeysTypeOK'
  BY <1>1, <1>2 DEF IInv, KeysTypeOK
<1>4. HistoryOK' /\ CacheOK'
  BY <1>1 DEF IInv, HistoryOK, CacheOK
<1>5. RequestsOK'
  BY <1>1 DEF IInv, RequestsOK, SoundQuery, SoundVerdict
<1>6. QED
  BY <1>3, <1>4, <1>5 DEF IInv

------------------------------------------------------------------------------
(* The steps of a request.                                                 *)

\* A step that touches a request only, and leaves it sound, keeps the invariant.
LEMMA RequestOnly ==
  ASSUME IInv, NEW r \in Requests, NEW q \in RequestSet,
         request' = [request EXCEPT ![r] = q],
         UNCHANGED <<world, pool, cache, negative, answered>>,
         SoundQuery(q), SoundVerdict(q)
  PROVE  IInv'
<1>1. UNCHANGED world
  OBVIOUS
<1>2. request' \in [Requests -> RequestSet] /\ RequestsOK'
  BY <1>1, OneRequest
<1>3. KeysTypeOK'
  BY <1>2 DEF IInv, KeysTypeOK, world, RequestSet, AskedSet, DecidedSet
<1>4. HistoryOK' /\ CacheOK'
  BY DEF IInv, HistoryOK, CacheOK, world
<1>5. QED
  BY <1>2, <1>3, <1>4 DEF IInv

\* The types of what a request meets.
LEMMA KeyFacts ==
  ASSUME IInv, NEW k \in Keys
  PROVE  /\ clock \in Nat /\ lastValid[k] \in Nat /\ lastInvalid[k] \in Nat /\ valid[k] \in BOOLEAN
         /\ cache[k] \in Nat \cup {None} /\ negative[k] \in Nat \cup {None}
         /\ lastValid[k] <= clock /\ lastInvalid[k] <= clock
         /\ valid[k] => lastValid[k] = clock
         /\ ~valid[k] => lastInvalid[k] = clock
         /\ cache[k] # None => cache[k] <= lastValid[k]
         /\ negative[k] # None => negative[k] <= lastInvalid[k]
BY DEF IInv, KeysTypeOK, HistoryOK, CacheOK, Times

\* A decision is a request, and it has a sound verdict when its facts are right.
LEMMA DecidedIsRequest ==
  ASSUME IInv, NEW k \in Keys, NEW now \in Nat, NEW ok \in BOOLEAN,
         NEW why \in {"master", "hit", "nopool", "answer", "error"},
         ok /\ why = "hit" => lastValid[k] + TTL > now,
         ok /\ why = "answer" => lastValid[k] >= now,
         ~ok /\ why = "hit" => lastInvalid[k] + TTL > now,
         ~ok /\ why = "answer" => lastInvalid[k] >= now
  PROVE  /\ Decided(k, now, ok, why) \in RequestSet
         /\ SoundQuery(Decided(k, now, ok, why))
         /\ SoundVerdict(Decided(k, now, ok, why))
<1>1. lastValid[k] \in Nat /\ lastInvalid[k] \in Nat /\ answered[k] \in {"nothing", "yes", "no"}
  BY KeyFacts DEF IInv, KeysTypeOK
<1>2. Decided(k, now, ok, why) \in DecidedSet
  BY <1>1 DEF Decided, DecidedSet
<1>3. SoundQuery(Decided(k, now, ok, why))
  BY DEF Decided, SoundQuery
<1>4. SoundVerdict(Decided(k, now, ok, why))
  BY DEF Decided, SoundVerdict
<1>5. QED
  BY <1>2, <1>3, <1>4 DEF RequestSet

\* A fresh entry of the cache was written for a key valid less than TTL ago.
LEMMA FreshIsRecent ==
  ASSUME IInv, NEW k \in Keys
  PROVE  /\ Fresh(cache[k]) => lastValid[k] + TTL > clock
         /\ Fresh(negative[k]) => lastInvalid[k] + TTL > clock
<1>1. TTL \in Nat
  BY TTLIsPositive
<1>2. QED
  BY <1>1, KeyFacts DEF Fresh

LEMMA AskKeeps ==
  ASSUME IInv, NEW r \in Requests, NEW k \in Keys, Ask(r, k)
  PROVE  IInv'
<1>1. UNCHANGED <<world, pool, cache, negative, answered>>
  BY DEF Ask
<1>2. clock \in Nat /\ clock <= clock
  BY KeyFacts
<1>3. CASE k = master
  <2>1. request' = [request EXCEPT ![r] = Decided(k, clock, TRUE, "master")]
    BY <1>3 DEF Ask
  <2>2. /\ Decided(k, clock, TRUE, "master") \in RequestSet
        /\ SoundQuery(Decided(k, clock, TRUE, "master"))
        /\ SoundVerdict(Decided(k, clock, TRUE, "master"))
    BY <1>2, DecidedIsRequest
  <2>3. QED
    BY <1>1, <2>1, <2>2, RequestOnly
<1>4. CASE k # master /\ Fresh(cache[k])
  <2>1. request' = [request EXCEPT ![r] = Decided(k, clock, TRUE, "hit")]
    BY <1>4 DEF Ask
  <2>2. lastValid[k] + TTL > clock
    BY <1>4, FreshIsRecent
  <2>3. /\ Decided(k, clock, TRUE, "hit") \in RequestSet
        /\ SoundQuery(Decided(k, clock, TRUE, "hit"))
        /\ SoundVerdict(Decided(k, clock, TRUE, "hit"))
    BY <1>2, <2>2, DecidedIsRequest
  <2>4. QED
    BY <1>1, <2>1, <2>3, RequestOnly
<1>5. CASE k # master /\ ~Fresh(cache[k]) /\ Fresh(negative[k])
  <2>1. request' = [request EXCEPT ![r] = Decided(k, clock, FALSE, "hit")]
    BY <1>5 DEF Ask
  <2>2. lastInvalid[k] + TTL > clock
    BY <1>5, FreshIsRecent
  <2>3. /\ Decided(k, clock, FALSE, "hit") \in RequestSet
        /\ SoundQuery(Decided(k, clock, FALSE, "hit"))
        /\ SoundVerdict(Decided(k, clock, FALSE, "hit"))
    BY <1>2, <2>2, DecidedIsRequest
  <2>4. QED
    BY <1>1, <2>1, <2>3, RequestOnly
<1>6. CASE k # master /\ ~Fresh(cache[k]) /\ ~Fresh(negative[k]) /\ ~pool
  <2>1. request' = [request EXCEPT ![r] = Decided(k, clock, FALSE, "nopool")]
    BY <1>6 DEF Ask
  <2>2. /\ Decided(k, clock, FALSE, "nopool") \in RequestSet
        /\ SoundQuery(Decided(k, clock, FALSE, "nopool"))
        /\ SoundVerdict(Decided(k, clock, FALSE, "nopool"))
    BY <1>2, DecidedIsRequest
  <2>3. QED
    BY <1>1, <2>1, <2>2, RequestOnly
<1>7. CASE k # master /\ ~Fresh(cache[k]) /\ ~Fresh(negative[k]) /\ pool
  <2>1. request' = [request EXCEPT ![r] = Querying("asked", k, clock, FALSE)]
    BY <1>7 DEF Ask
  <2>2. Querying("asked", k, clock, FALSE) \in RequestSet
    BY <1>2 DEF Querying, RequestSet, AskedSet
  <2>3. /\ SoundQuery(Querying("asked", k, clock, FALSE))
        /\ SoundVerdict(Querying("asked", k, clock, FALSE))
    BY <1>2 DEF Querying, SoundQuery, SoundVerdict
  <2>4. QED
    BY <1>1, <2>1, <2>2, <2>3, RequestOnly
<1>8. QED
  BY <1>3, <1>4, <1>5, <1>6, <1>7

\* The types of a request in its query.
LEMMA QueryFacts ==
  ASSUME IInv, NEW r \in Requests, request[r].at \in {"asked", "read"}
  PROVE  /\ request[r].key \in Keys /\ request[r].now \in Nat /\ request[r].row \in BOOLEAN
         /\ request[r].now <= clock
         /\ request[r].at = "read" =>
              IF request[r].row THEN request[r].now <= lastValid[request[r].key]
              ELSE request[r].now <= lastInvalid[request[r].key]
<1>1. request[r] \in RequestSet
  BY DEF IInv, KeysTypeOK, RequestSet, AskedSet, DecidedSet
<1>2. request[r] \in AskedSet
  BY <1>1, RequestKinds
<1>3. SoundQuery(request[r])
  BY DEF IInv, RequestsOK
<1>4. QED
  BY <1>2, <1>3 DEF AskedSet, SoundQuery

LEMMA ReadKeeps ==
  ASSUME IInv, NEW r \in Requests, Read(r)
  PROVE  IInv'
<1> DEFINE k == request[r].key
           now == request[r].now
           q == Querying("read", k, now, valid[k])
<1>1. k \in Keys /\ now \in Nat /\ now <= clock
  BY QueryFacts DEF Read
<1>2. /\ clock \in Nat /\ valid[k] \in BOOLEAN
      /\ valid[k] => lastValid[k] = clock
      /\ ~valid[k] => lastInvalid[k] = clock
  BY <1>1, KeyFacts
<1>3. q \in RequestSet
  BY <1>1, <1>2 DEF Querying, RequestSet, AskedSet
<1>4. SoundQuery(q) /\ SoundVerdict(q)
  BY <1>1, <1>2 DEF Querying, SoundQuery, SoundVerdict
<1>5. request' = [request EXCEPT ![r] = q] /\ UNCHANGED <<world, pool, cache, negative, answered>>
  BY DEF Read
<1>6. QED
  BY <1>3, <1>4, <1>5, RequestOnly

LEMMA QueryFailsKeeps ==
  ASSUME IInv, NEW r \in Requests, QueryFails(r)
  PROVE  IInv'
<1> DEFINE k == request[r].key
           now == request[r].now
           q == Decided(k, now, cache[k] # None, "error")
<1>1. k \in Keys /\ now \in Nat
  BY QueryFacts DEF QueryFails
<1>2. q \in RequestSet /\ SoundQuery(q) /\ SoundVerdict(q)
  <2>1. (cache[k] # None) \in BOOLEAN
    OBVIOUS
  <2>2. QED
    BY <1>1, <2>1, DecidedIsRequest
<1>3. request' = [request EXCEPT ![r] = q] /\ UNCHANGED <<world, pool, cache, negative, answered>>
  BY DEF QueryFails
<1>4. QED
  BY <1>2, <1>3, RequestOnly

\* The answer's entry is stamped with the time its request began, and the row
\* was so at that time or later.
LEMMA AnswerKeeps ==
  ASSUME IInv, NEW r \in Requests, Answer(r)
  PROVE  IInv'
<1> DEFINE k == request[r].key
           now == request[r].now
           row == request[r].row
           q == Decided(k, now, row, "answer")
<1>1. k \in Keys /\ now \in Nat /\ row \in BOOLEAN
  BY QueryFacts DEF Answer
<1>2. IF row THEN now <= lastValid[k] ELSE now <= lastInvalid[k]
  BY QueryFacts DEF Answer
<1>3. lastValid[k] \in Nat /\ lastInvalid[k] \in Nat
  BY <1>1, KeyFacts
<1>4. q \in RequestSet /\ SoundQuery(q) /\ SoundVerdict(q)
  BY <1>1, <1>2, <1>3, DecidedIsRequest
<1>5. request' = [request EXCEPT ![r] = q] /\ UNCHANGED world /\ UNCHANGED pool
  BY DEF Answer
<1>6. request' \in [Requests -> RequestSet] /\ RequestsOK'
  BY <1>4, <1>5, OneRequest
<1>7. cache \in [Keys -> Times] /\ negative \in [Keys -> Times] /\ now \in Times /\ None \in Times
  BY <1>1 DEF IInv, KeysTypeOK, Times
<1>8. /\ cache' = [cache EXCEPT ![k] = IF row THEN now ELSE None]
      /\ negative' = [negative EXCEPT ![k] = IF row THEN None ELSE now]
  BY <1>1 DEF Answer, Stored
<1>9. cache' \in [Keys -> Times] /\ negative' \in [Keys -> Times]
  BY <1>7, <1>8
<1>10. CacheOK'
  <2>1. ASSUME NEW j \in Keys
        PROVE  /\ cache'[j] # None => cache'[j] <= lastValid[j]
               /\ negative'[j] # None => negative'[j] <= lastInvalid[j]
    <3>1. CASE j = k
      BY <1>2, <1>7, <1>8, <3>1
    <3>2. CASE j # k
      BY <1>7, <1>8, <3>2, KeyFacts
    <3>3. QED
      BY <3>1, <3>2
  <2>2. QED
    BY <1>5, <2>1 DEF CacheOK, world
<1>11. KeysTypeOK'
  <2>1. answered' \in [Keys -> {"nothing", "yes", "no"}]
    BY <1>1 DEF IInv, KeysTypeOK, Answer
  <2>2. QED
    BY <1>5, <1>6, <1>9, <2>1 DEF IInv, KeysTypeOK, world, RequestSet, AskedSet, DecidedSet
<1>12. HistoryOK'
  BY <1>5 DEF IInv, HistoryOK, world
<1>13. QED
  BY <1>6, <1>10, <1>11, <1>12 DEF IInv

------------------------------------------------------------------------------
LEMMA InitHolds == Init => IInv
<1> SUFFICES ASSUME Init PROVE IInv
  OBVIOUS
<1>1. request \in [Requests -> {Idle}]
  BY DEF Init
<1>2. KeysTypeOK
  <2>1. request \in [Requests -> RequestSet]
    BY <1>1 DEF RequestSet
  <2>2. /\ clock \in Nat \ {0}
        /\ cache \in [Keys -> Times] /\ negative \in [Keys -> Times]
        /\ answered \in [Keys -> {"nothing", "yes", "no"}]
        /\ lastValid \in [Keys -> Nat] /\ lastInvalid \in [Keys -> Nat]
    BY DEF Init, Times
  <2>3. QED
    BY <2>1, <2>2, TypeParts DEF Init
<1>3. HistoryOK /\ CacheOK
  BY DEF Init, HistoryOK, CacheOK
<1>4. RequestsOK
  BY <1>1 DEF RequestsOK, SoundQuery, SoundVerdict, Idle
<1>5. QED
  BY <1>2, <1>3, <1>4 DEF IInv

LEMMA StepKeeps == IInv /\ [Next]_vars => IInv'
<1> SUFFICES ASSUME IInv, [Next]_vars PROVE IInv'
  OBVIOUS
<1>1. CASE Tick
  BY <1>1, TickKeeps
<1>2. CASE InitPool \/ ClosePool \/ UNCHANGED vars
  BY <1>2, PoolKeeps
<1>3. CASE \E k \in Keys : Change(k)
  BY <1>3, ChangeKeeps
<1>4. ASSUME NEW r \in Requests, \E k \in Keys : Ask(r, k) PROVE IInv'
  BY <1>4, AskKeeps
<1>5. ASSUME NEW r \in Requests, Read(r) \/ Answer(r) \/ QueryFails(r) PROVE IInv'
  BY <1>5, ReadKeeps, AnswerKeeps, QueryFailsKeeps
<1>6. QED
  BY <1>1, <1>2, <1>3, <1>4, <1>5 DEF Next

\* The inductive invariant holds in every reachable state.
THEOREM Invariance == Spec => []IInv
BY InitHolds, StepKeeps, PTL DEF Spec

\* Every variable of the key verification has its type (verify_key and the
\* lifespan), for any keys and requests.
THEOREM KeysTypeCorrect == Spec => []KeysTypeOK
<1>1. IInv => KeysTypeOK
  BY DEF IInv
<1>2. QED
  BY <1>1, Invariance, PTL

\* A key verify_key lets in was valid less than TTL before the request, or while
\* it was verified, in whatever order the answers arrive.
THEOREM AcceptedKeysWereValid == Spec => []AcceptedWasValid
<1>1. IInv => AcceptedWasValid
  BY DEF IInv, RequestsOK, SoundVerdict, AcceptedWasValid, Verdict
<1>2. QED
  BY <1>1, Invariance, PTL

\* A key verify_key turns away was invalid that recently.
THEOREM RejectedKeysWereInvalid == Spec => []RejectedWasInvalid
<1>1. IInv => RejectedWasInvalid
  BY DEF IInv, RequestsOK, SoundVerdict, RejectedWasInvalid, Verdict
<1>2. QED
  BY <1>1, Invariance, PTL

\* Every verdict of verify_key is recent, in either direction.
THEOREM VerdictsAreRecent == Spec => []VerdictIsRecent
<1>1. AcceptedWasValid /\ RejectedWasInvalid => VerdictIsRecent
  BY DEF VerdictIsRecent
<1>2. QED
  BY <1>1, AcceptedKeysWereValid, RejectedKeysWereInvalid, PTL

\* Answers write both caches, and nothing else does.
LEMMA CachesKeepFollowing ==
  ASSUME IInv, CachesFollow, [Next]_vars
  PROVE  CachesFollow'
<1>1. CASE UNCHANGED <<cache, negative, answered>>
  BY <1>1 DEF CachesFollow
<1>2. ASSUME NEW r \in Requests, Answer(r)
      PROVE  CachesFollow'
  <2> DEFINE k == request[r].key
             now == request[r].now
             row == request[r].row
  <2>1. k \in Keys /\ now \in Nat /\ row \in BOOLEAN
    BY <1>2, QueryFacts DEF Answer
  <2>2. now # None
    BY <2>1, NoneIsNoTime
  <2>3. /\ cache \in [Keys -> Times] /\ negative \in [Keys -> Times]
        /\ answered \in [Keys -> {"nothing", "yes", "no"}]
    BY DEF IInv, KeysTypeOK
  <2>4. /\ cache' = [cache EXCEPT ![k] = IF row THEN now ELSE None]
        /\ negative' = [negative EXCEPT ![k] = IF row THEN None ELSE now]
        /\ answered' = [answered EXCEPT ![k] = IF row THEN "yes" ELSE "no"]
    BY <1>2, <2>1 DEF Answer, Stored
  <2>5. QED
    BY <2>1, <2>2, <2>3, <2>4 DEF CachesFollow
<1>3. QED
  BY <1>1, <1>2 DEF Next, vars, Tick, InitPool, ClosePool, Change, Ask, Read, QueryFails

\* What a decision remembers.
LEMMA DecidedFields ==
  ASSUME NEW k \in Keys, NEW now, NEW ok \in BOOLEAN, NEW why
  PROVE  Decided(k, now, ok, why).ok = ok /\ Decided(k, now, ok, why).heard = answered[k]
BY DEF Decided

\* A step replaces at most one request, by one that follows the caches.
LEMMA RequestsKeepFollowing ==
  ASSUME IInv, CachesFollow, [Next]_vars, NEW s \in Requests, HeardLast(request[s])
  PROVE  HeardLast(request'[s])
<1>1. CASE request'[s] = request[s]
  BY <1>1
<1>2. ASSUME NEW k \in Keys, Ask(s, k)
      PROVE  HeardLast(request'[s])
  <2>1. request \in [Requests -> RequestSet]
    BY TypeParts DEF IInv
  <2>2. \/ request'[s] = Decided(k, clock, TRUE, "master")
        \/ cache[k] # None /\ request'[s] = Decided(k, clock, TRUE, "hit")
        \/ negative[k] # None /\ request'[s] = Decided(k, clock, FALSE, "hit")
        \/ request'[s] = Decided(k, clock, FALSE, "nopool")
        \/ request'[s] = Querying("asked", k, clock, FALSE)
    BY <1>2, <2>1 DEF Ask, Fresh
  <2>3. /\ cache[k] # None => answered[k] = "yes"
        /\ negative[k] # None => answered[k] = "no"
    BY DEF CachesFollow
  <2>4. QED
    BY <2>2, <2>3 DEF HeardLast, Decided, Querying
<1>3. CASE Read(s)
  <2>1. request \in [Requests -> RequestSet]
    BY TypeParts DEF IInv
  <2>2. request'[s].at = "read"
    BY <1>3, <2>1 DEF Read, Querying
  <2>3. QED
    BY <2>2 DEF HeardLast
<1>4. CASE Answer(s)
  <2>1. request \in [Requests -> RequestSet]
    BY TypeParts DEF IInv
  <2>2. request'[s].why = "answer"
    BY <1>4, <2>1 DEF Answer, Decided
  <2>3. QED
    BY <2>2 DEF HeardLast
<1>5. CASE QueryFails(s)
  <2>1. request \in [Requests -> RequestSet]
    BY TypeParts DEF IInv
  <2>2. request'[s] = Decided(request[s].key, request[s].now, cache[request[s].key] # None, "error")
    BY <1>5, <2>1 DEF QueryFails
  <2>3. request[s].key \in Keys
    BY <1>5, QueryFacts DEF QueryFails
  <2>4. /\ request'[s].ok = (cache[request[s].key] # None)
        /\ request'[s].heard = answered[request[s].key]
    <3> DEFINE ok == cache[request[s].key] # None
    <3>1. ok \in BOOLEAN
      OBVIOUS
    <3> HIDE DEF ok
    <3>2. /\ Decided(request[s].key, request[s].now, ok, "error").ok = ok
          /\ Decided(request[s].key, request[s].now, ok, "error").heard = answered[request[s].key]
      BY <2>3, <3>1, DecidedFields
    <3> USE DEF ok
    <3>3. QED
      BY <2>2, <3>2, Zenon
  <2>5. cache[request[s].key] # None <=> answered[request[s].key] = "yes"
    BY <2>3 DEF CachesFollow
  <2>6. request'[s].ok <=> request'[s].heard = "yes"
    BY <2>4, <2>5, Zenon
  <2>7. QED
    BY <2>6, Zenon DEF HeardLast
<1>6. QED
  <2>1. CASE UNCHANGED request
    BY <1>1, <2>1
  <2>2. ASSUME NEW r \in Requests, NEW k \in Keys, Ask(r, k)
        PROVE  HeardLast(request'[s])
    <3>1. CASE r = s
      BY <1>2, <2>2, <3>1
    <3>2. CASE r # s
      BY <1>1, <2>2, <3>2, TypeParts DEF Ask, IInv
    <3>3. QED
      BY <3>1, <3>2
  <2>3. ASSUME NEW r \in Requests, Read(r) \/ Answer(r) \/ QueryFails(r)
        PROVE  HeardLast(request'[s])
    <3>1. CASE r = s
      BY <1>3, <1>4, <1>5, <2>3, <3>1
    <3>2. CASE r # s
      BY <1>1, <2>3, <3>2, TypeParts DEF Read, Answer, QueryFails, IInv
    <3>3. QED
      BY <3>1, <3>2
  <2>4. QED
    BY <2>1, <2>2, <2>3 DEF Next, vars, Tick, InitPool, ClosePool, Change

\* A request verify_key decides without an answer of its own, because the query
\* raised or a cache had it, is let in exactly when the last answer to arrive for
\* its key was yes.
THEOREM OutageIsFaithful == Spec => []OutageFollowsLastAnswer
<1> DEFINE Inv == CachesFollow /\ \A r \in Requests : HeardLast(request[r])
<1>1. Init => Inv
  BY DEF Init, CachesFollow, HeardLast, Idle
<1>2. IInv /\ Inv /\ [Next]_vars => Inv'
  <2> SUFFICES ASSUME IInv, Inv, [Next]_vars
               PROVE  Inv'
    OBVIOUS
  <2>1. CachesFollow'
    BY CachesKeepFollowing
  <2>2. ASSUME NEW s \in Requests PROVE HeardLast(request[s])'
    <3>1. HeardLast(request'[s])
      BY RequestsKeepFollowing
    <3>2. QED
      BY <3>1 DEF HeardLast
  <2>3. QED
    BY <2>1, <2>2
<1>3. Inv => OutageFollowsLastAnswer
  BY DEF HeardLast, OutageFollowsLastAnswer
<1>4. QED
  BY <1>1, <1>2, <1>3, Invariance, PTL DEF Spec

------------------------------------------------------------------------------
(* Induction on the naturals, and what a fold from the left computes.      *)

\* A set of naturals that is not empty has a least element.
LEMMA Least ==
  ASSUME NEW T \in SUBSET Nat, T # {}
  PROVE  \E x \in T : \A y \in T : x <= y
<1> DEFINE F == {1..x : x \in T}
<1>1. F \subseteq FiniteSubsetsOf(Nat)
  BY FS_Interval DEF FiniteSubsetsOf
<1>2. PICK s \in F : \A r \in F : ~ (<<r, s>> \in StrictSubsetOrdering(Nat))
  <2>1. IsWellFoundedOn(StrictSubsetOrdering(Nat), FiniteSubsetsOf(Nat))
    BY FS_StrictSubsetOrderingWellFounded
  <2>2. F # {}
    OBVIOUS
  <2> HIDE DEF F
  <2> QED
    BY <1>1, <2>1, <2>2, WFMin, ZenonT(30)
<1>3. PICK x \in T : s = 1..x
  OBVIOUS
<1>4. ASSUME NEW y \in T, y < x PROVE FALSE
  <2>1. 1..y \subseteq 1..x /\ 1..y # 1..x /\ 1..y \subseteq Nat /\ 1..x \subseteq Nat
    BY <1>4
  <2>2. <<1..y, 1..x>> \in StrictSubsetOrdering(Nat)
    BY <2>1 DEF StrictSubsetOrdering
  <2> QED
    BY <1>2, <1>3, <2>2
<1> QED
  BY <1>4

\* Induction up to n over what a set holds.
LEMMA Upward ==
  ASSUME NEW n \in Nat, NEW P, 0 \in P, \A k \in 0..n-1 : k \in P => k + 1 \in P
  PROVE  \A k \in 0..n : k \in P
<1> SUFFICES ASSUME NEW m \in 0..n, m \notin P PROVE FALSE
  OBVIOUS
<1> DEFINE T == (0..n) \ P
<1> T \in SUBSET Nat /\ T # {}
  OBVIOUS
<1>1. PICK x \in T : \A y \in T : x <= y
  <2> HIDE DEF T
  <2> QED
    BY Least
<1>2. x # 0 /\ x - 1 \in 0..n-1 /\ x - 1 \in P
  BY <1>1
<1> QED
  BY <1>1, <1>2

\* The community modules' Min and Max of a set that is not empty.
LEMMA Minimum ==
  ASSUME NEW T \in SUBSET Nat, T # {}
  PROVE  Min(T) \in T /\ \A y \in T : Min(T) <= y
BY Least DEF Min

LEMMA Maximum ==
  ASSUME NEW n \in Nat, NEW T \in SUBSET (0..n), T # {}
  PROVE  Max(T) \in T /\ \A y \in T : Max(T) >= y
<1> DEFINE R == {n - x : x \in T}
<1>1. R \in SUBSET Nat /\ R # {}
  <2>1. \A x \in T : n - x \in Nat
    OBVIOUS
  <2> QED
    BY <2>1
<1>2. PICK r \in R : \A y \in R : r <= y
  BY <1>1, Least
<1>3. PICK x \in T : r = n - x
  OBVIOUS
<1>4. \A y \in T : x >= y
  <2> TAKE y \in T
  <2>1. r <= n - y
    BY <1>2
  <2> QED
    BY <1>3, <2>1
<1> QED
  BY <1>4 DEF Max

\* The last index of an initial segment, and what is before it.
LEMMA MaxOfInterval ==
  ASSUME NEW k \in Nat
  PROVE  Max(1..(k + 1)) = k + 1 /\ (1..(k + 1)) \ {k + 1} = 1..k
<1> DEFINE T == 1..(k + 1)
<1>1. k + 1 \in Nat /\ T \in SUBSET (0..(k + 1)) /\ T # {} /\ k + 1 \in T
  OBVIOUS
<1>2. Max(T) \in T /\ Max(T) >= k + 1
  <2> HIDE DEF T
  <2> QED
    BY <1>1, Maximum
<1> QED
  BY <1>2

\* step has the steps of a fold from base, one for each index.
StepsOn(step, S, n, base) == base \in S /\ step \in [1..n -> [S -> S]]

\* h is what a fold from the left computes on every set of the indices 1 to n.
Iterates(h, S, n, base, step) ==
  /\ h \in [SUBSET (1..n) -> S]
  /\ \A t \in SUBSET (1..n) :
       h[t] = IF t = {} THEN base ELSE step[Max(t)][h[t \ {Max(t)}]]

\* The function that a fold chooses exists, so what is chosen is one.
LEMMA FoldExists ==
  ASSUME NEW n \in Nat, NEW S, NEW base, NEW step, StepsOn(step, S, n, base)
  PROVE  \E h : Iterates(h, S, n, base, step)
<1>0. step \in [1..n -> [S -> S]] /\ base \in S
  BY DEF StepsOn
<1> DEFINE Is(h, t) == h[t] = IF t = {} THEN base ELSE step[Max(t)][h[t \ {Max(t)}]]
           Has(k) == \E h \in [SUBSET (1..k) -> S] : \A t \in SUBSET (1..k) : Is(h, t)
           P == {k \in 0..n : Has(k)}
<1>1. Has(0)
  <2> DEFINE h == [t \in SUBSET (1..0) |-> base]
  <2>1. h \in [SUBSET (1..0) -> S]
    BY <1>0
  <2>2. ASSUME NEW t \in SUBSET (1..0) PROVE Is(h, t)
    <3>1. t = {}
      OBVIOUS
    <3> QED
      BY <3>1
  <2> HIDE DEF Is, h
  <2> QED
    BY <2>1, <2>2
<1>2. ASSUME NEW k \in 0..n-1, Has(k)
      PROVE  Has(k + 1)
  <2>0. k \in Nat /\ k + 1 \in 1..n
    OBVIOUS
  <2>1. PICK g \in [SUBSET (1..k) -> S] : \A t \in SUBSET (1..k) : Is(g, t)
    BY <1>2
  <2> DEFINE h == [t \in SUBSET (1..(k + 1)) |->
                     IF k + 1 \in t THEN step[k + 1][g[t \ {k + 1}]] ELSE g[t]]
  <2>2. \A t \in SUBSET (1..(k + 1)) :
          /\ t \ {k + 1} \in SUBSET (1..k)
          /\ k + 1 \notin t => t \in SUBSET (1..k)
    BY <2>0
  <2>3. h \in [SUBSET (1..(k + 1)) -> S]
    BY <2>2, <2>0, <1>0
  <2>4. ASSUME NEW t \in SUBSET (1..(k + 1)), k + 1 \in t
        PROVE  Is(h, t)
    <3>1. Max(t) = k + 1
      <4>1. t \in SUBSET (0..(k + 1)) /\ t # {} /\ k + 1 \in Nat
        BY <2>4, <2>0
      <4>2. Max(t) \in t /\ Max(t) >= k + 1
        BY <4>1, <2>4, Maximum
      <4>3. Max(t) \in 0..(k + 1)
        BY <4>1, <4>2
      <4> QED
        BY <4>2, <4>3, <2>0
    <3>2. h[t \ {k + 1}] = g[t \ {k + 1}]
      BY <2>2
    <3> QED
      BY <2>4, <3>1, <3>2
  <2>5. ASSUME NEW t \in SUBSET (1..(k + 1)), k + 1 \notin t, t # {}
        PROVE  Is(h, t)
    <3>1. t \in SUBSET (1..k)
      BY <2>2, <2>5
    <3>2. t \ {Max(t)} \in SUBSET (1..k)
      BY <3>1
    <3>3. \A u \in SUBSET (1..k) : u \in SUBSET (1..(k + 1)) /\ k + 1 \notin u
      BY <2>0
    <3>4. \A u \in SUBSET (1..k) : h[u] = g[u]
      BY <3>3
    <3>5. h[t] = g[t] /\ h[t \ {Max(t)}] = g[t \ {Max(t)}]
      BY <3>1, <3>2, <3>4
    <3>6. Is(g, t)
      BY <2>1, <3>1
    <3> HIDE DEF h
    <3> QED
      BY <3>5, <3>6
  <2>6. ASSUME NEW t \in SUBSET (1..(k + 1)), t = {}
        PROVE  Is(h, t)
    <3>1. k + 1 \notin t /\ t \in SUBSET (1..k)
      BY <2>6
    <3>2. h[t] = g[t] /\ Is(g, t)
      BY <3>1, <2>1
    <3> HIDE DEF h
    <3> QED
      BY <3>2, <2>6
  <2>7. \A t \in SUBSET (1..(k + 1)) : Is(h, t)
    BY <2>4, <2>5, <2>6
  <2> HIDE DEF h, Is
  <2> QED
    BY <2>3, <2>7
<1> HIDE DEF Has
<1>3. 0 \in P /\ \A k \in 0..n-1 : k \in P => k + 1 \in P
  BY <1>1, <1>2
<1>4. \A k \in 0..n : k \in P
  <2> HIDE DEF P
  <2> QED
    BY <1>3, Upward
<1>5. Has(n)
  BY <1>4
<1> QED
  BY <1>5 DEF Has, Iterates

LEMMA IterationIsTyped ==
  ASSUME NEW n \in Nat, NEW S, NEW base, NEW step, NEW h, Iterates(h, S, n, base, step)
  PROVE  \A t \in SUBSET (1..n) : t # {} =>
           /\ Max(t) \in 1..n /\ h[t \ {Max(t)}] \in S
           /\ h[t] = step[Max(t)][h[t \ {Max(t)}]]
<1> TAKE t \in SUBSET (1..n)
<1> HAVE t # {}
<1>1. t \in SUBSET (0..n)
  OBVIOUS
<1>2. Max(t) \in 1..n
  BY <1>1, Maximum
<1>3. h[t \ {Max(t)}] \in S
  BY DEF Iterates
<1> QED
  BY <1>2, <1>3 DEF Iterates

\* The same of an f that may have other values than those of S.
IteratesOn(S, f, n, base, step) ==
  /\ f[{}] = base
  /\ \A t \in SUBSET (1..n) :
       t # {} /\ f[t \ {Max(t)}] \in S => f[t] = step[Max(t)][f[t \ {Max(t)}]]

\* The same, one index after the other.
Runs(c, S, n, base, step) ==
  c \in [0..n -> S] /\ c[0] = base /\ \A k \in 1..n : c[k] = step[k][c[k - 1]]

\* A fold's value is the last of the values it runs through.
LEMMA FoldSteps ==
  ASSUME NEW n \in Nat, NEW S, NEW base, NEW step, StepsOn(step, S, n, base),
         NEW f, IteratesOn(S, f, n, base, step)
  PROVE  \E c : Runs(c, S, n, base, step) /\ c[n] = f[1..n]
<1> DEFINE P == {k \in 0..n : f[1..k] \in S}
<1>1. ASSUME NEW k \in 0..n-1, f[1..k] \in S
      PROVE  f[1..(k + 1)] = step[k + 1][f[1..k]] /\ f[1..(k + 1)] \in S
  <2>1. Max(1..(k + 1)) = k + 1 /\ (1..(k + 1)) \ {k + 1} = 1..k
    BY MaxOfInterval, k \in Nat
  <2>2. 1 \in 1..(k + 1) /\ k + 1 \in 1..n /\ \A i \in 1..(k + 1) : i \in 1..n
    OBVIOUS
  <2>3. f[1..(k + 1)] = step[k + 1][f[1..k]]
    BY <1>1, <2>1, <2>2 DEF IteratesOn
  <2> QED
    BY <1>1, <2>2, <2>3 DEF StepsOn
<1>2. 1..0 = {}
  OBVIOUS
<1>3. \A k \in 0..n : k \in P
  <2>1. 0 \in P /\ \A k \in 0..n-1 : k \in P => k + 1 \in P
    BY <1>1, <1>2 DEF IteratesOn, StepsOn
  <2> HIDE DEF P
  <2> QED
    BY <2>1, Upward
<1> DEFINE c == [k \in 0..n |-> f[1..k]]
<1>4. c \in [0..n -> S] /\ c[0] = base /\ c[n] = f[1..n]
  BY <1>2, <1>3 DEF IteratesOn
<1>5. ASSUME NEW k \in 1..n
      PROVE  c[k] = step[k][c[k - 1]]
  <2>1. k - 1 \in 0..n-1 /\ (k - 1) + 1 = k /\ k - 1 \in 0..n /\ k \in 0..n
    OBVIOUS
  <2>2. f[1..((k - 1) + 1)] = step[(k - 1) + 1][f[1..(k - 1)]]
    BY <1>1, <1>3, <2>1
  <2> QED
    BY <2>1, <2>2
<1> HIDE DEF c
<1> QED
  BY <1>4, <1>5 DEF Runs

\* c takes the messages of the roles R of a sequence, one by one.
Selects(c, s, R, S) ==
  /\ \A k \in 0..Len(s) : c[k] \in Seq(S)
  /\ c[0] = << >>
  /\ \A k \in 1..Len(s) : c[k] = IF s[k].role \in R THEN Append(c[k - 1], s[k]) ELSE c[k - 1]

LEMMA WithRoleUnfolds ==
  ASSUME NEW S, NEW R, NEW s \in Seq(S)
  PROVE  \E c : Selects(c, s, R, S) /\ WithRole(s, R) = c[Len(s)]
<1> DEFINE Add(kept, m) == IF m.role \in R THEN Append(kept, m) ELSE kept
           IsFold(h) == h = [t \in SUBSET (1..Len(s)) |->
                               IF t = {} THEN << >> ELSE Add(h[t \ {Max(t)}], s[Max(t)])]
<1>1. WithRole(s, R) = (CHOOSE h : IsFold(h))[1..Len(s)]
  BY DOMAIN s = 1..Len(s) DEF WithRole, FoldLeft, MapThenFoldSet
<1>2. Len(s) \in Nat /\ << >> \in Seq(S)
  OBVIOUS
<1>3. \A kept \in Seq(S), k \in 1..Len(s) : Add(kept, s[k]) \in Seq(S)
  OBVIOUS
<1> HIDE DEF Add
<1>4. PICK step : /\ StepsOn(step, Seq(S), Len(s), << >>)
                  /\ \A k \in 1..Len(s), kept \in Seq(S) : step[k][kept] = Add(kept, s[k])
  <2> DEFINE go == [k \in 1..Len(s) |-> [kept \in Seq(S) |-> Add(kept, s[k])]]
  <2>1. StepsOn(go, Seq(S), Len(s), << >>)
    BY <1>2, <1>3 DEF StepsOn
  <2>2. \A k \in 1..Len(s), kept \in Seq(S) : go[k][kept] = Add(kept, s[k])
    OBVIOUS
  <2> HIDE DEF go
  <2> QED
    BY <2>1, <2>2
<1>5. PICK h : Iterates(h, Seq(S), Len(s), << >>, step)
  BY <1>2, <1>4, FoldExists
<1>6. IsFold(h)
  <2>1. \A t \in SUBSET (1..Len(s)) : t # {} => /\ Max(t) \in 1..Len(s) /\ h[t \ {Max(t)}] \in Seq(S)
                                               /\ h[t] = step[Max(t)][h[t \ {Max(t)}]]
    BY <1>2, <1>5, IterationIsTyped
  <2>2. \A t \in SUBSET (1..Len(s)) : t # {} => h[t] = Add(h[t \ {Max(t)}], s[Max(t)])
    BY <2>1, <1>4
  <2>3. h[{}] = << >> /\ h = [t \in SUBSET (1..Len(s)) |-> h[t]]
    BY <1>5 DEF Iterates
  <2> QED
    BY <2>2, <2>3
<1>7. PICK f : IsFold(f) /\ WithRole(s, R) = f[1..Len(s)]
  BY <1>1, <1>6
<1>8. /\ f[{}] = << >>
      /\ \A t \in SUBSET (1..Len(s)) : t # {} => f[t] = Add(f[t \ {Max(t)}], s[Max(t)])
  BY <1>7
<1>9. IteratesOn(Seq(S), f, Len(s), << >>, step)
  <2> SUFFICES ASSUME NEW t \in SUBSET (1..Len(s)), t # {}, f[t \ {Max(t)}] \in Seq(S)
               PROVE  f[t] = step[Max(t)][f[t \ {Max(t)}]]
    BY <1>8 DEF IteratesOn
  <2>1. Max(t) \in 1..Len(s)
    BY <1>2, t \in SUBSET (0..Len(s)), Maximum
  <2> QED
    BY <2>1, <1>4, <1>8
<1>10. PICK c : Runs(c, Seq(S), Len(s), << >>, step) /\ c[Len(s)] = f[1..Len(s)]
  BY <1>2, <1>4, <1>9, FoldSteps
<1>11. ASSUME NEW k \in 1..Len(s)
       PROVE  c[k] = Add(c[k - 1], s[k])
  <2>1. k - 1 \in 0..Len(s)
    BY <1>2
  <2> QED
    BY <2>1, <1>4, <1>10 DEF Runs
<1> QED
  BY <1>2, <1>7, <1>10, <1>11 DEF Add, Runs, Selects

------------------------------------------------------------------------------
(* The tokens of a conversation.                                           *)

Plain == {m \in Messages : m.results = << >> /\ m.uses = {}}

\* The calls a message was received with, those that cleaning overwrote included.
Made(m) == m.calls \cup m.lost

\* The tokens of a sequence of messages, one by one.
LEMMA TokensAreNat ==
  ASSUME NEW m \in Messages
  PROVE  Tokens(m) \in Nat
<1>1. m.text \in Nat /\ Cardinality(m.calls) \in Nat /\ Len(m.results) \in Nat
  BY FS_CardinalityType DEF Messages
<1> DEFINE x == m.text + Cardinality(m.calls) + Len(m.results)
<1>2. x \in Nat
  BY <1>1
<1> HIDE DEF x
<1>3. Max({1, x}) \in {1, x}
  <2>1. {1, x} \in SUBSET (0..(x + 1)) /\ x + 1 \in Nat
    BY <1>2
  <2> QED
    BY <2>1, Maximum
<1>4. Max({1, x}) \in Nat
  BY <1>2, <1>3
<1> QED
  BY <1>4 DEF Tokens, x

LEMMA TokensUnfold ==
  ASSUME NEW s \in Seq(Messages)
  PROVE  \E c \in [0..Len(s) -> Nat] :
           /\ c[0] = 0
           /\ \A k \in 1..Len(s) : c[k] = c[k - 1] + Tokens(s[k])
           /\ TokensOf(s) = c[Len(s)]
<1> DEFINE Add(sum, m) == sum + Tokens(m)
           IsFold(h) == h = [t \in SUBSET (1..Len(s)) |->
                               IF t = {} THEN 0 ELSE Add(h[t \ {Max(t)}], s[Max(t)])]
<1>1. TokensOf(s) = (CHOOSE h : IsFold(h))[1..Len(s)]
  BY DOMAIN s = 1..Len(s) DEF TokensOf, FoldLeft, MapThenFoldSet
<1>2. Len(s) \in Nat /\ 0 \in Nat
  OBVIOUS
<1>3. \A sum \in Nat, k \in 1..Len(s) : Add(sum, s[k]) \in Nat
  <2>1. \A k \in 1..Len(s) : Tokens(s[k]) \in Nat
    BY TokensAreNat
  <2> QED
    BY <2>1
<1> HIDE DEF Add
<1>4. PICK step : /\ StepsOn(step, Nat, Len(s), 0)
                  /\ \A k \in 1..Len(s), sum \in Nat : step[k][sum] = Add(sum, s[k])
  <2> DEFINE go == [k \in 1..Len(s) |-> [sum \in Nat |-> Add(sum, s[k])]]
  <2>1. StepsOn(go, Nat, Len(s), 0)
    BY <1>2, <1>3 DEF StepsOn
  <2>2. \A k \in 1..Len(s), sum \in Nat : go[k][sum] = Add(sum, s[k])
    OBVIOUS
  <2> HIDE DEF go
  <2> QED
    BY <2>1, <2>2
<1>5. PICK h : Iterates(h, Nat, Len(s), 0, step)
  BY <1>2, <1>4, FoldExists
<1>6. IsFold(h)
  <2>1. \A t \in SUBSET (1..Len(s)) : t # {} => /\ Max(t) \in 1..Len(s) /\ h[t \ {Max(t)}] \in Nat
                                               /\ h[t] = step[Max(t)][h[t \ {Max(t)}]]
    <3> DEFINE N == Nat
               n == Len(s)
    <3>1. n \in Nat /\ Iterates(h, N, n, 0, step)
      BY <1>2, <1>5
    <3> HIDE DEF N, n
    <3>2. \A t \in SUBSET (1..n) : t # {} => /\ Max(t) \in 1..n /\ h[t \ {Max(t)}] \in N
                                            /\ h[t] = step[Max(t)][h[t \ {Max(t)}]]
      BY <3>1, IterationIsTyped
    <3> QED
      BY <3>2 DEF N, n
  <2>2. \A t \in SUBSET (1..Len(s)) : t # {} => h[t] = Add(h[t \ {Max(t)}], s[Max(t)])
    BY <2>1, <1>4
  <2>3. h[{}] = 0 /\ h = [t \in SUBSET (1..Len(s)) |-> h[t]]
    BY <1>5 DEF Iterates
  <2> QED
    BY <2>2, <2>3
<1>7. PICK f : IsFold(f) /\ TokensOf(s) = f[1..Len(s)]
  BY <1>1, <1>6
<1>8. /\ f[{}] = 0
      /\ \A t \in SUBSET (1..Len(s)) : t # {} => f[t] = Add(f[t \ {Max(t)}], s[Max(t)])
  BY <1>7
<1>9. IteratesOn(Nat, f, Len(s), 0, step)
  <2> SUFFICES ASSUME NEW t \in SUBSET (1..Len(s)), t # {}, f[t \ {Max(t)}] \in Nat
               PROVE  f[t] = step[Max(t)][f[t \ {Max(t)}]]
    BY <1>8 DEF IteratesOn
  <2>1. Max(t) \in 1..Len(s)
    BY <1>2, t \in SUBSET (0..Len(s)), Maximum
  <2> QED
    BY <2>1, <1>4, <1>8
<1>10. PICK c : Runs(c, Nat, Len(s), 0, step) /\ c[Len(s)] = f[1..Len(s)]
  BY <1>2, <1>4, <1>9, FoldSteps
<1>11. ASSUME NEW k \in 1..Len(s)
       PROVE  c[k] = Add(c[k - 1], s[k])
  <2>1. k - 1 \in 0..Len(s)
    BY <1>2
  <2> QED
    BY <2>1, <1>4, <1>10 DEF Runs
<1> QED
  BY <1>7, <1>10, <1>11 DEF Add, Runs

------------------------------------------------------------------------------
(* clean_messages: tool messages answer calls.                             *)

\* The tool messages that a set of pending calls can get.
AnswersTo(pending) == {ToolMessage(id, 1) : id \in pending}

\* A block's results become messages only for calls that are pending.
LEMMA AnswersArePending ==
  ASSUME NEW pending \in SUBSET Ids, NEW s \in Seq(Ids)
  PROVE  Answers(s, pending) \in Seq(AnswersTo(pending))
<1> DEFINE S == Seq(AnswersTo(pending))
           Add(found, id) == IF id \in pending THEN Append(found, ToolMessage(id, 1)) ELSE found
           IsFold(h) == h = [t \in SUBSET (1..Len(s)) |->
                               IF t = {} THEN << >> ELSE Add(h[t \ {Max(t)}], s[Max(t)])]
<1>1. Answers(s, pending) = (CHOOSE h : IsFold(h))[1..Len(s)]
  BY DOMAIN s = 1..Len(s) DEF Answers, FoldLeft, MapThenFoldSet
<1>2. Len(s) \in Nat /\ << >> \in S
  OBVIOUS
<1>3. \A found \in S, k \in 1..Len(s) : Add(found, s[k]) \in S
  <2>1. \A id \in pending : ToolMessage(id, 1) \in AnswersTo(pending)
    BY DEF AnswersTo
  <2> QED
    BY <2>1
<1> HIDE DEF Add, S
<1>4. PICK step : /\ StepsOn(step, S, Len(s), << >>)
                  /\ \A k \in 1..Len(s), found \in S : step[k][found] = Add(found, s[k])
  <2> DEFINE go == [k \in 1..Len(s) |-> [found \in S |-> Add(found, s[k])]]
  <2>1. StepsOn(go, S, Len(s), << >>)
    BY <1>2, <1>3 DEF StepsOn
  <2>2. \A k \in 1..Len(s), found \in S : go[k][found] = Add(found, s[k])
    OBVIOUS
  <2> HIDE DEF go
  <2> QED
    BY <2>1, <2>2
<1>5. PICK h : Iterates(h, S, Len(s), << >>, step)
  BY <1>2, <1>4, FoldExists
<1>6. IsFold(h)
  <2>1. \A t \in SUBSET (1..Len(s)) : t # {} => /\ Max(t) \in 1..Len(s) /\ h[t \ {Max(t)}] \in S
                                               /\ h[t] = step[Max(t)][h[t \ {Max(t)}]]
    BY <1>2, <1>5, IterationIsTyped
  <2>2. \A t \in SUBSET (1..Len(s)) : t # {} => h[t] = Add(h[t \ {Max(t)}], s[Max(t)])
    BY <2>1, <1>4
  <2>3. h[{}] = << >> /\ h = [t \in SUBSET (1..Len(s)) |-> h[t]]
    BY <1>5 DEF Iterates
  <2> QED
    BY <2>2, <2>3
<1>7. PICK f : IsFold(f) /\ Answers(s, pending) = f[1..Len(s)]
  BY <1>1, <1>6
<1>8. /\ f[{}] = << >>
      /\ \A t \in SUBSET (1..Len(s)) : t # {} => f[t] = Add(f[t \ {Max(t)}], s[Max(t)])
  BY <1>7
<1>9. IteratesOn(S, f, Len(s), << >>, step)
  <2> SUFFICES ASSUME NEW t \in SUBSET (1..Len(s)), t # {}, f[t \ {Max(t)}] \in S
               PROVE  f[t] = step[Max(t)][f[t \ {Max(t)}]]
    BY <1>8 DEF IteratesOn
  <2>1. Max(t) \in 1..Len(s)
    BY <1>2, t \in SUBSET (0..Len(s)), Maximum
  <2> QED
    BY <2>1, <1>4, <1>8
<1>10. PICK c : Runs(c, S, Len(s), << >>, step) /\ c[Len(s)] = f[1..Len(s)]
  BY <1>2, <1>4, <1>9, FoldSteps
<1> QED
  BY <1>2, <1>7, <1>10 DEF Runs, S

------------------------------------------------------------------------------
\* Message a of s is the assistant's, and none after it up to n is.
Speaks(s, a, n) ==
  /\ a \in 1..n
  /\ s[a].role = "assistant"
  /\ \A j \in (a + 1)..n : s[j].role # "assistant"

\* Every tool message answers a call of the assistant's last message before it.
Answered(s) ==
  \A i \in 1..Len(s) : s[i].role = "tool" =>
    \E a \in 1..(i - 1) : Speaks(s, a, i - 1) /\ s[i].of \in Made(s[a])

\* What the loop over the messages holds, in every turn of it.
Sound(acc) ==
  /\ Answered(acc.out)
  /\ acc.pending # {} =>
       \E a \in 1..Len(acc.out) : Speaks(acc.out, a, Len(acc.out)) /\ acc.pending \subseteq Made(acc.out[a])

CleanStates == {acc \in [out : Seq(Plain), pending : SUBSET Ids] : Sound(acc)}

\* A message at the end that is no tool's and no assistant's, or a result of a
\* pending call.
LEMMA AppendKeepsSound ==
  ASSUME NEW out \in Seq(Plain), NEW pending \in SUBSET Ids,
         Sound([out |-> out, pending |-> pending]),
         NEW m \in Plain, m.role # "assistant", m.role = "tool" => m.of \in pending
  PROVE  Sound([out |-> Append(out, m), pending |-> pending])
<1> DEFINE s == Append(out, m)
           n == Len(out)
<1>1. n \in Nat /\ Len(s) = n + 1 /\ s[n + 1] = m /\ \A i \in 1..n : s[i] = out[i]
  OBVIOUS
<1>2. /\ Answered(out)
      /\ pending # {} => \E a \in 1..n : Speaks(out, a, n) /\ pending \subseteq Made(out[a])
  BY DEF Sound
<1> HIDE DEF s, n
<1>3. ASSUME NEW k \in 0..n, NEW a \in 1..k, Speaks(out, a, k)
      PROVE  Speaks(s, a, k) /\ s[a] = out[a]
  BY <1>1, <1>3 DEF Speaks
<1>4. ASSUME NEW a \in 1..n, Speaks(out, a, n)
      PROVE  Speaks(s, a, n + 1)
  BY <1>1, <1>4 DEF Speaks
<1>5. Answered(s)
  <2> SUFFICES ASSUME NEW i \in 1..(n + 1), s[i].role = "tool"
               PROVE  \E a \in 1..(i - 1) : Speaks(s, a, i - 1) /\ s[i].of \in Made(s[a])
    BY <1>1 DEF Answered
  <2>1. CASE i = n + 1
    <3>1. m.of \in pending
      BY <1>1, <2>1
    <3>2. PICK a \in 1..n : Speaks(out, a, n) /\ pending \subseteq Made(out[a])
      BY <1>2, <3>1
    <3>3. n \in 0..n /\ i - 1 = n
      BY <1>1, <2>1
    <3>4. Speaks(s, a, n) /\ s[a] = out[a]
      BY <3>2, <3>3, <1>3
    <3> QED
      BY <1>1, <2>1, <3>1, <3>2, <3>3, <3>4
  <2>2. CASE i # n + 1
    <3>1. i \in 1..n /\ i - 1 \in 0..n /\ s[i] = out[i]
      BY <1>1, <2>2
    <3>2. PICK a \in 1..(i - 1) : Speaks(out, a, i - 1) /\ out[i].of \in Made(out[a])
      BY <1>2, <3>1 DEF Answered, n
    <3>3. Speaks(s, a, i - 1) /\ s[a] = out[a]
      BY <3>1, <3>2, <1>3
    <3> QED
      BY <3>1, <3>2, <3>3
  <2> QED
    BY <2>1, <2>2
<1>6. ASSUME pending # {}
      PROVE  \E a \in 1..(n + 1) : Speaks(s, a, n + 1) /\ pending \subseteq Made(s[a])
  <2>1. PICK a \in 1..n : Speaks(out, a, n) /\ pending \subseteq Made(out[a])
    BY <1>2, <1>6
  <2>2. Speaks(s, a, n + 1) /\ s[a] = out[a] /\ a \in 1..(n + 1)
    BY <1>1, <2>1, <1>4
  <2> QED
    BY <2>1, <2>2
<1> QED
  BY <1>1, <1>5, <1>6 DEF Sound, s

LEMMA AnswersArePlain ==
  ASSUME NEW pending \in SUBSET Ids, NEW m \in AnswersTo(pending)
  PROVE  m \in Plain /\ m.role = "tool" /\ m.of \in pending
<1>1. PICK id \in pending : m = ToolMessage(id, 1)
  BY DEF AnswersTo
<1>2. m = [role |-> "tool", text |-> 1, calls |-> {}, uses |-> {}, lost |-> {}, list |-> FALSE,
           results |-> << >>, of |-> id]
  BY <1>1 DEF ToolMessage, Message
<1>3. id \in Ids /\ IsFiniteSet({}) /\ << >> \in Seq(Ids)
  BY FS_EmptySet
<1> QED
  BY <1>2, <1>3 DEF Plain, Messages, Roles

\* All the answers of a list, one after the other.
LEMMA ConcatKeepsSound ==
  ASSUME NEW out \in Seq(Plain), NEW pending \in SUBSET Ids,
         Sound([out |-> out, pending |-> pending]),
         NEW t \in Seq(AnswersTo(pending))
  PROVE  /\ out \o t \in Seq(Plain)
         /\ Sound([out |-> out \o t, pending |-> pending])
<1> DEFINE upTo(k) == out \o SubSeq(t, 1, k)
           Good(k) == upTo(k) \in Seq(Plain) /\ Sound([out |-> upTo(k), pending |-> pending])
           n == Len(t)
           P == {k \in 0..n : Good(k)}
<1>1. Good(0)
  <2>1. SubSeq(t, 1, 0) = << >> /\ upTo(0) = out
    OBVIOUS
  <2> QED
    BY <2>1
<1>2. ASSUME NEW k \in 0..Len(t)-1, Good(k)
      PROVE  Good(k + 1)
  <2>1. k + 1 \in 1..Len(t) /\ t[k + 1] \in AnswersTo(pending)
    OBVIOUS
  <2>2. t[k + 1] \in Plain /\ t[k + 1].role = "tool" /\ t[k + 1].of \in pending
    BY <2>1, AnswersArePlain
  <2>3. upTo(k + 1) = Append(upTo(k), t[k + 1])
    <3>1. t \in Seq(AnswersTo(pending)) /\ SubSeq(t, 1, k + 1) = Append(SubSeq(t, 1, k), t[k + 1])
      OBVIOUS
    <3>2. SubSeq(t, 1, k) \in Seq(AnswersTo(pending))
      OBVIOUS
    <3> QED
      BY <3>1, <3>2, <2>1
  <2> HIDE DEF upTo
  <2>4. Append(upTo(k), t[k + 1]) \in Seq(Plain)
    BY <1>2, <2>2
  <2>5. Sound([out |-> Append(upTo(k), t[k + 1]), pending |-> pending])
    BY <1>2, <2>2, AppendKeepsSound
  <2> QED
    BY <2>3, <2>4, <2>5
<1>3. n \in Nat /\ upTo(n) = out \o t
  BY SubSeqFull
<1> HIDE DEF Good, n
<1>4. 0 \in P /\ \A k \in 0..n-1 : k \in P => k + 1 \in P
  BY <1>1, <1>2, <1>3 DEF n
<1>5. \A k \in 0..n : k \in P
  <2> HIDE DEF P
  <2> QED
    BY <1>3, <1>4, Upward
<1>6. Good(n)
  BY <1>3, <1>5
<1> QED
  BY <1>3, <1>6 DEF Good

\* An assistant's message in one format makes or has lost every call it came with.
LEMMA ConvertedIs ==
  ASSUME NEW m \in Messages, m.role = "assistant"
  PROVE  /\ Converted(m) \in Plain /\ Converted(m).role = "assistant"
         /\ m.calls \cup m.uses \subseteq Made(Converted(m))
<1> DEFINE R == [role : Roles, text : Nat, calls : SUBSET Ids, uses : SUBSET Ids, lost : SUBSET Ids,
                 list : BOOLEAN, results : Seq(Ids), of : Ids \cup {NoCall}]
<1>1. m \in R /\ m.results = << >> /\ IsFiniteSet(m.calls) /\ IsFiniteSet(m.uses)
  BY DEF Messages
<1>2. IsFiniteSet({}) /\ {} \in SUBSET Ids
  BY FS_EmptySet
<1>3. CASE m.uses = {}
  <2> DEFINE c == [m EXCEPT !.lost = {}]
  <2>1. /\ c \in R /\ c.role = m.role /\ c.results = m.results /\ c.calls = m.calls
        /\ c.uses = {} /\ c.lost = {}
    BY <1>1, <1>2, <1>3
  <2>2. Converted(m) = c
    BY <1>3 DEF Converted
  <2> HIDE DEF c
  <2> QED
    BY <1>1, <1>2, <1>3, <2>1, <2>2 DEF Messages, Plain, Made
<1>4. CASE m.uses # {}
  <2> DEFINE c == [m EXCEPT !.calls = m.uses, !.uses = {}, !.lost = m.calls \ m.uses]
  <2>1. m.uses \in SUBSET Ids /\ m.calls \ m.uses \in SUBSET Ids
    BY <1>1
  <2>2. /\ c \in R /\ c.role = m.role /\ c.results = m.results /\ c.calls = m.uses
        /\ c.uses = {} /\ c.lost = m.calls \ m.uses
    BY <1>1, <1>2, <2>1
  <2>3. Converted(m) = c
    BY <1>4 DEF Converted
  <2> HIDE DEF c
  <2> QED
    BY <1>1, <1>2, <2>2, <2>3 DEF Messages, Plain, Made
<1> QED
  BY <1>3, <1>4

\* One turn of the loop.
LEMMA CleanNextKeeps ==
  ASSUME NEW acc \in CleanStates, NEW m \in Messages
  PROVE  CleanNext(acc, m) \in CleanStates
<1> DEFINE out == acc.out
           pending == acc.pending
<1>1. /\ acc = [out |-> out, pending |-> pending]
      /\ out \in Seq(Plain) /\ pending \in SUBSET Ids
      /\ Sound([out |-> out, pending |-> pending])
  BY DEF CleanStates
<1>2. /\ m.role \in Roles /\ m.text \in Nat /\ m.calls \in SUBSET Ids /\ m.results \in Seq(Ids)
      /\ m.uses \in SUBSET Ids /\ m.list \in BOOLEAN
      /\ m.role # "assistant" /\ ~(m.role = "user" /\ m.list) => m \in Plain
  BY DEF Messages, Plain
<1> HIDE DEF out, pending
<1>3. CASE m.role = "assistant"
  <2> DEFINE c == Converted(m)
             s == Append(out, c)
             n == Len(out)
  <2>0. c \in Plain /\ c.role = "assistant" /\ m.calls \cup m.uses \subseteq Made(c)
    BY <1>3, ConvertedIs
  <2> HIDE DEF c
  <2>1. s \in Seq(Plain)
    BY <1>1, <2>0
  <2>2. n \in Nat /\ Len(s) = n + 1 /\ s[n + 1] = c /\ \A i \in 1..n : s[i] = out[i]
    BY <1>1
  <2>3. Answered(out)
    BY <1>1 DEF Sound
  <2> HIDE DEF s
  <2>4. Answered(s)
    BY <2>2, <2>3, <2>0 DEF Answered, Speaks
  <2>5. Speaks(s, n + 1, n + 1)
    BY <2>2, <2>0 DEF Speaks
  <2>6. Sound([out |-> s, pending |-> m.calls \cup m.uses])
    BY <2>2, <2>4, <2>5, <2>0 DEF Sound
  <2>7. CleanNext(acc, m) = [out |-> s, pending |-> m.calls \cup m.uses]
    BY <1>3 DEF CleanNext, ToolUseIds, s, out, c
  <2> QED
    BY <2>1, <2>6, <2>7, <1>2 DEF CleanStates
<1>4. CASE m.role = "user" /\ m.list
  <2> DEFINE left == [m EXCEPT !.results = << >>]
             base == IF m.text = 0 THEN out ELSE Append(out, left)
             found == Answers(m.results, pending)
  <2>1. left \in Plain /\ left.role = "user"
    <3>1. IsFiniteSet(m.calls) /\ IsFiniteSet(m.uses) /\ m.uses = {}
      BY <1>4 DEF Messages
    <3> DEFINE R == [role : Roles, text : Nat, calls : SUBSET Ids, uses : SUBSET Ids,
                     lost : SUBSET Ids, list : BOOLEAN, results : Seq(Ids), of : Ids \cup {NoCall}]
    <3>2. m \in R /\ << >> \in Seq(Ids)
      BY DEF Messages
    <3>3. /\ left \in R /\ left.role = m.role /\ left.calls = m.calls /\ left.uses = m.uses
          /\ left.results = << >>
      BY <3>2
    <3> HIDE DEF left
    <3> QED
      BY <3>1, <3>3, <1>2, <1>4 DEF Messages, Plain
  <2> HIDE DEF left
  <2>2. base \in Seq(Plain) /\ Sound([out |-> base, pending |-> pending])
    <3>1. Append(out, left) \in Seq(Plain) /\ Sound([out |-> Append(out, left), pending |-> pending])
      BY <2>1, <1>1, AppendKeepsSound
    <3> QED
      BY <3>1, <1>1
  <2>3. found \in Seq(AnswersTo(pending))
    BY <1>1, <1>2, AnswersArePending
  <2>4. \A x \in AnswersTo(pending) : x \in Plain
    BY <1>1, AnswersArePlain
  <2>5. found \in Seq(Plain)
    BY <2>3, <2>4
  <2>6. out \o FromBlocks(m, pending) = base \o found
    <3> HIDE DEF found
    <3>1. FromBlocks(m, pending) = (IF m.text = 0 THEN << >> ELSE <<left>>) \o found
      BY DEF FromBlocks, left, found
    <3>2. CASE m.text = 0
      BY <3>1, <3>2, <1>1, <2>5
    <3>3. CASE m.text # 0
      BY <3>1, <3>3, <1>1, <2>1, <2>5
    <3> QED
      BY <3>2, <3>3
  <2> HIDE DEF base, found
  <2>7. base \o found \in Seq(Plain) /\ Sound([out |-> base \o found, pending |-> pending])
    BY <1>1, <2>2, <2>3, ConcatKeepsSound
  <2>8. Sound([out |-> base \o found, pending |-> {}])
    BY <2>7 DEF Sound
  <2>9. CleanNext(acc, m) = [out |-> base \o found, pending |-> {}]
    BY <1>4, <2>6 DEF CleanNext, ToolUseIds, out, pending
  <2> QED
    BY <2>7, <2>8, <2>9 DEF CleanStates
<1>5. CASE m.role = "tool" /\ m.of \notin pending
  BY <1>5 DEF CleanNext, ToolUseIds, pending
<1>6. CASE /\ m.role # "assistant"
           /\ ~(m.role = "user" /\ m.list)
           /\ ~(m.role = "tool" /\ m.of \notin pending)
  <2>1. m \in Plain
    BY <1>2, <1>6
  <2>2. Append(out, m) \in Seq(Plain) /\ Sound([out |-> Append(out, m), pending |-> pending])
    BY <1>1, <1>6, <2>1, AppendKeepsSound
  <2>3. CleanNext(acc, m) = [acc EXCEPT !.out = Append(out, m)]
    BY <1>6 DEF CleanNext, ToolUseIds, out, pending
  <2>4. [acc EXCEPT !.out = Append(out, m)] = [out |-> Append(out, m), pending |-> pending]
    BY <1>1
  <2> QED
    BY <2>2, <2>3, <2>4, <1>1 DEF CleanStates
<1> QED
  BY <1>3, <1>4, <1>5, <1>6

\* What clean_messages returns has no calls and no results in blocks, and every tool
\* message in it answers a call that the assistant's last message before it came
\* with: the cleaned message makes it still, or has lost it (tool_calls beside blocks).
THEOREM CleanIsSound ==
  ASSUME NEW s \in Seq(Messages)
  PROVE  Clean(s) \in Seq(Plain) /\ Answered(Clean(s))
<1> DEFINE S == CleanStates
           base == [out |-> << >>, pending |-> {}]
           Add(acc, m) == CleanNext(acc, m)
           IsFold(h) == h = [t \in SUBSET (1..Len(s)) |->
                               IF t = {} THEN base ELSE Add(h[t \ {Max(t)}], s[Max(t)])]
<1>1. Clean(s) = (CHOOSE h : IsFold(h))[1..Len(s)].out
  BY DOMAIN s = 1..Len(s) DEF Clean, FoldLeft, MapThenFoldSet
<1>2. Len(s) \in Nat /\ base \in S
  BY DEF CleanStates, Sound, Answered
<1>3. \A acc \in S, k \in 1..Len(s) : Add(acc, s[k]) \in S
  BY CleanNextKeeps
<1> HIDE DEF Add, S, base
<1>4. PICK step : /\ StepsOn(step, S, Len(s), base)
                  /\ \A k \in 1..Len(s), acc \in S : step[k][acc] = Add(acc, s[k])
  <2> DEFINE go == [k \in 1..Len(s) |-> [acc \in S |-> Add(acc, s[k])]]
  <2>1. StepsOn(go, S, Len(s), base)
    BY <1>2, <1>3 DEF StepsOn
  <2>2. \A k \in 1..Len(s), acc \in S : go[k][acc] = Add(acc, s[k])
    OBVIOUS
  <2> HIDE DEF go
  <2> QED
    BY <2>1, <2>2
<1>5. PICK h : Iterates(h, S, Len(s), base, step)
  BY <1>2, <1>4, FoldExists
<1>6. IsFold(h)
  <2>1. \A t \in SUBSET (1..Len(s)) : t # {} => /\ Max(t) \in 1..Len(s) /\ h[t \ {Max(t)}] \in S
                                               /\ h[t] = step[Max(t)][h[t \ {Max(t)}]]
    <3> DEFINE N == S
               n == Len(s)
    <3>1. n \in Nat /\ Iterates(h, N, n, base, step)
      BY <1>2, <1>5
    <3> HIDE DEF N, n
    <3>2. \A t \in SUBSET (1..n) : t # {} => /\ Max(t) \in 1..n /\ h[t \ {Max(t)}] \in N
                                            /\ h[t] = step[Max(t)][h[t \ {Max(t)}]]
      BY <3>1, IterationIsTyped, SMTT(30)
    <3> QED
      BY <3>2 DEF N, n
  <2>2. \A t \in SUBSET (1..Len(s)) : t # {} => h[t] = Add(h[t \ {Max(t)}], s[Max(t)])
    BY <2>1, <1>4
  <2>3. h[{}] = base /\ h = [t \in SUBSET (1..Len(s)) |-> h[t]]
    BY <1>5 DEF Iterates
  <2> QED
    BY <2>2, <2>3
<1>7. PICK f : IsFold(f) /\ Clean(s) = f[1..Len(s)].out
  BY <1>1, <1>6
<1>8. /\ f[{}] = base
      /\ \A t \in SUBSET (1..Len(s)) : t # {} => f[t] = Add(f[t \ {Max(t)}], s[Max(t)])
  BY <1>7
<1>9. IteratesOn(S, f, Len(s), base, step)
  <2> SUFFICES ASSUME NEW t \in SUBSET (1..Len(s)), t # {}, f[t \ {Max(t)}] \in S
               PROVE  f[t] = step[Max(t)][f[t \ {Max(t)}]]
    BY <1>8 DEF IteratesOn
  <2>1. Max(t) \in 1..Len(s)
    BY <1>2, t \in SUBSET (0..Len(s)), Maximum
  <2> QED
    BY <2>1, <1>4, <1>8
<1>10. PICK c : Runs(c, S, Len(s), base, step) /\ c[Len(s)] = f[1..Len(s)]
  BY <1>2, <1>4, <1>9, FoldSteps
<1>11. f[1..Len(s)] \in S
  BY <1>2, <1>10 DEF Runs
<1> QED
  BY <1>7, <1>11 DEF S, CleanStates, Sound

------------------------------------------------------------------------------
(* Selecting by role, counting, and sequences put together.                *)

\* Nothing but WithRole starts empty and takes the messages one by one.
LEMMA WithRoleIs ==
  ASSUME NEW S, NEW R, NEW s \in Seq(S), NEW d, d[0] = << >>,
         \A k \in 1..Len(s) : d[k] = IF s[k].role \in R THEN Append(d[k - 1], s[k]) ELSE d[k - 1]
  PROVE  WithRole(s, R) = d[Len(s)]
<1> DEFINE n == Len(s)
<1>1. PICK c : Selects(c, s, R, S) /\ WithRole(s, R) = c[n]
  BY WithRoleUnfolds
<1> DEFINE P == {k \in 0..n : c[k] = d[k]}
<1>2. /\ n \in Nat /\ c[0] = << >>
      /\ \A k \in 1..n : c[k] = IF s[k].role \in R THEN Append(c[k - 1], s[k]) ELSE c[k - 1]
  BY <1>1 DEF Selects
<1>3. \A k \in 1..n : d[k] = IF s[k].role \in R THEN Append(d[k - 1], s[k]) ELSE d[k - 1]
  OBVIOUS
<1> HIDE DEF n
<1>4. 0 \in P
  BY <1>2
<1>5. ASSUME NEW k \in 0..n-1, c[k] = d[k]
      PROVE  c[k + 1] = d[k + 1]
  <2>1. k + 1 \in 1..n /\ (k + 1) - 1 = k
    BY <1>2
  <2> QED
    BY <2>1, <1>2, <1>3, <1>5
<1>6. \A k \in 0..n-1 : k \in P => k + 1 \in P
  BY <1>2, <1>5
<1>7. \A k \in 0..n : k \in P
  <2> HIDE DEF P
  <2> QED
    BY <1>2, <1>4, <1>6, Upward
<1> QED
  BY <1>1, <1>2, <1>7 DEF n

\* What is selected has one of the roles.
LEMMA WithRoleTyped ==
  ASSUME NEW S, NEW R, NEW s \in Seq(S)
  PROVE  WithRole(s, R) \in Seq({m \in S : m.role \in R})
<1> DEFINE n == Len(s)
           T == {m \in S : m.role \in R}
<1>1. PICK c : Selects(c, s, R, S) /\ WithRole(s, R) = c[n]
  BY WithRoleUnfolds
<1> DEFINE P == {k \in 0..n : c[k] \in Seq(T)}
<1>2. /\ n \in Nat /\ c[0] = << >>
      /\ \A k \in 1..n : s[k] \in S
      /\ \A k \in 1..n : c[k] = IF s[k].role \in R THEN Append(c[k - 1], s[k]) ELSE c[k - 1]
  BY <1>1 DEF Selects
<1> HIDE DEF n
<1>0. /\ << >> \in Seq(T)
      /\ \A k \in 1..n, r \in Seq(T) : s[k].role \in R => Append(r, s[k]) \in Seq(T)
  <2>1. \A k \in 1..n : s[k].role \in R => s[k] \in T
    BY <1>2
  <2> HIDE DEF T
  <2> QED
    BY <2>1
<1> HIDE DEF T
<1>3. 0 \in P
  <2>1. 0 \in 0..n /\ c[0] \in Seq(T)
    BY <1>0, <1>2
  <2> QED
    BY <2>1
<1>4. ASSUME NEW k \in 0..n-1, c[k] \in Seq(T)
      PROVE  c[k + 1] \in Seq(T)
  <2>1. k + 1 \in 1..n /\ (k + 1) - 1 = k
    BY <1>2
  <2> QED
    BY <2>1, <1>0, <1>2, <1>4
<1>5. \A k \in 0..n-1 : k \in P => k + 1 \in P
  BY <1>2, <1>4
<1>6. \A k \in 0..n : k \in P
  <2> HIDE DEF P
  <2> QED
    BY <1>2, <1>3, <1>5, Upward
<1> QED
  BY <1>1, <1>2, <1>6 DEF T

\* All messages, or none, when all of them, or none, have one of the roles.
LEMMA WithRoleOfItsOwn ==
  ASSUME NEW S, NEW R, NEW s \in Seq(S), \A k \in 1..Len(s) : s[k].role \in R
  PROVE  WithRole(s, R) = s
<1> DEFINE d == [k \in 0..Len(s) |-> SubSeq(s, 1, k)]
<1>1. d[0] = << >> /\ d[Len(s)] = s
  BY SubSeqFull
<1>2. \A k \in 1..Len(s) : d[k] = Append(d[k - 1], s[k])
  <2> TAKE k \in 1..Len(s)
  <2>1. k - 1 \in 0..Len(s) /\ k \in 0..Len(s)
    OBVIOUS
  <2>2. SubSeq(s, 1, k) = Append(SubSeq(s, 1, k - 1), s[k])
    OBVIOUS
  <2> QED
    BY <2>1, <2>2
<1> HIDE DEF d
<1>3. \A k \in 1..Len(s) : d[k] = IF s[k].role \in R THEN Append(d[k - 1], s[k]) ELSE d[k - 1]
  BY <1>2
<1> QED
  BY <1>1, <1>3, WithRoleIs

LEMMA WithRoleOfOthers ==
  ASSUME NEW S, NEW R, NEW s \in Seq(S), \A k \in 1..Len(s) : s[k].role \notin R
  PROVE  WithRole(s, R) = << >>
<1> DEFINE d == [k \in 0..Len(s) |-> << >>]
<1>1. d[0] = << >> /\ d[Len(s)] = << >>
  OBVIOUS
<1>2. \A k \in 1..Len(s) : d[k] = d[k - 1]
  <2> TAKE k \in 1..Len(s)
  <2>1. k - 1 \in 0..Len(s) /\ k \in 0..Len(s)
    OBVIOUS
  <2> QED
    BY <2>1
<1> HIDE DEF d
<1>3. \A k \in 1..Len(s) : d[k] = IF s[k].role \in R THEN Append(d[k - 1], s[k]) ELSE d[k - 1]
  BY <1>2
<1> QED
  BY <1>1, <1>3, WithRoleIs

\* What two recursions do one after the other, the second on top of the first.
LEMMA WithRoleOfConcat ==
  ASSUME NEW S, NEW R, NEW s \in Seq(S), NEW t \in Seq(S)
  PROVE  WithRole(s \o t, R) = WithRole(s, R) \o WithRole(t, R)
<1> DEFINE n == Len(s)
           m == Len(t)
           st == s \o t
<1>1. PICK c : Selects(c, s, R, S) /\ WithRole(s, R) = c[n]
  BY WithRoleUnfolds
<1>2. PICK e : Selects(e, t, R, S) /\ WithRole(t, R) = e[m]
  BY WithRoleUnfolds
<1>3. /\ \A k \in 0..n : c[k] \in Seq(S)
      /\ c[0] = << >>
      /\ \A k \in 1..n : c[k] = IF s[k].role \in R THEN Append(c[k - 1], s[k]) ELSE c[k - 1]
  BY <1>1 DEF Selects
<1>4. /\ \A k \in 0..m : e[k] \in Seq(S)
      /\ e[0] = << >>
      /\ \A k \in 1..m : e[k] = IF t[k].role \in R THEN Append(e[k - 1], t[k]) ELSE e[k - 1]
  BY <1>2 DEF Selects
<1>5. /\ n \in Nat /\ m \in Nat /\ st \in Seq(S) /\ Len(st) = n + m
      /\ \A k \in 1..n : st[k] = s[k]
      /\ \A k \in 1..m : st[n + k] = t[k]
      /\ \A k \in 1..m : t[k] \in S
  OBVIOUS
<1> HIDE DEF n, m, st
<1> DEFINE d == [k \in 0..(n + m) |-> IF k <= n THEN c[k] ELSE c[n] \o e[k - n]]
<1>6. d[0] = << >>
  BY <1>3, <1>5
<1>7. \A k \in 0..m : d[n + k] = c[n] \o e[k]
  <2> TAKE k \in 0..m
  <2>1. n + k \in 0..(n + m) /\ (n + k) - n = k /\ c[n] \in Seq(S)
    BY <1>5, <1>3
  <2>2. CASE k = 0
    BY <2>1, <2>2, <1>4, <1>5
  <2>3. CASE k # 0
    <3>1. ~(n + k <= n)
      BY <1>5, <2>3
    <3> QED
      BY <2>1, <3>1
  <2> QED
    BY <2>2, <2>3
<1>8. \A k \in 0..n : d[k] = c[k]
  BY <1>5
<1> HIDE DEF d
<1>9. ASSUME NEW k \in 1..n
      PROVE  d[k] = IF st[k].role \in R THEN Append(d[k - 1], st[k]) ELSE d[k - 1]
  <2>1. k \in 0..n /\ k - 1 \in 0..n
    BY <1>5
  <2> QED
    BY <2>1, <1>3, <1>5, <1>8
<1>10. ASSUME NEW k \in 1..m
      PROVE  d[n + k] = IF st[n + k].role \in R THEN Append(d[(n + k) - 1], st[n + k]) ELSE d[(n + k) - 1]
  <2>1. k \in 0..m /\ k - 1 \in 0..m /\ (n + k) - 1 = n + (k - 1) /\ n \in 0..n
    BY <1>5
  <2>2. c[n] \in Seq(S) /\ e[k - 1] \in Seq(S) /\ t[k] \in S
    BY <2>1, <1>3, <1>4, <1>5
  <2>3. c[n] \o Append(e[k - 1], t[k]) = Append(c[n] \o e[k - 1], t[k])
    <3> DEFINE a == c[n]
               b == e[k - 1]
               x == t[k]
    <3>1. a \in Seq(S) /\ b \in Seq(S) /\ x \in S
      BY <2>2
    <3> HIDE DEF a, b, x
    <3>2. a \o Append(b, x) = Append(a \o b, x)
      BY <3>1
    <3> QED
      BY <3>2 DEF a, b, x
  <2>4. d[n + k] = c[n] \o e[k] /\ d[(n + k) - 1] = c[n] \o e[k - 1]
    BY <2>1, <1>7
  <2>5. e[k] = IF t[k].role \in R THEN Append(e[k - 1], t[k]) ELSE e[k - 1]
    BY <1>4
  <2> QED
    BY <2>3, <2>4, <2>5, <1>5
<1>11. ASSUME NEW k \in 1..(n + m)
      PROVE  d[k] = IF st[k].role \in R THEN Append(d[k - 1], st[k]) ELSE d[k - 1]
  <2>1. CASE k \in 1..n
    BY <2>1, <1>9
  <2>2. CASE k \notin 1..n
    <3>1. k - n \in 1..m /\ n + (k - n) = k
      BY <2>2, <1>5
    <3> QED
      BY <3>1, <1>10
  <2> QED
    BY <2>1, <2>2
<1>12. WithRole(st, R) = d[n + m]
  <2>1. /\ st \in Seq(S)
        /\ \A k \in 1..Len(st) :
             d[k] = IF st[k].role \in R THEN Append(d[k - 1], st[k]) ELSE d[k - 1]
    BY <1>5, <1>11
  <2>2. WithRole(st, R) = d[Len(st)]
    BY <1>6, <2>1, WithRoleIs
  <2> QED
    BY <1>5, <2>2
<1>13. d[n + m] = c[n] \o e[m]
  <2>1. m \in 0..m
    BY <1>5
  <2> QED
    BY <1>7, <2>1, Zenon
<1> QED
  BY <1>1, <1>2, <1>12, <1>13 DEF st

\* Nothing but TokensOf starts at zero and adds the messages one by one.
LEMMA TokensAre ==
  ASSUME NEW s \in Seq(Messages), NEW d, d[0] = 0,
         \A k \in 1..Len(s) : d[k] = d[k - 1] + Tokens(s[k])
  PROVE  TokensOf(s) = d[Len(s)] /\ TokensOf(s) \in Nat
<1> DEFINE n == Len(s)
<1>1. PICK c : /\ c \in [0..n -> Nat] /\ c[0] = 0
               /\ \A k \in 1..n : c[k] = c[k - 1] + Tokens(s[k])
               /\ TokensOf(s) = c[n]
  BY TokensUnfold
<1> DEFINE P == {k \in 0..n : c[k] = d[k]}
<1>2. n \in Nat
  OBVIOUS
<1>3. \A k \in 1..n : d[k] = d[k - 1] + Tokens(s[k])
  OBVIOUS
<1> HIDE DEF n
<1>4. 0 \in P
  BY <1>1, <1>2
<1>5. ASSUME NEW k \in 0..n-1, c[k] = d[k]
      PROVE  c[k + 1] = d[k + 1]
  <2>1. k + 1 \in 1..n /\ (k + 1) - 1 = k
    BY <1>2
  <2> QED
    BY <2>1, <1>1, <1>3, <1>5
<1>6. \A k \in 0..n-1 : k \in P => k + 1 \in P
  BY <1>2, <1>5
<1>7. \A k \in 0..n : k \in P
  <2> HIDE DEF P
  <2> QED
    BY <1>2, <1>4, <1>6, Upward
<1> QED
  BY <1>1, <1>2, <1>7 DEF n

\* The tokens of two conversations add up.
LEMMA TokensOfConcat ==
  ASSUME NEW s \in Seq(Messages), NEW t \in Seq(Messages)
  PROVE  /\ TokensOf(s) \in Nat /\ TokensOf(t) \in Nat
         /\ TokensOf(s \o t) = TokensOf(s) + TokensOf(t)
<1> DEFINE n == Len(s)
           m == Len(t)
           st == s \o t
<1>1. PICK c : /\ c \in [0..n -> Nat] /\ c[0] = 0
               /\ \A k \in 1..n : c[k] = c[k - 1] + Tokens(s[k])
               /\ TokensOf(s) = c[n]
  BY TokensUnfold
<1>2. PICK e : /\ e \in [0..m -> Nat] /\ e[0] = 0
               /\ \A k \in 1..m : e[k] = e[k - 1] + Tokens(t[k])
               /\ TokensOf(t) = e[m]
  BY TokensUnfold
<1>3. /\ n \in Nat /\ m \in Nat /\ st \in Seq(Messages) /\ Len(st) = n + m
      /\ \A k \in 1..n : st[k] = s[k]
      /\ \A k \in 1..m : st[n + k] = t[k]
      /\ \A k \in 1..m : t[k] \in Messages
  OBVIOUS
<1> HIDE DEF n, m, st
<1> DEFINE d == [k \in 0..(n + m) |-> IF k <= n THEN c[k] ELSE c[n] + e[k - n]]
<1>4. d[0] = 0
  BY <1>1, <1>3
<1>5. \A k \in 0..m : d[n + k] = c[n] + e[k]
  <2> TAKE k \in 0..m
  <2>1. n + k \in 0..(n + m) /\ (n + k) - n = k /\ c[n] \in Nat
    BY <1>3, <1>1
  <2>2. CASE k = 0
    BY <2>1, <2>2, <1>2, <1>3
  <2>3. CASE k # 0
    <3>1. ~(n + k <= n)
      BY <1>3, <2>3
    <3> QED
      BY <2>1, <3>1
  <2> QED
    BY <2>2, <2>3
<1>6. \A k \in 0..n : d[k] = c[k]
  BY <1>3
<1> HIDE DEF d
<1>7. ASSUME NEW k \in 1..n
      PROVE  d[k] = d[k - 1] + Tokens(st[k])
  <2>1. k \in 0..n /\ k - 1 \in 0..n
    BY <1>3
  <2> QED
    BY <2>1, <1>1, <1>3, <1>6
<1>8. ASSUME NEW k \in 1..m
      PROVE  d[n + k] = d[(n + k) - 1] + Tokens(st[n + k])
  <2>1. k \in 0..m /\ k - 1 \in 0..m /\ (n + k) - 1 = n + (k - 1) /\ n \in 0..n
    BY <1>3
  <2>2. c[n] \in Nat /\ e[k - 1] \in Nat /\ Tokens(t[k]) \in Nat
    BY <2>1, <1>1, <1>2, <1>3, TokensAreNat
  <2>3. c[n] + (e[k - 1] + Tokens(t[k])) = (c[n] + e[k - 1]) + Tokens(t[k])
    BY <2>2
  <2>4. d[n + k] = c[n] + e[k] /\ d[(n + k) - 1] = c[n] + e[k - 1]
    BY <2>1, <1>5
  <2>5. e[k] = e[k - 1] + Tokens(t[k])
    BY <1>2
  <2> QED
    BY <2>3, <2>4, <2>5, <1>3
<1>9. ASSUME NEW k \in 1..(n + m)
      PROVE  d[k] = d[k - 1] + Tokens(st[k])
  <2>1. CASE k \in 1..n
    BY <2>1, <1>7
  <2>2. CASE k \notin 1..n
    <3>1. k - n \in 1..m /\ n + (k - n) = k
      BY <2>2, <1>3
    <3> QED
      BY <3>1, <1>8
  <2> QED
    BY <2>1, <2>2
<1>10. TokensOf(st) = d[n + m]
  BY <1>3, <1>4, <1>9, TokensAre
<1>11. d[n + m] = c[n] + e[m] /\ c[n] \in Nat /\ e[m] \in Nat
  BY <1>1, <1>2, <1>3, <1>5
<1> QED
  BY <1>1, <1>2, <1>10, <1>11 DEF st

------------------------------------------------------------------------------
(* Without the system's messages.                                          *)

Others == Roles \ {"system"}

\* Who speaks last is not changed by what comes at the end, but when that is the
\* assistant's.
LEMMA SpeaksBeforeAppend ==
  ASSUME NEW S, NEW r \in Seq(S), NEW m \in S
  PROVE  /\ \A k \in 0..Len(r), a \in Nat :
              Speaks(r, a, k) => Speaks(Append(r, m), a, k) /\ Append(r, m)[a] = r[a]
         /\ \A a \in Nat : m.role # "assistant" /\ Speaks(r, a, Len(r)) =>
              Speaks(Append(r, m), a, Len(r) + 1)
<1> DEFINE s == Append(r, m)
           n == Len(r)
<1>1. n \in Nat /\ s[n + 1] = m /\ \A i \in 1..n : s[i] = r[i]
  OBVIOUS
<1> HIDE DEF s, n
<1>2. ASSUME NEW k \in 0..n, NEW a \in Nat, Speaks(r, a, k)
      PROVE  Speaks(s, a, k) /\ s[a] = r[a]
  BY <1>1, <1>2 DEF Speaks
<1>3. ASSUME NEW a \in Nat, m.role # "assistant", Speaks(r, a, n)
      PROVE  Speaks(s, a, n + 1)
  BY <1>1, <1>3 DEF Speaks
<1> QED
  BY <1>2, <1>3 DEF s, n

\* What is selected up to k is answered, and ends with the same speaker.
Follows(r, s, k) ==
  /\ Answered(r)
  /\ \A a \in 1..k : Speaks(s, a, k) =>
       \E b \in 1..Len(r) : Speaks(r, b, Len(r)) /\ r[b] = s[a]

LEMMA FollowsStep ==
  ASSUME NEW s \in Seq(Plain), Answered(s), NEW k \in 0..Len(s)-1,
         NEW r \in Seq(Plain), Follows(r, s, k), s[k + 1].role # "system"
  PROVE  Follows(Append(r, s[k + 1]), s, k + 1)
<1> DEFINE m == s[k + 1]
           q == Append(r, m)
           n == Len(r)
<1>1. m \in Plain /\ k \in Nat /\ k + 1 \in 1..Len(s)
  OBVIOUS
<1>2. n \in Nat /\ Len(q) = n + 1 /\ q[n + 1] = m /\ \A i \in 1..n : q[i] = r[i]
  OBVIOUS
<1> HIDE DEF m, q, n
<1>3. /\ \A j \in 0..n, a \in Nat : Speaks(r, a, j) => Speaks(q, a, j) /\ q[a] = r[a]
      /\ \A a \in Nat : m.role # "assistant" /\ Speaks(r, a, n) => Speaks(q, a, n + 1)
  BY <1>1, SpeaksBeforeAppend DEF q, n
<1>4. \A a \in 1..k : Speaks(s, a, k) => \E b \in 1..n : Speaks(r, b, n) /\ r[b] = s[a]
  BY DEF Follows, n
<1>5. Answered(q)
  <2> SUFFICES ASSUME NEW i \in 1..(n + 1), q[i].role = "tool"
               PROVE  \E b \in 1..(i - 1) : Speaks(q, b, i - 1) /\ q[i].of \in Made(q[b])
    BY <1>2 DEF Answered
  <2>1. CASE i = n + 1
    <3>1. q[i] = m /\ m.role = "tool" /\ (k + 1) - 1 = k
      BY <1>1, <1>2, <2>1
    <3>2. PICK a \in 1..k : Speaks(s, a, k) /\ m.of \in Made(s[a])
      BY <3>1, <1>1 DEF Answered, m
    <3>3. PICK b \in 1..n : Speaks(r, b, n) /\ r[b] = s[a]
      BY <3>2, <1>4
    <3>4. Speaks(q, b, n) /\ q[b] = r[b]
      BY <3>3, <1>2, <1>3
    <3> QED
      BY <1>2, <2>1, <3>1, <3>2, <3>3, <3>4
  <2>2. CASE i # n + 1
    <3>1. i \in 1..n /\ i - 1 \in 0..n /\ q[i] = r[i] /\ Answered(r)
      BY <1>2, <2>2 DEF Follows
    <3>2. PICK b \in 1..(i - 1) : Speaks(r, b, i - 1) /\ r[i].of \in Made(r[b])
      BY <3>1 DEF Answered, n
    <3>3. Speaks(q, b, i - 1) /\ q[b] = r[b]
      BY <3>1, <3>2, <1>3
    <3> QED
      BY <3>1, <3>2, <3>3
  <2> QED
    BY <2>1, <2>2
<1>6. ASSUME NEW a \in 1..(k + 1), Speaks(s, a, k + 1)
      PROVE  \E b \in 1..(n + 1) : Speaks(q, b, n + 1) /\ q[b] = s[a]
  <2>1. CASE a = k + 1
    <3>1. q[n + 1] = s[a] /\ s[a].role = "assistant"
      BY <1>2, <1>6, <2>1 DEF Speaks, m
    <3>2. Speaks(q, n + 1, n + 1)
      BY <1>2, <3>1 DEF Speaks
    <3> QED
      BY <1>2, <3>1, <3>2
  <2>2. CASE a # k + 1
    <3>1. a \in 1..k /\ Speaks(s, a, k) /\ m.role # "assistant"
      BY <1>1, <1>6, <2>2 DEF Speaks, m
    <3>2. PICK b \in 1..n : Speaks(r, b, n) /\ r[b] = s[a]
      BY <3>1, <1>4
    <3>3. Speaks(q, b, n + 1) /\ q[b] = s[a] /\ b \in 1..(n + 1)
      BY <3>1, <3>2, <1>2, <1>3
    <3> QED
      BY <3>3
  <2> QED
    BY <2>1, <2>2
<1> QED
  BY <1>2, <1>5, <1>6 DEF Follows, q, m

\* Without the system's messages every tool message is still answered.
LEMMA OthersAreAnswered ==
  ASSUME NEW s \in Seq(Plain), Answered(s)
  PROVE  /\ OthersOf(s) \in Seq(Plain) /\ Answered(OthersOf(s))
         /\ \A i \in 1..Len(OthersOf(s)) : OthersOf(s)[i].role \in Others
<1> DEFINE n == Len(s)
<1>1. PICK c : Selects(c, s, Others, Plain) /\ WithRole(s, Others) = c[n]
  BY WithRoleUnfolds
<1>2. n \in Nat /\ \A k \in 1..n : s[k] \in Plain /\ s[k].role \in Roles
  <2>1. \A m \in Plain : m.role \in Roles
    BY DEF Plain, Messages
  <2> QED
    BY <2>1
<1>3. /\ \A k \in 0..n : c[k] \in Seq(Plain)
      /\ c[0] = << >>
      /\ \A k \in 1..n : c[k] = IF s[k].role \in Others THEN Append(c[k - 1], s[k]) ELSE c[k - 1]
  BY <1>1 DEF Selects
<1> DEFINE P == {k \in 0..n : Follows(c[k], s, k)}
<1>4. 0 \in P
  <2>1. Follows(<< >>, s, 0)
    BY DEF Follows, Answered
  <2> QED
    BY <1>2, <1>3, <2>1
<1>5. ASSUME NEW k \in 0..n-1, Follows(c[k], s, k)
      PROVE  Follows(c[k + 1], s, k + 1)
  <2>1. k + 1 \in 1..n /\ (k + 1) - 1 = k /\ k \in 0..n
    BY <1>2
  <2>2. CASE s[k + 1].role \in Others
    <3>1. Follows(Append(c[k], s[k + 1]), s, k + 1)
      BY <1>3, <1>5, <2>1, <2>2, FollowsStep DEF Others
    <3> QED
      BY <3>1, <2>1, <2>2, <1>3
  <2>3. CASE s[k + 1].role \notin Others
    <3>1. s[k + 1].role # "assistant" /\ c[k + 1] = c[k]
      BY <2>1, <2>3, <1>2, <1>3 DEF Others, Roles
    <3>2. \A a \in 1..(k + 1) : Speaks(s, a, k + 1) => a \in 1..k /\ Speaks(s, a, k)
      BY <3>1, <2>1, <1>2 DEF Speaks
    <3> QED
      BY <1>5, <3>1, <3>2 DEF Follows
  <2> QED
    BY <2>2, <2>3
<1>6. \A k \in 0..n : k \in P
  <2>1. \A k \in 0..n-1 : k \in P => k + 1 \in P
    BY <1>2, <1>5
  <2> HIDE DEF P
  <2> QED
    BY <1>2, <1>4, <2>1, Upward
<1>7. Answered(c[n]) /\ c[n] \in Seq(Plain)
  BY <1>2, <1>3, <1>6 DEF Follows
<1>8. c[n] \in Seq({m \in Plain : m.role \in Others})
  BY <1>1, WithRoleTyped
<1>9. \A i \in 1..Len(c[n]) : c[n][i].role \in Others
  BY <1>8
<1> QED
  BY <1>1, <1>7, <1>9 DEF OthersOf, Others

------------------------------------------------------------------------------
(* split_for_condensation.                                                 *)

LEMMA MaxOfTwo ==
  ASSUME NEW a \in Int, NEW b \in Int
  PROVE  Max({a, b}) = IF a >= b THEN a ELSE b
BY DEF Max

\* The tail begins behind the results that a cut would separate from their call.
LEMMA AfterResultsIs ==
  ASSUME NEW others \in Seq(Plain), NEW from \in 1..(Len(others) + 1)
  PROVE  /\ AfterResults(others, from) \in from..(Len(others) + 1)
         /\ AfterResults(others, from) <= Len(others) =>
              ~IsResult(others[AfterResults(others, from)])
         /\ \A j \in from..(AfterResults(others, from) - 1) : IsResult(others[j])
<1> DEFINE n == Len(others)
           F == {i \in from..(n + 1) : i <= n => ~IsResult(others[i])}
           T == {i \in from..(n + 1) :
                   /\ \A j \in from..(i - 1) : IsResult(others[j])
                   /\ i <= n => ~IsResult(others[i])}
<1>1. n \in Nat /\ from \in 1..(n + 1)
  OBVIOUS
<1> HIDE DEF n
<1>2. n + 1 \in F
  BY <1>1
<1>3. F \in SUBSET Nat
  BY <1>1
<1>4. PICK x \in F : \A y \in F : x <= y
  <2> HIDE DEF F
  <2> QED
    BY <1>2, <1>3, Least
<1>5. x \in T
  <2> SUFFICES ASSUME NEW j \in from..(x - 1), ~IsResult(others[j]) PROVE FALSE
    BY <1>4
  <2>1. j \in F
    BY <1>1, <1>4
  <2> QED
    BY <1>1, <1>4, <2>1
<1>6. T \in SUBSET Nat
  BY <1>1
<1>7. Min(T) \in T
  <2> HIDE DEF T
  <2> QED
    BY <1>5, <1>6, Minimum
<1> QED
  BY <1>7 DEF AfterResults, n

\* A tail from the cut or later costs no more than the budget, but for the least
\* number of messages.
LEMMA TailFromIs ==
  ASSUME NEW others \in Seq(Messages), NEW budget \in Int
  PROVE  /\ TailFrom(others, budget) \in 1..(Len(others) + 1)
         /\ \A i \in 1..Len(others) : Len(others) - i < MinTail => TailFrom(others, budget) <= i
         /\ \A i \in TailFrom(others, budget)..Len(others) :
              TokensOf(SubSeq(others, i, Len(others))) <= budget \/ Len(others) - i + 1 <= MinTail
<1> DEFINE n == Len(others)
           Fits(i) == TokensOf(SubSeq(others, i, n)) <= budget \/ n - i + 1 < MinTail
           R == {i \in 1..(n + 1) : \A j \in i..n : Fits(j)}
           reach == Min(R)
           least == Max({0, n - MinTail}) + 1
           cut == Min({reach, least})
<1>1. n \in Nat /\ MinTail \in Nat
  BY LimitsAreNat
<1>2. TailFrom(others, budget) = cut
  BY DEF TailFrom
<1> HIDE DEF Fits, n
<1>3. R \in SUBSET Nat /\ n + 1 \in R
  BY <1>1
<1>4. reach \in R
  <2> HIDE DEF R
  <2> QED
    BY <1>3, Minimum
<1>5. least = IF n > MinTail THEN n - MinTail + 1 ELSE 1
  <2>1. Max({0, n - MinTail}) = IF 0 >= n - MinTail THEN 0 ELSE n - MinTail
    BY <1>1, MaxOfTwo
  <2> QED
    BY <1>1, <2>1
<1> HIDE DEF R
<1>6. reach \in 1..(n + 1) /\ \A j \in reach..n : Fits(j)
  BY <1>4 DEF R
<1> HIDE DEF reach, least
<1>7. cut \in {reach, least} /\ cut <= reach /\ cut <= least
  <2>1. {reach, least} \in SUBSET Nat
    BY <1>1, <1>5, <1>6
  <2> QED
    BY <2>1, Minimum
<1> HIDE DEF cut
<1>8. cut \in 1..(n + 1)
  BY <1>1, <1>5, <1>6, <1>7
<1>9. ASSUME NEW i \in cut..n
      PROVE  TokensOf(SubSeq(others, i, n)) <= budget \/ n - i + 1 <= MinTail
  <2>1. CASE cut = reach
    <3>1. Fits(i)
      BY <1>6, <1>9, <2>1
    <3>2. n - i + 1 < MinTail => n - i + 1 <= MinTail
      BY <1>1, <1>8
    <3> QED
      BY <3>1, <3>2 DEF Fits
  <2>2. CASE cut = least
    BY <1>1, <1>5, <1>8, <2>2
  <2> QED
    BY <1>7, <2>1, <2>2
<1>10. ASSUME NEW i \in 1..n, n - i < MinTail
       PROVE  cut <= i
  BY <1>1, <1>5, <1>7, <1>8, <1>10
<1> QED
  BY <1>2, <1>8, <1>9, <1>10 DEF n

\* What a split is, when it splits: the others in two, the second part not of
\* results at its start and within the budget, and with every message of the last
\* MinTail that is no result.
SplitAt(others, parts, budget, from) ==
  LET n == Len(others) IN
  /\ from \in 1..(n + 1)
  /\ parts = [history |-> SubSeq(others, 1, from - 1), tail |-> SubSeq(others, from, n)]
  /\ from <= n => ~IsResult(others[from])
  /\ \A i \in 1..n : n - i < MinTail /\ ~IsResult(others[i]) => from <= i
  /\ TokensOf(SubSeq(others, from, n)) <= budget \/ Len(SubSeq(others, from, n)) <= MinTail

LEMMA BudgetIsInt ==
  ASSUME NEW s \in Seq(Messages), NEW tools \in Nat
  PROVE  /\ SystemOf(s) \in Seq(Messages) /\ TokensOf(SystemOf(s)) \in Nat
         /\ Budget(s, tools) \in Int
         /\ Budget(s, tools) = Limit - TokensOf(SystemOf(s)) - tools - Reserve
<1>1. SystemOf(s) \in Seq({m \in Messages : m.role \in {"system"}})
  BY WithRoleTyped DEF SystemOf
<1>2. SystemOf(s) \in Seq(Messages)
  BY <1>1
<1>3. TokensOf(SystemOf(s)) \in Nat
  BY <1>2, TokensOfConcat
<1> QED
  BY <1>2, <1>3, LimitsAreNat DEF Budget

\* split_for_condensation does that.
THEOREM SplitIs ==
  ASSUME NEW s \in Seq(Plain), Answered(s), NEW tools \in Nat, NEW system \in Nat,
         Condenses(Split(s, tools, system))
  PROVE  \E from : SplitAt(OthersOf(s), Split(s, tools, system), Budget(s, tools), from)
<1> DEFINE others == OthersOf(s)
           n == Len(others)
           budget == Budget(s, tools)
           cut == TailFrom(others, budget)
           from == AfterResults(others, cut)
<1>1. Split(s, tools, system) =
        [history |-> SubSeq(others, 1, from - 1), tail |-> SubSeq(others, from, n)]
  BY DEF Split, Condenses, NoSplit
<1>2. s \in Seq(Messages) /\ others \in Seq(Plain) /\ others \in Seq(Messages)
  <2>1. \A m \in Plain : m \in Messages
    BY DEF Plain
  <2>2. others \in Seq(Plain)
    BY OthersAreAnswered
  <2> HIDE DEF others
  <2> QED
    BY <2>1, <2>2
<1>3. budget \in Int
  BY <1>2, BudgetIsInt
<1>4. /\ cut \in 1..(n + 1)
      /\ \A i \in 1..n : n - i < MinTail => cut <= i
      /\ \A i \in cut..n :
           TokensOf(SubSeq(others, i, n)) <= budget \/ n - i + 1 <= MinTail
  <2> HIDE DEF others, budget
  <2> QED
    BY <1>2, <1>3, TailFromIs
<1>5. /\ from \in cut..(n + 1) /\ (from <= n => ~IsResult(others[from]))
      /\ \A j \in cut..(from - 1) : IsResult(others[j])
  <2> HIDE DEF others, cut
  <2> QED
    BY <1>2, <1>4, AfterResultsIs
<1>6. n \in Nat /\ MinTail \in Nat
  BY <1>2, LimitsAreNat
<1> HIDE DEF others, cut, budget, from
<1>7. TokensOf(SubSeq(others, from, n)) <= budget \/ Len(SubSeq(others, from, n)) <= MinTail
  <2>1. CASE from <= n
    <3>1. from \in cut..n
      BY <1>4, <1>5, <1>6, <2>1
    <3>2. Len(SubSeq(others, from, n)) = n - from + 1
      BY <1>2, <1>4, <1>5, <1>6, <2>1
    <3> QED
      BY <3>1, <3>2, <1>4
  <2>2. CASE ~(from <= n)
    <3>1. from = n + 1
      BY <1>4, <1>5, <1>6, <2>2
    <3>2. Len(SubSeq(others, from, n)) = 0
      BY <1>2, <1>6, <3>1
    <3> QED
      BY <1>6, <3>2
  <2> QED
    BY <2>1, <2>2
<1>8. from \in 1..(n + 1)
  BY <1>4, <1>5, <1>6
<1>9. ASSUME NEW i \in 1..n, n - i < MinTail, ~IsResult(others[i])
      PROVE  from <= i
  BY <1>4, <1>5, <1>6, <1>8, <1>9
<1>10. SplitAt(others, Split(s, tools, system), budget, from)
  BY <1>1, <1>5, <1>7, <1>8, <1>9 DEF SplitAt
<1> QED
  BY <1>10 DEF others, budget

------------------------------------------------------------------------------
\* What ResultsFollowCalls says of the messages that are sent.
FollowsCalls(kept, condensed) ==
  \A i \in DOMAIN kept : kept[i].role = "tool" =>
    LET before == {j \in 1..(i - 1) : kept[j].role = "assistant"}
    IN  IF before = {} THEN condensed /\ kept[1].role = "user"
        ELSE kept[i].of \in Made(kept[Max(before)])

\* It holds of the end of an answered conversation that begins with no result.
LEMMA TailFollowsCalls ==
  ASSUME NEW s \in Seq(Plain), Answered(s), \A i \in 1..Len(s) : s[i].role \in Others,
         NEW from \in 1..(Len(s) + 1), from <= Len(s) => s[from].role # "tool"
  PROVE  /\ FollowsCalls(SubSeq(s, from, Len(s)), TRUE)
         /\ from = 1 => FollowsCalls(s, FALSE)
<1> DEFINE n == Len(s)
           t == SubSeq(s, from, n)
           m == n - from + 1
<1>1. n \in Nat /\ m \in Nat /\ DOMAIN t = 1..m /\ \A j \in 1..m : t[j] = s[from - 1 + j]
  OBVIOUS
<1>2. from \in 1..(n + 1)
  OBVIOUS
<1>3. Answered(s) /\ (from <= n => s[from].role # "tool") /\ \A i \in 1..n : s[i].role \in Others
  OBVIOUS
<1>4. from = 1 => t = s
  BY SubSeqFull
<1> HIDE DEF n, t, m
<1>5. m = n - from + 1
  BY DEF m
<1>6. ASSUME NEW i \in 1..m, t[i].role = "tool"
      PROVE  LET before == {j \in 1..(i - 1) : t[j].role = "assistant"}
             IN  IF before = {} THEN from # 1 /\ t[1].role = "user"
                 ELSE t[i].of \in Made(t[Max(before)])
  <2> DEFINE p == from - 1 + i
             before == {j \in 1..(i - 1) : t[j].role = "assistant"}
  <2>1. p \in 1..n /\ t[i] = s[p] /\ s[p].role = "tool"
    BY <1>1, <1>2, <1>5, <1>6
  <2>2. PICK a \in 1..(p - 1) : Speaks(s, a, p - 1) /\ s[p].of \in Made(s[a])
    BY <2>1, <1>3 DEF Answered, n
  <2>3. CASE a >= from
    <3> DEFINE b == a - (from - 1)
    <3>1. b \in 1..(i - 1) /\ b \in 1..m /\ from - 1 + b = a
      BY <1>1, <1>2, <1>5, <1>6, <2>2, <2>3
    <3>2. t[b] = s[a] /\ b \in before
      BY <3>1, <2>2, <1>1 DEF Speaks
    <3>3. before \in SUBSET (0..i) /\ i \in Nat
      BY <1>1
    <3>4. Max(before) \in before /\ Max(before) >= b
      <4> HIDE DEF before, b
      <4> QED
        BY <3>2, <3>3, Maximum
    <3>5. \A j \in before : j <= b
      <4> SUFFICES ASSUME NEW j \in 1..(i - 1), t[j].role = "assistant", j > b PROVE FALSE
        BY <3>1
      <4>1. j \in 1..m /\ t[j] = s[from - 1 + j]
        BY <1>1, <1>6
      <4>2. a \in Int /\ from \in Int /\ i \in Int /\ j \in Int /\ j <= i - 1 /\ j > a - (from - 1)
        BY <1>1, <1>2, <2>2
      <4>3. from - 1 + j \in (a + 1)..(p - 1)
        BY <4>2
      <4> QED
        BY <4>1, <4>3, <2>2 DEF Speaks
    <3>6. Max(before) = b
      BY <3>1, <3>4, <3>5
    <3> QED
      BY <2>1, <2>2, <3>2, <3>6
  <2>4. CASE a < from
    <3>1. before = {}
      <4> SUFFICES ASSUME NEW j \in 1..(i - 1), t[j].role = "assistant" PROVE FALSE
        OBVIOUS
      <4>1. from - 1 + j \in (a + 1)..(p - 1) /\ t[j] = s[from - 1 + j]
        BY <1>1, <1>2, <1>5, <1>6, <2>2, <2>4
      <4> QED
        BY <4>1, <2>2 DEF Speaks
    <3>2. from # 1 /\ from <= n /\ t[1] = s[from] /\ 1 \in 1..m
      BY <1>1, <1>2, <1>5, <1>6, <2>2, <2>4, SMTT(30)
    <3>3. i # 1
      BY <1>3, <1>6, <3>2
    <3>4. 1 \in 1..(i - 1) /\ t[1].role # "assistant"
      BY <1>1, <3>1, <3>3
    <3>5. t[1].role \in Others /\ t[1].role # "tool"
      BY <1>2, <1>3, <3>2
    <3>6. t[1].role = "user"
      BY <3>4, <3>5 DEF Others, Roles
    <3> QED
      BY <3>1, <3>2, <3>6
  <2>5. a \in Int /\ from \in Int
    BY <1>2
  <2> QED
    BY <2>3, <2>4, <2>5
<1>7. FollowsCalls(t, TRUE)
  BY <1>1, <1>6 DEF FollowsCalls
<1>8. from = 1 => FollowsCalls(s, FALSE)
  BY <1>1, <1>4, <1>6 DEF FollowsCalls
<1> QED
  BY <1>7, <1>8 DEF t, n

------------------------------------------------------------------------------
(* The names of models.  Reading a name undoes every way of writing it.     *)

\* Segments of names.  The literals are all strings; they are named because the
\* provers do not know it.
Segments ==
  STRING \cup {"claude", "opus", "sonnet", "giulia", "leonardo", "raptor"}
         \cup {"thinking", "max", "high", "xhigh", "medium"}

LEMMA NamesAreOfSegments ==
  ASSUME NEW s \in Seq(STRING)
  PROVE  s \in Seq(Segments)
BY DEF Segments

\* One segment, as it is published and as it is configured.
Alias(word) == IF word \in DOMAIN Aliases THEN Aliases[word] ELSE word
Family(word) == IF word \in DOMAIN Codenames THEN Codenames[word] ELSE word

\* The two tables, word by word.
LEMMA Tables ==
  /\ DOMAIN Aliases = {"claude", "opus", "sonnet"}
  /\ Aliases["claude"] = "giulia" /\ Aliases["opus"] = "leonardo" /\ Aliases["sonnet"] = "raptor"
  /\ DOMAIN Codenames = {"giulia", "leonardo", "raptor"}
  /\ Codenames["giulia"] = "claude" /\ Codenames["leonardo"] = "opus" /\ Codenames["raptor"] = "sonnet"
BY DEF Aliases, Codenames

\* A family's codename is read as the family.
LEMMA WordsComeBack ==
  ASSUME NEW w \in Segments
  PROVE  /\ Alias(w) \in Segments /\ Family(w) \in Segments
         /\ w \notin DOMAIN Codenames => Family(w) = w /\ Family(Alias(w)) = w
<1>1. {"claude", "opus", "sonnet", "giulia", "leonardo", "raptor"} \subseteq Segments
  BY DEF Segments
<1>2. CASE w \in {"claude", "opus", "sonnet"}
  BY <1>1, <1>2, Tables DEF Alias, Family
<1>3. CASE w \in {"giulia", "leonardo", "raptor"}
  BY <1>1, <1>3, Tables DEF Alias, Family
<1>4. CASE w \notin DOMAIN Aliases \cup DOMAIN Codenames
  BY <1>4 DEF Alias, Family
<1> QED
  BY <1>2, <1>3, <1>4, Tables

\* Sequence a is s with f applied to each element.
IsImage(a, s, f, S) == a \in Seq(S) /\ Len(a) = Len(s) /\ \A i \in 1..Len(s) : a[i] = f[s[i]]

\* Replacing element by element distributes over concatenation.
LEMMA MapOfConcat ==
  ASSUME NEW S, NEW f, NEW s \in Seq(S), NEW t \in Seq(S), NEW a, NEW b, NEW c,
         IsImage(a, s, f, S), IsImage(b, t, f, S), IsImage(c, s \o t, f, S)
  PROVE  c = a \o b
<1> DEFINE u == s \o t
           v == a \o b
<1>1. /\ Len(u) = Len(s) + Len(t)
      /\ \A i \in 1..Len(s) + Len(t) : u[i] = IF i <= Len(s) THEN s[i] ELSE t[i - Len(s)]
  BY ConcatProperties
<1>0. /\ a \in Seq(S) /\ Len(a) = Len(s) /\ \A i \in 1..Len(s) : a[i] = f[s[i]]
      /\ b \in Seq(S) /\ Len(b) = Len(t) /\ \A i \in 1..Len(t) : b[i] = f[t[i]]
  BY DEF IsImage
<1>2. /\ v \in Seq(S) /\ Len(v) = Len(a) + Len(b)
      /\ \A i \in 1..Len(a) + Len(b) : v[i] = IF i <= Len(a) THEN a[i] ELSE b[i - Len(a)]
  <2>1. a \in Seq(S) /\ b \in Seq(S)
    BY <1>0
  <2> QED
    BY <2>1, ConcatProperties
<1>3. c \in Seq(S) /\ Len(c) = Len(u) /\ \A i \in 1..Len(u) : c[i] = f[u[i]]
  BY DEF IsImage
<1>4. Len(s) \in Nat /\ Len(t) \in Nat
  OBVIOUS
<1> HIDE DEF u, v
<1>5. ASSUME NEW i \in 1..Len(c)
      PROVE  c[i] = v[i]
  <2>1. i \in 1..Len(s) + Len(t) /\ i \in 1..Len(a) + Len(b)
    BY <1>0, <1>1, <1>3, <1>4
  <2>2. CASE i <= Len(s)
    <3>1. i \in 1..Len(s) /\ u[i] = s[i] /\ v[i] = a[i] /\ c[i] = f[u[i]]
      BY <1>0, <1>1, <1>2, <1>3, <2>1, <2>2
    <3> QED
      BY <1>0, <3>1
  <2>3. CASE ~(i <= Len(s))
    <3>1. i - Len(s) \in 1..Len(t) /\ u[i] = t[i - Len(s)] /\ v[i] = b[i - Len(s)] /\ c[i] = f[u[i]]
      BY <1>0, <1>1, <1>2, <1>3, <1>4, <2>1, <2>3
    <3> QED
      BY <1>0, <3>1
  <2> QED
    BY <2>2, <2>3
<1>6. c \in Seq(S) /\ v \in Seq(S) /\ Len(c) = Len(v)
  BY <1>0, <1>1, <1>2, <1>3
<1>7. c = v
  BY <1>5, <1>6, SeqEqual
<1> QED
  BY <1>7 DEF v

\* What ReplaceSegments returns.
LEMMA ReplacedIs ==
  ASSUME NEW s \in Seq(Segments)
  PROVE  /\ ReplaceSegments(s, Aliases) \in Seq(Segments)
         /\ Len(ReplaceSegments(s, Aliases)) = Len(s)
         /\ \A i \in 1..Len(s) : ReplaceSegments(s, Aliases)[i] = Alias(s[i])
         /\ ReplaceSegments(s, Codenames) \in Seq(Segments)
         /\ Len(ReplaceSegments(s, Codenames)) = Len(s)
         /\ \A i \in 1..Len(s) : ReplaceSegments(s, Codenames)[i] = Family(s[i])
<1> DEFINE a == [i \in 1..Len(s) |-> Alias(s[i])]
           f == [i \in 1..Len(s) |-> Family(s[i])]
<1>1. ReplaceSegments(s, Aliases) = a /\ ReplaceSegments(s, Codenames) = f
  BY DOMAIN s = 1..Len(s) DEF ReplaceSegments, Alias, Family
<1>2. \A i \in 1..Len(s) : Alias(s[i]) \in Segments /\ Family(s[i]) \in Segments
  BY WordsComeBack
<1>3. a \in Seq(Segments) /\ f \in Seq(Segments)
  BY <1>2
<1>4. Len(a) = Len(s) /\ Len(f) = Len(s)
  OBVIOUS
<1> QED
  BY <1>1, <1>3, <1>4

LEMMA ReplacedConcat ==
  ASSUME NEW s \in Seq(Segments), NEW t \in Seq(Segments)
  PROVE  /\ ReplaceSegments(s \o t, Aliases) = ReplaceSegments(s, Aliases) \o ReplaceSegments(t, Aliases)
         /\ ReplaceSegments(s \o t, Codenames) = ReplaceSegments(s, Codenames) \o ReplaceSegments(t, Codenames)
<1> DEFINE f == [w \in Segments |-> Alias(w)]
           g == [w \in Segments |-> Family(w)]
<1>1. ASSUME NEW x \in Seq(Segments)
      PROVE  /\ IsImage(ReplaceSegments(x, Aliases), x, f, Segments)
             /\ IsImage(ReplaceSegments(x, Codenames), x, g, Segments)
  BY ReplacedIs DEF IsImage
<1> HIDE DEF f, g
<1>2. s \o t \in Seq(Segments)
  OBVIOUS
<1>3. ReplaceSegments(s \o t, Aliases) = ReplaceSegments(s, Aliases) \o ReplaceSegments(t, Aliases)
  BY <1>1, <1>2, MapOfConcat, Zenon
<1>4. ReplaceSegments(s \o t, Codenames) = ReplaceSegments(s, Codenames) \o ReplaceSegments(t, Codenames)
  BY <1>1, <1>2, MapOfConcat, Zenon
<1> QED
  BY <1>3, <1>4

\* What is published comes back.
LEMMA AliasesComeBack ==
  ASSUME NEW s \in Seq(Segments), \A i \in DOMAIN s : s[i] \notin DOMAIN Codenames
  PROVE  /\ ReplaceSegments(s, Codenames) = s
         /\ ReplaceSegments(ReplaceSegments(s, Aliases), Codenames) = s
<1> DEFINE a == ReplaceSegments(s, Aliases)
           b == ReplaceSegments(s, Codenames)
           c == ReplaceSegments(a, Codenames)
<1>1. /\ a \in Seq(Segments) /\ Len(a) = Len(s) /\ \A i \in 1..Len(s) : a[i] = Alias(s[i])
      /\ b \in Seq(Segments) /\ Len(b) = Len(s) /\ \A i \in 1..Len(s) : b[i] = Family(s[i])
  BY ReplacedIs
<1>2. c \in Seq(Segments) /\ Len(c) = Len(s) /\ \A i \in 1..Len(s) : c[i] = Family(a[i])
  BY <1>1, ReplacedIs
<1> HIDE DEF a, b, c
<1>3. \A i \in 1..Len(s) : b[i] = s[i] /\ c[i] = s[i]
  <2> TAKE i \in 1..Len(s)
  <2>1. s[i] \in Segments /\ s[i] \notin DOMAIN Codenames
    OBVIOUS
  <2> QED
    BY <1>1, <1>2, <2>1, WordsComeBack
<1>4. b = s /\ c = s
  BY <1>1, <1>2, <1>3, SeqEqual
<1> QED
  BY <1>4 DEF a, b, c

\* A concatenation is cut where it was joined.
LEMMA CutConcat ==
  ASSUME NEW S, NEW s \in Seq(S), NEW t \in Seq(S)
  PROVE  /\ SubSeq(s \o t, 1, Len(s)) = s
         /\ SubSeq(s \o t, Len(s) + 1, Len(s \o t)) = t
<1>1. Len(s) \in Nat /\ Len(t) \in Nat /\ Len(s \o t) = Len(s) + Len(t)
  OBVIOUS
<1>2. SubSeq(s \o t, 1, Len(s)) = s
  <2>1. CASE s = << >>
    <3>1. Len(s) = 0
      BY <2>1
    <3> QED
      BY <2>1, <3>1, SubSeqEmpty
  <2>2. CASE s # << >>
    <3>1. 1 \in 1..Len(s) /\ Len(s) \in 1..Len(s)
      BY <2>2
    <3>2. SubSeq(s \o t, 1, Len(s)) = SubSeq(s, 1, Len(s))
      BY <3>1, SubSeqOfConcat1
    <3> QED
      BY <3>2, SubSeqFull
  <2> QED
    BY <2>1, <2>2
<1>3. SubSeq(s \o t, Len(s) + 1, Len(s) + Len(t)) = t
  <2> DEFINE a == Len(s) + 1
             b == Len(s) + Len(t)
  <2>1. a \in Int /\ b \in Int /\ a - Len(s) = 1 /\ b - Len(s) = Len(t)
    BY <1>1
  <2>2. CASE t = << >>
    <3>1. b < a
      BY <2>2
    <3> HIDE DEF a, b
    <3>2. SubSeq(s \o t, a, b) = << >>
      BY <2>1, <3>1, SubSeqEmpty
    <3> QED
      BY <2>2, <3>2 DEF a, b
  <2>3. CASE t # << >>
    <3>1. a \in Len(s) + 1..Len(s) + Len(t) /\ b \in Len(s) + 1..Len(s) + Len(t)
      BY <2>3
    <3> HIDE DEF a, b
    <3>2. SubSeq(s \o t, a, b) = SubSeq(t, a - Len(s), b - Len(s))
      BY <3>1, SubSeqOfConcat2
    <3>3. SubSeq(s \o t, a, b) = t
      BY <2>1, <3>2, SubSeqFull
    <3> QED
      BY <3>3 DEF a, b
  <2> QED
    BY <2>2, <2>3
<1> QED
  BY <1>1, <1>2, <1>3

\* What begins with what.
LEMMA BeginsWithOne ==
  ASSUME NEW S, NEW s \in Seq(S), NEW t \in Seq(S)
  PROVE  /\ IsPrefix(s, s \o t)
         /\ s # << >> /\ IsPrefix(s, t) => t # << >> /\ s[1] = t[1]
<1>1. IsPrefix(s, s \o t)
  <2>1. Len(s) <= Len(s \o t)
    OBVIOUS
  <2>2. SubSeq(s, 1, Len(s)) = s
    BY SubSeqFull
  <2> QED
    BY <2>1, <2>2, CutConcat DEF IsPrefix
<1>2. ASSUME s # << >>, IsPrefix(s, t)
      PROVE  t # << >> /\ s[1] = t[1]
  <2> DEFINE n == Len(s)
  <2>1. n \in Nat /\ n >= 1 /\ n <= Len(t) /\ SubSeq(s, 1, n) = SubSeq(t, 1, n)
    BY <1>2 DEF IsPrefix
  <2>2. SubSeq(s, 1, n)[1] = s[1] /\ SubSeq(t, 1, n)[1] = t[1]
    BY <2>1
  <2> QED
    BY <2>1, <2>2
<1> QED
  BY <1>1, <1>2

LEMMA BeginsWithTwo ==
  ASSUME NEW S, NEW a \in S, NEW b \in S, NEW t \in Seq(S)
  PROVE  IsPrefix(<<a, b>>, t) <=> Len(t) >= 2 /\ t[1] = a /\ t[2] = b
<1> DEFINE p == <<a, b>>
<1>1. p \in Seq(S) /\ Len(p) = 2 /\ p[1] = a /\ p[2] = b
  OBVIOUS
<1>2. SubSeq(p, 1, 2) = p
  <2> HIDE DEF p
  <2> QED
    BY <1>1, SubSeqFull
<1>3. ASSUME Len(t) >= 2
      PROVE  SubSeq(t, 1, 2) = p <=> t[1] = a /\ t[2] = b
  <2> DEFINE q == SubSeq(t, 1, 2)
  <2>1. q \in Seq(S) /\ Len(q) = 2 /\ q[1] = t[1] /\ q[2] = t[2]
    BY <1>3
  <2> HIDE DEF p, q
  <2>2. q[1] = a /\ q[2] = b => q = p
    <3>1. ASSUME q[1] = a, q[2] = b PROVE \A i \in 1..Len(q) : q[i] = p[i]
      BY <1>1, <2>1, <3>1
    <3> QED
      BY <3>1, <1>1, <2>1, SeqEqual
  <2> QED
    BY <1>1, <2>1, <2>2 DEF q
<1>4. IsPrefix(<<a, b>>, t) <=> 2 <= Len(t) /\ <<a, b>> = SubSeq(t, 1, 2)
  BY <1>1 DEF IsPrefix
<1> QED
  BY <1>3, <1>4

\* What begins with what, segment by segment.
LEMMA PrefixIs ==
  ASSUME NEW S, NEW s \in Seq(S), NEW t \in Seq(S)
  PROVE  IsPrefix(s, t) <=> Len(s) <= Len(t) /\ \A i \in 1..Len(s) : s[i] = t[i]
<1>1. SubSeq(s, 1, Len(s)) = s
  BY SubSeqFull
<1>2. CASE Len(s) <= Len(t)
  <2> DEFINE u == SubSeq(t, 1, Len(s))
  <2>1. u \in Seq(S) /\ Len(u) = Len(s) /\ \A i \in 1..Len(s) : u[i] = t[i]
    BY <1>2
  <2>2. IsPrefix(s, t) <=> s = u
    BY <1>1, <1>2 DEF IsPrefix
  <2> HIDE DEF u
  <2>3. s = u <=> \A i \in 1..Len(s) : s[i] = u[i]
    BY <2>1, SeqEqual
  <2> QED
    BY <1>2, <2>1, <2>2, <2>3
<1>3. CASE ~(Len(s) <= Len(t))
  BY <1>3 DEF IsPrefix
<1> QED
  BY <1>2, <1>3

\* What more begins with p, where a is not the beginning of p.
LEMMA PrefixOfConcat ==
  ASSUME NEW S, NEW p \in Seq(S), NEW a \in Seq(S), NEW s \in Seq(S), ~IsPrefix(a, p)
  PROVE  /\ IsPrefix(p, a \o s) <=> IsPrefix(p, a)
         /\ ~IsPrefix(a \o s, p)
<1> DEFINE y == a \o s
<1>1. /\ y \in Seq(S) /\ Len(y) = Len(a) + Len(s)
      /\ \A i \in 1..Len(a) + Len(s) : y[i] = IF i <= Len(a) THEN a[i] ELSE s[i - Len(a)]
  BY ConcatProperties
<1>2. Len(a) \in Nat /\ Len(s) \in Nat /\ Len(p) \in Nat
  OBVIOUS
<1> HIDE DEF y
<1>3. \A i \in 1..Len(a) : i \in 1..Len(y) /\ y[i] = a[i]
  BY <1>1, <1>2
<1>4. /\ IsPrefix(p, y) <=> Len(p) <= Len(y) /\ \A i \in 1..Len(p) : p[i] = y[i]
      /\ IsPrefix(p, a) <=> Len(p) <= Len(a) /\ \A i \in 1..Len(p) : p[i] = a[i]
      /\ IsPrefix(y, p) <=> Len(y) <= Len(p) /\ \A i \in 1..Len(y) : y[i] = p[i]
      /\ ~(Len(a) <= Len(p) /\ \A i \in 1..Len(a) : a[i] = p[i])
  <2>1. ASSUME NEW s1 \in Seq(S), NEW t1 \in Seq(S)
        PROVE  IsPrefix(s1, t1) <=> Len(s1) <= Len(t1) /\ \A i \in 1..Len(s1) : s1[i] = t1[i]
    BY PrefixIs
  <2> QED
    BY <1>1, <2>1, Zenon
<1>5. ~IsPrefix(y, p)
  <2> SUFFICES ASSUME Len(y) <= Len(p), \A i \in 1..Len(y) : y[i] = p[i] PROVE FALSE
    BY <1>4
  <2>1. Len(a) <= Len(p)
    BY <1>1, <1>2
  <2>2. \A i \in 1..Len(a) : a[i] = p[i]
    BY <1>3
  <2> QED
    BY <1>4, <2>1, <2>2
<1>6. CASE Len(p) <= Len(a)
  <2>1. \A i \in 1..Len(p) : y[i] = a[i]
    BY <1>2, <1>3, <1>6
  <2>2. Len(p) <= Len(y)
    BY <1>1, <1>2, <1>6
  <2> QED
    BY <1>4, <1>5, <1>6, <2>1, <2>2 DEF y
<1>7. CASE ~(Len(p) <= Len(a))
  <2>1. ~IsPrefix(p, a)
    BY <1>4, <1>7
  <2>2. ~IsPrefix(p, y)
    <3> SUFFICES ASSUME \A i \in 1..Len(p) : p[i] = y[i] PROVE FALSE
      BY <1>4
    <3>1. \A i \in 1..Len(a) : a[i] = p[i]
      BY <1>2, <1>3, <1>7
    <3> QED
      BY <1>2, <1>4, <1>7, <3>1
  <2> QED
    BY <1>5, <2>1, <2>2 DEF y
<1> QED
  BY <1>6, <1>7

\* What strictly begins with s is s and something.
LEMMA StrictlyBegins ==
  ASSUME NEW S, NEW s \in Seq(S), NEW t \in Seq(S)
  PROVE  /\ t # << >> => IsStrictPrefix(s, s \o t)
         /\ IsStrictPrefix(s, t) =>
              LET u == SubSeq(t, Len(s) + 1, Len(t)) IN u \in Seq(S) /\ u # << >> /\ t = s \o u
<1>1. ASSUME t # << >> PROVE IsStrictPrefix(s, s \o t)
  <2>1. Len(s \o t) # Len(s)
    BY <1>1
  <2> QED
    BY <2>1, BeginsWithOne DEF IsStrictPrefix
<1>2. ASSUME IsStrictPrefix(s, t)
      PROVE  LET u == SubSeq(t, Len(s) + 1, Len(t)) IN u \in Seq(S) /\ u # << >> /\ t = s \o u
  <2> DEFINE k == Len(s)
             l == Len(t)
             u == SubSeq(t, k + 1, l)
             y == s \o u
  <2>1. k \in Nat /\ l \in Nat /\ k <= l /\ s # t /\ \A i \in 1..k : s[i] = t[i]
    BY <1>2, PrefixIs DEF IsStrictPrefix
  <2>2. k # l
    <3> SUFFICES ASSUME k = l PROVE FALSE
      OBVIOUS
    <3> QED
      BY <2>1, SeqEqual
  <2>3. u \in Seq(S) /\ Len(u) = l - k /\ \A i \in 1..(l - k) : u[i] = t[k + i]
    BY <2>1, <2>2
  <2> HIDE DEF u
  <2>4. y \in Seq(S) /\ Len(y) = k + Len(u)
        /\ \A i \in 1..k + Len(u) : y[i] = IF i <= k THEN s[i] ELSE u[i - k]
    BY <2>3, ConcatProperties
  <2> HIDE DEF y, k, l
  <2>5. Len(y) = l /\ Len(u) >= 1
    BY <2>1, <2>2, <2>3, <2>4
  <2>6. ASSUME NEW i \in 1..l PROVE y[i] = t[i]
    <3>1. y[i] = IF i <= k THEN s[i] ELSE u[i - k]
      BY <2>1, <2>2, <2>3, <2>4
    <3>2. CASE i <= k
      BY <2>1, <3>1, <3>2
    <3>3. CASE ~(i <= k)
      <4>1. i - k \in 1..(l - k) /\ k + (i - k) = i
        BY <2>1, <3>3
      <4> QED
        BY <2>3, <3>1, <3>3, <4>1
    <3> QED
      BY <3>2, <3>3
  <2>7. y = t
    BY <2>4, <2>5, <2>6, SeqEqual DEF l
  <2>8. u # << >>
    BY <2>5
  <2> QED
    BY <2>3, <2>7, <2>8 DEF u, y, k, l
<1> QED
  BY <1>1, <1>2

\* Of the older form.
Older(name) == IsPrefix(<<"claude", "opus">>, name)

Aliased(name) == ReplaceSegments(name, Aliases)
Named(name) == ReplaceSegments(name, Codenames)

\* The part of a name behind the prefix, when its public name begins with that.
Behind(name) == Named(Unprefixed(Aliased(name)))

\* A name that cannot be taken for another.
Clear(name) ==
  /\ name \in Seq(Segments) /\ name # << >>
  /\ \A i \in DOMAIN name : name[i] \notin DOMAIN Codenames
  /\ ~Older(name)
  /\ ~IsPrefix(Aliased(name), Prefix)
  /\ Prefixed(Aliased(name)) =>
       /\ ~Older(Behind(name))
       /\ ~IsPrefix(Unprefixed(Aliased(name)), Prefix)
       /\ ~Prefixed(Unprefixed(Aliased(name)))

LEMMA ApartIsClear ==
  ASSUME NEW name, Apart(name)
  PROVE  Clear(name)
<1>1. name \in Seq(Segments) /\ name # << >>
  BY NamesAreOfSegments DEF Apart
<1> QED
  BY <1>1, Zenon DEF Clear, Apart, Older, Aliased, Named, Behind

\* What is assumed of the prefix and the models.
LEMMA Configuration ==
  /\ Prefix \in Seq(Segments)
  /\ \A i \in 1..Len(Prefix) : Prefix[i] \notin DOMAIN Aliases
  /\ \A m \in Models : Clear(m)
<1>1. Prefix \in Seq(STRING \ DOMAIN Aliases)
  BY ReadInOneWay DEF NamesAreApart
<1>2. \A i \in 1..Len(Prefix) : Prefix[i] \in STRING \ DOMAIN Aliases
  BY <1>1
<1>3. Prefix \in Seq(STRING)
  BY <1>1
<1> QED
  BY <1>2, <1>3, ReadInOneWay, NamesAreOfSegments, ApartIsClear DEF NamesAreApart

\* The prefix is put on and taken off.
LEMMA PrefixOnAndOff ==
  ASSUME NEW x \in Seq(Segments), x # << >>
  PROVE  /\ Unprefixed(Prefix \o x) = x
         /\ Prefix # << >> => Prefixed(Prefix \o x)
         /\ Prefix = << >> => Prefix \o x = x /\ ~Prefixed(x)
         /\ ~Prefixed(x) => Unprefixed(x) = x
         /\ Prefixed(x) => /\ Unprefixed(x) \in Seq(Segments) /\ Unprefixed(x) # << >>
                           /\ x = Prefix \o Unprefixed(x)
<1>1. Prefix \in Seq(Segments)
  BY Configuration
<1>2. Prefix # << >> => Prefixed(Prefix \o x)
  BY <1>1, StrictlyBegins DEF Prefixed
<1>3. Prefix = << >> => Prefix \o x = x /\ ~Prefixed(x)
  BY DEF Prefixed
<1>4. Prefixed(x) => /\ Unprefixed(x) \in Seq(Segments) /\ Unprefixed(x) # << >>
                     /\ x = Prefix \o Unprefixed(x)
  BY <1>1, StrictlyBegins DEF Prefixed, Unprefixed
<1>5. ~Prefixed(x) => Unprefixed(x) = x
  BY DEF Unprefixed
<1>6. Prefix # << >> => Unprefixed(Prefix \o x) = x
  BY <1>1, <1>2, CutConcat DEF Unprefixed
<1> QED
  BY <1>2, <1>3, <1>4, <1>5, <1>6

\* Codenames are published as they are, and so is the prefix.
LEMMA AliasedIs ==
  ASSUME NEW n \in Seq(Segments)
  PROVE  /\ Aliased(n) \in Seq(Segments) /\ Len(Aliased(n)) = Len(n)
         /\ Named(n) \in Seq(Segments) /\ Len(Named(n)) = Len(n)
         /\ n # << >> => Aliased(n) # << >> /\ Named(n) # << >>
         /\ Aliased(Aliased(n)) = Aliased(n)
         /\ (\A i \in 1..Len(n) : n[i] \notin DOMAIN Aliases) => Aliased(n) = n
<1> DEFINE a == Aliased(n)
           b == Aliased(a)
<1>1. /\ a \in Seq(Segments) /\ Len(a) = Len(n) /\ \A i \in 1..Len(n) : a[i] = Alias(n[i])
      /\ Named(n) \in Seq(Segments) /\ Len(Named(n)) = Len(n)
  BY ReplacedIs DEF Aliased, Named
<1>2. b \in Seq(Segments) /\ Len(b) = Len(a) /\ \A i \in 1..Len(a) : b[i] = Alias(a[i])
  BY <1>1, ReplacedIs DEF Aliased
<1> HIDE DEF a, b
<1>3. \A w : Alias(Alias(w)) = Alias(w)
  BY Tables DEF Alias
<1>4. \A i \in 1..Len(a) : b[i] = a[i]
  BY <1>1, <1>2, <1>3
<1>5. b = a
  BY <1>1, <1>2, <1>4, SeqEqual
<1>6. ASSUME \A i \in 1..Len(n) : n[i] \notin DOMAIN Aliases
      PROVE  a = n
  <2>1. \A i \in 1..Len(n) : a[i] = n[i]
    BY <1>1, <1>6 DEF Alias
  <2> QED
    BY <1>1, <2>1, SeqEqual
<1>7. n # << >> => a # << >> /\ Named(n) # << >>
  BY <1>1
<1> QED
  BY <1>1, <1>5, <1>6, <1>7 DEF a, b

\* The public name is the prefix and the codenames, with the prefix once; and it is
\* its own public name.
LEMMA PublicIs ==
  ASSUME NEW n \in Seq(Segments), n # << >>
  PROVE  /\ ToPublicName(n) \in Seq(Segments) /\ ToPublicName(n) # << >>
         /\ Aliased(ToPublicName(n)) = ToPublicName(n)
         /\ ToPublicName(ToPublicName(n)) = ToPublicName(n)
         /\ ToPublicName(Aliased(n)) = ToPublicName(n)
         /\ Prefixed(Aliased(n)) => ToPublicName(n) = Aliased(n)
         /\ ~Prefixed(Aliased(n)) => ToPublicName(n) = Prefix \o Aliased(n)
<1> DEFINE a == Aliased(n)
           p == ToPublicName(n)
<1>1. \A x : ToPublicName(x) = IF Prefixed(Aliased(x)) THEN Aliased(x) ELSE Prefix \o Aliased(x)
  BY DEF ToPublicName, Aliased
<1>2. a \in Seq(Segments) /\ a # << >> /\ Aliased(a) = a
  BY AliasedIs
<1>3. Prefix \in Seq(Segments) /\ Aliased(Prefix) = Prefix
  BY Configuration, AliasedIs
<1>4. ToPublicName(a) = p
  BY <1>1, <1>2
<1>5. p = IF Prefixed(a) THEN a ELSE Prefix \o a
  BY <1>1
<1> HIDE DEF a, p
<1>6. p \in Seq(Segments) /\ p # << >>
  BY <1>2, <1>3, <1>5
<1>7. Aliased(Prefix \o a) = Prefix \o a
  BY <1>2, <1>3, ReplacedConcat DEF Aliased
<1>8. Aliased(p) = p
  BY <1>2, <1>5, <1>7
<1>9. ToPublicName(p) = IF Prefixed(p) THEN p ELSE Prefix \o p
  BY <1>1, <1>8
<1>10. Prefixed(p) \/ Prefix = << >>
  BY <1>2, <1>5, PrefixOnAndOff
<1>11. ToPublicName(p) = p
  BY <1>6, <1>9, <1>10, PrefixOnAndOff
<1> QED
  BY <1>4, <1>5, <1>6, <1>8, <1>11 DEF a, p

\* What is behind the prefix has the same public name.
LEMMA BehindIs ==
  ASSUME NEW n, Clear(n), Prefixed(Aliased(n))
  PROVE  /\ Behind(n) \in Seq(Segments) /\ Behind(n) # << >>
         /\ n = Named(Prefix) \o Behind(n)
         /\ ToPublicName(Behind(n)) = ToPublicName(n)
         /\ Normalized(Behind(n)) = Behind(n)
<1> DEFINE a == Aliased(n)
           u == Unprefixed(a)
           q == Named(u)
           c == Named(Prefix)
<1>1. n \in Seq(Segments) /\ n # << >> /\ \A i \in DOMAIN n : n[i] \notin DOMAIN Codenames
  BY Zenon DEF Clear
<1>2. a \in Seq(Segments) /\ a # << >> /\ Named(a) = n /\ Aliased(n) = a
  BY <1>1, AliasedIs, AliasesComeBack DEF Named, Aliased
<1>3. Prefix \in Seq(Segments) /\ c \in Seq(Segments) /\ Len(c) = Len(Prefix)
  BY Configuration, AliasedIs
<1> HIDE DEF a
<1>4. u \in Seq(Segments) /\ u # << >> /\ a = Prefix \o u
  BY <1>2, PrefixOnAndOff DEF a
<1> HIDE DEF u
<1>5. q \in Seq(Segments) /\ q # << >>
  BY <1>4, AliasedIs
<1>6. n = c \o q
  BY <1>2, <1>3, <1>4, ReplacedConcat DEF Named
<1> HIDE DEF q, c
<1>7. Aliased(q) = u
  <2> DEFINE d == Aliased(c)
             e == Aliased(q)
  <2>1. d \in Seq(Segments) /\ Len(d) = Len(Prefix) /\ e \in Seq(Segments)
    BY <1>3, <1>5, AliasedIs
  <2>2. a = d \o e
    BY <1>2, <1>3, <1>5, <1>6, ReplacedConcat DEF Aliased
  <2> HIDE DEF d, e
  <2>3. SubSeq(a, Len(Prefix) + 1, Len(a)) = u
    BY <1>3, <1>4, CutConcat
  <2>4. SubSeq(a, Len(Prefix) + 1, Len(a)) = e
    BY <2>1, <2>2, CutConcat
  <2> QED
    BY <2>3, <2>4 DEF e
<1>8. ~Prefixed(u) /\ ~Older(q)
  BY Zenon DEF Clear, Behind, a, u, q
<1>9. ToPublicName(q) = Prefix \o u
  BY <1>5, <1>7, <1>8, PublicIs
<1>10. ToPublicName(n) = a
  BY <1>1, PublicIs DEF a
<1>11. Normalized(q) = q
  BY <1>8 DEF Normalized, Older
<1> QED
  BY <1>4, <1>5, <1>6, <1>9, <1>10, <1>11 DEF Behind, a, u, q, c

\* A family's word begins no prefix.
LEMMA FamiliesAreNoPrefix ==
  ASSUME NEW x \in Seq(Segments), x # << >>, x[1] \in DOMAIN Aliases
  PROVE  ~Prefixed(x)
<1> SUFFICES ASSUME Prefix # << >>, IsPrefix(Prefix, x) PROVE FALSE
  BY DEF Prefixed, IsStrictPrefix
<1>1. Prefix[1] = x[1] /\ 1 \in 1..Len(Prefix)
  BY Configuration, BeginsWithOne
<1> QED
  BY <1>1, Configuration

\* A name that begins with the prefix does so with its codenames, too.
LEMMA PrefixedIsAliased ==
  ASSUME NEW n, Clear(n), Prefixed(n)
  PROVE  Prefixed(Aliased(n)) /\ Named(Unprefixed(n)) = Named(Unprefixed(Aliased(n)))
<1> DEFINE a == Aliased(n)
           r == Unprefixed(n)
           b == Aliased(r)
<1>1. n \in Seq(Segments) /\ n # << >> /\ \A i \in DOMAIN n : n[i] \notin DOMAIN Codenames
  BY Zenon DEF Clear
<1>2. Prefix \in Seq(Segments) /\ Aliased(Prefix) = Prefix
  BY Configuration, AliasedIs
<1>4. r \in Seq(Segments) /\ r # << >> /\ n = Prefix \o r
  BY <1>1, PrefixOnAndOff
<1> HIDE DEF r
<1>5. b \in Seq(Segments) /\ b # << >>
  BY <1>4, AliasedIs
<1>6. a = Prefix \o b
  BY <1>2, <1>4, ReplacedConcat DEF Aliased
<1>7. \A i \in DOMAIN r : r[i] \notin DOMAIN Codenames
  <2>1. /\ Len(n) = Len(Prefix) + Len(r)
        /\ \A i \in 1..Len(Prefix) + Len(r) :
             n[i] = IF i <= Len(Prefix) THEN Prefix[i] ELSE r[i - Len(Prefix)]
    BY <1>2, <1>4, ConcatProperties
  <2>2. ASSUME NEW i \in 1..Len(r) PROVE r[i] \notin DOMAIN Codenames
    <3>1. Len(Prefix) \in Nat /\ Len(r) \in Nat
      BY <1>2, <1>4
    <3>2. /\ Len(Prefix) + i \in 1..Len(Prefix) + Len(r) /\ ~(Len(Prefix) + i <= Len(Prefix))
          /\ (Len(Prefix) + i) - Len(Prefix) = i
      BY <3>1
    <3>3. n[Len(Prefix) + i] = r[i] /\ Len(Prefix) + i \in DOMAIN n
      BY <1>1, <2>1, <3>2
    <3> QED
      BY <1>1, <3>3
  <2> QED
    BY <1>4, <2>2
<1>8. Named(b) = r /\ Named(r) = r
  BY <1>4, <1>7, AliasesComeBack DEF Named, Aliased
<1> HIDE DEF b
<1>9. Prefix # << >>
  BY DEF Prefixed
<1>10. Prefixed(a) /\ Unprefixed(a) = b
  BY <1>5, <1>6, <1>9, PrefixOnAndOff
<1> QED
  BY <1>8, <1>10 DEF r

\* Reading a name undoes writing it, in each of the newer forms, but for the
\* family that is read as the prefix.
LEMMA ReadsBack ==
  ASSUME NEW n, Clear(n), NEW name \in {n, ToPublicName(n), Aliased(n)}
  PROVE  ToCanonicalName(name) =
           IF Prefixed(name) /\ Prefixed(Aliased(n)) THEN Behind(n) ELSE n
<1> DEFINE a == Aliased(n)
<1>1. n \in Seq(Segments) /\ n # << >> /\ \A i \in DOMAIN n : n[i] \notin DOMAIN Codenames
  BY Zenon DEF Clear
<1>2. a \in Seq(Segments) /\ a # << >> /\ Named(a) = n /\ Named(n) = n
  BY <1>1, AliasedIs, AliasesComeBack DEF Named, Aliased
<1>3. Normalized(n) = n
  BY DEF Normalized, Clear, Older
<1>4. Prefix \in Seq(Segments) /\ Aliased(Prefix) = Prefix
  BY Configuration, AliasedIs
<1>5. \A x : ToCanonicalName(x) = Normalized(Named(Unprefixed(x)))
  BY DEF ToCanonicalName, Named
<1>6. Prefixed(n) => Prefixed(a) /\ Named(Unprefixed(n)) = Named(Unprefixed(a))
  BY PrefixedIsAliased
<1>7. Behind(n) = Named(Unprefixed(a))
  BY DEF Behind
<1>8. CASE ~Prefixed(a)
  <2>1. ~Prefixed(n)
    BY <1>6, <1>8
  <2>2. Unprefixed(n) = n /\ Unprefixed(a) = a /\ Unprefixed(Prefix \o a) = a
    BY <1>1, <1>2, <1>8, <2>1, PrefixOnAndOff
  <2>3. name \in {n, a, Prefix \o a}
    BY <1>1, <1>8, PublicIs
  <2>4. Named(Unprefixed(name)) = n
    BY <1>2, <2>2, <2>3
  <2> QED
    BY <1>3, <1>5, <1>8, <2>4
<1>9. CASE Prefixed(a)
  <2>1. Normalized(Behind(n)) = Behind(n)
    BY <1>9, BehindIs
  <2>2. name = a \/ name = n
    BY <1>1, <1>9, PublicIs
  <2>3. CASE Prefixed(name)
    <3>1. Named(Unprefixed(name)) = Behind(n)
      BY <1>6, <1>7, <2>2, <2>3
    <3> QED
      BY <1>5, <1>9, <2>1, <2>3, <3>1
  <2>4. CASE ~Prefixed(name)
    <3>1. name = n
      BY <1>9, <2>2, <2>4
    <3>2. Unprefixed(name) = n
      BY <1>1, <2>4, <3>1, PrefixOnAndOff
    <3> QED
      BY <1>2, <1>3, <1>5, <2>4, <3>2
  <2> QED
    BY <2>3, <2>4
<1> QED
  BY <1>8, <1>9

\* What a name is looked up by is found when its public name is configured.
LEMMA FoundIsConfigured ==
  ASSUME NEW n
  PROVE  {ToPublicName(n), n} \cap ModelNamesConfigured # {} <=> ToPublicName(n) \in ModelNamesConfigured
<1>1. ASSUME n \in ModelNamesConfigured
      PROVE  ToPublicName(n) = n
  <2>1. PICK m \in Models : n = ToPublicName(m)
    BY <1>1 DEF ModelNamesConfigured
  <2>2. m \in Seq(Segments) /\ m # << >>
    BY Configuration DEF Clear
  <2> QED
    BY <2>1, <2>2, PublicIs
<1> QED
  BY <1>1

\* A configured name is its own public name, and holds no family's word.
LEMMA ConfiguredIsPublic ==
  ASSUME NEW x \in ModelNamesConfigured
  PROVE  x \in Seq(Segments) /\ x # << >> /\ x = ToPublicName(x) /\ x[1] \notin DOMAIN Aliases
<1>1. PICK m \in Models : x = ToPublicName(m)
  BY DEF ModelNamesConfigured
<1>2. m \in Seq(Segments) /\ m # << >>
  BY Configuration DEF Clear
<1>3. x \in Seq(Segments) /\ x # << >> /\ x = ToPublicName(x) /\ Aliased(x) = x
  BY <1>1, <1>2, PublicIs
<1>4. 1 \in 1..Len(x)
  BY <1>3
<1>5. x[1] = Alias(x[1])
  <2>1. Aliased(x)[1] = Alias(x[1])
    BY <1>3, <1>4, ReplacedIs, Zenon DEF Aliased
  <2> QED
    BY <1>3, <2>1
<1>6. \A w : Alias(w) \notin DOMAIN Aliases
  BY Tables DEF Alias
<1> QED
  BY <1>3, <1>5, <1>6

\* What ends with what.
LEMMA EndsWithIs ==
  ASSUME NEW S, NEW a \in S, NEW b \in S, NEW n \in Seq(S)
  PROVE  /\ EndsWith(n, <<a>>) <=> Len(n) >= 1 /\ n[Len(n)] = a
         /\ EndsWith(n, <<a, b>>) <=> Len(n) >= 2 /\ n[Len(n) - 1] = a /\ n[Len(n)] = b
<1> DEFINE r == Reverse(n)
           l == Len(n)
<1>1. l \in Nat
  OBVIOUS
<1>2. r \in Seq(S) /\ Len(r) = l /\ (l >= 1 => r[1] = n[l]) /\ (l >= 2 => r[2] = n[l - 1])
  <2>1. r = [i \in 1..l |-> n[(l - i) + 1]]
    BY DEF Reverse
  <2>2. \A i \in 1..l : n[(l - i) + 1] \in S
    BY <1>1
  <2> HIDE DEF r
  <2>3. r \in Seq(S) /\ Len(r) = l /\ \A i \in 1..l : r[i] = n[(l - i) + 1]
    BY <1>1, <2>1, <2>2
  <2>4. l >= 1 => r[1] = n[l]
    <3>1. ASSUME l >= 1 PROVE 1 \in 1..l /\ (l - 1) + 1 = l
      BY <1>1, <3>1
    <3> QED
      BY <2>3, <3>1
  <2>5. l >= 2 => r[2] = n[l - 1]
    <3>1. ASSUME l >= 2 PROVE 2 \in 1..l /\ (l - 2) + 1 = l - 1
      BY <1>1, <3>1
    <3> QED
      BY <2>3, <3>1
  <2> QED
    BY <2>3, <2>4, <2>5
<1>3. Reverse(<<a>>) = <<a>> /\ Reverse(<<a, b>>) = <<b, a>>
  BY DEF Reverse
<1>4. EndsWith(n, <<a>>) <=> IsPrefix(<<a>>, r)
  BY <1>3 DEF EndsWith, IsSuffix
<1>5. EndsWith(n, <<a, b>>) <=> IsPrefix(<<b, a>>, r)
  BY <1>3 DEF EndsWith, IsSuffix
<1> HIDE DEF r
<1>6. IsPrefix(<<b, a>>, r) <=> Len(r) >= 2 /\ r[1] = b /\ r[2] = a
  BY <1>2, BeginsWithTwo
<1>7. IsPrefix(<<a>>, r) <=> Len(r) >= 1 /\ r[1] = a
  <2> DEFINE p == <<a>>
  <2>1. p \in Seq(S) /\ Len(p) = 1 /\ p # << >> /\ p[1] = a
    OBVIOUS
  <2>2. ASSUME Len(r) >= 1, r[1] = a
        PROVE  IsPrefix(p, r)
    <3>1. SubSeq(p, 1, 1) = p
      BY <2>1, SubSeqFull
    <3>2. SubSeq(r, 1, 1) \in Seq(S) /\ Len(SubSeq(r, 1, 1)) = 1 /\ SubSeq(r, 1, 1)[1] = r[1]
      BY <1>2, <2>2
    <3> DEFINE q == SubSeq(r, 1, 1)
    <3> HIDE DEF p, q
    <3>3. q \in Seq(S) /\ p \in Seq(S) /\ Len(q) = Len(p) /\ \A i \in 1..Len(q) : q[i] = p[i]
      BY <2>1, <2>2, <3>2 DEF q
    <3>4. q = p
      BY <3>3, SeqEqual
    <3>5. Len(p) <= Len(r) /\ SubSeq(p, 1, Len(p)) = SubSeq(r, 1, Len(p))
      <4>1. Len(p) <= Len(r) /\ Len(p) = 1
        BY <2>1, <2>2
      <4> QED
        BY <3>1, <3>4, <4>1, Zenon DEF q
    <3> QED
      BY <3>5, Zenon DEF IsPrefix
  <2>3. IsPrefix(p, r) => r # << >> /\ p[1] = r[1]
    <3> HIDE DEF p
    <3> QED
      BY <1>2, <2>1, BeginsWithOne
  <2> QED
    BY <1>2, <2>1, <2>2, <2>3
<1> QED
  BY <1>1, <1>2, <1>4, <1>5, <1>6, <1>7

\* The tables, written out.
LEMMA BudgetsAre ==
  /\ DOMAIN Budgets = 1..6
  /\ Budgets[1].suffix = <<"thinking", "max">> /\ Budgets[2].suffix = <<"thinking", "high">>
  /\ Budgets[3].suffix = <<"thinking">> /\ Budgets[4].suffix = <<"xhigh">>
  /\ Budgets[5].suffix = <<"max">> /\ Budgets[6].suffix = <<"high">>
BY DEF Budgets

\* A sequence and one element more.
LEMMA Longer ==
  ASSUME NEW S, NEW s \in Seq(S), NEW e \in S
  PROVE  \E a : /\ a = Append(s, e) /\ a \in Seq(S) /\ Len(a) = Len(s) + 1
                /\ \A i \in 1..Len(s) : a[i] = s[i]
                /\ a[Len(s) + 1] = e
BY AppendProperties

LEMMA AdaptivesAre ==
  /\ DOMAIN Adaptives = 1..7
  /\ \A i \in 1..7 : Adaptives[i].thinking \in Int
  /\ \A i \in 1..6 : Adaptives[i].suffix = Budgets[i].suffix
  /\ Adaptives[7].suffix = <<"medium">>
<1> DEFINE first == [i \in DOMAIN Budgets |->
                       [Budgets[i] EXCEPT !.thinking = IF @ = 0 THEN 0 ELSE Adaptive]]
           entry == [suffix |-> <<"medium">>, thinking |-> 0]
           S == {first[i] : i \in 1..6} \cup {entry}
<1>1. DOMAIN first = 1..6 /\ first \in [1..6 -> S] /\ entry \in S
  BY BudgetsAre
<1>2. \A i \in 1..6 : first[i].suffix = Budgets[i].suffix
  <2>1. \A i \in 1..6 : Budgets[i] = [suffix |-> Budgets[i].suffix, thinking |-> Budgets[i].thinking]
    BY DEF Budgets
  <2>2. \A i \in 1..6 : first[i] = [Budgets[i] EXCEPT !.thinking = IF @ = 0 THEN 0 ELSE Adaptive]
    BY BudgetsAre
  <2> HIDE DEF first
  <2> QED
    BY <2>1, <2>2
<1>3. entry.suffix = <<"medium">> /\ entry.thinking = 0
  OBVIOUS
<1>10. \A i \in 1..6 : first[i].thinking \in Int
  <2>1. \A i \in 1..6 : Budgets[i] = [suffix |-> Budgets[i].suffix, thinking |-> Budgets[i].thinking]
                        /\ Budgets[i].thinking \in Int
    BY DEF Budgets
  <2>2. \A i \in 1..6 : first[i] = [Budgets[i] EXCEPT !.thinking = IF @ = 0 THEN 0 ELSE Adaptive]
    BY BudgetsAre
  <2> HIDE DEF first
  <2> QED
    BY <2>1, <2>2 DEF Adaptive
<1>4. Adaptives = first \o <<entry>>
  BY DEF Adaptives
<1> HIDE DEF first, entry, S
<1>5. first \in Seq(S) /\ Len(first) = 6
  <2>1. first = [i \in 1..6 |-> first[i]] /\ \A i \in 1..6 : first[i] \in S
    BY <1>1
  <2>2. [i \in 1..6 |-> first[i]] \in Seq(S)
    BY <2>1, IsASeq
  <2> QED
    BY <2>1, <2>2
<1>6. Adaptives = Append(first, entry)
  BY <1>1, <1>4, <1>5, AppendIsConcat
<1>7. PICK a : /\ a = Append(first, entry) /\ a \in Seq(S) /\ Len(a) = Len(first) + 1
               /\ \A i \in 1..Len(first) : a[i] = first[i]
               /\ a[Len(first) + 1] = entry
  <2>1. first \in Seq(S) /\ entry \in S
    BY <1>1, <1>5
  <2> QED
    BY <2>1, Longer, ZenonT(60)
<1>8. Adaptives = a
  BY <1>6, <1>7, Zenon
<1>9. a \in Seq(S) /\ Len(a) = 7 /\ (\A i \in 1..6 : a[i] = first[i]) /\ a[7] = entry
  <2>1. a \in Seq(S) /\ Len(a) = Len(first) + 1 /\ (\A i \in 1..Len(first) : a[i] = first[i]) /\ a[Len(first) + 1] = entry
    BY <1>7, Zenon
  <2> QED
    BY <1>5, <2>1
<1>11. \A i \in 1..7 : a[i].thinking \in Int
  <2>1. \A i \in 1..7 : i \in 1..6 \/ i = 7
    OBVIOUS
  <2> QED
    <3>1. /\ \A i \in 1..6 : a[i] = first[i]
          /\ a[7] = entry
      BY <1>9, Zenon
    <3>2. entry.thinking \in Int
      BY <1>3
    <3> QED
      BY <1>10, <2>1, <3>1, <3>2, Zenon
<1> QED
  BY <1>2, <1>3, <1>8, <1>9, <1>11, SMTT(30)

LEMMA SuffixesAre ==
  VariantSuffixes = {<< >>, <<"thinking", "max">>, <<"thinking", "high">>, <<"thinking">>,
                     <<"xhigh">>, <<"max">>, <<"high">>}
<1>1. 1..6 = {1, 2, 3, 4, 5, 6}
  OBVIOUS
<1>2. VariantSuffixes = {<< >>} \cup {Budgets[i].suffix : i \in {1, 2, 3, 4, 5, 6}}
  BY <1>1, BudgetsAre DEF VariantSuffixes
<1> QED
  BY <1>2, BudgetsAre

\* The words of the tables' suffixes.
WordsAreSegments == {"thinking", "max", "high", "xhigh", "medium"} \subseteq Segments

LEMMA Words == WordsAreSegments
BY DEF WordsAreSegments, Segments

LEMMA SuffixesAreSegments ==
  ASSUME NEW s \in VariantSuffixes
  PROVE  s \in Seq(Segments)
<1> DEFINE S == Segments
<1>1. "thinking" \in S /\ "max" \in S /\ "high" \in S /\ "xhigh" \in S
  BY Words DEF WordsAreSegments
<1> HIDE DEF S
<1>2. << >> \in Seq(S) /\ <<"thinking">> \in Seq(S) /\ <<"max">> \in Seq(S)
      /\ <<"high">> \in Seq(S) /\ <<"xhigh">> \in Seq(S)
  BY <1>1
<1>3. <<"thinking", "max">> \in Seq(S) /\ <<"thinking", "high">> \in Seq(S)
  BY <1>1
<1>4. s \in Seq(S)
  BY <1>2, <1>3, SuffixesAre, Zenon
<1> QED
  BY <1>4 DEF S

\* The last two segments of a name with a suffix.
LEMMA LastOfConcat ==
  ASSUME NEW S, NEW x \in Seq(S), x # << >>, NEW s \in Seq(S)
  PROVE  /\ x \o s \in Seq(S) /\ Len(x \o s) >= 1 /\ Len(x \o s) = Len(x) + Len(s)
         /\ Len(s) = 0 => (x \o s)[Len(x \o s)] = x[Len(x)]
         /\ Len(s) = 1 => /\ (x \o s)[Len(x \o s)] = s[1]
                          /\ (x \o s)[Len(x \o s) - 1] = x[Len(x)]
         /\ Len(s) = 2 => /\ (x \o s)[Len(x \o s)] = s[2]
                          /\ (x \o s)[Len(x \o s) - 1] = s[1]
<1> DEFINE y == x \o s
           l == Len(x)
           k == Len(s)
<1>1. l \in Nat /\ l >= 1 /\ k \in Nat
  OBVIOUS
<1>2. /\ y \in Seq(S) /\ Len(y) = l + k
      /\ \A i \in 1..l + k : y[i] = IF i <= l THEN x[i] ELSE s[i - l]
  BY ConcatProperties
<1> HIDE DEF y, l, k
<1>3. k = 0 => y[l + k] = x[l]
  <2>1. ASSUME k = 0 PROVE l + k \in 1..l + k /\ l + k <= l /\ l + k = l
    BY <1>1, <2>1
  <2> QED
    BY <1>2, <2>1
<1>4. k = 1 => y[l + k] = s[1] /\ y[(l + k) - 1] = x[l]
  <2>1. ASSUME k = 1
        PROVE  /\ l + k \in 1..l + k /\ ~(l + k <= l) /\ (l + k) - l = 1
               /\ (l + k) - 1 \in 1..l + k /\ (l + k) - 1 <= l /\ (l + k) - 1 = l
    BY <1>1, <2>1
  <2> QED
    BY <1>2, <2>1
<1>5. k = 2 => y[l + k] = s[2] /\ y[(l + k) - 1] = s[1]
  <2>1. ASSUME k = 2
        PROVE  /\ l + k \in 1..l + k /\ ~(l + k <= l) /\ (l + k) - l = 2
               /\ (l + k) - 1 \in 1..l + k /\ ~((l + k) - 1 <= l) /\ ((l + k) - 1) - l = 1
    BY <1>1, <2>1
  <2> QED
    BY <1>2, <2>1
<1>6. Len(y) >= 1
  BY <1>1, <1>2
<1> QED
  BY <1>2, <1>3, <1>4, <1>5, <1>6 DEF y, l, k

\* The suffixes of the tables that a name with variant s ends with.
EndsAsItShould(y, s, medium) ==
  /\ EndsWith(y, <<"thinking", "max">>) <=> s = <<"thinking", "max">>
  /\ EndsWith(y, <<"thinking", "high">>) <=> s = <<"thinking", "high">>
  /\ EndsWith(y, <<"thinking">>) <=> s = <<"thinking">>
  /\ EndsWith(y, <<"xhigh">>) <=> s = <<"xhigh">>
  /\ EndsWith(y, <<"max">>) <=> s = <<"max">> \/ s = <<"thinking", "max">>
  /\ EndsWith(y, <<"high">>) <=> s = <<"high">> \/ s = <<"thinking", "high">>
  /\ EndsWith(y, <<"medium">>) <=> s = << >> /\ medium

\* The tables' suffixes by the last two segments.
LEMMA Ends ==
  ASSUME NEW y \in Seq(Segments), Len(y) >= 1, NEW last, last = y[Len(y)],
         NEW before, Len(y) >= 2 => before = y[Len(y) - 1]
  PROVE  /\ EndsWith(y, <<"thinking", "max">>) <=> Len(y) >= 2 /\ before = "thinking" /\ last = "max"
         /\ EndsWith(y, <<"thinking", "high">>) <=> Len(y) >= 2 /\ before = "thinking" /\ last = "high"
         /\ EndsWith(y, <<"thinking">>) <=> last = "thinking"
         /\ EndsWith(y, <<"xhigh">>) <=> last = "xhigh"
         /\ EndsWith(y, <<"max">>) <=> last = "max"
         /\ EndsWith(y, <<"high">>) <=> last = "high"
         /\ EndsWith(y, <<"medium">>) <=> last = "medium"
<1>1. /\ "thinking" \in Segments /\ "max" \in Segments /\ "high" \in Segments
      /\ "xhigh" \in Segments /\ "medium" \in Segments
  BY Words DEF WordsAreSegments
<1>2. /\ EndsWith(y, <<"thinking", "max">>) <=> Len(y) >= 2 /\ y[Len(y) - 1] = "thinking" /\ y[Len(y)] = "max"
      /\ EndsWith(y, <<"thinking", "high">>) <=> Len(y) >= 2 /\ y[Len(y) - 1] = "thinking" /\ y[Len(y)] = "high"
  BY <1>1, EndsWithIs, Zenon
<1>6. ASSUME NEW a \in Segments
      PROVE  EndsWith(y, <<a>>) <=> Len(y) >= 1 /\ y[Len(y)] = a
  BY EndsWithIs, Zenon
<1>3. /\ EndsWith(y, <<"thinking">>) <=> Len(y) >= 1 /\ y[Len(y)] = "thinking"
      /\ EndsWith(y, <<"xhigh">>) <=> Len(y) >= 1 /\ y[Len(y)] = "xhigh"
      /\ EndsWith(y, <<"max">>) <=> Len(y) >= 1 /\ y[Len(y)] = "max"
      /\ EndsWith(y, <<"high">>) <=> Len(y) >= 1 /\ y[Len(y)] = "high"
      /\ EndsWith(y, <<"medium">>) <=> Len(y) >= 1 /\ y[Len(y)] = "medium"
  BY <1>1, <1>6, Zenon
<1>4. /\ EndsWith(y, <<"thinking", "max">>) <=> Len(y) >= 2 /\ before = "thinking" /\ last = "max"
      /\ EndsWith(y, <<"thinking", "high">>) <=> Len(y) >= 2 /\ before = "thinking" /\ last = "high"
  BY <1>2
<1>5. /\ EndsWith(y, <<"thinking">>) <=> last = "thinking"
      /\ EndsWith(y, <<"xhigh">>) <=> last = "xhigh"
      /\ EndsWith(y, <<"max">>) <=> last = "max"
      /\ EndsWith(y, <<"high">>) <=> last = "high"
      /\ EndsWith(y, <<"medium">>) <=> last = "medium"
  BY <1>3
<1> QED
  BY <1>4, <1>5, Zenon

\* A variant ends with its suffix, with the shorter one in it, and with no other.
LEMMA Endings ==
  ASSUME NEW x \in Seq(Segments), x # << >>, x[Len(x)] \notin SuffixWords, NEW s \in VariantSuffixes
  PROVE  EndsAsItShould(x \o s, s, x[Len(x)] = "medium")
<1> DEFINE y == x \o s
           last == y[Len(y)]
           before == y[Len(y) - 1]
<1>1. s \in Seq(Segments)
  BY SuffixesAreSegments
<1>2. /\ y \in Seq(Segments) /\ Len(y) >= 1 /\ Len(y) = Len(x) + Len(s)
      /\ Len(s) = 0 => last = x[Len(x)]
      /\ Len(s) = 1 => last = s[1] /\ before = x[Len(x)]
      /\ Len(s) = 2 => last = s[2] /\ before = s[1]
  BY <1>1, LastOfConcat, Zenon
<1>3. /\ EndsWith(y, <<"thinking", "max">>) <=> Len(y) >= 2 /\ before = "thinking" /\ last = "max"
      /\ EndsWith(y, <<"thinking", "high">>) <=> Len(y) >= 2 /\ before = "thinking" /\ last = "high"
      /\ EndsWith(y, <<"thinking">>) <=> last = "thinking"
      /\ EndsWith(y, <<"xhigh">>) <=> last = "xhigh"
      /\ EndsWith(y, <<"max">>) <=> last = "max"
      /\ EndsWith(y, <<"high">>) <=> last = "high"
      /\ EndsWith(y, <<"medium">>) <=> last = "medium"
  <2>1. y \in Seq(Segments) /\ Len(y) >= 1
    BY <1>2
  <2> HIDE DEF y
  <2> QED
    BY <2>1, Ends, Zenon
<1>4. Len(x) \in Nat /\ Len(x) >= 1
  OBVIOUS
<1> HIDE DEF y, last, before
<1> DEFINE w == x[Len(x)]
           long == Len(y) >= 2
<1>5. w \notin {"thinking", "max", "high", "xhigh"}
  BY DEF SuffixWords
<1>6. CASE s = << >>
  <2>1. last = w
    BY <1>2, <1>6
  <2> QED
    BY <1>3, <1>5, <1>6, <2>1 DEF EndsAsItShould, y
<1>7. CASE s = <<"thinking">>
  <2>1. last = "thinking" /\ before = w
    BY <1>2, <1>7
  <2> QED
    BY <1>3, <1>5, <1>7, <2>1 DEF EndsAsItShould, y
<1>8. CASE s = <<"xhigh">>
  <2>1. last = "xhigh" /\ before = w
    BY <1>2, <1>8
  <2> QED
    BY <1>3, <1>5, <1>8, <2>1 DEF EndsAsItShould, y
<1>9. CASE s = <<"max">>
  <2>1. last = "max" /\ before = w
    BY <1>2, <1>9
  <2> QED
    BY <1>3, <1>5, <1>9, <2>1 DEF EndsAsItShould, y
<1>10. CASE s = <<"high">>
  <2>1. last = "high" /\ before = w
    BY <1>2, <1>10
  <2> QED
    BY <1>3, <1>5, <1>10, <2>1 DEF EndsAsItShould, y
<1>11. CASE s = <<"thinking", "max">>
  <2>1. last = "max" /\ before = "thinking" /\ Len(y) >= 2
    BY <1>2, <1>4, <1>11
  <2> QED
    BY <1>3, <1>5, <1>11, <2>1 DEF EndsAsItShould, y
<1>12. CASE s = <<"thinking", "high">>
  <2>1. last = "high" /\ before = "thinking" /\ Len(y) >= 2
    BY <1>2, <1>4, <1>12
  <2> QED
    BY <1>3, <1>5, <1>12, <2>1 DEF EndsAsItShould, y
<1> QED
  BY <1>6, <1>7, <1>8, <1>9, <1>10, <1>11, <1>12, SuffixesAre, Zenon

\* Entry k of the table is the first that name y ends with; it is of suffix s.
FirstIs(y, s, k) ==
  /\ k \in 0..6
  /\ k = 0 => s = << >> /\ \A i \in 1..6 : ~EndsWith(y, Budgets[i].suffix)
  /\ k # 0 => /\ Budgets[k].suffix = s /\ EndsWith(y, Budgets[k].suffix)
              /\ \A i \in 1..6 : i < k => ~EndsWith(y, Budgets[i].suffix)

\* So the first entry that it ends with is its own.
LEMMA FirstIsOfSuffix ==
  ASSUME NEW y, NEW s \in VariantSuffixes, NEW medium, EndsAsItShould(y, s, medium)
  PROVE  \E k \in 0..6 : FirstIs(y, s, k)
<1> DEFINE e == [i \in 1..6 |-> EndsWith(y, Budgets[i].suffix)]
<1>1. /\ e[1] <=> s = <<"thinking", "max">>
      /\ e[2] <=> s = <<"thinking", "high">>
      /\ e[3] <=> s = <<"thinking">>
      /\ e[4] <=> s = <<"xhigh">>
      /\ e[5] <=> s = <<"max">> \/ s = <<"thinking", "max">>
      /\ e[6] <=> s = <<"high">> \/ s = <<"thinking", "high">>
  BY BudgetsAre, SMTT(30) DEF EndsAsItShould
<1>2. \A i \in 1..6 : e[i] <=> EndsWith(y, Budgets[i].suffix)
  OBVIOUS
<1> HIDE DEF e
<1>3. ASSUME NEW k \in 0..6, k = 0 => s = << >> /\ \A i \in 1..6 : ~e[i],
             k # 0 => Budgets[k].suffix = s /\ e[k] /\ \A i \in 1..6 : i < k => ~e[i]
      PROVE  FirstIs(y, s, k)
  BY <1>2, <1>3 DEF FirstIs
<1>4. \E k \in 0..6 : /\ k = 0 => s = << >> /\ \A i \in 1..6 : ~e[i]
                      /\ k # 0 => Budgets[k].suffix = s /\ e[k] /\ \A i \in 1..6 : i < k => ~e[i]
  <2>1. CASE s = << >>
    <3>1. ~e[1] /\ ~e[2] /\ ~e[3] /\ ~e[4] /\ ~e[5] /\ ~e[6]
      BY <1>1, <2>1
    <3>2. \A i \in 1..6 : ~e[i]
      BY <3>1
    <3> WITNESS 0 \in 0..6
    <3> QED
      BY <2>1, <3>2
  <2>2. CASE s = <<"thinking", "max">>
    <3> WITNESS 1 \in 0..6
    <3> QED
      BY <1>1, <2>2, BudgetsAre
  <2>3. CASE s = <<"thinking", "high">>
    <3>1. ~e[1] /\ e[2]
      BY <1>1, <2>3
    <3> WITNESS 2 \in 0..6
    <3> QED
      BY <2>3, <3>1, BudgetsAre
  <2>4. CASE s = <<"thinking">>
    <3>1. ~e[1] /\ ~e[2] /\ e[3]
      BY <1>1, <2>4
    <3> WITNESS 3 \in 0..6
    <3> QED
      BY <2>4, <3>1, BudgetsAre
  <2>5. CASE s = <<"xhigh">>
    <3>1. ~e[1] /\ ~e[2] /\ ~e[3] /\ e[4]
      BY <1>1, <2>5
    <3> WITNESS 4 \in 0..6
    <3> QED
      BY <2>5, <3>1, BudgetsAre
  <2>6. CASE s = <<"max">>
    <3>1. ~e[1] /\ ~e[2] /\ ~e[3] /\ ~e[4] /\ e[5]
      BY <1>1, <2>6
    <3> WITNESS 5 \in 0..6
    <3> QED
      BY <2>6, <3>1, BudgetsAre
  <2>7. CASE s = <<"high">>
    <3>1. ~e[1] /\ ~e[2] /\ ~e[3] /\ ~e[4] /\ ~e[5] /\ e[6]
      BY <1>1, <2>7
    <3> WITNESS 6 \in 0..6
    <3> QED
      BY <2>7, <3>1, BudgetsAre
  <2> QED
    BY <2>1, <2>2, <2>3, <2>4, <2>5, <2>6, <2>7, SuffixesAre, Zenon
<1> QED
  BY <1>3, <1>4

\* The first entry that a name ends with is found.
Hit(y) ==
  LET hits == {i \in DOMAIN Budgets : EndsWith(y, Budgets[i].suffix)}
  IN  IF hits = {} THEN 0 ELSE Min(hits)

LEMMA HitIs ==
  ASSUME NEW y, NEW s, NEW k, FirstIs(y, s, k)
  PROVE  Hit(y) = k
<1> DEFINE hits == {i \in 1..6 : EndsWith(y, Budgets[i].suffix)}
<1>1. Hit(y) = IF hits = {} THEN 0 ELSE Min(hits)
  BY BudgetsAre DEF Hit
<1>2. hits \in SUBSET Nat
  OBVIOUS
<1>3. hits # {} => Min(hits) \in hits /\ \A i \in hits : Min(hits) <= i
  BY <1>2, Minimum
<1>4. k = 0 => hits = {}
  BY DEF FirstIs
<1>5. k # 0 => k \in hits /\ \A i \in hits : k <= i
  BY DEF FirstIs
<1>6. k # 0 => hits # {} /\ Min(hits) = k
  <2> DEFINE m == Min(hits)
  <2> HIDE DEF hits, m
  <2>1. SUFFICES ASSUME k # 0 PROVE hits # {} /\ m = k
    BY DEF m
  <2>2. k \in hits /\ m \in hits /\ k <= m /\ m <= k
    BY <1>3, <1>5, <2>1, Zenon DEF m
  <2>3. k \in Nat /\ m \in Nat
    BY <1>2, <2>2, Zenon
  <2>4. m = k
    BY <2>2, <2>3
  <2> QED
    BY <2>2, <2>4, Zenon
<1> HIDE DEF hits
<1> QED
  BY <1>1, <1>4, <1>6

\* The suffix comes off.
LEMMA WithoutSuffix ==
  ASSUME NEW S, NEW x \in Seq(S), NEW s \in Seq(S)
  PROVE  Without(x \o s, s) = x
<1>1. Len(x \o s) - Len(s) = Len(x)
  OBVIOUS
<1> QED
  BY <1>1, CutConcat DEF Without

\* None of C, none of C.
LEMMA NoneOfConcat ==
  ASSUME NEW S, NEW x \in Seq(S), NEW s \in Seq(S), NEW C,
         \A i \in 1..Len(x) : x[i] \notin C, \A i \in 1..Len(s) : s[i] \notin C
  PROVE  \A i \in 1..Len(x \o s) : (x \o s)[i] \notin C
<1> DEFINE y == x \o s
<1>1. /\ Len(y) = Len(x) + Len(s)
      /\ \A i \in 1..Len(x) + Len(s) : y[i] = IF i <= Len(x) THEN x[i] ELSE s[i - Len(x)]
  BY ConcatProperties
<1>2. Len(x) \in Nat /\ Len(s) \in Nat
  OBVIOUS
<1> HIDE DEF y
<1>3. ASSUME NEW i \in 1..Len(y)
      PROVE  y[i] \notin C
  <2>1. i \in 1..Len(x) + Len(s)
    BY <1>1
  <2>2. CASE i <= Len(x)
    BY <1>1, <1>2, <2>1, <2>2
  <2>3. CASE ~(i <= Len(x))
    <3>1. i - Len(x) \in 1..Len(s) /\ y[i] = s[i - Len(x)]
      BY <1>1, <1>2, <2>1, <2>3
    <3> QED
      BY <3>1
  <2> QED
    BY <2>2, <2>3
<1> QED
  BY <1>3 DEF y

LEMMA SuffixesArePlain ==
  ASSUME NEW s \in VariantSuffixes
  PROVE  /\ \A i \in 1..Len(s) : s[i] \in SuffixWords
         /\ \A i \in 1..Len(s) : s[i] \notin DOMAIN Codenames
<1>1. \A i \in 1..Len(s) : s[i] \in SuffixWords
  BY SuffixesAre DEF SuffixWords
<1> QED
  BY <1>1, Tables DEF SuffixWords

\* A suffix makes no name one of the older form.
LEMMA NotOlderWithSuffix ==
  ASSUME NEW n \in Seq(Segments), n # << >>, ~Older(n), NEW s \in VariantSuffixes
  PROVE  ~Older(n \o s)
<1> DEFINE y == n \o s
<1>1. Len(n) \in Nat /\ Len(n) >= 1
  OBVIOUS
<1>2. s \in Seq(Segments) /\ \A i \in 1..Len(s) : s[i] \in SuffixWords
  BY SuffixesAreSegments, SuffixesArePlain
<1>3. /\ y \in Seq(Segments) /\ Len(y) = Len(n) + Len(s)
      /\ \A i \in 1..Len(n) + Len(s) : y[i] = IF i <= Len(n) THEN n[i] ELSE s[i - Len(n)]
  BY <1>2, ConcatProperties
<1>4. Len(s) \in Nat
  BY <1>2
<1> HIDE DEF y
<1>5. y # << >> /\ y[1] = n[1]
  BY <1>1, <1>3, <1>4
<1>6. "claude" \in Segments /\ "opus" \in Segments
  BY DEF Segments
<1>7. SUFFICES ASSUME Len(y) >= 2, y[1] = "claude", y[2] = "opus"
               PROVE  FALSE
  <2>1. IsPrefix(<<"claude", "opus">>, y) <=> Len(y) >= 2 /\ y[1] = "claude" /\ y[2] = "opus"
    BY <1>3, <1>6, BeginsWithTwo, Zenon
  <2> QED
    BY <2>1, Zenon DEF Older, y
<1>8. CASE Len(n) >= 2
  <2>1. y[2] = n[2]
    BY <1>3, <1>4, <1>1, <1>8
  <2>2. n \in Seq(Segments) /\ Len(n) >= 2 /\ n[1] = "claude" /\ n[2] = "opus"
    BY <1>5, <1>7, <1>8, <2>1
  <2>3. IsPrefix(<<"claude", "opus">>, n)
    BY <1>6, <2>2, BeginsWithTwo, Zenon
  <2> QED
    BY <2>3, Zenon DEF Older
<1>9. CASE Len(n) = 1
  <2>1. 1 \in 1..Len(s) /\ y[2] = s[1]
    BY <1>3, <1>4, <1>7, <1>9
  <2>2. s[1] \in {"thinking", "max", "high", "xhigh"}
    BY <1>2, <2>1 DEF SuffixWords
  <2> QED
    BY <1>7, <2>1, <2>2
<1>10. \A l \in Nat : l >= 1 => l >= 2 \/ l = 1
  OBVIOUS
<1> QED
  BY <1>1, <1>8, <1>9, <1>10, Zenon

\* Suffixes are published as they are.
LEMMA SuffixesStay ==
  ASSUME NEW s \in VariantSuffixes
  PROVE  Aliased(s) = s /\ Named(s) = s
<1>1. s \in Seq(Segments) /\ \A i \in 1..Len(s) : s[i] \in SuffixWords
  BY SuffixesAreSegments, SuffixesArePlain
<1>2. \A w \in SuffixWords : w \notin DOMAIN Aliases /\ w \notin DOMAIN Codenames
  BY Tables DEF SuffixWords
<1>3. \A i \in 1..Len(s) : s[i] \notin DOMAIN Aliases /\ s[i] \notin DOMAIN Codenames
  BY <1>1, <1>2
<1>4. \A i \in DOMAIN s : s[i] \notin DOMAIN Codenames
  BY <1>1, <1>3
<1> QED
  BY <1>1, <1>3, <1>4, AliasedIs, AliasesComeBack DEF Named

\* A suffix changes nothing of the prefix.
LEMMA PrefixWithSuffix ==
  ASSUME NEW x \in Seq(Segments), x # << >>, ~IsPrefix(x, Prefix), NEW s \in VariantSuffixes
  PROVE  /\ ~IsPrefix(x \o s, Prefix)
         /\ Prefixed(x \o s) <=> Prefixed(x)
         /\ Prefixed(x) => Unprefixed(x \o s) = Unprefixed(x) \o s
<1>1. Prefix \in Seq(Segments) /\ s \in Seq(Segments)
  BY Configuration, SuffixesAreSegments
<1>2. ~IsPrefix(x \o s, Prefix) /\ (IsPrefix(Prefix, x \o s) <=> IsPrefix(Prefix, x))
  BY <1>1, PrefixOfConcat
<1>3. x \o s \in Seq(Segments) /\ x \o s # << >>
  BY <1>1
<1>4. IsPrefix(Prefix, Prefix)
  BY <1>1, PrefixIs
<1>5. x # Prefix /\ x \o s # Prefix
  BY <1>2, <1>4
<1>6. Prefixed(x \o s) <=> Prefixed(x)
  BY <1>2, <1>5 DEF Prefixed, IsStrictPrefix
<1>7. ASSUME Prefixed(x)
      PROVE  Unprefixed(x \o s) = Unprefixed(x) \o s
  <2> DEFINE u == Unprefixed(x)
  <2>1. u \in Seq(Segments) /\ u # << >> /\ x = Prefix \o u
    BY <1>7, PrefixOnAndOff
  <2> HIDE DEF u
  <2>2. x \o s = Prefix \o (u \o s)
    <3>1. (Prefix \o u) \o s = Prefix \o (u \o s)
      BY <1>1, <2>1, ConcatAssociative, SMTT(30)
    <3> QED
      BY <2>1, <3>1, Zenon
  <2>3. u \o s \in Seq(Segments) /\ u \o s # << >>
    BY <1>1, <2>1
  <2>4. Unprefixed(Prefix \o (u \o s)) = u \o s
    BY <2>3, PrefixOnAndOff, Zenon
  <2> QED
    BY <2>2, <2>4, Zenon DEF u
<1> QED
  BY <1>2, <1>6, <1>7, Zenon

\* A name with a variant cannot be taken for another either, and what is behind the
\* prefix has the variant too.
LEMMA ClearWithSuffix ==
  ASSUME NEW n, Clear(n), NEW s \in VariantSuffixes
  PROVE  /\ Clear(n \o s)
         /\ Aliased(n \o s) = Aliased(n) \o s
         /\ Prefixed(Aliased(n \o s)) <=> Prefixed(Aliased(n))
         /\ Prefixed(Aliased(n)) => Behind(n \o s) = Behind(n) \o s
<1> DEFINE y == n \o s
           a == Aliased(n)
           u == Unprefixed(a)
<1>1. /\ n \in Seq(Segments) /\ n # << >> /\ ~Older(n) /\ ~IsPrefix(a, Prefix)
      /\ \A i \in DOMAIN n : n[i] \notin DOMAIN Codenames
  BY Zenon DEF Clear
<1>2. s \in Seq(Segments)
  BY SuffixesAreSegments
<1>3. y \in Seq(Segments) /\ y # << >>
  BY <1>1, <1>2
<1>4. \A i \in DOMAIN y : y[i] \notin DOMAIN Codenames
  <2>1. \A i \in 1..Len(n) : n[i] \notin DOMAIN Codenames
    BY <1>1
  <2>2. \A i \in 1..Len(y) : y[i] \notin DOMAIN Codenames
    BY <1>1, <1>2, <2>1, SuffixesArePlain, NoneOfConcat
  <2> QED
    BY <1>3, <2>2
<1>5. ~Older(y)
  BY <1>1, NotOlderWithSuffix
<1>6. a \in Seq(Segments) /\ a # << >>
  BY <1>1, AliasedIs
<1>7. Aliased(y) = a \o s
  <2>1. Aliased(y) = Aliased(n) \o Aliased(s)
    BY <1>1, <1>2, ReplacedConcat, Zenon DEF Aliased
  <2> QED
    BY <2>1, SuffixesStay, Zenon
<1> HIDE DEF y, a
<1>8. ~IsPrefix(a \o s, Prefix) /\ (Prefixed(a \o s) <=> Prefixed(a))
  BY <1>1, <1>6, PrefixWithSuffix, Zenon
<1>9. ASSUME Prefixed(a)
      PROVE  /\ Behind(y) = Behind(n) \o s
             /\ ~Older(Behind(y))
             /\ ~IsPrefix(Unprefixed(Aliased(y)), Prefix)
             /\ ~Prefixed(Unprefixed(Aliased(y)))
  <2>1. ~Older(Behind(n)) /\ ~IsPrefix(u, Prefix) /\ ~Prefixed(u)
    BY <1>9, Zenon DEF Clear, a
  <2>2. Behind(n) \in Seq(Segments) /\ Behind(n) # << >>
    BY <1>9, BehindIs, Zenon DEF a
  <2>3. u \in Seq(Segments) /\ u # << >>
    BY <1>6, <1>9, PrefixOnAndOff
  <2>4. Unprefixed(Aliased(y)) = u \o s
    BY <1>1, <1>6, <1>7, <1>9, PrefixWithSuffix, Zenon
  <2>5. Behind(n) = Named(u)
    BY DEF Behind, a
  <2> HIDE DEF u
  <2>6. Behind(y) = Behind(n) \o s
    <3>1. Named(u \o s) = Named(u) \o Named(s)
      BY <1>2, <2>3, ReplacedConcat, Zenon DEF Named
    <3>2. Behind(y) = Named(u \o s)
      BY <2>4 DEF Behind
    <3> QED
      BY <2>5, <3>1, <3>2, SuffixesStay, Zenon
  <2>7. ~Older(Behind(n) \o s)
    BY <2>1, <2>2, NotOlderWithSuffix, Zenon
  <2>8. ~IsPrefix(u \o s, Prefix) /\ ~Prefixed(u \o s)
    BY <2>1, <2>3, PrefixWithSuffix, Zenon
  <2> QED
    BY <2>4, <2>6, <2>7, <2>8, Zenon
<1>10. Clear(y)
  BY <1>3, <1>4, <1>5, <1>7, <1>8, <1>9, Zenon DEF Clear
<1> QED
  BY <1>7, <1>8, <1>9, <1>10, Zenon DEF y, a

\* Sequences of one and of three.
IsOne(x, e, S) == x \in Seq(S) /\ Len(x) = 1 /\ x[1] = e
IsThree(x, a, b, c, S) == x \in Seq(S) /\ Len(x) = 3 /\ x[1] = a /\ x[2] = b /\ x[3] = c

LEMMA OneIs ==
  ASSUME NEW S, NEW e \in S
  PROVE  IsOne(<<e>>, e, S)
BY DEF IsOne

LEMMA ThreeOnes ==
  ASSUME NEW S, NEW a, NEW b, NEW c, NEW x, NEW y, NEW z,
         IsOne(x, a, S), IsOne(y, b, S), IsOne(z, c, S)
  PROVE  IsThree((x \o y) \o z, a, b, c, S)
<1> DEFINE xy == x \o y
           all == xy \o z
<1>1. x \in Seq(S) /\ y \in Seq(S) /\ z \in Seq(S)
  BY DEF IsOne
<1>2. /\ xy \in Seq(S) /\ Len(xy) = Len(x) + Len(y)
      /\ \A i \in 1..Len(x) + Len(y) : xy[i] = IF i <= Len(x) THEN x[i] ELSE y[i - Len(x)]
  BY <1>1, ConcatProperties
<1> HIDE DEF xy
<1>9. xy \in Seq(S)
  BY <1>2
<1>3. /\ all \in Seq(S) /\ Len(all) = Len(xy) + Len(z)
      /\ \A i \in 1..Len(xy) + Len(z) : all[i] = IF i <= Len(xy) THEN xy[i] ELSE z[i - Len(xy)]
  BY <1>1, <1>9, ConcatProperties, ZenonT(30)
<1> HIDE DEF all
<1>4. Len(x) = 1 /\ Len(y) = 1 /\ Len(z) = 1 /\ x[1] = a /\ y[1] = b /\ z[1] = c
  BY DEF IsOne
<1>5. /\ Len(xy) = Len(x) + Len(y)
      /\ \A i \in 1..Len(x) + Len(y) : xy[i] = IF i <= Len(x) THEN x[i] ELSE y[i - Len(x)]
  BY <1>2
<1>6. /\ Len(all) = Len(xy) + Len(z)
      /\ \A i \in 1..Len(xy) + Len(z) : all[i] = IF i <= Len(xy) THEN xy[i] ELSE z[i - Len(xy)]
  BY <1>3
<1>7. Len(xy) = 2 /\ xy[1] = a /\ xy[2] = b
  BY <1>4, <1>5
<1>8. Len(all) = 3 /\ all[1] = a /\ all[2] = b /\ all[3] = c
  BY <1>4, <1>6, <1>7
<1> QED
  BY <1>3, <1>8 DEF all, xy, IsThree

LEMMA Unfolded ==
  ASSUME NEW S, NEW m \in Seq(S), Len(m) = 3
  PROVE  m[1] \in S /\ m[2] \in S /\ m[3] \in S
<1> DEFINE n == Len(m)
<1>1. \A i \in 1..n : m[i] \in S
  BY ElementOfSeq, Zenon
<1>2. n = 3
  OBVIOUS
<1> HIDE DEF n
<1>3. 1 \in 1..n /\ 2 \in 1..n /\ 3 \in 1..n
  BY <1>2
<1> QED
  BY <1>1, <1>3, Zenon

LEMMA Spelled ==
  ASSUME NEW S, NEW m \in Seq(S), Len(m) = 3
  PROVE  m = <<m[1], m[2], m[3]>>
OBVIOUS

LEMMA ThreeOfOne ==
  ASSUME NEW S, NEW m \in Seq(S), Len(m) = 3, NEW a, a = m[1], NEW b, b = m[3]
  PROVE  (<<a>> \o <<m[2]>>) \o <<b>> = m
<1> DEFINE x == <<a>>
           y == <<m[2]>>
           z == <<b>>
           all == (x \o y) \o z
<1>1. IsOne(x, m[1], S) /\ IsOne(y, m[2], S) /\ IsOne(z, m[3], S)
  BY Unfolded, OneIs, Zenon
<1> HIDE DEF x, y, z
<1>2. IsThree(all, m[1], m[2], m[3], S)
  BY <1>1, ThreeOnes, Zenon
<1> HIDE DEF all
<1>3. all = <<all[1], all[2], all[3]>>
  BY <1>2, Spelled, Zenon DEF IsThree
<1>4. m = <<m[1], m[2], m[3]>>
  BY Spelled, Zenon
<1>5. all = m
  BY <1>2, <1>3, <1>4, Zenon DEF IsThree
<1> QED
  BY <1>5 DEF all, x, y, z

\* The older forms: the version behind the family.
OlderVersions(m) ==
  {v \in {<<m[2]>>} \cup DOMAIN Versions : v = <<m[2]>> \/ Versions[v] = m[2]}

\* The parts of a name of the older form.
RestOf(n) == SubSeq(n, 3, Len(n))
SuffixOf(rest) == IF Hit(rest) = 0 THEN << >> ELSE Budgets[Hit(rest)].suffix
VersionOf(v) == IF v \in DOMAIN Versions THEN <<Versions[v]>> ELSE v

\* Either way to write a version is read as the model's.
LEMMA VersionsAre ==
  ASSUME NEW m, IsBase(m), IsOpus(m), NEW v \in OlderVersions(m)
  PROVE  /\ v \in Seq(VersionWords) /\ v # << >>
         /\ VersionOf(v) = <<m[2]>>
<1>1. m[2] \in VersionWords
  BY DEF IsBase
<1>2. \A d \in DOMAIN Versions : d \in Seq(VersionWords) /\ Len(d) = 2
  BY ReadInOneWay DEF NamesAreApart
<1>3. CASE v = <<m[2]>>
  <2>1. v \in Seq(VersionWords) /\ v # << >> /\ Len(v) = 1
    <3> DEFINE w == m[2]
               one == <<w>>
    <3>1. w \in VersionWords
      BY <1>1
    <3> HIDE DEF w
    <3>2. IsOne(one, w, VersionWords)
      BY <3>1, OneIs, Zenon
    <3>3. one \in Seq(VersionWords) /\ one # << >> /\ Len(one) = 1
      <4> HIDE DEF one
      <4> QED
        BY <3>2 DEF IsOne
    <3> QED
      BY <1>3, <3>3 DEF w
  <2>2. v \notin DOMAIN Versions
    <3>1. 1 # 2
      OBVIOUS
    <3> QED
      BY <1>2, <2>1, <3>1, Zenon
  <2> QED
    BY <1>3, <2>1, <2>2 DEF VersionOf
<1>4. CASE v # <<m[2]>>
  <2>1. v \in DOMAIN Versions /\ Versions[v] = m[2]
    BY <1>4 DEF OlderVersions
  <2>2. v \in Seq(VersionWords) /\ Len(v) = 2
    BY <1>2, <2>1
  <2>3. v # << >>
    BY <2>2
  <2> QED
    BY <2>1, <2>2, <2>3, Zenon DEF VersionOf
<1> QED
  BY <1>3, <1>4

LEMMA VersionWordsAre ==
  /\ \A w \in VersionWords : w \in Segments /\ w \notin SuffixWords /\ w # "medium" /\ w \notin DOMAIN Codenames
BY DEF VersionWords, Segments

LEMMA NormalizedIs ==
  ASSUME NEW n, IsPrefix(<<"claude", "opus">>, n), Len(n) > 2
  PROVE  Normalized(n) =
           ((<<"claude">> \o VersionOf(Without(RestOf(n), SuffixOf(RestOf(n))))) \o <<"opus">>)
             \o SuffixOf(RestOf(n))
BY DEF Normalized, FirstMatch, Hit, RestOf, SuffixOf, VersionOf

\* The older form is read as the newer one, with its suffix.
LEMMA OlderReadsBack ==
  ASSUME NEW m, IsBase(m), IsOpus(m), NEW v \in OlderVersions(m), NEW s \in VariantSuffixes,
         NEW family, family = <<"claude", "opus">>
  PROVE  ToCanonicalName((family \o v) \o s) = m \o s
<1> DEFINE rest == v \o s
           name == family \o rest
<1>1. /\ v \in Seq(VersionWords) /\ v # << >>
      /\ VersionOf(v) = <<m[2]>>
  BY VersionsAre
<1>2. v \in Seq(Segments) /\ Len(v) \in Nat /\ Len(v) >= 1
  BY <1>1, VersionWordsAre
<1>3. s \in Seq(Segments)
  BY SuffixesAreSegments
<1>4. /\ family \in Seq(Segments) /\ Len(family) = 2 /\ family # << >>
      /\ family[1] = "claude" /\ family[2] = "opus"
  BY DEF Segments
<1>5. m \in Seq(Segments) /\ Len(m) = 3 /\ m[1] = "claude" /\ m[3] = "opus"
  BY ApartIsClear DEF IsBase, IsOpus, Clear
<1>6. rest \in Seq(Segments) /\ Len(rest) >= 1 /\ Len(rest) \in Nat
  BY <1>2, <1>3
<1>7. (family \o v) \o s = name
  BY <1>2, <1>3, <1>4, ConcatAssociative
<1>8. v[Len(v)] \notin SuffixWords
  BY <1>1, <1>2, VersionWordsAre
<1>9. PICK k \in 0..6 : FirstIs(rest, s, k)
  <2>1. EndsAsItShould(rest, s, v[Len(v)] = "medium")
    BY <1>1, <1>2, <1>8, Endings
  <2> QED
    BY <2>1, FirstIsOfSuffix
<1>10. Hit(rest) = k
  BY <1>9, HitIs
<1>11. SuffixOf(rest) = s
  BY <1>9, <1>10 DEF FirstIs, SuffixOf
<1>12. Without(rest, s) = v
  BY <1>2, <1>3, WithoutSuffix
<1>13. SubSeq(name, 3, Len(name)) = rest
  <2>1. SubSeq(name, Len(family) + 1, Len(name)) = rest
    BY <1>4, <1>6, CutConcat, Zenon
  <2> QED
    BY <1>4, <2>1
<1>14. /\ name \in Seq(Segments) /\ name # << >> /\ Len(name) > 2
       /\ name[1] = "claude" /\ name[2] = "opus"
  <2>1. /\ name \in Seq(Segments) /\ Len(name) = Len(family) + Len(rest)
        /\ \A i \in 1..Len(family) + Len(rest) :
             name[i] = IF i <= Len(family) THEN family[i] ELSE rest[i - Len(family)]
    BY <1>4, <1>6, ConcatProperties
  <2> HIDE DEF name, rest
  <2> QED
    BY <1>4, <1>6, <2>1
<1>15. IsPrefix(<<"claude", "opus">>, name)
  BY <1>4, <1>6, BeginsWithOne, Zenon
<1>16. ((<<"claude">> \o <<m[2]>>) \o <<"opus">>) \o s = m \o s
  <2>1. (<<"claude">> \o <<m[2]>>) \o <<"opus">> = m
    BY <1>5, ThreeOfOne
  <2> QED
    BY <2>1
<1>17. \A i \in DOMAIN name : name[i] \notin DOMAIN Codenames
  <2>1. \A i \in 1..Len(v) : v[i] \notin DOMAIN Codenames
    BY <1>1, VersionWordsAre
  <2>2. \A i \in 1..Len(rest) : rest[i] \notin DOMAIN Codenames
    BY <1>2, <1>3, <2>1, SuffixesArePlain, NoneOfConcat
  <2>3. \A i \in 1..Len(family) : family[i] \notin DOMAIN Codenames
    BY Tables
  <2>4. \A i \in 1..Len(name) : name[i] \notin DOMAIN Codenames
    <3> HIDE DEF rest
    <3> QED
      BY <1>4, <1>6, <2>2, <2>3, NoneOfConcat
  <2> QED
    BY <1>14, <2>4
<1>18. Unprefixed(name) = name
  <2> HIDE DEF name
  <2>1. ~Prefixed(name)
    BY <1>14, Tables, FamiliesAreNoPrefix
  <2> QED
    BY <2>1 DEF Unprefixed
<1> HIDE DEF name, rest
<1>19. ReplaceSegments(name, Codenames) = name
  BY <1>14, <1>17, AliasesComeBack
<1>20. Normalized(name) = m \o s
  <2>1. Normalized(name) = ((<<"claude">> \o <<m[2]>>) \o <<"opus">>) \o s
    <3>1. RestOf(name) = rest
      BY <1>13 DEF RestOf
    <3>2. Len(name) > 2
      BY <1>14
    <3>3. Normalized(name) =
            ((<<"claude">> \o VersionOf(Without(RestOf(name), SuffixOf(RestOf(name))))) \o <<"opus">>)
              \o SuffixOf(RestOf(name))
      BY <1>15, <3>2, NormalizedIs
    <3> QED
      BY <1>1, <1>11, <1>12, <3>1, <3>3, Zenon
  <2> QED
    BY <1>16, <2>1
<1> QED
  BY <1>7, <1>18, <1>19, <1>20 DEF ToCanonicalName

\* A name is a beginning and the suffix, and the beginning ends as the model does.
IsWritten(name, m, s) ==
  \E x \in Seq(Segments) :
    /\ x # << >> /\ name = x \o s /\ x[Len(x)] \notin SuffixWords
    /\ (x[Len(x)] = "medium") <=> (m[Len(m)] = "medium")

LEMMA LastOfJoin ==
  ASSUME NEW S, NEW x \in Seq(S), NEW y \in Seq(S), y # << >>
  PROVE  x \o y \in Seq(S) /\ x \o y # << >> /\ (x \o y)[Len(x \o y)] = y[Len(y)]
<1> DEFINE z == x \o y
           k == Len(x)
           l == Len(y)
<1>1. /\ z \in Seq(S) /\ Len(z) = k + l
      /\ \A i \in 1..k + l : z[i] = IF i <= k THEN x[i] ELSE y[i - k]
  BY ConcatProperties
<1>2. k \in Nat /\ l \in Nat /\ l >= 1
  OBVIOUS
<1> HIDE DEF z, k, l
<1>3. k + l \in 1..k + l /\ ~(k + l <= k) /\ (k + l) - k = l /\ k + l >= 1
  BY <1>2
<1>4. z[Len(z)] = y[l] /\ Len(z) >= 1
  BY <1>1, <1>3
<1>5. z # << >>
  BY <1>1, <1>4
<1> QED
  BY <1>1, <1>4, <1>5 DEF z, k, l

LEMMA AliasesEndAlike ==
  ASSUME NEW w
  PROVE  /\ w \notin SuffixWords => Alias(w) \notin SuffixWords
         /\ (Alias(w) = "medium") <=> (w = "medium")
BY Tables DEF SuffixWords, Alias

\* A name can be read as a variant of m: it is a beginning and the suffix, and the
\* beginning ends and is published as m is.
IsReadAs(core, m, s) ==
  \E x \in Seq(Segments) :
    /\ x # << >> /\ core = x \o s /\ x[Len(x)] \notin SuffixWords
    /\ (x[Len(x)] = "medium") <=> (m[Len(m)] = "medium")
    /\ ToPublicName(x) = ToPublicName(m) /\ ToPublicName(core) = ToPublicName(m \o s)

\* What is behind the prefix can be read so.
LEMMA BehindIsReadAs ==
  ASSUME NEW m, IsBase(m), NEW s \in VariantSuffixes, Prefixed(Aliased(m))
  PROVE  IsReadAs(Behind(m \o s), m, s)
<1> DEFINE full == m \o s
           q == Behind(m)
           c == Named(Prefix)
<1>1. Clear(m) /\ m \in Seq(Segments) /\ m[Len(m)] \notin SuffixWords
  BY ApartIsClear DEF IsBase, Clear
<1>2. Clear(full) /\ Prefixed(Aliased(full)) /\ Behind(full) = q \o s
  BY <1>1, ClearWithSuffix, Zenon
<1>3. /\ q \in Seq(Segments) /\ q # << >> /\ m = c \o q
      /\ ToPublicName(q) = ToPublicName(m)
  BY <1>1, BehindIs, Zenon
<1>4. ToPublicName(Behind(full)) = ToPublicName(full)
  BY <1>2, BehindIs, Zenon
<1>5. c \in Seq(Segments)
  BY Configuration, AliasedIs
<1> HIDE DEF q, c
<1>6. m[Len(m)] = q[Len(q)]
  BY <1>3, <1>5, LastOfJoin, Zenon
<1> QED
  BY <1>1, <1>2, <1>3, <1>4, <1>6, Zenon DEF IsReadAs, full

\* However a model and a variant of it are written, the name ends as it should, and
\* is read as that variant: by its canonical name or, where the prefix is the
\* family's codename and is taken off, by one with the same public name.
THEOREM FormsReadBack ==
  ASSUME NEW m, IsBase(m), NEW s \in VariantSuffixes, NEW name \in Forms(m, s)
  PROVE  /\ IsWritten(name, m, s)
         /\ IsReadAs(ToCanonicalName(name), m, s)
         /\ ReadWithoutFamily(name, m \o s) \/ ToCanonicalName(name) = m \o s
         /\ name \in ModelNamesConfigured => name = ToPublicName(m \o s)
<1> DEFINE full == m \o s
           a == Aliased(m)
<1>1. Clear(m) /\ m \in Seq(Segments) /\ m # << >> /\ m[Len(m)] \notin SuffixWords
  BY ApartIsClear DEF IsBase, Clear
<1>2. /\ Clear(full) /\ Aliased(full) = a \o s
      /\ Prefixed(Aliased(full)) <=> Prefixed(a)
  BY <1>1, ClearWithSuffix, Zenon
<1>3. s \in Seq(Segments) /\ full \in Seq(Segments) /\ full # << >>
  <2>1. full \in Seq(Segments) /\ full # << >>
    BY <1>2, Zenon DEF Clear
  <2> QED
    BY <2>1, SuffixesAreSegments
<1>4. /\ a \in Seq(Segments) /\ a # << >> /\ Len(a) = Len(m) /\ a[Len(m)] = Alias(m[Len(m)])
  <2>1. a \in Seq(Segments) /\ a # << >> /\ Len(a) = Len(m)
    BY <1>1, AliasedIs
  <2>2. Len(m) \in 1..Len(m)
    BY <1>1
  <2> QED
    BY <1>1, <2>1, <2>2, ReplacedIs DEF Aliased
<1>5. a[Len(a)] \notin SuffixWords /\ ((a[Len(a)] = "medium") <=> (m[Len(m)] = "medium"))
  BY <1>1, <1>4, AliasesEndAlike, Zenon
<1>6. IsReadAs(full, m, s)
  BY <1>1, Zenon DEF IsReadAs
<1>7. ASSUME NEW n \in {full, ToPublicName(full), Aliased(full)}
      PROVE  /\ IsReadAs(ToCanonicalName(n), m, s)
             /\ ReadWithoutFamily(n, full) \/ ToCanonicalName(n) = full
             /\ n \in ModelNamesConfigured => n = ToPublicName(full)
  <2>1. ToCanonicalName(n) =
          IF Prefixed(n) /\ Prefixed(Aliased(full)) THEN Behind(full) ELSE full
    BY <1>2, <1>7, ReadsBack, Zenon
  <2>2. Prefixed(a) => IsReadAs(Behind(full), m, s)
    BY BehindIsReadAs, Zenon
  <2>3. IsReadAs(ToCanonicalName(n), m, s)
    BY <1>2, <1>6, <2>1, <2>2, Zenon
  <2>4. ReadWithoutFamily(n, full) \/ ToCanonicalName(n) = full
    BY <2>1, Zenon DEF ReadWithoutFamily, Aliased
  <2>5. ToPublicName(n) = ToPublicName(full)
    BY <1>3, <1>7, PublicIs, Zenon
  <2>6. n \in ModelNamesConfigured => n = ToPublicName(full)
    BY <2>5, ConfiguredIsPublic, Zenon
  <2> QED
    BY <2>3, <2>4, <2>6, Zenon
<1>8. IsWritten(full, m, s)
  BY <1>1, Zenon DEF IsWritten
<1>9. IsWritten(Aliased(full), m, s)
  <2> HIDE DEF a
  <2> QED
    BY <1>2, <1>4, <1>5, Zenon DEF IsWritten
<1>10. IsWritten(ToPublicName(full), m, s)
  <2>1. ToPublicName(full) = Aliased(full) \/ ToPublicName(full) = Prefix \o (a \o s)
    BY <1>2, <1>3, PublicIs, Zenon
  <2>2. Prefix \in Seq(Segments)
    BY Configuration
  <2> DEFINE x == Prefix \o a
  <2> HIDE DEF a
  <2>3. x \o s = Prefix \o (a \o s)
    BY <1>3, <1>4, <2>2, ConcatAssociative, SMTT(30)
  <2>4. x \in Seq(Segments) /\ x # << >> /\ x[Len(x)] = a[Len(a)]
    BY <1>4, <2>2, LastOfJoin, Zenon
  <2> HIDE DEF x
  <2>5. IsWritten(x \o s, m, s)
    BY <1>5, <2>4, Zenon DEF IsWritten
  <2> QED
    BY <1>9, <2>1, <2>3, <2>5, Zenon
<1>11. ASSUME name \in {full, ToPublicName(full), Aliased(full)}
       PROVE  /\ IsWritten(name, m, s)
              /\ IsReadAs(ToCanonicalName(name), m, s)
              /\ ReadWithoutFamily(name, full) \/ ToCanonicalName(name) = full
              /\ name \in ModelNamesConfigured => name = ToPublicName(full)
  BY <1>7, <1>8, <1>9, <1>10, <1>11, Zenon
<1>12. ASSUME IsOpus(m), NEW v \in OlderVersions(m), name = (<<"claude", "opus">> \o v) \o s
       PROVE  /\ IsWritten(name, m, s)
              /\ ToCanonicalName(name) = full
              /\ name \notin ModelNamesConfigured
  <2> DEFINE family == <<"claude", "opus">>
             x == family \o v
  <2>1. ToCanonicalName((family \o v) \o s) = full
    BY <1>12, OlderReadsBack, Zenon
  <2>2. v \in Seq(VersionWords) /\ v # << >>
    BY <1>12, VersionsAre
  <2>3. v \in Seq(Segments) /\ v[Len(v)] \notin SuffixWords /\ v[Len(v)] # "medium"
    BY <2>2, VersionWordsAre
  <2>4. family \in Seq(Segments) /\ family # << >> /\ family[1] = "claude"
    BY DEF Segments
  <2> HIDE DEF family
  <2>5. x \in Seq(Segments) /\ x # << >> /\ x[Len(x)] = v[Len(v)]
    BY <2>2, <2>3, <2>4, LastOfJoin, Zenon
  <2>6. m[Len(m)] # "medium"
    BY <1>12 DEF IsOpus
  <2>7. name = x \o s
    BY <1>12 DEF family
  <2>8. name[1] = "claude"
    <3>1. IsPrefix(family, x) /\ x[1] = family[1]
      BY <2>3, <2>4, BeginsWithOne
    <3> HIDE DEF x
    <3>2. IsPrefix(x, x \o s) /\ (x \o s)[1] = x[1]
      <4>1. x \o s \in Seq(Segments)
        BY <1>3, <2>5
      <4>2. IsPrefix(x, x \o s)
        BY <1>3, <2>5, BeginsWithOne
      <4> QED
        BY <2>5, <4>1, <4>2, BeginsWithOne
    <3> QED
      BY <2>4, <2>7, <3>1, <3>2, Zenon
  <2> HIDE DEF x
  <2>9. IsWritten(name, m, s)
    BY <2>3, <2>5, <2>6, <2>7, Zenon DEF IsWritten
  <2>10. name \notin ModelNamesConfigured
    <3>1. "claude" \in DOMAIN Aliases
      BY Tables
    <3> QED
      BY <2>8, <3>1, ConfiguredIsPublic, Zenon
  <2> QED
    BY <2>1, <2>7, <2>9, <2>10 DEF x
<1>13. \/ name \in {full, ToPublicName(full), Aliased(full)}
       \/ IsOpus(m) /\ \E v \in OlderVersions(m) : name = (<<"claude", "opus">> \o v) \o s
  BY DEF Forms, OlderVersions, Aliased
<1> QED
  BY <1>6, <1>11, <1>12, <1>13, Zenon

\* What is written so ends as its suffix says.
LEMMA WrittenEnds ==
  ASSUME NEW m, NEW s \in VariantSuffixes, NEW name, IsWritten(name, m, s)
  PROVE  EndsAsItShould(name, s, m[Len(m)] = "medium")
<1>1. PICK x \in Seq(Segments) :
        /\ x # << >> /\ name = x \o s /\ x[Len(x)] \notin SuffixWords
        /\ (x[Len(x)] = "medium") <=> (m[Len(m)] = "medium")
  BY Zenon DEF IsWritten
<1>2. EndsAsItShould(name, s, x[Len(x)] = "medium")
  BY <1>1, Endings, Zenon
<1> QED
  BY <1>1, <1>2, Zenon DEF EndsAsItShould

\* All forms end alike.
LEMMA EndAlike ==
  ASSUME NEW a, NEW b, NEW s, NEW medium, EndsAsItShould(a, s, medium), EndsAsItShould(b, s, medium)
  PROVE  /\ \A i \in 1..6 : EndsWith(a, Budgets[i].suffix) <=> EndsWith(b, Budgets[i].suffix)
         /\ \A i \in 1..7 : EndsWith(a, Adaptives[i].suffix) <=> EndsWith(b, Adaptives[i].suffix)
<1>1. /\ EndsWith(a, <<"thinking", "max">>) <=> EndsWith(b, <<"thinking", "max">>)
      /\ EndsWith(a, <<"thinking", "high">>) <=> EndsWith(b, <<"thinking", "high">>)
      /\ EndsWith(a, <<"thinking">>) <=> EndsWith(b, <<"thinking">>)
      /\ EndsWith(a, <<"xhigh">>) <=> EndsWith(b, <<"xhigh">>)
      /\ EndsWith(a, <<"max">>) <=> EndsWith(b, <<"max">>)
      /\ EndsWith(a, <<"high">>) <=> EndsWith(b, <<"high">>)
      /\ EndsWith(a, <<"medium">>) <=> EndsWith(b, <<"medium">>)
  BY Zenon DEF EndsAsItShould
<1>2. /\ EndsWith(a, Budgets[1].suffix) <=> EndsWith(b, Budgets[1].suffix)
      /\ EndsWith(a, Budgets[2].suffix) <=> EndsWith(b, Budgets[2].suffix)
      /\ EndsWith(a, Budgets[3].suffix) <=> EndsWith(b, Budgets[3].suffix)
      /\ EndsWith(a, Budgets[4].suffix) <=> EndsWith(b, Budgets[4].suffix)
      /\ EndsWith(a, Budgets[5].suffix) <=> EndsWith(b, Budgets[5].suffix)
      /\ EndsWith(a, Budgets[6].suffix) <=> EndsWith(b, Budgets[6].suffix)
  BY <1>1, BudgetsAre, Zenon
<1>3. \A i \in 1..6 : EndsWith(a, Budgets[i].suffix) <=> EndsWith(b, Budgets[i].suffix)
  <2>1. 1..6 = {1, 2, 3, 4, 5, 6}
    OBVIOUS
  <2> QED
    BY <1>2, <2>1, Zenon
<1>4. \A i \in 1..7 : EndsWith(a, Adaptives[i].suffix) <=> EndsWith(b, Adaptives[i].suffix)
  <2> TAKE i \in 1..7
  <2>1. CASE i \in 1..6
    BY <1>3, <2>1, AdaptivesAre, Zenon
  <2>2. CASE i = 7
    BY <1>1, <2>2, AdaptivesAre, Zenon
  <2>3. i \in 1..6 \/ i = 7
    OBVIOUS
  <2> QED
    BY <2>1, <2>2, <2>3
<1> QED
  BY <1>3, <1>4

\* _variant_kwargs in parts.
TableOf(canonical) ==
  IF \E f \in AdaptiveFamilies : IsPrefix(f, canonical) THEN Adaptives ELSE Budgets

HitsIn(table, canonical, name) ==
  {i \in DOMAIN table : EndsWith(canonical, table[i].suffix) \/ EndsWith(name, table[i].suffix)}

EntryOf(table, hits) ==
  LET hit == IF hits = {} THEN 0 ELSE Min(hits)
  IN  IF hit = 0 THEN 0 ELSE table[hit].thinking

LEMMA ThinkingIs ==
  ASSUME NEW name
  PROVE  Thinking(name) =
           EntryOf(TableOf(ToCanonicalName(name)),
                   HitsIn(TableOf(ToCanonicalName(name)), ToCanonicalName(name), name))
BY DEF Thinking, FirstMatch, EntryOf, HitsIn, TableOf

\* A variant whose own name begins with the prefix has only names that are read
\* without their family.
LEMMA OnlyWithoutFamily ==
  ASSUME NEW m, IsBase(m), NEW s \in VariantSuffixes, NEW name \in Forms(m, s),
         ~ReadWithoutFamily(name, m \o s)
  PROVE  ~Prefixed(m \o s)
<1> DEFINE full == m \o s
<1>1. Clear(m) /\ m \in Seq(Segments) /\ m # << >>
  BY ApartIsClear DEF IsBase, Clear
<1>2. full \in Seq(Segments) /\ full # << >> /\ full[1] = m[1]
  <2>1. s \in Seq(Segments)
    BY SuffixesAreSegments
  <2>2. full \in Seq(Segments) /\ IsPrefix(m, full)
    BY <1>1, <2>1, BeginsWithOne
  <2> QED
    BY <1>1, <2>2, BeginsWithOne
<1> HIDE DEF full
<1>3. CASE IsOpus(m)
  <2>1. full[1] \in DOMAIN Aliases
    BY <1>2, <1>3, Tables DEF IsOpus
  <2> QED
    BY <1>2, <2>1, FamiliesAreNoPrefix, Zenon DEF full
<1>4. CASE ~IsOpus(m)
  <2> SUFFICES ASSUME Prefixed(full) PROVE FALSE
    BY DEF full
  <2>1. Prefixed(Aliased(full))
    BY <1>1, ClearWithSuffix, PrefixedIsAliased, Zenon DEF full
  <2>2. ToPublicName(full) = Aliased(full)
    BY <1>2, <2>1, PublicIs, Zenon
  <2>3. name \in {full, ToPublicName(full), Aliased(full)}
    BY <1>4 DEF Forms, Aliased, full
  <2>4. Prefixed(name)
    BY <2>1, <2>2, <2>3
  <2> QED
    BY <2>1, <2>4 DEF ReadWithoutFamily, Aliased, full
<1> QED
  BY <1>3, <1>4

\* A variant's thinking is that of its canonical name.
LEMMA ThinkingOfForms ==
  ASSUME NEW m, IsBase(m), NEW s \in VariantSuffixes, NEW name \in Forms(m, s),
         ~ReadWithoutFamily(name, m \o s)
  PROVE  Thinking(name) = Thinking(m \o s)
<1> DEFINE full == m \o s
           table == TableOf(full)
<1>1. full \in Forms(m, s)
  BY DEF Forms
<1>2. /\ ToCanonicalName(name) = full /\ IsWritten(name, m, s)
      /\ ToCanonicalName(full) = full /\ IsWritten(full, m, s)
  <2>1. ~Prefixed(full)
    BY OnlyWithoutFamily, Zenon
  <2> QED
    BY <1>1, <2>1, FormsReadBack, Zenon DEF ReadWithoutFamily
<1>3. EndsAsItShould(name, s, m[Len(m)] = "medium") /\ EndsAsItShould(full, s, m[Len(m)] = "medium")
  BY <1>2, WrittenEnds, Zenon
<1> HIDE DEF full
<1>4. /\ \A i \in 1..6 : EndsWith(name, Budgets[i].suffix) <=> EndsWith(full, Budgets[i].suffix)
      /\ \A i \in 1..7 : EndsWith(name, Adaptives[i].suffix) <=> EndsWith(full, Adaptives[i].suffix)
  BY <1>3, EndAlike, Zenon
<1>5. \A i \in DOMAIN table : EndsWith(name, table[i].suffix) <=> EndsWith(full, table[i].suffix)
  <2>1. DOMAIN Budgets = 1..6 /\ DOMAIN Adaptives = 1..7
    BY BudgetsAre, AdaptivesAre
  <2>2. table = Budgets \/ table = Adaptives
    BY Zenon DEF TableOf
  <2> HIDE DEF table
  <2> QED
    BY <1>4, <2>1, <2>2, Zenon
<1> HIDE DEF table
<1>6. HitsIn(table, full, name) = HitsIn(table, full, full)
  BY <1>5, Zenon DEF HitsIn
<1>7. Thinking(name) = EntryOf(table, HitsIn(table, full, name))
  BY <1>2, ThinkingIs, Zenon DEF table
<1>8. Thinking(full) = EntryOf(table, HitsIn(table, full, full))
  BY <1>2, ThinkingIs, Zenon DEF table
<1>9. Thinking(name) = Thinking(full)
  BY <1>6, <1>7, <1>8, Zenon
<1> QED
  BY <1>9 DEF full

\* _resolve_model_name in parts.
Candidates(n) == {ToPublicName(n), n} \cap ModelNamesConfigured
Preferred(n) == IF ToPublicName(n) \in ModelNamesConfigured THEN ToPublicName(n) ELSE n
BaseHits(core) ==
  {i \in DOMAIN Budgets :
     EndsWith(core, Budgets[i].suffix) /\ Candidates(Without(core, Budgets[i].suffix)) # {}}
ResolveCore(core, name) ==
  IF name \in ModelNamesConfigured THEN name
  ELSE IF Candidates(core) # {} THEN Preferred(core)
  ELSE IF BaseHits(core) # {} THEN Preferred(Without(core, Budgets[Min(BaseHits(core))].suffix))
  ELSE name

LEMMA ResolveIs ==
  ASSUME NEW name
  PROVE  Resolve(name) = ResolveCore(ToCanonicalName(name), name)
BY DEF Resolve, ResolveCore, BaseHits, Candidates, Preferred

\* A name in any form is resolved to what it means.
LEMMA ResolvesAsNamed ==
  ASSUME NEW m, IsBase(m), NEW s \in VariantSuffixes, NEW name \in Forms(m, s),
         {ToPublicName(m), ToPublicName(m \o s)} \cap ModelNamesConfigured # {}
  PROVE  /\ Resolve(name) = ToPublicName(IF ToPublicName(m \o s) \in ModelNamesConfigured
                                          THEN m \o s ELSE m)
         /\ Resolve(name) \in ModelNamesConfigured
<1> DEFINE full == m \o s
           core == ToCanonicalName(name)
<1>1. /\ IsReadAs(core, m, s)
      /\ name \in ModelNamesConfigured => name = ToPublicName(full)
  BY FormsReadBack, Zenon
<1>2. PICK x \in Seq(Segments) :
        /\ x # << >> /\ core = x \o s /\ x[Len(x)] \notin SuffixWords
        /\ ToPublicName(x) = ToPublicName(m) /\ ToPublicName(core) = ToPublicName(full)
  BY <1>1, Zenon DEF IsReadAs
<1>3. Without(core, s) = x
  BY <1>2, SuffixesAreSegments, WithoutSuffix, Zenon
<1>4. PICK k \in 0..6 : FirstIs(core, s, k)
  <2>1. EndsAsItShould(core, s, x[Len(x)] = "medium")
    BY <1>2, Endings, Zenon
  <2> QED
    BY <2>1, FirstIsOfSuffix, Zenon
<1>5. s = << >> => full = m
  <2>1. m \in Seq(Segments)
    BY ApartIsClear DEF IsBase, Clear
  <2> QED
    BY <2>1
<1>6. Resolve(name) = ResolveCore(core, name)
  BY ResolveIs, Zenon
<1>7. ToPublicName(full) \in ModelNamesConfigured \/ ToPublicName(m) \in ModelNamesConfigured
  OBVIOUS
<1> HIDE DEF full, core
<1>8. \A n : Candidates(n) # {} <=> ToPublicName(n) \in ModelNamesConfigured
  BY FoundIsConfigured, Zenon DEF Candidates
<1>9. CASE name \in ModelNamesConfigured
  <2>1. name = ToPublicName(full)
    BY <1>1, <1>9, Zenon
  <2>2. Resolve(name) = name
    BY <1>6, <1>9, Zenon DEF ResolveCore
  <2> QED
    BY <1>9, <2>1, <2>2, Zenon DEF full
<1>10. CASE name \notin ModelNamesConfigured /\ ToPublicName(full) \in ModelNamesConfigured
  <2>1. Resolve(name) = ToPublicName(full)
    BY <1>2, <1>6, <1>8, <1>10, Zenon DEF ResolveCore, Preferred
  <2> QED
    BY <1>10, <2>1, Zenon DEF full
<1>11. CASE name \notin ModelNamesConfigured /\ ToPublicName(full) \notin ModelNamesConfigured
  <2>1. ToPublicName(m) \in ModelNamesConfigured /\ s # << >>
    BY <1>5, <1>7, <1>11
  <2>2. /\ k # 0 /\ Budgets[k].suffix = s /\ EndsWith(core, Budgets[k].suffix)
        /\ \A i \in 1..6 : i < k => ~EndsWith(core, Budgets[i].suffix)
    BY <1>4, <2>1, Zenon DEF FirstIs
  <2> DEFINE hits == BaseHits(core)
             least == Min(hits)
  <2>3. hits \in SUBSET (1..6)
    BY BudgetsAre DEF BaseHits
  <2>4. k \in hits
    <3>1. k \in 1..6
      BY <2>2
    <3>2. Candidates(Without(core, Budgets[k].suffix)) # {}
      BY <1>2, <1>3, <1>8, <2>1, <2>2, Zenon
    <3> QED
      BY <2>2, <3>1, <3>2, BudgetsAre, Zenon DEF BaseHits
  <2>5. \A i \in hits : EndsWith(core, Budgets[i].suffix)
    BY Zenon DEF BaseHits
  <2>6. least \in hits /\ \A i \in hits : least <= i
    <3>1. hits \in SUBSET Nat /\ hits # {}
      BY <2>3, <2>4
    <3> HIDE DEF hits
    <3> QED
      BY <3>1, Minimum, Zenon
  <2> HIDE DEF hits, least
  <2>7. least = k
    <3>1. least \in 1..6 /\ least <= k /\ ~(least < k)
      BY <2>2, <2>3, <2>4, <2>5, <2>6
    <3>2. k \in 1..6
      BY <2>3, <2>4
    <3> QED
      BY <3>1, <3>2
  <2>8. Resolve(name) = Preferred(x)
    <3>1. Candidates(core) = {} /\ hits # {}
      BY <1>2, <1>8, <1>11, <2>4, Zenon
    <3>2. Without(core, Budgets[least].suffix) = x
      BY <1>3, <2>2, <2>7, Zenon
    <3> QED
      BY <1>6, <1>11, <3>1, <3>2, Zenon DEF ResolveCore, hits, least
  <2>9. Resolve(name) = ToPublicName(m)
    BY <1>2, <2>1, <2>8, Zenon DEF Preferred
  <2> QED
    BY <1>11, <2>1, <2>9, Zenon DEF full
<1> QED
  BY <1>9, <1>10, <1>11, Zenon

------------------------------------------------------------------------------
(* A request: the inductive invariant, and one lemma per action.           *)

Phases == {"arrived", "condensing", "ready", "forwarded", "streaming",
           "served", "broken", "error", "refused"}

\* What may go to the model once the two calls are over, or were not needed.
Sendable(messages) ==
  IF Condenses(split)
    THEN \/ messages = Injected(cleaned, split.tail) /\ \A j \in Jobs : job[j] = "done"
         \/ messages = SystemOf(cleaned) \o split.tail /\ \E j \in Jobs : job[j] = "failed"
    ELSE messages = cleaned

ChatInv ==
  /\ incoming.client \in Clients /\ incoming.messages \in Seq(Messages)
  /\ phase \in Phases
  /\ job \in [Jobs -> {"idle", "running", "done", "failed"}]
  /\ sent = [model |-> sent.model, messages |-> sent.messages,
             maxTokens |-> sent.maxTokens, thinking |-> sent.thinking]
  /\ sent.maxTokens \in Nat /\ sent.thinking \in Int
  /\ cleaned \in Seq(Plain) /\ Answered(cleaned)
  /\ \/ split = NoSplit
     \/ /\ Condenses(split)
        /\ split = Split(cleaned, incoming.client.tools, incoming.client.system)
  /\ phase = "arrived" => cleaned = << >> /\ split = NoSplit /\ sent = Nothing
  /\ IF phase = "condensing" THEN Condenses(split) /\ sent.messages = cleaned
                             ELSE Sendable(sent.messages)
  /\ phase \in {"forwarded", "streaming"} => sent = Nothing \/ sent.maxTokens > sent.thinking

\* A variant's thinking is one of its table's.
LEMMA ThinkingIsInt ==
  ASSUME NEW name
  PROVE  Thinking(name) \in Int
<1> DEFINE canonical == ToCanonicalName(name)
           table == IF \E f \in AdaptiveFamilies : IsPrefix(f, canonical) THEN Adaptives ELSE Budgets
           hits == {i \in DOMAIN table :
                      EndsWith(canonical, table[i].suffix) \/ EndsWith(name, table[i].suffix)}
<1>1. Thinking(name) = IF (IF hits = {} THEN 0 ELSE Min(hits)) = 0 THEN 0
                       ELSE table[IF hits = {} THEN 0 ELSE Min(hits)].thinking
  BY DEF Thinking, FirstMatch
<1>2. DOMAIN Budgets = 1..6 /\ \A i \in 1..6 : Budgets[i].thinking \in Int
  BY DEF Budgets
<1>3. DOMAIN Adaptives = 1..7 /\ \A i \in 1..7 : Adaptives[i].thinking \in Int
  BY AdaptivesAre
<1>4. DOMAIN table \in SUBSET (1..7) /\ \A i \in DOMAIN table : table[i].thinking \in Int
  BY <1>2, <1>3
<1> HIDE DEF table
<1>5. hits \in SUBSET Nat /\ hits \subseteq DOMAIN table
  BY <1>4
<1>6. hits # {} => Min(hits) \in hits
  <2> HIDE DEF hits
  <2> QED
    BY <1>5, Minimum
<1>7. hits # {} => table[Min(hits)].thinking \in Int
  BY <1>4, <1>5, <1>6
<1> HIDE DEF hits
<1> QED
  BY <1>1, <1>7

\* However many tokens are asked for, the answer has room beyond the thinking.
LEMMA RoomToAnswer ==
  ASSUME NEW asked \in Nat, NEW thinking \in Int
  PROVE  MaxTokens(asked, thinking) \in Nat /\ MaxTokens(asked, thinking) > thinking
BY DEF MaxTokens

------------------------------------------------------------------------------
LEMMA ChatInitHolds == ChatInit => ChatInv
<1> SUFFICES ASSUME ChatInit PROVE ChatInv
  OBVIOUS
<1>0. PICK c \in Clients : \E n \in 1..c.longest : \E messages \in [1..n -> MessageKinds] :
         incoming = [client |-> c, name |-> c.name, messages |-> messages]
  BY DEF ChatInit
<1>1. PICK n \in 1..c.longest : \E messages \in [1..n -> MessageKinds] :
         incoming = [client |-> c, name |-> c.name, messages |-> messages]
  BY <1>0
<1>7. PICK messages \in [1..n -> MessageKinds] :
         incoming = [client |-> c, name |-> c.name, messages |-> messages]
  BY <1>1
<1>2. n \in Nat /\ messages \in Seq(MessageKinds)
  BY <1>1, ParametersAreNat, IsASeq
<1>3. messages \in Seq(Messages)
  BY <1>2, KindsAreMessages
<1>4. ~Condenses(NoSplit)
  BY DEF Condenses, NoSplit
<1>5. Answered(<< >>)
  BY DEF Answered
<1>6. Sendable(sent.messages)
  BY <1>4 DEF ChatInit, Sendable, Nothing
<1> QED
  BY <1>7, <1>3, <1>5, <1>6 DEF ChatInit, ChatInv, Phases, Jobs, Nothing

\* A step that changes the phase and no more.
LEMMA PhaseKeeps ==
  ASSUME ChatInv, UNCHANGED <<incoming, cleaned, split, job, sent>>,
         phase' \in Phases, phase # "condensing", phase' \notin {"arrived", "condensing"},
         phase' = "forwarded" => phase = "forwarded",
         phase' = "streaming" => phase = "forwarded" \/ sent = Nothing
  PROVE  ChatInv'
BY DEF ChatInv, Sendable

LEMMA PassthroughKeeps ==
  ASSUME ChatInv, Passthrough PROVE ChatInv'
<1>1. sent = Nothing
  BY DEF ChatInv, Passthrough
<1>2. phase' \in {"served", "error", "streaming"} /\ phase = "arrived"
  BY DEF Passthrough, Becomes
<1> QED
  BY <1>1, <1>2, PhaseKeeps DEF Passthrough, Phases

LEMMA EndKeeps ==
  ASSUME ChatInv, Refuse \/ Completed \/ StreamEnds PROVE ChatInv'
<1>1. CASE Refuse
  BY <1>1, PhaseKeeps DEF Refuse, Becomes, Phases
<1>2. CASE Completed
  BY <1>2, PhaseKeeps DEF Completed, Becomes, Phases
<1>3. CASE StreamEnds
  BY <1>3, PhaseKeeps DEF StreamEnds, Becomes, Phases
<1> QED
  BY <1>1, <1>2, <1>3

LEMMA PrepareKeeps ==
  ASSUME ChatInv, Prepare PROVE ChatInv'
<1> DEFINE body == Clean(incoming.messages)
           parts == Split(body, incoming.client.tools, incoming.client.system)
<1>1. body \in Seq(Plain) /\ Answered(body)
  BY CleanIsSound DEF ChatInv
<1>2. /\ split = NoSplit /\ sent = Nothing /\ phase = "arrived"
      /\ cleaned' = body /\ incoming' = incoming /\ sent' = [sent EXCEPT !.messages = body]
      /\ IF Condenses(parts)
           THEN split' = parts /\ job' = [j \in Jobs |-> "running"] /\ phase' = "condensing"
           ELSE phase' = "ready" /\ UNCHANGED <<split, job>>
  BY DEF ChatInv, Prepare, Becomes
<1>3. sent' = [model |-> << >>, messages |-> body, maxTokens |-> 0, thinking |-> 0]
  BY <1>2 DEF Nothing
<1>4. ~Condenses(NoSplit)
  BY DEF Condenses, NoSplit
<1> HIDE DEF body
<1>5. CASE Condenses(parts)
  BY <1>1, <1>2, <1>3, <1>5 DEF ChatInv, Phases, Jobs
<1>6. CASE ~Condenses(parts)
  <2>1. Sendable(sent.messages)'
    BY <1>2, <1>3, <1>4, <1>6 DEF Sendable
  <2> QED
    BY <1>1, <1>2, <1>3, <1>4, <1>6, <2>1 DEF ChatInv, Phases, Jobs
<1> QED
  BY <1>5, <1>6

LEMMA JobEndsKeeps ==
  ASSUME ChatInv, NEW j \in Jobs, JobEnds(j) PROVE ChatInv'
<1>1. UNCHANGED <<incoming, phase, cleaned, split, sent>>
  BY DEF JobEnds
<1>2. job \in [Jobs -> {"idle", "running", "done", "failed"}]
  BY DEF ChatInv
<1>3. job' \in [Jobs -> {"idle", "running", "done", "failed"}]
  BY <1>2 DEF JobEnds
<1>4. job[j] = "running" /\ \A k \in Jobs : k # j => job'[k] = job[k]
  BY <1>2 DEF JobEnds
<1>5. Sendable(sent.messages) => Sendable(sent.messages)'
  BY <1>1, <1>4 DEF Sendable
<1> QED
  BY <1>1, <1>3, <1>5 DEF ChatInv

LEMMA GatherKeeps ==
  ASSUME ChatInv, Inject \/ FallBack PROVE ChatInv'
<1>1. /\ phase = "condensing" /\ phase' = "ready" /\ Condenses(split)
      /\ UNCHANGED <<incoming, cleaned, split, job>>
      /\ \E m : Sendable(m) /\ sent' = [sent EXCEPT !.messages = m]
  BY DEF ChatInv, Inject, FallBack, Becomes, Sendable
<1>2. PICK m : Sendable(m) /\ sent' = [sent EXCEPT !.messages = m]
  BY <1>1
<1>3. sent' = [model |-> sent.model, messages |-> m, maxTokens |-> sent.maxTokens, thinking |-> sent.thinking]
  BY <1>2 DEF ChatInv
<1>4. Sendable(sent.messages)'
  BY <1>1, <1>2, <1>3 DEF Sendable
<1> QED
  BY <1>1, <1>3, <1>4 DEF ChatInv, Phases

LEMMA ForwardKeeps ==
  ASSUME ChatInv, Forward PROVE ChatInv'
<1> DEFINE thinking == Thinking(incoming.name)
           max == MaxTokens(incoming.client.maxTokens, thinking)
<1>1. thinking \in Int /\ incoming.client.maxTokens \in Nat
  BY ThinkingIsInt, ParametersAreNat DEF ChatInv
<1>2. max \in Nat /\ max > thinking
  <2> HIDE DEF thinking
  <2> QED
    BY <1>1, RoomToAnswer
<1>3. /\ phase = "ready" /\ phase' = "forwarded"
      /\ sent' = [model |-> Resolve(incoming.name), messages |-> sent.messages,
                  maxTokens |-> max, thinking |-> thinking]
      /\ UNCHANGED <<incoming, cleaned, split, job>>
  BY DEF Forward, Becomes
<1> HIDE DEF max, thinking
<1>4. Sendable(sent.messages)'
  BY <1>3 DEF ChatInv, Sendable
<1> QED
  BY <1>1, <1>2, <1>3, <1>4 DEF ChatInv, Phases

LEMMA ChatStepKeeps == ChatInv /\ [ChatNext]_chatVars => ChatInv'
<1> SUFFICES ASSUME ChatInv, [ChatNext]_chatVars PROVE ChatInv'
  OBVIOUS
<1>1. CASE UNCHANGED chatVars
  BY <1>1 DEF chatVars, ChatInv, Sendable
<1>2. CASE Passthrough \/ Refuse \/ Completed \/ StreamEnds
  BY <1>2, PassthroughKeeps, EndKeeps
<1>3. CASE Prepare
  BY <1>3, PrepareKeeps
<1>4. CASE \E j \in Jobs : JobEnds(j)
  BY <1>4, JobEndsKeeps
<1>5. CASE Inject \/ FallBack
  BY <1>5, GatherKeeps
<1>6. CASE Forward
  BY <1>6, ForwardKeeps
<1> QED
  BY <1>1, <1>2, <1>3, <1>4, <1>5, <1>6 DEF ChatNext

------------------------------------------------------------------------------
(* The name of a request.                                                  *)

\* A request that is not refused names what the gateway knows, and is sent as it
\* is resolved.
NamesInv ==
  /\ incoming.client \in Clients /\ incoming.name = incoming.client.name
  /\ phase \in {"condensing", "ready"} \/ Forwarded =>
       ~IsOpenAI(incoming.name) /\ Resolve(incoming.name) \in ModelNamesConfigured
  /\ phase = "refused" => Resolve(incoming.name) \notin ModelNamesConfigured
  /\ Forwarded => sent.model = Resolve(incoming.name) /\ sent.thinking = Thinking(incoming.name)

LEMMA NamesInitHolds == ChatInit => NamesInv
<1> SUFFICES ASSUME ChatInit PROVE NamesInv
  OBVIOUS
<1>1. phase = "arrived"
  BY DEF ChatInit
<1>2. PICK c \in Clients : \E n \in 1..c.longest : \E messages \in [1..n -> MessageKinds] :
         incoming = [client |-> c, name |-> c.name, messages |-> messages]
  BY DEF ChatInit
<1>3. incoming.client = c /\ incoming.name = c.name
  BY <1>2
<1> QED
  BY <1>1, <1>2, <1>3 DEF NamesInv, Forwarded

LEMMA NamesStepKeeps == ChatInv /\ NamesInv /\ [ChatNext]_chatVars => NamesInv'
<1> SUFFICES ASSUME ChatInv, NamesInv, [ChatNext]_chatVars PROVE NamesInv'
  OBVIOUS
<1>1. CASE UNCHANGED chatVars
  BY <1>1 DEF chatVars, NamesInv, Forwarded
<1>2. CASE Passthrough
  <2>1. sent = Nothing /\ UNCHANGED <<incoming, sent>> /\ phase' \in {"served", "error", "streaming"}
    BY <1>2 DEF ChatInv, Passthrough, Becomes
  <2> QED
    BY <2>1 DEF NamesInv, Forwarded
<1>3. CASE Refuse
  <2>1. /\ UNCHANGED <<incoming, sent>> /\ phase' = "refused"
        /\ Resolve(incoming.name) \notin ModelNamesConfigured
    BY <1>3 DEF Refuse, Becomes
  <2> QED
    BY <2>1 DEF NamesInv, Forwarded
<1>4. CASE Prepare
  <2>1. /\ UNCHANGED incoming /\ phase' \in {"condensing", "ready"}
        /\ ~IsOpenAI(incoming.name) /\ Resolve(incoming.name) \in ModelNamesConfigured
    BY <1>4 DEF Prepare, Becomes
  <2> QED
    BY <2>1 DEF NamesInv, Forwarded
<1>5. CASE \E j \in Jobs : JobEnds(j)
  <2>1. UNCHANGED <<incoming, phase, sent>>
    BY <1>5 DEF JobEnds
  <2> QED
    BY <2>1 DEF NamesInv, Forwarded
<1>6. CASE Inject \/ FallBack
  <2>1. UNCHANGED incoming /\ phase = "condensing" /\ phase' = "ready"
    BY <1>6 DEF Inject, FallBack, Becomes
  <2> QED
    BY <2>1 DEF NamesInv, Forwarded
<1>7. CASE Forward
  <2>1. /\ UNCHANGED incoming /\ phase = "ready" /\ phase' = "forwarded"
        /\ sent'.model = Resolve(incoming.name) /\ sent'.thinking = Thinking(incoming.name)
    BY <1>7 DEF Forward, Becomes
  <2> QED
    BY <2>1 DEF NamesInv, Forwarded
<1>8. CASE Completed
  <2>1. /\ UNCHANGED <<incoming, sent>> /\ phase = "forwarded"
        /\ phase' \in {"streaming", "served", "error"}
    BY <1>8 DEF Completed, Becomes
  <2> QED
    BY <2>1 DEF NamesInv, Forwarded
<1>9. CASE StreamEnds
  <2>1. UNCHANGED <<incoming, sent>> /\ phase' \in {"served", "broken"}
    BY <1>9 DEF StreamEnds, Becomes
  <2> QED
    BY <2>1 DEF NamesInv, Forwarded
<1> QED
  BY <1>1, <1>2, <1>3, <1>4, <1>5, <1>6, <1>7, <1>8, <1>9 DEF ChatNext

\* What is promised of names follows from how they are read.
LEMMA NamesAreFollowed == ChatInv /\ NamesInv => RoutedAsNamed
<1> SUFFICES ASSUME ChatInv, NamesInv PROVE RoutedAsNamed
  OBVIOUS
<1> DEFINE c == incoming.client
           full == c.model \o c.suffix
<1>1. c \in Clients /\ incoming.name = c.name
  BY DEF NamesInv
<1>2. IF NamesAModel(c)
        THEN IsBase(c.model) /\ c.suffix \in VariantSuffixes /\ c.name \in Forms(c.model, c.suffix)
        ELSE IsOpenAI(c.name) \/ Resolve(c.name) \notin ModelNamesConfigured
  BY <1>1, ReadInOneWay DEF NamesAreRead
<1>3. ASSUME NamesAModel(c)
      PROVE  /\ Resolve(c.name) =
                  ToPublicName(IF ToPublicName(full) \in ModelNamesConfigured THEN full ELSE c.model)
             /\ Resolve(c.name) \in ModelNamesConfigured
             /\ ReadWithoutFamily(c.name, full) \/ Thinking(c.name) = Thinking(full)
  <2>1. IsBase(c.model) /\ c.suffix \in VariantSuffixes /\ c.name \in Forms(c.model, c.suffix)
    BY <1>2, <1>3
  <2>2. {ToPublicName(c.model), ToPublicName(full)} \cap ModelNamesConfigured # {}
    BY <1>3 DEF NamesAModel
  <2> QED
    BY <2>1, <2>2, ResolvesAsNamed, ThinkingOfForms, Zenon
<1> HIDE DEF c
<1>4. phase = "refused" => ~NamesAModel(c)
  BY <1>1, <1>3 DEF NamesInv
<1>5. ASSUME Forwarded
      PROVE  /\ sent.model =
                  ToPublicName(IF ToPublicName(full) \in ModelNamesConfigured THEN full ELSE c.model)
             /\ ReadWithoutFamily(c.name, full) \/ sent.thinking = Thinking(full)
             /\ sent.maxTokens > sent.thinking
  <2>1. NamesAModel(c)
    BY <1>1, <1>2, <1>5 DEF NamesInv
  <2>2. sent.model = Resolve(c.name) /\ sent.thinking = Thinking(c.name)
    BY <1>1, <1>5 DEF NamesInv
  <2>3. sent.maxTokens > sent.thinking
    BY <1>5 DEF ChatInv, Forwarded
  <2> HIDE DEF full
  <2> QED
    BY <1>3, <2>1, <2>2, <2>3
<1> QED
  BY <1>4, <1>5 DEF RoutedAsNamed, c


------------------------------------------------------------------------------
(* What the invariant says of the parts of the conversation.               *)

PlainOthers == {m \in Plain : m.role \in Others}
PlainSystem == {m \in Plain : m.role \in {"system"}}

LEMMA PlainFacts ==
  /\ \A m \in Plain : m \in Messages /\ m.role \in Roles /\ m.results = << >> /\ m.uses = {}
  /\ PlainOthers \subseteq Plain /\ PlainSystem \subseteq Plain
BY DEF Plain, Messages, PlainOthers, PlainSystem

LEMMA WordsArePlain ==
  ASSUME NEW role \in {"user", "assistant"}
  PROVE  Message(role, 1) \in PlainOthers
<1> DEFINE m == Message(role, 1)
<1>1. m = [role |-> role, text |-> 1, calls |-> {}, uses |-> {}, lost |-> {}, list |-> FALSE,
           results |-> << >>, of |-> NoCall]
  BY DEF Message
<1> HIDE DEF m
<1>2. /\ m.role = role /\ m.text = 1 /\ m.calls = {} /\ m.uses = {} /\ m.lost = {}
      /\ m.list = FALSE /\ m.results = << >>
      /\ m.of = NoCall
  BY <1>1
<1>3. role \in Roles /\ role \in Others
  BY DEF Roles, Others
<1>4. {} \in SUBSET Ids /\ IsFiniteSet({}) /\ << >> \in Seq(Ids) /\ NoCall \in Ids \cup {NoCall}
      /\ 1 \in Nat /\ FALSE \in BOOLEAN
  BY FS_EmptySet
<1>5. m \in [role : Roles, text : Nat, calls : SUBSET Ids, uses : SUBSET Ids, lost : SUBSET Ids,
             list : BOOLEAN, results : Seq(Ids), of : Ids \cup {NoCall}]
  <2> HIDE DEF Roles
  <2> QED
    BY <1>1, <1>3, <1>4, Zenon
<1>6. m \in Messages
  BY <1>2, <1>4, <1>5 DEF Messages
<1> QED
  BY <1>2, <1>3, <1>6 DEF PlainOthers, Plain, m

\* The notes that carry the summary and the draft are none of the system's.
LEMMA NotesAreOthers == Notes \in Seq(PlainOthers)
<1>1. Message("user", 1) \in PlainOthers /\ Message("assistant", 1) \in PlainOthers
  BY WordsArePlain
<1> QED
  BY <1>1 DEF Notes

\* A subsequence's elements are elements of the whole.
LEMMA PartIsTyped ==
  ASSUME NEW S, NEW s \in Seq(S), NEW from \in 1..(Len(s) + 1)
  PROVE  /\ SubSeq(s, from, Len(s)) \in Seq(S) /\ SubSeq(s, 1, from - 1) \in Seq(S)
         /\ SubSeq(s, 1, from - 1) \o SubSeq(s, from, Len(s)) = s
<1>1. SubSeq(s, from, Len(s)) \in Seq(S) /\ SubSeq(s, 1, from - 1) \in Seq(S)
  OBVIOUS
<1>2. \A m \in 0..Len(s) : SubSeq(s, 1, m) \o SubSeq(s, m + 1, Len(s)) = SubSeq(s, 1, Len(s))
  <2> TAKE m \in 0..Len(s)
  <2>1. 1 \in 1..(Len(s) + 1) /\ m \in 1-1..Len(s) /\ Len(s) \in m..Len(s)
    OBVIOUS
  <2> QED
    BY <2>1, ConcatAdjacentSubSeq
<1>3. from - 1 \in 0..Len(s) /\ (from - 1) + 1 = from
  OBVIOUS
<1>4. SubSeq(s, 1, Len(s)) = s
  BY SubSeqFull, ZenonT(60)
<1>5. SubSeq(s, 1, from - 1) \o SubSeq(s, from, Len(s)) = s
  BY <1>2, <1>3, <1>4
<1> QED
  BY <1>1, <1>5

\* The parts of the conversation, as the invariant has them.
LEMMA Parts ==
  ASSUME ChatInv
  PROVE  /\ OthersOf(cleaned) \in Seq(PlainOthers) /\ SystemOf(cleaned) \in Seq(PlainSystem)
         /\ split.history \in Seq(PlainOthers) /\ split.tail \in Seq(PlainOthers)
         /\ Condenses(split) =>
              /\ split.history \o split.tail = OthersOf(cleaned)
              /\ \E from : SplitAt(OthersOf(cleaned), split, Budget(cleaned, incoming.client.tools), from)
<1>1. cleaned \in Seq(Plain) /\ Answered(cleaned)
  BY DEF ChatInv
<1>2. OthersOf(cleaned) \in Seq(PlainOthers) /\ SystemOf(cleaned) \in Seq(PlainSystem)
  BY <1>1, WithRoleTyped DEF OthersOf, SystemOf, PlainOthers, PlainSystem, Others
<1>3. CASE ~Condenses(split)
  <2>1. split = NoSplit
    BY <1>3 DEF ChatInv
  <2>2. split.history = << >> /\ split.tail = << >>
    BY <2>1 DEF NoSplit
  <2> QED
    BY <1>2, <1>3, <2>2
<1>4. CASE Condenses(split)
  <2> DEFINE tools == incoming.client.tools
             system == incoming.client.system
  <2>1. split = Split(cleaned, tools, system) /\ tools \in Nat /\ system \in Nat
    BY <1>4, ParametersAreNat DEF ChatInv, Condenses, NoSplit
  <2> HIDE DEF tools, system
  <2>2. PICK from : SplitAt(OthersOf(cleaned), split, Budget(cleaned, tools), from)
    BY <1>1, <1>4, <2>1, SplitIs
  <2> DEFINE others == OthersOf(cleaned)
  <2>3. /\ from \in 1..(Len(others) + 1)
        /\ split.history = SubSeq(others, 1, from - 1) /\ split.tail = SubSeq(others, from, Len(others))
    BY <2>2 DEF SplitAt
  <2>4. others \in Seq(PlainOthers)
    BY <1>2
  <2> HIDE DEF others
  <2>5. /\ split.history \in Seq(PlainOthers) /\ split.tail \in Seq(PlainOthers)
        /\ split.history \o split.tail = others
    BY <2>3, <2>4, PartIsTyped
  <2> QED
    BY <1>2, <2>2, <2>5 DEF others, tools
<1> QED
  BY <1>3, <1>4

\* Outside the two calls, what is sent is the system's messages and then others,
\* of which what is kept is the end, after the notes when both calls are done.
LEMMA SentParts ==
  ASSUME ChatInv, phase # "condensing"
  PROVE  /\ sent.messages \in Seq(Plain)
         /\ SystemOf(sent.messages) = SystemOf(cleaned)
         /\ \/ /\ OthersOf(sent.messages) = Kept
               /\ Condenses(split) => \E j \in Jobs : job[j] = "failed"
            \/ /\ OthersOf(sent.messages) = Notes \o Kept
               /\ Condenses(split) /\ \A j \in Jobs : job[j] = "done"
<1>1. cleaned \in Seq(Plain) /\ Sendable(sent.messages)
  BY DEF ChatInv
<1>2. CASE ~Condenses(split)
  BY <1>1, <1>2 DEF Sendable, Kept
<1>3. CASE Condenses(split)
  <2> DEFINE sys == SystemOf(cleaned)
             tail == split.tail
  <2>1. sys \in Seq(PlainSystem) /\ tail \in Seq(PlainOthers) /\ Notes \o tail \in Seq(PlainOthers)
    BY Parts, NotesAreOthers
  <2>2. \/ sent.messages = (sys \o Notes) \o tail /\ \A j \in Jobs : job[j] = "done"
        \/ sent.messages = sys \o tail /\ \E j \in Jobs : job[j] = "failed"
    BY <1>1, <1>3 DEF Sendable, Injected
  <2> HIDE DEF sys, tail
  <2>3. (sys \o Notes) \o tail = sys \o (Notes \o tail)
    <3>1. sys \in Seq(Plain) /\ tail \in Seq(Plain) /\ Notes \in Seq(Plain)
      BY <2>1, NotesAreOthers, PlainFacts
    <3> QED
      BY <3>1, ConcatAssociative
  <2>4. PICK rest \in {tail, Notes \o tail} :
          /\ sent.messages = sys \o rest
          /\ \/ rest = tail /\ \E j \in Jobs : job[j] = "failed"
             \/ rest = Notes \o tail /\ \A j \in Jobs : job[j] = "done"
    BY <2>2, <2>3
  <2>5. rest \in Seq(PlainOthers)
    BY <2>1
  <2>6. sys \in Seq(Plain) /\ rest \in Seq(Plain)
    BY <2>1, <2>5, PlainFacts
  <2>7. /\ \A i \in 1..Len(sys) : sys[i].role \in {"system"} /\ sys[i].role \notin Others
        /\ \A i \in 1..Len(rest) : rest[i].role \in Others /\ rest[i].role \notin {"system"}
    <3>1. \A m \in PlainSystem : m.role \in {"system"} /\ m.role \notin Others
      BY DEF PlainSystem, Others
    <3>2. \A m \in PlainOthers : m.role \in Others /\ m.role \notin {"system"}
      BY DEF PlainOthers, Others
    <3> QED
      BY <2>1, <2>5, <3>1, <3>2
  <2>8. SystemOf(sys \o rest) = sys /\ OthersOf(sys \o rest) = rest
    <3>1. WithRole(sys, {"system"}) = sys /\ WithRole(rest, {"system"}) = << >>
      BY <2>6, <2>7, WithRoleOfItsOwn, WithRoleOfOthers
    <3>2. WithRole(sys, Others) = << >> /\ WithRole(rest, Others) = rest
      BY <2>6, <2>7, WithRoleOfItsOwn, WithRoleOfOthers
    <3>3. /\ WithRole(sys \o rest, {"system"}) = sys \o << >>
          /\ WithRole(sys \o rest, Others) = << >> \o rest
      <4> HIDE DEF Others
      <4>1. \A R : WithRole(sys \o rest, R) = WithRole(sys, R) \o WithRole(rest, R)
        BY <2>6, WithRoleOfConcat
      <4> QED
        BY <4>1, <3>1, <3>2
    <3>4. sys \o << >> = sys /\ << >> \o rest = rest
      BY <2>6
    <3> QED
      BY <3>3, <3>4 DEF SystemOf, OthersOf, Others
  <2>9. Kept = tail
    BY <1>3 DEF Kept, tail
  <2>10. sys \o rest \in Seq(Plain)
    BY <2>6
  <2> QED
    BY <1>3, <2>4, <2>8, <2>9, <2>10 DEF sys
<1> QED
  BY <1>2, <1>3

\* A sequence that another has at its end is a suffix of it.
LEMMA EndIsSuffix ==
  ASSUME NEW S, NEW t \in Seq(S), NEW u \in Seq(S), Len(u) >= Len(t),
         \A i \in 1..Len(t) : u[Len(u) - Len(t) + i] = t[i]
  PROVE  IsSuffix(t, u)
<1> DEFINE n == Len(t)
           m == Len(u)
<1>1. n \in Nat /\ m \in Nat /\ n <= m
  OBVIOUS
<1>2. DOMAIN Reverse(t) = 1..n /\ DOMAIN Reverse(u) = 1..m
  BY DEF Reverse
<1>3. ASSUME NEW i \in 1..n
      PROVE  Reverse(t)[i] = Reverse(u)[i]
  <2>1. n - i + 1 \in 1..n /\ m - n + (n - i + 1) = m - i + 1 /\ i \in 1..m
    BY <1>1
  <2>2. u[m - n + (n - i + 1)] = t[n - i + 1]
    BY <2>1
  <2>3. Reverse(t)[i] = t[n - i + 1] /\ Reverse(u)[i] = u[m - i + 1]
    BY <2>1 DEF Reverse
  <2> QED
    BY <2>1, <2>2, <2>3
<1>4. Len(Reverse(t)) = n /\ Len(Reverse(u)) = m
  BY <1>1 DEF Reverse
<1> QED
  BY <1>1, <1>2, <1>3, <1>4 DEF IsSuffix, IsPrefix

LEMMA TypesFollow == ChatInv => ChatTypeOK
<1> SUFFICES ASSUME ChatInv PROVE ChatTypeOK
  OBVIOUS
<1>1. cleaned \in Seq(Plain) /\ split.history \in Seq(Plain) /\ split.tail \in Seq(Plain)
  <2>1. split.history \in Seq(PlainOthers) /\ split.tail \in Seq(PlainOthers)
    BY Parts
  <2>2. split.history \in Seq(Plain) /\ split.tail \in Seq(Plain)
    BY <2>1, PlainFacts
  <2> QED
    BY <2>2 DEF ChatInv
<1>2. sent.messages \in Seq(Plain)
  BY <1>1, SentParts DEF ChatInv
<1>3. ASSUME NEW s \in {cleaned, split.history, split.tail, sent.messages}, NEW i \in DOMAIN s
      PROVE  s[i].role \in Roles /\ s[i].results = << >> /\ s[i].uses = {}
  <2>1. s \in Seq(Plain)
    BY <1>1, <1>2
  <2>2. s[i] \in Plain
    BY <2>1
  <2> QED
    BY <2>2, PlainFacts
<1> QED
  BY <1>3 DEF ChatInv, ChatTypeOK, Phases

\* The end of a sequence from i on is a suffix of any longer end, and of what that
\* is the end of.
LEMMA RestIsSuffix ==
  ASSUME NEW S, NEW s \in Seq(S), NEW from \in 1..(Len(s) + 1), NEW i \in from..Len(s),
         NEW before \in Seq(S)
  PROVE  /\ IsSuffix(SubSeq(s, i, Len(s)), SubSeq(s, from, Len(s)))
         /\ IsSuffix(SubSeq(s, i, Len(s)), before \o SubSeq(s, from, Len(s)))
<1> DEFINE n == Len(s)
           rest == SubSeq(s, i, n)
           end == SubSeq(s, from, n)
<1>1. /\ n \in Nat /\ rest \in Seq(S) /\ end \in Seq(S)
      /\ Len(rest) = n - i + 1 /\ Len(end) = n - from + 1
      /\ \A k \in 1..Len(rest) : rest[k] = s[i - 1 + k]
      /\ \A k \in 1..Len(end) : end[k] = s[from - 1 + k]
  OBVIOUS
<1>2. i \in Int /\ from \in Int /\ from <= i /\ 1 <= from /\ before \in Seq(S)
  OBVIOUS
<1> HIDE DEF n, rest, end
<1>3. Len(end) >= Len(rest) /\ \A k \in 1..Len(rest) : end[Len(end) - Len(rest) + k] = rest[k]
  BY <1>1, <1>2
<1>4. LET u == before \o end IN
      /\ u \in Seq(S) /\ Len(u) >= Len(rest)
      /\ \A k \in 1..Len(rest) : u[Len(u) - Len(rest) + k] = rest[k]
  <2>1. /\ before \o end \in Seq(S) /\ Len(before \o end) = Len(before) + Len(end)
        /\ \A k \in 1..Len(end) : (before \o end)[Len(before) + k] = end[k]
    <3> DEFINE v == before \o end
               b == Len(before)
               e == Len(end)
    <3>0. end \in Seq(S)
      BY <1>1
    <3>1. /\ v \in Seq(S) /\ Len(v) = b + e /\ b \in Nat /\ e \in Nat
          /\ \A k \in 1..b + e : v[k] = IF k <= b THEN before[k] ELSE end[k - b]
      <4>1. b \in Nat /\ e \in Nat
        BY <3>0
      <4>2. /\ v \in Seq(S) /\ Len(v) = b + e
            /\ \A k \in 1..b + e : v[k] = IF k <= b THEN before[k] ELSE end[k - b]
        BY <3>0, ConcatProperties, Zenon
      <4> QED
        BY <4>1, <4>2
    <3> HIDE DEF v, b, e
    <3>2. \A k \in 1..e : b + k \in 1..b + e /\ ~(b + k <= b) /\ (b + k) - b = k
      BY <3>1
    <3>3. \A k \in 1..e : v[b + k] = end[k]
      BY <3>1, <3>2
    <3> QED
      BY <3>1, <3>3 DEF v, b, e
  <2>2. Len(before) \in Nat /\ Len(end) \in Nat /\ Len(rest) \in Nat
    BY <1>1, <1>2
  <2>3. ASSUME NEW k \in 1..Len(rest)
        PROVE  (before \o end)[Len(before \o end) - Len(rest) + k] = rest[k]
    <3>1. Len(end) - Len(rest) + k \in 1..Len(end)
      BY <1>3, <2>2
    <3>2. Len(before \o end) - Len(rest) + k = Len(before) + (Len(end) - Len(rest) + k)
      BY <2>1, <2>2
    <3>3. end[Len(end) - Len(rest) + k] = rest[k]
      BY <1>3
    <3>4. (before \o end)[Len(before) + (Len(end) - Len(rest) + k)] = end[Len(end) - Len(rest) + k]
      BY <2>1, <3>1
    <3> QED
      BY <3>2, <3>3, <3>4
  <2> QED
    BY <1>3, <2>1, <2>2, <2>3
<1> QED
  BY <1>1, <1>3, <1>4, EndIsSuffix DEF n, rest, end

LEMMA ConversationIsKept == ChatInv => ConversationReachesTheModel
<1> SUFFICES ASSUME ChatInv, Forwarded PROVE ConversationReachesTheModel
  BY DEF ConversationReachesTheModel
<1> DEFINE others == OthersOf(cleaned)
           body   == OthersOf(sent.messages)
           n      == Len(others)
<1>1. phase # "condensing"
  BY DEF Forwarded
<1>2. /\ SystemOf(sent.messages) = SystemOf(cleaned)
      /\ \/ body = Kept /\ (Condenses(split) => \E j \in Jobs : job[j] = "failed")
         \/ body = Notes \o Kept /\ Condenses(split) /\ \A j \in Jobs : job[j] = "done"
  BY <1>1, SentParts
<1>3. others \in Seq(PlainOthers) /\ Notes \in Seq(PlainOthers)
  BY Parts, NotesAreOthers
<1> HIDE DEF others, body
<1>4. ASSUME NEW i \in 1..n, n - i < MinTail, ~IsResult(others[i])
      PROVE  IsSuffix(SubSeq(others, i, n), body)
  <2>1. CASE ~Condenses(split)
    <3>1. body = others
      BY <1>2, <2>1 DEF Kept, others
    <3>2. SubSeq(others, 1, n) = others
      BY <1>3, SubSeqFull, ZenonT(60)
    <3>3. 1 \in 1..(n + 1) /\ i \in 1..n
      BY <1>3
    <3>4. IsSuffix(SubSeq(others, i, n), SubSeq(others, 1, n))
      BY <1>3, <3>3, RestIsSuffix
    <3> QED
      BY <3>1, <3>2, <3>4
  <2>2. CASE Condenses(split)
    <3>1. PICK from : SplitAt(others, split, Budget(cleaned, incoming.client.tools), from)
      BY <2>2, Parts DEF others
    <3>2. /\ from \in 1..(n + 1) /\ split.tail = SubSeq(others, from, n)
          /\ from <= i
      BY <1>4, <3>1 DEF SplitAt
    <3>3. i \in from..n
      BY <1>3, <3>2
    <3>4. body \in {SubSeq(others, from, n), Notes \o SubSeq(others, from, n)}
      BY <1>2, <2>2, <3>2 DEF Kept
    <3>5. /\ IsSuffix(SubSeq(others, i, n), SubSeq(others, from, n))
          /\ IsSuffix(SubSeq(others, i, n), Notes \o SubSeq(others, from, n))
      BY <1>3, <3>2, <3>3, RestIsSuffix
    <3> QED
      BY <3>4, <3>5
  <2> QED
    BY <2>1, <2>2
<1>5. \/ body = others
      \/ /\ body = Notes \o split.tail /\ split.history \o split.tail = others
         /\ \A j \in Jobs : job[j] = "done"
      \/ \E j \in Jobs : job[j] = "failed"
  <2>1. Condenses(split) => split.history \o split.tail = others
    BY Parts DEF others
  <2> QED
    BY <1>2, <2>1 DEF Kept, others
<1> QED
  BY <1>2, <1>4, <1>5 DEF ConversationReachesTheModel, others, body

LEMMA PromptIsWithin == ChatInv => PromptFits
<1> SUFFICES ASSUME ChatInv, Condenses(split)
             PROVE  \/ TokensOf(SystemOf(cleaned) \o split.tail) + incoming.client.tools + Reserve <= Limit
                    \/ Len(split.tail) <= MinTail
  BY DEF PromptFits
<1> DEFINE sys == SystemOf(cleaned)
           tail == split.tail
           tools == incoming.client.tools
           others == OthersOf(cleaned)
<1>1. PICK from : SplitAt(others, split, Budget(cleaned, tools), from)
  BY Parts
<1>2. TokensOf(tail) <= Budget(cleaned, tools) \/ Len(tail) <= MinTail
  BY <1>1 DEF SplitAt
<1>3. tools \in Nat /\ Limit \in Nat /\ Reserve \in Nat
  BY ParametersAreNat, LimitsAreNat DEF ChatInv
<1>4. cleaned \in Seq(Messages) /\ sys \in Seq(Messages) /\ tail \in Seq(Messages)
  <2>1. cleaned \in Seq(Plain) /\ sys \in Seq(PlainSystem) /\ tail \in Seq(PlainOthers)
    BY Parts DEF ChatInv
  <2> HIDE DEF sys, tail
  <2> QED
    BY <2>1, PlainFacts
<1>5. Budget(cleaned, tools) = Limit - TokensOf(sys) - tools - Reserve
  BY <1>3, <1>4, BudgetIsInt
<1> HIDE DEF sys, tail, tools
<1>6. /\ TokensOf(sys) \in Nat /\ TokensOf(tail) \in Nat
      /\ TokensOf(sys \o tail) = TokensOf(sys) + TokensOf(tail)
  BY <1>4, TokensOfConcat
<1>7. TokensOf(sys \o tail) + tools + Reserve <= Limit \/ Len(tail) <= MinTail
  BY <1>2, <1>3, <1>5, <1>6
<1> QED
  BY <1>7 DEF sys, tail, tools

LEMMA ResultsAreAnswers == ChatInv => ResultsFollowCalls
<1> SUFFICES ASSUME ChatInv PROVE FollowsCalls(Kept, Condenses(split))
  BY DEF ResultsFollowCalls, FollowsCalls, Made
<1> DEFINE others == OthersOf(cleaned)
<1>1. /\ others \in Seq(Plain) /\ Answered(others)
      /\ \A i \in 1..Len(others) : others[i].role \in Others
  BY OthersAreAnswered DEF ChatInv
<1>2. CASE ~Condenses(split)
  <2> HIDE DEF others
  <2>1. 1 \in 1..(Len(others) + 1) /\ (1 <= Len(others) => others[1].role # "tool")
    <3>1. ASSUME 1 <= Len(others), others[1].role = "tool" PROVE FALSE
      BY <1>1, <3>1 DEF Answered
    <3> QED
      BY <1>1, <3>1
  <2>2. FollowsCalls(others, FALSE)
    BY <1>1, <2>1, TailFollowsCalls
  <2>3. Condenses(split) = FALSE
    BY <1>2 DEF Condenses
  <2> QED
    BY <1>2, <2>2, <2>3 DEF Kept, others
<1>3. CASE Condenses(split)
  <2>1. PICK from : SplitAt(others, split, Budget(cleaned, incoming.client.tools), from)
    BY <1>3, Parts
  <2> HIDE DEF others
  <2>2. /\ from \in 1..(Len(others) + 1)
        /\ from <= Len(others) => ~IsResult(others[from])
        /\ split.tail = SubSeq(others, from, Len(others))
    BY <2>1 DEF SplitAt
  <2>3. from <= Len(others) => others[from].role # "tool"
    BY <2>2 DEF IsResult
  <2>4. FollowsCalls(SubSeq(others, from, Len(others)), TRUE)
    BY <1>1, <2>2, <2>3, TailFollowsCalls
  <2> QED
    BY <1>3, <2>2, <2>4 DEF Kept
<1> QED
  BY <1>2, <1>3

------------------------------------------------------------------------------
(* The gateway's theorems.                                                 *)

\* The invariant of a chat request holds in every reachable state.
THEOREM ChatInvariance == ChatSpec => []ChatInv
BY ChatInitHolds, ChatStepKeeps, PTL DEF ChatSpec

\* Every variable of a chat request has its type, and nothing of the format of
\* results in blocks is left after clean_messages.
THEOREM ChatTypeCorrect == ChatSpec => []ChatTypeOK
BY ChatInvariance, TypesFollow, PTL

\* The system messages and the last MIN_TAIL others, but for results at their start,
\* are sent however the two calls end; what is left out before them is all in the
\* summary, or one of the calls has failed.
THEOREM ConversationsAreComplete == ChatSpec => []ConversationReachesTheModel
BY ChatInvariance, ConversationIsKept, PTL

\* A condensed prompt leaves CONDENSATION_RESERVE of the context free, unless it is
\* down to MIN_TAIL messages.
THEOREM PromptsFit == ChatSpec => []PromptFits
BY ChatInvariance, PromptIsWithin, PTL

\* Through clean_messages, the cut of split_for_condensation and either end of the
\* two calls a tool result is sent behind the assistant message that made its call,
\* unless it stands before any: a call the message made in two formats may be lost
\* from it, but no result of an earlier message's call is sent as an answer to it.
THEOREM ResultsHaveCalls == ChatSpec => []ResultsFollowCalls
BY ChatInvariance, ResultsAreAnswers, PTL

\* A budget for thinking leaves tokens for the answer, whatever max_tokens the
\* request asks for.
THEOREM AnswersHaveRoom == ChatSpec => [](Forwarded => sent.maxTokens > sent.thinking)
<1>1. ChatInv => (Forwarded => sent.maxTokens > sent.thinking)
  BY DEF ChatInv, Forwarded
<1> QED
  BY <1>1, ChatInvariance, PTL

\* What a chat request is called is resolved as long as the request lives: a request
\* that goes on names what the gateway knows, and one refused does not.
THEOREM NamesInvariance == ChatSpec => []NamesInv
BY ChatInvariance, NamesInitHolds, NamesStepKeeps, PTL DEF ChatSpec

\* However a request writes a configured model, or a variant of one, it is routed
\* to it, with room for an answer beyond the thinking, and never refused, under any
\* prefix without a family's word; the thinking is the variant's unless the family
\* is taken off the name with the prefix.
THEOREM RequestsAreRoutedAsNamed == ChatSpec => []RoutedAsNamed
BY ChatInvariance, NamesInvariance, NamesAreFollowed, PTL

\* The gateway behaves as its key verification and as a chat request do.
THEOREM GatewayImplementsParts == MCSpec => ChatSpec /\ Spec
<1>1. MCInit => ChatInit /\ Init
  BY DEF MCInit
<1>2. [MCNext]_MCVars => [ChatNext]_chatVars /\ [Next]_vars
  BY DEF MCNext, MCVars
<1> QED
  BY <1>1, <1>2, PTL DEF MCSpec, ChatSpec, Spec

\* Every variable of the gateway has its type.
THEOREM GatewayTypeCorrect == MCSpec => []TypeOK
<1>1. KeysTypeOK /\ ChatTypeOK => TypeOK
  BY DEF TypeOK
<1> QED
  BY <1>1, GatewayImplementsParts, KeysTypeCorrect, ChatTypeCorrect, PTL

\* What verify_key promises and what is promised of conversations and of names
\* holds of the gateway as a whole.
THEOREM GatewayIsSound ==
  MCSpec => []/\ VerdictIsRecent /\ OutageFollowsLastAnswer
              /\ ConversationReachesTheModel /\ PromptFits /\ ResultsFollowCalls
              /\ RoutedAsNamed
BY GatewayImplementsParts, VerdictsAreRecent, OutageIsFaithful, ConversationsAreComplete,
   PromptsFit, ResultsHaveCalls, RequestsAreRoutedAsNamed, PTL
==============================================================================
