------------------------------ MODULE GatewayKeys ------------------------------
(***************************************************************************)
(* The gateway's API keys (api_keys.py and the lifespan and _verify_key of *)
(* app.py): requests verify their key against the table api_keys through a *)
(* positive and a negative cache of TTL ticks, while an operator outside   *)
(* revokes and reinstates keys.                                            *)
(*                                                                         *)
(* One event loop: verify_key runs without a break up to the query and     *)
(* after it.  The database reads the row at a moment of its own between    *)
(* the two, so answers may arrive in another order than they were read.    *)
(* Time is counted in ticks; a query may take any number of them.          *)
(*                                                                         *)
(* An operator whose name ends in _Wrong is a faulty variant of the one    *)
(* after it; no specification uses it.                                     *)
(***************************************************************************)
EXTENDS Naturals

CONSTANTS
  Keys,     \* keys requests come with
  Requests, \* request handlers in flight
  TTL,      \* CACHE_TTL_SECONDS
  None,     \* no cache entry
  MaxClock  \* bound: ticks

ASSUME TTLIsPositive == TTL \in Nat \ {0}
ASSUME MaxClockIsNat == MaxClock \in Nat
ASSUME NoneIsNoTime == None \notin Nat

VARIABLES
  clock,       \* time.monotonic(), from 1
  valid,       \* keys in the table and not revoked
  lastValid,   \* history: the last tick a key was valid at, 0 for never
  lastInvalid, \* history: the last tick a key was not valid at
  master,      \* GATEWAY_API_KEY: a key, or None when it is not set
  pool,        \* _pool is set
  cache,       \* _cache: when the query of a key's entry began
  negative,    \* _cache_negative
  answered,    \* history: the last answer to arrive for a key
  request

vars == <<clock, valid, lastValid, lastInvalid, master, pool, cache, negative,
          answered, request>>
world == <<clock, valid, lastValid, lastInvalid, master>>

Idle == [at |-> "idle"]

\* A request in its query; row is what the database read, once it has.
Querying(at, k, now, row) == [at |-> at, key |-> k, now |-> now, row |-> row]

\* A request that has been let in (ok) or not: why, when it began, what the
\* database had told of the key, and when the key was last valid and last invalid
\* as it was decided.
Decided(k, now, ok, why) ==
  [at |-> "decided", now |-> now, ok |-> ok, why |-> why, heard |-> answered[k],
   lastValid |-> lastValid[k], lastInvalid |-> lastInvalid[k]]

Init ==
  /\ clock = 1
  /\ valid \in [Keys -> BOOLEAN]
  /\ lastValid = [k \in Keys |-> IF valid[k] THEN 1 ELSE 0]
  /\ lastInvalid = [k \in Keys |-> IF valid[k] THEN 0 ELSE 1]
  /\ master \in Keys \cup {None}
  /\ pool = FALSE
  /\ cache = [k \in Keys |-> None]
  /\ negative = [k \in Keys |-> None]
  /\ answered = [k \in Keys |-> "nothing"]
  /\ request = [r \in Requests |-> Idle]

Tick ==
  /\ clock < MaxClock
  /\ clock' = clock + 1
  /\ lastValid' = [k \in Keys |-> IF valid[k] THEN clock + 1 ELSE lastValid[k]]
  /\ lastInvalid' = [k \in Keys |-> IF valid[k] THEN lastInvalid[k] ELSE clock + 1]
  /\ UNCHANGED <<valid, master, pool, cache, negative, answered, request>>

\* The operator revokes a key, or creates or reinstates one.
Change(k) ==
  /\ valid' = [valid EXCEPT ![k] = ~valid[k]]
  /\ lastValid' = [lastValid EXCEPT ![k] = clock]
  /\ lastInvalid' = [lastInvalid EXCEPT ![k] = clock]
  /\ UNCHANGED <<clock, master, pool, cache, negative, answered, request>>

\* The lifespan: init_pool and close_pool, without GATEWAY_API_KEY only.
InitPool ==
  /\ master = None
  /\ ~pool
  /\ pool' = TRUE
  /\ UNCHANGED <<world, cache, negative, answered, request>>

ClosePool ==
  /\ pool
  /\ pool' = FALSE
  /\ UNCHANGED <<world, cache, negative, answered, request>>

Fresh_Wrong(entry) == entry # None /\ clock - entry <= TTL  \* one tick too long

Fresh(entry) == entry # None /\ clock - entry < TTL

\* Every request is let in or not, or sends its query.
Ask(r, k) ==
  /\ request[r].at \in {"idle", "decided"}
  /\ request' = [request EXCEPT ![r] =
       IF k = master THEN Decided(k, clock, TRUE, "master")
       ELSE IF Fresh(cache[k]) THEN Decided(k, clock, TRUE, "hit")
       ELSE IF Fresh(negative[k]) THEN Decided(k, clock, FALSE, "hit")
       ELSE IF ~pool THEN Decided(k, clock, FALSE, "nopool")
       ELSE Querying("asked", k, clock, FALSE)]
  /\ UNCHANGED <<world, pool, cache, negative, answered>>

\* The database reads the row of the key.
Read(r) ==
  /\ request[r].at = "asked"
  /\ request' = [request EXCEPT ![r] =
       Querying("read", request[r].key, request[r].now, valid[request[r].key])]
  /\ UNCHANGED <<world, pool, cache, negative, answered>>

Stored_Wrong(r) ==   \* the entry is stamped when the answer arrives
  LET k == request[r].key
      stamp == clock
  IN IF request[r].row
       THEN /\ cache' = [cache EXCEPT ![k] = stamp]
            /\ negative' = [negative EXCEPT ![k] = None]
       ELSE /\ negative' = [negative EXCEPT ![k] = stamp]
            /\ cache' = [cache EXCEPT ![k] = None]

\* One cache gets the entry, stamped with the time before the query, and the
\* other loses its own.
Stored(r) ==
  LET k == request[r].key
      stamp == request[r].now
  IN IF request[r].row
       THEN /\ cache' = [cache EXCEPT ![k] = stamp]
            /\ negative' = [negative EXCEPT ![k] = None]
       ELSE /\ negative' = [negative EXCEPT ![k] = stamp]
            /\ cache' = [cache EXCEPT ![k] = None]

Answer(r) ==
  LET q == request[r] IN
  /\ q.at = "read"
  /\ Stored(r)
  /\ answered' = [answered EXCEPT ![q.key] = IF q.row THEN "yes" ELSE "no"]
  /\ request' = [request EXCEPT ![r] = Decided(q.key, q.now, q.row, "answer")]
  /\ UNCHANGED <<world, pool>>

QueryFails_Wrong(r) ==    \* the entry itself is returned, not whether there is one
  LET q == request[r] IN
  /\ q.at \in {"asked", "read"}
  /\ request' = [request EXCEPT ![r] = Decided(q.key, q.now, cache[q.key], "error")]
  /\ UNCHANGED <<world, pool, cache, negative, answered>>

QueryFailsOpen_Wrong(r) ==   \* the fall-back is to let everybody in
  LET q == request[r] IN
  /\ q.at \in {"asked", "read"}
  /\ request' = [request EXCEPT ![r] = Decided(q.key, q.now, TRUE, "error")]
  /\ UNCHANGED <<world, pool, cache, negative, answered>>

\* The query raises: a key with an entry, however old, is let in.
QueryFails(r) ==
  LET q == request[r] IN
  /\ q.at \in {"asked", "read"}
  /\ request' = [request EXCEPT ![r] = Decided(q.key, q.now, cache[q.key] # None, "error")]
  /\ UNCHANGED <<world, pool, cache, negative, answered>>

Next ==
  \/ Tick \/ InitPool \/ ClosePool
  \/ \E k \in Keys : Change(k)
  \/ \E r \in Requests :
       \/ \E k \in Keys : Ask(r, k)
       \/ Read(r) \/ Answer(r) \/ QueryFails(r)

Spec == Init /\ [][Next]_vars

------------------------------------------------------------------------------
Times == Nat \cup {None}

KeysTypeOK ==
  /\ clock \in Nat \ {0}
  /\ valid \in [Keys -> BOOLEAN]
  /\ lastValid \in [Keys -> Nat] /\ lastInvalid \in [Keys -> Nat]
  /\ master \in Keys \cup {None}
  /\ pool \in BOOLEAN
  /\ cache \in [Keys -> Times] /\ negative \in [Keys -> Times]
  /\ answered \in [Keys -> {"nothing", "yes", "no"}]
  /\ request \in [Requests ->
       {Idle}
       \cup [at : {"asked", "read"}, key : Keys, now : Nat, row : BOOLEAN]
       \cup [at : {"decided"}, now : Nat, ok : BOOLEAN,
             why : {"master", "hit", "nopool", "answer", "error"},
             heard : {"nothing", "yes", "no"}, lastValid : Nat, lastInvalid : Nat]]

Verdict(r, ok, why) ==
  request[r].at = "decided" /\ request[r].ok = ok /\ request[r].why = why

\* A key that is let in was valid less than TTL before the request (from the
\* cache) or while it was verified (from the table), whatever order the answers
\* of other requests for it arrived in.
AcceptedWasValid ==
  \A r \in Requests :
    /\ Verdict(r, TRUE, "hit") => request[r].lastValid + TTL > request[r].now
    /\ Verdict(r, TRUE, "answer") => request[r].lastValid >= request[r].now

\* A key that is turned away was invalid that recently: a key that is created or
\* reinstated works for every request TTL later.
RejectedWasInvalid ==
  \A r \in Requests :
    /\ Verdict(r, FALSE, "hit") => request[r].lastInvalid + TTL > request[r].now
    /\ Verdict(r, FALSE, "answer") => request[r].lastInvalid >= request[r].now

\* Both verdicts are at most one cache's lifetime old, or fresh from the table.
VerdictIsRecent == AcceptedWasValid /\ RejectedWasInvalid

\* A request that gets no answer of its own, because its query raised or a cache
\* decided, follows the last answer that has arrived for its key: in an outage it
\* is let in if that was a yes, however old, and turned away if it was a no or if
\* there was none.  Arrival is all that counts: a yes that was read before a
\* revocation and arrives after the no lets the key in until the next answer.
OutageFollowsLastAnswer ==
  \A r \in Requests :
    request[r].at = "decided" /\ request[r].why \in {"error", "hit"} =>
      (request[r].ok <=> request[r].heard = "yes")
==============================================================================
