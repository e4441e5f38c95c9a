------------------------------ MODULE RedisClient ------------------------------
(***************************************************************************)
(* The Redis client that the coroutines of one pod share                   *)
(* (delegation/redis_backend.py): accept handlers ask for it, the worker   *)
(* replaces it when authentication fails, stop() closes it.  What happens  *)
(* between two awaits is a step.  The lock is held over one await only,    *)
(* where a client that came second is closed.                              *)
(*                                                                         *)
(* redis-py is external: a client whose initialize() raises or is          *)
(* cancelled has closed itself, an aclose() that does either may have left *)
(* connections open, and a command on a closed client raises or connects   *)
(* again.                                                                  *)
(*                                                                         *)
(* An operator whose name ends in _Wrong is a faulty variant of the one    *)
(* after it; no specification uses it.                                     *)
(***************************************************************************)
EXTENDS Naturals

CONSTANTS
  Acceptors,  \* accept handlers at work
  MaxClients  \* bound: clients ever created

Worker == "worker"   \* the backend's start(), worker and stop(), one after another

ASSUME WorkerIsNoAcceptor == Worker \notin Acceptors
ASSUME ClientsAreNat == MaxClients \in Nat

Users == Acceptors \cup {Worker}
Clients == 1..MaxClients
NoClient == 0

VARIABLES
  shared,   \* _pool
  created,  \* the number of clients ever created
  open,     \* clients with connections
  user,     \* of each user: where it is, the client it was given, and the one it is
            \* creating or closing
  running,  \* is_running
  stray     \* history: clients that a failed close left open, or that were used once closed

clientVars == <<shared, created, open, user, running, stray>>

Resting == [at |-> "idle", has |-> NoClient, hand |-> NoClient]

ClientInit ==
  /\ shared = NoClient /\ created = 0 /\ open = {}
  /\ user = [u \in Users |-> Resting]
  /\ running = FALSE
  /\ stray = {}

LockIsFree == \A u \in Users : user[u].at # "discarding"

Puts(u, state) == user' = [user EXCEPT ![u] = state]
Turns(u, to) == Puts(u, [user[u] EXCEPT !.at = to])

\* Where a user goes once it has a client: a start() that is not over yet has to
\* see to the stream, a worker reads on.
Onward(u) == IF u # Worker THEN "using" ELSE IF running THEN "reading" ELSE "starting"

\* An exception ends the request, start(), stop() or the worker.
Raises(u) ==
  /\ Puts(u, IF u = Worker THEN [user[u] EXCEPT !.at = "idle", !.hand = NoClient] ELSE Resting)
  /\ running' = (running /\ u # Worker)

\* A close that is broken off.
BreaksOff(c) ==
  \/ open' = open \ {c} /\ UNCHANGED stray
  \/ stray' = stray \cup {c} /\ UNCHANGED open

Creates(u) ==
  /\ created < MaxClients
  /\ created' = created + 1
  /\ open' = open \cup {created + 1}
  /\ Puts(u, [user[u] EXCEPT !.at = "creating", !.hand = created + 1])

------------------------------------------------------------------------------
(* get_delegation_redis.                                                   *)

\* The shared client, or a new one.
Get(u) ==
  /\ LockIsFree
  /\ IF shared # NoClient
       THEN Puts(u, [user[u] EXCEPT !.at = Onward(u), !.has = shared]) /\ UNCHANGED <<created, open>>
       ELSE Creates(u)
  /\ UNCHANGED <<shared, running, stray>>

\* force_new: whatever is shared by now is taken out and closed first.
Renew(u) ==
  /\ user[u].at = "renewing"
  /\ LockIsFree
  /\ shared' = NoClient
  /\ IF shared # NoClient
       THEN Puts(u, [user[u] EXCEPT !.at = "retiring", !.hand = shared]) /\ UNCHANGED <<created, open>>
       ELSE Creates(u)
  /\ UNCHANGED <<running, stray>>

Retired(u) ==
  /\ user[u].at = "retiring"
  /\ created < MaxClients
  /\ created' = created + 1
  /\ open' = (open \ {user[u].hand}) \cup {created + 1}
  /\ Puts(u, [user[u] EXCEPT !.at = "creating", !.hand = created + 1])
  /\ UNCHANGED <<shared, running, stray>>

Place_Wrong(u) ==   \* without the second test
  /\ user[u].at = "creating"
  /\ LockIsFree
  /\ shared' = user[u].hand
  /\ Puts(u, [at |-> Onward(u), has |-> user[u].hand, hand |-> NoClient])
  /\ UNCHANGED <<created, open, running, stray>>

\* The new client is ready: it is shared, or another came first.
Place(u) ==
  /\ user[u].at = "creating"
  /\ LockIsFree
  /\ IF shared = NoClient
       THEN /\ shared' = user[u].hand
            /\ Puts(u, [at |-> Onward(u), has |-> user[u].hand, hand |-> NoClient])
       ELSE Turns(u, "discarding") /\ UNCHANGED shared
  /\ UNCHANGED <<created, open, running, stray>>

Discarded(u) ==
  /\ user[u].at = "discarding"
  /\ open' = open \ {user[u].hand}
  /\ Puts(u, [at |-> Onward(u), has |-> shared, hand |-> NoClient])
  /\ UNCHANGED <<shared, created, running, stray>>

CreateFails(u) ==
  /\ user[u].at = "creating"
  /\ open' = open \ {user[u].hand}
  /\ Raises(u)
  /\ UNCHANGED <<shared, created, stray>>

CloseFails(u) ==
  /\ user[u].at \in {"closing", "retiring", "discarding"}
  /\ BreaksOff(user[u].hand)
  /\ Raises(u)
  /\ UNCHANGED <<shared, created>>

------------------------------------------------------------------------------
(* enqueue: a POST is answered 503 unless the worker runs.  A handler that  *)
(* has to wait for the lock may get it when the worker runs no more.       *)

Accept(a) ==
  /\ user[a].at = "idle"
  /\ running
  /\ \/ Get(a)
     \/ /\ ~LockIsFree
        /\ Turns(a, "asking")
        /\ UNCHANGED <<shared, created, open, running, stray>>

LockComes(a) ==
  /\ user[a].at = "asking"
  /\ Get(a)

\* The last command is answered, or one raises.
AcceptEnds(a) ==
  /\ user[a].at = "using"
  /\ Puts(a, Resting)
  /\ UNCHANGED <<shared, created, open, running, stray>>

\* A command on a client that was closed meanwhile, and connects again.
Reconnects(u) ==
  /\ user[u].at \in {"using", "starting", "reading"}
  /\ user[u].has \notin open
  /\ open' = open \cup {user[u].has}
  /\ stray' = stray \cup {user[u].has}
  /\ UNCHANGED <<shared, created, user, running>>

------------------------------------------------------------------------------
(* start, _worker_loop and stop.                                           *)

StartWorker ==
  /\ user[Worker].at = "idle"
  /\ ~running
  /\ Get(Worker)

\* ensure_delegation_stream answers or raises.
WorkerStarts ==
  /\ user[Worker].at = "starting"
  /\ \/ Turns(Worker, "reading") /\ running' = TRUE
     \/ Raises(Worker)
  /\ UNCHANGED <<shared, created, open, stray>>

\* XREADGROUP is refused: the worker will close the shared client and ask for a
\* new one.
AuthenticationFails ==
  /\ user[Worker].at = "reading"
  /\ Turns(Worker, "dropping")
  /\ UNCHANGED <<shared, created, open, running, stray>>

\* A status write or an acknowledgement raises out of the loop.
WorkerDies ==
  /\ user[Worker].at = "reading"
  /\ Raises(Worker)
  /\ UNCHANGED <<shared, created, open, stray>>

\* stop() cancels the worker wherever it is, and closes the shared client.
StopWorker ==
  /\ running
  /\ running' = FALSE
  /\ Puts(Worker, [user[Worker] EXCEPT !.at = "dropping", !.hand = NoClient])
  /\ CASE user[Worker].at \in {"closing", "retiring", "discarding"} -> BreaksOff(user[Worker].hand)
       [] user[Worker].at = "creating" /\ LockIsFree ->
            open' = open \ {user[Worker].hand} /\ UNCHANGED stray
       [] user[Worker].at = "creating" /\ ~LockIsFree -> \* perhaps it only waited for the lock
            BreaksOff(user[Worker].hand)
       [] OTHER -> UNCHANGED <<open, stray>>
  /\ UNCHANGED <<shared, created>>

\* A worker asks for a client after the close; stop() is over.
Dropped == IF running THEN [user[Worker] EXCEPT !.at = "renewing", !.hand = NoClient] ELSE Resting

Drop_Wrong ==   \* closes what it leaves shared until then
  /\ user[Worker].at = "dropping"
  /\ LockIsFree
  /\ IF shared # NoClient
       THEN Puts(Worker, [user[Worker] EXCEPT !.at = "closing", !.hand = shared])
       ELSE Puts(Worker, Dropped)
  /\ UNCHANGED <<shared, created, open, running, stray>>

\* close_delegation_redis.
Drop ==
  /\ user[Worker].at = "dropping"
  /\ LockIsFree
  /\ shared' = NoClient
  /\ IF shared # NoClient
       THEN Puts(Worker, [user[Worker] EXCEPT !.at = "closing", !.hand = shared])
       ELSE Puts(Worker, Dropped)
  /\ UNCHANGED <<created, open, running, stray>>

Closed ==
  /\ user[Worker].at = "closing"
  /\ open' = open \ {user[Worker].hand}
  /\ Puts(Worker, Dropped)
  /\ UNCHANGED <<shared, created, running, stray>>

ClientNext ==
  \/ \E a \in Acceptors : Accept(a) \/ LockComes(a) \/ AcceptEnds(a)
  \/ \E u \in Users : Place(u) \/ Discarded(u) \/ CreateFails(u) \/ CloseFails(u) \/ Reconnects(u)
  \/ Renew(Worker) \/ Retired(Worker)
  \/ StartWorker \/ WorkerStarts \/ AuthenticationFails \/ WorkerDies
  \/ StopWorker \/ Drop \/ Closed

ClientSpec == ClientInit /\ [][ClientNext]_clientVars

------------------------------------------------------------------------------
UserStates ==
  [at : {"idle", "asking", "using", "starting", "reading", "dropping", "closing", "renewing",
         "retiring", "creating", "discarding"},
   has : Clients \cup {NoClient}, hand : Clients \cup {NoClient}]

ClientTypeOK ==
  /\ shared \in Clients \cup {NoClient}
  /\ created \in 0..MaxClients
  /\ open \subseteq Clients /\ stray \subseteq Clients
  /\ user \in [Users -> UserStates]
  /\ running \in BOOLEAN

\* Whoever asks gets a client that is open: the one that is shared is not yet closed
\* and nobody is closing it, whatever handlers, the reconnect and stop() do at once.
\* And the worker reads through the client that is shared: however often it reconnects
\* among handlers that create clients too, none but itself closes it.
SharedIsOpen ==
  /\ shared # NoClient => shared \in open /\ \A u \in Users : user[u].hand # shared
  /\ user[Worker].at = "reading" => user[Worker].has = shared /\ shared # NoClient

\* Connections are the shared client's, or of one that somebody is creating or about
\* to close: of two clients created at once one is closed.  Only a close that is
\* broken off, and a handler that goes on with a client closed under it by the
\* reconnect, leave others.
ConnectionsAreKnown ==
  \A c \in open : c = shared \/ c \in stray \/ \E u \in Users : user[u].hand = c
==============================================================================
