-------------------------------- MODULE DbClient --------------------------------
(***************************************************************************)
(* The database client a process shares: GiuliaDbClient (kind "cloudsql",  *)
(* with the CloudSqlConnector facade that forwards to it) or               *)
(* PostgresConnector (kind "postgres").  The tasks of one event loop call  *)
(* open() and then a statement or transaction(), as the data modules do,   *)
(* and any of them may call close(), as the lifespan does.                 *)
(*                                                                         *)
(* A step runs to the next await that can suspend.  open() with a pool in  *)
(* place has none, so the caller goes straight on to acquire().  asyncpg   *)
(* and the Cloud SQL Connector are external: a pool lends MaxSize          *)
(* connections, refuses once it is closing, and is closed when all are     *)
(* back; a pool is made through a connector that is not closed.  fetch,    *)
(* fetchrow, fetchval, execute and executemany are one "statement".        *)
(*                                                                         *)
(* An operator whose name ends in _Wrong is a faulty variant of the one    *)
(* after it; no specification uses it.                                     *)
(***************************************************************************)
EXTENDS Naturals, Sequences, FiniteSets

CONSTANTS
  Tasks,
  Kinds,    \* the providers the process may be configured with
  Sizes,    \* the values max_pool may be configured with
  MaxOpens, \* bound: calls of create_pool
  MaxTxs    \* bound: transactions

ASSUME TasksAreFinite == IsFiniteSet(Tasks)
ASSUME KnownKinds == Kinds \subseteq {"cloudsql", "postgres"}
ASSUME SizesArePositive == Sizes \subseteq Nat \ {0}
ASSUME BoundsAreNat == MaxOpens \in Nat /\ MaxTxs \in Nat

VARIABLES
  kind, size, \* the provider and the max_pool configured
  attr,       \* self._pool
  connector,  \* self._connector: 0, or a position in connectors
  pools,      \* every pool made: state and number of connections lent
  connectors, \* every connector made: "live" or "closed"
  conns,      \* the connection of every transaction: is it still lent to it?
  task,
  incidents   \* history: the races and failures the client has been through

config == <<kind, size>>
vars == <<config, attr, connector, pools, connectors, conns, task, incidents>>

None == [is |-> "none", n |-> 0]
Pool(n) == [is |-> "pool", n |-> n]
Single(n) == [is |-> "single", n |-> n]   \* _SingleConnectionPool(conns[n])
Connector(n) == [is |-> "connector", n |-> n]

\* at: the await the task is in; does: its call; ref: what the call took from
\* self; inner: the same for the statement in its transaction's block; conn:
\* the connection of its transaction; saved: what the transaction puts back;
\* ran: the connection the statement in the block ran on.
Idle == [at |-> "idle", does |-> "none", ref |-> None, inner |-> None, conn |-> 0,
         saved |-> None, ran |-> "none"]

Init ==
  /\ kind \in Kinds
  /\ size \in Sizes
  /\ attr = None
  /\ connector = 0
  /\ pools = <<>>
  /\ connectors = <<>>
  /\ conns = <<>>
  /\ task = [t \in Tasks |-> Idle]
  /\ incidents = {}

At(where) == {t \in Tasks : task[t].at = where}
Closers == At("draining") \cup At("disconnecting")
Cloud == kind = "cloudsql"

\* An operation is in flight on the connection of a transaction.
InUse(c) ==
  \E u \in Tasks :
    \/ (task[u].at \in {"begin", "end"} /\ task[u].conn = c)
    \/ (task[u].at = "query" /\ task[u].ref = Single(c))
    \/ (task[u].at = "bodyQuery" /\ task[u].inner = Single(c))

Usable(c) == conns[c] = "lent" /\ ~InUse(c)

HasRoom(p) == pools[p].state = "live" /\ pools[p].lent < size
Lend(p) == pools' = [pools EXCEPT ![p].lent = @ + 1]

\* A connection goes back to the pool it was taken from; a borrowed one stays.
GiveBack(ref) ==
  pools' = IF ref.is = "pool" THEN [pools EXCEPT ![ref.n].lent = @ - 1] ELSE pools

------------------------------------------------------------------------------
(* A call: open(), then acquire() on the pool of that moment.              *)

\* The task once it has asked ref for a connection.  A pool is waited for; the
\* one connection of a transaction is there at once, or raises when it has been
\* given back or is busy.
Asked(does, ref) ==
  IF ref.is = "pool" THEN [Idle EXCEPT !.at = "acquire", !.does = does, !.ref = ref]
  ELSE IF ~Usable(ref.n) THEN Idle
  ELSE IF does = "statement"
    THEN [Idle EXCEPT !.at = "query", !.does = does, !.ref = ref]
    ELSE [Idle EXCEPT !.at = "begin", !.does = does, !.ref = ref, !.conn = ref.n]

\* The bounds on calls: pools made or asked for, transactions begun or to come.
MayCall(does) ==
  /\ attr = None =>
       /\ Len(connectors) < MaxOpens
       /\ Len(pools) + Cardinality(At("create")) < MaxOpens
  /\ does = "transaction" =>
       Len(conns) + Cardinality({u \in Tasks : task[u].does = does}) < MaxTxs

Race(what, condition) == IF condition THEN {what} ELSE {}

\* open() without a pool: a connector at once, the pool when it answers.
CallOpens(t, does) ==
  /\ task[t] = Idle /\ MayCall(does)
  /\ attr = None
  /\ connectors' = IF Cloud THEN Append(connectors, "live") ELSE connectors
  /\ connector' = IF Cloud THEN Len(connectors) + 1 ELSE connector
  /\ task' = [task EXCEPT ![t] = [Idle EXCEPT !.at = "create", !.does = does]]
  /\ incidents' = incidents \cup Race("open race", At("create") # {})
                            \cup Race("close race", Closers # {})
  /\ UNCHANGED <<config, attr, pools, conns>>

Call(t, does) ==
  /\ task[t] = Idle /\ MayCall(does)
  /\ attr # None
  /\ task' = [task EXCEPT ![t] = Asked(does, attr)]
  /\ incidents' = incidents \cup Race("close race", Closers # {})
  /\ UNCHANGED <<config, attr, connector, pools, connectors, conns>>

\* create_pool answers.  It connected through the connector of that moment.
Created(t) ==
  /\ task[t].at = "create"
  /\ Cloud => connector # 0 /\ connectors[connector] = "live"
  /\ pools' = Append(pools, [state |-> "live", lent |-> 0])
  /\ attr' = Pool(Len(pools'))
  /\ task' = [task EXCEPT ![t] = Asked(@.does, attr')]
  /\ UNCHANGED <<config, connector, connectors, conns, incidents>>

\* create_pool raises; the connector stays behind.
CreateFails(t) ==
  /\ task[t].at = "create"
  /\ task' = [task EXCEPT ![t] = Idle]
  /\ incidents' = incidents \cup {"failed open"}
  /\ UNCHANGED <<config, attr, connector, pools, connectors, conns>>

Acquired(t) ==
  /\ task[t].at = "acquire"
  /\ HasRoom(task[t].ref.n)
  /\ Lend(task[t].ref.n)
  /\ IF task[t].does = "statement"
       THEN task' = [task EXCEPT ![t].at = "query"] /\ UNCHANGED conns
       ELSE /\ conns' = Append(conns, "lent")
            /\ task' = [task EXCEPT ![t].at = "begin", ![t].conn = Len(conns')]
  /\ UNCHANGED <<config, attr, connector, connectors, incidents>>

\* A pool that is closing refuses.
Refused(t) ==
  /\ task[t].at = "acquire"
  /\ pools[task[t].ref.n].state # "live"
  /\ task' = [task EXCEPT ![t] = Idle]
  /\ UNCHANGED <<config, attr, connector, pools, connectors, conns, incidents>>

\* The statement, the COMMIT or the ROLLBACK answers or raises, or the BEGIN
\* raises: the connection goes back and the call returns.
Return_Wrong(t) ==   \* a connection whose BEGIN raised is not given back
  /\ task[t].at \in {"query", "begin", "end"}
  /\ IF task[t].at = "begin" THEN UNCHANGED pools ELSE GiveBack(task[t].ref)
  /\ conns' = IF task[t].conn # 0 /\ task[t].ref.is = "pool"
                THEN [conns EXCEPT ![task[t].conn] = "back"] ELSE conns
  /\ task' = [task EXCEPT ![t] = Idle]
  /\ UNCHANGED <<config, attr, connector, connectors, incidents>>

Return(t) ==
  /\ task[t].at \in {"query", "begin", "end"}
  /\ GiveBack(task[t].ref)
  /\ conns' = IF task[t].conn # 0 /\ task[t].ref.is = "pool"
                THEN [conns EXCEPT ![task[t].conn] = "back"] ELSE conns
  /\ task' = [task EXCEPT ![t] = Idle]
  /\ UNCHANGED <<config, attr, connector, connectors, incidents>>

------------------------------------------------------------------------------
(* The block of a transaction.                                             *)

Bind_Wrong(t) ==   \* PostgresConnector binds itself as well
  /\ task[t].at = "begin"
  /\ task' = [task EXCEPT ![t].at = "body", ![t].saved = attr]
  /\ attr' = Single(task[t].conn)
  /\ incidents' = incidents \cup Race("overlap", attr.is = "single")
  /\ UNCHANGED <<config, connector, pools, connectors, conns>>

BindNothing_Wrong(t) ==   \* the client is not bound
  /\ task[t].at = "begin"
  /\ task' = [task EXCEPT ![t].at = "body", ![t].saved = attr]
  /\ incidents' = incidents \cup Race("overlap", attr.is = "single")
  /\ UNCHANGED <<config, attr, connector, pools, connectors, conns>>

\* BEGIN answers: GiuliaDbClient binds itself to the transaction's connection.
Bind(t) ==
  /\ task[t].at = "begin"
  /\ task' = [task EXCEPT ![t].at = "body", ![t].saved = attr]
  /\ attr' = IF Cloud THEN Single(task[t].conn) ELSE attr
  /\ incidents' = incidents \cup Race("overlap", attr.is = "single")
  /\ UNCHANGED <<config, connector, pools, connectors, conns>>

BodyStatement_Wrong(t) ==   \* through the pool the transaction came from
  /\ task[t].at = "body" /\ task[t].ran = "none"
  /\ \E ref \in {Single(task[t].conn), task[t].saved} :
       /\ ref.is \in {"pool", "single"}
       /\ ref.is = "single" => Usable(ref.n)
       /\ task' = [task EXCEPT ![t].inner = ref,
                     ![t].at = IF ref.is = "pool" THEN "bodyAcquire" ELSE "bodyQuery"]
  /\ UNCHANGED <<config, attr, connector, pools, connectors, conns, incidents>>

\* A statement in the block: on the connection the block was given, or through
\* the client.  The client of PostgresConnector is not bound: it asks its pool
\* for another connection.
BodyStatement(t) ==
  /\ task[t].at = "body" /\ task[t].ran = "none"
  /\ \E ref \in {Single(task[t].conn), attr} :
       /\ ref.is \in {"pool", "single"}
       /\ ref.is = "single" => Usable(ref.n)
       /\ task' = [task EXCEPT ![t].inner = ref,
                     ![t].at = IF ref.is = "pool" THEN "bodyAcquire" ELSE "bodyQuery"]
  /\ UNCHANGED <<config, attr, connector, pools, connectors, conns, incidents>>

BodyAcquired(t) ==
  /\ task[t].at = "bodyAcquire"
  /\ HasRoom(task[t].inner.n)
  /\ Lend(task[t].inner.n)
  /\ task' = [task EXCEPT ![t].at = "bodyQuery"]
  /\ UNCHANGED <<config, attr, connector, connectors, conns, incidents>>

BodyRefused(t) ==
  /\ task[t].at = "bodyAcquire"
  /\ pools[task[t].inner.n].state # "live"
  /\ task' = [task EXCEPT ![t].at = "body", ![t].inner = None, ![t].ran = "refused"]
  /\ UNCHANGED <<config, attr, connector, pools, connectors, conns, incidents>>

BodyAnswer(t) ==
  /\ task[t].at = "bodyQuery"
  /\ GiveBack(task[t].inner)
  /\ task' = [task EXCEPT ![t].at = "body", ![t].inner = None,
                ![t].ran = IF task[t].inner = Single(task[t].conn) THEN "own" ELSE "other"]
  /\ UNCHANGED <<config, attr, connector, connectors, conns, incidents>>

Leave_Wrong(t) ==    \* a block that raised before any statement is not unbound
  /\ task[t].at = "body"
  /\ attr' = IF Cloud /\ task[t].ran # "none" THEN task[t].saved ELSE attr
  /\ task' = [task EXCEPT ![t].at = "end"]
  /\ UNCHANGED <<config, connector, pools, connectors, conns, incidents>>

\* The block ends or raises: the finally clause, then COMMIT or ROLLBACK.
Leave(t) ==
  /\ task[t].at = "body"
  /\ attr' = IF Cloud THEN task[t].saved ELSE attr
  /\ task' = [task EXCEPT ![t].at = "end"]
  /\ UNCHANGED <<config, connector, pools, connectors, conns, incidents>>

------------------------------------------------------------------------------
(* close()                                                                 *)

Disconnecting == [Idle EXCEPT !.at = "disconnecting", !.ref = Connector(connector)]

\* The pool is closed first; a bound client has only the transaction's stand-in,
\* whose close() does nothing.  Without a pool there may be a connector left.
Close(t) ==
  /\ task[t] = Idle
  /\ attr # None \/ connector # 0
  /\ IF attr.is = "pool"
       THEN /\ task' = [task EXCEPT ![t] = [Idle EXCEPT !.at = "draining", !.ref = attr]]
            /\ pools' = IF pools[attr.n].state = "live"
                          THEN [pools EXCEPT ![attr.n].state = "closing"] ELSE pools
            /\ UNCHANGED attr
       ELSE /\ attr' = None
            /\ task' = [task EXCEPT ![t] = IF connector # 0 THEN Disconnecting ELSE Idle]
            /\ UNCHANGED pools
  /\ incidents' = incidents \cup Race("close race", \E u \in Tasks : task[u] # Idle)
  /\ UNCHANGED <<config, connector, connectors, conns>>

Drained_Wrong(t) ==   \* close() ends with the pool
  LET p == task[t].ref.n IN
  /\ task[t].at = "draining"
  /\ pools[p].lent = 0
  /\ pools' = [pools EXCEPT ![p].state = "closed"]
  /\ attr' = None
  /\ task' = [task EXCEPT ![t] = Idle]
  /\ UNCHANGED <<config, connector, connectors, conns, incidents>>

Drained(t) ==
  LET p == task[t].ref.n IN
  /\ task[t].at = "draining"
  /\ pools[p].lent = 0
  /\ pools' = [pools EXCEPT ![p].state = "closed"]
  /\ attr' = None
  /\ task' = [task EXCEPT ![t] = IF connector # 0 THEN Disconnecting ELSE Idle]
  /\ UNCHANGED <<config, connector, connectors, conns, incidents>>

Disconnected(t) ==
  /\ task[t].at = "disconnecting"
  /\ connectors' = [connectors EXCEPT ![task[t].ref.n] = "closed"]
  /\ connector' = 0
  /\ task' = [task EXCEPT ![t] = Idle]
  /\ UNCHANGED <<config, attr, pools, conns, incidents>>

------------------------------------------------------------------------------
Step(t) ==
  \/ Created(t) \/ CreateFails(t) \/ Acquired(t) \/ Refused(t) \/ Return(t)
  \/ Bind(t) \/ BodyAcquired(t) \/ BodyRefused(t) \/ BodyAnswer(t) \/ Leave(t)
  \/ Drained(t) \/ Disconnected(t)

Next ==
  \E t \in Tasks :
    \/ \E does \in {"statement", "transaction"} : CallOpens(t, does) \/ Call(t, does)
    \/ BodyStatement(t)
    \/ Close(t)
    \/ Step(t)

Spec == Init /\ [][Next]_vars

\* The database and Google answer or time out, a block ends, asyncpg serves its
\* waiters in turn.  No call and no close has to come.
FairSpec ==
  /\ Spec
  /\ \A t \in Tasks : WF_vars(Step(t)) /\ SF_vars(Acquired(t)) /\ SF_vars(BodyAcquired(t))

------------------------------------------------------------------------------
Refs == [is : {"none", "pool", "single", "connector"}, n : Nat]

TaskStates ==
  [at : {"idle", "create", "acquire", "query", "begin", "body", "bodyAcquire",
         "bodyQuery", "end", "draining", "disconnecting"},
   does : {"none", "statement", "transaction"}, ref : Refs, inner : Refs,
   saved : Refs, conn : Nat, ran : {"none", "own", "other", "refused"}]

TypeOK ==
  /\ kind \in Kinds /\ size \in Sizes
  /\ attr \in {None} \cup {Pool(p) : p \in DOMAIN pools}
               \cup {Single(c) : c \in IF Cloud THEN DOMAIN conns ELSE {}}
  /\ connector \in {0} \cup DOMAIN connectors
  /\ pools \in Seq([state : {"live", "closing", "closed"}, lent : 0..size])
  /\ connectors \in Seq({"live", "closed"})
  /\ conns \in Seq({"lent", "back"})
  /\ task \in [Tasks -> TaskStates]
  /\ \A t \in Tasks : task[t].conn \in {0} \cup DOMAIN conns
  /\ incidents \subseteq {"open race", "failed open", "close race", "overlap"}

\* A pool lends exactly what its borrowers hold: a raising BEGIN, statement or
\* block never costs the pool a connection for good.
Borrowers(p) ==
  {t \in Tasks : task[t].ref = Pool(p) /\ task[t].at \notin {"acquire", "draining"}}
InnerBorrowers(p) ==
  {t \in Tasks : task[t].inner = Pool(p) /\ task[t].at = "bodyQuery"}

LentIsHeld ==
  \A p \in DOMAIN pools :
    pools[p].lent = Cardinality(Borrowers(p)) + Cardinality(InnerBorrowers(p))

Reachable(p) == attr = Pool(p) \/ \E t \in Tasks : Pool(p) \in {task[t].ref, task[t].saved}

\* open() is called "idempotent".  What holds of it: a pool that still lives is
\* the client's or some caller's, unless two first callers raced or a close ran
\* into other calls; a connector likewise, or an open() failed.
NothingLeaks ==
  /\ \A p \in DOMAIN pools :
       pools[p].state = "live" => Reachable(p) \/ incidents \ {"failed open"} # {}
  /\ \A c \in DOMAIN connectors :
       connectors[c] = "live" => c = connector \/ incidents \ {"overlap"} # {}

\* A client no transaction is using is not left bound to the connection of one,
\* which would make every later call raise, unless transactions overlapped.
BindingIsUndone ==
  attr.is = "single" =>
    \/ \E t \in Tasks : task[t].conn = attr.n /\ task[t].at \in {"body", "bodyAcquire", "bodyQuery"}
    \/ "overlap" \in incidents

\* GiuliaDbClient binds its calls to the block's connection "so that calls to
\* fetch/execute within the block use the same tx".  They do, through the client
\* or on the connection given, whatever other calls go on around the block,
\* unless transactions overlapped, two first callers raced or a close ran into
\* other calls.  PostgresConnector binds nothing, so it has no such promise.
OwnStatementsInOwnTx ==
  \A t \in Tasks :
    Cloud /\ task[t].ran = "other" => incidents \ {"failed open"} # {}

\* PostgresConnector's blocks ask the pool for a second connection: all that it
\* lends is then held by blocks that wait for one more of it.
Starved(p) ==
  /\ pools[p].lent = size /\ InnerBorrowers(p) = {}
  /\ \A t \in Borrowers(p) : task[t].at = "bodyAcquire" /\ task[t].inner = Pool(p)

\* Every call returns: a block of GiuliaDbClient does not wait for the one
\* connection it holds itself, a close is not kept waiting, and no two callers
\* wait for each other, unless transactions overlapped.  With PostgresConnector
\* the one thing that keeps a call is a starved pool.
CallReturns ==
  \A t \in Tasks :
    task[t] # Idle ~>
      \/ task[t] = Idle
      \/ "overlap" \in incidents
      \/ ~Cloud /\ \E p \in DOMAIN pools : Starved(p)
==============================================================================
