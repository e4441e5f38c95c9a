---------------------------- MODULE DbClient_proofs ----------------------------
(***************************************************************************)
(* Proofs about DbClient, for any tasks, providers, pool sizes and bounds. *)
(*                                                                         *)
(* What holds whatever happens is the shape of a call (TaskOK: which pool  *)
(* and which connection a task refers to, step by step) and LentIsHeld: an *)
(* action that lends or takes back a connection moves one task into or out *)
(* of the borrowers of one pool, and HeldChanges counts that.              *)
(*                                                                         *)
(* The rest is what holds unless an incident is on record, and needs to be *)
(* known together: who opens or closes the client is alone with it         *)
(* (OpeningsAreAlone), so the connector and the pool it sees are the ones  *)
(* it leaves (ConnectorIsKnown, PoolIsKnown), and the client is bound to   *)
(* the connection of the one block there is (BoundOnce).  One lemma for    *)
(* each action shows that it keeps all of them.                            *)
(***************************************************************************)
EXTENDS DbClient, FiniteSetTheorems, SequenceTheorems, TLAPS

PoolRef(r) == r \in Refs /\ r.is = "pool" /\ r.n \in 1..Len(pools)
SingleRef(r) == r \in Refs /\ r.is = "single" /\ r.n \in 1..Len(conns)
AttrRef(r) == r = None \/ PoolRef(r) \/ (Cloud /\ SingleRef(r))

Body == {"body", "bodyAcquire", "bodyQuery"}

\* What the parts of a task's record are, by where it is.
TaskOK(x) ==
  /\ x \in TaskStates
  /\ x.at = "idle" => x = Idle
  /\ x.at = "create" => x.ref = None /\ x.conn = 0
  /\ x.at \in {"acquire", "draining"} => PoolRef(x.ref) /\ x.conn = 0
  /\ x.at = "query" => (PoolRef(x.ref) \/ SingleRef(x.ref)) /\ x.conn = 0
  /\ x.at \in {"begin", "end"} \cup Body =>
       x.conn \in 1..Len(conns) /\ (PoolRef(x.ref) \/ SingleRef(x.ref))
  /\ x.at \notin {"bodyAcquire", "bodyQuery"} => x.inner = None
  /\ x.at = "bodyAcquire" => PoolRef(x.inner)
  /\ x.at = "bodyQuery" => PoolRef(x.inner) \/ SingleRef(x.inner)
  /\ x.at = "disconnecting" =>
       x.ref.is = "connector" /\ x.ref.n \in 1..Len(connectors) /\ x.conn = 0
  /\ AttrRef(x.saved)

PoolStates == [state : {"live", "closing", "closed"}, lent : 0..size]

Shape ==
  /\ kind \in Kinds /\ size \in Sizes
  /\ AttrRef(attr)
  /\ connector \in 0..Len(connectors)
  /\ pools \in Seq(PoolStates)
  /\ connectors \in Seq({"live", "closed"})
  /\ conns \in Seq({"lent", "back"})
  /\ task \in [Tasks -> TaskStates]
  /\ \A t \in Tasks : TaskOK(task[t])
  /\ incidents \subseteq {"open race", "failed open", "close race", "overlap"}

\* Nothing in a block goes around its own connection.
OwnOnly(x) ==
  /\ x.at # "bodyAcquire"
  /\ x.at = "bodyQuery" => x.inner = Single(x.conn)
  /\ x.ran # "other"

Undisturbed == "open race" \notin incidents /\ "close race" \notin incidents

Alone == {"create", "draining", "disconnecting"}

\* Without such a race, whoever opens or closes the client is alone with it.
OpeningsAreAlone ==
  Undisturbed =>
    /\ \A t, u \in Tasks : task[t].at \in Alone /\ t # u => task[u].at = "idle"
    /\ attr.is = "none" => \A t \in Tasks : task[t].at \in {"idle", "create", "disconnecting"}
    /\ \A t \in Tasks :
         /\ task[t].at \in {"create", "disconnecting"} => attr.is = "none"
         /\ task[t].at = "draining" => attr = task[t].ref /\ pools[attr.n].state # "live"
         /\ task[t].at = "disconnecting" => task[t].ref.n = connector
         /\ task[t].at \in Body => task[t].saved.is # "none"

ConnectorIsKnown ==
  Undisturbed /\ "failed open" \notin incidents =>
    /\ \A c \in 1..Len(connectors) : connectors[c] = "live" => c = connector
    /\ attr.is = "none" =>
         connector = 0 \/ \E t \in Tasks : task[t].at \in {"create", "disconnecting"}

PoolIsKnown ==
  Undisturbed /\ "overlap" \notin incidents =>
    /\ \A p \in 1..Len(pools) : pools[p].state = "live" =>
         \/ attr = Pool(p)
         \/ attr.is = "single" /\ \E t \in Tasks : task[t].at \in Body /\ task[t].saved = Pool(p)
    /\ \A t \in Tasks :
         /\ Cloud /\ task[t].at \in Body =>
              /\ attr = Single(task[t].conn)
              /\ task[t].saved.is = "pool"
              /\ \A u \in Tasks : task[u].at \in Body => u = t
         /\ Cloud => OwnOnly(task[t])

BoundOnce ==
  "overlap" \notin incidents =>
    /\ \A t \in Tasks : task[t].at \in Body => task[t].saved.is # "single"
    /\ attr.is = "single" => \E t \in Tasks : task[t].conn = attr.n /\ task[t].at \in Body

DbInv ==
  Shape /\ LentIsHeld /\ OpeningsAreAlone /\ ConnectorIsKnown /\ PoolIsKnown /\ BoundOnce

------------------------------------------------------------------------------
(* References, and what a pool lends.                                      *)

LEMMA RefKinds ==
  /\ None \in Refs /\ None.is = "none"
  /\ \A n \in Nat :
       /\ Pool(n) \in Refs /\ Pool(n).is = "pool" /\ Pool(n).n = n
       /\ Single(n) \in Refs /\ Single(n).is = "single" /\ Single(n).n = n
       /\ Connector(n) \in Refs /\ Connector(n).is = "connector" /\ Connector(n).n = n
       /\ \A r \in Refs :
            /\ r = Pool(n) <=> r.is = "pool" /\ r.n = n
            /\ r = Single(n) <=> r.is = "single" /\ r.n = n
  /\ \A r \in Refs :
       r.n \in Nat /\ r.is \in {"none", "pool", "single", "connector"}
BY DEF None, Refs, Pool, Single, Connector

\* The connections of pool p that a task in state x accounts for.
Outer(x, p) == IF x.ref = Pool(p) /\ x.at \notin {"acquire", "draining"} THEN 1 ELSE 0
Inner(x, p) == IF x.inner = Pool(p) /\ x.at = "bodyQuery" THEN 1 ELSE 0

Held(p) == Cardinality(Borrowers(p)) + Cardinality(InnerBorrowers(p))

\* When one element of a finite set may come or go.
LEMMA OneElement ==
  ASSUME NEW S, NEW T, NEW e, IsFiniteSet(S), S \ {e} = T \ {e}
  PROVE  /\ Cardinality(S) \in Nat /\ Cardinality(T) \in Nat
         /\ Cardinality(T) + (IF e \in S THEN 1 ELSE 0) = Cardinality(S) + (IF e \in T THEN 1 ELSE 0)
         /\ e \in S => Cardinality(S) >= 1
<1> DEFINE R == S \ {e}
<1>1. IsFiniteSet(R) /\ Cardinality(R) \in Nat
  BY FS_RemoveElement, FS_CardinalityType
<1>2. IsFiniteSet(R \cup {e}) /\ Cardinality(R \cup {e}) = Cardinality(R) + 1
  BY <1>1, FS_AddElement
<1>3. S = IF e \in S THEN R \cup {e} ELSE R
  OBVIOUS
<1>4. T = IF e \in T THEN R \cup {e} ELSE R
  OBVIOUS
<1> HIDE DEF R
<1>5. Cardinality(S) = Cardinality(R) + (IF e \in S THEN 1 ELSE 0)
  BY <1>1, <1>2, <1>3
<1>6. Cardinality(T) = Cardinality(R) + (IF e \in T THEN 1 ELSE 0)
  BY <1>1, <1>2, <1>4
<1>7. QED
  BY <1>1, <1>5, <1>6

\* When one task moves, what a pool's borrowers hold changes by what that task
\* holds now and held before.
LEMMA HeldChanges ==
  ASSUME task \in [Tasks -> TaskStates], task' \in [Tasks -> TaskStates],
         NEW t \in Tasks, \A u \in Tasks : u # t => task'[u] = task[u],
         NEW p \in Nat
  PROVE  /\ Held(p) \in Nat /\ Held(p)' \in Nat
         /\ Held(p)' + Outer(task[t], p) + Inner(task[t], p)
              = Held(p) + Outer(task'[t], p) + Inner(task'[t], p)
         /\ Outer(task[t], p) + Inner(task[t], p) <= Held(p)
<1>1. /\ IsFiniteSet(Borrowers(p)) /\ IsFiniteSet(InnerBorrowers(p))
  BY TasksAreFinite, FS_Subset DEF Borrowers, InnerBorrowers
<1>2. /\ Borrowers(p) \ {t} = Borrowers(p)' \ {t}
      /\ InnerBorrowers(p) \ {t} = InnerBorrowers(p)' \ {t}
  <2>1. Borrowers(p)' = {u \in Tasks : task'[u].ref = Pool(p) /\ task'[u].at \notin {"acquire", "draining"}}
    BY DEF Borrowers, Pool
  <2>2. InnerBorrowers(p)' = {u \in Tasks : task'[u].inner = Pool(p) /\ task'[u].at = "bodyQuery"}
    BY DEF InnerBorrowers, Pool
  <2>3. \A u \in Tasks : u # t => (u \in Borrowers(p) <=> u \in Borrowers(p)')
    BY <2>1 DEF Borrowers
  <2>4. \A u \in Tasks : u # t => (u \in InnerBorrowers(p) <=> u \in InnerBorrowers(p)')
    BY <2>2 DEF InnerBorrowers
  <2>5. /\ Borrowers(p) \subseteq Tasks /\ Borrowers(p)' \subseteq Tasks
        /\ InnerBorrowers(p) \subseteq Tasks /\ InnerBorrowers(p)' \subseteq Tasks
    BY <2>1, <2>2 DEF Borrowers, InnerBorrowers
  <2>6. QED
    BY <2>3, <2>4, <2>5
<1>3. /\ Outer(task[t], p) = IF t \in Borrowers(p) THEN 1 ELSE 0
      /\ Inner(task[t], p) = IF t \in InnerBorrowers(p) THEN 1 ELSE 0
      /\ Outer(task'[t], p) = IF t \in Borrowers(p)' THEN 1 ELSE 0
      /\ Inner(task'[t], p) = IF t \in InnerBorrowers(p)' THEN 1 ELSE 0
  BY DEF Borrowers, InnerBorrowers, Outer, Inner
<1> DEFINE B == Cardinality(Borrowers(p))
           I == Cardinality(InnerBorrowers(p))
           Bn == Cardinality(Borrowers(p)')
           In == Cardinality(InnerBorrowers(p)')
<1>4. /\ B \in Nat /\ Bn \in Nat
      /\ Bn + Outer(task[t], p) = B + Outer(task'[t], p)
      /\ t \in Borrowers(p) => B >= 1
  BY <1>1, <1>2, <1>3, OneElement
<1>5. /\ I \in Nat /\ In \in Nat
      /\ In + Inner(task[t], p) = I + Inner(task'[t], p)
      /\ t \in InnerBorrowers(p) => I >= 1
  BY <1>1, <1>2, <1>3, OneElement
<1>6. Held(p) = B + I /\ Held(p)' = Bn + In
  BY DEF Held
<1> HIDE DEF B, I, Bn, In
<1>7. QED
  BY <1>3, <1>4, <1>5, <1>6


------------------------------------------------------------------------------
(* The shape of the state.                                                 *)

LEMMA SomeTypes ==
  ASSUME Shape
  PROVE  /\ pools \in Seq(PoolStates) /\ connectors \in Seq({"live", "closed"})
         /\ conns \in Seq({"lent", "back"})
         /\ Len(pools) \in Nat /\ Len(connectors) \in Nat /\ Len(conns) \in Nat
         /\ size \in Nat \ {0} /\ kind \in {"cloudsql", "postgres"}
         /\ AttrRef(attr) /\ attr \in Refs /\ connector \in 0..Len(connectors)
         /\ task \in [Tasks -> TaskStates]
         /\ \A t \in Tasks : task[t] \in TaskStates /\ TaskOK(task[t])
<1>1. /\ pools \in Seq(PoolStates) /\ connectors \in Seq({"live", "closed"})
      /\ conns \in Seq({"lent", "back"})
      /\ AttrRef(attr) /\ connector \in 0..Len(connectors)
      /\ task \in [Tasks -> TaskStates]
      /\ \A t \in Tasks : TaskOK(task[t])
      /\ kind \in Kinds /\ size \in Sizes
  BY DEF Shape
<1>2. Len(pools) \in Nat /\ Len(connectors) \in Nat /\ Len(conns) \in Nat
  BY <1>1, LenProperties
<1>3. attr \in Refs
  BY <1>1, RefKinds DEF AttrRef, PoolRef, SingleRef
<1>4. QED
  BY <1>1, <1>2, <1>3, KnownKinds, SizesArePositive

LEMMA Lengths ==
  ASSUME Shape
  PROVE  /\ Len(pools) \in Nat /\ Len(connectors) \in Nat /\ Len(conns) \in Nat /\ size \in Nat
         /\ 1..Len(pools) \subseteq Nat
BY SomeTypes

LEMMA IncidentTypes ==
  Shape => incidents \subseteq {"open race", "failed open", "close race", "overlap"}
BY DEF Shape

\* Nothing is ever taken away that a task refers to.
PoolsGrow == pools' \in Seq(PoolStates) /\ Len(pools) <= Len(pools')
ConnectorsGrow == connectors' \in Seq({"live", "closed"}) /\ Len(connectors) <= Len(connectors')
ConnsGrow == conns' \in Seq({"lent", "back"}) /\ Len(conns) <= Len(conns')
IncidentsGrow == incidents' \subseteq {"open race", "failed open", "close race", "overlap"}

Grows ==
  /\ kind' = kind /\ size' = size
  /\ PoolsGrow /\ ConnectorsGrow /\ ConnsGrow /\ IncidentsGrow

\* What a step leaves alone, and a new transaction's connection.
LEMMA GrowthOf ==
  ASSUME Shape
  PROVE  /\ pools' = pools => PoolsGrow
         /\ connectors' = connectors => ConnectorsGrow
         /\ conns' = conns => ConnsGrow /\ Len(conns') = Len(conns)
         /\ incidents' = incidents => IncidentsGrow
         /\ conns' = Append(conns, "lent") =>
              ConnsGrow /\ Len(conns') = Len(conns) + 1 /\ Len(conns') \in 1..Len(conns')
         /\ UNCHANGED config => kind' = kind /\ size' = size
<1>1. /\ conns \in Seq({"lent", "back"}) /\ Len(conns) \in Nat /\ "lent" \in {"lent", "back"}
      /\ pools \in Seq(PoolStates) /\ connectors \in Seq({"live", "closed"})
      /\ Len(pools) \in Nat /\ Len(connectors) \in Nat
  BY SomeTypes
<1>2. /\ Append(conns, "lent") \in Seq({"lent", "back"})
      /\ Len(Append(conns, "lent")) = Len(conns) + 1
  BY <1>1, AppendProperties
<1>3. pools' = pools => PoolsGrow
  BY <1>1 DEF PoolsGrow
<1>4. connectors' = connectors => ConnectorsGrow
  BY <1>1 DEF ConnectorsGrow
<1>5. conns' = conns => ConnsGrow /\ Len(conns') = Len(conns)
  BY <1>1 DEF ConnsGrow
<1>6. conns' = Append(conns, "lent") =>
        ConnsGrow /\ Len(conns') = Len(conns) + 1 /\ Len(conns') \in 1..Len(conns')
  BY <1>1, <1>2 DEF ConnsGrow
<1>7. /\ incidents' = incidents => IncidentsGrow
      /\ UNCHANGED config => kind' = kind /\ size' = size
  BY IncidentTypes DEF IncidentsGrow, config
<1>8. QED
  BY <1>3, <1>4, <1>5, <1>6, <1>7

LEMMA Positions ==
  ASSUME Shape, Grows
  PROVE  /\ 1..Len(pools) \subseteq 1..Len(pools')
         /\ 1..Len(connectors) \subseteq 1..Len(connectors')
         /\ 1..Len(conns) \subseteq 1..Len(conns')
<1>1. Len(pools) \in Nat /\ Len(connectors) \in Nat /\ Len(conns) \in Nat
  BY SomeTypes
<1>2. Len(pools') \in Nat /\ Len(connectors') \in Nat /\ Len(conns') \in Nat
  BY LenProperties DEF Grows, PoolsGrow, ConnectorsGrow, ConnsGrow
<1>3. \A m, n \in Nat : m <= n => 1..m \subseteq 1..n
  OBVIOUS
<1>4. QED
  BY <1>1, <1>2, <1>3 DEF Grows, PoolsGrow, ConnectorsGrow, ConnsGrow

LEMMA RefsStay ==
  ASSUME Shape, Grows, NEW r
  PROVE  /\ PoolRef(r) => PoolRef(r)'
         /\ SingleRef(r) => SingleRef(r)'
         /\ AttrRef(r) => AttrRef(r)'
<1>1. PoolRef(r) => PoolRef(r)'
  BY Positions DEF PoolRef, Refs
<1>2. SingleRef(r) => SingleRef(r)'
  BY Positions DEF SingleRef, Refs
<1>3. Cloud' = Cloud
  BY DEF Cloud, Grows
<1>4. QED
  BY <1>1, <1>2, <1>3 DEF AttrRef, None

LEMMA TaskStays ==
  ASSUME Shape, Grows, NEW x, TaskOK(x)
  PROVE  TaskOK(x)'
<1>1. Idle' = Idle /\ None' = None /\ TaskStates' = TaskStates
  BY DEF Idle, None, TaskStates, Refs
<1>2. QED
  BY <1>1, Positions, RefsStay DEF TaskOK, Body

LEMMA IdleIsOK == TaskOK(Idle) /\ TaskOK(Idle)'
<1>1. Idle \in TaskStates
  BY DEF TaskStates, Refs, Idle, None
<1>2. QED
  BY <1>1 DEF TaskOK, TaskStates, Refs, Idle, None, AttrRef, Body

\* One task moves to x.
LEMMA ShapeKeeps ==
  ASSUME Shape, Grows, NEW t \in Tasks, NEW x, TaskOK(x)',
         task' = [task EXCEPT ![t] = x],
         AttrRef(attr)', connector' \in 0..Len(connectors')
  PROVE  /\ Shape'
         /\ task'[t] = x /\ \A u \in Tasks : u # t => task'[u] = task[u]
<1>1. task \in [Tasks -> TaskStates] /\ \A u \in Tasks : TaskOK(task[u])
  BY SomeTypes
<1>2. x \in TaskStates
  BY DEF TaskOK, TaskStates, Refs
<1>3. /\ task' \in [Tasks -> TaskStates]
      /\ task'[t] = x /\ \A u \in Tasks : u # t => task'[u] = task[u]
  BY <1>1, <1>2
<1>4. \A u \in Tasks : TaskOK(task[u])'
  <2>1. ASSUME NEW u \in Tasks, u # t
        PROVE  TaskOK(task[u])'
    <3>1. TaskOK(task[u]) /\ task'[u] = task[u]
      BY <1>1, <1>3, <2>1
    <3>2. \A y : TaskOK(y) => TaskOK(y)'
      BY TaskStays
    <3>3. QED
      BY <3>1, <3>2
  <2>2. QED
    BY <1>3, <2>1
<1>5. QED
  BY <1>3, <1>4 DEF Shape, Grows, PoolsGrow, ConnectorsGrow, ConnsGrow, IncidentsGrow, PoolStates, TaskStates, Refs

------------------------------------------------------------------------------
(* What the pools lend.                                                    *)

SameStates == \A p \in 1..Len(pools) : pools'[p].state = pools[p].state

LEMMA ElementTypes ==
  ASSUME Shape
  PROVE  /\ \A p \in 1..Len(pools) : pools[p] \in PoolStates
         /\ \A p \in 1..Len(pools) : pools[p].lent \in 0..size
         /\ DOMAIN pools = 1..Len(pools)
         /\ DOMAIN connectors = 1..Len(connectors)
         /\ DOMAIN conns = 1..Len(conns)
<1>1. \A p \in 1..Len(pools) : pools[p] \in PoolStates
  BY SomeTypes, ElementOfSeq
<1>2. \A r \in PoolStates : r.lent \in 0..size
  BY DEF PoolStates
<1>3. QED
  BY <1>1, <1>2, SomeTypes, LenProperties

LEMMA PoolEntry ==
  ASSUME NEW e \in PoolStates
  PROVE  /\ \A n \in 0..size :
              LET r == [e EXCEPT !.lent = n] IN r \in PoolStates /\ r.state = e.state /\ r.lent = n
         /\ \A s \in {"live", "closing", "closed"} :
              LET r == [e EXCEPT !.state = s] IN r \in PoolStates /\ r.state = s /\ r.lent = e.lent
BY DEF PoolStates

\* The pools lend what they did, but for what the task that moves takes or
\* gives back.
LEMMA LentMoves ==
  ASSUME Shape, Grows, Shape', LentIsHeld, NEW t \in Tasks,
         \A u \in Tasks : u # t => task'[u] = task[u],
         Len(pools') = Len(pools),
         \A p \in 1..Len(pools) :
           pools'[p].lent + Outer(task[t], p) + Inner(task[t], p)
             = pools[p].lent + Outer(task'[t], p) + Inner(task'[t], p)
  PROVE  LentIsHeld'
<1>1. task \in [Tasks -> TaskStates] /\ task' \in [Tasks -> TaskStates]
  BY DEF Shape, TaskStates, Refs
<1>2. DOMAIN pools = 1..Len(pools)
  BY ElementTypes
<1>3. DOMAIN pools' = 1..Len(pools)
  BY LenProperties DEF Grows, PoolsGrow, ConnectorsGrow, ConnsGrow
<1>4. ASSUME NEW p \in 1..Len(pools)
      PROVE  pools'[p].lent = Held(p)'
  <2>1. p \in Nat
    BY Lengths
  <2>2. /\ Held(p) \in Nat /\ Held(p)' \in Nat
        /\ Held(p)' + Outer(task[t], p) + Inner(task[t], p)
             = Held(p) + Outer(task'[t], p) + Inner(task'[t], p)
    BY <1>1, <2>1, HeldChanges
  <2>3. pools[p].lent = Held(p)
    BY <1>2 DEF LentIsHeld, Held
  <2>4. pools[p].lent \in Nat /\ pools'[p].lent \in Nat
    <3>1. pools[p].lent \in 0..size /\ size \in Nat
      BY ElementTypes, Lengths
    <3>2. pools'[p] \in PoolStates
      BY <1>3, ElementOfSeq DEF Grows, PoolsGrow
    <3>3. QED
      BY <3>1, <3>2 DEF PoolStates
  <2>5. \A y : Outer(y, p) \in {0, 1} /\ Inner(y, p) \in {0, 1}
    BY DEF Outer, Inner
  <2> HIDE DEF Held
  <2>6. QED
    BY <2>2, <2>3, <2>4, <2>5
<1>5. QED
  BY <1>3, <1>4 DEF LentIsHeld, Held

LEMMA PoolsLend ==
  ASSUME Shape, NEW p \in 1..Len(pools), HasRoom(p), Lend(p)
  PROVE  /\ pools' \in Seq(PoolStates) /\ Len(pools') = Len(pools) /\ SameStates
         /\ \A q \in 1..Len(pools) :
              pools'[q].lent = IF q = p THEN pools[q].lent + 1 ELSE pools[q].lent
<1>1. /\ pools \in Seq(PoolStates) /\ size \in Nat
      /\ \A q \in 1..Len(pools) : pools[q] \in PoolStates /\ pools[q].lent \in 0..size
  BY SomeTypes, ElementTypes
<1> DEFINE r == [pools[p] EXCEPT !.lent = pools[p].lent + 1]
<1>2. pools[p].lent < size
  BY DEF HasRoom
<1>3. /\ r \in PoolStates /\ r.state = pools[p].state /\ r.lent = pools[p].lent + 1
  <2>1. pools[p].lent + 1 \in 0..size /\ pools[p] \in PoolStates
    BY <1>1, <1>2
  <2>2. QED
    BY <2>1, PoolEntry
<1>4. pools' = [pools EXCEPT ![p] = r]
  BY DEF Lend
<1> HIDE DEF r
<1>5. /\ pools' \in Seq(PoolStates) /\ Len(pools') = Len(pools)
      /\ \A q \in 1..Len(pools) : pools'[q] = IF q = p THEN r ELSE pools[q]
  BY <1>1, <1>3, <1>4, ExceptSeq
<1>6. QED
  BY <1>3, <1>5 DEF SameStates

\* What a task holds of a pool, that pool has lent.
LEMMA PoolsTakeBack ==
  ASSUME Shape, LentIsHeld, NEW t \in Tasks, task' \in [Tasks -> TaskStates],
         \A u \in Tasks : u # t => task'[u] = task[u],
         NEW ref, PoolRef(ref) \/ SingleRef(ref), GiveBack(ref),
         PoolRef(ref) => Outer(task[t], ref.n) + Inner(task[t], ref.n) >= 1
  PROVE  /\ pools' \in Seq(PoolStates) /\ Len(pools') = Len(pools) /\ SameStates
         /\ \A p \in 1..Len(pools) :
              pools'[p].lent = IF ref = Pool(p) THEN pools[p].lent - 1 ELSE pools[p].lent
<1>1. /\ pools \in Seq(PoolStates) /\ size \in Nat /\ task \in [Tasks -> TaskStates]
      /\ \A q \in 1..Len(pools) : pools[q] \in PoolStates /\ pools[q].lent \in 0..size
      /\ DOMAIN pools = 1..Len(pools) /\ 1..Len(pools) \subseteq Nat
  <2>1. pools \in Seq(PoolStates) /\ task \in [Tasks -> TaskStates]
    BY SomeTypes
  <2>2. QED
    BY <2>1, Lengths, ElementTypes
<1>2. ref \in Refs /\ \A p \in 1..Len(pools) : ref = Pool(p) <=> ref.is = "pool" /\ ref.n = p
  BY <1>1, RefKinds DEF PoolRef, SingleRef
<1>3. CASE PoolRef(ref)
  <2> DEFINE p == ref.n
             r == [pools[p] EXCEPT !.lent = pools[p].lent - 1]
  <2>1. p \in 1..Len(pools) /\ p \in Nat
    BY <1>1, <1>3 DEF PoolRef
  <2>2. pools[p].lent = Held(p)
    BY <1>1, <2>1 DEF LentIsHeld, Held
  <2>3. /\ Held(p) \in Nat /\ Outer(task[t], p) + Inner(task[t], p) <= Held(p)
        /\ Outer(task[t], p) \in Nat /\ Inner(task[t], p) \in Nat
    <3>1. Outer(task[t], p) \in Nat /\ Inner(task[t], p) \in Nat
      BY DEF Outer, Inner
    <3>2. QED
      BY <1>1, <2>1, <3>1, HeldChanges
  <2>4. pools[p].lent >= 1
    BY <1>3, <2>2, <2>3
  <2>5. /\ r \in PoolStates /\ r.state = pools[p].state /\ r.lent = pools[p].lent - 1
    <3>1. pools[p].lent - 1 \in 0..size /\ pools[p] \in PoolStates
      BY <1>1, <2>1, <2>4
    <3>2. QED
      BY <3>1, PoolEntry
  <2>6. pools' = [pools EXCEPT ![p] = r]
    BY <1>3 DEF GiveBack, PoolRef
  <2>7. ref.is = "pool"
    BY <1>3 DEF PoolRef
  <2> HIDE DEF r
  <2>8. /\ pools' \in Seq(PoolStates) /\ Len(pools') = Len(pools)
        /\ \A q \in 1..Len(pools) : pools'[q] = IF q = p THEN r ELSE pools[q]
    BY <1>1, <2>1, <2>5, <2>6, ExceptSeq
  <2>9. QED
    BY <1>2, <2>5, <2>7, <2>8 DEF SameStates
<1>4. CASE SingleRef(ref)
  <2>1. ref.is = "single" /\ pools' = pools
    BY <1>4 DEF SingleRef, GiveBack
  <2>2. QED
    BY <1>1, <1>2, <2>1 DEF SameStates
<1>5. QED
  BY <1>3, <1>4

------------------------------------------------------------------------------
(* Steps in the middle of a call.                                          *)

\* Task t moves to x, and only it.
Moved(t, x) ==
  /\ TaskOK(x)'
  /\ task' = [task EXCEPT ![t] = x]

Attributes == <<kind, attr, connector, connectors>>

\* A task that is neither opening nor closing moves on without touching the
\* client.
LEMMA MovesInACall ==
  ASSUME DbInv, Shape', NEW t \in Tasks, NEW x, Moved(t, x), UNCHANGED Attributes,
         Len(pools') = Len(pools), SameStates, incidents \subseteq incidents',
         task[t].at \notin Alone, x.at \notin Alone,
         Undisturbed' =>
           attr.is # "none" /\ \A u \in Tasks : task[u].at \notin Alone,
         x.at \in Body <=> task[t].at \in Body,
         x.at \in Body => x.saved = task[t].saved /\ x.conn = task[t].conn,
         Undisturbed' /\ "overlap" \notin incidents' => (Cloud => OwnOnly(x))
  PROVE  OpeningsAreAlone' /\ ConnectorIsKnown' /\ PoolIsKnown' /\ BoundOnce'
<1>1. /\ Shape /\ OpeningsAreAlone /\ ConnectorIsKnown /\ PoolIsKnown /\ BoundOnce
      /\ Undisturbed' => Undisturbed
      /\ \A i : i \notin incidents' => i \notin incidents
  BY DEF DbInv, Undisturbed
<1>2. /\ kind' = kind /\ attr' = attr /\ connector' = connector /\ connectors' = connectors
      /\ Cloud' = Cloud
  BY DEF Attributes, Cloud
<1>3. /\ task'[t] = x /\ \A u \in Tasks : u # t => task'[u] = task[u]
  BY <1>1, SomeTypes DEF Moved
<1>4. OpeningsAreAlone'
  <2> SUFFICES ASSUME Undisturbed'
               PROVE  OpeningsAreAlone'
    BY DEF OpeningsAreAlone
  <2>1. \A u \in Tasks : task'[u].at \notin Alone
    BY <1>3
  <2>2. attr'.is # "none"
    BY <1>2
  <2>3. \A u \in Tasks : task'[u].at \in Body => task'[u].saved.is # "none"
    BY <1>1, <1>3 DEF OpeningsAreAlone
  <2>4. QED
    BY <2>1, <2>2, <2>3 DEF OpeningsAreAlone, Alone, Body
<1>5. ConnectorIsKnown'
  BY <1>1, <1>2, <1>3 DEF ConnectorIsKnown, Undisturbed
<1>6. PoolIsKnown'
  <2> SUFFICES ASSUME Undisturbed', "overlap" \notin incidents'
               PROVE  PoolIsKnown'
    BY DEF PoolIsKnown
  <2>1. Undisturbed /\ "overlap" \notin incidents
    BY <1>1
  <2>2. ASSUME NEW p \in 1..Len(pools'), pools'[p].state = "live"
        PROVE  \/ attr' = Pool(p)
               \/ attr'.is = "single" /\ \E u \in Tasks : task'[u].at \in Body /\ task'[u].saved = Pool(p)
    <3>1. p \in 1..Len(pools) /\ pools[p].state = "live"
      BY <2>2 DEF SameStates
    <3>2. \/ attr = Pool(p)
          \/ attr.is = "single" /\ \E u \in Tasks : task[u].at \in Body /\ task[u].saved = Pool(p)
      BY <1>1, <2>1, <3>1 DEF PoolIsKnown
    <3>3. QED
      BY <1>2, <1>3, <3>2
  <2>3. ASSUME NEW u \in Tasks
        PROVE  /\ Cloud' /\ task'[u].at \in Body =>
                    /\ attr' = Single(task'[u].conn)
                    /\ task'[u].saved.is = "pool"
                    /\ \A v \in Tasks : task'[v].at \in Body => v = u
               /\ Cloud' => OwnOnly(task'[u])
    <3>1. \A v \in Tasks : task'[v].at \in Body => task[v].at \in Body
      BY <1>3
    <3>2. /\ Cloud /\ task[u].at \in Body =>
                    /\ attr = Single(task[u].conn)
                    /\ task[u].saved.is = "pool"
                    /\ \A v \in Tasks : task[v].at \in Body => v = u
          /\ Cloud => OwnOnly(task[u])
      BY <1>1, <2>1 DEF PoolIsKnown
    <3>3. QED
      BY <1>2, <1>3, <3>1, <3>2
  <2>4. \A p : Pool(p)' = Pool(p) /\ Single(p)' = Single(p)
    BY DEF Pool, Single
  <2>5. QED
    BY <2>2, <2>3, <2>4 DEF PoolIsKnown, Body, Pool, Single
<1>7. BoundOnce'
  BY <1>1, <1>2, <1>3 DEF BoundOnce, Body
<1>8. QED
  BY <1>4, <1>5, <1>6, <1>7

\* A task in a call, when no opening or closing has raced, has no opening or
\* closing around it, and the client has something to lend.
LEMMA CallersAreNotCutShort ==
  ASSUME DbInv, incidents \subseteq incidents', Undisturbed', NEW t \in Tasks,
         task[t].at \notin Alone \cup {"idle"}
  PROVE  attr.is # "none" /\ \A u \in Tasks : task[u].at \notin Alone
BY DEF DbInv, OpeningsAreAlone, Undisturbed, Alone

LEMMA OutsideABlock ==
  ASSUME DbInv, incidents \subseteq incidents', NEW t \in Tasks
  PROVE  Undisturbed' /\ "overlap" \notin incidents' =>
           (Cloud => /\ OwnOnly(task[t])
                     /\ task[t].at \in Body => attr = Single(task[t].conn))
BY DEF DbInv, PoolIsKnown, Undisturbed

LEMMA ClientStays ==
  ASSUME Shape, Grows, attr' = attr, connector' = connector
  PROVE  AttrRef(attr)' /\ connector' \in 0..Len(connectors')
<1>1. AttrRef(attr) /\ connector \in 0..Len(connectors) /\ Len(connectors) \in Nat
  BY SomeTypes
<1>2. PICK r : r = attr
  OBVIOUS
<1>3. AttrRef(r)'
  BY <1>1, <1>2, RefsStay
<1>4. AttrRef(attr)'
  BY <1>2, <1>3 DEF AttrRef, PoolRef, SingleRef
<1>5. Len(connectors') \in Nat /\ Len(connectors) <= Len(connectors')
  BY LenProperties DEF Grows, ConnectorsGrow
<1>6. QED
  BY <1>1, <1>4, <1>5

\* All of it for a task that moves to x in the middle of its call, and gives and
\* takes what its record says.
LEMMA KeepsInACall ==
  ASSUME DbInv, NEW t \in Tasks, NEW x, Moved(t, x), Grows,
         UNCHANGED <<attr, connector, connectors>>,
         Len(pools') = Len(pools), SameStates, incidents \subseteq incidents',
         \A p \in 1..Len(pools) :
           pools'[p].lent + Outer(task[t], p) + Inner(task[t], p)
             = pools[p].lent + Outer(x, p) + Inner(x, p),
         task[t].at \notin Alone, x.at \notin Alone,
         Undisturbed' =>
           attr.is # "none" /\ \A u \in Tasks : task[u].at \notin Alone,
         x.at \in Body <=> task[t].at \in Body,
         x.at \in Body => x.saved = task[t].saved /\ x.conn = task[t].conn,
         Undisturbed' /\ "overlap" \notin incidents' => (Cloud => OwnOnly(x))
  PROVE  DbInv'
<1>1. Shape /\ LentIsHeld
  BY DEF DbInv
<1>2. Shape' /\ task'[t] = x /\ \A u \in Tasks : u # t => task'[u] = task[u]
  BY <1>1, ClientStays, ShapeKeeps DEF Moved
<1>3. LentIsHeld'
  BY <1>1, <1>2, LentMoves
<1>4. UNCHANGED Attributes
  BY DEF Attributes, Grows
<1>5. OpeningsAreAlone' /\ ConnectorIsKnown' /\ PoolIsKnown' /\ BoundOnce'
  BY <1>2, <1>4, MovesInACall
<1>6. QED
  BY <1>2, <1>3, <1>5 DEF DbInv

LEMMA TypesInACall ==
  ASSUME DbInv, NEW t \in Tasks
  PROVE  /\ Shape /\ LentIsHeld
         /\ task \in [Tasks -> TaskStates] /\ TaskOK(task[t]) /\ task[t] \in TaskStates
         /\ \A p \in 1..Len(pools) : pools[p].lent \in Nat /\ p \in Nat
         /\ AttrRef(attr) /\ AttrRef(task[t].saved)
BY SomeTypes, ElementTypes, Lengths DEF DbInv, TaskOK

Fields(x, y) == x.does = y.does /\ x.ref = y.ref /\ x.saved = y.saved

LEMMA AcquiredKeeps ==
  ASSUME DbInv, NEW t \in Tasks, Acquired(t)
  PROVE  DbInv'
<1>1. /\ Shape /\ LentIsHeld
      /\ task \in [Tasks -> TaskStates] /\ TaskOK(task[t]) /\ task[t] \in TaskStates
      /\ \A q \in 1..Len(pools) : pools[q].lent \in Nat /\ q \in Nat
      /\ AttrRef(task[t].saved)
  BY TypesInACall
<1>2. /\ task[t].at = "acquire" /\ PoolRef(task[t].ref) /\ task[t].conn = 0
      /\ task[t].inner = None /\ AttrRef(task[t].saved)
  BY <1>1 DEF Acquired, TaskOK
<1> DEFINE p == task[t].ref.n
<1>3. p \in 1..Len(pools) /\ p \in Nat /\ task[t].ref = Pool(p)
  <2>1. p \in 1..Len(pools) /\ p \in Nat
    BY <1>1, <1>2 DEF PoolRef
  <2>2. QED
    BY <1>2, <2>1, RefKinds DEF PoolRef
<1>4. /\ pools' \in Seq(PoolStates) /\ Len(pools') = Len(pools) /\ SameStates
      /\ \A q \in 1..Len(pools) :
           pools'[q].lent = IF q = p THEN pools[q].lent + 1 ELSE pools[q].lent
  BY <1>1, <1>3, PoolsLend DEF Acquired
<1>5. PICK x : /\ task' = [task EXCEPT ![t] = x] /\ x \in TaskStates /\ Fields(x, task[t])
               /\ x.inner = None /\ x.ran = task[t].ran
               /\ \/ x.at = "query" /\ x.conn = 0 /\ conns' = conns
                  \/ x.at = "begin" /\ x.conn = Len(conns') /\ conns' = Append(conns, "lent")
  <2>1. CASE task[t].does = "statement"
    <3> DEFINE x == [task[t] EXCEPT !.at = "query"]
    <3>1. task' = [task EXCEPT ![t] = x] /\ conns' = conns
      BY <2>1 DEF Acquired
    <3>2. /\ x \in TaskStates /\ Fields(x, task[t]) /\ x.inner = None /\ x.at = "query"
          /\ x.conn = 0 /\ x.ran = task[t].ran
      BY <1>1, <1>2 DEF TaskStates, Fields
    <3> HIDE DEF x
    <3>3. QED
      BY <3>1, <3>2
  <2>2. CASE task[t].does # "statement"
    <3> DEFINE x == [task[t] EXCEPT !.at = "begin", !.conn = Len(conns')]
    <3>1. task' = [task EXCEPT ![t] = x] /\ conns' = Append(conns, "lent")
      BY <1>1, <2>2 DEF Acquired
    <3>2. Len(conns') \in Nat
      BY <1>1, <3>1, GrowthOf, Lengths
    <3>3. /\ x \in TaskStates /\ Fields(x, task[t]) /\ x.inner = None /\ x.at = "begin"
          /\ x.conn = Len(conns') /\ x.ran = task[t].ran
      BY <1>1, <1>2, <3>2 DEF TaskStates, Fields
    <3> HIDE DEF x
    <3>4. QED
      BY <3>1, <3>3
  <2>3. QED
    BY <2>1, <2>2
<1>6. ConnsGrow /\ (x.at = "begin" => x.conn \in 1..Len(conns'))
  BY <1>1, <1>5, GrowthOf
<1>7. Grows
  <2>1. UNCHANGED <<config, connectors, incidents>>
    BY DEF Acquired
  <2>2. QED
    BY <1>1, <1>4, <1>6, <2>1, GrowthOf DEF Grows, PoolsGrow
<1>8. TaskOK(x)'
  <2>1. PoolRef(x.ref)' /\ AttrRef(x.saved)'
    BY <1>1, <1>2, <1>5, <1>7, RefsStay DEF Fields
  <2>2. x \in TaskStates' /\ None' = None
    BY <1>5 DEF TaskStates, Refs, None
  <2>3. QED
    BY <1>5, <1>6, <2>1, <2>2 DEF TaskOK, Body
<1>9. ASSUME NEW q \in 1..Len(pools)
      PROVE  pools'[q].lent + Outer(task[t], q) + Inner(task[t], q)
               = pools[q].lent + Outer(x, q) + Inner(x, q)
  <2>1. task[t].ref = Pool(q) <=> q = p
    BY <1>1, <1>3, RefKinds
  <2>2. /\ Outer(task[t], q) = 0 /\ Inner(task[t], q) = 0 /\ Inner(x, q) = 0
        /\ Outer(x, q) = IF q = p THEN 1 ELSE 0
    BY <1>2, <1>5, <2>1 DEF Outer, Inner, Fields
  <2>3. QED
    BY <1>1, <1>4, <2>2
<1>10. Moved(t, x) /\ UNCHANGED <<attr, connector, connectors>> /\ incidents' = incidents
  BY <1>5, <1>8 DEF Acquired, Moved
<1>11. /\ Undisturbed' => attr.is # "none" /\ \A u \in Tasks : task[u].at \notin Alone
       /\ Undisturbed' /\ "overlap" \notin incidents' => (Cloud => x.ran # "other")
  BY <1>2, <1>5, <1>10, CallersAreNotCutShort, OutsideABlock DEF Alone, OwnOnly
<1>12. x.at \notin Alone \cup Body /\ task[t].at \notin Alone \cup Body /\ x.at # "bodyAcquire" /\ x.at # "bodyQuery"
  BY <1>2, <1>5 DEF Alone, Body
<1>13. QED
  BY <1>4, <1>7, <1>9, <1>10, <1>11, <1>12, KeepsInACall DEF OwnOnly

\* An idle task holds nothing.
LEMMA IdleHolds ==
  /\ Idle.at = "idle" /\ Idle.inner = None /\ Idle.ref = None /\ Idle.ran = "none"
  /\ Idle.saved = None /\ Idle.conn = 0
  /\ \A p : Outer(Idle, p) = 0 /\ Inner(Idle, p) = 0
<1>1. /\ Idle.at = "idle" /\ Idle.inner = None /\ Idle.ref = None /\ Idle.ran = "none"
      /\ Idle.saved = None /\ Idle.conn = 0
  BY DEF Idle
<1>2. \A p : None # Pool(p)
  <2>1. \A p : None.is # Pool(p).is
    BY DEF None, Pool
  <2>2. QED
    BY <2>1
<1>3. QED
  BY <1>1, <1>2 DEF Outer, Inner

\* A task that goes back to where it was before its call.
LEMMA RefusedKeeps ==
  ASSUME DbInv, NEW t \in Tasks, Refused(t)
  PROVE  DbInv'
<1>1. /\ Shape /\ task[t].at = "acquire" /\ task[t].inner = None /\ task \in [Tasks -> TaskStates]
      /\ \A p \in 1..Len(pools) : pools[p].lent \in Nat
  BY TypesInACall DEF Refused, TaskOK
<1>2. /\ task' = [task EXCEPT ![t] = Idle] /\ incidents' = incidents
      /\ UNCHANGED <<config, attr, connector, pools, connectors, conns>>
  BY DEF Refused
<1>3. Grows
  BY <1>1, <1>2, GrowthOf DEF Grows
<1>4. Idle.at = "idle" /\ Idle.ref = None /\ Idle.inner = None /\ Idle.ran = "none"
  BY DEF Idle
<1>5. \A p \in 1..Len(pools) :
        /\ Outer(task[t], p) = 0 /\ Inner(task[t], p) = 0
        /\ Outer(Idle, p) = 0 /\ Inner(Idle, p) = 0
  BY <1>1, <1>4 DEF Outer, Inner, None, Pool
<1>6. Moved(t, Idle)
  BY <1>2, IdleIsOK DEF Moved
<1>7. Undisturbed' => attr.is # "none" /\ \A u \in Tasks : task[u].at \notin Alone
  BY <1>1, <1>2, CallersAreNotCutShort DEF Alone
<1>8. \A p \in 1..Len(pools) :
        pools'[p].lent + Outer(task[t], p) + Inner(task[t], p)
          = pools[p].lent + Outer(Idle, p) + Inner(Idle, p)
  BY <1>1, <1>2, <1>5
<1>9. Idle.at \notin Alone \cup Body /\ task[t].at \notin Alone \cup Body
  BY <1>1, <1>4 DEF Alone, Body
<1>10. SameStates
  BY <1>2 DEF SameStates
<1>11. QED
  BY <1>2, <1>3, <1>4, <1>6, <1>7, <1>8, <1>9, <1>10, KeepsInACall DEF OwnOnly, Body

LEMMA ReturnKeeps ==
  ASSUME DbInv, NEW t \in Tasks, Return(t)
  PROVE  DbInv'
<1> DEFINE ref == task[t].ref
<1>1. /\ Shape /\ LentIsHeld /\ task[t].inner = None /\ task \in [Tasks -> TaskStates]
      /\ task[t].at \in {"query", "begin", "end"}
      /\ \A p \in 1..Len(pools) : pools[p].lent \in Nat /\ p \in Nat
      /\ PoolRef(ref) \/ SingleRef(ref)
      /\ task[t].conn # 0 => task[t].conn \in 1..Len(conns)
  <2>1. TaskOK(task[t]) /\ task[t].at \in {"query", "begin", "end"}
    BY TypesInACall DEF Return
  <2>2. QED
    BY <2>1, TypesInACall DEF TaskOK
<1>2. /\ task' = [task EXCEPT ![t] = Idle] /\ incidents' = incidents /\ GiveBack(ref)
      /\ UNCHANGED <<config, attr, connector, connectors>>
  BY DEF Return
<1>3. task' \in [Tasks -> TaskStates] /\ \A u \in Tasks : u # t => task'[u] = task[u]
  <2>1. Idle \in TaskStates
    BY IdleIsOK DEF TaskOK
  <2>2. QED
    BY <1>1, <1>2, <2>1
<1>4. \A p \in 1..Len(pools) :
        /\ Outer(task[t], p) = IF ref = Pool(p) THEN 1 ELSE 0
        /\ Inner(task[t], p) = 0
        /\ Outer(Idle, p) = 0 /\ Inner(Idle, p) = 0
  BY <1>1, IdleHolds DEF Outer, Inner
<1>5. PoolRef(ref) => Outer(task[t], ref.n) + Inner(task[t], ref.n) >= 1
  <2>1. PoolRef(ref) => ref.n \in 1..Len(pools) /\ ref = Pool(ref.n)
    BY <1>1, RefKinds DEF PoolRef
  <2>2. QED
    BY <1>4, <2>1
<1>6. /\ pools' \in Seq(PoolStates) /\ Len(pools') = Len(pools) /\ SameStates
      /\ \A p \in 1..Len(pools) :
           pools'[p].lent = IF ref = Pool(p) THEN pools[p].lent - 1 ELSE pools[p].lent
  BY <1>1, <1>2, <1>3, <1>5, PoolsTakeBack
<1>7. ConnsGrow
  <2>1. conns \in Seq({"lent", "back"}) /\ Len(conns) \in Nat /\ "back" \in {"lent", "back"}
    BY <1>1, SomeTypes
  <2>2. CASE task[t].conn # 0 /\ task[t].ref.is = "pool"
    <3>1. conns' = [conns EXCEPT ![task[t].conn] = "back"]
      BY <2>2 DEF Return
    <3>2. QED
      BY <1>1, <2>1, <2>2, <3>1, ExceptSeq DEF ConnsGrow
  <2>3. CASE ~(task[t].conn # 0 /\ task[t].ref.is = "pool")
    <3>1. conns' = conns
      BY <2>3 DEF Return
    <3>2. QED
      BY <1>1, <3>1, GrowthOf
  <2>4. QED
    BY <2>2, <2>3
<1>8. Grows
  <2>1. Len(pools) <= Len(pools')
    BY <1>1, <1>6, Lengths
  <2>2. QED
    BY <1>1, <1>2, <1>6, <1>7, <2>1, GrowthOf DEF Grows, PoolsGrow
<1>9. Moved(t, Idle)
  BY <1>2, IdleIsOK DEF Moved
<1>10. Undisturbed' => attr.is # "none" /\ \A u \in Tasks : task[u].at \notin Alone
  BY <1>1, <1>2, CallersAreNotCutShort DEF Alone
<1>11. \A p \in 1..Len(pools) :
         pools'[p].lent + Outer(task[t], p) + Inner(task[t], p)
           = pools[p].lent + Outer(Idle, p) + Inner(Idle, p)
  <2> TAKE p \in 1..Len(pools)
  <2>1. pools[p].lent \in Nat
    BY <1>1
  <2>2. CASE ref = Pool(p)
    BY <1>4, <1>6, <2>1, <2>2
  <2>3. CASE ref # Pool(p)
    BY <1>4, <1>6, <2>1, <2>3
  <2>4. QED
    BY <2>2, <2>3
<1>12. /\ Idle.at \notin Alone \cup Body /\ task[t].at \notin Alone \cup Body
       /\ Idle.at = "idle" /\ Idle.ran = "none"
  BY <1>1 DEF Alone, Body, Idle
<1>13. QED
  BY <1>2, <1>6, <1>8, <1>9, <1>10, <1>11, <1>12, KeepsInACall DEF OwnOnly, Body

\* What a task is after it has asked for a connection: it holds none of a pool.
LEMMA AskedIs ==
  ASSUME NEW does \in {"statement", "transaction"}, NEW ref \in Refs,
         ref.is \in {"pool", "single"},
         NEW x, x = Asked(does, ref)
  PROVE  /\ x \in TaskStates
         /\ x.saved = None /\ x.inner = None /\ x.ran = "none"
         /\ x.at \in {"idle", "acquire", "query", "begin"}
         /\ x.at = "idle" => x = Idle
         /\ x.at # "idle" => x.ref = ref
         /\ x.at = "acquire" <=> ref.is = "pool"
         /\ x.at \in {"acquire", "query"} => x.conn = 0
         /\ x.at = "begin" => x.conn = ref.n
         /\ \A p \in Nat : Outer(x, p) = 0 /\ Inner(x, p) = 0
<1>1. ref.n \in Nat /\ None \in Refs
  BY RefKinds
<1>2. CASE ref.is = "pool"
  <2>1. x = [Idle EXCEPT !.at = "acquire", !.does = does, !.ref = ref]
    BY <1>2 DEF Asked
  <2>2. /\ x \in TaskStates /\ x.at = "acquire" /\ x.ref = ref /\ x.conn = 0
        /\ x.saved = None /\ x.inner = None /\ x.ran = "none"
    <3>1. x = [at |-> "acquire", does |-> does, ref |-> ref, inner |-> None, conn |-> 0,
               saved |-> None, ran |-> "none"]
      BY <2>1 DEF Idle
    <3>2. QED
      BY <1>1, <3>1 DEF TaskStates
  <2>3. QED
    BY <1>2, <2>2 DEF Outer, Inner
<1>3. CASE ref.is = "single" /\ ~Usable(ref.n)
  <2>1. x = Idle
    BY <1>3 DEF Asked
  <2>2. QED
    BY <1>3, <2>1, IdleHolds, IdleIsOK DEF TaskOK
<1>4. CASE ref.is = "single" /\ Usable(ref.n)
  <2>1. \A p \in Nat : ref # Pool(p)
    BY <1>4, RefKinds
  <2>2. CASE does = "statement"
    <3>1. x = [Idle EXCEPT !.at = "query", !.does = does, !.ref = ref]
      BY <1>4, <2>2 DEF Asked
    <3>2. /\ x \in TaskStates /\ x.at = "query" /\ x.ref = ref /\ x.conn = 0
          /\ x.saved = None /\ x.inner = None /\ x.ran = "none"
      <4>1. x = [at |-> "query", does |-> does, ref |-> ref, inner |-> None, conn |-> 0,
                 saved |-> None, ran |-> "none"]
        BY <3>1 DEF Idle
      <4>2. QED
        BY <1>1, <4>1 DEF TaskStates
    <3>3. \A p \in Nat : Outer(x, p) = 0 /\ Inner(x, p) = 0
      BY <2>1, <3>2 DEF Outer, Inner, None, Pool
    <3>4. QED
      BY <1>4, <3>2, <3>3
  <2>3. CASE does = "transaction"
    <3>1. x = [Idle EXCEPT !.at = "begin", !.does = does, !.ref = ref, !.conn = ref.n]
      BY <1>4, <2>3 DEF Asked
    <3>2. /\ x \in TaskStates /\ x.at = "begin" /\ x.ref = ref /\ x.conn = ref.n
          /\ x.saved = None /\ x.inner = None /\ x.ran = "none"
      BY <1>1, <3>1 DEF Idle, TaskStates
    <3>3. \A p \in Nat : Outer(x, p) = 0 /\ Inner(x, p) = 0
      BY <2>1, <3>2 DEF Outer, Inner, None, Pool
    <3>4. QED
      BY <1>4, <3>2, <3>3
  <2>4. QED
    BY <2>2, <2>3
<1>5. QED
  BY <1>2, <1>3, <1>4

LEMMA AskedIsOK ==
  ASSUME NEW does \in {"statement", "transaction"}, NEW ref, PoolRef(ref) \/ SingleRef(ref),
         NEW x, x = Asked(does, ref)
  PROVE  TaskOK(x)
<1>1. ref \in Refs /\ ref.is \in {"pool", "single"}
  BY DEF PoolRef, SingleRef
<1>2. /\ x \in TaskStates
      /\ x.saved = None /\ x.inner = None
      /\ x.at \in {"idle", "acquire", "query", "begin"}
      /\ x.at = "idle" => x = Idle
      /\ x.at # "idle" => x.ref = ref
      /\ x.at = "acquire" <=> ref.is = "pool"
      /\ x.at \in {"acquire", "query"} => x.conn = 0
      /\ x.at = "begin" => x.conn = ref.n
  BY <1>1, AskedIs
<1>3. AttrRef(x.saved)
  BY <1>2 DEF AttrRef
<1>4. x.at = "begin" => x.conn \in 1..Len(conns)
  BY <1>2 DEF PoolRef, SingleRef
<1>5. x.at \in {"acquire"} => PoolRef(x.ref)
  BY <1>2 DEF PoolRef, SingleRef
<1>6. QED
  BY <1>2, <1>3, <1>4, <1>5 DEF TaskOK, Body

LEMMA CallKeeps ==
  ASSUME DbInv, NEW t \in Tasks, NEW does \in {"statement", "transaction"}, Call(t, does)
  PROVE  DbInv'
<1>1. /\ Shape /\ LentIsHeld /\ task \in [Tasks -> TaskStates]
      /\ \A p \in 1..Len(pools) : pools[p].lent \in Nat /\ p \in Nat
      /\ AttrRef(attr) /\ attr \in Refs
  BY TypesInACall, SomeTypes
<1>2. attr # None /\ task[t] = Idle
  BY DEF Call
<1>3. PoolRef(attr) \/ SingleRef(attr)
  BY <1>1, <1>2 DEF AttrRef
<1>4. attr.is \in {"pool", "single"}
  BY <1>3 DEF PoolRef, SingleRef
<1>5. PICK x : x = Asked(does, attr)
  OBVIOUS
<1>6. /\ task' = [task EXCEPT ![t] = x]
      /\ incidents' = incidents \cup Race("close race", Closers # {})
      /\ UNCHANGED <<config, attr, connector, pools, connectors, conns>>
  BY <1>5 DEF Call
<1>7. /\ x.saved = None /\ x.inner = None /\ x.ran = "none"
      /\ x.at \in {"idle", "acquire", "query", "begin"}
      /\ \A p \in Nat : Outer(x, p) = 0 /\ Inner(x, p) = 0
  BY <1>1, <1>4, <1>5, AskedIs
<1>8. incidents \subseteq incidents' /\ IncidentsGrow
  BY <1>1, <1>6, IncidentTypes DEF Race, IncidentsGrow
<1>9. Grows
  BY <1>1, <1>6, <1>8, GrowthOf DEF Grows
<1>10. Moved(t, x)
  BY <1>1, <1>3, <1>5, <1>6, <1>9, AskedIsOK, TaskStays DEF Moved
<1>11. \A p \in 1..Len(pools) :
         pools'[p].lent + Outer(task[t], p) + Inner(task[t], p)
           = pools[p].lent + Outer(x, p) + Inner(x, p)
  BY <1>1, <1>2, <1>6, <1>7, IdleHolds
<1>12. Undisturbed' => attr.is # "none" /\ \A u \in Tasks : task[u].at \notin Alone
  <2> SUFFICES ASSUME Undisturbed', NEW u \in Tasks
               PROVE  task[u].at \notin Alone
    BY <1>4
  <2>1. Closers = {} /\ Undisturbed
    BY <1>6 DEF Undisturbed, Race
  <2>2. task[u].at \notin {"draining", "disconnecting"}
    BY <2>1 DEF Closers, At
  <2>3. task[u].at # "create"
    BY <1>4, <2>1 DEF DbInv, OpeningsAreAlone
  <2>4. QED
    BY <2>2, <2>3 DEF Alone
<1>13. x.at \notin Alone \cup Body /\ task[t].at \notin Alone \cup Body
  BY <1>2, <1>7, IdleHolds DEF Alone, Body
<1>14. SameStates
  BY <1>6 DEF SameStates
<1>15. x.at # "bodyAcquire" /\ x.at # "bodyQuery"
  BY <1>7
<1>16. QED
  BY <1>6, <1>7, <1>8, <1>9, <1>10, <1>11, <1>12, <1>13, <1>14, <1>15, KeepsInACall
     DEF OwnOnly

------------------------------------------------------------------------------
(* The statement of a block.                                               *)

\* What a step inside the block leaves of its task.
InBlock(x, y) ==
  /\ x \in TaskStates /\ x.does = y.does /\ x.ref = y.ref /\ x.saved = y.saved
  /\ x.conn = y.conn

\* Inside a block the outer borrowing stays, and the record stays in shape.
LEMMA InBlockIsOK ==
  ASSUME DbInv, Grows, NEW t \in Tasks, task[t].at \in Body, NEW x, InBlock(x, task[t]),
         x.at \in Body,
         x.at = "body" => x.inner = None,
         x.at = "bodyAcquire" => PoolRef(x.inner),
         x.at = "bodyQuery" => PoolRef(x.inner) \/ SingleRef(x.inner)
  PROVE  /\ TaskOK(x)'
         /\ \A p : Outer(x, p) = Outer(task[t], p) /\ Outer(x, p) \in {0, 1}
         /\ task[t].at \notin Alone /\ x.at \notin Alone
         /\ incidents \subseteq incidents' =>
              (Undisturbed' => attr.is # "none" /\ \A u \in Tasks : task[u].at \notin Alone)
<1>1. Shape /\ TaskOK(task[t])
  BY TypesInACall
<1>2. TaskOK(x)
  <2>1. /\ x.conn \in 1..Len(conns) /\ (PoolRef(x.ref) \/ SingleRef(x.ref)) /\ AttrRef(x.saved)
    BY <1>1 DEF TaskOK, InBlock
  <2>2. QED
    BY <2>1 DEF TaskOK, InBlock, Body
<1>3. TaskOK(x)'
  BY <1>1, <1>2, TaskStays
<1>4. \A p : Outer(x, p) = Outer(task[t], p) /\ Outer(x, p) \in {0, 1}
  BY DEF Outer, InBlock, Body
<1>5. task[t].at \notin Alone \cup {"idle"} /\ x.at \notin Alone
  BY DEF Alone, Body
<1>6. QED
  BY <1>3, <1>4, <1>5, CallersAreNotCutShort

LEMMA BodyStatementKeeps ==
  ASSUME DbInv, NEW t \in Tasks, BodyStatement(t)
  PROVE  DbInv'
<1>1. /\ Shape /\ task \in [Tasks -> TaskStates] /\ task[t] \in TaskStates /\ TaskOK(task[t])
      /\ \A p \in 1..Len(pools) : pools[p].lent \in Nat
      /\ AttrRef(attr)
  BY TypesInACall
<1>2. /\ task[t].at = "body" /\ task[t].ran = "none"
      /\ incidents' = incidents
      /\ UNCHANGED <<config, attr, connector, pools, connectors, conns>>
  BY DEF BodyStatement
<1>choice. PICK ref \in {Single(task[t].conn), attr} :
             /\ ref.is \in {"pool", "single"}
             /\ task' = [task EXCEPT ![t].inner = ref,
                           ![t].at = IF ref.is = "pool" THEN "bodyAcquire" ELSE "bodyQuery"]
  BY DEF BodyStatement
<1>3. PoolRef(ref) \/ SingleRef(ref)
  <2>1. CASE ref = attr
    <3>1. attr # None
      BY <1>choice, <2>1 DEF None
    <3>2. QED
      BY <1>1, <2>1, <3>1 DEF AttrRef
  <2>2. CASE ref = Single(task[t].conn)
    <3>1. task[t].conn \in 1..Len(conns) /\ task[t].conn \in Nat
      BY <1>1, <1>2, Lengths DEF TaskOK, Body
    <3>2. QED
      BY <2>2, <3>1, RefKinds DEF SingleRef
  <2>3. QED
    BY <1>choice, <2>1, <2>2
<1>4. ref \in Refs
  BY <1>3 DEF PoolRef, SingleRef
<1>5. PICK x : /\ task' = [task EXCEPT ![t] = x] /\ InBlock(x, task[t]) /\ x.inner = ref
               /\ x.at = (IF ref.is = "pool" THEN "bodyAcquire" ELSE "bodyQuery")
               /\ x.ran = "none"
  <2> DEFINE x == [task[t] EXCEPT !.inner = ref,
                     !.at = IF ref.is = "pool" THEN "bodyAcquire" ELSE "bodyQuery"]
  <2>1. task' = [task EXCEPT ![t] = x]
    BY <1>1, <1>choice
  <2>2. /\ InBlock(x, task[t]) /\ x.inner = ref /\ x.ran = "none"
        /\ x.at = (IF ref.is = "pool" THEN "bodyAcquire" ELSE "bodyQuery")
    BY <1>1, <1>2, <1>4 DEF TaskStates, InBlock
  <2> HIDE DEF x
  <2>3. QED
    BY <2>1, <2>2
<1>6. Grows
  BY <1>1, <1>2, GrowthOf DEF Grows
<1>7. /\ task[t].at \in Body /\ x.at \in Body /\ x.at # "body"
      /\ x.at = "bodyAcquire" => PoolRef(x.inner)
      /\ x.at = "bodyQuery" => SingleRef(x.inner) /\ ~PoolRef(x.inner)
  BY <1>2, <1>3, <1>5 DEF Body, PoolRef, SingleRef
<1>8. /\ TaskOK(x)'
      /\ \A p : Outer(x, p) = Outer(task[t], p) /\ Outer(x, p) \in {0, 1}
      /\ task[t].at \notin Alone /\ x.at \notin Alone
      /\ Undisturbed' => attr.is # "none" /\ \A u \in Tasks : task[u].at \notin Alone
  BY <1>2, <1>5, <1>6, <1>7, InBlockIsOK
<1>9. Moved(t, x)
  BY <1>5, <1>8 DEF Moved
<1>10. \A p \in 1..Len(pools) : Inner(task[t], p) = 0 /\ Inner(x, p) = 0
  <2> TAKE p \in 1..Len(pools)
  <2>1. Inner(task[t], p) = 0
    BY <1>2 DEF Inner
  <2>2. x.at = "bodyQuery" => x.inner # Pool(p)
    <3>1. p \in Nat
      BY <1>1, Lengths
    <3>2. QED
      BY <1>7, <3>1, RefKinds DEF SingleRef
  <2>3. QED
    BY <2>1, <2>2 DEF Inner
<1>11. \A p \in 1..Len(pools) :
         pools'[p].lent + Outer(task[t], p) + Inner(task[t], p)
           = pools[p].lent + Outer(x, p) + Inner(x, p)
  BY <1>1, <1>2, <1>8, <1>10
<1>12. Undisturbed' /\ "overlap" \notin incidents' => (Cloud => OwnOnly(x))
  <2> SUFFICES ASSUME Undisturbed', "overlap" \notin incidents', Cloud
               PROVE  OwnOnly(x)
    OBVIOUS
  <2>1. ref = Single(task[t].conn)
    BY <1>2, <1>7, <1>choice, OutsideABlock
  <2>2. ref.is = "single"
    BY <2>1 DEF Single
  <2>3. QED
    BY <1>5, <2>1, <2>2 DEF InBlock, OwnOnly
<1>13. SameStates
  BY <1>2 DEF SameStates
<1>14. x.saved = task[t].saved /\ x.conn = task[t].conn /\ x.ran # "other"
  BY <1>5 DEF InBlock
<1>15. QED
  BY <1>2, <1>6, <1>7, <1>8, <1>9, <1>11, <1>12, <1>13, <1>14, KeepsInACall

\* While the overlaps and races have not been, no block waits for a pool.
LEMMA BodyAcquiredKeeps ==
  ASSUME DbInv, NEW t \in Tasks, BodyAcquired(t)
  PROVE  DbInv'
<1> DEFINE p == task[t].inner.n
<1>1. /\ Shape /\ task \in [Tasks -> TaskStates] /\ task[t] \in TaskStates /\ TaskOK(task[t])
      /\ \A q \in 1..Len(pools) : pools[q].lent \in Nat /\ q \in Nat
  BY TypesInACall
<1>2. /\ task[t].at = "bodyAcquire" /\ incidents' = incidents
      /\ UNCHANGED <<config, attr, connector, connectors, conns>>
  BY DEF BodyAcquired
<1>3. PoolRef(task[t].inner) /\ p \in 1..Len(pools)
  BY <1>1, <1>2 DEF TaskOK, PoolRef
<1>4. \A q \in 1..Len(pools) : task[t].inner = Pool(q) <=> q = p
  BY <1>1, <1>3, RefKinds DEF PoolRef
<1>5. /\ pools' \in Seq(PoolStates) /\ Len(pools') = Len(pools) /\ SameStates
      /\ \A q \in 1..Len(pools) :
           pools'[q].lent = IF q = p THEN pools[q].lent + 1 ELSE pools[q].lent
  BY <1>1, <1>3, PoolsLend DEF BodyAcquired
<1>6. PICK x : /\ task' = [task EXCEPT ![t] = x] /\ InBlock(x, task[t])
               /\ x.inner = task[t].inner /\ x.at = "bodyQuery" /\ x.ran = task[t].ran
  <2> DEFINE x == [task[t] EXCEPT !.at = "bodyQuery"]
  <2>1. task' = [task EXCEPT ![t] = x]
    BY <1>1 DEF BodyAcquired
  <2>2. /\ InBlock(x, task[t]) /\ x.inner = task[t].inner /\ x.at = "bodyQuery"
        /\ x.ran = task[t].ran
    BY <1>1 DEF TaskStates, InBlock
  <2> HIDE DEF x
  <2>3. QED
    BY <2>1, <2>2
<1>7. Grows
  <2>1. Len(pools) <= Len(pools')
    BY <1>1, <1>5, Lengths
  <2>2. QED
    BY <1>1, <1>2, <1>5, <2>1, GrowthOf DEF Grows, PoolsGrow
<1>8. /\ TaskOK(x)'
      /\ \A q : Outer(x, q) = Outer(task[t], q) /\ Outer(x, q) \in {0, 1}
      /\ task[t].at \notin Alone /\ x.at \notin Alone
      /\ Undisturbed' => attr.is # "none" /\ \A u \in Tasks : task[u].at \notin Alone
  <2>1. task[t].at \in Body /\ x.at \in Body
    BY <1>2, <1>6 DEF Body
  <2>2. QED
    BY <1>2, <1>3, <1>6, <1>7, <2>1, InBlockIsOK
<1>9. Moved(t, x)
  BY <1>6, <1>8 DEF Moved
<1>10. \A q \in 1..Len(pools) :
         pools'[q].lent + Outer(task[t], q) + Inner(task[t], q)
           = pools[q].lent + Outer(x, q) + Inner(x, q)
  <2> TAKE q \in 1..Len(pools)
  <2>1. Inner(task[t], q) = 0 /\ Inner(x, q) = IF q = p THEN 1 ELSE 0
    BY <1>2, <1>4, <1>6 DEF Inner
  <2>2. pools[q].lent \in Nat
    BY <1>1
  <2>3. QED
    BY <1>5, <1>8, <2>1, <2>2
<1>11. Undisturbed' /\ "overlap" \notin incidents' => ~Cloud
  BY <1>2, OutsideABlock DEF OwnOnly
<1>12. x.saved = task[t].saved /\ x.conn = task[t].conn /\ x.at \in Body /\ task[t].at \in Body
  BY <1>2, <1>6 DEF InBlock, Body
<1>13. QED
  BY <1>2, <1>5, <1>7, <1>8, <1>9, <1>10, <1>11, <1>12, KeepsInACall

LEMMA BodyRefusedKeeps ==
  ASSUME DbInv, NEW t \in Tasks, BodyRefused(t)
  PROVE  DbInv'
<1>1. /\ Shape /\ task \in [Tasks -> TaskStates] /\ task[t] \in TaskStates /\ TaskOK(task[t])
      /\ \A q \in 1..Len(pools) : pools[q].lent \in Nat
  BY TypesInACall
<1>2. /\ task[t].at = "bodyAcquire" /\ incidents' = incidents
      /\ UNCHANGED <<config, attr, connector, pools, connectors, conns>>
  BY DEF BodyRefused
<1>3. PICK x : /\ task' = [task EXCEPT ![t] = x] /\ InBlock(x, task[t])
               /\ x.inner = None /\ x.at = "body" /\ x.ran = "refused"
  <2> DEFINE x == [task[t] EXCEPT !.at = "body", !.inner = None, !.ran = "refused"]
  <2>1. task' = [task EXCEPT ![t] = x]
    BY <1>1 DEF BodyRefused
  <2>2. InBlock(x, task[t]) /\ x.inner = None /\ x.at = "body" /\ x.ran = "refused"
    BY <1>1, RefKinds DEF TaskStates, InBlock
  <2> HIDE DEF x
  <2>3. QED
    BY <2>1, <2>2
<1>4. Grows
  BY <1>1, <1>2, GrowthOf DEF Grows
<1>5. /\ TaskOK(x)'
      /\ \A q : Outer(x, q) = Outer(task[t], q) /\ Outer(x, q) \in {0, 1}
      /\ task[t].at \notin Alone /\ x.at \notin Alone
      /\ Undisturbed' => attr.is # "none" /\ \A u \in Tasks : task[u].at \notin Alone
  <2>1. task[t].at \in Body /\ x.at \in Body
    BY <1>2, <1>3 DEF Body
  <2>2. QED
    BY <1>2, <1>3, <1>4, <2>1, InBlockIsOK
<1>6. Moved(t, x)
  BY <1>3, <1>5 DEF Moved
<1>7. \A q \in 1..Len(pools) :
         pools'[q].lent + Outer(task[t], q) + Inner(task[t], q)
           = pools[q].lent + Outer(x, q) + Inner(x, q)
  <2> TAKE q \in 1..Len(pools)
  <2>1. Inner(task[t], q) = 0 /\ Inner(x, q) = 0
    BY <1>2, <1>3 DEF Inner
  <2>2. QED
    BY <1>1, <1>2, <1>5, <2>1
<1>8. Undisturbed' /\ "overlap" \notin incidents' => ~Cloud
  BY <1>2, OutsideABlock DEF OwnOnly
<1>9. x.saved = task[t].saved /\ x.conn = task[t].conn /\ x.at \in Body /\ task[t].at \in Body
  BY <1>2, <1>3 DEF InBlock, Body
<1>10. SameStates
  BY <1>2 DEF SameStates
<1>11. QED
  BY <1>2, <1>4, <1>5, <1>6, <1>7, <1>8, <1>9, <1>10, KeepsInACall

LEMMA BodyAnswerKeeps ==
  ASSUME DbInv, NEW t \in Tasks, BodyAnswer(t)
  PROVE  DbInv'
<1> DEFINE ref == task[t].inner
<1>1. /\ Shape /\ LentIsHeld /\ task \in [Tasks -> TaskStates] /\ task[t] \in TaskStates
      /\ TaskOK(task[t])
      /\ \A q \in 1..Len(pools) : pools[q].lent \in Nat /\ q \in Nat
  BY TypesInACall
<1>2. /\ task[t].at = "bodyQuery" /\ incidents' = incidents /\ GiveBack(ref)
      /\ UNCHANGED <<config, attr, connector, connectors, conns>>
  BY DEF BodyAnswer
<1>3. PoolRef(ref) \/ SingleRef(ref)
  BY <1>1, <1>2 DEF TaskOK
<1>4. PICK x : /\ task' = [task EXCEPT ![t] = x] /\ InBlock(x, task[t])
               /\ x.inner = None /\ x.at = "body"
               /\ x.ran = (IF ref = Single(task[t].conn) THEN "own" ELSE "other")
  <2> DEFINE x == [task[t] EXCEPT !.at = "body", !.inner = None,
                     !.ran = IF task[t].inner = Single(task[t].conn) THEN "own" ELSE "other"]
  <2>1. task' = [task EXCEPT ![t] = x]
    BY <1>1 DEF BodyAnswer
  <2>2. /\ InBlock(x, task[t]) /\ x.inner = None /\ x.at = "body"
        /\ x.ran = (IF ref = Single(task[t].conn) THEN "own" ELSE "other")
    BY <1>1, RefKinds DEF TaskStates, InBlock
  <2> HIDE DEF x
  <2>3. QED
    BY <2>1, <2>2
<1>5. task' \in [Tasks -> TaskStates] /\ \A u \in Tasks : u # t => task'[u] = task[u]
  BY <1>1, <1>4 DEF InBlock
<1>6. \A q : Inner(task[t], q) = IF ref = Pool(q) THEN 1 ELSE 0
  BY <1>2 DEF Inner
<1>7. PoolRef(ref) => Outer(task[t], ref.n) + Inner(task[t], ref.n) >= 1
  <2>1. PoolRef(ref) => ref.n \in 1..Len(pools) /\ ref = Pool(ref.n)
    BY <1>1, RefKinds DEF PoolRef
  <2>2. \A q : Outer(task[t], q) \in {0, 1}
    BY DEF Outer
  <2>3. QED
    BY <1>6, <2>1, <2>2
<1>8. /\ pools' \in Seq(PoolStates) /\ Len(pools') = Len(pools) /\ SameStates
      /\ \A q \in 1..Len(pools) :
           pools'[q].lent = IF ref = Pool(q) THEN pools[q].lent - 1 ELSE pools[q].lent
  BY <1>1, <1>2, <1>3, <1>5, <1>7, PoolsTakeBack
<1>9. Grows
  <2>1. Len(pools) <= Len(pools')
    BY <1>1, <1>8, Lengths
  <2>2. QED
    BY <1>1, <1>2, <1>8, <2>1, GrowthOf DEF Grows, PoolsGrow
<1>10. /\ TaskOK(x)'
       /\ \A q : Outer(x, q) = Outer(task[t], q) /\ Outer(x, q) \in {0, 1}
       /\ task[t].at \notin Alone /\ x.at \notin Alone
       /\ Undisturbed' => attr.is # "none" /\ \A u \in Tasks : task[u].at \notin Alone
  <2>1. task[t].at \in Body /\ x.at \in Body
    BY <1>2, <1>4 DEF Body
  <2>2. QED
    BY <1>2, <1>4, <1>9, <2>1, InBlockIsOK
<1>11. Moved(t, x)
  BY <1>4, <1>10 DEF Moved
<1>12. \A q \in 1..Len(pools) :
         pools'[q].lent + Outer(task[t], q) + Inner(task[t], q)
           = pools[q].lent + Outer(x, q) + Inner(x, q)
  <2> TAKE q \in 1..Len(pools)
  <2>1. Inner(x, q) = 0 /\ pools[q].lent \in Nat
    BY <1>1, <1>4 DEF Inner
  <2>2. CASE ref = Pool(q)
    BY <1>6, <1>8, <1>10, <2>1, <2>2
  <2>3. CASE ref # Pool(q)
    BY <1>6, <1>8, <1>10, <2>1, <2>3
  <2>4. QED
    BY <2>2, <2>3
<1>13. Undisturbed' /\ "overlap" \notin incidents' => (Cloud => OwnOnly(x))
  BY <1>2, <1>4, OutsideABlock DEF OwnOnly
<1>14. /\ x.saved = task[t].saved /\ x.conn = task[t].conn /\ x.at \in Body /\ task[t].at \in Body
       /\ x.at # "bodyAcquire" /\ x.at # "bodyQuery"
  BY <1>2, <1>4 DEF InBlock, Body
<1>15. QED
  BY <1>2, <1>8, <1>9, <1>10, <1>11, <1>12, <1>13, <1>14, KeepsInACall

------------------------------------------------------------------------------
(* Opening.                                                                *)

\* One task moves, and no pool lends more or less.
LEMMA NothingLent ==
  ASSUME Shape, Grows, Shape', LentIsHeld, NEW t \in Tasks, NEW x, task'[t] = x,
         \A u \in Tasks : u # t => task'[u] = task[u],
         Len(pools') = Len(pools),
         \A p \in 1..Len(pools) : pools'[p].lent = pools[p].lent,
         \A p \in 1..Len(pools) :
           /\ Outer(task[t], p) = Outer(x, p)
           /\ Inner(task[t], p) = 0 /\ Inner(x, p) = 0
  PROVE  LentIsHeld'
<1>1. ASSUME NEW p \in 1..Len(pools)
      PROVE  pools'[p].lent + Outer(task[t], p) + Inner(task[t], p)
               = pools[p].lent + Outer(task'[t], p) + Inner(task'[t], p)
  BY <1>1
<1>2. QED
  BY <1>1, LentMoves

\* A client without a pool, and one task on its way to change that.
LEMMA OpenerIsAlone ==
  ASSUME attr'.is = "none", NEW t \in Tasks,
         Undisturbed' =>
           /\ task'[t].at \in {"idle", "create"}
              \/ (task'[t].at = "disconnecting" /\ task'[t].ref.n = connector')
           /\ \A u \in Tasks : u # t => task'[u].at = "idle"
  PROVE  OpeningsAreAlone'
<1> SUFFICES ASSUME Undisturbed'
             PROVE  OpeningsAreAlone'
  BY DEF OpeningsAreAlone
<1>1. \A u \in Tasks : task'[u].at \in {"idle", "create", "disconnecting"}
  OBVIOUS
<1>2. \A u, v \in Tasks : task'[u].at \in Alone /\ u # v => task'[v].at = "idle"
  BY DEF Alone
<1>3. \A u \in Tasks : task'[u].at = "disconnecting" => task'[u].ref.n = connector'
  OBVIOUS
<1>4. \A u \in Tasks : task'[u].at # "draining" /\ task'[u].at \notin Body
  BY <1>1 DEF Body
<1>5. QED
  BY <1>1, <1>2, <1>3, <1>4 DEF OpeningsAreAlone, Alone, Body

\* Outside the blocks, what is known of the pools stays known.
LEMMA PoolStaysKnown ==
  ASSUME PoolIsKnown, NEW t \in Tasks, NEW x, task'[t] = x,
         \A u \in Tasks : u # t => task'[u] = task[u],
         attr' = attr, Cloud' = Cloud, incidents \subseteq incidents',
         Len(pools') = Len(pools),
         \A p \in 1..Len(pools) : pools'[p].state = "live" => pools[p].state = "live",
         task[t].at \notin Body, x.at \notin Body, x.ran # "other"
  PROVE  PoolIsKnown'
<1> SUFFICES ASSUME Undisturbed', "overlap" \notin incidents'
             PROVE  PoolIsKnown'
  BY DEF PoolIsKnown
<1>1. Undisturbed /\ "overlap" \notin incidents
  BY DEF Undisturbed
<1>2. ASSUME NEW p \in 1..Len(pools'), pools'[p].state = "live"
      PROVE  \/ attr' = Pool(p)
             \/ attr'.is = "single" /\ \E u \in Tasks : task'[u].at \in Body /\ task'[u].saved = Pool(p)
  <2>1. \/ attr = Pool(p)
        \/ attr.is = "single" /\ \E u \in Tasks : task[u].at \in Body /\ task[u].saved = Pool(p)
    BY <1>1, <1>2 DEF PoolIsKnown
  <2>2. QED
    BY <2>1
<1>3. \A u \in Tasks : task'[u].at \in Body => task[u].at \in Body /\ u # t
  OBVIOUS
<1>4. ASSUME NEW u \in Tasks
      PROVE  /\ Cloud' /\ task'[u].at \in Body =>
                  /\ attr' = Single(task'[u].conn)
                  /\ task'[u].saved.is = "pool"
                  /\ \A v \in Tasks : task'[v].at \in Body => v = u
             /\ Cloud' => OwnOnly(task'[u])
  <2>1. CASE u = t
    BY <2>1 DEF Body, OwnOnly
  <2>2. CASE u # t
    BY <1>1, <1>3, <2>2 DEF PoolIsKnown
  <2>3. QED
    BY <2>1, <2>2
<1>5. \A p : Pool(p)' = Pool(p) /\ Single(p)' = Single(p)
  BY DEF Pool, Single
<1>6. QED
  BY <1>2, <1>4, <1>5 DEF PoolIsKnown, Body, Pool, Single

LEMMA PositionsArePositive == \A n \in Nat : \A i \in 1..n : i # 0
OBVIOUS

LEMMA CallOpensKeeps ==
  ASSUME DbInv, NEW t \in Tasks, NEW does \in {"statement", "transaction"}, CallOpens(t, does)
  PROVE  DbInv'
<1>1. /\ Shape /\ LentIsHeld /\ task \in [Tasks -> TaskStates] /\ Len(connectors) \in Nat
      /\ connectors \in Seq({"live", "closed"}) /\ connector \in 0..Len(connectors)
  BY TypesInACall, SomeTypes
<1>2. /\ task[t] = Idle /\ attr = None
      /\ connectors' = (IF Cloud THEN Append(connectors, "live") ELSE connectors)
      /\ connector' = (IF Cloud THEN Len(connectors) + 1 ELSE connector)
      /\ incidents' = incidents \cup Race("open race", At("create") # {})
                                \cup Race("close race", Closers # {})
      /\ UNCHANGED <<config, attr, pools, conns>>
  BY DEF CallOpens
<1>3. PICK x : /\ task' = [task EXCEPT ![t] = x] /\ x \in TaskStates
               /\ x.at = "create" /\ x.ref = None /\ x.inner = None /\ x.saved = None
               /\ x.conn = 0 /\ x.ran = "none"
  <2> DEFINE y == [Idle EXCEPT !.at = "create", !.does = does]
  <2>1. PICK x : x = y
    OBVIOUS
  <2>2. task' = [task EXCEPT ![t] = x]
    BY <2>1 DEF CallOpens
  <2>3. x = [at |-> "create", does |-> does, ref |-> None, inner |-> None, conn |-> 0,
             saved |-> None, ran |-> "none"]
    BY <2>1 DEF Idle
  <2>4. None \in Refs
    BY RefKinds
  <2>5. x \in TaskStates
    BY <2>3, <2>4 DEF TaskStates
  <2>6. /\ x.at = "create" /\ x.ref = None /\ x.inner = None /\ x.saved = None
        /\ x.conn = 0 /\ x.ran = "none"
    BY <2>3
  <2> HIDE DEF y
  <2>7. QED
    BY <2>2, <2>5, <2>6
<1>4. /\ connectors' \in Seq({"live", "closed"}) /\ Len(connectors') \in Nat
      /\ Len(connectors) <= Len(connectors')
      /\ connector' \in 0..Len(connectors')
      /\ \A c \in 1..Len(connectors') :
           \/ c \in 1..Len(connectors) /\ connectors'[c] = connectors[c]
           \/ c = connector'
      /\ connector' # connector => Cloud
  <2>1. CASE Cloud
    <3>1. /\ connectors' = Append(connectors, "live") /\ connector' = Len(connectors) + 1
          /\ "live" \in {"live", "closed"}
      BY <1>2, <2>1
    <3>2. /\ connectors' \in Seq({"live", "closed"}) /\ Len(connectors') = Len(connectors) + 1
          /\ \A c \in 1..Len(connectors) : connectors'[c] = connectors[c]
      BY <1>1, <3>1, AppendProperties
    <3>3. QED
      BY <1>1, <2>1, <3>1, <3>2
  <2>2. CASE ~Cloud
    <3>1. connectors' = connectors /\ connector' = connector
      BY <1>2, <2>2
    <3>2. QED
      BY <1>1, <3>1
  <2>3. QED
    BY <2>1, <2>2
<1>5. incidents \subseteq incidents' /\ IncidentsGrow
  BY <1>1, <1>2, IncidentTypes DEF Race, IncidentsGrow
<1>6. Grows
  BY <1>1, <1>2, <1>4, <1>5, GrowthOf DEF Grows, ConnectorsGrow
<1>7. TaskOK(x)'
  <2>1. TaskOK(x)
    BY <1>3 DEF TaskOK, AttrRef, Body
  <2>2. QED
    BY <1>1, <1>6, <2>1, TaskStays
<1>8. AttrRef(attr)'
  BY <1>2 DEF AttrRef, None
<1>9. Shape' /\ task'[t] = x /\ \A u \in Tasks : u # t => task'[u] = task[u]
  BY <1>1, <1>3, <1>4, <1>6, <1>7, <1>8, ShapeKeeps
<1>10. LentIsHeld'
  <2>1. \A p \in 1..Len(pools) :
          /\ Outer(task[t], p) = Outer(x, p)
          /\ Inner(task[t], p) = 0 /\ Inner(x, p) = 0
    BY <1>2, <1>3, IdleHolds DEF Outer, Inner, None, Pool
  <2>2. QED
    BY <1>1, <1>2, <1>6, <1>9, <2>1, NothingLent
<1>11. Undisturbed' => Undisturbed /\ \A u \in Tasks : task[u].at = "idle"
  <2> SUFFICES ASSUME Undisturbed', NEW u \in Tasks
               PROVE  Undisturbed /\ task[u].at = "idle"
    OBVIOUS
  <2>1. Undisturbed /\ At("create") = {} /\ Closers = {}
    BY <1>2 DEF Undisturbed, Race
  <2>2. task[u].at # "create" /\ task[u].at # "disconnecting"
    BY <2>1 DEF At, Closers
  <2>3. task[u].at \in {"idle", "create", "disconnecting"}
    BY <1>2, <2>1 DEF DbInv, OpeningsAreAlone, None
  <2>4. QED
    BY <2>1, <2>2, <2>3
<1>12. attr'.is = "none" /\ attr.is = "none"
  BY <1>2 DEF None
<1>13. OpeningsAreAlone'
  <2>1. Undisturbed' =>
          task'[t].at = "create" /\ \A u \in Tasks : u # t => task'[u].at = "idle"
    BY <1>3, <1>9, <1>11
  <2>2. QED
    BY <1>12, <2>1, OpenerIsAlone
<1>14. ConnectorIsKnown'
  <2> SUFFICES ASSUME Undisturbed', "failed open" \notin incidents'
               PROVE  ConnectorIsKnown'
    BY DEF ConnectorIsKnown
  <2>1. /\ \A c \in 1..Len(connectors) : connectors[c] = "live" => c = connector
        /\ connector = 0
    BY <1>5, <1>11, <1>12 DEF DbInv, ConnectorIsKnown
  <2>2. ASSUME NEW c \in 1..Len(connectors'), connectors'[c] = "live"
        PROVE  c = connector'
    <3>1. CASE c \in 1..Len(connectors) /\ connectors'[c] = connectors[c]
      <4>1. c = connector
        BY <2>1, <2>2, <3>1
      <4>2. 0 \in 1..Len(connectors)
        BY <2>1, <3>1, <4>1
      <4>4. FALSE
        BY <1>1, <4>2, PositionsArePositive
      <4>5. QED
        BY <4>4
    <3>2. QED
      BY <1>4, <3>1
  <2>3. QED
    BY <1>3, <1>9, <2>2 DEF ConnectorIsKnown
<1>15. PoolIsKnown'
  <2>1. Cloud' = Cloud
    BY <1>6 DEF Grows, Cloud
  <2>2. Undisturbed' /\ "overlap" \notin incidents' => Undisturbed /\ "overlap" \notin incidents
    BY <1>5, <1>11
  <2>3. \A u \in Tasks : Undisturbed' => task'[u].at \in {"idle", "create"} /\ task'[u].ran = (IF u = t THEN "none" ELSE task[u].ran)
    BY <1>3, <1>9, <1>11
  <2>4. QED
    BY <1>2, <1>3, <1>5, <1>9, <2>1, <2>2, <2>3, <1>12 DEF DbInv, PoolIsKnown, Body, Pool, Single,
       OwnOnly
<1>16. BoundOnce'
  BY <1>3, <1>5, <1>9, <1>12 DEF DbInv, BoundOnce, Body
<1>17. QED
  BY <1>9, <1>10, <1>13, <1>14, <1>15, <1>16 DEF DbInv

LEMMA CreateFailsKeeps ==
  ASSUME DbInv, NEW t \in Tasks, CreateFails(t)
  PROVE  DbInv'
<1>1. /\ Shape /\ LentIsHeld /\ task[t].at = "create" /\ task[t].inner = None /\ task[t].ref = None
      /\ task \in [Tasks -> TaskStates]
  BY TypesInACall DEF CreateFails, TaskOK
<1>2. /\ task' = [task EXCEPT ![t] = Idle] /\ incidents' = incidents \cup {"failed open"}
      /\ UNCHANGED <<config, attr, connector, pools, connectors, conns>>
  BY DEF CreateFails
<1>3. /\ incidents \subseteq incidents' /\ IncidentsGrow /\ "failed open" \in incidents'
      /\ Undisturbed' => Undisturbed
      /\ "overlap" \notin incidents' => "overlap" \notin incidents
  BY <1>1, <1>2, IncidentTypes DEF IncidentsGrow, Undisturbed
<1>4. Grows
  BY <1>1, <1>2, <1>3, GrowthOf DEF Grows
<1>5. Shape' /\ task'[t] = Idle /\ \A u \in Tasks : u # t => task'[u] = task[u]
  BY <1>1, <1>2, <1>4, IdleIsOK, ClientStays, ShapeKeeps
<1>6. LentIsHeld'
  <2>1. \A p \in 1..Len(pools) :
          /\ Outer(task[t], p) = Outer(Idle, p)
          /\ Inner(task[t], p) = 0 /\ Inner(Idle, p) = 0
    BY <1>1, IdleHolds DEF Outer, Inner, None, Pool
  <2>2. QED
    BY <1>1, <1>2, <1>4, <1>5, <2>1, NothingLent
<1>7. OpeningsAreAlone'
  <2>1. Undisturbed => attr.is = "none" /\ \A u \in Tasks : u # t => task[u].at = "idle"
    BY <1>1 DEF DbInv, OpeningsAreAlone, Alone
  <2>2. CASE Undisturbed'
    <3>1. attr'.is = "none"
      BY <1>2, <1>3, <2>1, <2>2
    <3>2. task'[t].at = "idle" /\ \A u \in Tasks : u # t => task'[u].at = "idle"
      BY <1>3, <1>5, <2>1, <2>2, IdleHolds
    <3>3. QED
      BY <3>1, <3>2, OpenerIsAlone
  <2>3. QED
    BY <2>2 DEF OpeningsAreAlone
<1>8. ConnectorIsKnown'
  BY <1>3 DEF ConnectorIsKnown
<1>9. Cloud' = Cloud
  BY <1>4 DEF Grows, Cloud
<1>10. PoolIsKnown'
  <2>1. task[t].at \notin Body /\ Idle.at \notin Body /\ Idle.ran # "other"
    BY <1>1, IdleHolds DEF Body
  <2>2. PoolIsKnown
    BY DEF DbInv
  <2>3. QED
    BY <1>2, <1>3, <1>5, <1>9, <2>1, <2>2, PoolStaysKnown
<1>11. BoundOnce'
  BY <1>1, <1>2, <1>3, <1>5, IdleHolds DEF DbInv, BoundOnce, Body
<1>12. QED
  BY <1>5, <1>6, <1>7, <1>8, <1>10, <1>11 DEF DbInv

LEMMA CreatedKeeps ==
  ASSUME DbInv, NEW t \in Tasks, Created(t)
  PROVE  DbInv'
<1>1. /\ Shape /\ LentIsHeld /\ task[t].at = "create" /\ task[t].inner = None /\ task[t].ref = None
      /\ task \in [Tasks -> TaskStates] /\ task[t] \in TaskStates
      /\ \A u \in Tasks : TaskOK(task[u])
      /\ Len(pools) \in Nat /\ pools \in Seq(PoolStates) /\ size \in Nat
  BY TypesInACall, SomeTypes DEF Created, TaskOK
<1>0. PICK n \in Nat : n = Len(pools) + 1
  BY <1>1
<1>2. /\ pools' = Append(pools, [state |-> "live", lent |-> 0]) /\ attr' = Pool(Len(pools'))
      /\ UNCHANGED <<config, connector, connectors, conns, incidents>>
  BY DEF Created
<1>3. /\ pools' \in Seq(PoolStates) /\ Len(pools') = n /\ n \in 1..n /\ n \in Nat
      /\ \A p \in 1..Len(pools) : pools'[p] = pools[p]
      /\ pools'[n].lent = 0
  <2>1. [state |-> "live", lent |-> 0] \in PoolStates
    BY <1>1 DEF PoolStates
  <2>2. QED
    BY <1>0, <1>1, <1>2, <2>1, AppendProperties
<1>4. attr' = Pool(n) /\ Pool(n) \in Refs /\ Pool(n).is = "pool" /\ Pool(n).n = n
  BY <1>2, <1>3, RefKinds
<1>5. PICK x : /\ task' = [task EXCEPT ![t] = x] /\ x \in TaskStates
               /\ x.at = "acquire" /\ x.ref = Pool(n) /\ x.inner = None /\ x.saved = None
               /\ x.conn = 0 /\ x.ran = "none"
  <2> DEFINE y == Asked(task[t].does, Pool(n))
  <2>1. task' = [task EXCEPT ![t] = y]
    BY <1>1, <1>4 DEF Created
  <2>2. PICK x : x = y
    OBVIOUS
  <2>3. x = [Idle EXCEPT !.at = "acquire", !.does = task[t].does, !.ref = Pool(n)]
    BY <1>4, <2>2 DEF Asked
  <2>4. x = [at |-> "acquire", does |-> task[t].does, ref |-> Pool(n), inner |-> None, conn |-> 0,
             saved |-> None, ran |-> "none"]
    BY <2>3 DEF Idle
  <2>5. None \in Refs /\ task[t].does \in {"none", "statement", "transaction"}
    BY <1>1, RefKinds DEF TaskStates
  <2>6. x \in TaskStates
    BY <1>4, <2>4, <2>5 DEF TaskStates
  <2>7. /\ x.at = "acquire" /\ x.ref = Pool(n) /\ x.inner = None /\ x.saved = None
        /\ x.conn = 0 /\ x.ran = "none"
    BY <2>4
  <2> HIDE DEF y
  <2>8. QED
    BY <2>1, <2>2, <2>6, <2>7
<1>6. Grows
  <2>1. Len(pools) <= Len(pools')
    BY <1>0, <1>1, <1>3
  <2>2. QED
    BY <1>1, <1>2, <1>3, <2>1, GrowthOf DEF Grows, PoolsGrow
<1>7. PICK r : r = Pool(n)
  OBVIOUS
<1>8. PoolRef(r)' /\ AttrRef(attr)'
  <2>1. PoolRef(r)'
    BY <1>3, <1>4, <1>7 DEF PoolRef, Refs
  <2>2. attr' = r
    BY <1>4, <1>7
  <2>3. PoolRef(attr)'
    BY <2>1, <2>2 DEF PoolRef
  <2>4. QED
    BY <2>1, <2>3 DEF AttrRef
<1>9. TaskOK(x)'
  <2>1. PoolRef(x.ref)' /\ x.ref # None /\ AttrRef(x.saved)'
    BY <1>4, <1>5, <1>7, <1>8 DEF AttrRef, None
  <2>2. x \in TaskStates'
    BY <1>5 DEF TaskStates, Refs
  <2>3. QED
    BY <1>5, <2>1, <2>2 DEF TaskOK, Body, None
<1>10. Shape' /\ task'[t] = x /\ \A u \in Tasks : u # t => task'[u] = task[u]
  <2>1. connector' \in 0..Len(connectors')
    BY <1>1, <1>2, SomeTypes
  <2>2. QED
    BY <1>1, <1>5, <1>6, <1>8, <1>9, <2>1, ShapeKeeps
<1>11. task' \in [Tasks -> TaskStates]
  BY <1>1, <1>5
<1>12. LentIsHeld'
  <2>1. ASSUME NEW p \in 1..Len(pools)
        PROVE  pools'[p].lent = Held(p)'
    <3>1. p \in Nat /\ DOMAIN pools = 1..Len(pools)
      BY <1>1, Lengths, ElementTypes
    <3>2. Outer(task[t], p) = 0 /\ Inner(task[t], p) = 0 /\ Outer(x, p) = 0 /\ Inner(x, p) = 0
      BY <1>1, <1>5 DEF Outer, Inner, None, Pool
    <3>3. Held(p) \in Nat /\ Held(p)' \in Nat /\ Held(p)' = Held(p)
      <4>1. /\ Held(p) \in Nat /\ Held(p)' \in Nat
            /\ Held(p)' + Outer(task[t], p) + Inner(task[t], p)
                 = Held(p) + Outer(task'[t], p) + Inner(task'[t], p)
        BY <1>1, <1>10, <1>11, <3>1, HeldChanges
      <4> HIDE DEF Held
      <4>2. QED
        BY <1>10, <3>2, <4>1
    <3>4. pools[p].lent = Held(p)
      BY <1>1, <3>1 DEF LentIsHeld, Held
    <3>5. QED
      BY <1>3, <3>3, <3>4
  <2>2. Held(n) = 0
    <3>1. ASSUME NEW u \in Tasks
          PROVE  u \notin Borrowers(n) /\ u \notin InnerBorrowers(n)
      <4>1. task[u] \in TaskStates /\ TaskOK(task[u]) /\ task[u].ref \in Refs
        BY <1>1 DEF TaskStates
      <4>2. n \notin 1..Len(pools)
        BY <1>0, <1>1
      <4>3. ~PoolRef(Pool(n))
        BY <1>4, <4>2 DEF PoolRef
      <4>4. ~SingleRef(Pool(n)) /\ Pool(n) # None
        BY <1>4 DEF SingleRef, None
      <4>5. /\ task[u].ref = Pool(n) => task[u].at \in {"acquire", "draining"}
            /\ task[u].at = "bodyQuery" => task[u].inner # Pool(n)
        BY <1>4, <4>1, <4>3, <4>4, IdleHolds DEF TaskOK, Body, TaskStates
      <4>6. QED
        BY <4>5 DEF Borrowers, InnerBorrowers
    <3>2. Borrowers(n) = {} /\ InnerBorrowers(n) = {}
      BY <3>1 DEF Borrowers, InnerBorrowers
    <3>3. Cardinality({}) = 0
      BY FS_EmptySet
    <3>4. QED
      BY <3>2, <3>3 DEF Held
  <2>3. pools'[n].lent = Held(n)'
    <3>1. Outer(task[t], n) = 0 /\ Inner(task[t], n) = 0 /\ Outer(x, n) = 0 /\ Inner(x, n) = 0
      BY <1>1, <1>5 DEF Outer, Inner, None, Pool
    <3>2. /\ Held(n)' \in Nat
          /\ Held(n)' + Outer(task[t], n) + Inner(task[t], n)
               = Held(n) + Outer(task'[t], n) + Inner(task'[t], n)
      BY <1>1, <1>10, <1>11, HeldChanges
    <3> HIDE DEF Held
    <3>3. Held(n)' = 0
      BY <1>10, <2>2, <3>1, <3>2
    <3>4. QED
      BY <1>3, <3>3
  <2>4. DOMAIN pools' = 1..n
    BY <1>3, LenProperties
  <2>5. ASSUME NEW p \in 1..n
        PROVE  pools'[p].lent = Held(p)'
    <3>1. p = n \/ p \in 1..Len(pools)
      BY <1>0, <1>1
    <3> HIDE DEF Held
    <3>2. QED
      BY <2>1, <2>3, <3>1
  <2>6. QED
    BY <2>4, <2>5 DEF LentIsHeld, Held
<1>13. /\ Cloud' = Cloud
       /\ Undisturbed' => Undisturbed
       /\ Undisturbed => attr.is = "none" /\ \A u \in Tasks : u # t => task[u].at = "idle"
  BY <1>1, <1>2 DEF DbInv, OpeningsAreAlone, Alone, Undisturbed, Cloud, config
<1>14. Undisturbed' => \A u \in Tasks : task'[u].at \in {"idle", "acquire"}
  BY <1>5, <1>10, <1>13
<1>15. OpeningsAreAlone'
  BY <1>4, <1>14 DEF OpeningsAreAlone, Alone, Body
<1>16. ConnectorIsKnown'
  BY <1>2, <1>4, <1>13 DEF DbInv, ConnectorIsKnown
<1>17. PoolIsKnown'
  <2> SUFFICES ASSUME Undisturbed', "overlap" \notin incidents'
               PROVE  PoolIsKnown'
    BY DEF PoolIsKnown
  <2>1. PoolIsKnown /\ Undisturbed /\ "overlap" \notin incidents
    BY <1>2, <1>13 DEF DbInv
  <2>2. ASSUME NEW p \in 1..Len(pools'), pools'[p].state = "live"
        PROVE  attr' = Pool(p)
    <3>1. CASE p = n
      BY <1>4, <3>1
    <3>2. CASE p # n
      <4>1. p \in 1..Len(pools) /\ pools[p].state = "live"
        BY <1>0, <1>1, <1>3, <2>2, <3>2
      <4>2. attr = Pool(p) \/ attr.is = "single"
        BY <2>1, <4>1 DEF PoolIsKnown
      <4>3. QED
        BY <1>13, <2>1, <4>2 DEF Pool
    <3>3. QED
      BY <3>1, <3>2
  <2>3. ASSUME NEW u \in Tasks
        PROVE  task'[u].at \notin Body /\ (Cloud' => OwnOnly(task'[u]))
    <3>1. Cloud => task[u].ran # "other"
      BY <2>1 DEF PoolIsKnown, OwnOnly
    <3>2. QED
      BY <1>2, <1>5, <1>10, <1>14, <3>1 DEF Body, OwnOnly, Cloud, config
  <2>4. QED
    BY <2>2, <2>3 DEF PoolIsKnown, Body, Pool, Single
<1>18. BoundOnce'
  <2>1. BoundOnce /\ incidents' = incidents /\ task'[t].at \notin Body /\ attr'.is # "single"
    BY <1>2, <1>4, <1>5, <1>10 DEF DbInv, Body
  <2>2. QED
    BY <1>10, <2>1 DEF BoundOnce, Body
<1>19. QED
  BY <1>10, <1>12, <1>15, <1>16, <1>17, <1>18 DEF DbInv

------------------------------------------------------------------------------
(* Binding.                                                                *)

LEMMA BindKeeps ==
  ASSUME DbInv, NEW t \in Tasks, Bind(t)
  PROVE  DbInv'
<1>1. /\ Shape /\ LentIsHeld /\ task \in [Tasks -> TaskStates] /\ task[t] \in TaskStates
      /\ TaskOK(task[t]) /\ AttrRef(attr) /\ attr \in Refs
  BY TypesInACall, SomeTypes
<1>2. /\ task[t].at = "begin" /\ task[t].inner = None /\ task[t].conn \in 1..Len(conns)
      /\ attr' = (IF Cloud THEN Single(task[t].conn) ELSE attr)
      /\ incidents' = incidents \cup Race("overlap", attr.is = "single")
      /\ UNCHANGED <<config, connector, pools, connectors, conns>>
  BY <1>1 DEF Bind, TaskOK
<1>3. PICK c \in Nat : c = task[t].conn
  BY <1>1 DEF TaskStates
<1>4. Single(c) \in Refs /\ Single(c).is = "single" /\ Single(c).n = c
  BY RefKinds
<1>5. PICK x : /\ task' = [task EXCEPT ![t] = x] /\ x \in TaskStates
               /\ x.at = "body" /\ x.ref = task[t].ref /\ x.inner = None /\ x.saved = attr
               /\ x.conn = c /\ x.ran = task[t].ran
  <2> DEFINE x == [task[t] EXCEPT !.at = "body", !.saved = attr]
  <2>1. task' = [task EXCEPT ![t] = x]
    BY <1>1 DEF Bind
  <2>2. /\ x \in TaskStates /\ x.at = "body" /\ x.ref = task[t].ref /\ x.inner = None
        /\ x.saved = attr /\ x.conn = c /\ x.ran = task[t].ran
    BY <1>1, <1>2, <1>3 DEF TaskStates
  <2> HIDE DEF x
  <2>3. QED
    BY <2>1, <2>2
<1>6. /\ incidents \subseteq incidents' /\ IncidentsGrow
      /\ Undisturbed' => Undisturbed
      /\ "overlap" \notin incidents' => "overlap" \notin incidents /\ attr.is # "single"
  BY <1>1, <1>2, IncidentTypes DEF Race, IncidentsGrow, Undisturbed
<1>7. Grows /\ Cloud' = Cloud
  BY <1>1, <1>2, <1>6, GrowthOf DEF Grows, Cloud
<1>8. TaskOK(x)
  <2>1. PoolRef(x.ref) \/ SingleRef(x.ref)
    BY <1>1, <1>2, <1>5 DEF TaskOK
  <2>2. x.conn \in 1..Len(conns) /\ AttrRef(x.saved)
    BY <1>1, <1>2, <1>3, <1>5
  <2>3. QED
    BY <1>5, <2>1, <2>2 DEF TaskOK, Body
<1>9. TaskOK(x)'
  BY <1>1, <1>7, <1>8, TaskStays
<1>10. AttrRef(attr)' /\ connector' \in 0..Len(connectors')
  <2>1. PICK r : r = attr'
    OBVIOUS
  <2>2. AttrRef(r)
    <3>1. CASE Cloud
      <4>1. r = Single(c)
        BY <1>2, <1>3, <2>1, <3>1
      <4>2. SingleRef(r)
        BY <1>2, <1>3, <1>4, <4>1 DEF SingleRef
      <4>3. QED
        BY <3>1, <4>2 DEF AttrRef
    <3>2. CASE ~Cloud
      BY <1>1, <1>2, <2>1, <3>2
    <3>3. QED
      BY <3>1, <3>2
  <2>3. AttrRef(r)'
    BY <1>1, <1>7, <2>2, RefsStay
  <2>4. AttrRef(attr)'
    BY <2>1, <2>3 DEF AttrRef, PoolRef, SingleRef
  <2>5. QED
    BY <1>1, <1>2, <2>4, SomeTypes
<1>11. Shape' /\ task'[t] = x /\ \A u \in Tasks : u # t => task'[u] = task[u]
  BY <1>1, <1>5, <1>7, <1>9, <1>10, ShapeKeeps
<1>12. LentIsHeld'
  <2>1. \A p \in 1..Len(pools) :
          /\ Outer(task[t], p) = Outer(x, p)
          /\ Inner(task[t], p) = 0 /\ Inner(x, p) = 0
    BY <1>2, <1>5 DEF Outer, Inner
  <2>2. QED
    BY <1>1, <1>2, <1>7, <1>11, <2>1, NothingLent
<1>13. Undisturbed =>
         /\ attr.is # "none" /\ \A u \in Tasks : task[u].at \notin Alone
         /\ \A u \in Tasks : task[u].at \in Body => task[u].saved.is # "none"
  BY <1>2 DEF DbInv, OpeningsAreAlone, Alone
<1>14. Undisturbed' => attr'.is # "none" /\ \A u \in Tasks : task'[u].at \notin Alone
  <2>1. Undisturbed' => attr'.is # "none"
    BY <1>2, <1>3, <1>4, <1>6, <1>13
  <2>2. x.at \notin Alone
    BY <1>5 DEF Alone
  <2>3. QED
    BY <1>6, <1>11, <1>13, <2>1, <2>2
<1>15. OpeningsAreAlone'
  <2>1. Undisturbed' => \A u \in Tasks : task'[u].at \in Body => task'[u].saved.is # "none"
    BY <1>5, <1>6, <1>11, <1>13
  <2>2. QED
    BY <1>14, <2>1 DEF OpeningsAreAlone, Alone, Body
<1>16. ConnectorIsKnown'
  BY <1>2, <1>6, <1>14 DEF DbInv, ConnectorIsKnown
<1>17. PoolIsKnown'
  <2> SUFFICES ASSUME Undisturbed', "overlap" \notin incidents'
               PROVE  PoolIsKnown'
    BY DEF PoolIsKnown
  <2>1. PoolIsKnown /\ Undisturbed /\ "overlap" \notin incidents /\ attr.is # "single"
    BY <1>6 DEF DbInv
  <2>2. PoolRef(attr) /\ attr.is = "pool"
    BY <1>1, <1>13, <2>1 DEF AttrRef, PoolRef, SingleRef, None
  <2>3. \A u \in Tasks : Cloud => task[u].at \notin Body
    <3>1. \A u \in Tasks : Cloud /\ task[u].at \in Body => attr = Single(task[u].conn)
      BY <2>1 DEF PoolIsKnown
    <3>2. \A m : Single(m).is = "single"
      BY DEF Single
    <3>3. QED
      BY <2>1, <3>1, <3>2
  <2>4. ASSUME NEW p \in 1..Len(pools'), pools'[p].state = "live"
        PROVE  \/ attr' = Pool(p)
               \/ attr'.is = "single" /\ \E u \in Tasks : task'[u].at \in Body /\ task'[u].saved = Pool(p)
    <3>1. attr = Pool(p)
      BY <1>2, <2>1, <2>4 DEF PoolIsKnown
    <3>2. task'[t].at \in Body /\ task'[t].saved = Pool(p)
      BY <1>5, <1>11, <3>1 DEF Body
    <3>3. QED
      BY <1>2, <1>3, <1>4, <3>1, <3>2
  <2>5. ASSUME NEW u \in Tasks
        PROVE  /\ Cloud' /\ task'[u].at \in Body =>
                    /\ attr' = Single(task'[u].conn)
                    /\ task'[u].saved.is = "pool"
                    /\ \A v \in Tasks : task'[v].at \in Body => v = u
               /\ Cloud' => OwnOnly(task'[u])
    <3>1. /\ Cloud => OwnOnly(task[u])
      BY <2>1 DEF PoolIsKnown
    <3>2. Cloud => \A v \in Tasks : task'[v].at \in Body => v = t
      BY <1>11, <2>3
    <3>3. CASE u = t
      BY <1>2, <1>3, <1>5, <1>7, <1>11, <2>2, <3>1, <3>2, <3>3 DEF OwnOnly
    <3>4. CASE u # t
      BY <1>7, <1>11, <3>1, <3>2, <3>4
    <3>5. QED
      BY <3>3, <3>4
  <2>6. QED
    BY <2>4, <2>5 DEF PoolIsKnown, Body, Pool, Single
<1>18. BoundOnce'
  <2> SUFFICES ASSUME "overlap" \notin incidents'
               PROVE  BoundOnce'
    BY DEF BoundOnce
  <2>1. BoundOnce /\ "overlap" \notin incidents /\ attr.is # "single"
    BY <1>6 DEF DbInv
  <2>2. \A u \in Tasks : task'[u].at \in Body => task'[u].saved.is # "single"
    BY <1>5, <1>11, <2>1 DEF BoundOnce
  <2>3. attr'.is = "single" => task'[t].conn = attr'.n /\ task'[t].at \in Body
    BY <1>2, <1>3, <1>4, <1>5, <1>11, <2>1 DEF Body
  <2>4. QED
    BY <2>2, <2>3 DEF BoundOnce, Body
<1>19. QED
  BY <1>11, <1>12, <1>15, <1>16, <1>17, <1>18 DEF DbInv

LEMMA LeaveKeeps ==
  ASSUME DbInv, NEW t \in Tasks, Leave(t)
  PROVE  DbInv'
<1>1. /\ Shape /\ LentIsHeld /\ task \in [Tasks -> TaskStates] /\ task[t] \in TaskStates
      /\ TaskOK(task[t]) /\ AttrRef(attr) /\ AttrRef(task[t].saved)
  BY TypesInACall
<1>2. /\ task[t].at = "body" /\ task[t].inner = None /\ task[t].at \in Body
      /\ attr' = (IF Cloud THEN task[t].saved ELSE attr)
      /\ UNCHANGED <<config, connector, pools, connectors, conns, incidents>>
  BY <1>1 DEF Leave, TaskOK, Body
<1>3. PICK x : /\ task' = [task EXCEPT ![t] = x] /\ x \in TaskStates
               /\ x.at = "end" /\ x.ref = task[t].ref /\ x.inner = None /\ x.saved = task[t].saved
               /\ x.conn = task[t].conn /\ x.ran = task[t].ran
  <2> DEFINE x == [task[t] EXCEPT !.at = "end"]
  <2>1. task' = [task EXCEPT ![t] = x]
    BY <1>1 DEF Leave
  <2>2. /\ x \in TaskStates /\ x.at = "end" /\ x.ref = task[t].ref /\ x.inner = None
        /\ x.saved = task[t].saved /\ x.conn = task[t].conn /\ x.ran = task[t].ran
    BY <1>1, <1>2 DEF TaskStates
  <2> HIDE DEF x
  <2>3. QED
    BY <2>1, <2>2
<1>4. Undisturbed' => Undisturbed
  BY <1>2 DEF Undisturbed
<1>5. Grows /\ Cloud' = Cloud
  BY <1>1, <1>2, GrowthOf DEF Grows, Cloud
<1>6. TaskOK(x)'
  <2>1. TaskOK(x)
    BY <1>1, <1>2, <1>3 DEF TaskOK, Body
  <2>2. QED
    BY <1>1, <1>5, <2>1, TaskStays
<1>7. AttrRef(attr)' /\ connector' \in 0..Len(connectors')
  <2>1. PICK r : r = attr'
    OBVIOUS
  <2>2. AttrRef(r)
    BY <1>1, <1>2, <2>1
  <2>3. AttrRef(r)'
    BY <1>1, <1>5, <2>2, RefsStay
  <2>4. AttrRef(attr)'
    BY <2>1, <2>3 DEF AttrRef, PoolRef, SingleRef
  <2>5. QED
    BY <1>1, <1>2, <2>4, SomeTypes
<1>8. Shape' /\ task'[t] = x /\ \A u \in Tasks : u # t => task'[u] = task[u]
  BY <1>1, <1>3, <1>5, <1>6, <1>7, ShapeKeeps
<1>9. LentIsHeld'
  <2>1. \A p \in 1..Len(pools) :
          /\ Outer(task[t], p) = Outer(x, p)
          /\ Inner(task[t], p) = 0 /\ Inner(x, p) = 0
    BY <1>2, <1>3 DEF Outer, Inner
  <2>2. QED
    BY <1>1, <1>2, <1>5, <1>8, <2>1, NothingLent
<1>10. Undisturbed =>
         /\ attr.is # "none" /\ \A u \in Tasks : task[u].at \notin Alone
         /\ \A u \in Tasks : task[u].at \in Body => task[u].saved.is # "none"
  BY <1>2 DEF DbInv, OpeningsAreAlone, Alone
<1>11. x.at \notin Alone \cup Body
  BY <1>3 DEF Alone, Body
<1>12. Undisturbed' =>
         /\ attr'.is # "none" /\ \A u \in Tasks : task'[u].at \notin Alone
         /\ \A u \in Tasks : task'[u].at \in Body => task'[u].saved.is # "none"
  BY <1>2, <1>4, <1>8, <1>10, <1>11
<1>13. OpeningsAreAlone'
  BY <1>12 DEF OpeningsAreAlone, Alone, Body
<1>14. ConnectorIsKnown'
  BY <1>2, <1>4, <1>12 DEF DbInv, ConnectorIsKnown
<1>15. PoolIsKnown'
  <2> SUFFICES ASSUME Undisturbed', "overlap" \notin incidents'
               PROVE  PoolIsKnown'
    BY DEF PoolIsKnown
  <2>1. PoolIsKnown /\ Undisturbed /\ "overlap" \notin incidents
    BY <1>2, <1>4 DEF DbInv
  <2>2. ~Cloud => attr.is # "single"
    BY <1>1 DEF AttrRef, PoolRef, None
  <2>3. \A u \in Tasks : Cloud /\ task[u].at \in Body => u = t
    BY <1>2, <2>1 DEF PoolIsKnown
  <2>4. Cloud => attr.is = "single"
    <3>1. Cloud => attr = Single(task[t].conn)
      BY <1>2, <2>1 DEF PoolIsKnown
    <3>2. QED
      BY <3>1 DEF Single
  <2>5. ASSUME NEW p \in 1..Len(pools'), pools'[p].state = "live"
        PROVE  attr' = Pool(p)
    <3>1. \/ attr = Pool(p)
          \/ attr.is = "single" /\ \E u \in Tasks : task[u].at \in Body /\ task[u].saved = Pool(p)
      BY <1>2, <2>1, <2>5 DEF PoolIsKnown
    <3>2. CASE Cloud
      <4>1. attr # Pool(p)
        BY <2>4, <3>2 DEF Pool
      <4>2. QED
        BY <1>2, <2>3, <3>1, <3>2, <4>1
    <3>3. CASE ~Cloud
      BY <1>2, <2>2, <3>1, <3>3
    <3>4. QED
      BY <3>2, <3>3
  <2>6. ASSUME NEW u \in Tasks
        PROVE  /\ ~(Cloud' /\ task'[u].at \in Body)
               /\ Cloud' => OwnOnly(task'[u])
    <3>1. /\ Cloud => OwnOnly(task[u])
      BY <2>1 DEF PoolIsKnown
    <3>2. QED
      BY <1>3, <1>5, <1>8, <1>11, <2>3, <3>1 DEF OwnOnly
  <2>7. QED
    BY <2>5, <2>6 DEF PoolIsKnown, Body, Pool, Single
<1>16. BoundOnce'
  <2> SUFFICES ASSUME "overlap" \notin incidents'
               PROVE  BoundOnce'
    BY DEF BoundOnce
  <2>1. BoundOnce /\ "overlap" \notin incidents
    BY <1>2 DEF DbInv
  <2>2. \A u \in Tasks : task'[u].at \in Body => task'[u].saved.is # "single"
    BY <1>8, <1>11, <2>1 DEF BoundOnce
  <2>3. attr'.is # "single"
    <3>1. task[t].saved.is # "single"
      BY <1>2, <2>1 DEF BoundOnce
    <3>2. ~Cloud => attr.is # "single"
      BY <1>1 DEF AttrRef, PoolRef, None
    <3>3. QED
      BY <1>2, <3>1, <3>2
  <2>4. QED
    BY <2>2, <2>3 DEF BoundOnce, Body
<1>17. QED
  BY <1>8, <1>9, <1>13, <1>14, <1>15, <1>16 DEF DbInv

------------------------------------------------------------------------------
(* Closing.                                                                *)

\* The task of a close that has done with the pool, if there was one.
LEMMA DisconnectingIs ==
  ASSUME Shape, NEW x, x = IF connector # 0 THEN Disconnecting ELSE Idle
  PROVE  /\ TaskOK(x)
         /\ x.at \in {"idle", "disconnecting"}
         /\ x.at = "disconnecting" <=> connector # 0
         /\ x.at = "disconnecting" => x.ref.n = connector
         /\ x.inner = None /\ x.saved = None /\ x.ran = "none"
         /\ \A p \in Nat : Outer(x, p) = 0 /\ Inner(x, p) = 0
<1>1. connector \in 0..Len(connectors) /\ Len(connectors) \in Nat /\ connector \in Nat
  BY SomeTypes
<1>2. CASE connector = 0
  BY <1>2, IdleHolds, IdleIsOK
<1>3. CASE connector # 0
  <2>1. x = [Idle EXCEPT !.at = "disconnecting", !.ref = Connector(connector)]
    BY <1>3 DEF Disconnecting
  <2>2. x = [at |-> "disconnecting", does |-> "none", ref |-> Connector(connector),
             inner |-> None, conn |-> 0, saved |-> None, ran |-> "none"]
    BY <2>1 DEF Idle
  <2>3. /\ Connector(connector) \in Refs /\ Connector(connector).is = "connector"
        /\ Connector(connector).n = connector /\ None \in Refs
    BY <1>1, RefKinds
  <2>4. x \in TaskStates
    BY <2>2, <2>3 DEF TaskStates
  <2>5. /\ x.at = "disconnecting" /\ x.ref = Connector(connector) /\ x.conn = 0
        /\ x.inner = None /\ x.saved = None /\ x.ran = "none"
    BY <2>2
  <2>6. connector \in 1..Len(connectors)
    BY <1>1, <1>3
  <2>7. TaskOK(x)
    BY <2>3, <2>4, <2>5, <2>6 DEF TaskOK, AttrRef, Body
  <2>8. \A p \in Nat : Outer(x, p) = 0 /\ Inner(x, p) = 0
    BY <2>3, <2>5, RefKinds DEF Outer, Inner
  <2>9. QED
    BY <1>3, <2>3, <2>5, <2>7, <2>8
<1>4. QED
  BY <1>2, <1>3

\* A pool that is closed keeps what it lends.
LEMMA PoolCloses ==
  ASSUME Shape, NEW p \in 1..Len(pools), NEW s \in {"live", "closing", "closed"},
         pools' = [pools EXCEPT ![p].state = s]
  PROVE  /\ PoolsGrow /\ Len(pools') = Len(pools)
         /\ \A q \in 1..Len(pools) :
              /\ pools'[q].lent = pools[q].lent
              /\ pools'[q].state = IF q = p THEN s ELSE pools[q].state
<1>1. pools \in Seq(PoolStates) /\ \A q \in 1..Len(pools) : pools[q] \in PoolStates
  BY SomeTypes, ElementTypes
<1> DEFINE r == [pools[p] EXCEPT !.state = s]
<1>2. r \in PoolStates /\ r.state = s /\ r.lent = pools[p].lent
  <2>1. pools[p] \in PoolStates
    BY <1>1
  <2>2. QED
    BY <2>1, PoolEntry
<1>3. pools' = [pools EXCEPT ![p] = r]
  OBVIOUS
<1> HIDE DEF r
<1>4. /\ pools' \in Seq(PoolStates) /\ Len(pools') = Len(pools)
      /\ \A q \in 1..Len(pools) : pools'[q] = IF q = p THEN r ELSE pools[q]
  BY <1>1, <1>2, <1>3, ExceptSeq
<1>5. Len(pools) <= Len(pools')
  BY <1>4, Lengths
<1>6. QED
  BY <1>2, <1>4, <1>5 DEF PoolsGrow

LEMMA CloseKeeps ==
  ASSUME DbInv, NEW t \in Tasks, Close(t)
  PROVE  DbInv'
<1>1. /\ Shape /\ LentIsHeld /\ task \in [Tasks -> TaskStates]
      /\ AttrRef(attr) /\ attr \in Refs /\ Len(pools) \in Nat
      /\ connector \in 0..Len(connectors)
      /\ \A p \in 1..Len(pools) : p \in Nat
      /\ \A u \in Tasks : TaskOK(task[u])
  BY TypesInACall, SomeTypes
<1>2. /\ task[t] = Idle
      /\ incidents' = incidents \cup Race("close race", \E u \in Tasks : task[u] # Idle)
      /\ UNCHANGED <<config, connector, connectors, conns>>
  BY DEF Close
<1>3. /\ incidents \subseteq incidents' /\ IncidentsGrow
      /\ Undisturbed' => Undisturbed /\ \A u \in Tasks : task[u] = Idle
      /\ Cloud' = Cloud
  BY <1>1, <1>2, IncidentTypes DEF Race, IncidentsGrow, Undisturbed, Cloud, config
<1>4. CASE attr.is = "pool"
  <2> DEFINE p == attr.n
  <2>1. PoolRef(attr) /\ p \in 1..Len(pools)
    BY <1>1, <1>4 DEF AttrRef, PoolRef, SingleRef, None
  <2>2. PICK x : /\ task' = [task EXCEPT ![t] = x] /\ x \in TaskStates
                 /\ x.at = "draining" /\ x.ref = attr /\ x.inner = None /\ x.saved = None
                 /\ x.conn = 0 /\ x.ran = "none"
    <3> DEFINE y == [Idle EXCEPT !.at = "draining", !.ref = attr]
    <3>1. PICK x : x = y
      OBVIOUS
    <3>2. task' = [task EXCEPT ![t] = x]
      BY <1>4, <3>1 DEF Close
    <3>3. x = [at |-> "draining", does |-> "none", ref |-> attr, inner |-> None, conn |-> 0,
               saved |-> None, ran |-> "none"]
      BY <3>1 DEF Idle
    <3>4. None \in Refs
      BY RefKinds
    <3>5. x \in TaskStates
      BY <1>1, <3>3, <3>4 DEF TaskStates
    <3>6. /\ x.at = "draining" /\ x.ref = attr /\ x.inner = None /\ x.saved = None
          /\ x.conn = 0 /\ x.ran = "none"
      BY <3>3
    <3> HIDE DEF y
    <3>7. QED
      BY <3>2, <3>5, <3>6
  <2>3. /\ attr' = attr
        /\ pools' = IF pools[p].state = "live" THEN [pools EXCEPT ![p].state = "closing"] ELSE pools
    BY <1>4 DEF Close
  <2>4. /\ PoolsGrow /\ Len(pools') = Len(pools)
        /\ \A q \in 1..Len(pools) :
             /\ pools'[q].lent = pools[q].lent
             /\ pools'[q].state = "live" => pools[q].state = "live"
        /\ pools'[p].state # "live"
    <3>1. CASE pools[p].state = "live"
      <4>1. pools' = [pools EXCEPT ![p].state = "closing"]
        BY <2>3, <3>1
      <4>2. "closing" \in {"live", "closing", "closed"}
        OBVIOUS
      <4>3. /\ PoolsGrow /\ Len(pools') = Len(pools)
            /\ \A q \in 1..Len(pools) :
                 /\ pools'[q].lent = pools[q].lent
                 /\ pools'[q].state = IF q = p THEN "closing" ELSE pools[q].state
        BY <1>1, <2>1, <4>1, <4>2, PoolCloses
      <4>4. QED
        BY <2>1, <3>1, <4>3
    <3>2. CASE pools[p].state # "live"
      <4>1. pools' = pools
        BY <2>3, <3>2
      <4>2. QED
        BY <1>1, <3>2, <4>1, GrowthOf
    <3>3. QED
      BY <3>1, <3>2
  <2> HIDE DEF p
  <2>5. Grows
    BY <1>1, <1>2, <1>3, <2>4, GrowthOf DEF Grows
  <2>6. TaskOK(x)'
    <3>1. TaskOK(x)
      BY <2>1, <2>2 DEF TaskOK, AttrRef, Body
    <3>2. QED
      BY <1>1, <2>5, <3>1, TaskStays
  <2>7. Shape' /\ task'[t] = x /\ \A u \in Tasks : u # t => task'[u] = task[u]
    BY <1>1, <1>2, <2>2, <2>3, <2>5, <2>6, ClientStays, ShapeKeeps
  <2>8. LentIsHeld'
    <3>1. \A q \in 1..Len(pools) :
            /\ Outer(task[t], q) = Outer(x, q)
            /\ Inner(task[t], q) = 0 /\ Inner(x, q) = 0
      BY <1>2, <2>2, IdleHolds DEF Outer, Inner
    <3>2. QED
      BY <1>1, <2>4, <2>5, <2>7, <3>1, NothingLent
  <2>9. OpeningsAreAlone'
    <3> SUFFICES ASSUME Undisturbed'
                 PROVE  OpeningsAreAlone'
      BY DEF OpeningsAreAlone
    <3>1. attr'.is # "none" /\ attr' = task'[t].ref /\ pools'[attr'.n].state # "live"
      BY <1>4, <2>2, <2>3, <2>4, <2>7 DEF p
    <3>2. task'[t].at = "draining" /\ \A u \in Tasks : u # t => task'[u].at = "idle"
      BY <1>3, <2>2, <2>7, IdleHolds
    <3>3. \A u, v \in Tasks : task'[u].at \in Alone /\ u # v => task'[v].at = "idle"
      BY <3>2 DEF Alone
    <3>4. \A u \in Tasks : /\ task'[u].at \notin {"create", "disconnecting"} \cup Body
                           /\ task'[u].at = "draining" => u = t
      BY <3>2 DEF Body
    <3>5. QED
      BY <3>1, <3>3, <3>4 DEF OpeningsAreAlone, Alone, Body
  <2>10. ConnectorIsKnown'
    BY <1>2, <1>3, <1>4, <2>3 DEF DbInv, ConnectorIsKnown
  <2>11. PoolIsKnown'
    <3>1. task[t].at \notin Body /\ x.at \notin Body /\ x.ran # "other"
      BY <1>2, <2>2, IdleHolds DEF Body
    <3>2. PoolIsKnown
      BY DEF DbInv
    <3>3. QED
      BY <1>3, <2>3, <2>4, <2>7, <3>1, <3>2, PoolStaysKnown
  <2>12. BoundOnce'
    <3>1. BoundOnce /\ x.at \notin Body /\ attr'.is # "single"
      BY <1>4, <2>2, <2>3 DEF DbInv, Body
    <3>2. QED
      BY <1>3, <2>7, <3>1 DEF BoundOnce, Body
  <2>13. QED
    BY <2>7, <2>8, <2>9, <2>10, <2>11, <2>12 DEF DbInv
<1>5. CASE attr.is # "pool"
  <2>1. PICK x : x = IF connector # 0 THEN Disconnecting ELSE Idle
    OBVIOUS
  <2>2. task' = [task EXCEPT ![t] = x] /\ attr' = None /\ pools' = pools
    BY <1>5, <2>1 DEF Close
  <2>3. /\ TaskOK(x)
        /\ x.at \in {"idle", "disconnecting"}
        /\ x.at = "disconnecting" <=> connector # 0
        /\ x.at = "disconnecting" => x.ref.n = connector
        /\ x.inner = None /\ x.saved = None /\ x.ran = "none"
        /\ \A p \in Nat : Outer(x, p) = 0 /\ Inner(x, p) = 0
    BY <1>1, <2>1, DisconnectingIs
  <2>4. Grows
    BY <1>1, <1>2, <1>3, <2>2, GrowthOf DEF Grows
  <2>5. TaskOK(x)' /\ AttrRef(attr)' /\ connector' \in 0..Len(connectors')
    BY <1>1, <1>2, <2>2, <2>3, <2>4, TaskStays DEF AttrRef, None
  <2>6. Shape' /\ task'[t] = x /\ \A u \in Tasks : u # t => task'[u] = task[u]
    BY <1>1, <2>2, <2>4, <2>5, ShapeKeeps
  <2>7. LentIsHeld'
    <3>1. \A q \in 1..Len(pools) :
            /\ Outer(task[t], q) = Outer(x, q)
            /\ Inner(task[t], q) = 0 /\ Inner(x, q) = 0
      BY <1>1, <1>2, <2>3, IdleHolds
    <3>2. QED
      BY <1>1, <2>2, <2>4, <2>6, <3>1, NothingLent
  <2>8. attr'.is = "none" /\ \A p : attr' # Pool(p)
    BY <2>2 DEF None, Pool
  <2>9. Undisturbed' =>
          /\ task'[t].at \in {"idle", "create"}
             \/ (task'[t].at = "disconnecting" /\ task'[t].ref.n = connector')
          /\ \A u \in Tasks : u # t => task'[u].at = "idle"
    BY <1>2, <1>3, <2>3, <2>6, IdleHolds
  <2>10. OpeningsAreAlone'
    BY <2>8, <2>9, OpenerIsAlone
  <2>11. ConnectorIsKnown'
    <3> SUFFICES ASSUME Undisturbed', "failed open" \notin incidents'
                 PROVE  ConnectorIsKnown'
      BY DEF ConnectorIsKnown
    <3>1. \A c \in 1..Len(connectors) : connectors[c] = "live" => c = connector
      BY <1>3 DEF DbInv, ConnectorIsKnown
    <3>2. connector' = 0 \/ task'[t].at = "disconnecting"
      BY <1>2, <2>3, <2>6
    <3>3. QED
      BY <1>2, <3>1, <3>2 DEF ConnectorIsKnown
  <2>12. PoolIsKnown'
    <3> SUFFICES ASSUME Undisturbed', "overlap" \notin incidents'
                 PROVE  PoolIsKnown'
      BY DEF PoolIsKnown
    <3>1. PoolIsKnown /\ Undisturbed /\ "overlap" \notin incidents
      BY <1>3 DEF DbInv
    <3>2. \A u \in Tasks : task[u].at \notin Body
      BY <1>3, IdleHolds DEF Body
    <3>3. \A p \in 1..Len(pools') : pools'[p].state # "live"
      <4>1. ASSUME NEW p \in 1..Len(pools), pools[p].state = "live"
            PROVE  FALSE
        <5>1. \/ attr = Pool(p)
              \/ \E u \in Tasks : task[u].at \in Body
          BY <3>1, <4>1 DEF PoolIsKnown
        <5>2. attr # Pool(p)
          BY <1>5 DEF Pool
        <5>3. QED
          BY <3>2, <5>1, <5>2
      <4>2. QED
        BY <2>2, <4>1
    <3>4. \A u \in Tasks : Cloud => task[u].ran # "other"
      BY <3>1 DEF PoolIsKnown, OwnOnly
    <3>5. \A u \in Tasks : task'[u].at \notin Body /\ (Cloud => task'[u].ran # "other")
      BY <2>3, <2>6, <2>9, <3>2, <3>4 DEF Body
    <3>6. \A u \in Tasks : Cloud' => OwnOnly(task'[u])
      BY <1>3, <3>5 DEF Body, OwnOnly, Cloud, config
    <3>7. QED
      BY <3>3, <3>5, <3>6 DEF PoolIsKnown, Body
  <2>13. BoundOnce'
    <3>1. BoundOnce /\ x.at \notin Body
      BY <2>3 DEF DbInv, Body
    <3>2. QED
      BY <1>3, <2>6, <2>8, <3>1 DEF BoundOnce, Body
  <2>14. QED
    BY <2>6, <2>7, <2>10, <2>11, <2>12, <2>13 DEF DbInv
<1>6. QED
  BY <1>4, <1>5

LEMMA DrainedKeeps ==
  ASSUME DbInv, NEW t \in Tasks, Drained(t)
  PROVE  DbInv'
<1> DEFINE p == task[t].ref.n
<1>1. /\ Shape /\ LentIsHeld /\ task \in [Tasks -> TaskStates]
      /\ task[t].at = "draining" /\ PoolRef(task[t].ref) /\ task[t].inner = None
      /\ p \in 1..Len(pools) /\ \A q \in 1..Len(pools) : q \in Nat
      /\ connector \in 0..Len(connectors)
  BY TypesInACall, SomeTypes DEF Drained, TaskOK, PoolRef
<1>2. /\ pools' = [pools EXCEPT ![p].state = "closed"] /\ attr' = None
      /\ UNCHANGED <<config, connector, connectors, conns, incidents>>
  BY DEF Drained
<1>3. PICK x : x = IF connector # 0 THEN Disconnecting ELSE Idle
  OBVIOUS
<1>4. task' = [task EXCEPT ![t] = x]
  BY <1>3 DEF Drained
<1>5. /\ TaskOK(x)
      /\ x.at \in {"idle", "disconnecting"}
      /\ x.at = "disconnecting" <=> connector # 0
      /\ x.at = "disconnecting" => x.ref.n = connector
      /\ x.inner = None /\ x.saved = None /\ x.ran = "none"
      /\ \A q \in Nat : Outer(x, q) = 0 /\ Inner(x, q) = 0
  BY <1>1, <1>3, DisconnectingIs
<1>6. /\ PoolsGrow /\ Len(pools') = Len(pools)
      /\ \A q \in 1..Len(pools) :
           /\ pools'[q].lent = pools[q].lent
           /\ pools'[q].state = IF q = p THEN "closed" ELSE pools[q].state
  <2>1. "closed" \in {"live", "closing", "closed"}
    OBVIOUS
  <2> HIDE DEF p
  <2>2. QED
    BY <1>1, <1>2, <2>1, PoolCloses
<1> HIDE DEF p
<1>7. Grows
  BY <1>1, <1>2, <1>6, GrowthOf DEF Grows
<1>8. TaskOK(x)' /\ AttrRef(attr)' /\ connector' \in 0..Len(connectors')
  BY <1>1, <1>2, <1>5, <1>7, TaskStays DEF AttrRef, None
<1>9. Shape' /\ task'[t] = x /\ \A u \in Tasks : u # t => task'[u] = task[u]
  BY <1>1, <1>4, <1>7, <1>8, ShapeKeeps
<1>10. LentIsHeld'
  <2>1. \A q \in 1..Len(pools) :
          /\ Outer(task[t], q) = Outer(x, q)
          /\ Inner(task[t], q) = 0 /\ Inner(x, q) = 0
    BY <1>1, <1>5 DEF Outer, Inner
  <2>2. QED
    BY <1>1, <1>6, <1>7, <1>9, <2>1, NothingLent
<1>11. /\ Undisturbed' => Undisturbed
       /\ Undisturbed => attr = task[t].ref /\ \A u \in Tasks : u # t => task[u].at = "idle"
  BY <1>1, <1>2 DEF DbInv, OpeningsAreAlone, Alone, Undisturbed
<1>12. attr'.is = "none"
  BY <1>2 DEF None
<1>13. Undisturbed' =>
         /\ task'[t].at \in {"idle", "create"}
            \/ (task'[t].at = "disconnecting" /\ task'[t].ref.n = connector')
         /\ \A u \in Tasks : u # t => task'[u].at = "idle"
  BY <1>2, <1>5, <1>9, <1>11
<1>14. OpeningsAreAlone'
  BY <1>12, <1>13, OpenerIsAlone
<1>15. ConnectorIsKnown'
  <2> SUFFICES ASSUME Undisturbed', "failed open" \notin incidents'
               PROVE  ConnectorIsKnown'
    BY DEF ConnectorIsKnown
  <2>1. \A c \in 1..Len(connectors) : connectors[c] = "live" => c = connector
    BY <1>2, <1>11 DEF DbInv, ConnectorIsKnown
  <2>2. connector' = 0 \/ task'[t].at = "disconnecting"
    BY <1>2, <1>5, <1>9
  <2>3. QED
    BY <1>2, <2>1, <2>2 DEF ConnectorIsKnown
<1>16. PoolIsKnown'
  <2> SUFFICES ASSUME Undisturbed', "overlap" \notin incidents'
               PROVE  PoolIsKnown'
    BY DEF PoolIsKnown
  <2>1. PoolIsKnown /\ Undisturbed /\ "overlap" \notin incidents
    BY <1>2, <1>11 DEF DbInv
  <2>2. attr.is = "pool" /\ attr.n = p
    BY <1>1, <1>11, <2>1 DEF PoolRef, p
  <2>3. ASSUME NEW q \in 1..Len(pools'), pools'[q].state = "live"
        PROVE  FALSE
    <3>1. q # p /\ pools[q].state = "live" /\ q \in 1..Len(pools)
      BY <1>1, <1>6, <2>3
    <3>2. attr = Pool(q)
      BY <2>1, <2>2, <3>1 DEF PoolIsKnown
    <3>3. QED
      BY <2>2, <3>1, <3>2 DEF Pool
  <2>4. \A u \in Tasks : Cloud => task[u].ran # "other"
    BY <2>1 DEF PoolIsKnown, OwnOnly
  <2>5. \A u \in Tasks : task'[u].at \notin Body /\ (Cloud => task'[u].ran # "other")
    BY <1>5, <1>9, <1>13, <2>4 DEF Body
  <2>6. \A u \in Tasks : Cloud' => OwnOnly(task'[u])
    BY <1>2, <2>5 DEF Body, OwnOnly, Cloud, config
  <2>7. QED
    BY <2>3, <2>5, <2>6 DEF PoolIsKnown, Body
<1>17. BoundOnce'
  <2>1. BoundOnce /\ x.at \notin Body
    BY <1>5 DEF DbInv, Body
  <2>2. QED
    BY <1>2, <1>9, <1>12, <2>1 DEF BoundOnce, Body
<1>18. QED
  BY <1>9, <1>10, <1>14, <1>15, <1>16, <1>17 DEF DbInv

LEMMA DisconnectedKeeps ==
  ASSUME DbInv, NEW t \in Tasks, Disconnected(t)
  PROVE  DbInv'
<1> DEFINE c == task[t].ref.n
<1>1. /\ Shape /\ LentIsHeld /\ task \in [Tasks -> TaskStates]
      /\ task[t].at = "disconnecting" /\ task[t].ref.is = "connector" /\ task[t].inner = None
      /\ c \in 1..Len(connectors) /\ Len(connectors) \in Nat
      /\ connectors \in Seq({"live", "closed"})
  BY TypesInACall, SomeTypes DEF Disconnected, TaskOK
<1>2. /\ connectors' = [connectors EXCEPT ![c] = "closed"] /\ connector' = 0
      /\ task' = [task EXCEPT ![t] = Idle]
      /\ UNCHANGED <<config, attr, pools, conns, incidents>>
  BY DEF Disconnected
<1> HIDE DEF c
<1>3. /\ connectors' \in Seq({"live", "closed"}) /\ Len(connectors') = Len(connectors)
      /\ \A d \in 1..Len(connectors) : connectors'[d] = IF d = c THEN "closed" ELSE connectors[d]
  <2>1. "closed" \in {"live", "closed"}
    OBVIOUS
  <2>2. QED
    BY <1>1, <1>2, <2>1, ExceptSeq
<1>4. Grows
  BY <1>1, <1>2, <1>3, GrowthOf DEF Grows, ConnectorsGrow
<1>5. AttrRef(attr)' /\ connector' \in 0..Len(connectors')
  <2>1. PICK r : r = attr
    OBVIOUS
  <2>2. AttrRef(r)'
    BY <1>1, <1>4, <2>1, SomeTypes, RefsStay
  <2>3. AttrRef(attr)'
    BY <1>2, <2>1, <2>2 DEF AttrRef, PoolRef, SingleRef
  <2>4. QED
    BY <1>1, <1>2, <1>3, <2>3
<1>6. Shape' /\ task'[t] = Idle /\ \A u \in Tasks : u # t => task'[u] = task[u]
  BY <1>1, <1>2, <1>4, <1>5, IdleIsOK, ShapeKeeps
<1>7. LentIsHeld'
  <2>1. \A q \in 1..Len(pools) :
          /\ Outer(task[t], q) = Outer(Idle, q)
          /\ Inner(task[t], q) = 0 /\ Inner(Idle, q) = 0
    <3>1. \A q : task[t].ref # Pool(q)
      BY <1>1 DEF Pool
    <3>2. QED
      BY <1>1, <3>1, IdleHolds DEF Outer, Inner
  <2>2. QED
    BY <1>1, <1>2, <1>4, <1>6, <2>1, NothingLent
<1>8. /\ Undisturbed' => Undisturbed
      /\ Undisturbed => /\ attr.is = "none" /\ c = connector
                        /\ \A u \in Tasks : u # t => task[u].at = "idle"
      /\ Cloud' = Cloud
  BY <1>1, <1>2 DEF DbInv, OpeningsAreAlone, Alone, Undisturbed, Cloud, config, c
<1>9. OpeningsAreAlone'
  <2>1. CASE Undisturbed'
    <3>1. attr'.is = "none" /\ task'[t].at = "idle" /\ \A u \in Tasks : u # t => task'[u].at = "idle"
      BY <1>2, <1>6, <1>8, <2>1, IdleHolds
    <3>2. QED
      BY <3>1, OpenerIsAlone
  <2>2. QED
    BY <2>1 DEF OpeningsAreAlone
<1>10. ConnectorIsKnown'
  <2> SUFFICES ASSUME Undisturbed', "failed open" \notin incidents'
               PROVE  ConnectorIsKnown'
    BY DEF ConnectorIsKnown
  <2>1. \A d \in 1..Len(connectors) : connectors[d] = "live" => d = connector
    BY <1>2, <1>8 DEF DbInv, ConnectorIsKnown
  <2>2. \A d \in 1..Len(connectors') : connectors'[d] # "live"
    BY <1>3, <1>8, <2>1
  <2>3. QED
    BY <1>2, <2>2 DEF ConnectorIsKnown
<1>11. PoolIsKnown'
  <2>1. task[t].at \notin Body /\ Idle.at \notin Body /\ Idle.ran # "other"
    BY <1>1, IdleHolds DEF Body
  <2>2. PoolIsKnown
    BY DEF DbInv
  <2>3. QED
    BY <1>2, <1>6, <1>8, <2>1, <2>2, PoolStaysKnown
<1>12. BoundOnce'
  <2>1. BoundOnce /\ Idle.at \notin Body /\ task[t].at \notin Body
    BY <1>1, IdleHolds DEF DbInv, Body
  <2>2. QED
    BY <1>2, <1>6, <2>1 DEF BoundOnce, Body
<1>13. QED
  BY <1>6, <1>7, <1>9, <1>10, <1>11, <1>12 DEF DbInv

------------------------------------------------------------------------------
(* The invariant, and what it says of the client.                          *)

LEMMA DbInitHolds == Init => DbInv
<1> SUFFICES ASSUME Init
             PROVE  DbInv
  OBVIOUS
<1>1. /\ pools = <<>> /\ connectors = <<>> /\ conns = <<>> /\ attr = None /\ connector = 0
      /\ incidents = {} /\ kind \in Kinds /\ size \in Sizes
      /\ \A t \in Tasks : task[t] = Idle
  BY DEF Init
<1>2. /\ pools \in Seq(PoolStates) /\ connectors \in Seq({"live", "closed"})
      /\ conns \in Seq({"lent", "back"})
      /\ Len(pools) = 0 /\ Len(connectors) = 0 /\ Len(conns) = 0 /\ DOMAIN pools = {}
  BY <1>1, EmptySeq
<1>3. task \in [Tasks -> TaskStates] /\ \A t \in Tasks : TaskOK(task[t])
  <2>1. Idle \in TaskStates
    BY IdleIsOK DEF TaskOK
  <2>2. QED
    BY <1>1, <2>1, IdleIsOK DEF Init
<1>4. Shape
  BY <1>1, <1>2, <1>3 DEF Shape, AttrRef
<1>5. LentIsHeld
  BY <1>2 DEF LentIsHeld
<1>6. /\ attr.is = "none" /\ \A t \in Tasks : task[t].at = "idle" /\ task[t].ran = "none"
      /\ 1..Len(pools) = {} /\ 1..Len(connectors) = {}
  BY <1>1, <1>2, IdleHolds DEF None
<1>7. OpeningsAreAlone
  BY <1>6 DEF OpeningsAreAlone, Alone, Body
<1>8. ConnectorIsKnown
  BY <1>1, <1>6 DEF ConnectorIsKnown
<1>9. PoolIsKnown /\ BoundOnce
  BY <1>6 DEF PoolIsKnown, BoundOnce, Body, OwnOnly
<1>10. QED
  BY <1>4, <1>5, <1>7, <1>8, <1>9 DEF DbInv

LEMMA DbStepKeeps == DbInv /\ [Next]_vars => DbInv'
<1> SUFFICES ASSUME DbInv, [Next]_vars
             PROVE  DbInv'
  OBVIOUS
<1>1. ASSUME NEW t \in Tasks, NEW does \in {"statement", "transaction"},
             CallOpens(t, does) \/ Call(t, does)
      PROVE  DbInv'
  BY <1>1, CallOpensKeeps, CallKeeps
<1>2. ASSUME NEW t \in Tasks, Step(t)
      PROVE  DbInv'
  BY <1>2, CreatedKeeps, CreateFailsKeeps, AcquiredKeeps, RefusedKeeps, ReturnKeeps, BindKeeps,
     BodyAcquiredKeeps, BodyRefusedKeeps, BodyAnswerKeeps, LeaveKeeps, DrainedKeeps,
     DisconnectedKeeps DEF Step
<1>3. CASE UNCHANGED vars
  <2>1. /\ kind' = kind /\ size' = size /\ attr' = attr /\ connector' = connector
        /\ pools' = pools /\ connectors' = connectors /\ conns' = conns /\ task' = task
        /\ incidents' = incidents
    BY <1>3 DEF vars, config
  <2>2. Shape'
    <3>1. Shape /\ task \in [Tasks -> TaskStates] /\ \A t \in Tasks : TaskOK(task[t])
      BY SomeTypes DEF DbInv
    <3>2. Grows
      BY <2>1, <3>1, GrowthOf DEF Grows, config
    <3>3. AttrRef(attr)' /\ connector' \in 0..Len(connectors')
      BY <2>1, <3>1, <3>2, ClientStays
    <3>4. \A x : TaskOK(x) => TaskOK(x)'
      BY <3>1, <3>2, TaskStays
    <3>5. \A t \in Tasks : TaskOK(task[t])'
      BY <2>1, <3>1, <3>4
    <3>6. task' \in [Tasks -> TaskStates]'
      BY <2>1, <3>1 DEF TaskStates, Refs
    <3>7. QED
      BY <2>1, <3>1, <3>2, <3>3, <3>5, <3>6
      DEF Shape, Grows, PoolsGrow, ConnectorsGrow, ConnsGrow, IncidentsGrow, PoolStates
  <2>3. LentIsHeld'
    BY <2>1 DEF DbInv, LentIsHeld, Borrowers, InnerBorrowers, Pool
  <2>4. OpeningsAreAlone' /\ ConnectorIsKnown'
    BY <2>1 DEF DbInv, OpeningsAreAlone, ConnectorIsKnown, Undisturbed, Alone, Body
  <2>5. PoolIsKnown' /\ BoundOnce'
    BY <2>1, ZenonT(60) DEF DbInv, PoolIsKnown, BoundOnce, Undisturbed, Cloud, Body, Pool, Single
  <2>6. QED
    BY <2>2, <2>3, <2>4, <2>5 DEF DbInv
<1>4. QED
  BY <1>1, <1>2, <1>3, BodyStatementKeeps, CloseKeeps DEF Next

\* The inductive invariant: the state keeps its shape, a pool lends what its
\* borrowers hold, and what each history leaves undisturbed stays so.
THEOREM DbInvariance == Spec => []DbInv
<1>1. QED
  BY DbInitHolds, DbStepKeeps, PTL DEF Spec

\* The client's attribute is nothing, a pool that was made or, in the Cloud SQL
\* client alone, the connection of a transaction that was begun.
THEOREM DbTypeCorrect == Spec => []TypeOK
<1>1. DbInv => TypeOK
  <2> SUFFICES ASSUME DbInv
               PROVE  TypeOK
    OBVIOUS
  <2>1. /\ Shape /\ DOMAIN pools = 1..Len(pools) /\ DOMAIN connectors = 1..Len(connectors)
        /\ DOMAIN conns = 1..Len(conns) /\ Len(pools) \in Nat /\ Len(conns) \in Nat
        /\ Len(connectors) \in Nat /\ connector \in 0..Len(connectors) /\ AttrRef(attr)
    BY SomeTypes, ElementTypes DEF DbInv
  <2>2. attr \in {None} \cup {Pool(p) : p \in DOMAIN pools}
                 \cup {Single(c) : c \in IF Cloud THEN DOMAIN conns ELSE {}}
    <3>1. CASE PoolRef(attr)
      <4>1. attr.n \in DOMAIN pools /\ attr = Pool(attr.n)
        BY <2>1, <3>1, RefKinds DEF PoolRef
      <4>2. QED
        BY <4>1
    <3>2. CASE Cloud /\ SingleRef(attr)
      <4>1. attr.n \in DOMAIN conns /\ attr = Single(attr.n)
        BY <2>1, <3>2, RefKinds DEF SingleRef
      <4>2. QED
        BY <3>2, <4>1
    <3>3. QED
      BY <2>1, <3>1, <3>2 DEF AttrRef
  <2>3. ASSUME NEW t \in Tasks
        PROVE  task[t].conn \in {0} \cup DOMAIN conns
    <3>1. TaskOK(task[t])
      BY <2>1 DEF Shape
    <3>2. QED
      BY <2>1, <3>1, IdleHolds DEF TaskOK, TaskStates, Body
  <2>4. connector \in {0} \cup DOMAIN connectors
    BY <2>1
  <2>5. QED
    BY <2>1, <2>2, <2>3, <2>4 DEF Shape, TypeOK, PoolStates
<1>2. QED
  BY <1>1, DbInvariance, PTL

\* Whatever raises, and whoever closes the client meanwhile, a pool lends
\* exactly what its borrowers hold.
THEOREM LendingsAreHeld == Spec => []LentIsHeld
<1>1. DbInv => LentIsHeld
  BY DEF DbInv
<1>2. QED
  BY <1>1, DbInvariance, PTL

LEMMA OnlyIncident ==
  /\ incidents \ {"failed open"} = {} =>
       "open race" \notin incidents /\ "close race" \notin incidents /\ "overlap" \notin incidents
  /\ incidents \ {"overlap"} = {} =>
       /\ "open race" \notin incidents /\ "close race" \notin incidents
       /\ "failed open" \notin incidents
<1>1. \A i, f : i \in incidents /\ i # f => i \in incidents \ {f}
  OBVIOUS
<1>2. /\ "open race" # "failed open" /\ "close race" # "failed open" /\ "overlap" # "failed open"
      /\ "open race" # "overlap" /\ "close race" # "overlap" /\ "failed open" # "overlap"
  OBVIOUS
<1>3. QED
  BY <1>1, <1>2

\* A pool that lives and a connector that lives are in somebody's hands, unless
\* openings or closings raced or an opening failed.
THEOREM PoolsAreInHand == Spec => []NothingLeaks
<1>1. DbInv => NothingLeaks
  <2> SUFFICES ASSUME DbInv
               PROVE  NothingLeaks
    OBVIOUS
  <2>1. DOMAIN pools = 1..Len(pools) /\ DOMAIN connectors = 1..Len(connectors)
    BY ElementTypes DEF DbInv
  <2>2. ASSUME NEW p \in DOMAIN pools, pools[p].state = "live", incidents \ {"failed open"} = {}
        PROVE  Reachable(p)
    <3>1. Undisturbed /\ "overlap" \notin incidents
      BY <2>2, OnlyIncident DEF Undisturbed
    <3>2. \/ attr = Pool(p)
          \/ \E t \in Tasks : task[t].saved = Pool(p)
      BY <2>1, <2>2, <3>1 DEF DbInv, PoolIsKnown
    <3>3. QED
      BY <3>2 DEF Reachable
  <2>3. ASSUME NEW c \in DOMAIN connectors, connectors[c] = "live", incidents \ {"overlap"} = {}
        PROVE  c = connector
    <3>1. Undisturbed /\ "failed open" \notin incidents
      BY <2>3, OnlyIncident DEF Undisturbed
    <3>2. QED
      BY <2>1, <2>3, <3>1 DEF DbInv, ConnectorIsKnown
  <2>4. QED
    BY <2>2, <2>3 DEF NothingLeaks
<1>2. QED
  BY <1>1, DbInvariance, PTL

\* The client is bound to a connection only while the block that bound it runs,
\* unless transactions overlapped.
THEOREM BindingsAreUndone == Spec => []BindingIsUndone
<1>1. DbInv => BindingIsUndone
  BY DEF DbInv, BoundOnce, BindingIsUndone, Body
<1>2. QED
  BY <1>1, DbInvariance, PTL

\* With GiuliaDbClient, a block's statement runs in the block's own transaction,
\* through the client as on the connection given, unless transactions overlapped
\* or openings and closings raced.
THEOREM StatementsStayInTheirTx == Spec => []OwnStatementsInOwnTx
<1>1. DbInv => OwnStatementsInOwnTx
  <2>1. DbInv /\ incidents \ {"failed open"} = {} =>
          \A t \in Tasks : Cloud => task[t].ran # "other"
    BY OnlyIncident DEF DbInv, PoolIsKnown, Undisturbed, OwnOnly
  <2>2. QED
    BY <2>1 DEF OwnStatementsInOwnTx
<1>2. QED
  BY <1>1, DbInvariance, PTL
==============================================================================
