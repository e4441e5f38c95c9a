---------------------------- MODULE DelegationRedis ----------------------------
(***************************************************************************)
(* RedisStreamsInboundDelegationBackend (delegation/backends.py) with the  *)
(* Redis commands of delegation/redis_backend.py, for the stream of one    *)
(* receiving agent.  Several pods of that agent share the stream and its   *)
(* consumer group; each pod runs one worker and any number of accept       *)
(* handlers.  One Redis command is one step: handlers and workers of all   *)
(* pods interleave between commands.                                       *)
(*                                                                         *)
(* A fault is a Redis command that raises (its effect may have been        *)
(* applied or not) or a pod that dies; MaxFaults bounds how many occur.    *)
(*                                                                         *)
(* An operator whose name ends in _Wrong is a faulty variant of the one    *)
(* after it.  No specification uses it: it shows which fault a property    *)
(* below would report.                                                     *)
(***************************************************************************)
EXTENDS Naturals, Sequences, FiniteSets

CONSTANTS
  Tasks,      \* invocation ids
  Pods,       \* processes of the receiving agent
  Calls,      \* accept handlers in flight, over all pods
  None,       \* the task and the pod of a handler that is not in flight
  MaxPosts,   \* bound: POSTs over all tasks
  MaxFaults,  \* bound: faults
  MaxStarts   \* bound: pods started, first starts included

ASSUME NoneIsNothing == None \notin Tasks \cup Pods

ASSUME BoundsAreNaturals ==
  /\ MaxPosts \in Nat
  /\ MaxFaults \in Nat
  /\ MaxStarts \in Nat

VARIABLES
  stream,     \* the entries ever added (XADD); an entry is its position
  cursor,     \* last entry the group delivered
  pel,        \* the group's pending entries: delivered and not acknowledged
  status,     \* "status" of the task hash; "none" before HSETNX
  worker,     \* per pod: where its worker is, and the entry it holds
  call,       \* per accept handler: its next command, task and pod
  posts,      \* POSTs so far
  faults,     \* faults so far
  starts,     \* pods started so far
  cuts,       \* history: stops that cancelled a read or an acknowledgement
  failedOnce  \* history: tasks whose status was ever set to "failed"

redisVars == <<stream, cursor, pel>>
counters == <<posts, faults, starts, cuts>>
vars == <<stream, cursor, pel, status, worker, call, posts, faults, starts,
          cuts, failedOnce>>

TaskStatus == {"none", "queued", "processing", "completed", "failed"}

\* "down": no process.  "dead": the worker task ended with an exception and the
\* pod answers 503.  The others name the worker's next command; "handling" is
\* the agent's turn.
WorkerState == {"down", "dead", "reading", "start", "handling", "complete",
                "fail", "ack", "ackAndDie"}

CallState == {"idle", "claim", "check", "reclaim", "add", "mark"}

Entries == 1..Len(stream)

IsRunning(p) == worker[p].at \notin {"down", "dead"}

Holds(p) == worker[p].at \notin {"down", "dead", "reading"}

Held == {worker[p].entry : p \in {q \in Pods : Holds(q)}}

TaskOf(p) == stream[worker[p].entry]

NoCall == [at |-> "idle", task |-> None, pod |-> None]

InFlight(p) == {c \in Calls : call[c].at # "idle" /\ call[c].pod = p}

Init ==
  /\ stream = <<>>
  /\ cursor = 0
  /\ pel = {}
  /\ status = [t \in Tasks |-> "none"]
  /\ worker = [p \in Pods |-> [at |-> "down", entry |-> 0]]
  /\ call = [c \in Calls |-> NoCall]
  /\ posts = 0
  /\ faults = 0
  /\ starts = 0
  /\ cuts = 0
  /\ failedOnce = {}

------------------------------------------------------------------------------
(* Building blocks.                                                        *)

Fault ==
  /\ faults < MaxFaults
  /\ faults' = faults + 1
  /\ UNCHANGED <<posts, starts, cuts>>

\* set_task_status: an unconditional HSET.
SetStatus(t, s) ==
  /\ status' = [status EXCEPT ![t] = s]
  /\ failedOnce' = IF s = "failed" THEN failedOnce \cup {t} ELSE failedOnce

\* The same command when it raises: the server may have applied it.
SetStatusRaises(t, s) ==
  \/ SetStatus(t, s)
  \/ UNCHANGED <<status, failedOnce>>

CallGoes(c, from, to) ==
  /\ call[c].at = from
  /\ call' = [call EXCEPT ![c] = IF to = "idle" THEN NoCall ELSE [@ EXCEPT !.at = to]]

WorkerGoes(p, from, to) ==
  /\ worker[p].at = from
  /\ worker' = [worker EXCEPT ![p].at = to]

WorkerDrops(p, from, to) ==
  /\ worker[p].at = from
  /\ worker' = [worker EXCEPT ![p] = [at |-> to, entry |-> 0]]

------------------------------------------------------------------------------
(* _delegation_accept_handler and enqueue, command by command.             *)

Post_Wrong(c, p, t) == \* the status is set before the claim tests it
  /\ call[c].at = "idle"
  /\ IsRunning(p)
  /\ posts < MaxPosts
  /\ posts' = posts + 1
  /\ call' = [call EXCEPT ![c] = [at |-> "claim", task |-> t, pod |-> p]]
  /\ SetStatus(t, "queued")
  /\ UNCHANGED <<redisVars, worker, faults, starts, cuts>>

\* A POST to a pod whose worker is not running gets 503 and changes nothing.
Post(c, p, t) ==
  /\ call[c].at = "idle"
  /\ IsRunning(p)
  /\ posts < MaxPosts
  /\ posts' = posts + 1
  /\ call' = [call EXCEPT ![c] = [at |-> "claim", task |-> t, pod |-> p]]
  /\ UNCHANGED <<redisVars, status, worker, faults, starts, cuts, failedOnce>>

Claim_Wrong(c) ==      \* HGET, then HSET: two POSTs can both find no status
  /\ call[c].at = "claim"
  /\ \/ /\ status[call[c].task] = "none"
        /\ CallGoes(c, "claim", "reclaim")
     \/ /\ status[call[c].task] # "none"
        /\ CallGoes(c, "claim", "check")
  /\ UNCHANGED <<redisVars, status, worker, counters, failedOnce>>

\* claim_task_for_enqueue: HSETNX status queued.
Claim(c) ==
  /\ call[c].at = "claim"
  /\ \/ /\ status[call[c].task] = "none"
        /\ CallGoes(c, "claim", "add")
        /\ SetStatus(call[c].task, "queued")
     \/ /\ status[call[c].task] # "none"
        /\ CallGoes(c, "claim", "check")
        /\ UNCHANGED <<status, failedOnce>>
  /\ UNCHANGED <<redisVars, worker, counters>>

\* claim_task_for_enqueue: HGET; a task that is not failed is a duplicate.
Check(c) ==
  /\ call[c].at = "check"
  /\ \/ status[call[c].task] = "failed" /\ CallGoes(c, "check", "reclaim")
     \/ status[call[c].task] # "failed" /\ CallGoes(c, "check", "idle")
  /\ UNCHANGED <<redisVars, status, worker, counters, failedOnce>>

\* claim_task_for_enqueue: HSET status queued for a failed task.
Reclaim(c) ==
  /\ CallGoes(c, "reclaim", "add")
  /\ SetStatus(call[c].task, "queued")
  /\ UNCHANGED <<redisVars, worker, counters>>

\* XADD.
Add(c) ==
  /\ CallGoes(c, "add", "mark")
  /\ stream' = Append(stream, call[c].task)
  /\ UNCHANGED <<cursor, pel, status, worker, counters, failedOnce>>

\* set_task_status queued, after the entry is visible to every worker.
Mark(c) ==
  /\ CallGoes(c, "mark", "idle")
  /\ SetStatus(call[c].task, "queued")
  /\ UNCHANGED <<redisVars, worker, counters>>

\* A command of the handler raises before it is applied, or after: the latter
\* is the step of that command followed by this one.  The caller gets a 500.
CallRaises(c) ==
  /\ call[c].at # "idle"
  /\ call' = [call EXCEPT ![c] = NoCall]
  /\ Fault
  /\ UNCHANGED <<redisVars, status, worker, failedOnce>>

------------------------------------------------------------------------------
(* _worker_loop, command by command.                                       *)

\* XREADGROUP ">" with count 1: the next entry nobody was given.
Deliver ==
  /\ cursor < Len(stream)
  /\ cursor' = cursor + 1
  /\ pel' = pel \cup {cursor + 1}
  /\ UNCHANGED stream

Read_Wrong(p) ==       \* a worker is also given entries pending elsewhere
  /\ worker[p].at = "reading"
  /\ cursor < Len(stream)
  /\ \E e \in pel \cup {cursor + 1} :
       /\ worker' = [worker EXCEPT ![p] = [at |-> "start", entry |-> e]]
       /\ pel' = pel \cup {e}
       /\ cursor' = IF e > cursor THEN e ELSE cursor
  /\ UNCHANGED <<stream, status, call, counters, failedOnce>>

ReadWhenClear_Wrong(p) ==   \* no new entry while any entry is pending
  /\ worker[p].at = "reading"
  /\ pel = {}
  /\ Deliver
  /\ worker' = [worker EXCEPT ![p] = [at |-> "start", entry |-> cursor + 1]]
  /\ UNCHANGED <<status, call, counters, failedOnce>>

Read(p) ==
  /\ worker[p].at = "reading"
  /\ Deliver
  /\ worker' = [worker EXCEPT ![p] = [at |-> "start", entry |-> cursor + 1]]
  /\ UNCHANGED <<status, call, counters, failedOnce>>

\* The group delivered the entry but the reply was lost: the loop sleeps and
\* reads on with ">", which never returns that entry again.
ReadReplyLost(p) ==
  /\ worker[p].at = "reading"
  /\ Deliver
  /\ Fault
  /\ UNCHANGED <<status, worker, call, failedOnce>>

\* XREADGROUP fails authentication and the client cannot be renewed: the
\* exception leaves the loop.
ReconnectRaises(p) ==
  /\ WorkerDrops(p, "reading", "dead")
  /\ Fault
  /\ UNCHANGED <<redisVars, status, call, failedOnce>>

SetProcessing(p) ==
  /\ WorkerGoes(p, "start", "handling")
  /\ SetStatus(TaskOf(p), "processing")
  /\ UNCHANGED <<redisVars, call, counters>>

HandlerReturns(p) ==
  /\ WorkerGoes(p, "handling", "complete")
  /\ UNCHANGED <<redisVars, status, call, counters, failedOnce>>

HandlerRaises(p) ==
  /\ WorkerGoes(p, "handling", "fail")
  /\ UNCHANGED <<redisVars, status, call, counters, failedOnce>>

SetCompleted(p) ==
  /\ WorkerGoes(p, "complete", "ack")
  /\ SetStatus(TaskOf(p), "completed")
  /\ UNCHANGED <<redisVars, call, counters>>

SetFailed_Wrong(p) ==  \* a status that claim_task_for_enqueue does not know
  /\ WorkerGoes(p, "fail", "ack")
  /\ status' = [status EXCEPT ![TaskOf(p)] = "retry"]
  /\ UNCHANGED <<redisVars, call, counters, failedOnce>>

\* The except branch.
SetFailed(p) ==
  /\ WorkerGoes(p, "fail", "ack")
  /\ SetStatus(TaskOf(p), "failed")
  /\ UNCHANGED <<redisVars, call, counters>>

\* Setting "processing" or "completed" raises: the except branch is next, even
\* when the handler had already returned.
SetStatusInTryRaises(p) ==
  /\ \/ WorkerGoes(p, "start", "fail") /\ SetStatusRaises(TaskOf(p), "processing")
     \/ WorkerGoes(p, "complete", "fail") /\ SetStatusRaises(TaskOf(p), "completed")
  /\ Fault
  /\ UNCHANGED <<redisVars, call>>

\* Setting "failed" raises: the finally clause still runs, then the exception
\* leaves the loop.
SetFailedRaises(p) ==
  /\ WorkerGoes(p, "fail", "ackAndDie")
  /\ SetStatusRaises(TaskOf(p), "failed")
  /\ Fault
  /\ UNCHANGED <<redisVars, call>>

\* XACK.
Ack(p) ==
  /\ \/ WorkerDrops(p, "ack", "reading")
     \/ WorkerDrops(p, "ackAndDie", "dead")
  /\ pel' = pel \ {worker[p].entry}
  /\ UNCHANGED <<stream, cursor, status, call, counters, failedOnce>>

\* XACK raises, applied or not: nothing catches it.
AckRaises(p) ==
  /\ \/ WorkerDrops(p, "ack", "dead")
     \/ WorkerDrops(p, "ackAndDie", "dead")
  /\ pel' \in {pel, pel \ {worker[p].entry}}
  /\ Fault
  /\ UNCHANGED <<stream, cursor, status, call, failedOnce>>

------------------------------------------------------------------------------
(* Pods.                                                                   *)

Start_Wrong(p) ==      \* a new worker begins with an entry left pending
  /\ worker[p].at = "down"
  /\ starts < MaxStarts
  /\ starts' = starts + 1
  /\ worker' = [worker EXCEPT ![p] =
                  IF pel = {} THEN [at |-> "reading", entry |-> 0]
                  ELSE [at |-> "start", entry |-> CHOOSE e \in pel : TRUE]]
  /\ UNCHANGED <<redisVars, status, call, posts, faults, cuts, failedOnce>>

\* A process starts, and its lifespan starts the worker.  It reads with ">"
\* only: entries left pending by an earlier process are not looked at.
Start(p) ==
  /\ worker[p].at = "down"
  /\ starts < MaxStarts
  /\ starts' = starts + 1
  /\ worker' = [worker EXCEPT ![p] = [at |-> "reading", entry |-> 0]]
  /\ UNCHANGED <<redisVars, status, call, posts, faults, cuts, failedOnce>>

\* What a stop that comes in the middle of a read or an acknowledgement adds to
\* the count: nobody knows then whether the server had carried it out.
CutBy(p) == IF worker[p].at \in {"reading", "ack", "ackAndDie"} THEN 1 ELSE 0

Stop_Wrong(p) ==       \* the cancelled worker does not reach its finally clause
  /\ worker[p].at # "down"
  /\ InFlight(p) = {}
  /\ worker' = [worker EXCEPT ![p] = [at |-> "down", entry |-> 0]]
  /\ cuts' = cuts + CutBy(p)
  /\ UNCHANGED <<redisVars, status, call, posts, faults, starts, failedOnce>>

\* The server has answered its requests, then the lifespan stops the backend:
\* CancelledError is no Exception, so a worker that holds an entry skips the
\* except branch and only acknowledges it.  Cancelled in a read, it may have
\* been given an entry that it never sees; cancelled in an acknowledgement, the
\* entry may stay pending.
Stop(p) ==
  /\ worker[p].at # "down"
  /\ InFlight(p) = {}
  /\ worker' = [worker EXCEPT ![p] = [at |-> "down", entry |-> 0]]
  /\ \/ ~Holds(p) /\ UNCHANGED redisVars
     \/ worker[p].at = "reading" /\ Deliver
     \/ Holds(p) /\ pel' = pel \ {worker[p].entry} /\ UNCHANGED <<stream, cursor>>
     \/ worker[p].at \in {"ack", "ackAndDie"} /\ UNCHANGED redisVars
  /\ cuts' = cuts + CutBy(p)
  /\ UNCHANGED <<status, call, posts, faults, starts, failedOnce>>

\* The process dies with its worker and its accept handlers.
Crash(p) ==
  /\ worker[p].at # "down"
  /\ worker' = [worker EXCEPT ![p] = [at |-> "down", entry |-> 0]]
  /\ call' = [c \in Calls |-> IF c \in InFlight(p) THEN NoCall ELSE call[c]]
  /\ Fault
  /\ UNCHANGED <<redisVars, status, failedOnce>>

------------------------------------------------------------------------------
AcceptHandler(c) ==
  \/ Claim(c)
  \/ Check(c)
  \/ Reclaim(c)
  \/ Add(c)
  \/ Mark(c)

WorkerLoop(p) ==
  \/ Read(p)
  \/ SetProcessing(p)
  \/ HandlerReturns(p)
  \/ HandlerRaises(p)
  \/ SetCompleted(p)
  \/ SetFailed(p)
  \/ Ack(p)

WorkerFault(p) ==
  \/ ReadReplyLost(p)
  \/ ReconnectRaises(p)
  \/ SetStatusInTryRaises(p)
  \/ SetFailedRaises(p)
  \/ AckRaises(p)

Next ==
  \/ \E c \in Calls, p \in Pods, t \in Tasks : Post(c, p, t)
  \/ \E c \in Calls : AcceptHandler(c) \/ CallRaises(c)
  \/ \E p \in Pods : WorkerLoop(p) \/ WorkerFault(p) \/ Start(p) \/ Stop(p) \/ Crash(p)

Spec == Init /\ [][Next]_vars

\* The event loop runs a ready worker, Redis answers, and an agent's turn ends.
\* Nothing makes a POST, a start or a fault happen.
FairSpec == Spec /\ \A p \in Pods : WF_vars(WorkerLoop(p))

------------------------------------------------------------------------------
TypeOK ==
  /\ stream \in Seq(Tasks)
  /\ cursor \in Nat
  /\ pel \subseteq Nat
  /\ status \in [Tasks -> TaskStatus]
  /\ worker \in [Pods -> [at : WorkerState, entry : Nat]]
  /\ call \in [Calls -> [at : CallState \ {"idle"}, task : Tasks, pod : Pods]
                       \cup {NoCall}]
  /\ posts \in Nat /\ faults \in Nat /\ starts \in Nat /\ cuts \in Nat
  /\ failedOnce \subseteq Tasks

\* HSETNX makes the first POST of a task id the only one that enqueues it, over
\* all pods and through every fault: a second entry of a task needs a status
\* that was "failed" in between.
OneEntryUnlessFailed ==
  \A i, j \in Entries :
    (stream[i] = stream[j] /\ i # j) => stream[i] \in failedOnce

\* An entry is in the hands of at most one worker, and it is pending there.
HeldByOne ==
  /\ Held \subseteq pel
  /\ \A p, q \in Pods :
       (Holds(p) /\ Holds(q) /\ worker[p].entry = worker[q].entry) => p = q

\* A pending entry that no worker holds will never be delivered again, since
\* every read is for new entries.  It takes a fault, or a stop in the middle of a
\* read or an acknowledgement, to lose an entry like that, and each loses one at
\* most; a stop at any other moment loses none.
Orphans == pel \ Held

OrphansHaveACause == Cardinality(Orphans) <= faults + cuts

\* A task id that POSTs are refused for as a duplicate is backed by an entry of
\* the stream, or an accept handler is about to add it: unless a fault cut a
\* handler between its claim and its XADD, no refused POST is lost.
ClaimIsBacked ==
  faults = 0 =>
    \A t \in Tasks :
      status[t] # "none" =>
        \/ \E e \in Entries : stream[e] = t
        \/ \E c \in Calls : call[c].task = t /\ call[c].at = "add"

\* At most once: the backend implements DelegationQueue with a stream entry as
\* the job.
Begun == {worker[p].entry : p \in {q \in Pods : worker[q].at = "handling"}}

NotBegun ==
  {e \in Entries : e > cursor}
    \cup {worker[p].entry : p \in {q \in Pods : worker[q].at = "start"}}

Abstract == INSTANCE DelegationQueue
              WITH Jobs <- Nat \ {0}, waiting <- NotBegun, running <- Begun,
                   over <- Entries \ (NotBegun \cup Begun)

ImplementsQueue ==
  Abstract!Init /\ [][\E e \in Entries' : Abstract!Accept(e) \/ Abstract!Begin(e)
                         \/ Abstract!End(e) \/ Abstract!Drop(e)]_(Abstract!vars)

\* An entry that was added is delivered and settled, unless the worker that
\* could do it is gone: as long as some pod's worker runs, the stream moves.
EntryIsSettled ==
  \A e \in 1..MaxPosts :
    e \in Entries ~>
      \/ e <= cursor /\ e \notin Held
      \/ \A p \in Pods : ~IsRunning(p)

\* claim_task_for_enqueue: "Return True if this request should enqueue (new or
\* retryable duplicate)".  A failed task can be retried: when its one entry was
\* recorded as failed, and no command on it is under way or left undone by a
\* fault, its status is "failed", which is what makes the next POST accepted.
FailedIsRetryable ==
  \A t \in failedOnce :
    \/ faults > 0
    \/ \E c \in Calls : call[c].task = t
    \/ \E p \in Pods : Holds(p) /\ TaskOf(p) = t
    \/ \E i, j \in Entries : i # j /\ stream[i] = t /\ stream[j] = t
    \/ status[t] = "failed"
==============================================================================
