--------------------------- MODULE DelegationMemory ---------------------------
(***************************************************************************)
(* InMemoryInboundDelegationBackend (delegation/backends.py): an asyncio   *)
(* queue, a set of the task ids seen so far and one worker task, started   *)
(* and stopped by inbound_delegation_lifespan.                             *)
(*                                                                         *)
(* Everything runs on one event loop: what happens between two awaits that *)
(* can suspend is one step.  Queue.put on an unbounded queue never         *)
(* suspends, so enqueue is one step; stop suspends while it awaits the     *)
(* worker, so it is two.  A duplicate POST, a POST while the worker is     *)
(* down and the early returns of start and stop change nothing: they are   *)
(* the stuttering steps of this specification.                             *)
(*                                                                         *)
(* An operator whose name ends in _Wrong is a faulty variant of the one    *)
(* after it.  No specification uses it: it shows which fault a property    *)
(* below would report.                                                     *)
(***************************************************************************)
EXTENDS Naturals, Sequences

CONSTANTS
  Tasks,      \* invocation ids
  Sentinel    \* the None that stop() puts in the queue

ASSUME SentinelIsNoTask == Sentinel \notin Tasks

VARIABLES
  queue,       \* _queue
  unfinished,  \* the queue's count of unfinished tasks, which join() waits on
  processed,   \* _processed_task_ids
  worker,      \* _worker_task: "absent", "idle" (in get), "busy", "done"
  current,     \* the job in the handler, or Sentinel
  stopping,    \* stop() has put the sentinel and awaits the worker
  ended,       \* history: jobs whose handler returned or raised
  beforeStop   \* history: jobs accepted when stop() was last called

vars ==
  <<queue, unfinished, processed, worker, current, stopping, ended, beforeStop>>

IsRunning == worker \in {"idle", "busy"}

Init ==
  /\ queue = <<>>
  /\ unfinished = 0
  /\ processed = {}
  /\ worker = "absent"
  /\ current = Sentinel
  /\ stopping = FALSE
  /\ ended = {}
  /\ beforeStop = {}

------------------------------------------------------------------------------
(* The accept handler asks is_running, then enqueue tests the task id.     *)

Put(item) ==
  /\ queue' = Append(queue, item)
  /\ unfinished' = unfinished + 1

Enqueue_Wrong(t) ==    \* the id is recorded but not tested
  /\ IsRunning
  /\ processed' = processed \cup {t}
  /\ Put(t)
  /\ UNCHANGED <<worker, current, stopping, ended, beforeStop>>

Enqueue(t) ==
  /\ IsRunning
  /\ t \notin processed
  /\ processed' = processed \cup {t}
  /\ Put(t)
  /\ UNCHANGED <<worker, current, stopping, ended, beforeStop>>

------------------------------------------------------------------------------
(* start and stop.  The lifespan calls them in turn, so no start() comes   *)
(* while a stop() is under way.                                            *)

Start ==
  /\ ~IsRunning
  /\ ~stopping
  /\ worker' = "idle"
  /\ UNCHANGED <<queue, unfinished, processed, current, stopping, ended,
                 beforeStop>>

StopBegin_Wrong ==     \* cancel the worker, as the Redis backend does
  /\ IsRunning
  /\ ~stopping
  /\ stopping' = TRUE
  /\ beforeStop' = processed
  /\ worker' = "done"
  /\ UNCHANGED <<queue, unfinished, processed, current, ended>>

StopBegin ==
  /\ IsRunning
  /\ ~stopping
  /\ stopping' = TRUE
  /\ beforeStop' = processed
  /\ Put(Sentinel)
  /\ UNCHANGED <<processed, worker, current, ended>>

StopEnd ==
  /\ stopping
  /\ worker = "done"
  /\ worker' = "absent"
  /\ stopping' = FALSE
  /\ UNCHANGED <<queue, unfinished, processed, current, ended, beforeStop>>

------------------------------------------------------------------------------
(* _worker_loop: task_done is in a finally clause, so it follows the       *)
(* handler whether it returned or raised, and the break on the sentinel.   *)

GetJob_Wrong ==        \* task_done right after get
  /\ worker = "idle"
  /\ queue # <<>>
  /\ Head(queue) # Sentinel
  /\ queue' = Tail(queue)
  /\ current' = Head(queue)
  /\ worker' = "busy"
  /\ unfinished' = unfinished - 1
  /\ UNCHANGED <<processed, stopping, ended, beforeStop>>

GetJob ==
  /\ worker = "idle"
  /\ queue # <<>>
  /\ Head(queue) # Sentinel
  /\ queue' = Tail(queue)
  /\ current' = Head(queue)
  /\ worker' = "busy"
  /\ UNCHANGED <<unfinished, processed, stopping, ended, beforeStop>>

GetSentinel ==
  /\ worker = "idle"
  /\ queue # <<>>
  /\ Head(queue) = Sentinel
  /\ queue' = Tail(queue)
  /\ worker' = "done"
  /\ unfinished' = unfinished - 1
  /\ UNCHANGED <<processed, current, stopping, ended, beforeStop>>

HandlerEnds_Wrong ==   \* an exception of the handler ends the loop
  /\ worker = "busy"
  /\ ended' = ended \cup {current}
  /\ current' = Sentinel
  /\ worker' \in {"idle", "done"}
  /\ unfinished' = unfinished - 1
  /\ UNCHANGED <<queue, processed, stopping, beforeStop>>

HandlerEnds ==
  /\ worker = "busy"
  /\ ended' = ended \cup {current}
  /\ current' = Sentinel
  /\ worker' = "idle"
  /\ unfinished' = unfinished - 1
  /\ UNCHANGED <<queue, processed, stopping, beforeStop>>

WorkerLoop == GetJob \/ GetSentinel \/ HandlerEnds

------------------------------------------------------------------------------
Next ==
  \/ \E t \in Tasks : Enqueue(t)
  \/ Start
  \/ StopBegin
  \/ StopEnd
  \/ WorkerLoop

Spec == Init /\ [][Next]_vars

\* The event loop runs a worker that is ready, and an agent's turn ends.
FairSpec == Spec /\ WF_vars(WorkerLoop)

------------------------------------------------------------------------------
TypeOK ==
  /\ queue \in Seq(Tasks \cup {Sentinel})
  /\ unfinished \in Nat
  /\ processed \subseteq Tasks
  /\ worker \in {"absent", "idle", "busy", "done"}
  /\ current \in Tasks \cup {Sentinel}
  /\ stopping \in BOOLEAN
  /\ ended \subseteq Tasks
  /\ beforeStop \subseteq Tasks

\* drain_for_tests waits for _queue.join(), that is for unfinished to be zero.
\* When it returns, the handler is through with every job that was accepted,
\* over any number of stops and starts.
DrainMeansDone == unfinished = 0 => processed = ended

\* stop() drains: when the worker it awaits is gone, every job accepted before
\* stop() was called has been through the handler.  (A job accepted while
\* stop() waits is behind the sentinel and stays in the queue.)
StopDrains == (stopping /\ worker = "done") => beforeStop \subseteq ended

\* At most once: the backend implements DelegationQueue with a task id as the
\* job.
Queued == {queue[i] : i \in DOMAIN queue} \ {Sentinel}

Running == IF worker = "busy" THEN {current} ELSE {}

Abstract == INSTANCE DelegationQueue
              WITH Jobs <- Tasks, waiting <- Queued, running <- Running,
                   over <- ended

ImplementsQueue == Abstract!Spec

\* A job that was accepted is run unless the backend is stopped: a handler that
\* raises does not take the jobs behind it down with it.  After a stop and a
\* start this holds again, for the jobs that were left behind the sentinel too.
AcceptedIsRun ==
  \A t \in Tasks :
    t \in processed ~> (t \in ended \/ stopping \/ worker = "absent")
==============================================================================
