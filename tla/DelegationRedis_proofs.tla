------------------------ MODULE DelegationRedis_proofs ------------------------
(***************************************************************************)
(* Proofs about DelegationRedis, for any number of task ids, pods, accept  *)
(* handlers and faults.  Two inductive invariants: Linked ties the workers *)
(* to the pending entries of the consumer group, ClaimedOnce ties the      *)
(* entries of the stream to the status in the task hash.                   *)
(***************************************************************************)
EXTENDS DelegationRedis, FiniteSetTheorems, TLAPS

\* Delivered entries exist; what a worker holds is pending, and its alone.
Linked ==
  /\ cursor <= Len(stream)
  /\ pel \subseteq 1..cursor
  /\ \A p \in Pods : Holds(p) => worker[p].entry \in pel
  /\ \A p, q \in Pods :
       (Holds(p) /\ Holds(q) /\ worker[p].entry = worker[q].entry) => p = q

LInv == TypeOK /\ Linked

\* Before the claim there is nothing: no entry and no handler past the claim.
\* A task that never failed has one entry, or one handler about to add it.
Unclaimed ==
  \A t \in Tasks :
    status[t] = "none" =>
      /\ \A e \in Entries : stream[e] # t
      /\ \A c \in Calls : call[c].task = t => call[c].at = "claim"

FailedIsRecorded ==
  /\ \A t \in Tasks : status[t] = "failed" => t \in failedOnce
  /\ \A c \in Calls : call[c].at = "reclaim" => call[c].task \in failedOnce

AddsOnce ==
  \A c \in Calls :
    (call[c].at = "add" /\ call[c].task \notin failedOnce) =>
      /\ \A e \in Entries : stream[e] # call[c].task
      /\ \A d \in Calls : (call[d].at = "add" /\ call[d].task = call[c].task) => c = d

ClaimedOnce ==
  /\ Unclaimed
  /\ FailedIsRecorded
  /\ AddsOnce
  /\ OneEntryUnlessFailed

CInv == LInv /\ ClaimedOnce

------------------------------------------------------------------------------
(* Types and Linked.                                                       *)

LEMMA InitLInv == Init => LInv
<1> SUFFICES ASSUME Init PROVE LInv
  OBVIOUS
<1>1. stream \in Seq(Tasks) /\ Len(stream) = 0
  BY DEF Init
<1>2. \A p \in Pods : worker[p].at = "down"
  BY DEF Init
<1>3. Linked
  BY <1>1, <1>2 DEF Init, Linked, Holds
<1>4. call \in [Calls -> [at : CallState \ {"idle"}, task : Tasks, pod : Pods]
                          \cup {NoCall}]
  BY DEF Init
<1>5. worker \in [Pods -> [at : WorkerState, entry : Nat]]
  BY DEF Init, WorkerState
<1>6. TypeOK
  BY <1>1, <1>4, <1>5 DEF Init, TypeOK, TaskStatus
<1>7. QED
  BY <1>3, <1>6 DEF LInv

\* The task of a held entry is a task.
LEMMA HeldTask ==
  ASSUME LInv, NEW p \in Pods, Holds(p)
  PROVE  /\ worker[p].entry \in 1..cursor
         /\ worker[p].entry \in Entries
         /\ TaskOf(p) \in Tasks
<1>1. worker[p].entry \in 1..cursor /\ cursor <= Len(stream) /\ Len(stream) \in Nat
      /\ cursor \in Nat
  BY DEF LInv, Linked, TypeOK
<1>2. worker[p].entry \in 1..Len(stream)
  BY <1>1
<1>3. QED
  BY <1>1, <1>2 DEF TaskOf, Entries, LInv, TypeOK

\* Steps of the accept handlers leave the workers alone.
LEMMA CallStepKeepsLInv ==
  ASSUME LInv, NEW c \in Calls,
         \/ \E p \in Pods, t \in Tasks : Post(c, p, t)
         \/ AcceptHandler(c)
         \/ CallRaises(c)
  PROVE  LInv'
<1> USE DEF LInv, TypeOK, redisVars, counters
<1>1. ASSUME NEW p \in Pods, NEW t \in Tasks, Post(c, p, t)
      PROVE  LInv'
  <2>1. call' \in [Calls -> [at : CallState \ {"idle"}, task : Tasks, pod : Pods]
                             \cup {NoCall}]
    BY <1>1 DEF Post, CallState
  <2>2. QED
    BY <1>1, <2>1 DEF Post, Linked, Holds
<1>2. ASSUME AcceptHandler(c)
      PROVE  LInv'
  <2>1. /\ call[c].at # "idle"
        /\ \E to \in CallState :
             call' = [call EXCEPT ![c] = IF to = "idle" THEN NoCall
                                         ELSE [@ EXCEPT !.at = to]]
    BY <1>2 DEF AcceptHandler, Claim, Check, Reclaim, Add, Mark, CallGoes, CallState
  <2>2. call[c] \in [at : CallState \ {"idle"}, task : Tasks, pod : Pods]
    BY <2>1 DEF NoCall
  <2>3. call' \in [Calls -> [at : CallState \ {"idle"}, task : Tasks, pod : Pods]
                             \cup {NoCall}]
    <3>1. PICK to \in CallState :
            call' = [call EXCEPT ![c] = IF to = "idle" THEN NoCall
                                        ELSE [@ EXCEPT !.at = to]]
      BY <2>1
    <3>2. CASE to = "idle"
      BY <3>1, <3>2
    <3>3. CASE to # "idle"
      <4>1. [call[c] EXCEPT !.at = to]
              \in [at : CallState \ {"idle"}, task : Tasks, pod : Pods]
        BY <2>2, <3>3
      <4>2. call' = [call EXCEPT ![c] = [call[c] EXCEPT !.at = to]]
        BY <3>1, <3>3
      <4>3. QED
        BY <4>1, <4>2
    <3>4. QED
      BY <3>2, <3>3
  <2>4. status' \in [Tasks -> TaskStatus] /\ failedOnce' \subseteq Tasks
    BY <1>2, <2>2 DEF AcceptHandler, Claim, Check, Reclaim, Add, Mark, SetStatus,
                      TaskStatus
  <2>5. stream' = stream \/ stream' = Append(stream, call[c].task)
    BY <1>2 DEF AcceptHandler, Claim, Check, Reclaim, Add, Mark
  <2>6. stream' \in Seq(Tasks) /\ Len(stream) <= Len(stream')
    <3>1. stream \in Seq(Tasks) /\ call[c].task \in Tasks
      BY <2>2
    <3>2. QED
      BY ONLY <2>5, <3>1
  <2>7. UNCHANGED <<cursor, pel, worker, counters>>
    BY <1>2 DEF AcceptHandler, Claim, Check, Reclaim, Add, Mark
  <2>8. Linked'
    BY <2>6, <2>7 DEF Linked, Holds
  <2>9. QED
    BY <2>3, <2>4, <2>6, <2>7, <2>8
<1>3. ASSUME CallRaises(c)
      PROVE  LInv'
  <2>1. call' \in [Calls -> [at : CallState \ {"idle"}, task : Tasks, pod : Pods]
                             \cup {NoCall}]
    BY <1>3 DEF CallRaises
  <2>2. QED
    BY <1>3, <2>1 DEF CallRaises, Fault, Linked, Holds
<1>4. QED
  BY <1>1, <1>2, <1>3

\* Setting a status keeps the types of the task hashes.
LEMMA StatusType ==
  ASSUME status \in [Tasks -> TaskStatus], failedOnce \subseteq Tasks,
         NEW t \in Tasks, NEW s \in TaskStatus,
         SetStatus(t, s) \/ SetStatusRaises(t, s)
  PROVE  status' \in [Tasks -> TaskStatus] /\ failedOnce' \subseteq Tasks
BY DEF SetStatus, SetStatusRaises

\* A worker that moves on with the entry it holds, or that held none and still
\* holds none.
LEMMA WorkerGoesKeepsLInv ==
  ASSUME LInv, NEW p \in Pods, NEW from \in WorkerState, NEW to \in WorkerState,
         WorkerGoes(p, from, to),
         from \notin {"down", "dead", "reading"},
         UNCHANGED redisVars
  PROVE  Linked' /\ worker' \in [Pods -> [at : WorkerState, entry : Nat]]
<1>1. worker' \in [Pods -> [at : WorkerState, entry : Nat]]
  BY DEF WorkerGoes, LInv, TypeOK
<1>2. /\ \A q \in Pods : worker'[q].entry = worker[q].entry
      /\ \A q \in Pods : Holds(q)' => Holds(q)
  BY DEF WorkerGoes, Holds, LInv, TypeOK
<1>3. QED
  BY <1>1, <1>2 DEF LInv, Linked, redisVars

\* A worker that lets go of its entry, whether it is acknowledged or not.
LEMMA WorkerDropsKeepsLInv ==
  ASSUME LInv, NEW p \in Pods, NEW to \in {"down", "dead", "reading"},
         worker' = [worker EXCEPT ![p] = [at |-> to, entry |-> 0]],
         pel' \in {pel, pel \ {worker[p].entry}},
         Holds(p) \/ pel' = pel,
         UNCHANGED <<stream, cursor>>
  PROVE  Linked' /\ worker' \in [Pods -> [at : WorkerState, entry : Nat]]
<1>1. worker' \in [Pods -> [at : WorkerState, entry : Nat]]
  BY DEF LInv, TypeOK, WorkerState
<1>2. ~Holds(p)' /\ \A q \in Pods \ {p} : worker'[q] = worker[q]
  BY DEF Holds, LInv, TypeOK
<1>3. \A q \in Pods \ {p} : Holds(q)' = Holds(q)
  BY <1>2 DEF Holds
<1>4. \A q \in Pods : Holds(q)' => worker'[q].entry \in pel'
  BY <1>2, <1>3 DEF LInv, Linked
<1>5. QED
  BY <1>1, <1>2, <1>3, <1>4 DEF LInv, Linked

\* A stop lets go of the entry, acknowledged or not, or cancels a read that may
\* have been answered.
LEMMA StopCases ==
  ASSUME LInv, NEW p \in Pods, Stop(p)
  PROVE  /\ worker' = [worker EXCEPT ![p] = [at |-> "down", entry |-> 0]]
         /\ UNCHANGED <<status, call, posts, faults, starts, failedOnce>>
         /\ cuts' \in {cuts, cuts + 1}
         /\ \/ Deliver /\ worker[p].at = "reading" /\ ~Holds(p) /\ cuts' = cuts + 1
            \/ /\ UNCHANGED <<stream, cursor>>
               /\ pel' \in {pel, pel \ {worker[p].entry}}
               /\ ~Holds(p) => pel' = pel
               /\ (Holds(p) /\ pel' = pel) =>
                    cuts' = cuts + 1 \/ worker[p].entry \notin pel
BY DEF Stop, CutBy, Holds, redisVars, LInv, TypeOK

\* Steps of the workers and of the pods.
LEMMA PodStepKeepsLInv ==
  ASSUME LInv, NEW p \in Pods,
         WorkerLoop(p) \/ WorkerFault(p) \/ Start(p) \/ Stop(p) \/ Crash(p)
  PROVE  LInv'
<1> USE DEF counters
<1>1. CASE Read(p)
  <2>1. /\ Linked'
        /\ worker' \in [Pods -> [at : WorkerState, entry : Nat]]
        /\ cursor' \in Nat /\ pel' \subseteq Nat
    <3>1. /\ cursor \in Nat /\ Len(stream) \in Nat
          /\ cursor < Len(stream) /\ cursor' = cursor + 1
          /\ pel' = pel \cup {cursor + 1}
          /\ stream' = stream
          /\ worker' = [worker EXCEPT ![p] = [at |-> "start", entry |-> cursor + 1]]
      BY <1>1 DEF Read, Deliver, LInv, TypeOK
    <3>2. worker'[p] = [at |-> "start", entry |-> cursor + 1]
          /\ \A q \in Pods \ {p} : worker'[q] = worker[q]
      BY <3>1 DEF LInv, TypeOK
    <3>3. \A q \in Pods \ {p} : /\ Holds(q)' = Holds(q)
                                /\ Holds(q)' => worker'[q].entry \in 1..cursor
      BY <3>2 DEF Holds, LInv, Linked
    <3>4. worker' \in [Pods -> [at : WorkerState, entry : Nat]]
      BY <3>1 DEF LInv, TypeOK, WorkerState
    <3>5. cursor' <= Len(stream') /\ pel' \subseteq 1..cursor'
      BY <3>1 DEF LInv, Linked
    <3>6. \A q \in Pods : Holds(q)' => worker'[q].entry \in pel'
      BY <3>1, <3>2, <3>3 DEF LInv, Linked
    <3>7. \A q, r \in Pods :
            (Holds(q)' /\ Holds(r)' /\ worker'[q].entry = worker'[r].entry) => q = r
      BY <3>1, <3>2, <3>3 DEF LInv, Linked
    <3>8. QED
      BY <3>1, <3>4, <3>5, <3>6, <3>7 DEF Linked
  <2>2. QED
    BY <1>1, <2>1 DEF Read, Deliver, LInv, TypeOK
<1>2. CASE SetProcessing(p) \/ SetCompleted(p) \/ SetFailed(p) \/ SetFailedRaises(p)
           \/ SetStatusInTryRaises(p)
  <2>1. PICK from \in {"start", "complete", "fail"}, to \in WorkerState, s \in TaskStatus :
          /\ WorkerGoes(p, from, to)
          /\ SetStatus(TaskOf(p), s) \/ SetStatusRaises(TaskOf(p), s)
          /\ UNCHANGED <<redisVars, call>>
    BY <1>2 DEF SetProcessing, SetCompleted, SetFailed, SetFailedRaises,
                SetStatusInTryRaises, WorkerState, TaskStatus
  <2>2. posts' \in Nat /\ faults' \in Nat /\ starts' \in Nat /\ cuts' \in Nat
    BY <1>2 DEF SetProcessing, SetCompleted, SetFailed, SetFailedRaises,
                SetStatusInTryRaises, Fault, LInv, TypeOK
  <2>3. Holds(p) /\ from \in WorkerState
    BY <2>1 DEF WorkerGoes, Holds, WorkerState
  <2>4. Linked' /\ worker' \in [Pods -> [at : WorkerState, entry : Nat]]
    BY <2>1, <2>3, WorkerGoesKeepsLInv
  <2>5. status' \in [Tasks -> TaskStatus] /\ failedOnce' \subseteq Tasks
    BY <2>1, <2>3, HeldTask, StatusType DEF LInv, TypeOK
  <2>6. QED
    BY <2>1, <2>2, <2>4, <2>5 DEF LInv, TypeOK, redisVars
<1>3. CASE HandlerReturns(p) \/ HandlerRaises(p)
  <2>1. PICK to \in {"complete", "fail"} : WorkerGoes(p, "handling", to)
    BY <1>3 DEF HandlerReturns, HandlerRaises
  <2>2. UNCHANGED <<redisVars, status, call, counters, failedOnce>>
    BY <1>3 DEF HandlerReturns, HandlerRaises
  <2>3. Linked' /\ worker' \in [Pods -> [at : WorkerState, entry : Nat]]
    BY <2>1, <2>2, WorkerGoesKeepsLInv DEF WorkerState
  <2>4. QED
    BY <2>2, <2>3 DEF LInv, TypeOK, redisVars
<1>4. CASE Ack(p) \/ AckRaises(p) \/ ReconnectRaises(p) \/ Crash(p)
  <2>1. PICK to \in {"down", "dead", "reading"} :
          worker' = [worker EXCEPT ![p] = [at |-> to, entry |-> 0]]
    BY <1>4 DEF Ack, AckRaises, ReconnectRaises, Crash, WorkerDrops
  <2>2. /\ pel' \in {pel, pel \ {worker[p].entry}}
        /\ Holds(p) \/ pel' = pel
        /\ UNCHANGED <<stream, cursor, status, failedOnce>>
    BY <1>4 DEF Ack, AckRaises, ReconnectRaises, Crash, WorkerDrops, redisVars,
                Holds
  <2>3. posts' \in Nat /\ faults' \in Nat /\ starts' \in Nat /\ cuts' \in Nat
    BY <1>4 DEF Ack, AckRaises, ReconnectRaises, Crash, Fault, LInv, TypeOK
  <2>4. call' \in [Calls -> [at : CallState \ {"idle"}, task : Tasks, pod : Pods]
                             \cup {NoCall}]
    BY <1>4 DEF Ack, AckRaises, ReconnectRaises, Crash, LInv, TypeOK
  <2>5. Linked' /\ worker' \in [Pods -> [at : WorkerState, entry : Nat]]
    BY <2>1, <2>2, WorkerDropsKeepsLInv
  <2>6. QED
    BY <2>2, <2>3, <2>4, <2>5 DEF LInv, TypeOK
<1>5. CASE ReadReplyLost(p)
  <2>1. /\ cursor \in Nat /\ Len(stream) \in Nat
        /\ cursor < Len(stream) /\ cursor' = cursor + 1
        /\ pel' = pel \cup {cursor + 1}
        /\ UNCHANGED <<stream, status, worker, call, failedOnce, posts, starts, cuts>>
        /\ faults' \in Nat
    BY <1>5 DEF ReadReplyLost, Deliver, Fault, LInv, TypeOK
  <2>2. Linked'
    BY <2>1 DEF LInv, Linked, Holds
  <2>3. QED
    BY <2>1, <2>2 DEF LInv, TypeOK
<1>6. CASE Start(p)
  <2>1. /\ worker' = [worker EXCEPT ![p] = [at |-> "reading", entry |-> 0]]
        /\ UNCHANGED <<redisVars, status, call, posts, faults, cuts, failedOnce>>
        /\ starts' \in Nat
    BY <1>6 DEF Start, LInv, TypeOK
  <2>2. Linked' /\ worker' \in [Pods -> [at : WorkerState, entry : Nat]]
    BY <2>1, WorkerDropsKeepsLInv DEF redisVars
  <2>3. QED
    BY <2>1, <2>2 DEF LInv, TypeOK, redisVars
<1>7. CASE Stop(p)
  <2>1. /\ worker' = [worker EXCEPT ![p] = [at |-> "down", entry |-> 0]]
        /\ UNCHANGED <<status, call, posts, faults, starts, failedOnce>>
        /\ cuts' \in Nat
    BY <1>7, StopCases DEF LInv, TypeOK
  <2>2. CASE /\ UNCHANGED <<stream, cursor>>
             /\ pel' \in {pel, pel \ {worker[p].entry}}
             /\ ~Holds(p) => pel' = pel
    <3>1. Linked' /\ worker' \in [Pods -> [at : WorkerState, entry : Nat]]
      BY <2>1, <2>2, WorkerDropsKeepsLInv
    <3>2. QED
      BY <2>1, <2>2, <3>1 DEF LInv, TypeOK
  <2>3. CASE Deliver
    <3>1. /\ cursor \in Nat /\ Len(stream) \in Nat
          /\ cursor < Len(stream) /\ cursor' = cursor + 1
          /\ pel' = pel \cup {cursor + 1} /\ UNCHANGED stream
      BY <2>3 DEF Deliver, LInv, TypeOK
    <3>2. /\ worker' \in [Pods -> [at : WorkerState, entry : Nat]]
          /\ \A q \in Pods : Holds(q)' => Holds(q) /\ worker'[q] = worker[q]
      BY <2>1 DEF Holds, LInv, TypeOK, WorkerState
    <3>3. Linked'
      BY <3>1, <3>2 DEF LInv, Linked
    <3>4. QED
      BY <2>1, <3>1, <3>2, <3>3 DEF LInv, TypeOK
  <2>4. QED
    BY <1>7, <2>2, <2>3, StopCases
<1>8. QED
  BY <1>1, <1>2, <1>3, <1>4, <1>5, <1>6, <1>7 DEF WorkerLoop, WorkerFault

\* LInv is inductive.
LEMMA NextKeepsLInv == LInv /\ [Next]_vars => LInv'
<1> SUFFICES ASSUME LInv, [Next]_vars
             PROVE  LInv'
  OBVIOUS
<1>1. CASE Next
  BY <1>1, CallStepKeepsLInv, PodStepKeepsLInv DEF Next
<1>2. CASE UNCHANGED vars
  BY <1>2 DEF vars, LInv, TypeOK, Linked, Holds
<1>3. QED
  BY <1>1, <1>2

THEOREM LInvariance == Spec => []LInv
<1>1. QED
  BY InitLInv, NextKeepsLInv, PTL DEF Spec

\* The variables keep their types.
THEOREM TypeCorrect == Spec => []TypeOK
<1>1. LInv => TypeOK
  BY DEF LInv
<1>2. QED
  BY <1>1, LInvariance, PTL

\* No entry is in two hands, whatever pods and commands fail.
THEOREM OneHolder == Spec => []HeldByOne
<1>1. LInv => HeldByOne
  BY DEF LInv, Linked, HeldByOne, Held
<1>2. QED
  BY <1>1, LInvariance, PTL

------------------------------------------------------------------------------
(* Claims and entries.                                                     *)

LEMMA InitCInv == Init => CInv
<1> SUFFICES ASSUME Init PROVE CInv
  OBVIOUS
<1>1. Entries = {}
  BY DEF Init, Entries
<1>2. \A c \in Calls : call[c] = [at |-> "idle", task |-> None, pod |-> None]
  BY DEF Init, NoCall
<1>3. \A t \in Tasks : status[t] = "none" /\ t # None
  BY NoneIsNothing DEF Init
<1>4. ClaimedOnce
  BY <1>1, <1>2, <1>3
     DEF ClaimedOnce, Unclaimed, FailedIsRecorded, AddsOnce, OneEntryUnlessFailed
<1>5. QED
  BY <1>4, InitLInv DEF CInv

\* A status that is set for a task beyond its claim, with no change of stream
\* and handlers.
LEMMA SetStatusKeepsClaimedOnce ==
  ASSUME CInv, NEW t \in Tasks, NEW s \in TaskStatus \ {"none"},
         status[t] # "none",
         SetStatus(t, s) \/ SetStatusRaises(t, s),
         UNCHANGED <<stream, call>>
  PROVE  ClaimedOnce'
<1>1. /\ failedOnce \subseteq failedOnce'
      /\ \A u \in Tasks : status'[u] = "failed" => u \in failedOnce'
      /\ \A u \in Tasks : status'[u] = "none" => status[u] = "none"
  BY DEF SetStatus, SetStatusRaises, CInv, LInv, TypeOK, ClaimedOnce, FailedIsRecorded
<1>2. Entries' = Entries
  BY DEF Entries
<1>3. QED
  BY <1>1, <1>2 DEF CInv, ClaimedOnce, Unclaimed, FailedIsRecorded, AddsOnce,
                    OneEntryUnlessFailed

\* Handlers that end, with no change of anything else.
LEMMA EndingKeepsClaimedOnce ==
  ASSUME CInv,
         \A c \in Calls : call'[c] = call[c] \/ call'[c] = NoCall,
         UNCHANGED <<stream, status, failedOnce>>
  PROVE  ClaimedOnce'
<1>1. \A c \in Calls : /\ call'[c].at \in {call[c].at, "idle"}
                       /\ call'[c].at # "idle" => call'[c] = call[c]
                       /\ call'[c].task \in Tasks => call'[c] = call[c]
  BY NoneIsNothing DEF NoCall
<1>2. Entries' = Entries
  BY DEF Entries
<1>3. Unclaimed'
  BY <1>1, <1>2 DEF CInv, ClaimedOnce, Unclaimed
<1>4. FailedIsRecorded'
  BY <1>1 DEF CInv, ClaimedOnce, FailedIsRecorded
<1>5. AddsOnce'
  BY <1>1, <1>2 DEF CInv, ClaimedOnce, AddsOnce
<1>6. OneEntryUnlessFailed'
  BY <1>2 DEF CInv, ClaimedOnce, OneEntryUnlessFailed
<1>7. QED
  BY <1>3, <1>4, <1>5, <1>6 DEF ClaimedOnce

\* A handler past its test of "idle" is at work on a task.
LEMMA CallTask ==
  ASSUME LInv, NEW c \in Calls, call[c].at # "idle"
  PROVE  call[c] \in [at : CallState \ {"idle"}, task : Tasks, pod : Pods]
BY DEF LInv, TypeOK, NoCall

LEMMA CallStepKeepsClaimedOnce ==
  ASSUME CInv, NEW c \in Calls, AcceptHandler(c)
  PROVE  ClaimedOnce'
<1> PICK t : t = call[c].task
  OBVIOUS
<1>1. /\ call[c] \in [at : CallState \ {"idle"}, task : Tasks, pod : Pods]
      /\ t \in Tasks
  <2>1. call[c].at # "idle"
    BY DEF AcceptHandler, Claim, Check, Reclaim, Add, Mark, CallGoes
  <2>2. QED
    BY <2>1, CallTask DEF CInv
<1>2. ASSUME NEW from, NEW to \in CallState \ {"idle"}, CallGoes(c, from, to)
      PROVE  /\ call'[c].at = to /\ call'[c].task = t
             /\ \A d \in Calls \ {c} : call'[d] = call[d]
             /\ \A d \in Calls : call'[d].task = call[d].task
  BY <1>1, <1>2 DEF CallGoes, CInv, LInv, TypeOK
<1>3. CASE Claim(c) /\ status[t] = "none"
  <2>1. CallGoes(c, "claim", "add") /\ SetStatus(t, "queued")
        /\ UNCHANGED <<stream, failedOnce>>
    BY <1>3 DEF Claim, SetStatus, redisVars
  <2>2. /\ call'[c].at = "add" /\ call'[c].task = t
        /\ \A d \in Calls \ {c} : call'[d] = call[d]
        /\ \A d \in Calls : call'[d].task = call[d].task
    BY <2>1, <1>2 DEF CallState
  <2>3. /\ status'[t] = "queued"
        /\ \A u \in Tasks \ {t} : status'[u] = status[u]
        /\ Entries' = Entries
    BY <2>1, <1>1 DEF SetStatus, CInv, LInv, TypeOK, Entries
  <2>4. /\ \A e \in Entries : stream[e] # t
        /\ \A d \in Calls : call[d].task = t => call[d].at = "claim"
    BY <1>1, <1>3 DEF CInv, ClaimedOnce, Unclaimed
  <2>5. Unclaimed'
    BY <2>1, <2>2, <2>3 DEF CInv, ClaimedOnce, Unclaimed
  <2>6. FailedIsRecorded'
    BY <2>1, <2>2, <2>3 DEF CInv, ClaimedOnce, FailedIsRecorded
  <2>7. AddsOnce'
    BY <2>1, <2>2, <2>3, <2>4 DEF CInv, ClaimedOnce, AddsOnce
  <2>8. OneEntryUnlessFailed'
    BY <2>1, <2>3 DEF CInv, ClaimedOnce, OneEntryUnlessFailed
  <2>9. QED
    BY <2>5, <2>6, <2>7, <2>8 DEF ClaimedOnce
<1>4. CASE (Claim(c) /\ status[t] # "none") \/ (Check(c) /\ status[t] = "failed")
  <2>1. PICK from \in {"claim", "check"}, to \in {"check", "reclaim"} :
          /\ CallGoes(c, from, to)
          /\ status[t] # "none"
          /\ to = "reclaim" => status[t] = "failed"
          /\ UNCHANGED <<stream, status, failedOnce>>
    BY <1>4 DEF Claim, Check, redisVars
  <2>2. /\ call'[c].at = to /\ call'[c].task = t
        /\ \A d \in Calls \ {c} : call'[d] = call[d]
        /\ \A d \in Calls : call'[d].task = call[d].task
    BY <2>1, <1>2 DEF CallState
  <2>3. Entries' = Entries
    BY <2>1 DEF Entries
  <2>4. Unclaimed'
    BY <2>1, <2>2, <2>3 DEF CInv, ClaimedOnce, Unclaimed
  <2>5. FailedIsRecorded'
    BY <1>1, <2>1, <2>2 DEF CInv, ClaimedOnce, FailedIsRecorded
  <2>6. AddsOnce'
    BY <2>1, <2>2, <2>3 DEF CInv, ClaimedOnce, AddsOnce
  <2>7. OneEntryUnlessFailed'
    BY <2>1, <2>3 DEF CInv, ClaimedOnce, OneEntryUnlessFailed
  <2>8. QED
    BY <2>4, <2>5, <2>6, <2>7 DEF ClaimedOnce
<1>5. CASE Check(c) /\ status[t] # "failed"
  <2>1. CallGoes(c, "check", "idle") /\ UNCHANGED <<stream, status, failedOnce>>
    BY <1>5 DEF Check, redisVars
  <2>2. QED
    BY <2>1, EndingKeepsClaimedOnce DEF CallGoes, CInv, LInv, TypeOK
<1>6. CASE Reclaim(c)
  <2>1. CallGoes(c, "reclaim", "add") /\ SetStatus(t, "queued")
        /\ UNCHANGED <<stream, failedOnce>>
    BY <1>6 DEF Reclaim, SetStatus, redisVars
  <2>2. /\ call'[c].at = "add" /\ call'[c].task = t
        /\ \A d \in Calls \ {c} : call'[d] = call[d]
        /\ \A d \in Calls : call'[d].task = call[d].task
    BY <2>1, <1>2 DEF CallState
  <2>3. /\ status'[t] = "queued"
        /\ \A u \in Tasks \ {t} : status'[u] = status[u]
        /\ Entries' = Entries
    BY <2>1, <1>1 DEF SetStatus, CInv, LInv, TypeOK, Entries
  <2>4. t \in failedOnce
    BY <2>1 DEF CallGoes, CInv, ClaimedOnce, FailedIsRecorded
  <2>5. Unclaimed'
    BY <2>1, <2>2, <2>3 DEF CInv, ClaimedOnce, Unclaimed
  <2>6. FailedIsRecorded'
    BY <2>1, <2>2, <2>3 DEF CInv, ClaimedOnce, FailedIsRecorded
  <2>7. AddsOnce'
    BY <2>1, <2>2, <2>3, <2>4 DEF CInv, ClaimedOnce, AddsOnce
  <2>8. OneEntryUnlessFailed'
    BY <2>1, <2>3 DEF CInv, ClaimedOnce, OneEntryUnlessFailed
  <2>9. QED
    BY <2>5, <2>6, <2>7, <2>8 DEF ClaimedOnce
<1>7. CASE Add(c)
  <2>1. CallGoes(c, "add", "mark") /\ stream' = Append(stream, t)
        /\ UNCHANGED <<status, failedOnce>>
    BY <1>7 DEF Add
  <2>2. /\ call'[c].at = "mark" /\ call'[c].task = t
        /\ \A d \in Calls \ {c} : call'[d] = call[d]
        /\ \A d \in Calls : call'[d].task = call[d].task
    BY <2>1, <1>2 DEF CallState
  <2>3. /\ Entries' = Entries \cup {Len(stream) + 1}
        /\ Len(stream) + 1 \notin Entries
        /\ stream'[Len(stream) + 1] = t
        /\ \A e \in Entries : stream'[e] = stream[e]
    BY <2>1, <1>1 DEF CInv, LInv, TypeOK, Entries
  <2>4. /\ status[t] # "none"
        /\ t \notin failedOnce => \A e \in Entries : stream[e] # t
        /\ t \notin failedOnce =>
             \A d \in Calls : (call[d].at = "add" /\ call[d].task = t) => c = d
    BY <1>1, <2>1 DEF CallGoes, CInv, ClaimedOnce, Unclaimed, AddsOnce
  <2>5. Unclaimed'
    <3> SUFFICES ASSUME NEW u \in Tasks, status'[u] = "none"
                 PROVE  /\ \A e \in Entries' : stream'[e] # u
                        /\ \A d \in Calls : call'[d].task = u => call'[d].at = "claim"
      BY DEF Unclaimed
    <3>1. /\ \A e \in Entries : stream[e] # u
          /\ \A d \in Calls : call[d].task = u => call[d].at = "claim"
          /\ u # t
      BY <2>1, <2>4 DEF CInv, ClaimedOnce, Unclaimed
    <3>2. QED
      BY <3>1, <2>2, <2>3
  <2>6. FailedIsRecorded'
    BY <2>1, <2>2 DEF CInv, ClaimedOnce, FailedIsRecorded
  <2>7. AddsOnce'
    <3> SUFFICES ASSUME NEW d \in Calls, call'[d].at = "add",
                        call'[d].task \notin failedOnce'
                 PROVE  /\ \A e \in Entries' : stream'[e] # call'[d].task
                        /\ \A f \in Calls : (call'[f].at = "add"
                                               /\ call'[f].task = call'[d].task) => d = f
      BY DEF AddsOnce
    <3>1. d # c /\ call'[d] = call[d] /\ call[d].task \notin failedOnce
      BY <2>1, <2>2
    <3>2. /\ \A e \in Entries : stream[e] # call[d].task
          /\ \A f \in Calls :
               (call[f].at = "add" /\ call[f].task = call[d].task) => d = f
      BY <3>1 DEF CInv, ClaimedOnce, AddsOnce
    <3>3. call[d].task # t
      BY <3>1, <3>2, <2>1 DEF CallGoes
    <3>4. QED
      BY <3>1, <3>2, <3>3, <2>2, <2>3
  <2>8. OneEntryUnlessFailed'
    <3> SUFFICES ASSUME NEW i \in Entries', NEW j \in Entries', i # j,
                        stream'[i] = stream'[j], stream'[i] \notin failedOnce'
                 PROVE  FALSE
      BY DEF OneEntryUnlessFailed
    <3>1. CASE i \in Entries /\ j \in Entries
      BY <3>1, <2>1, <2>3 DEF CInv, ClaimedOnce, OneEntryUnlessFailed
    <3>2. CASE i \notin Entries \/ j \notin Entries
      BY <3>2, <2>1, <2>3, <2>4
    <3>3. QED
      BY <3>1, <3>2
  <2>9. QED
    BY <2>5, <2>6, <2>7, <2>8 DEF ClaimedOnce
<1>8. CASE Mark(c)
  <2>1. CallGoes(c, "mark", "idle") /\ SetStatus(t, "queued")
        /\ UNCHANGED <<stream, failedOnce>>
    BY <1>8 DEF Mark, SetStatus, redisVars
  <2>2. \A d \in Calls : /\ d # c => call'[d] = call[d]
                         /\ call'[c] = NoCall
    BY <2>1 DEF CallGoes, CInv, LInv, TypeOK
  <2>3. \A d \in Calls : /\ call'[d].at \in {call[d].at, "idle"}
                         /\ call'[d].at # "idle" => call'[d] = call[d]
                         /\ call'[d].task \in Tasks => call'[d] = call[d]
    BY <2>2, NoneIsNothing DEF NoCall
  <2>4. /\ status'[t] = "queued"
        /\ \A u \in Tasks \ {t} : status'[u] = status[u]
        /\ Entries' = Entries
    BY <2>1, <1>1 DEF SetStatus, CInv, LInv, TypeOK, Entries
  <2>5. Unclaimed'
    BY <2>1, <2>3, <2>4 DEF CInv, ClaimedOnce, Unclaimed
  <2>6. FailedIsRecorded'
    BY <2>1, <2>3, <2>4 DEF CInv, ClaimedOnce, FailedIsRecorded
  <2>7. AddsOnce'
    BY <2>1, <2>3, <2>4 DEF CInv, ClaimedOnce, AddsOnce
  <2>8. OneEntryUnlessFailed'
    BY <2>1, <2>4 DEF CInv, ClaimedOnce, OneEntryUnlessFailed
  <2>9. QED
    BY <2>5, <2>6, <2>7, <2>8 DEF ClaimedOnce
<1>9. QED
  BY <1>3, <1>4, <1>5, <1>6, <1>7, <1>8 DEF AcceptHandler

\* The workers touch the claims only through the status of a task that has an
\* entry.
LEMMA PodStepKeepsClaimedOnce ==
  ASSUME CInv, NEW p \in Pods,
         WorkerLoop(p) \/ WorkerFault(p) \/ Start(p) \/ Stop(p) \/ Crash(p)
  PROVE  ClaimedOnce'
<1>1. CASE SetProcessing(p) \/ SetCompleted(p) \/ SetFailed(p) \/ SetFailedRaises(p)
           \/ SetStatusInTryRaises(p)
  <2>1. PICK s \in TaskStatus \ {"none"} :
          /\ SetStatus(TaskOf(p), s) \/ SetStatusRaises(TaskOf(p), s)
          /\ UNCHANGED <<stream, call>>
    BY <1>1 DEF SetProcessing, SetCompleted, SetFailed, SetFailedRaises,
                SetStatusInTryRaises, TaskStatus, redisVars
  <2>2. Holds(p)
    BY <1>1 DEF SetProcessing, SetCompleted, SetFailed, SetFailedRaises,
                SetStatusInTryRaises, WorkerGoes, Holds
  <2>3. worker[p].entry \in Entries /\ TaskOf(p) \in Tasks
    BY <2>2, HeldTask DEF CInv
  <2>4. status[TaskOf(p)] # "none"
    BY <2>3 DEF CInv, ClaimedOnce, Unclaimed, TaskOf
  <2>5. QED
    BY <2>1, <2>3, <2>4, SetStatusKeepsClaimedOnce
<1>2. CASE Read(p) \/ ReadReplyLost(p) \/ ReconnectRaises(p) \/ HandlerReturns(p)
           \/ HandlerRaises(p) \/ Ack(p) \/ AckRaises(p) \/ Start(p) \/ Stop(p)
  <2>1. UNCHANGED <<stream, status, call, failedOnce>>
    BY <1>2 DEF Read, ReadReplyLost, Deliver, ReconnectRaises, HandlerReturns,
                HandlerRaises, Ack, AckRaises, Start, Stop, redisVars
  <2>2. QED
    BY <2>1, EndingKeepsClaimedOnce
<1>3. CASE Crash(p)
  <2>1. /\ \A c \in Calls : call'[c] = call[c] \/ call'[c] = NoCall
        /\ UNCHANGED <<stream, status, failedOnce>>
    BY <1>3 DEF Crash, redisVars
  <2>2. QED
    BY <2>1, EndingKeepsClaimedOnce
<1>4. QED
  BY <1>1, <1>2, <1>3 DEF WorkerLoop, WorkerFault

\* A POST adds a handler that has claimed nothing yet.
LEMMA PostKeepsClaimedOnce ==
  ASSUME CInv, NEW c \in Calls, NEW p \in Pods, NEW t \in Tasks, Post(c, p, t)
  PROVE  ClaimedOnce'
<1>1. /\ call'[c].at = "claim" /\ call'[c].task = t
      /\ \A d \in Calls \ {c} : call'[d] = call[d]
      /\ UNCHANGED <<stream, status, failedOnce>>
  BY DEF Post, redisVars, CInv, LInv, TypeOK
<1>2. Entries' = Entries
  BY <1>1 DEF Entries
<1>3. Unclaimed'
  BY <1>1, <1>2 DEF CInv, ClaimedOnce, Unclaimed
<1>4. FailedIsRecorded'
  BY <1>1 DEF CInv, ClaimedOnce, FailedIsRecorded
<1>5. AddsOnce'
  BY <1>1, <1>2 DEF CInv, ClaimedOnce, AddsOnce
<1>6. OneEntryUnlessFailed'
  BY <1>1, <1>2 DEF CInv, ClaimedOnce, OneEntryUnlessFailed
<1>7. QED
  BY <1>3, <1>4, <1>5, <1>6 DEF ClaimedOnce

\* CInv is inductive.
LEMMA NextKeepsCInv == CInv /\ [Next]_vars => CInv'
<1> SUFFICES ASSUME CInv, [Next]_vars
             PROVE  CInv'
  OBVIOUS
<1>1. LInv'
  BY NextKeepsLInv DEF CInv
<1>2. ASSUME NEW c \in Calls, CallRaises(c)
      PROVE  ClaimedOnce'
  <2>1. /\ \A d \in Calls : call'[d] = call[d] \/ call'[d] = NoCall
        /\ UNCHANGED <<stream, status, failedOnce>>
    BY <1>2 DEF CallRaises, redisVars, CInv, LInv, TypeOK
  <2>2. QED
    BY <2>1, EndingKeepsClaimedOnce
<1>3. ASSUME UNCHANGED vars
      PROVE  ClaimedOnce'
  <2>1. /\ \A d \in Calls : call'[d] = call[d] \/ call'[d] = NoCall
        /\ UNCHANGED <<stream, status, failedOnce>>
    BY <1>3 DEF vars
  <2>2. QED
    BY <2>1, EndingKeepsClaimedOnce
<1>4. ASSUME NEW c \in Calls, NEW p \in Pods, NEW t \in Tasks, Post(c, p, t)
      PROVE  ClaimedOnce'
  BY <1>4, PostKeepsClaimedOnce
<1>5. ASSUME NEW c \in Calls, AcceptHandler(c)
      PROVE  ClaimedOnce'
  BY <1>5, CallStepKeepsClaimedOnce
<1>6. ASSUME NEW p \in Pods,
             WorkerLoop(p) \/ WorkerFault(p) \/ Start(p) \/ Stop(p) \/ Crash(p)
      PROVE  ClaimedOnce'
  BY <1>6, PodStepKeepsClaimedOnce
<1>7. ClaimedOnce'
  BY <1>2, <1>3, <1>4, <1>5, <1>6 DEF Next
<1>8. QED
  BY <1>1, <1>7 DEF CInv

\* A task id is enqueued once, unless it failed in between: the claim works
\* across pods, through crashes and commands whose outcome is not known.
THEOREM ClaimIsExclusive == Spec => []OneEntryUnlessFailed
<1>1. CInv => OneEntryUnlessFailed
  BY DEF CInv, ClaimedOnce
<1>2. QED
  BY <1>1, InitCInv, NextKeepsCInv, PTL DEF Spec

------------------------------------------------------------------------------
(* Refused POSTs, lost entries.                                            *)

\* Without a fault every handler that claimed a task goes on to add its entry.
LEMMA NextKeepsBacked == CInv /\ ClaimIsBacked /\ [Next]_vars => ClaimIsBacked'
<1> SUFFICES ASSUME CInv, ClaimIsBacked, [Next]_vars, faults' = 0,
                    NEW t \in Tasks, status'[t] # "none"
             PROVE  \/ \E e \in Entries' : stream'[e] = t
                    \/ \E c \in Calls : call'[c].task = t /\ call'[c].at = "add"
  BY DEF ClaimIsBacked
<1>1. /\ faults \in Nat /\ Len(stream) \in Nat
      /\ status \in [Tasks -> TaskStatus]
      /\ \A u \in Tasks : status[u] # "none" =>
           \/ faults # 0
           \/ \E e \in Entries : stream[e] = u
           \/ \E c \in Calls : call[c].task = u /\ call[c].at = "add"
  BY DEF CInv, LInv, TypeOK, ClaimIsBacked
<1>2. ASSUME NEW c \in Calls, AcceptHandler(c)
      PROVE  \/ \E e \in Entries' : stream'[e] = t
             \/ \E d \in Calls : call'[d].task = t /\ call'[d].at = "add"
  <2>1. call[c] \in [at : CallState \ {"idle"}, task : Tasks, pod : Pods]
    <3>1. call[c].at # "idle"
      BY <1>2 DEF AcceptHandler, Claim, Check, Reclaim, Add, Mark, CallGoes
    <3>2. QED
      BY <3>1, CallTask DEF CInv
  <2>2. faults = 0
    BY <1>2 DEF AcceptHandler, Claim, Check, Reclaim, Add, Mark, counters
  <2>3. CASE Add(c)
    <3>1. /\ stream' = Append(stream, call[c].task) /\ call[c].at = "add"
          /\ UNCHANGED status
          /\ \A d \in Calls \ {c} : call'[d] = call[d]
      BY <2>3 DEF Add, CallGoes, CInv, LInv, TypeOK
    <3>2. /\ Len(stream) + 1 \in Entries' /\ stream'[Len(stream) + 1] = call[c].task
          /\ \A e \in Entries : e \in Entries' /\ stream'[e] = stream[e]
      BY <3>1, <2>1 DEF Entries, CInv, LInv, TypeOK
    <3>3. \/ \E e \in Entries : stream[e] = t
          \/ \E d \in Calls : call[d].task = t /\ call[d].at = "add"
      BY <3>1, <2>2, <1>1
    <3>4. CASE \E e \in Entries : stream[e] = t
      BY <3>2, <3>4
    <3>5. ASSUME NEW d \in Calls, call[d].task = t, call[d].at = "add"
          PROVE  \/ \E e \in Entries' : stream'[e] = t
                 \/ \E f \in Calls : call'[f].task = t /\ call'[f].at = "add"
      BY <3>1, <3>2, <3>5
    <3>6. QED
      BY <3>3, <3>4, <3>5
  <2>4. CASE Claim(c) \/ Check(c) \/ Reclaim(c) \/ Mark(c)
    <3>1. /\ UNCHANGED stream
          /\ call[c].at # "add"
          /\ \A d \in Calls \ {c} : call'[d] = call[d]
      BY <2>4 DEF Claim, Check, Reclaim, Mark, CallGoes, CInv, LInv, TypeOK, redisVars
    <3>2. Entries' = Entries
      BY <3>1 DEF Entries
    <3>3. CASE status[t] # "none"
      BY <3>1, <3>2, <3>3, <2>2, <1>1
    <3>4. CASE status[t] = "none"
      <4>1. \A d \in Calls : call[d].task = t => call[d].at = "claim"
        BY <3>4 DEF CInv, ClaimedOnce, Unclaimed
      <4>2. call[c].task = t
        BY <2>4, <2>1, <3>4, <1>1 DEF Claim, Check, Reclaim, Mark, SetStatus
      <4>3. Claim(c)
        BY <2>4, <4>1, <4>2 DEF Check, Reclaim, Mark, CallGoes
      <4>4. CallGoes(c, "claim", "add")
        BY <4>3, <4>2, <3>4 DEF Claim
      <4>5. call'[c].task = t /\ call'[c].at = "add"
        BY <4>4, <4>2, <2>1 DEF CallGoes, CInv, LInv, TypeOK
      <4>6. QED
        BY <4>5
    <3>5. QED
      BY <3>3, <3>4
  <2>5. QED
    BY <1>2, <2>3, <2>4 DEF AcceptHandler
<1>3. ASSUME NEW c \in Calls, NEW p \in Pods, NEW u \in Tasks, Post(c, p, u)
      PROVE  \/ \E e \in Entries' : stream'[e] = t
             \/ \E d \in Calls : call'[d].task = t /\ call'[d].at = "add"
  <2>1. /\ call[c].at = "idle"
        /\ \A d \in Calls \ {c} : call'[d] = call[d]
        /\ UNCHANGED <<stream, status, faults>>
    BY <1>3 DEF Post, redisVars, CInv, LInv, TypeOK
  <2>2. QED
    BY <2>1, <1>1 DEF Entries
<1>4. ASSUME NEW p \in Pods,
             WorkerLoop(p) \/ WorkerFault(p) \/ Start(p) \/ Stop(p) \/ Crash(p)
      PROVE  \/ \E e \in Entries' : stream'[e] = t
             \/ \E d \in Calls : call'[d].task = t /\ call'[d].at = "add"
  <2>1. /\ WorkerLoop(p) \/ Start(p) \/ Stop(p)
        /\ faults = 0
    BY <1>1, <1>4 DEF WorkerFault, WorkerLoop, ReadReplyLost, ReconnectRaises,
         SetStatusInTryRaises, SetFailedRaises, AckRaises, Crash, Fault, Start, Stop,
         Read, SetProcessing, HandlerReturns, HandlerRaises, SetCompleted, SetFailed,
         Ack, counters
  <2>2. UNCHANGED <<stream, call>>
    BY <2>1 DEF WorkerLoop, Start, Stop, Read, Deliver, SetProcessing, HandlerReturns,
                HandlerRaises, SetCompleted, SetFailed, Ack, redisVars
  <2>3. CASE UNCHANGED status
    BY <2>1, <2>2, <2>3, <1>1 DEF Entries
  <2>4. CASE SetProcessing(p) \/ SetCompleted(p) \/ SetFailed(p)
    <3>1. worker[p].entry \in Entries
      BY <2>4, HeldTask DEF SetProcessing, SetCompleted, SetFailed, WorkerGoes, Holds,
                            CInv
    <3>2. t = TaskOf(p) \/ status'[t] = status[t]
      BY <2>4, <1>1 DEF SetProcessing, SetCompleted, SetFailed, SetStatus
    <3>3. QED
      BY <2>1, <2>2, <3>1, <3>2, <1>1 DEF Entries, TaskOf
  <2>5. QED
    BY <2>1, <2>3, <2>4 DEF WorkerLoop, Start, Stop, Read, HandlerReturns,
                            HandlerRaises, Ack
<1>5. ASSUME NEW c \in Calls, CallRaises(c)
      PROVE  FALSE
  BY <1>5, <1>1 DEF CallRaises, Fault
<1>6. CASE UNCHANGED vars
  BY <1>6, <1>1 DEF vars, Entries
<1>7. QED
  BY <1>2, <1>3, <1>4, <1>5, <1>6 DEF Next

\* While no fault has occurred, a POST is refused as a duplicate only when its
\* task has an entry or is about to get one.
THEOREM DuplicatesAreBacked == Spec => []ClaimIsBacked
<1>1. Init => ClaimIsBacked
  BY DEF Init, ClaimIsBacked
<1>2. CInv /\ ClaimIsBacked /\ [Next]_vars => (CInv /\ ClaimIsBacked)'
  BY NextKeepsCInv, NextKeepsBacked
<1>3. QED
  BY <1>1, <1>2, InitCInv, PTL DEF Spec

\* What is held after one worker lets go.
LEMMA HeldAfterDrop ==
  ASSUME LInv, NEW p \in Pods, NEW to \in {"down", "dead", "reading"},
         worker' = [worker EXCEPT ![p] = [at |-> to, entry |-> 0]]
  PROVE  /\ Held \ {worker[p].entry} \subseteq Held'
         /\ ~Holds(p) => Held \subseteq Held'
<1>1. \A q \in Pods \ {p} : worker'[q] = worker[q] /\ Holds(q)' = Holds(q)
  BY DEF Holds, LInv, TypeOK
<1>2. QED
  BY <1>1 DEF Held

\* The count of lost entries, seen as a change of a finite set.
LEMMA OneMore ==
  ASSUME NEW A, NEW B, IsFiniteSet(A), NEW n \in Nat, Cardinality(A) <= n,
         NEW m \in Nat,
         \/ B \subseteq A /\ n <= m
         \/ \E x : B \subseteq A \cup {x} /\ m = n + 1
  PROVE  Cardinality(B) <= m
<1>1. CASE B \subseteq A /\ n <= m
  <2>1. Cardinality(B) <= Cardinality(A) /\ Cardinality(A) \in Nat
        /\ Cardinality(B) \in Nat
    BY <1>1, FS_Subset, FS_CardinalityType
  <2>2. QED
    BY <1>1, <2>1
<1>2. ASSUME NEW x, B \subseteq A \cup {x}, m = n + 1
      PROVE  Cardinality(B) <= m
  <2>1. /\ IsFiniteSet(A \cup {x})
        /\ Cardinality(A \cup {x}) \in {Cardinality(A), Cardinality(A) + 1}
    BY FS_AddElement
  <2>2. IsFiniteSet(B) /\ Cardinality(B) <= Cardinality(A \cup {x})
    BY <1>2, <2>1, FS_Subset
  <2>3. Cardinality(A) \in Nat /\ Cardinality(B) \in Nat
    BY <2>2, FS_CardinalityType
  <2>4. QED
    BY <1>2, <2>1, <2>2, <2>3
<1>3. QED
  BY <1>1, <1>2

LEMMA SumIsNat == ASSUME NEW a \in Nat, NEW b \in Nat PROVE a + b \in Nat
OBVIOUS

LEMMA OneMoreCause ==
  ASSUME NEW a \in Nat, NEW b \in Nat, NEW m \in {b, b + 1}
  PROVE  a + b <= a + m
<1>1. m = b \/ m = b + 1
  OBVIOUS
<1>2. QED
  BY <1>1

\* One step leaves at most one more entry without a holder, and only a fault or
\* a stop that cuts a command does.
LEMMA OrphansOfStep ==
  ASSUME LInv, [Next]_vars
  PROVE  \/ Orphans' \subseteq Orphans /\ faults + cuts <= faults' + cuts'
         \/ \E e : Orphans' \subseteq Orphans \cup {e} /\ faults' + cuts' = faults + cuts + 1
<1>1. ASSUME NEW c \in Calls,
             \/ \E p \in Pods, t \in Tasks : Post(c, p, t)
             \/ AcceptHandler(c)
             \/ CallRaises(c)
      PROVE  Orphans' \subseteq Orphans /\ faults + cuts <= faults' + cuts'
  BY <1>1 DEF Post, AcceptHandler, Claim, Check, Reclaim, Add, Mark, CallRaises, Fault,
              counters, redisVars, LInv, TypeOK, Orphans, Held, Holds
<1>2. ASSUME NEW p \in Pods, Read(p)
      PROVE  Orphans' \subseteq Orphans /\ faults' + cuts' = faults + cuts
  <2>1. /\ worker[p].at = "reading"
        /\ worker'[p] = [at |-> "start", entry |-> cursor + 1]
        /\ \A q \in Pods \ {p} : worker'[q] = worker[q]
        /\ pel' = pel \cup {cursor + 1}
        /\ faults' + cuts' = faults + cuts
    BY <1>2 DEF Read, Deliver, counters, LInv, TypeOK
  <2>2. /\ \A q \in Pods : Holds(q) => Holds(q)' /\ worker'[q] = worker[q]
        /\ Holds(p)' /\ worker'[p].entry = cursor + 1
    BY <2>1 DEF Holds
  <2>3. Held \cup {cursor + 1} \subseteq Held'
    BY <2>2 DEF Held
  <2>4. QED
    BY <2>1, <2>3 DEF Orphans
<1>3. ASSUME NEW p \in Pods,
             \/ SetProcessing(p) \/ HandlerReturns(p) \/ HandlerRaises(p)
             \/ SetCompleted(p) \/ SetFailed(p)
             \/ SetStatusInTryRaises(p) \/ SetFailedRaises(p)
      PROVE  Orphans' \subseteq Orphans /\ faults + cuts <= faults' + cuts'
  <2>1. /\ \E to \in {"handling", "complete", "fail", "ack", "ackAndDie"} :
             worker' = [worker EXCEPT ![p].at = to]
        /\ UNCHANGED pel
        /\ faults + cuts <= faults' + cuts'
    BY <1>3 DEF SetProcessing, HandlerReturns, HandlerRaises, SetCompleted, SetFailed,
                SetStatusInTryRaises, SetFailedRaises, WorkerGoes, Fault, redisVars,
                counters, LInv, TypeOK
  <2>2. \A q \in Pods : Holds(q) => Holds(q)' /\ worker'[q].entry = worker[q].entry
    BY <2>1 DEF Holds, LInv, TypeOK
  <2>3. Held \subseteq Held'
    BY <2>2 DEF Held
  <2>4. QED
    BY <2>1, <2>3 DEF Orphans
<1>4. ASSUME NEW p \in Pods, Ack(p) \/ ReconnectRaises(p) \/ Start(p)
      PROVE  Orphans' \subseteq Orphans /\ faults + cuts <= faults' + cuts'
  <2>1. /\ \E to \in {"down", "dead", "reading"} :
             worker' = [worker EXCEPT ![p] = [at |-> to, entry |-> 0]]
        /\ IF Holds(p) THEN pel' = pel \ {worker[p].entry} ELSE pel' = pel
        /\ faults + cuts <= faults' + cuts'
    BY <1>4 DEF Ack, ReconnectRaises, Start, WorkerDrops, Fault, redisVars,
                counters, Holds, LInv, TypeOK
  <2>2. /\ Held \ {worker[p].entry} \subseteq Held'
        /\ ~Holds(p) => Held \subseteq Held'
    BY <2>1, HeldAfterDrop
  <2>3. QED
    BY <2>1, <2>2 DEF Orphans
<1>5. ASSUME NEW p \in Pods, AckRaises(p) \/ Crash(p) \/ ReadReplyLost(p)
      PROVE  \E e : Orphans' \subseteq Orphans \cup {e} /\ faults' + cuts' = faults + cuts + 1
  <2>1. CASE AckRaises(p) \/ Crash(p)
    <3>1. /\ \E to \in {"down", "dead", "reading"} :
               worker' = [worker EXCEPT ![p] = [at |-> to, entry |-> 0]]
          /\ pel' \subseteq pel
          /\ faults' = faults + 1 /\ cuts' = cuts
      BY <2>1 DEF AckRaises, Crash, WorkerDrops, Fault, redisVars
    <3>c. faults' + cuts' = faults + cuts + 1
      BY <3>1, LInv DEF LInv, TypeOK
    <3>2. Held \ {worker[p].entry} \subseteq Held'
      BY <3>1, HeldAfterDrop
    <3>3. Orphans' \subseteq Orphans \cup {worker[p].entry}
      BY <3>1, <3>2 DEF Orphans
    <3>4. QED
      BY <3>c, <3>3
  <2>2. CASE ReadReplyLost(p)
    <3>1. pel' = pel \cup {cursor + 1} /\ UNCHANGED worker /\ faults' + cuts' = faults + cuts + 1
      BY <2>2 DEF ReadReplyLost, Deliver, Fault, LInv, TypeOK
    <3>2. Orphans' \subseteq Orphans \cup {cursor + 1}
      BY <3>1 DEF Orphans, Held, Holds
    <3>3. QED
      BY <3>1, <3>2
  <2>3. QED
    BY <1>5, <2>1, <2>2
<1>6. CASE UNCHANGED vars
  BY <1>6 DEF vars, Orphans, Held, Holds, LInv, TypeOK
<1>stop. ASSUME NEW p \in Pods, Stop(p)
         PROVE  \/ Orphans' \subseteq Orphans /\ faults + cuts <= faults' + cuts'
                \/ \E e : Orphans' \subseteq Orphans \cup {e} /\ faults' + cuts' = faults + cuts + 1
  <2>1. /\ worker' = [worker EXCEPT ![p] = [at |-> "down", entry |-> 0]]
        /\ faults' = faults /\ cuts' \in {cuts, cuts + 1}
        /\ faults \in Nat /\ cuts \in Nat
    BY <1>stop, StopCases DEF LInv, TypeOK
  <2>c. faults + cuts <= faults' + cuts'
    <3>1. faults + cuts <= faults + cuts'
      BY <2>1, OneMoreCause
    <3>2. QED
      BY <2>1, <3>1
  <2>2. /\ Held \ {worker[p].entry} \subseteq Held'
        /\ ~Holds(p) => Held \subseteq Held'
    BY <2>1, HeldAfterDrop
  <2>3. CASE Deliver /\ ~Holds(p) /\ cuts' = cuts + 1
    <3>1. pel' = pel \cup {cursor + 1}
      BY <2>3 DEF Deliver
    <3>2. Orphans' \subseteq Orphans \cup {cursor + 1}
      BY <2>2, <2>3, <3>1 DEF Orphans
    <3>3. QED
      BY <2>1, <2>3, <3>2
  <2>4. CASE pel' = pel \ {worker[p].entry}
    <3>1. Orphans' \subseteq Orphans
      BY <2>2, <2>4 DEF Orphans
    <3>2. QED
      BY <2>c, <3>1
  <2>5. CASE pel' = pel
    <3>1. CASE ~Holds(p)
      <4>1. Orphans' \subseteq Orphans
        BY <2>2, <2>5, <3>1 DEF Orphans
      <4>2. QED
        BY <2>c, <4>1
    <3>2. CASE Holds(p) /\ cuts' = cuts + 1
      <4>1. Orphans' \subseteq Orphans \cup {worker[p].entry}
        BY <2>2, <2>5 DEF Orphans
      <4>2. QED
        BY <2>1, <3>2, <4>1
    <3>3. CASE worker[p].entry \notin pel
      <4>1. Orphans' \subseteq Orphans
        BY <2>2, <2>5, <3>3 DEF Orphans
      <4>2. QED
        BY <2>c, <4>1
    <3>4. QED
      BY <1>stop, StopCases, <2>3, <2>5, <3>1, <3>2, <3>3
  <2>6. QED
    BY <1>stop, StopCases, <2>3, <2>4, <2>5
<1>7. ASSUME NEW p \in Pods,
             WorkerLoop(p) \/ WorkerFault(p) \/ Start(p) \/ Stop(p) \/ Crash(p)
      PROVE  \/ Orphans' \subseteq Orphans /\ faults + cuts <= faults' + cuts'
             \/ \E e : Orphans' \subseteq Orphans \cup {e} /\ faults' + cuts' = faults + cuts + 1
  <2>1. CASE Read(p)
    BY <2>1, <1>2 DEF LInv, TypeOK
  <2>2. QED
    BY <1>7, <1>3, <1>4, <1>5, <1>stop, <2>1 DEF WorkerLoop, WorkerFault
<1>8. QED
  BY <1>1, <1>6, <1>7 DEF Next

\* An entry that nobody holds any more is explained by a fault, or by a stop in
\* the middle of a read or an acknowledgement, one each, for any number of pods:
\* no other stop and no interleaving of the workers loses one.
THEOREM LossesHaveACause == Spec => []OrphansHaveACause
<1>1. Init => OrphansHaveACause
  <2>1. Init => Orphans = {} /\ faults + cuts = 0
    BY DEF Init, Orphans
  <2>2. QED
    BY <2>1, FS_EmptySet DEF OrphansHaveACause
<1>2. LInv /\ OrphansHaveACause /\ [Next]_vars => (LInv /\ OrphansHaveACause)'
  <2> SUFFICES ASSUME LInv, OrphansHaveACause, [Next]_vars
               PROVE  (LInv /\ OrphansHaveACause)'
    OBVIOUS
  <2>1. LInv'
    BY NextKeepsLInv
  <2>2. faults + cuts \in Nat /\ faults' + cuts' \in Nat
    <3>1. faults \in Nat /\ cuts \in Nat /\ faults' \in Nat /\ cuts' \in Nat
      BY <2>1 DEF LInv, TypeOK
    <3>2. QED
      BY <3>1, SumIsNat
  <2>3. IsFiniteSet(Orphans)
    <3>1. Orphans \subseteq 1..cursor /\ cursor \in Nat
      BY DEF LInv, TypeOK, Linked, Orphans
    <3>2. IsFiniteSet(1..cursor)
      BY <3>1, FS_Interval
    <3>3. QED
      BY <3>1, <3>2, FS_Subset
  <2>4. Cardinality(Orphans') <= faults' + cuts'
    BY <2>2, <2>3, OneMore, OrphansOfStep DEF OrphansHaveACause
  <2>5. QED
    BY <2>1, <2>4 DEF OrphansHaveACause
<1>3. QED
  BY <1>1, <1>2, InitLInv, PTL DEF Spec

------------------------------------------------------------------------------
(* The refinement.                                                         *)

Starting == {worker[p].entry : p \in {q \in Pods : worker[q].at = "start"}}

\* What is waiting and what is running, seen per worker.
LEMMA StagesOfStep ==
  ASSUME LInv, NEW p \in Pods,
         \A q \in Pods \ {p} : worker'[q] = worker[q],
         worker'[p].at \in {"start", "handling"} => worker'[p].entry = worker[p].entry
  PROVE  LET e == worker[p].entry
             from == worker[p].at
             to == worker'[p].at
         IN  /\ from = to => Starting' = Starting /\ Begun' = Begun
             /\ (from = "start" /\ to \notin {"start", "handling"}) =>
                  e \in Starting /\ Starting' = Starting \ {e} /\ Begun' = Begun
             /\ (from = "start" /\ to = "handling") =>
                  e \in Starting /\ Starting' = Starting \ {e} /\ Begun' = Begun \cup {e}
             /\ (from = "handling" /\ to \notin {"start", "handling"}) =>
                  e \in Begun /\ Starting' = Starting /\ Begun' = Begun \ {e}
             /\ (from \notin {"start", "handling"} /\ to \notin {"start", "handling"}) =>
                  Starting' = Starting /\ Begun' = Begun
<1>1. \A q \in Pods : (worker[q].at \in {"start", "handling"} /\ q # p
                       /\ worker[p].at \in {"start", "handling"})
                        => worker[q].entry # worker[p].entry
  BY DEF LInv, Linked, Holds
<1>2. QED
  BY <1>1 DEF Starting, Begun

\* Where the entries are: not delivered, about to start, begun or past it.
LEMMA Stages ==
  ASSUME LInv
  PROVE  /\ NotBegun = {e \in Entries : e > cursor} \cup Starting
         /\ Starting \subseteq Entries /\ Begun \subseteq Entries
         /\ \A e \in Starting \cup Begun : e <= cursor
         /\ Starting \cap Begun = {}
<1>1. \A p \in Pods : worker[p].at \in {"start", "handling"} =>
                        worker[p].entry \in Entries /\ worker[p].entry <= cursor
  <2> SUFFICES ASSUME NEW p \in Pods, worker[p].at \in {"start", "handling"}
               PROVE  worker[p].entry \in Entries /\ worker[p].entry <= cursor
    OBVIOUS
  <2>1. Holds(p)
    BY DEF Holds
  <2>2. worker[p].entry \in 1..cursor /\ worker[p].entry \in Entries /\ cursor \in Nat
    BY <2>1, HeldTask DEF LInv, TypeOK
  <2>3. QED
    BY <2>2
<1>2. Starting \cap Begun = {}
  BY DEF Starting, Begun, LInv, Linked, Holds
<1>3. QED
  BY <1>1, <1>2 DEF NotBegun, Starting, Begun

AbstractStep ==
  \E e \in Entries' :
    Abstract!Accept(e) \/ Abstract!Begin(e) \/ Abstract!End(e) \/ Abstract!Drop(e)

\* A worker's step on the entry it holds, the stream being unchanged.
LEMMA WorkerRefines ==
  ASSUME LInv, LInv', NEW p \in Pods,
         \A q \in Pods \ {p} : worker'[q] = worker[q],
         worker'[p].at \in {"start", "handling"} => worker'[p].entry = worker[p].entry,
         worker'[p].at # worker[p].at => worker'[p].at # "start",
         worker'[p].at = "handling" => worker[p].at \in {"start", "handling"},
         UNCHANGED <<stream, cursor>>
  PROVE  AbstractStep \/ UNCHANGED Abstract!vars
<1> PICK e : e = worker[p].entry
  OBVIOUS
<1> DEFINE Undelivered == {x \in Entries : x > cursor}
<1>1. Entries' = Entries
  BY DEF Entries
<1>2. /\ NotBegun = {x \in Entries : x > cursor} \cup Starting
      /\ NotBegun' = {x \in Entries : x > cursor} \cup Starting'
      /\ Starting \subseteq Entries /\ Begun \subseteq Entries
      /\ \A x \in Starting \cup Begun : x <= cursor
      /\ Starting \cap Begun = {}
      /\ cursor \in Nat
  <2>1. NotBegun' = {x \in Entries' : x > cursor'} \cup Starting'
    BY DEF NotBegun, Starting
  <2>2. QED
    BY <2>1, <1>1, Stages DEF LInv, TypeOK
<1>past. \A x \in Starting \cup Begun : x \notin Undelivered
  <2>1. Entries \subseteq Int
    BY DEF Entries, LInv, TypeOK
  <2>2. QED
    BY <2>1, <1>2
<1> HIDE DEF Undelivered
<1>split. NotBegun = Undelivered \cup Starting /\ NotBegun' = Undelivered \cup Starting'
  BY <1>2 DEF Undelivered
<1>3. CASE worker[p].at = "start" /\ worker'[p].at \notin {"start", "handling"}
  <2>1. e \in Starting /\ Starting' = Starting \ {e} /\ Begun' = Begun
    BY <1>3, StagesOfStep
  <2>2. e \in NotBegun /\ e \notin Begun /\ NotBegun' = NotBegun \ {e} /\ e \in Entries
    BY <2>1, <1>2, <1>past, <1>split
  <2>3. Abstract!Drop(e)
    BY <2>1, <2>2, <1>1 DEF Abstract!Drop
  <2>4. QED
    BY <2>2, <2>3, <1>1 DEF AbstractStep
<1>4. CASE worker[p].at = "start" /\ worker'[p].at = "handling"
  <2>1. e \in Starting /\ Starting' = Starting \ {e} /\ Begun' = Begun \cup {e}
    BY <1>4, StagesOfStep
  <2>2. e \in NotBegun /\ NotBegun' = NotBegun \ {e} /\ e \in Entries
    BY <2>1, <1>2, <1>past, <1>split
  <2>3. Abstract!Begin(e)
    BY <2>1, <2>2, <1>1 DEF Abstract!Begin
  <2>4. QED
    BY <2>2, <2>3, <1>1 DEF AbstractStep
<1>5. CASE worker[p].at = "handling" /\ worker'[p].at \notin {"start", "handling"}
  <2>1. e \in Begun /\ Starting' = Starting /\ Begun' = Begun \ {e}
    BY <1>5, StagesOfStep
  <2>2. e \in Entries /\ e \notin NotBegun /\ NotBegun' = NotBegun
    BY <2>1, <1>2, <1>past, <1>split
  <2>3. Abstract!End(e)
    BY <2>1, <2>2, <1>1 DEF Abstract!End
  <2>4. QED
    BY <2>2, <2>3, <1>1 DEF AbstractStep
<1>6. CASE \/ worker[p].at = worker'[p].at
           \/ /\ worker[p].at \notin {"start", "handling"}
              /\ worker'[p].at \notin {"start", "handling"}
  <2>1. Starting' = Starting /\ Begun' = Begun
    BY <1>6, StagesOfStep
  <2>2. QED
    BY <2>1, <1>1, <1>split DEF Abstract!vars
<1>7. QED
  BY <1>3, <1>4, <1>5, <1>6

LEMMA PodStepRefines ==
  ASSUME LInv, LInv', NEW p \in Pods,
         WorkerLoop(p) \/ WorkerFault(p) \/ Start(p) \/ Stop(p) \/ Crash(p)
  PROVE  AbstractStep \/ UNCHANGED Abstract!vars
<1>1. CASE Read(p)
  <2>1. /\ worker[p].at = "reading"
        /\ worker'[p] = [at |-> "start", entry |-> cursor + 1]
        /\ \A q \in Pods \ {p} : worker'[q] = worker[q]
        /\ cursor < Len(stream) /\ cursor' = cursor + 1
        /\ cursor \in Nat /\ Len(stream) \in Nat
        /\ UNCHANGED stream
    BY <1>1 DEF Read, Deliver, LInv, TypeOK
  <2>2. Starting' = Starting \cup {cursor + 1} /\ Begun' = Begun
    BY <2>1 DEF Starting, Begun
  <2>3. Entries' = Entries
    BY <2>1 DEF Entries
  <2>4. /\ NotBegun = {x \in Entries : x > cursor} \cup Starting
        /\ NotBegun' = {x \in Entries : x > cursor'} \cup Starting'
    BY <2>3, Stages DEF NotBegun, Starting
  <2>5. {x \in Entries : x > cursor} = {x \in Entries : x > cursor'} \cup {cursor + 1}
    BY <2>1 DEF Entries
  <2>6. QED
    BY <2>2, <2>3, <2>4, <2>5 DEF Abstract!vars
<1>2. CASE ReadReplyLost(p) \/ (Stop(p) /\ worker[p].at = "reading" /\ Deliver)
  <2>1. /\ cursor < Len(stream) /\ cursor' = cursor + 1
        /\ cursor \in Nat /\ Len(stream) \in Nat
        /\ UNCHANGED stream
        /\ \A q \in Pods \ {p} : worker'[q] = worker[q]
        /\ worker[p].at = "reading" /\ worker'[p].at \in {"down", "reading"}
    BY <1>2 DEF ReadReplyLost, Stop, Deliver, LInv, TypeOK
  <2>2. Starting' = Starting /\ Begun' = Begun /\ Entries' = Entries
    BY <2>1 DEF Starting, Begun, Entries
  <2>3. /\ NotBegun = {x \in Entries : x > cursor} \cup Starting
        /\ NotBegun' = {x \in Entries : x > cursor'} \cup Starting
        /\ \A x \in Starting \cup Begun : x <= cursor
    BY <2>2, Stages DEF NotBegun, Starting
  <2>4. /\ {x \in Entries : x > cursor'} = {x \in Entries : x > cursor} \ {cursor + 1}
        /\ cursor + 1 \in {x \in Entries : x > cursor}
        /\ cursor + 1 \notin Starting \cup Begun
    BY <2>1, <2>3 DEF Entries
  <2>5. NotBegun' = NotBegun \ {cursor + 1} /\ cursor + 1 \in NotBegun
        /\ cursor + 1 \in Entries /\ cursor + 1 \notin NotBegun' \cup Begun
    BY <2>3, <2>4
  <2>6. Abstract!Drop(cursor + 1)
    BY <2>2, <2>5 DEF Abstract!Drop
  <2>7. QED
    BY <2>2, <2>5, <2>6 DEF AbstractStep
<1>3. CASE SetProcessing(p) \/ HandlerReturns(p) \/ HandlerRaises(p) \/ SetCompleted(p)
           \/ SetFailed(p) \/ SetStatusInTryRaises(p) \/ SetFailedRaises(p)
  <2>1. /\ \E to \in {"handling", "complete", "fail", "ack", "ackAndDie"} :
             /\ worker' = [worker EXCEPT ![p].at = to]
             /\ to = "handling" => worker[p].at = "start"
        /\ UNCHANGED <<stream, cursor>>
    BY <1>3 DEF SetProcessing, HandlerReturns, HandlerRaises, SetCompleted, SetFailed,
                SetStatusInTryRaises, SetFailedRaises, WorkerGoes, redisVars
  <2>2. /\ \A q \in Pods \ {p} : worker'[q] = worker[q]
        /\ worker'[p].entry = worker[p].entry
        /\ worker'[p].at # "start"
        /\ worker'[p].at = "handling" => worker[p].at = "start"
    BY <2>1 DEF LInv, TypeOK
  <2>3. QED
    BY <2>1, <2>2, WorkerRefines
<1>4. CASE \/ Ack(p) \/ AckRaises(p) \/ ReconnectRaises(p) \/ Crash(p) \/ Start(p)
           \/ Stop(p) /\ UNCHANGED <<stream, cursor>>
  <2>1. /\ \E to \in {"down", "dead", "reading"} :
             worker' = [worker EXCEPT ![p] = [at |-> to, entry |-> 0]]
        /\ UNCHANGED <<stream, cursor>>
    BY <1>4 DEF Ack, AckRaises, ReconnectRaises, Stop, Crash, Start, WorkerDrops,
                redisVars
  <2>2. /\ \A q \in Pods \ {p} : worker'[q] = worker[q]
        /\ worker'[p].at \in {"down", "dead", "reading"}
    BY <2>1 DEF LInv, TypeOK
  <2>3. QED
    BY <2>1, <2>2, WorkerRefines
<1>5. QED
  BY <1>1, <1>2, <1>3, <1>4, StopCases DEF WorkerLoop, WorkerFault

LEMMA CallStepRefines ==
  ASSUME LInv, LInv', NEW c \in Calls,
         \/ \E p \in Pods, t \in Tasks : Post(c, p, t)
         \/ AcceptHandler(c)
         \/ CallRaises(c)
  PROVE  AbstractStep \/ UNCHANGED Abstract!vars
<1>1. CASE Add(c)
  <2>1. /\ \E t \in Tasks : stream' = Append(stream, t)
        /\ UNCHANGED <<cursor, worker>>
    <3>1. call[c].at # "idle"
      BY <1>1 DEF Add, CallGoes
    <3>2. QED
      BY <1>1, <3>1, CallTask DEF Add
  <2>2. /\ Entries' = Entries \cup {Len(stream) + 1}
        /\ Len(stream) + 1 \notin Entries
        /\ cursor <= Len(stream) /\ cursor \in Nat /\ Len(stream) \in Nat
    BY <2>1 DEF Entries, LInv, TypeOK, Linked
  <2>3. Starting' = Starting /\ Begun' = Begun
    BY <2>1 DEF Starting, Begun
  <2>4. /\ NotBegun = {x \in Entries : x > cursor} \cup Starting
        /\ NotBegun' = {x \in Entries' : x > cursor} \cup Starting
        /\ Starting \subseteq Entries /\ Begun \subseteq Entries
    BY <2>1, <2>3, Stages DEF NotBegun, Starting
  <2>5. NotBegun' = NotBegun \cup {Len(stream) + 1}
    BY <2>2, <2>4
  <2>6. Abstract!Accept(Len(stream) + 1)
    BY <2>2, <2>3, <2>4, <2>5 DEF Abstract!Accept, Abstract!Accepted
  <2>7. QED
    BY <2>2, <2>6 DEF AbstractStep
<1>2. CASE \/ \E p \in Pods, t \in Tasks : Post(c, p, t)
           \/ Claim(c) \/ Check(c) \/ Reclaim(c) \/ Mark(c)
           \/ CallRaises(c)
  <2>1. UNCHANGED <<stream, cursor, worker>>
    BY <1>2 DEF Post, Claim, Check, Reclaim, Mark, CallRaises, redisVars
  <2>2. QED
    BY <2>1 DEF Abstract!vars, NotBegun, Begun, Entries
<1>3. QED
  BY <1>1, <1>2 DEF AcceptHandler

\* The Redis backend implements DelegationQueue, an entry of the stream being
\* the job: with any number of pods, stops, crashes and failed commands, an
\* entry is handed to the handler at most once.
THEOREM Refinement == Spec => ImplementsQueue
<1>1. Init => Abstract!Init
  <2> SUFFICES ASSUME Init PROVE Abstract!Init
    OBVIOUS
  <2>1. Entries = {} /\ \A p \in Pods : worker[p].at = "down"
    BY DEF Init, Entries
  <2>2. NotBegun = {} /\ Begun = {}
    BY <2>1 DEF NotBegun, Begun
  <2>3. QED
    BY <2>1, <2>2 DEF Abstract!Init
<1>2. LInv /\ LInv' /\ [Next]_vars =>
        [\E e \in Entries' : Abstract!Accept(e) \/ Abstract!Begin(e)
            \/ Abstract!End(e) \/ Abstract!Drop(e)]_(Abstract!vars)
  <2> SUFFICES ASSUME LInv, LInv', [Next]_vars
               PROVE  AbstractStep \/ UNCHANGED Abstract!vars
    BY DEF AbstractStep
  <2>1. CASE UNCHANGED vars
    BY <2>1 DEF vars, Abstract!vars, NotBegun, Begun, Entries
  <2>2. ASSUME NEW c \in Calls,
               \/ \E p \in Pods, t \in Tasks : Post(c, p, t)
               \/ AcceptHandler(c)
               \/ CallRaises(c)
        PROVE  AbstractStep \/ UNCHANGED Abstract!vars
    BY <2>2, CallStepRefines
  <2>3. ASSUME NEW p \in Pods,
               WorkerLoop(p) \/ WorkerFault(p) \/ Start(p) \/ Stop(p) \/ Crash(p)
        PROVE  AbstractStep \/ UNCHANGED Abstract!vars
    BY <2>3, PodStepRefines
  <2>4. QED
    BY <2>1, <2>2, <2>3 DEF Next
<1>3. QED
  BY <1>1, <1>2, LInvariance, PTL DEF Spec, ImplementsQueue
==============================================================================
