----------------------- MODULE DelegationMemory_proofs -----------------------
(***************************************************************************)
(* Proofs about DelegationMemory, for any set of task ids.  None of the    *)
(* properties is inductive: they all follow from IInv, which says where    *)
(* every accepted job is, that it is there once, and what is queued ahead  *)
(* of the sentinel of a stop under way.                                    *)
(***************************************************************************)
EXTENDS DelegationMemory, TLAPS

Counted == unfinished = Len(queue) + (IF worker = "busy" THEN 1 ELSE 0)

InHand == worker = "busy" <=> current # Sentinel

Placed == processed = Queued \cup Running \cup ended

Apart ==
  /\ Queued \cap Running = {}
  /\ Queued \cap ended = {}
  /\ Running \cap ended = {}

QueuedOnce ==
  \A i, j \in 1..Len(queue) :
    (queue[i] = queue[j] /\ queue[i] # Sentinel) => i = j

\* While stop() waits there is one sentinel, and every job accepted before it
\* has ended, is running or is queued ahead of the sentinel.
DrainUnderWay ==
  \E s \in 1..Len(queue) :
    /\ queue[s] = Sentinel
    /\ \A i \in 1..Len(queue) : queue[i] = Sentinel => i = s
    /\ \A t \in beforeStop :
         t \in ended \/ t \in Running \/ \E i \in 1..Len(queue) : i < s /\ queue[i] = t

SentinelIffStopping ==
  IF stopping /\ IsRunning
    THEN DrainUnderWay
    ELSE \A i \in 1..Len(queue) : queue[i] # Sentinel

IInv ==
  /\ TypeOK
  /\ Counted
  /\ InHand
  /\ Placed
  /\ Apart
  /\ QueuedOnce
  /\ SentinelIffStopping
  /\ beforeStop \subseteq processed
  /\ StopDrains

------------------------------------------------------------------------------
(* Adding to the queue and taking from it, seen as changes of its content. *)

\* What the queue holds besides sentinels after q.append(x).
LEMMA AppendContent ==
  ASSUME NEW S, NEW q \in Seq(S), NEW x \in S
  PROVE  LET r == Append(q, x)
         IN  /\ r \in Seq(S)
             /\ Len(r) = Len(q) + 1
             /\ \A i \in 1..Len(q) : r[i] = q[i]
             /\ r[Len(q) + 1] = x
             /\ {r[i] : i \in DOMAIN r} = {q[i] : i \in DOMAIN q} \cup {x}
<1> DEFINE r == Append(q, x)
<1>1. /\ r \in Seq(S)
      /\ Len(r) = Len(q) + 1
      /\ \A i \in 1..Len(q) : r[i] = q[i]
      /\ r[Len(q) + 1] = x
  OBVIOUS
<1>2. DOMAIN r = 1..(Len(q) + 1) /\ DOMAIN q = 1..Len(q) /\ Len(q) \in Nat
  BY <1>1
<1>3. {r[i] : i \in DOMAIN r} = {q[i] : i \in DOMAIN q} \cup {x}
  BY <1>1, <1>2
<1>4. QED
  BY <1>1, <1>3

\* What the queue holds after its head is taken.
LEMMA TailContent ==
  ASSUME NEW S, NEW q \in Seq(S), q # <<>>
  PROVE  LET r == Tail(q)
         IN  /\ r \in Seq(S)
             /\ Len(r) = Len(q) - 1
             /\ Len(q) \in Nat \ {0}
             /\ \A i \in 1..Len(r) : r[i] = q[i + 1]
             /\ Head(q) = q[1]
             /\ {q[i] : i \in DOMAIN q} = {r[i] : i \in DOMAIN r} \cup {Head(q)}
<1> DEFINE r == Tail(q)
<1>1. /\ r \in Seq(S)
      /\ Len(r) = Len(q) - 1
      /\ Len(q) \in Nat \ {0}
      /\ \A i \in 1..Len(r) : r[i] = q[i + 1]
      /\ Head(q) = q[1]
  OBVIOUS
<1>2. DOMAIN r = 1..(Len(q) - 1) /\ DOMAIN q = 1..Len(q)
  BY <1>1
<1>3. ASSUME NEW i \in 1..Len(q), i # 1
      PROVE  i - 1 \in 1..(Len(q) - 1) /\ r[i - 1] = q[i]
  BY <1>1, <1>3
<1>4. \A i \in 1..(Len(q) - 1) : i + 1 \in 1..Len(q) /\ r[i] = q[i + 1]
  BY <1>1
<1>5. 1 \in 1..Len(q)
  BY <1>1
<1>6. {q[i] : i \in DOMAIN q} = {r[i] : i \in DOMAIN r} \cup {Head(q)}
  <2> HIDE DEF r
  <2>1. ASSUME NEW y \in {q[i] : i \in DOMAIN q}
        PROVE  y \in {r[i] : i \in DOMAIN r} \cup {Head(q)}
    <3>1. PICK i \in 1..Len(q) : y = q[i]
      BY <1>2
    <3>2. CASE i = 1
      BY <3>1, <3>2, <1>1
    <3>3. CASE i # 1
      BY <3>1, <3>3, <1>2, <1>3
    <3>4. QED
      BY <3>2, <3>3
  <2>2. ASSUME NEW y \in {r[i] : i \in DOMAIN r} \cup {Head(q)}
        PROVE  y \in {q[i] : i \in DOMAIN q}
    BY <1>1, <1>2, <1>4, <1>5
  <2>3. QED
    BY <2>1, <2>2
<1>7. QED
  BY <1>1, <1>6

------------------------------------------------------------------------------
(* The invariant.                                                          *)

LEMMA InitIInv == Init => IInv
<1> SUFFICES ASSUME Init PROVE IInv
  OBVIOUS
<1>1. Queued = {} /\ Running = {}
  BY DEF Init, Queued, Running
<1>2. Len(queue) = 0 /\ 1..Len(queue) = {} /\ ~IsRunning
  BY DEF Init, IsRunning
<1>3. TypeOK /\ Counted /\ InHand
  <2>1. TypeOK
    <3>1. queue \in Seq(Tasks \cup {Sentinel})
      BY DEF Init
    <3>2. stopping \in BOOLEAN
      BY DEF Init
    <3>3. QED
      BY <3>1, <3>2 DEF Init, TypeOK
  <2>2. Counted
    BY <1>2 DEF Init, Counted
  <2>3. InHand
    BY DEF Init, InHand
  <2>4. QED
    BY <2>1, <2>2, <2>3
<1>4. Placed /\ Apart
  BY <1>1 DEF Init, Placed, Apart
<1>5. QueuedOnce /\ SentinelIffStopping
  BY <1>2 DEF QueuedOnce, SentinelIffStopping
<1>6. beforeStop \subseteq processed /\ StopDrains
  BY DEF Init, StopDrains
<1>7. QED
  BY <1>3, <1>4, <1>5, <1>6 DEF IInv

\* A POST keeps the invariant: the id is new, so it is nowhere yet.
LEMMA EnqueueKeepsIInv ==
  ASSUME IInv, NEW t \in Tasks, Enqueue(t)
  PROVE  IInv'
<1> USE SentinelIsNoTask
<1>0. /\ queue \in Seq(Tasks \cup {Sentinel})
      /\ queue' = Append(queue, t)
      /\ t \notin processed
      /\ processed' = processed \cup {t}
      /\ t # Sentinel
      /\ IsRunning
      /\ UNCHANGED <<worker, current, stopping, ended, beforeStop>>
  BY DEF IInv, TypeOK, Enqueue, Put
<1>1. /\ queue' \in Seq(Tasks \cup {Sentinel})
      /\ Len(queue') = Len(queue) + 1
      /\ \A i \in 1..Len(queue) : queue'[i] = queue[i]
      /\ queue'[Len(queue) + 1] = t
      /\ Queued' = Queued \cup {t}
  BY <1>0, AppendContent DEF Queued
<1>2. Len(queue) \in Nat
  BY <1>0
<1>3. t \notin Queued /\ t \notin Running /\ t \notin ended
  BY <1>0 DEF IInv, Placed
<1>4. Running' = Running
  BY <1>0 DEF Running
<1>5. TypeOK'
  BY <1>0, <1>1 DEF IInv, TypeOK, Enqueue, Put
<1>6. Counted'
  BY <1>0, <1>1, <1>2 DEF IInv, Counted, Enqueue, Put
<1>7. InHand'
  BY <1>0 DEF IInv, InHand
<1>8. Placed' /\ Apart'
  BY <1>0, <1>1, <1>3, <1>4 DEF IInv, Placed, Apart
<1>9. QueuedOnce'
  <2>1. \A i \in 1..Len(queue) : queue[i] # t
    BY <1>0, <1>3 DEF Queued
  <2>2. \A i \in 1..(Len(queue) + 1) : i \in 1..Len(queue) \/ i = Len(queue) + 1
    BY <1>2
  <2>3. QED
    BY <1>1, <2>1, <2>2 DEF IInv, QueuedOnce
<1>10. SentinelIffStopping'
  <2>1. CASE stopping
    <3>1. DrainUnderWay
      BY <2>1, <1>0 DEF IInv, SentinelIffStopping
    <3>2. PICK s \in 1..Len(queue) :
            /\ queue[s] = Sentinel
            /\ \A i \in 1..Len(queue) : queue[i] = Sentinel => i = s
            /\ \A u \in beforeStop : \/ u \in ended \/ u \in Running
                                     \/ \E i \in 1..Len(queue) : i < s /\ queue[i] = u
      BY <3>1 DEF DrainUnderWay
    <3>3. s \in 1..Len(queue') /\ queue'[s] = Sentinel
      BY <3>2, <1>1, <1>2
    <3>4. \A i \in 1..Len(queue') : queue'[i] = Sentinel => i = s
      BY <3>2, <1>0, <1>1, <1>2
    <3>5. \A u \in beforeStop' : \/ u \in ended' \/ u \in Running'
                                \/ \E i \in 1..Len(queue') : i < s /\ queue'[i] = u
      BY <3>2, <1>0, <1>1, <1>2, <1>4
    <3>6. DrainUnderWay'
      BY <3>3, <3>4, <3>5 DEF DrainUnderWay
    <3>7. QED
      BY <3>6, <2>1, <1>0 DEF SentinelIffStopping, IsRunning
  <2>2. CASE ~stopping
    <3>1. \A i \in 1..Len(queue) : queue[i] # Sentinel
      BY <2>2 DEF IInv, SentinelIffStopping
    <3>2. \A i \in 1..Len(queue') : queue'[i] # Sentinel
      BY <3>1, <1>0, <1>1, <1>2
    <3>3. QED
      BY <3>2, <2>2, <1>0 DEF SentinelIffStopping
  <2>3. QED
    BY <2>1, <2>2
<1>11. (beforeStop \subseteq processed)' /\ StopDrains'
  BY <1>0 DEF IInv, StopDrains
<1>12. QED
  BY <1>5, <1>6, <1>7, <1>8, <1>9, <1>10, <1>11 DEF IInv

\* start() touches the worker only; the queue holds no sentinel then.
LEMMA StartKeepsIInv ==
  ASSUME IInv, Start
  PROVE  IInv'
<1>1. /\ worker \notin {"idle", "busy"}
      /\ ~stopping
      /\ worker' = "idle"
      /\ UNCHANGED <<queue, unfinished, processed, current, stopping, ended,
                     beforeStop>>
  BY DEF Start, IsRunning
<1>2. Running = {} /\ Running' = {} /\ Queued' = Queued
  BY <1>1 DEF Running, Queued
<1>3. TypeOK' /\ Counted' /\ InHand' /\ QueuedOnce'
  BY <1>1 DEF IInv, TypeOK, Counted, InHand, QueuedOnce
<1>4. Placed' /\ Apart'
  BY <1>1, <1>2 DEF IInv, Placed, Apart
<1>5. SentinelIffStopping'
  BY <1>1 DEF IInv, SentinelIffStopping
<1>6. (beforeStop \subseteq processed)' /\ StopDrains'
  BY <1>1 DEF IInv, StopDrains
<1>7. QED
  BY <1>3, <1>4, <1>5, <1>6 DEF IInv

\* stop() puts the sentinel behind every job accepted so far.
LEMMA StopBeginKeepsIInv ==
  ASSUME IInv, StopBegin
  PROVE  IInv'
<1> USE SentinelIsNoTask
<1>0. /\ queue \in Seq(Tasks \cup {Sentinel})
      /\ queue' = Append(queue, Sentinel)
      /\ beforeStop' = processed
      /\ IsRunning
      /\ ~stopping
      /\ stopping'
      /\ UNCHANGED <<processed, worker, current, ended>>
  BY DEF IInv, TypeOK, StopBegin, Put
<1>1. /\ queue' \in Seq(Tasks \cup {Sentinel})
      /\ Len(queue') = Len(queue) + 1
      /\ \A i \in 1..Len(queue) : queue'[i] = queue[i]
      /\ queue'[Len(queue) + 1] = Sentinel
      /\ Queued' = Queued
  BY <1>0, AppendContent DEF Queued
<1>2. Len(queue) \in Nat
  BY <1>0
<1>3. Running' = Running
  BY <1>0 DEF Running
<1>4. TypeOK'
  BY <1>0, <1>1 DEF IInv, TypeOK, StopBegin, Put
<1>5. Counted'
  BY <1>0, <1>1, <1>2 DEF IInv, Counted, StopBegin, Put
<1>6. InHand'
  BY <1>0 DEF IInv, InHand
<1>7. Placed' /\ Apart'
  BY <1>0, <1>1, <1>3 DEF IInv, Placed, Apart
<1>8. QueuedOnce'
  BY <1>1, <1>2 DEF IInv, QueuedOnce
<1>9. SentinelIffStopping'
  <2>1. \A i \in 1..Len(queue) : queue[i] # Sentinel
    BY <1>0 DEF IInv, SentinelIffStopping
  <2>2. \A i \in 1..Len(queue') : queue'[i] = Sentinel => i = Len(queue) + 1
    BY <2>1, <1>1, <1>2
  <2>3. ASSUME NEW t \in processed
        PROVE  \/ t \in ended' \/ t \in Running'
               \/ \E i \in 1..Len(queue') : i < Len(queue) + 1 /\ queue'[i] = t
    <3>1. t \in Queued \/ t \in Running \/ t \in ended
      BY DEF IInv, Placed
    <3>2. ASSUME t \in Queued
          PROVE  \E i \in 1..Len(queue') : i < Len(queue) + 1 /\ queue'[i] = t
      <4>1. PICK i \in 1..Len(queue) : queue[i] = t
        BY <3>2, <1>0 DEF Queued
      <4>2. QED
        BY <4>1, <1>1, <1>2
    <3>3. QED
      BY <3>1, <3>2, <1>0, <1>3
  <2>4. DrainUnderWay'
    BY <2>2, <2>3, <1>0, <1>1, <1>2 DEF DrainUnderWay
  <2>5. QED
    BY <2>4, <1>0 DEF SentinelIffStopping, IsRunning
<1>10. (beforeStop \subseteq processed)' /\ StopDrains'
  BY <1>0 DEF StopDrains, IsRunning
<1>11. QED
  BY <1>4, <1>5, <1>6, <1>7, <1>8, <1>9, <1>10 DEF IInv

\* stop() returns: the sentinel was consumed when the worker ended.
LEMMA StopEndKeepsIInv ==
  ASSUME IInv, StopEnd
  PROVE  IInv'
<1>1. /\ worker = "done"
      /\ worker' = "absent"
      /\ stopping
      /\ ~stopping'
      /\ UNCHANGED <<queue, unfinished, processed, current, ended, beforeStop>>
  BY DEF StopEnd
<1>2. Running = {} /\ Running' = {} /\ Queued' = Queued
  BY <1>1 DEF Running, Queued
<1>3. TypeOK' /\ Counted' /\ InHand' /\ QueuedOnce'
  <2>1. TypeOK'
    BY <1>1 DEF IInv, TypeOK, StopEnd
  <2>2. QED
    BY <2>1, <1>1 DEF IInv, Counted, InHand, QueuedOnce
<1>4. Placed' /\ Apart'
  BY <1>1, <1>2 DEF IInv, Placed, Apart
<1>5. SentinelIffStopping'
  BY <1>1 DEF IInv, SentinelIffStopping, IsRunning
<1>6. (beforeStop \subseteq processed)' /\ StopDrains'
  BY <1>1 DEF IInv, StopDrains
<1>7. QED
  BY <1>3, <1>4, <1>5, <1>6 DEF IInv

\* The handler is through with the job: it moves from running to ended.
LEMMA HandlerEndsKeepsIInv ==
  ASSUME IInv, HandlerEnds
  PROVE  IInv'
<1> USE SentinelIsNoTask
<1>0. /\ worker = "busy"
      /\ worker' = "idle"
      /\ current \in Tasks
      /\ current' = Sentinel
      /\ ended' = ended \cup {current}
      /\ unfinished' = unfinished - 1
      /\ UNCHANGED <<queue, processed, stopping, beforeStop>>
  BY DEF IInv, TypeOK, InHand, HandlerEnds
<1>1. Running = {current} /\ Running' = {} /\ Queued' = Queued
  BY <1>0 DEF Running, Queued
<1>2. unfinished = Len(queue) + 1 /\ Len(queue) \in Nat
  BY <1>0 DEF IInv, Counted, TypeOK
<1>3. Counted' /\ TypeOK'
  <2>1. Counted'
    BY <1>0, <1>2 DEF Counted
  <2>2. TypeOK'
    BY <1>0, <1>2 DEF IInv, TypeOK
  <2>3. QED
    BY <2>1, <2>2
<1>4. InHand' /\ QueuedOnce'
  BY <1>0 DEF IInv, InHand, QueuedOnce
<1>5. Placed' /\ Apart'
  BY <1>0, <1>1 DEF IInv, Placed, Apart
<1>6. SentinelIffStopping'
  <2>1. DrainUnderWay => DrainUnderWay'
    BY <1>0, <1>1 DEF DrainUnderWay
  <2>2. QED
    BY <2>1, <1>0 DEF IInv, SentinelIffStopping, IsRunning
<1>7. (beforeStop \subseteq processed)' /\ StopDrains'
  BY <1>0 DEF IInv, StopDrains
<1>8. QED
  BY <1>3, <1>4, <1>5, <1>6, <1>7 DEF IInv

\* The head of the queue moves into the handler.
LEMMA GetJobKeepsIInv ==
  ASSUME IInv, GetJob
  PROVE  IInv'
<1> USE SentinelIsNoTask
<1>0. /\ queue \in Seq(Tasks \cup {Sentinel})
      /\ queue # <<>>
      /\ queue' = Tail(queue)
      /\ current' = Head(queue)
      /\ Head(queue) # Sentinel
      /\ worker = "idle"
      /\ worker' = "busy"
      /\ UNCHANGED <<unfinished, processed, stopping, ended, beforeStop>>
  BY DEF IInv, TypeOK, GetJob
<1>1. /\ queue' \in Seq(Tasks \cup {Sentinel})
      /\ Len(queue') = Len(queue) - 1
      /\ Len(queue) \in Nat \ {0}
      /\ \A i \in 1..Len(queue') : queue'[i] = queue[i + 1]
      /\ current' = queue[1]
      /\ {queue[i] : i \in DOMAIN queue}
           = {queue'[i] : i \in DOMAIN queue'} \cup {current'}
  <2>1. /\ Tail(queue) \in Seq(Tasks \cup {Sentinel})
        /\ Len(Tail(queue)) = Len(queue) - 1
        /\ Len(queue) \in Nat \ {0}
        /\ \A i \in 1..Len(Tail(queue)) : Tail(queue)[i] = queue[i + 1]
        /\ Head(queue) = queue[1]
        /\ {queue[i] : i \in DOMAIN queue}
             = {Tail(queue)[i] : i \in DOMAIN Tail(queue)} \cup {Head(queue)}
    BY <1>0, TailContent
  <2>2. QED
    BY <2>1, <1>0
<1>2. current' \in Tasks
  BY <1>0, <1>1
<1>3. Running = {} /\ Running' = {current'}
  BY <1>0 DEF Running
<1>4. Queued = Queued' \cup {current'}
  BY <1>0, <1>1 DEF Queued
<1>5. current' \notin Queued'
  <2>1. ASSUME NEW i \in 1..Len(queue'), queue'[i] = current'
        PROVE  FALSE
    <3>1. i + 1 \in 1..Len(queue) /\ 1 \in 1..Len(queue) /\ i + 1 # 1
      BY <1>1
    <3>2. queue[i + 1] = queue[1] /\ queue[1] # Sentinel
      BY <2>1, <1>0, <1>1
    <3>3. QED
      BY <3>1, <3>2 DEF IInv, QueuedOnce
  <2>2. DOMAIN queue' = 1..Len(queue')
    BY <1>1
  <2>3. QED
    BY <2>1, <2>2 DEF Queued
<1>6. TypeOK'
  BY <1>0, <1>1, <1>2 DEF IInv, TypeOK
<1>7. Counted' /\ InHand'
  BY <1>0, <1>1, <1>2 DEF IInv, Counted, InHand
<1>8. Placed' /\ Apart'
  BY <1>0, <1>3, <1>4, <1>5 DEF IInv, Placed, Apart
<1>9. QueuedOnce'
  <2>1. \A i \in 1..Len(queue') : i + 1 \in 1..Len(queue)
    BY <1>1
  <2>2. QED
    BY <1>1, <2>1 DEF IInv, QueuedOnce
<1>10. SentinelIffStopping'
  <2>1. CASE stopping
    <3>1. DrainUnderWay
      BY <2>1, <1>0 DEF IInv, SentinelIffStopping, IsRunning
    <3>2. PICK s \in 1..Len(queue) :
            /\ queue[s] = Sentinel
            /\ \A i \in 1..Len(queue) : queue[i] = Sentinel => i = s
            /\ \A u \in beforeStop : \/ u \in ended \/ u \in Running
                                     \/ \E i \in 1..Len(queue) : i < s /\ queue[i] = u
      BY <3>1 DEF DrainUnderWay
    <3>3. s # 1
      BY <3>2, <1>0, <1>1
    <3>4. s - 1 \in 1..Len(queue') /\ queue'[s - 1] = Sentinel
      BY <3>2, <3>3, <1>1
    <3>5. \A i \in 1..Len(queue') : queue'[i] = Sentinel => i = s - 1
      <4>1. ASSUME NEW i \in 1..Len(queue'), queue'[i] = Sentinel
            PROVE  i = s - 1
        <5>1. i + 1 \in 1..Len(queue) /\ queue[i + 1] = Sentinel
          BY <4>1, <1>1
        <5>2. i + 1 = s
          BY <5>1, <3>2
        <5>3. QED
          BY <5>2, <1>1
      <4>2. QED
        BY <4>1
    <3>6. ASSUME NEW u \in beforeStop
          PROVE  \/ u \in ended' \/ u \in Running'
                 \/ \E i \in 1..Len(queue') : i < s - 1 /\ queue'[i] = u
      <4>1. CASE u \in ended
        BY <4>1, <1>0
      <4>2. CASE u \in Running
        BY <4>2, <1>3
      <4>3. CASE \E i \in 1..Len(queue) : i < s /\ queue[i] = u
        <5>1. PICK i \in 1..Len(queue) : i < s /\ queue[i] = u
          BY <4>3
        <5>2. CASE i = 1
          BY <5>1, <5>2, <1>1, <1>3
        <5>3. CASE i # 1
          <6>1. i - 1 \in 1..Len(queue') /\ i - 1 < s - 1 /\ queue'[i - 1] = u
            BY <5>1, <5>3, <1>1
          <6>2. QED
            BY <6>1
        <5>4. QED
          BY <5>2, <5>3
      <4>4. QED
        BY <4>1, <4>2, <4>3, <3>2
    <3>7. DrainUnderWay'
      BY <3>4, <3>5, <3>6, <1>0 DEF DrainUnderWay
    <3>8. QED
      BY <3>7, <2>1, <1>0 DEF SentinelIffStopping, IsRunning
  <2>2. CASE ~stopping
    <3>1. \A i \in 1..Len(queue) : queue[i] # Sentinel
      BY <2>2 DEF IInv, SentinelIffStopping
    <3>2. \A i \in 1..Len(queue') : queue'[i] # Sentinel
      BY <3>1, <1>1
    <3>3. QED
      BY <3>2, <2>2, <1>0 DEF SentinelIffStopping
  <2>3. QED
    BY <2>1, <2>2
<1>11. (beforeStop \subseteq processed)' /\ StopDrains'
  BY <1>0 DEF IInv, StopDrains
<1>12. QED
  BY <1>6, <1>7, <1>8, <1>9, <1>10, <1>11 DEF IInv

\* The worker reaches the sentinel: whatever was ahead of it has ended.
LEMMA GetSentinelKeepsIInv ==
  ASSUME IInv, GetSentinel
  PROVE  IInv'
<1> USE SentinelIsNoTask
<1>0. /\ queue \in Seq(Tasks \cup {Sentinel})
      /\ queue # <<>>
      /\ queue' = Tail(queue)
      /\ Head(queue) = Sentinel
      /\ worker = "idle"
      /\ worker' = "done"
      /\ unfinished' = unfinished - 1
      /\ UNCHANGED <<processed, current, stopping, ended, beforeStop>>
  BY DEF IInv, TypeOK, GetSentinel
<1>1. /\ queue' \in Seq(Tasks \cup {Sentinel})
      /\ Len(queue') = Len(queue) - 1
      /\ Len(queue) \in Nat \ {0}
      /\ \A i \in 1..Len(queue') : queue'[i] = queue[i + 1]
      /\ queue[1] = Sentinel
      /\ {queue[i] : i \in DOMAIN queue}
           = {queue'[i] : i \in DOMAIN queue'} \cup {Sentinel}
  <2>1. /\ Tail(queue) \in Seq(Tasks \cup {Sentinel})
        /\ Len(Tail(queue)) = Len(queue) - 1
        /\ Len(queue) \in Nat \ {0}
        /\ \A i \in 1..Len(Tail(queue)) : Tail(queue)[i] = queue[i + 1]
        /\ Head(queue) = queue[1]
        /\ {queue[i] : i \in DOMAIN queue}
             = {Tail(queue)[i] : i \in DOMAIN Tail(queue)} \cup {Head(queue)}
    BY <1>0, TailContent
  <2>2. QED
    BY <2>1, <1>0
<1>2. Running = {} /\ Running' = {} /\ Queued' = Queued
  BY <1>0, <1>1 DEF Running, Queued
<1>3. unfinished = Len(queue)
  BY <1>0, <1>1 DEF IInv, Counted
<1>4. TypeOK'
  BY <1>0, <1>1, <1>3 DEF IInv, TypeOK
<1>5. Counted' /\ InHand'
  BY <1>0, <1>1, <1>3 DEF IInv, Counted, InHand
<1>6. Placed' /\ Apart'
  BY <1>0, <1>2 DEF IInv, Placed, Apart
<1>7. QueuedOnce'
  <2>1. \A i \in 1..Len(queue') : i + 1 \in 1..Len(queue)
    BY <1>1
  <2>2. QED
    BY <1>1, <2>1 DEF IInv, QueuedOnce
<1>8. stopping /\ DrainUnderWay
  <2>1. 1 \in 1..Len(queue)
    BY <1>1
  <2>2. QED
    BY <2>1, <1>1, <1>0 DEF IInv, SentinelIffStopping, IsRunning
<1>9. PICK s \in 1..Len(queue) :
        /\ \A i \in 1..Len(queue) : queue[i] = Sentinel => i = s
        /\ \A u \in beforeStop : \/ u \in ended \/ u \in Running
                                 \/ \E i \in 1..Len(queue) : i < s /\ queue[i] = u
  BY <1>8 DEF DrainUnderWay
<1>10. s = 1
  BY <1>9, <1>1
<1>11. SentinelIffStopping'
  <2>1. \A i \in 1..Len(queue') : queue'[i] # Sentinel
    <3>1. ASSUME NEW i \in 1..Len(queue'), queue'[i] = Sentinel
          PROVE  FALSE
      <4>1. i + 1 \in 1..Len(queue) /\ queue[i + 1] = Sentinel /\ i + 1 # 1
        BY <3>1, <1>1
      <4>2. QED
        BY <4>1, <1>9, <1>10
    <3>2. QED
      BY <3>1
  <2>2. QED
    BY <2>1, <1>0 DEF SentinelIffStopping, IsRunning
<1>12. beforeStop \subseteq ended
  <2>1. ~\E i \in 1..Len(queue) : i < s
    BY <1>10, <1>1
  <2>2. QED
    BY <2>1, <1>9, <1>2
<1>13. (beforeStop \subseteq processed)' /\ StopDrains'
  BY <1>0, <1>12 DEF IInv, StopDrains
<1>14. QED
  BY <1>4, <1>5, <1>6, <1>7, <1>11, <1>13 DEF IInv

\* IInv is inductive.
LEMMA NextKeepsIInv == IInv /\ [Next]_vars => IInv'
<1> SUFFICES ASSUME IInv, [Next]_vars
             PROVE  IInv'
  OBVIOUS
<1>1. ASSUME NEW t \in Tasks, Enqueue(t)
      PROVE  IInv'
  BY <1>1, EnqueueKeepsIInv
<1>2. CASE Start
  BY <1>2, StartKeepsIInv
<1>3. CASE StopBegin
  BY <1>3, StopBeginKeepsIInv
<1>4. CASE StopEnd
  BY <1>4, StopEndKeepsIInv
<1>5. CASE GetJob
  BY <1>5, GetJobKeepsIInv
<1>6. CASE GetSentinel
  BY <1>6, GetSentinelKeepsIInv
<1>7. CASE HandlerEnds
  BY <1>7, HandlerEndsKeepsIInv
<1>8. CASE UNCHANGED vars
  BY <1>8 DEF vars, IInv, TypeOK, Counted, InHand, Placed, Apart, QueuedOnce,
              SentinelIffStopping, DrainUnderWay, IsRunning, StopDrains, Queued,
              Running
<1>9. QED
  BY <1>1, <1>2, <1>3, <1>4, <1>5, <1>6, <1>7, <1>8 DEF Next, WorkerLoop

------------------------------------------------------------------------------
(* The results.                                                            *)

\* Every reachable state of the in-memory backend satisfies IInv.
THEOREM Invariance == Spec => []IInv
<1>1. QED
  BY InitIInv, NextKeepsIInv, PTL DEF Spec

\* The variables keep their types; in particular task_done is never called
\* more often than put, which asyncio would answer with a ValueError.
THEOREM TypeCorrect == Spec => []TypeOK
<1>1. IInv => TypeOK
  BY DEF IInv
<1>2. QED
  BY <1>1, Invariance, PTL

\* join() returns only when every accepted job has been through the handler.
THEOREM DrainIsComplete == Spec => []DrainMeansDone
<1>1. IInv => DrainMeansDone
  <2> SUFFICES ASSUME IInv, unfinished = 0
               PROVE  processed = ended
    BY DEF DrainMeansDone
  <2>1. Len(queue) = 0 /\ worker # "busy"
    BY DEF IInv, TypeOK, Counted
  <2>2. Queued = {} /\ Running = {}
    <3>1. DOMAIN queue = {}
      BY <2>1 DEF IInv, TypeOK
    <3>2. QED
      BY <3>1, <2>1 DEF Queued, Running
  <2>3. QED
    BY <2>2 DEF IInv, Placed
<1>2. QED
  BY <1>1, Invariance, PTL

\* stop() leaves none of the jobs behind that were accepted before it.
THEOREM StopIsGraceful == Spec => []StopDrains
<1>1. IInv => StopDrains
  BY DEF IInv
<1>2. QED
  BY <1>1, Invariance, PTL

\* The in-memory backend implements DelegationQueue: every task id is accepted
\* once and handed to the handler at most once, whatever stops and starts come.
THEOREM Refinement == Spec => ImplementsQueue
<1> USE SentinelIsNoTask
<1>1. Init => Abstract!Init
  <2> SUFFICES ASSUME Init PROVE Abstract!Init
    OBVIOUS
  <2>1. Queued = {} /\ Running = {} /\ ended = {}
    BY DEF Init, Queued, Running
  <2>2. QED
    BY <2>1 DEF Abstract!Init
<1>2. IInv /\ [Next]_vars => [Abstract!Next]_(Abstract!vars)
  <2> SUFFICES ASSUME IInv, [Next]_vars
               PROVE  Abstract!Next \/ UNCHANGED <<Queued, Running, ended>>
    BY DEF Abstract!vars
  <2>1. ASSUME NEW t \in Tasks, Enqueue(t)
        PROVE  Abstract!Accept(t)
    <3>1. /\ queue \in Seq(Tasks \cup {Sentinel})
          /\ queue' = Append(queue, t)
          /\ t \notin processed
          /\ UNCHANGED <<worker, current, ended>>
      BY <2>1 DEF IInv, TypeOK, Enqueue, Put
    <3>2. Queued' = Queued \cup {t}
      BY <3>1, AppendContent DEF Queued
    <3>3. t \notin Queued \cup Running \cup ended
      BY <3>1 DEF IInv, Placed
    <3>4. QED
      BY <3>1, <3>2, <3>3 DEF Abstract!Accept, Abstract!Accepted, Running
  <2>2. CASE Start
    BY <2>2 DEF Start, IsRunning, Queued, Running
  <2>3. CASE StopBegin
    <3>1. /\ queue \in Seq(Tasks \cup {Sentinel})
          /\ queue' = Append(queue, Sentinel)
          /\ UNCHANGED <<worker, current, ended>>
      BY <2>3 DEF IInv, TypeOK, StopBegin, Put
    <3>2. Queued' = Queued
      BY <3>1, AppendContent DEF Queued
    <3>3. QED
      BY <3>1, <3>2 DEF Running
  <2>4. CASE StopEnd
    BY <2>4 DEF StopEnd, Queued, Running
  <2>5. CASE GetJob
    <3>1. /\ queue \in Seq(Tasks \cup {Sentinel})
          /\ queue # <<>>
          /\ queue' = Tail(queue)
          /\ current' = Head(queue)
          /\ Head(queue) # Sentinel
          /\ worker = "idle" /\ worker' = "busy"
          /\ UNCHANGED ended
      BY <2>5 DEF IInv, TypeOK, GetJob
    <3>2. Queued = Queued' \cup {current'}
      <4>1. {queue[i] : i \in DOMAIN queue}
             = {Tail(queue)[i] : i \in DOMAIN Tail(queue)} \cup {Head(queue)}
        BY <3>1, TailContent
      <4>2. QED
        BY <4>1, <3>1 DEF Queued
    <3>3. Running = {} /\ Running' = {current'}
      BY <3>1 DEF Running
    <3>4. Queued' \cap Running' = {}
      BY <2>5, GetJobKeepsIInv DEF IInv, Apart
    <3>5. current' \in Tasks
      BY <3>1, TailContent
    <3>6. Abstract!Begin(current')
      BY <3>1, <3>2, <3>3, <3>4 DEF Abstract!Begin
    <3>7. QED
      BY <3>5, <3>6 DEF Abstract!Next
  <2>6. CASE GetSentinel
    <3>1. /\ queue \in Seq(Tasks \cup {Sentinel})
          /\ queue # <<>>
          /\ queue' = Tail(queue)
          /\ Head(queue) = Sentinel
          /\ worker = "idle" /\ worker' = "done"
          /\ UNCHANGED ended
      BY <2>6 DEF IInv, TypeOK, GetSentinel
    <3>2. Queued = Queued'
      <4>1. {queue[i] : i \in DOMAIN queue}
             = {Tail(queue)[i] : i \in DOMAIN Tail(queue)} \cup {Head(queue)}
        BY <3>1, TailContent
      <4>2. QED
        BY <4>1, <3>1 DEF Queued
    <3>3. QED
      BY <3>1, <3>2 DEF Running
  <2>7. CASE HandlerEnds
    <3>1. Running = {current} /\ Running' = {} /\ Queued' = Queued
      BY <2>7 DEF HandlerEnds, Running, Queued
    <3>2. ended' = ended \cup {current} /\ current \in Tasks
      BY <2>7 DEF HandlerEnds, IInv, TypeOK, InHand
    <3>3. Abstract!End(current)
      BY <3>1, <3>2 DEF Abstract!End
    <3>4. QED
      BY <3>2, <3>3 DEF Abstract!Next
  <2>8. CASE UNCHANGED vars
    BY <2>8 DEF vars, Queued, Running
  <2>9. QED
    BY <2>1, <2>2, <2>3, <2>4, <2>5, <2>6, <2>7, <2>8
       DEF Next, WorkerLoop, Abstract!Next
<1>3. QED
  BY <1>1, <1>2, Invariance, PTL DEF Spec, ImplementsQueue, Abstract!Spec
==============================================================================
