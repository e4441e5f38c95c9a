--------------------------- MODULE DelegationQueue ---------------------------
(***************************************************************************)
(* What an inbound delegation backend promises to the agent behind it,     *)
(* whichever backend create_inbound_delegation_backend picks: a job that   *)
(* was taken in reaches the handler at most once.  It may be dropped       *)
(* before it reaches the handler (the Redis backend acknowledges entries   *)
(* it never ran when its pod is stopped), and several jobs may run at the  *)
(* same time (one per pod).  What never happens is that a job comes back   *)
(* after its turn, or runs without having been accepted.                   *)
(*                                                                         *)
(* DelegationMemory and DelegationRedis implement this specification; a    *)
(* job is a task id in the first, an entry of the stream in the second.    *)
(***************************************************************************)

CONSTANT Jobs    \* whatever identifies one accepted request

VARIABLES
  waiting,       \* accepted, not yet given to the handler
  running,       \* the handler is working on it
  over           \* the handler returned, raised or was cut short; or dropped

vars == <<waiting, running, over>>

Accepted == waiting \cup running \cup over

Init ==
  /\ waiting = {}
  /\ running = {}
  /\ over = {}

Accept(j) ==
  /\ j \notin Accepted
  /\ waiting' = waiting \cup {j}
  /\ UNCHANGED <<running, over>>

Begin(j) ==
  /\ j \in waiting
  /\ waiting' = waiting \ {j}
  /\ running' = running \cup {j}
  /\ UNCHANGED over

End(j) ==
  /\ j \in running
  /\ running' = running \ {j}
  /\ over' = over \cup {j}
  /\ UNCHANGED waiting

Drop(j) ==
  /\ j \in waiting
  /\ waiting' = waiting \ {j}
  /\ over' = over \cup {j}
  /\ UNCHANGED running

Next == \E j \in Jobs : Accept(j) \/ Begin(j) \/ End(j) \/ Drop(j)

Spec == Init /\ [][Next]_vars
==============================================================================
