--------------------------- MODULE MCDelegationRedis ---------------------------
(* Two pods that share the stream, two accept handlers at a time.  Task ids, *)
(* pods and handlers are interchangeable, which the safety run uses.         *)
EXTENDS DelegationRedis, TLC

Interchangeable ==
  Permutations(Tasks) \cup Permutations(Pods) \cup Permutations(Calls)
==============================================================================
