-------------------------- MODULE MCDelegationMemory --------------------------
(* Four task ids: one that runs, one queued before the sentinel, one behind *)
(* it and one more, so that every order of POST, stop and restart occurs.   *)
EXTENDS DelegationMemory
==============================================================================
