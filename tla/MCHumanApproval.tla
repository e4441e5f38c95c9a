---------------------------- MODULE MCHumanApproval ----------------------------
(* One approval id, opened again and again in one session: every decision on  *)
(* it competes for the same resume id.                                        *)
EXTENDS HumanApproval, TLC

OneSession == [g \in Gates |-> CHOOSE s \in Sessions : TRUE]

Interchangeable == Permutations(Reviewers)
==============================================================================
