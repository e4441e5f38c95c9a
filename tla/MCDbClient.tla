------------------------------ MODULE MCDbClient ------------------------------
(* Two tasks of one event loop, enough for every race between an await of one *)
(* and a call of the other, on a pool of one connection, where a second       *)
(* borrower waits, and on a pool of two, where both hold one.                 *)
EXTENDS DbClient, TLC
==============================================================================
