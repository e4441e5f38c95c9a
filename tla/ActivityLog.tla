------------------------------ MODULE ActivityLog ------------------------------
(***************************************************************************)
(* log_event: one row appended to agent_task_log, or none when the status  *)
(* is not one of the table's or the insert fails.  It never raises.        *)
(***************************************************************************)
EXTENDS Sequences

Statuses == {"running", "dispatching", "completed", "error"}

\* What the rows of an invocation may be once log_event has returned.
AfterLogging(rows, status) ==
  {rows} \cup (IF status \in Statuses THEN {Append(rows, status)} ELSE {})
==============================================================================
