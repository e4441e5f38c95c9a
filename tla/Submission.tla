------------------------------- MODULE Submission -------------------------------
(***************************************************************************)
(* The delegation tool: one POST of a job to the target agent's inbound    *)
(* delegation endpoint, between two rows of the activity log.  The id of a *)
(* job is fresh, so a POST is never repeated, but its answer may be lost   *)
(* after the target has taken the job.                                     *)
(*                                                                         *)
(* The target's backend is reduced to what the sender can tell apart: its  *)
(* worker runs or not, and it takes a job, raises, or raises having taken  *)
(* it (DelegationMemory and DelegationRedis have what happens inside).     *)
(*                                                                         *)
(* An operator whose name ends in _Wrong is a faulty variant of the one    *)
(* after it; no specification uses it.                                     *)
(***************************************************************************)
EXTENDS ActivityLog

CONSTANT Jobs   \* calls of the tool with a target and a request, each with an id of its own

VARIABLES
  submitting, \* where the tool's call for a job is
  rows,       \* the rows of the job's invocation
  post,       \* the POST and its answer
  working,    \* does the target's worker run?
  accepted    \* jobs that are in the target's backend, or have been

submissionVars == <<submitting, rows, post, working, accepted>>

SubmissionInit ==
  /\ submitting = [j \in Jobs |-> "idle"]
  /\ rows = [j \in Jobs |-> << >>]
  /\ post = [j \in Jobs |-> "none"]
  /\ working = FALSE
  /\ accepted = {}

Steps(j, from, to) ==
  /\ submitting[j] \in from
  /\ submitting' = [submitting EXCEPT ![j] = to]

Writes(j, status) == \E r \in AfterLogging(rows[j], status) : rows' = [rows EXCEPT ![j] = r]

\* delegate_tool: the dispatching row first.
DelegateWork(j) ==
  /\ Steps(j, {"idle"}, "resolving")
  /\ Writes(j, "dispatching")
  /\ UNCHANGED <<post, working, accepted>>

\* The target's base URL is configured or resolved; the POST goes out.
PostJob(j) ==
  /\ Steps(j, {"resolving"}, "posting")
  /\ post' = [post EXCEPT ![j] = "sent"]
  /\ UNCHANGED <<rows, working, accepted>>

\* The target: 503 without a worker, an error when enqueue raises, which may be
\* after the job is in the stream, and 202 otherwise.
AcceptJob(j) ==
  /\ post[j] = "sent"
  /\ \E answer \in {"202", "5xx"}, taken \in BOOLEAN :
       /\ answer = "202" => working /\ taken
       /\ taken => working
       /\ post' = [post EXCEPT ![j] = answer]
       /\ accepted' = IF taken THEN accepted \cup {j} ELSE accepted
  /\ UNCHANGED <<submitting, rows, working>>

SubmissionAnswered_Wrong(j) ==    \* no raise_for_status
  /\ post[j] \in {"202", "5xx"}
  /\ Steps(j, {"posting"}, "over")
  /\ Writes(j, "completed")
  /\ UNCHANGED <<post, working, accepted>>

\* The answer: completed says that the target has the job, not that it has run.
SubmissionAnswered(j) ==
  /\ post[j] \in {"202", "5xx"}
  /\ Steps(j, {"posting"}, "over")
  /\ Writes(j, IF post[j] = "202" THEN "completed" ELSE "error")
  /\ UNCHANGED <<post, working, accepted>>

\* No target, no connection, no answer in time, no JSON object, or the turn is
\* cancelled: an error row, while the POST may still arrive.
SubmissionFails(j) ==
  /\ Steps(j, {"resolving", "posting"}, "over")
  /\ Writes(j, "error")
  /\ UNCHANGED <<post, working, accepted>>

\* The target's lifespan starts and stops its worker.
SwitchWorker ==
  /\ working' = ~working
  /\ UNCHANGED <<submitting, rows, post, accepted>>

SubmissionNext ==
  \/ \E j \in Jobs :
       \/ DelegateWork(j) \/ PostJob(j) \/ AcceptJob(j)
       \/ SubmissionAnswered(j) \/ SubmissionFails(j)
  \/ SwitchWorker

SubmissionSpec == SubmissionInit /\ [][SubmissionNext]_submissionVars

------------------------------------------------------------------------------
SubmissionTypeOK ==
  /\ submitting \in [Jobs -> {"idle", "resolving", "posting", "over"}]
  /\ rows \in [Jobs -> Seq(Statuses)]
  /\ post \in [Jobs -> {"none", "sent", "202", "5xx"}]
  /\ working \in BOOLEAN
  /\ accepted \subseteq Jobs

\* Whatever is lost on the way, the log never says of a job that it was delivered
\* when the target does not have it, and has at most one outcome of a job.
CompletedIsAccepted ==
  \A j \in Jobs :
    /\ \A i \in DOMAIN rows[j] : rows[j][i] = "completed" => j \in accepted
    /\ \A i, k \in DOMAIN rows[j] :
         rows[j][i] # "dispatching" /\ rows[j][k] # "dispatching" => i = k
==============================================================================
