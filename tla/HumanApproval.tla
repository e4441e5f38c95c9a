----------------------------- MODULE HumanApproval -----------------------------
(***************************************************************************)
(* The human-in-the-loop round trip of one agent process: an inbound job   *)
(* runs as a turn (run_inbound_job_with_runner), the agent opens an        *)
(* approval gate (dispatch_to_human), a reviewer's PATCH resolves it       *)
(* (_resolve_handler and resolve_approval) and posts a resume job, which   *)
(* the delegation backend takes in unless it knows the job's id already.   *)
(*                                                                         *)
(* One event loop runs the worker, any number of PATCH handlers and the    *)
(* agent's turns that do not come from the queue (A2A calls); every await  *)
(* of a database insert or an HTTP call is a step boundary.  Of the        *)
(* delegation backend only what it promises is kept: one worker, first in  *)
(* first out, an id is taken once unless its turn failed (Redis), and not  *)
(* again even then (memory).                                               *)
(*                                                                         *)
(* Of agent_task_log only the rows that end a turn are kept; those of the  *)
(* start of a turn, of a dispatch and of a decision are left out, and the  *)
(* awaits that write them fall together with the next step of the caller.  *)
(* current_hitl_pending is left out: a tool sets it in the task ADK runs   *)
(* the tool in, and the handler never sees it (core/context.py).           *)
(*                                                                         *)
(* An operator whose name ends in _Wrong is a faulty variant of the one    *)
(* after it; no specification uses it.                                     *)
(***************************************************************************)
EXTENDS Naturals, Sequences, FiniteSets

CONSTANTS
  Gates,      \* approval ids
  Sessions,   \* session ids; also the id of the request that opens a session
  Session,    \* the session a gate is used in
  Reviewers,  \* PATCH handlers in flight
  Decisions,  \* the terminal statuses a reviewer uses
  Outside,    \* turns of the agent that the queue did not start
  None,       \* no gate, no job
  MaxTurns,   \* bound: turns the worker runs
  MaxOpened,  \* bound: pending rows
  MaxFaults   \* bound: failed inserts and posts, cancelled turns

ASSUME SessionOfGate == Session \in [Gates -> Sessions]

ASSUME DecisionsAreTerminal == Decisions \subseteq {"approved", "rejected", "cancelled"}

ASSUME NamesApart ==
  /\ None \notin Gates \cup Sessions
  /\ Gates \cap Sessions = {}

VARIABLES
  approvals,  \* workflow_approvals, in the order of created_at
  log,        \* agent_task_log: the rows that end a turn
  queue,      \* resume jobs and requests the backend took in
  seen,       \* job ids the backend refuses as duplicates
  hitl,       \* _hitl_pending_by_inv
  turn,       \* the worker and its turn
  tool,       \* per caller: the gate its dispatch_to_human call is opening
  review,     \* per PATCH handler: where it is
  faults,
  dispatched, \* history: turns in which the agent dispatched to a human
  reinjected  \* history: decisions (positions in approvals) taken in as jobs

tables == <<approvals, log>>
vars == <<approvals, log, queue, seen, hitl, turn, tool, review, faults,
          dispatched, reinjected>>

Inbound == "inbound"             \* the caller that is the worker's turn
Callers == Outside \cup {Inbound}

NoJob == [id |-> None, session |-> None, told |-> "none"]
NoReview == [at |-> "idle", gate |-> None, decision |-> "none", row |-> 0]

Init ==
  /\ approvals = <<>>
  /\ log = {}
  /\ queue = <<>>
  /\ seen = {}
  /\ hitl = [s \in Sessions |-> "absent"]
  /\ turn = [at |-> "idle", number |-> 0, job |-> NoJob, retried |-> FALSE,
             human |-> FALSE]
  /\ tool = [k \in Callers |-> None]
  /\ review = [r \in Reviewers |-> NoReview]
  /\ faults = 0
  /\ dispatched = {}
  /\ reinjected = {}

Fault ==
  /\ faults < MaxFaults
  /\ faults' = faults + 1

\* log_event: a row, or none when the insert fails; it never raises.
Logged(row) ==
  \/ log' = log \cup {row} /\ UNCHANGED faults
  \/ UNCHANGED log /\ Fault

TurnRow(status, human) == [turn |-> turn.number, status |-> status, human |-> human]

\* What the backend does with a job: taken in, or a duplicate.
Taken(job) ==
  /\ job.id \notin seen
  /\ seen' = seen \cup {job.id}
  /\ queue' = Append(queue, job)

Duplicate(job) ==
  /\ job.id \in seen
  /\ UNCHANGED <<seen, queue>>

------------------------------------------------------------------------------
(* The turn: run_inbound_job_with_runner.                                  *)

\* A request that opens a session is delegated to the agent.
Delegate(s) ==
  /\ Taken([id |-> s, session |-> s, told |-> "none"])
  /\ UNCHANGED <<tables, hitl, turn, tool, review, faults, dispatched, reinjected>>

\* The worker takes a job; the flag of its session is put to False.
Take ==
  /\ turn.at = "idle"
  /\ queue # <<>>
  /\ turn.number < MaxTurns
  /\ turn' = [at |-> "agent", number |-> turn.number + 1, job |-> Head(queue),
              retried |-> FALSE, human |-> FALSE]
  /\ queue' = Tail(queue)
  /\ hitl' = [hitl EXCEPT ![Head(queue).session] = "no"]
  /\ UNCHANGED <<tables, seen, tool, review, faults, dispatched, reinjected>>

AgentRaises_Wrong ==   \* the retry starts the turn over, flag included
  /\ turn.at = "agent"
  /\ tool[Inbound] = None
  /\ IF turn.retried
       THEN turn' = [turn EXCEPT !.at = "logError"] /\ UNCHANGED hitl
       ELSE /\ turn' = [turn EXCEPT !.retried = TRUE]
            /\ hitl' = [hitl EXCEPT ![turn.job.session] = "no"]
  /\ UNCHANGED <<tables, queue, seen, tool, review, faults, dispatched, reinjected>>

RaiseForever_Wrong ==  \* every exception is retried
  /\ turn.at = "agent"
  /\ tool[Inbound] = None
  /\ turn' = [turn EXCEPT !.retried = ~turn.retried]
  /\ UNCHANGED <<tables, queue, seen, hitl, tool, review, faults, dispatched,
                 reinjected>>

\* The agent step raises: once it is run again, the second time is final.
AgentRaises ==
  /\ turn.at = "agent"
  /\ tool[Inbound] = None
  /\ turn' = IF turn.retried THEN [turn EXCEPT !.at = "logError"]
                             ELSE [turn EXCEPT !.retried = TRUE]
  /\ UNCHANGED <<tables, queue, seen, hitl, tool, review, faults, dispatched,
                 reinjected>>

\* The agent step returns: the flag of the session is read and popped.
AgentReturns ==
  /\ turn.at = "agent"
  /\ tool[Inbound] = None
  /\ turn' = [turn EXCEPT !.at = "logCompleted",
                          !.human = hitl[turn.job.session] = "yes"]
  /\ hitl' = [hitl EXCEPT ![turn.job.session] = "absent"]
  /\ UNCHANGED <<tables, queue, seen, tool, review, faults, dispatched, reinjected>>

\* The finally clause, and the worker's way back to its queue.
TurnOver ==
  /\ turn' = [turn EXCEPT !.at = "idle", !.job = NoJob, !.retried = FALSE,
                          !.human = FALSE]
  /\ hitl' = [hitl EXCEPT ![turn.job.session] = "absent"]

LogCompleted ==
  /\ turn.at = "logCompleted"
  /\ Logged(TurnRow("completed", turn.human))
  /\ TurnOver
  /\ UNCHANGED <<approvals, queue, seen, tool, review, dispatched, reinjected>>

\* The exception reaches the backend: Redis records the job as failed, which
\* lets its id in again; the memory backend does not.
LogError ==
  /\ turn.at = "logError"
  /\ Logged(TurnRow("error", FALSE))
  /\ TurnOver
  /\ seen' \in {seen, seen \ {turn.job.id}}
  /\ UNCHANGED <<approvals, queue, tool, review, dispatched, reinjected>>

\* The worker is cancelled: CancelledError is no Exception, so the turn only
\* runs its finally clause.
TurnCancelled ==
  /\ turn.at # "idle"
  /\ TurnOver
  /\ tool' = [tool EXCEPT ![Inbound] = None]
  /\ Fault
  /\ UNCHANGED <<tables, queue, seen, review, dispatched, reinjected>>

------------------------------------------------------------------------------
(* dispatch_to_human, by the turn of the worker or by another one.         *)

\* Pending rows, inserted or about to be.
Openings ==
  Cardinality({i \in DOMAIN approvals : approvals[i].status = "pending"})
    + Cardinality({k \in Callers : tool[k] # None})

PendingRow(g) == [gate |-> g, status |-> "pending", readAt |-> 0]

\* The agent calls one of its approval tools, which all name the gate from a
\* prefix and a key, or from the session, so that the name may come again, and
\* dispatch to a human once.  A turn is in one call at a time.
RequestApproval(k, g) ==
  /\ tool[k] = None
  /\ k = Inbound => turn.at = "agent" /\ turn.job.session = Session[g]

\* The flag and the dispatching row come before the pending row.
DispatchFlags(k, g) ==
  /\ RequestApproval(k, g)
  /\ Openings < MaxOpened
  /\ tool' = [tool EXCEPT ![k] = g]
  /\ hitl' = [hitl EXCEPT ![Session[g]] = "yes"]
  /\ dispatched' = IF k = Inbound THEN dispatched \cup {turn.number} ELSE dispatched
  /\ UNCHANGED <<tables, queue, seen, turn, review, faults, reinjected>>

\* create_approval: the pending row, whatever rows the gate has already.  When
\* the insert fails the tool tells the agent so, and the turn goes on.
CreateApproval(k) ==
  /\ tool[k] # None
  /\ tool' = [tool EXCEPT ![k] = None]
  /\ \/ /\ approvals' = Append(approvals, PendingRow(tool[k]))
        /\ UNCHANGED faults
     \/ UNCHANGED approvals /\ Fault
  /\ UNCHANGED <<log, queue, seen, hitl, turn, review, dispatched, reinjected>>

\* _create_handler: a POST opens a gate, and no turn is told of it.
PostApproval(g) ==
  /\ Openings < MaxOpened
  /\ approvals' = Append(approvals, PendingRow(g))
  /\ UNCHANGED <<log, queue, seen, hitl, turn, tool, review, faults, dispatched,
                 reinjected>>

------------------------------------------------------------------------------
(* _resolve_handler and resolve_approval.                                  *)

RowsOf(g) == {i \in DOMAIN approvals : approvals[i].gate = g}

\* get_latest_approval: the newest row of the gate.
IsPending(g) ==
  \E i \in RowsOf(g) :
    /\ approvals[i].status = "pending"
    /\ \A j \in RowsOf(g) : j <= i

ReadLatest_Wrong(r, g, d) ==   \* any row of the gate is pending, not the latest
  /\ review[r].at = "idle"
  /\ \E i \in RowsOf(g) : approvals[i].status = "pending"
  /\ Len(approvals) < 2 * MaxOpened
  /\ review' = [review EXCEPT ![r] = [at |-> "insert", gate |-> g, decision |-> d,
                                      row |-> Len(approvals)]]
  /\ UNCHANGED <<tables, queue, seen, hitl, turn, tool, faults, dispatched, reinjected>>

\* The PATCH reads the latest row; one that is not pending is answered 404.
ReadLatest(r, g, d) ==
  /\ review[r].at = "idle"
  /\ IsPending(g)
  /\ review' = [review EXCEPT ![r] = [at |-> "insert", gate |-> g, decision |-> d,
                                      row |-> Len(approvals)]]
  /\ UNCHANGED <<tables, queue, seen, hitl, turn, tool, faults, dispatched, reinjected>>

DecisionRow(r) ==
  [gate |-> review[r].gate, status |-> review[r].decision, readAt |-> review[r].row]

InsertDecision_Wrong(r) ==   \* only an approval is sent back to the agent
  /\ review[r].at = "insert"
  /\ approvals' = Append(approvals, DecisionRow(r))
  /\ review' = [review EXCEPT ![r] =
                  IF @.decision # "approved" THEN NoReview
                  ELSE [@ EXCEPT !.at = "submit", !.row = Len(approvals) + 1]]
  /\ UNCHANGED <<log, queue, seen, hitl, turn, tool, faults, dispatched, reinjected>>

\* The terminal row is inserted without another look at the latest one.  A
\* cancelled gate is not sent back to the agent.
InsertDecision(r) ==
  /\ review[r].at = "insert"
  /\ approvals' = Append(approvals, DecisionRow(r))
  /\ review' = [review EXCEPT ![r] =
                  IF @.decision = "cancelled" THEN NoReview
                  ELSE [@ EXCEPT !.at = "submit", !.row = Len(approvals) + 1]]
  /\ UNCHANGED <<log, queue, seen, hitl, turn, tool, faults, dispatched, reinjected>>

ResumeJob(r) ==
  [id |-> review[r].gate, session |-> Session[review[r].gate], told |-> review[r].decision]

SubmitEarly_Wrong(r) ==    \* the resume job is posted before the row is inserted
  /\ review[r].at \in {"insert", "submit"}
  /\ review' = [review EXCEPT ![r] = IF @.at = "submit" THEN NoReview ELSE @]
  /\ \/ Taken(ResumeJob(r))
     \/ Duplicate(ResumeJob(r))
  /\ UNCHANGED <<tables, hitl, turn, tool, faults, dispatched, reinjected>>

\* submit_inbound_delegation with the id "resume-<gate>"; a duplicate is 202
\* like an accepted job, and the handler does not look.
SubmitResume(r) ==
  /\ review[r].at = "submit"
  /\ review' = [review EXCEPT ![r] = NoReview]
  /\ \/ /\ Taken(ResumeJob(r))
        /\ reinjected' = reinjected \cup {review[r].row}
     \/ /\ Duplicate(ResumeJob(r))
        /\ UNCHANGED reinjected
  /\ UNCHANGED <<tables, hitl, turn, tool, faults, dispatched>>

\* The insert fails (404), the resume post fails (a warning only), or the
\* handler is cut short by its process or its client.
ReviewFails(r) ==
  /\ review[r].at # "idle"
  /\ review' = [review EXCEPT ![r] = NoReview]
  /\ Fault
  /\ UNCHANGED <<tables, queue, seen, hitl, turn, tool, dispatched, reinjected>>

------------------------------------------------------------------------------
TurnEnds == AgentRaises \/ AgentReturns

Turn == Take \/ TurnEnds \/ LogCompleted \/ LogError

Review(r) == InsertDecision(r) \/ SubmitResume(r)

Next ==
  \/ \E s \in Sessions : Delegate(s)
  \/ Turn
  \/ TurnCancelled
  \/ \E k \in Callers : CreateApproval(k) \/ \E g \in Gates : DispatchFlags(k, g)
  \/ \E g \in Gates : PostApproval(g)
  \/ \E r \in Reviewers :
       \/ \E g \in Gates, d \in Decisions : ReadLatest(r, g, d)
       \/ Review(r)
       \/ ReviewFails(r)

Spec == Init /\ [][Next]_vars

\* The event loop runs what is ready, the database and the HTTP calls answer or
\* time out, and an agent step ends.  No request, gate or review has to come.
FairSpec ==
  /\ Spec
  /\ WF_vars(Turn)
  /\ \A k \in Callers : WF_vars(CreateApproval(k))
  /\ \A r \in Reviewers : WF_vars(Review(r))

------------------------------------------------------------------------------
Jobs == [id : Gates \cup Sessions, session : Sessions, told : Decisions \cup {"none"}]

TypeOK ==
  /\ approvals \in Seq([gate : Gates, status : {"pending"} \cup Decisions, readAt : Nat])
  /\ log \subseteq [turn : Nat, status : {"completed", "error"}, human : BOOLEAN]
  /\ queue \in Seq(Jobs)
  /\ seen \subseteq Gates \cup Sessions
  /\ hitl \in [Sessions -> {"absent", "no", "yes"}]
  /\ turn \in [at : {"idle", "agent", "logCompleted", "logError"},
               number : Nat, job : Jobs \cup {NoJob}, retried : BOOLEAN,
               human : BOOLEAN]
  /\ turn.at # "idle" => turn.job \in Jobs
  /\ tool \in [Callers -> Gates \cup {None}]
  /\ review \in [Reviewers -> [at : {"insert", "submit"}, gate : Gates,
                               decision : Decisions, row : Nat] \cup {NoReview}]
  /\ faults \in Nat
  /\ dispatched \subseteq Nat
  /\ reinjected \subseteq DOMAIN approvals

CompletedRow(n, human) ==
  [turn |-> n, status |-> "completed", human |-> human] \in log

\* A turn in which the agent dispatched to a human is never logged as a genuine
\* completion, through retries, failed inserts and other turns of the session.
DispatchIsFlagged == \A n \in dispatched : ~CompletedRow(n, FALSE)

\* A gate gets a second decision without having been opened again only from a
\* PATCH that had read the pending row before the first decision was inserted.
SecondDecisionRaced ==
  \A i, j \in DOMAIN approvals :
    (/\ i < j
     /\ approvals[i].gate = approvals[j].gate
     /\ approvals[i].status # "pending"
     /\ approvals[j].status # "pending"
     /\ \A k \in i..j : approvals[k].gate = approvals[i].gate
                          => approvals[k].status # "pending")
      => approvals[j].readAt < i

\* What a resume job tells the agent is a decision on the record of its gate.
OnRecord(job) ==
  job.id \in Gates =>
    \E i \in RowsOf(job.id) : approvals[i].status = job.told

ToldIsOnRecord ==
  /\ \A i \in DOMAIN queue : OnRecord(queue[i])
  /\ turn.at # "idle" => OnRecord(turn.job)

\* A turn that began is logged as completed or as an error, unless an insert
\* failed or the worker was cancelled.
TurnIsLogged ==
  \A n \in 1..MaxTurns :
    turn.at # "idle" /\ turn.number = n ~>
      \/ CompletedRow(n, TRUE) \/ CompletedRow(n, FALSE)
      \/ [turn |-> n, status |-> "error", human |-> FALSE] \in log
      \/ faults > 0

\* An approval or a rejection reaches the agent's queue: a resume job of its
\* gate has been taken in, unless a fault cut the handler short.
GateIsResumed ==
  \A g \in Gates :
    (\E i \in RowsOf(g) : approvals[i].status \in {"approved", "rejected"}) ~>
      (RowsOf(g) \cap reinjected # {} \/ faults > 0)

\* starlette.py: a caller resolves a pending approval and the answer is
\* re-injected into the inbound delegation queue.  When nothing failed and no
\* handler is under way, every approval and every rejection was taken in.
DecisionsReinjected ==
  (faults = 0 /\ \A r \in Reviewers : review[r] = NoReview) =>
    \A i \in DOMAIN approvals :
      approvals[i].status \in {"approved", "rejected"} => i \in reinjected

\* core/context.py: a True from dispatch_to_human "causes the final completed
\* log row to carry target_agent_id=human", which makes it distinguishable from
\* a genuine task completion.  A turn logged so has dispatched to a human.
HumanMeansDispatched ==
  \A n \in 1..MaxTurns : CompletedRow(n, TRUE) => n \in dispatched
==============================================================================
