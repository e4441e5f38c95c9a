------------------------- MODULE HumanApproval_proofs -------------------------
(***************************************************************************)
(* Proofs about HumanApproval, for any gates, sessions, reviewers and      *)
(* turns outside the queue.  Base says what a PATCH handler remembers of   *)
(* the approvals table; on top of it there is one invariant for what the   *)
(* agent is told, one for second decisions and one for the log.            *)
(***************************************************************************)
EXTENDS HumanApproval, TLAPS

Row == [gate : Gates, status : {"pending"} \cup Decisions, readAt : Nat]

\* A handler that is to post a resume job has its decision in the table.
Recorded ==
  \A r \in Reviewers :
    review[r].at = "submit" =>
      /\ review[r].row \in DOMAIN approvals
      /\ approvals[review[r].row].gate = review[r].gate
      /\ approvals[review[r].row].status = review[r].decision

Base == TypeOK /\ Recorded

------------------------------------------------------------------------------
(* The approvals table only grows, by one row at a time.                   *)

Grows ==
  \/ approvals' = approvals
  \/ \E row \in Row : approvals' = Append(approvals, row)

\* What an insert leaves of the table and what it adds.
LEMMA InsertRow ==
  ASSUME TypeOK, NEW row \in Row, approvals' = Append(approvals, row)
  PROVE  /\ approvals' \in Seq(Row)
         /\ Len(approvals) \in Nat
         /\ Len(approvals') = Len(approvals) + 1
         /\ DOMAIN approvals = 1..Len(approvals)
         /\ DOMAIN approvals' = 1..(Len(approvals) + 1)
         /\ \A i \in DOMAIN approvals : approvals'[i] = approvals[i]
         /\ approvals'[Len(approvals) + 1] = row
<1>1. approvals \in Seq(Row)
  BY DEF TypeOK, Row
<1>2. QED
  BY <1>1

\* Rows that are there stay there, unchanged.
LEMMA RowsStay ==
  ASSUME TypeOK, Grows
  PROVE  /\ approvals' \in Seq(Row)
         /\ DOMAIN approvals \subseteq DOMAIN approvals'
         /\ \A i \in DOMAIN approvals : approvals'[i] = approvals[i]
<1>1. CASE approvals' = approvals
  BY <1>1 DEF TypeOK, Row
<1>2. CASE \E row \in Row : approvals' = Append(approvals, row)
  BY <1>2, InsertRow
<1>3. QED
  BY <1>1, <1>2 DEF Grows

\* The head and the tail of a queue that is not empty.
LEMMA TakeHead ==
  ASSUME NEW S, NEW q \in Seq(S), q # <<>>
  PROVE  /\ Tail(q) \in Seq(S)
         /\ Head(q) \in S
         /\ 1 \in DOMAIN q /\ Head(q) = q[1]
         /\ \A i \in DOMAIN Tail(q) : i + 1 \in DOMAIN q /\ Tail(q)[i] = q[i + 1]
<1>1. Len(q) \in Nat \ {0} /\ DOMAIN q = 1..Len(q)
  OBVIOUS
<1>2. Len(Tail(q)) = Len(q) - 1 /\ DOMAIN Tail(q) = 1..(Len(q) - 1)
  BY <1>1
<1>3. QED
  BY <1>1, <1>2

\* Turns and reviews in progress are about jobs and gates.
LEMMA InProgress ==
  ASSUME TypeOK
  PROVE  /\ turn.at \in {"idle", "agent", "logCompleted", "logError"}
         /\ turn.number \in Nat
         /\ turn.at # "idle" => turn.job \in Jobs
         /\ \A r \in Reviewers :
              \/ review[r] = NoReview
              \/ review[r] \in [at : {"insert", "submit"}, gate : Gates,
                                decision : Decisions, row : Nat]
BY DEF TypeOK

LEMMA InitBase == Init => Base
<1> SUFFICES ASSUME Init PROVE Base
  OBVIOUS
<1>1. approvals \in Seq([gate : Gates, status : {"pending"} \cup Decisions, readAt : Nat])
  BY DEF Init
<1>2. queue \in Seq(Jobs)
  BY DEF Init
<1>3. TypeOK
  BY <1>1, <1>2 DEF Init, TypeOK, NoJob
<1>4. Recorded
  BY DEF Init, Recorded, NoReview
<1>5. QED
  BY <1>3, <1>4 DEF Base

------------------------------------------------------------------------------
(* One lemma per action of the turn.                                       *)

\* A job taken in by the backend.
LEMMA TakenType ==
  ASSUME TypeOK, NEW job \in Jobs, Taken(job)
  PROVE  queue' \in Seq(Jobs) /\ seen' \subseteq Gates \cup Sessions
BY DEF TypeOK, Taken, Jobs

LEMMA DelegateType ==
  ASSUME TypeOK, NEW s \in Sessions, Delegate(s)
  PROVE  TypeOK'
<1> DEFINE job == [id |-> s, session |-> s, told |-> "none"]
<1>1. job \in Jobs
  BY DEF Jobs
<1>2. queue' \in Seq(Jobs) /\ seen' \subseteq Gates \cup Sessions
  BY <1>1, TakenType DEF Delegate
<1>3. QED
  BY <1>2 DEF TypeOK, Delegate, tables

LEMMA TakeType ==
  ASSUME TypeOK, Take
  PROVE  TypeOK'
<1>1. queue' \in Seq(Jobs) /\ Head(queue) \in Jobs
  BY TakeHead DEF Take, TypeOK
<1>2. /\ turn' \in [at : {"idle", "agent", "logCompleted", "logError"},
                    number : Nat, job : Jobs \cup {NoJob}, retried : BOOLEAN,
                    human : BOOLEAN]
      /\ turn'.job \in Jobs
  BY <1>1, InProgress DEF Take
<1>3. hitl' \in [Sessions -> {"absent", "no", "yes"}]
  BY DEF Take, TypeOK
<1>4. QED
  BY <1>1, <1>2, <1>3 DEF Take, TypeOK, tables

LEMMA TurnEndsType ==
  ASSUME TypeOK, AgentRaises \/ AgentReturns
  PROVE  TypeOK'
<1> DEFINE T == [at : {"idle", "agent", "logCompleted", "logError"},
                 number : Nat, job : Jobs \cup {NoJob}, retried : BOOLEAN,
                 human : BOOLEAN]
<1>1. turn \in T /\ turn.job \in Jobs
  BY DEF TypeOK, AgentRaises, AgentReturns
<1>2. CASE AgentRaises
  <2>1. turn' \in T /\ turn'.job = turn.job
    BY <1>1, <1>2 DEF AgentRaises
  <2>2. QED
    BY <1>1, <1>2, <2>1 DEF AgentRaises, TypeOK, tables
<1>3. CASE AgentReturns
  <2>1. turn' = [turn EXCEPT !.at = "logCompleted", !.human = hitl[turn.job.session] = "yes"]
    BY <1>3 DEF AgentReturns
  <2>2. turn' \in T /\ turn'.job = turn.job
    <3> DEFINE b == hitl[turn.job.session] = "yes"
    <3>1. b \in BOOLEAN
      OBVIOUS
    <3>2. turn' = [turn EXCEPT !.at = "logCompleted", !.human = b]
      BY <2>1
    <3> HIDE DEF b
    <3>3. QED
      BY <1>1, <3>1, <3>2
  <2>3. hitl' \in [Sessions -> {"absent", "no", "yes"}]
    BY <1>3 DEF AgentReturns, TypeOK
  <2>4. QED
    BY <1>1, <1>3, <2>2, <2>3 DEF AgentReturns, TypeOK, tables
<1>4. QED
  BY <1>2, <1>3

\* The finally clause.
LEMMA TurnOverType ==
  ASSUME TypeOK, TurnOver
  PROVE  /\ turn' \in [at : {"idle", "agent", "logCompleted", "logError"},
                       number : Nat, job : Jobs \cup {NoJob}, retried : BOOLEAN,
                       human : BOOLEAN]
         /\ turn'.at = "idle"
         /\ turn'.job = NoJob
         /\ turn'.number = turn.number
         /\ hitl' \in [Sessions -> {"absent", "no", "yes"}]
BY DEF TypeOK, TurnOver

LEMMA LoggedType ==
  ASSUME TypeOK,
         NEW row \in [turn : Nat, status : {"completed", "error"}, human : BOOLEAN],
         Logged(row)
  PROVE  /\ log' \subseteq [turn : Nat, status : {"completed", "error"}, human : BOOLEAN]
         /\ faults' \in Nat
BY DEF TypeOK, Logged, Fault

LEMMA LogType ==
  ASSUME TypeOK, LogCompleted \/ LogError \/ TurnCancelled
  PROVE  TypeOK'
<1>1. turn.number \in Nat /\ turn.human \in BOOLEAN
  BY DEF TypeOK
<1>2. CASE LogCompleted
  <2>1. TurnRow("completed", turn.human)
          \in [turn : Nat, status : {"completed", "error"}, human : BOOLEAN]
    BY <1>1 DEF TurnRow
  <2>2. log' \subseteq [turn : Nat, status : {"completed", "error"}, human : BOOLEAN]
        /\ faults' \in Nat
    BY <1>2, <2>1, LoggedType DEF LogCompleted
  <2>3. QED
    BY <1>2, <2>2, TurnOverType DEF LogCompleted, TypeOK
<1>3. CASE LogError
  <2>1. TurnRow("error", FALSE)
          \in [turn : Nat, status : {"completed", "error"}, human : BOOLEAN]
    BY <1>1 DEF TurnRow
  <2>2. log' \subseteq [turn : Nat, status : {"completed", "error"}, human : BOOLEAN]
        /\ faults' \in Nat
    BY <1>3, <2>1, LoggedType DEF LogError
  <2>3. QED
    BY <1>3, <2>2, TurnOverType DEF LogError, TypeOK
<1>4. CASE TurnCancelled
  <2>1. tool' \in [Callers -> Gates \cup {None}]
    BY <1>4 DEF TurnCancelled, TypeOK
  <2>2. QED
    BY <1>4, <2>1, TurnOverType DEF TurnCancelled, TypeOK, Fault, tables
<1>5. QED
  BY <1>2, <1>3, <1>4

------------------------------------------------------------------------------
(* Gates and reviews.                                                      *)

LEMMA DispatchType ==
  ASSUME TypeOK, NEW k \in Callers, NEW g \in Gates, DispatchFlags(k, g)
  PROVE  TypeOK'
<1>1. tool' \in [Callers -> Gates \cup {None}]
  BY DEF DispatchFlags, RequestApproval, TypeOK
<1>2. hitl' \in [Sessions -> {"absent", "no", "yes"}]
  BY DEF DispatchFlags, RequestApproval, TypeOK
<1>3. dispatched' \subseteq Nat
  BY InProgress DEF DispatchFlags, RequestApproval, TypeOK
<1>4. QED
  BY <1>1, <1>2, <1>3 DEF DispatchFlags, RequestApproval, TypeOK, tables

LEMMA PendingIsRow ==
  ASSUME NEW g \in Gates
  PROVE  PendingRow(g) \in Row
BY DEF PendingRow, Row

LEMMA OpenType ==
  ASSUME TypeOK,
         \/ \E k \in Callers : CreateApproval(k)
         \/ \E g \in Gates : PostApproval(g)
  PROVE  TypeOK' /\ Grows
<1>1. ASSUME NEW k \in Callers, CreateApproval(k)
      PROVE  TypeOK' /\ Grows
  <2>1. tool[k] \in Gates
    BY <1>1 DEF CreateApproval, TypeOK
  <2>2. tool' \in [Callers -> Gates \cup {None}]
    BY <1>1 DEF CreateApproval, TypeOK
  <2>3. faults' \in Nat
    BY <1>1 DEF CreateApproval, TypeOK, Fault
  <2>4. Grows
    BY <1>1, <2>1, PendingIsRow DEF CreateApproval, Grows
  <2>5. approvals' \in Seq(Row) /\ DOMAIN approvals \subseteq DOMAIN approvals'
    BY <2>4, RowsStay
  <2>6. QED
    BY <1>1, <2>2, <2>3, <2>4, <2>5 DEF CreateApproval, TypeOK, Row
<1>2. ASSUME NEW g \in Gates, PostApproval(g)
      PROVE  TypeOK' /\ Grows
  <2>1. Grows
    BY <1>2, PendingIsRow DEF PostApproval, Grows
  <2>2. approvals' \in Seq(Row) /\ DOMAIN approvals \subseteq DOMAIN approvals'
    BY <2>1, RowsStay
  <2>3. QED
    BY <1>2, <2>1, <2>2 DEF PostApproval, TypeOK, Row
<1>3. QED
  BY <1>1, <1>2

\* What a PATCH handler changes of its own record.
Reviewing == [at : {"insert", "submit"}, gate : Gates, decision : Decisions, row : Nat]

LEMMA ReviewType ==
  ASSUME TypeOK, NEW r \in Reviewers, NEW w \in Reviewing \cup {NoReview},
         review' = [review EXCEPT ![r] = w]
  PROVE  /\ review' \in [Reviewers -> Reviewing \cup {NoReview}]
         /\ review'[r] = w
         /\ \A s \in Reviewers : s # r => review'[s] = review[s]
BY DEF TypeOK, Reviewing

LEMMA ReadType ==
  ASSUME TypeOK, NEW r \in Reviewers, NEW g \in Gates, NEW d \in Decisions,
         ReadLatest(r, g, d)
  PROVE  /\ TypeOK'
         /\ review'[r] = [at |-> "insert", gate |-> g, decision |-> d, row |-> Len(approvals)]
         /\ \A s \in Reviewers : s # r => review'[s] = review[s]
<1> DEFINE w == [at |-> "insert", gate |-> g, decision |-> d, row |-> Len(approvals)]
<1>1. w \in Reviewing
  BY DEF TypeOK, Reviewing
<1>2. review' = [review EXCEPT ![r] = w]
  BY DEF ReadLatest
<1>3. /\ review' \in [Reviewers -> Reviewing \cup {NoReview}]
      /\ review'[r] = w
      /\ \A s \in Reviewers : s # r => review'[s] = review[s]
  <2> HIDE DEF w
  <2>1. QED
    BY <1>1, <1>2, ReviewType
<1>4. QED
  BY <1>3 DEF ReadLatest, TypeOK, Reviewing, tables

LEMMA InsertType ==
  ASSUME TypeOK, NEW r \in Reviewers, InsertDecision(r)
  PROVE  /\ TypeOK'
         /\ DecisionRow(r) \in Row
         /\ approvals' = Append(approvals, DecisionRow(r))
         /\ review[r] \in Reviewing
         /\ \/ review'[r] = NoReview
            \/ review'[r] = [review[r] EXCEPT !.at = "submit", !.row = Len(approvals) + 1]
         /\ \A s \in Reviewers : s # r => review'[s] = review[s]
<1>1. review[r] \in Reviewing
  BY DEF InsertDecision, TypeOK, NoReview, Reviewing
<1>2. DecisionRow(r) \in Row
  BY <1>1 DEF DecisionRow, Row, Reviewing
<1>3. approvals' = Append(approvals, DecisionRow(r))
  BY DEF InsertDecision
<1>4. /\ approvals' \in Seq(Row)
      /\ DOMAIN approvals \subseteq DOMAIN approvals'
      /\ Len(approvals) \in Nat
  BY <1>2, <1>3, InsertRow
<1> DEFINE w == IF review[r].decision = "cancelled" THEN NoReview
                ELSE [review[r] EXCEPT !.at = "submit", !.row = Len(approvals) + 1]
<1>5. review' = [review EXCEPT ![r] = w]
  BY DEF InsertDecision
<1>6. w \in Reviewing \cup {NoReview}
  <2>1. ASSUME NEW n \in Nat
        PROVE  [review[r] EXCEPT !.at = "submit", !.row = n] \in Reviewing
    BY <1>1 DEF Reviewing
  <2>2. Len(approvals) + 1 \in Nat
    BY <1>4
  <2>3. QED
    BY <2>1, <2>2
<1>7. /\ review' \in [Reviewers -> Reviewing \cup {NoReview}]
      /\ review'[r] = w
      /\ \A s \in Reviewers : s # r => review'[s] = review[s]
  <2> HIDE DEF w
  <2>1. QED
    BY <1>5, <1>6, ReviewType
<1>8. TypeOK'
  BY <1>4, <1>7 DEF InsertDecision, TypeOK, Reviewing, Row
<1>9. QED
  BY <1>1, <1>2, <1>3, <1>7, <1>8

LEMMA ResumeIsJob ==
  ASSUME TypeOK, NEW r \in Reviewers, review[r].at = "submit"
  PROVE  /\ ResumeJob(r) \in Jobs
         /\ ResumeJob(r).id = review[r].gate
         /\ ResumeJob(r).told = review[r].decision
<1>1. review[r] \in Reviewing
  BY DEF TypeOK, NoReview, Reviewing
<1>2. Session[review[r].gate] \in Sessions
  BY <1>1, SessionOfGate DEF Reviewing
<1>3. QED
  BY <1>1, <1>2 DEF ResumeJob, Jobs, Reviewing

\* A handler that is through, whether it succeeded or not.
LEMMA LeaveType ==
  ASSUME Base, NEW r \in Reviewers, SubmitResume(r) \/ ReviewFails(r)
  PROVE  /\ TypeOK'
         /\ review'[r] = NoReview
         /\ \A s \in Reviewers : s # r => review'[s] = review[s]
<1>1. /\ review' \in [Reviewers -> Reviewing \cup {NoReview}]
      /\ review'[r] = NoReview
      /\ \A s \in Reviewers : s # r => review'[s] = review[s]
  BY ReviewType DEF Base, SubmitResume, ReviewFails
<1>2. CASE SubmitResume(r)
  <2>1. ResumeJob(r) \in Jobs
    BY <1>2, ResumeIsJob DEF SubmitResume, Base
  <2>2. queue' \in Seq(Jobs) /\ seen' \subseteq Gates \cup Sessions
    BY <1>2, <2>1, TakenType DEF SubmitResume, Duplicate, Base, TypeOK
  <2>3. reinjected' \subseteq DOMAIN approvals
    BY <1>2 DEF SubmitResume, Base, TypeOK, Recorded
  <2>4. QED
    BY <1>1, <1>2, <2>2, <2>3 DEF SubmitResume, Base, TypeOK, Reviewing, tables
<1>3. CASE ReviewFails(r)
  BY <1>1, <1>3 DEF ReviewFails, Base, TypeOK, Reviewing, Fault, tables
<1>4. QED
  BY <1>1, <1>2, <1>3

------------------------------------------------------------------------------
(* Base is inductive.  Most steps leave the reviews alone and the rows of   *)
(* the table in place.                                                      *)

LEMMA RecordedStays ==
  ASSUME Base, Grows, UNCHANGED review
  PROVE  Recorded'
BY RowsStay DEF Base, Recorded

LEMMA NextBase == Base /\ [Next]_vars => Base'
<1> SUFFICES ASSUME Base, [Next]_vars PROVE Base'
  OBVIOUS
<1>1. ASSUME NEW s \in Sessions, Delegate(s) PROVE Base'
  <2>1. Grows /\ UNCHANGED review
    BY <1>1 DEF Delegate, Grows, tables
  <2>2. QED
    BY <1>1, <2>1, DelegateType, RecordedStays DEF Base
<1>2. CASE Turn \/ TurnCancelled
  <2>1. Grows /\ UNCHANGED review
    BY <1>2 DEF Turn, TurnEnds, Take, AgentRaises, AgentReturns, LogCompleted, LogError,
                TurnCancelled, Grows, tables
  <2>2. TypeOK'
    BY <1>2, TakeType, TurnEndsType, LogType DEF Base, Turn, TurnEnds
  <2>3. QED
    BY <2>1, <2>2, RecordedStays DEF Base
<1>3. ASSUME NEW k \in Callers, NEW g \in Gates, DispatchFlags(k, g) PROVE Base'
  <2>1. Grows /\ UNCHANGED review
    BY <1>3 DEF DispatchFlags, RequestApproval, Grows, tables
  <2>2. QED
    BY <1>3, <2>1, DispatchType, RecordedStays DEF Base
<1>4. CASE \/ \E k \in Callers : CreateApproval(k)
           \/ \E g \in Gates : PostApproval(g)
  <2>1. UNCHANGED review
    BY <1>4 DEF CreateApproval, PostApproval
  <2>2. QED
    BY <1>4, <2>1, OpenType, RecordedStays DEF Base
<1>5. ASSUME NEW r \in Reviewers, NEW g \in Gates, NEW d \in Decisions, ReadLatest(r, g, d)
      PROVE  Base'
  <2>1. UNCHANGED approvals
    BY <1>5 DEF ReadLatest, tables
  <2>2. /\ TypeOK'
        /\ review'[r] = [at |-> "insert", gate |-> g, decision |-> d, row |-> Len(approvals)]
        /\ \A s \in Reviewers : s # r => review'[s] = review[s]
    BY <1>5, ReadType DEF Base
  <2>3. review'[r].at = "insert"
    BY <2>2
  <2>4. Recorded'
    BY <2>1, <2>2, <2>3 DEF Base, Recorded
  <2>5. QED
    BY <2>2, <2>4 DEF Base
<1>6. ASSUME NEW r \in Reviewers, InsertDecision(r) PROVE Base'
  <2> DEFINE n == Len(approvals) + 1
  <2>1. /\ TypeOK'
        /\ DecisionRow(r) \in Row
        /\ approvals' = Append(approvals, DecisionRow(r))
        /\ review[r] \in Reviewing
        /\ \/ review'[r] = NoReview
           \/ review'[r] = [review[r] EXCEPT !.at = "submit", !.row = n]
        /\ \A s \in Reviewers : s # r => review'[s] = review[s]
    BY <1>6, InsertType DEF Base
  <2>2. /\ n \in DOMAIN approvals'
        /\ approvals'[n] = DecisionRow(r)
        /\ DOMAIN approvals \subseteq DOMAIN approvals'
        /\ \A i \in DOMAIN approvals : approvals'[i] = approvals[i]
    <3>1. /\ Len(approvals) \in Nat
          /\ DOMAIN approvals = 1..Len(approvals)
          /\ DOMAIN approvals' = 1..(Len(approvals) + 1)
          /\ \A i \in DOMAIN approvals : approvals'[i] = approvals[i]
          /\ approvals'[Len(approvals) + 1] = DecisionRow(r)
      BY <2>1, InsertRow DEF Base
    <3>2. QED
      BY <3>1
  <2>3. ASSUME NEW s \in Reviewers, review'[s].at = "submit"
        PROVE  /\ review'[s].row \in DOMAIN approvals'
               /\ approvals'[review'[s].row].gate = review'[s].gate
               /\ approvals'[review'[s].row].status = review'[s].decision
    <3> HIDE DEF n
    <3>1. CASE s = r
      <4>1. review'[r] = [review[r] EXCEPT !.at = "submit", !.row = n]
        BY <2>1, <2>3, <3>1 DEF NoReview
      <4>2. /\ review'[r].row = n
            /\ review'[r].gate = review[r].gate
            /\ review'[r].decision = review[r].decision
        BY <2>1, <4>1 DEF Reviewing
      <4>3. QED
        BY <2>2, <3>1, <4>2 DEF DecisionRow
    <3>2. CASE s # r
      <4>1. review'[s] = review[s]
        BY <2>1, <3>2
      <4>2. /\ review[s].row \in DOMAIN approvals
            /\ approvals[review[s].row].gate = review[s].gate
            /\ approvals[review[s].row].status = review[s].decision
        BY <2>3, <4>1 DEF Base, Recorded
      <4>3. QED
        BY <2>2, <4>1, <4>2
    <3>3. QED
      BY <3>1, <3>2
  <2>4. QED
    BY <2>1, <2>3 DEF Base, Recorded
<1>7. ASSUME NEW r \in Reviewers, SubmitResume(r) \/ ReviewFails(r) PROVE Base'
  <2>1. UNCHANGED approvals
    BY <1>7 DEF SubmitResume, ReviewFails, tables
  <2>2. Recorded'
    BY <1>7, <2>1, LeaveType DEF Base, Recorded, NoReview
  <2>3. QED
    BY <1>7, <2>2, LeaveType DEF Base
<1>8. CASE UNCHANGED vars
  BY <1>8 DEF Base, TypeOK, Recorded, vars, tables
<1>9. QED
  BY <1>1, <1>2, <1>3, <1>4, <1>5, <1>6, <1>7, <1>8 DEF Next, Review

\* Base holds in every reachable state.
THEOREM BaseInvariance == Spec => []Base
<1>1. QED
  BY InitBase, NextBase, PTL DEF Spec

\* Every variable has its type.
THEOREM TypeCorrect == Spec => []TypeOK
<1>1. Base => TypeOK
  BY DEF Base
<1>2. QED
  BY <1>1, BaseInvariance, PTL

------------------------------------------------------------------------------
(* What the agent is told.                                                 *)

ToldInv == Base /\ ToldIsOnRecord

\* OnRecord for a given table.
In(job, table) ==
  job.id \in Gates =>
    \E i \in DOMAIN table : table[i].gate = job.id /\ table[i].status = job.told

LEMMA ToldExpanded ==
  /\ ToldIsOnRecord <=> /\ \A i \in DOMAIN queue : In(queue[i], approvals)
                        /\ turn.at # "idle" => In(turn.job, approvals)
  /\ ToldIsOnRecord' <=> /\ \A i \in DOMAIN queue' : In(queue'[i], approvals')
                         /\ turn'.at # "idle" => In(turn'.job, approvals')
BY DEF ToldIsOnRecord, OnRecord, RowsOf, In

\* A decision on the record stays on it.
LEMMA RecordStays ==
  ASSUME TypeOK, Grows, NEW job, In(job, approvals)
  PROVE  In(job, approvals')
BY RowsStay DEF In

LEMMA InitTold == Init => ToldInv
<1>1. Init => ToldIsOnRecord
  BY DEF Init, ToldIsOnRecord
<1>2. QED
  BY <1>1, InitBase DEF ToldInv

\* Every step of the system inserts at most one row.
LEMMA NextGrows ==
  ASSUME Base, [Next]_vars
  PROVE  Grows
<1>1. ASSUME NEW s \in Sessions, Delegate(s) PROVE Grows
  BY <1>1 DEF Delegate, Grows, tables
<1>2. CASE Turn \/ TurnCancelled
  BY <1>2 DEF Turn, TurnEnds, Take, AgentRaises, AgentReturns, LogCompleted, LogError,
              TurnCancelled, Grows, tables
<1>3. ASSUME NEW k \in Callers, NEW g \in Gates, DispatchFlags(k, g) PROVE Grows
  BY <1>3 DEF DispatchFlags, RequestApproval, Grows, tables
<1>4. CASE \/ \E k \in Callers : CreateApproval(k)
           \/ \E g \in Gates : PostApproval(g)
  BY <1>4, OpenType DEF Base
<1>5. ASSUME NEW r \in Reviewers, NEW g \in Gates, NEW d \in Decisions, ReadLatest(r, g, d)
      PROVE  Grows
  BY <1>5 DEF ReadLatest, Grows, tables
<1>6. ASSUME NEW r \in Reviewers, InsertDecision(r) PROVE Grows
  BY <1>6, InsertType DEF Base, Grows
<1>7. ASSUME NEW r \in Reviewers, SubmitResume(r) \/ ReviewFails(r) PROVE Grows
  BY <1>7 DEF SubmitResume, ReviewFails, Grows, tables
<1>8. CASE UNCHANGED vars
  BY <1>8 DEF Grows, vars, tables
<1>9. QED
  BY <1>1, <1>2, <1>3, <1>4, <1>5, <1>6, <1>7, <1>8 DEF Next, Review

\* A queue that got a job whose decision is on the record.
LEMMA TakenTold ==
  ASSUME TypeOK, Grows, NEW job \in Jobs, Taken(job), In(job, approvals),
         \A i \in DOMAIN queue : In(queue[i], approvals)
  PROVE  \A i \in DOMAIN queue' : In(queue'[i], approvals')
<1>1. queue \in Seq(Jobs) /\ queue' = Append(queue, job)
  BY DEF TypeOK, Taken
<1>2. /\ DOMAIN queue' = 1..(Len(queue) + 1)
      /\ DOMAIN queue = 1..Len(queue)
      /\ Len(queue) \in Nat
      /\ \A i \in DOMAIN queue : queue'[i] = queue[i]
      /\ queue'[Len(queue) + 1] = job
  BY <1>1
<1>3. ASSUME NEW i \in DOMAIN queue' PROVE In(queue'[i], approvals')
  <2>1. i \in DOMAIN queue \/ i = Len(queue) + 1
    BY <1>2
  <2>2. In(queue'[i], approvals)
    BY <1>2, <2>1
  <2>3. QED
    BY <2>2, RecordStays
<1>4. QED
  BY <1>3

LEMMA NextTold == ToldInv /\ [Next]_vars => ToldInv'
<1> SUFFICES ASSUME ToldInv, [Next]_vars PROVE ToldInv'
  OBVIOUS
<1> DEFINE QueueTold == \A i \in DOMAIN queue' : In(queue'[i], approvals')
           TurnTold == turn'.at # "idle" => In(turn'.job, approvals')
<1>1. Base' /\ Grows /\ TypeOK
  BY NextBase, NextGrows DEF ToldInv, Base
<1>2. /\ \A i \in DOMAIN queue : In(queue[i], approvals)
      /\ turn.at # "idle" => In(turn.job, approvals)
  BY ToldExpanded DEF ToldInv
<1>3. UNCHANGED queue => QueueTold
  <2>1. ASSUME UNCHANGED queue, NEW i \in DOMAIN queue' PROVE In(queue'[i], approvals')
    <3>1. In(queue[i], approvals) /\ queue'[i] = queue[i]
      BY <1>2, <2>1
    <3>2. In(queue[i], approvals')
      BY <1>1, <3>1, RecordStays
    <3>3. QED
      BY <3>1, <3>2
  <2>2. QED
    BY <2>1
<1>4. (turn'.at # "idle" => turn.at # "idle" /\ turn'.job = turn.job) => TurnTold
  <2>1. turn.at # "idle" => In(turn.job, approvals')
    BY <1>1, <1>2, RecordStays
  <2>2. QED
    BY <2>1
<1> SUFFICES QueueTold /\ TurnTold
  BY <1>1, ToldExpanded DEF ToldInv
<1> HIDE DEF QueueTold, TurnTold
<1>5. ASSUME NEW s \in Sessions, Delegate(s) PROVE QueueTold /\ TurnTold
  <2> DEFINE job == [id |-> s, session |-> s, told |-> "none"]
  <2>1. job \in Jobs /\ Taken(job) /\ In(job, approvals)
    BY <1>5, NamesApart DEF Delegate, Jobs, In
  <2>2. QueueTold
    <3> HIDE DEF job
    <3>1. QED
      BY <1>1, <1>2, <2>1, TakenTold DEF QueueTold
  <2>3. QED
    BY <1>4, <1>5, <2>2 DEF Delegate
<1>6. CASE Take
  <2>1. /\ 1 \in DOMAIN queue /\ Head(queue) = queue[1]
        /\ \A i \in DOMAIN Tail(queue) :
             i + 1 \in DOMAIN queue /\ Tail(queue)[i] = queue[i + 1]
    BY <1>1, <1>6, TakeHead DEF Take, TypeOK
  <2>2. /\ In(Head(queue), approvals)
        /\ \A i \in DOMAIN Tail(queue) : In(Tail(queue)[i], approvals)
    BY <1>2, <2>1
  <2>3. /\ In(Head(queue), approvals')
        /\ \A i \in DOMAIN Tail(queue) : In(Tail(queue)[i], approvals')
    BY <1>1, <2>2, RecordStays
  <2>4. turn'.job = Head(queue) /\ queue' = Tail(queue)
    BY <1>6 DEF Take
  <2>5. QED
    BY <2>3, <2>4 DEF QueueTold, TurnTold
<1>7. CASE TurnEnds \/ LogCompleted \/ LogError \/ TurnCancelled
  <2>1. UNCHANGED queue
    BY <1>7 DEF TurnEnds, AgentRaises, AgentReturns, LogCompleted, LogError, TurnCancelled
  <2>2. turn'.at # "idle" => turn.at # "idle" /\ turn'.job = turn.job
    BY <1>1, <1>7 DEF TypeOK, TurnEnds, AgentRaises, AgentReturns, LogCompleted, LogError,
                      TurnCancelled, TurnOver
  <2>3. QED
    BY <1>3, <1>4, <2>1, <2>2
<1>8. ASSUME \/ \E k \in Callers : CreateApproval(k) \/ \E g \in Gates : DispatchFlags(k, g)
             \/ \E g \in Gates : PostApproval(g)
             \/ \E r \in Reviewers :
                  \/ \E g \in Gates, d \in Decisions : ReadLatest(r, g, d)
                  \/ InsertDecision(r)
                  \/ ReviewFails(r)
             \/ UNCHANGED vars
      PROVE  QueueTold /\ TurnTold
  <2>1. UNCHANGED <<queue, turn>>
    BY <1>8 DEF CreateApproval, DispatchFlags, RequestApproval, PostApproval, ReadLatest,
                InsertDecision, ReviewFails, vars
  <2>2. QED
    BY <1>3, <1>4, <2>1
<1>9. ASSUME NEW r \in Reviewers, SubmitResume(r) PROVE QueueTold /\ TurnTold
  <2>1. ResumeJob(r) \in Jobs /\ In(ResumeJob(r), approvals)
    BY <1>1, <1>9, ResumeIsJob DEF SubmitResume, ToldInv, Base, Recorded, In
  <2>2. ASSUME Taken(ResumeJob(r)) PROVE QueueTold
    BY <1>1, <1>2, <2>1, <2>2, TakenTold DEF QueueTold
  <2>3. ASSUME Duplicate(ResumeJob(r)) PROVE QueueTold
    BY <1>3, <2>3 DEF Duplicate
  <2>4. QED
    BY <1>4, <1>9, <2>2, <2>3 DEF SubmitResume
<1>10. QED
  BY <1>5, <1>6, <1>7, <1>8, <1>9 DEF Next, Turn, Review

\* What a resume job tells the agent is a decision on the record of its gate,
\* for any number of gates, sessions and reviewers.
THEOREM ToldIsTrue == Spec => []ToldIsOnRecord
<1>1. ToldInv => ToldIsOnRecord
  BY DEF ToldInv
<1>2. QED
  BY <1>1, InitTold, NextTold, PTL DEF Spec

------------------------------------------------------------------------------
(* The log: a turn that dispatched is flagged until its row is written.    *)

\* Turns are numbered in the order they run: a dispatch belongs to the turn that
\* runs or to one before it, a row to one that is over.
Numbered ==
  /\ \A n \in dispatched : n <= turn.number
  /\ \A row \in log : /\ row.turn <= turn.number
                      /\ turn.at # "idle" => row.turn < turn.number

\* The flag of the session, then the turn itself, remember the dispatch.
Flagged ==
  turn.number \in dispatched =>
    /\ turn.at = "agent" => hitl[turn.job.session] = "yes"
    /\ turn.at = "logCompleted" => turn.human

FlagInv == Base /\ Numbered /\ Flagged /\ DispatchIsFlagged

LEMMA InitFlag == Init => FlagInv
<1>1. Init => Numbered /\ Flagged /\ DispatchIsFlagged
  BY DEF Init, Numbered, Flagged, DispatchIsFlagged, CompletedRow
<1>2. QED
  BY <1>1, InitBase DEF FlagInv

LEMMA NextFlag == FlagInv /\ [Next]_vars => FlagInv'
<1> SUFFICES ASSUME FlagInv, [Next]_vars PROVE FlagInv'
  OBVIOUS
<1>1. Base' /\ TypeOK /\ turn.number \in Nat
  BY NextBase DEF FlagInv, Base, TypeOK
<1> SUFFICES Numbered' /\ Flagged' /\ DispatchIsFlagged'
  BY <1>1 DEF FlagInv
<1> USE DEF FlagInv, Numbered, Flagged, DispatchIsFlagged, CompletedRow
<1>2. CASE UNCHANGED <<log, hitl, turn, dispatched>>
  BY <1>2
<1>3. CASE Take
  <2>1. /\ turn'.number = turn.number + 1 /\ turn'.at = "agent"
        /\ log' = log /\ dispatched' = dispatched
    BY <1>3 DEF Take, tables
  <2>2. turn'.number \notin dispatched'
    BY <1>1, <2>1 DEF TypeOK
  <2>3. \A n \in dispatched' : n <= turn'.number
    BY <1>1, <2>1 DEF TypeOK
  <2>4. \A row \in log' : row.turn <= turn'.number /\ row.turn < turn'.number
    BY <1>1, <2>1 DEF TypeOK
  <2>5. QED
    BY <2>1, <2>2, <2>3, <2>4
<1>4. CASE AgentRaises
  <2>1. /\ turn'.number = turn.number /\ turn'.job = turn.job
        /\ turn.at = "agent" /\ turn'.at \in {"agent", "logError"}
        /\ log' = log /\ dispatched' = dispatched /\ hitl' = hitl
    BY <1>1, <1>4 DEF AgentRaises, tables, TypeOK
  <2>2. QED
    BY <2>1
<1>5. CASE AgentReturns
  <2>1. /\ turn'.number = turn.number
        /\ turn.at = "agent" /\ turn'.at = "logCompleted"
        /\ turn'.human = (hitl[turn.job.session] = "yes")
        /\ log' = log /\ dispatched' = dispatched
    BY <1>1, <1>5 DEF AgentReturns, tables, TypeOK
  <2>2. QED
    BY <2>1
<1>6. CASE LogCompleted
  <2>1. /\ turn'.number = turn.number /\ turn'.at = "idle" /\ dispatched' = dispatched
        /\ turn.at = "logCompleted"
        /\ log' \subseteq log \cup {TurnRow("completed", turn.human)}
    BY <1>1, <1>6, TurnOverType DEF LogCompleted, Logged
  <2>2. TurnRow("completed", turn.human).turn = turn.number
    BY DEF TurnRow
  <2>3. ASSUME NEW n \in dispatched', CompletedRow(n, FALSE)' PROVE FALSE
    <3>1. [turn |-> n, status |-> "completed", human |-> FALSE]
            = [turn |-> turn.number, status |-> "completed", human |-> turn.human]
      BY <2>1, <2>3 DEF TurnRow
    <3>2. n = turn.number /\ turn.human = FALSE
      BY <3>1
    <3>3. QED
      BY <2>1, <3>2
  <2>4. QED
    BY <2>1, <2>2, <2>3, <1>1
<1>7. CASE LogError
  <2>1. /\ turn'.number = turn.number /\ turn'.at = "idle" /\ dispatched' = dispatched
        /\ log' \subseteq log \cup {TurnRow("error", FALSE)}
    BY <1>1, <1>7, TurnOverType DEF LogError, Logged
  <2>2. /\ TurnRow("error", FALSE).turn = turn.number
        /\ TurnRow("error", FALSE).status = "error"
    BY DEF TurnRow
  <2>3. Numbered' /\ Flagged'
    <3>1. ASSUME NEW row \in log' PROVE row.turn <= turn.number
      <4>1. CASE row \in log
        BY <4>1
      <4>2. CASE row = TurnRow("error", FALSE)
        <5>1. row.turn = turn.number
          BY <4>2 DEF TurnRow
        <5>2. QED
          BY <1>1, <5>1
      <4>3. QED
        BY <2>1, <4>1, <4>2
    <3>2. turn'.at # "idle" => FALSE
      BY <2>1
    <3>3. QED
      BY <2>1, <3>1, <3>2
  <2>4. ASSUME NEW n \in dispatched', CompletedRow(n, FALSE)' PROVE FALSE
    <3> DEFINE row == [turn |-> n, status |-> "completed", human |-> FALSE]
    <3>1. row \notin log
      BY <2>1, <2>4
    <3>2. row = TurnRow("error", FALSE)
      BY <2>1, <2>4, <3>1
    <3>3. row.status = "completed"
      OBVIOUS
    <3>4. QED
      BY <2>2, <3>2, <3>3
  <2>5. QED
    BY <2>3, <2>4
<1>8. CASE TurnCancelled
  <2>1. /\ turn'.number = turn.number /\ turn'.at = "idle" /\ dispatched' = dispatched
        /\ log' = log
    BY <1>1, <1>8, TurnOverType DEF TurnCancelled, tables
  <2>2. QED
    BY <2>1
<1>9. ASSUME NEW k \in Callers, NEW g \in Gates, DispatchFlags(k, g)
      PROVE  Numbered' /\ Flagged' /\ DispatchIsFlagged'
  <2>1. /\ log' = log /\ turn' = turn
        /\ hitl' = [hitl EXCEPT ![Session[g]] = "yes"]
    BY <1>9 DEF DispatchFlags, RequestApproval, tables
  <2>2. hitl \in [Sessions -> {"absent", "no", "yes"}]
    BY <1>1 DEF TypeOK
  <2>3. CASE k = Inbound
    <3>1. /\ turn.at = "agent" /\ turn.job.session = Session[g]
          /\ dispatched' = dispatched \cup {turn.number}
      BY <1>9, <2>3 DEF DispatchFlags, RequestApproval
    <3>2. hitl'[turn'.job.session] = "yes"
      BY <2>1, <2>2, <3>1, SessionOfGate
    <3>3. Numbered' /\ Flagged'
      BY <1>1, <2>1, <3>1, <3>2
    <3>4. ~CompletedRow(turn.number, FALSE)
      <4>1. turn.number < turn.number => FALSE
        BY <1>1
      <4>2. QED
        BY <3>1, <4>1
    <3>5. QED
      BY <2>1, <3>1, <3>3, <3>4
  <2>4. CASE k # Inbound
    <3>1. dispatched' = dispatched
      BY <1>9, <2>4 DEF DispatchFlags, RequestApproval
    <3>2. turn.number \in dispatched /\ turn.at = "agent" => hitl'[turn'.job.session] = "yes"
      BY <2>1, <2>2
    <3>3. QED
      BY <2>1, <3>1, <3>2
  <2>5. QED
    BY <2>3, <2>4
<1>10. ASSUME \/ \E t \in Sessions : Delegate(t)
              \/ \E k \in Callers : CreateApproval(k)
              \/ \E g \in Gates : PostApproval(g)
              \/ \E r \in Reviewers :
                   \/ \E g \in Gates, d \in Decisions : ReadLatest(r, g, d)
                   \/ Review(r)
                   \/ ReviewFails(r)
              \/ UNCHANGED vars
       PROVE  Numbered' /\ Flagged' /\ DispatchIsFlagged'
  <2>1. UNCHANGED <<log, hitl, turn, dispatched>>
    BY <1>10 DEF Delegate, CreateApproval, PostApproval, ReadLatest, Review, InsertDecision,
                 SubmitResume, ReviewFails, vars, tables
  <2>2. QED
    BY <1>2, <2>1
<1>11. QED
  BY <1>3, <1>4, <1>5, <1>6, <1>7, <1>8, <1>9, <1>10 DEF Next, Turn, TurnEnds

\* A turn in which the agent dispatched to a human is never logged as a genuine
\* completion, whatever is retried, cancelled or lost and whichever other turns
\* of the session run.
THEOREM WaitingIsFlagged == Spec => []DispatchIsFlagged
<1>1. FlagInv => DispatchIsFlagged
  BY DEF FlagInv
<1>2. QED
  BY <1>1, InitFlag, NextFlag, PTL DEF Spec

------------------------------------------------------------------------------
(* Second decisions.                                                       *)

\* A handler that is to insert its decision has read the table up to its row,
\* and the latest row of its gate there is pending.
ReadPending(w, table) ==
  w.at = "insert" =>
    /\ w.row <= Len(table)
    /\ \E p \in 1..w.row :
         /\ table[p].gate = w.gate
         /\ table[p].status = "pending"
         /\ \A q \in 1..w.row : table[q].gate = w.gate => q <= p

\* SecondDecisionRaced for one pair of rows of a table.
Raced(i, j, table) ==
  (/\ i < j
   /\ table[i].gate = table[j].gate
   /\ table[i].status # "pending"
   /\ table[j].status # "pending"
   /\ \A k \in i..j : table[k].gate = table[i].gate => table[k].status # "pending")
    => table[j].readAt < i

Reads == \A r \in Reviewers : ReadPending(review[r], approvals)

RaceInv == Base /\ Reads /\ SecondDecisionRaced

LEMMA RacedExpanded ==
  /\ SecondDecisionRaced <=> \A i, j \in DOMAIN approvals : Raced(i, j, approvals)
  /\ SecondDecisionRaced' <=> \A i, j \in DOMAIN approvals' : Raced(i, j, approvals')
  /\ Reads' <=> \A r \in Reviewers : ReadPending(review'[r], approvals')
BY DEF SecondDecisionRaced, Raced, Reads

LEMMA InitRace == Init => RaceInv
<1> SUFFICES ASSUME Init PROVE RaceInv
  OBVIOUS
<1>1. SecondDecisionRaced
  BY DEF Init, SecondDecisionRaced
<1>2. Reads
  BY DEF Init, Reads, ReadPending, NoReview
<1>3. QED
  BY <1>1, <1>2, InitBase DEF RaceInv

\* What a handler has read is not changed by rows that come later.
LEMMA ReadStays ==
  ASSUME TypeOK, Grows, NEW r \in Reviewers, ReadPending(review[r], approvals)
  PROVE  ReadPending(review[r], approvals')
<1> SUFFICES ASSUME review[r].at = "insert" PROVE ReadPending(review[r], approvals')
  BY DEF ReadPending
<1>1. review[r].row \in Nat
  BY DEF TypeOK, NoReview
<1>2. /\ approvals' \in Seq(Row)
      /\ DOMAIN approvals \subseteq DOMAIN approvals'
      /\ \A i \in DOMAIN approvals : approvals'[i] = approvals[i]
  BY RowsStay
<1>3. /\ Len(approvals) \in Nat /\ DOMAIN approvals = 1..Len(approvals)
      /\ Len(approvals') \in Nat /\ DOMAIN approvals' = 1..Len(approvals')
  BY <1>2 DEF TypeOK
<1>4. review[r].row <= Len(approvals)
  BY DEF ReadPending
<1>5. \A i \in 1..review[r].row : approvals'[i] = approvals[i]
  BY <1>1, <1>2, <1>3, <1>4
<1>6. Len(approvals) <= Len(approvals')
  <2>1. CASE Len(approvals) = 0
    BY <1>3, <2>1
  <2>2. CASE Len(approvals) # 0
    <3>1. Len(approvals) \in DOMAIN approvals'
      BY <1>2, <1>3, <2>2
    <3>2. QED
      BY <1>3, <3>1
  <2>3. QED
    BY <2>1, <2>2
<1>7. QED
  BY <1>1, <1>3, <1>4, <1>5, <1>6 DEF ReadPending

\* Inserting a pending row pairs it with nothing.
LEMMA PendingRaces ==
  ASSUME TypeOK, NEW g \in Gates, approvals' = Append(approvals, PendingRow(g)),
         \A i, j \in DOMAIN approvals : Raced(i, j, approvals)
  PROVE  \A i, j \in DOMAIN approvals' : Raced(i, j, approvals')
<1>1. /\ Len(approvals) \in Nat
      /\ DOMAIN approvals = 1..Len(approvals)
      /\ DOMAIN approvals' = 1..(Len(approvals) + 1)
      /\ \A i \in DOMAIN approvals : approvals'[i] = approvals[i]
      /\ approvals'[Len(approvals) + 1] = PendingRow(g)
  BY InsertRow, PendingIsRow
<1>2. ASSUME NEW i \in DOMAIN approvals', NEW j \in DOMAIN approvals' PROVE Raced(i, j, approvals')
  <2>1. CASE j = Len(approvals) + 1
    <3>1. approvals'[j].status = "pending"
      BY <1>1, <2>1 DEF PendingRow
    <3>2. QED
      BY <3>1 DEF Raced
  <2>2. CASE j # Len(approvals) + 1 /\ i < j
    <3>1. i \in DOMAIN approvals /\ j \in DOMAIN approvals
      BY <1>1, <2>2
    <3>2. \A k \in i..j : approvals'[k] = approvals[k]
      BY <1>1, <3>1
    <3>3. i \in i..j /\ j \in i..j
      BY <1>1, <2>2, <3>1
    <3>4. QED
      BY <3>1, <3>2, <3>3 DEF Raced
  <2>3. CASE ~(i < j)
    BY <2>3 DEF Raced
  <2>4. QED
    BY <2>1, <2>2, <2>3
<1>3. QED
  BY <1>2

\* Inserting a decision: a decision of the gate that is not separated from it by
\* a pending row came after the read, since the latest row read was pending.
LEMMA DecisionRaces ==
  ASSUME Base, NEW r \in Reviewers, InsertDecision(r), ReadPending(review[r], approvals),
         \A i, j \in DOMAIN approvals : Raced(i, j, approvals)
  PROVE  \A i, j \in DOMAIN approvals' : Raced(i, j, approvals')
<1> DEFINE n == Len(approvals) + 1
<1>1. /\ DecisionRow(r) \in Row
      /\ approvals' = Append(approvals, DecisionRow(r))
      /\ review[r] \in Reviewing
      /\ review[r].at = "insert"
  BY InsertType DEF Base, InsertDecision
<1>2. /\ Len(approvals) \in Nat
      /\ DOMAIN approvals = 1..Len(approvals)
      /\ DOMAIN approvals' = 1..n
      /\ \A i \in DOMAIN approvals : approvals'[i] = approvals[i]
      /\ approvals'[n] = DecisionRow(r)
  BY <1>1, InsertRow DEF Base
<1>3. PICK p \in 1..review[r].row :
        /\ approvals[p].gate = review[r].gate
        /\ approvals[p].status = "pending"
        /\ \A q \in 1..review[r].row : approvals[q].gate = review[r].gate => q <= p
  BY <1>1 DEF ReadPending
<1>4. review[r].row \in Nat /\ review[r].row <= Len(approvals)
  BY <1>1 DEF ReadPending, Reviewing
<1>5. /\ approvals'[n].gate = review[r].gate
      /\ approvals'[n].readAt = review[r].row
  BY <1>2 DEF DecisionRow
<1>6. ASSUME NEW i \in DOMAIN approvals', NEW j \in DOMAIN approvals' PROVE Raced(i, j, approvals')
  <2>1. CASE j # n /\ i < j
    <3>1. i \in DOMAIN approvals /\ j \in DOMAIN approvals
      BY <1>2, <2>1
    <3>2. \A k \in i..j : approvals'[k] = approvals[k]
      BY <1>2, <3>1
    <3>3. i \in i..j /\ j \in i..j
      BY <1>2, <2>1, <3>1
    <3>4. QED
      BY <3>1, <3>2, <3>3 DEF Raced
  <2>2. CASE ~(i < j)
    BY <2>2 DEF Raced
  <2>3. CASE j = n /\ i < j
    <3>1. SUFFICES ASSUME approvals'[i].gate = approvals'[j].gate,
                          approvals'[i].status # "pending",
                          \A k \in i..j : approvals'[k].gate = approvals'[i].gate
                                            => approvals'[k].status # "pending",
                          i <= review[r].row
                   PROVE  FALSE
      BY <1>2, <1>4, <1>5, <2>3 DEF Raced
    <3>2. i \in 1..review[r].row /\ approvals[i].gate = review[r].gate
      BY <1>2, <1>4, <1>5, <2>3, <3>1
    <3>3. i <= p
      BY <1>3, <3>2
    <3>4. p \in i..j /\ approvals'[p] = approvals[p]
      BY <1>2, <1>3, <1>4, <2>3, <3>3
    <3>5. QED
      BY <1>3, <1>5, <2>3, <3>1, <3>4
  <2>4. QED
    BY <2>1, <2>2, <2>3
<1>7. QED
  BY <1>6

LEMMA NextRace == RaceInv /\ [Next]_vars => RaceInv'
<1> SUFFICES ASSUME RaceInv, [Next]_vars PROVE RaceInv'
  OBVIOUS
<1> DEFINE Reads1 == \A r \in Reviewers : ReadPending(review'[r], approvals')
           Raced1 == \A i, j \in DOMAIN approvals' : Raced(i, j, approvals')
<1>1. Base' /\ Grows /\ TypeOK /\ Base
  BY NextBase, NextGrows DEF RaceInv, Base
<1> SUFFICES Reads1 /\ Raced1
  BY <1>1, RacedExpanded DEF RaceInv
<1>2. /\ \A r \in Reviewers : ReadPending(review[r], approvals')
      /\ \A i, j \in DOMAIN approvals : Raced(i, j, approvals)
  BY <1>1, ReadStays, RacedExpanded DEF RaceInv, Reads
<1>3. UNCHANGED review => Reads1
  BY <1>2
<1>4. UNCHANGED approvals => Raced1
  BY <1>2
<1>5. ASSUME NEW r \in Reviewers, ReadPending(review'[r], approvals'),
             \A s \in Reviewers : s # r => review'[s] = review[s]
      PROVE  Reads1
  BY <1>2, <1>5
<1> HIDE DEF Reads1, Raced1
<1>6. ASSUME \/ \E t \in Sessions : Delegate(t)
             \/ Turn \/ TurnCancelled
             \/ \E k \in Callers, g \in Gates : DispatchFlags(k, g)
             \/ UNCHANGED vars
      PROVE  Reads1 /\ Raced1
  <2>1. UNCHANGED <<approvals, review>>
    BY <1>6 DEF Delegate, Turn, TurnEnds, Take, AgentRaises, AgentReturns, LogCompleted,
                LogError, TurnCancelled, DispatchFlags, RequestApproval, vars, tables
  <2>2. QED
    BY <1>3, <1>4, <2>1
<1>7. ASSUME NEW k \in Callers, CreateApproval(k) PROVE Reads1 /\ Raced1
  <2>1. tool[k] \in Gates /\ UNCHANGED review
    BY <1>1, <1>7 DEF CreateApproval, TypeOK
  <2>2. ASSUME approvals' = Append(approvals, PendingRow(tool[k])) PROVE Raced1
    BY <1>1, <1>2, <2>1, <2>2, PendingRaces DEF Raced1
  <2>3. QED
    BY <1>3, <1>4, <1>7, <2>1, <2>2 DEF CreateApproval
<1>8. ASSUME NEW g \in Gates, PostApproval(g) PROVE Reads1 /\ Raced1
  <2>1. approvals' = Append(approvals, PendingRow(g)) /\ UNCHANGED review
    BY <1>8 DEF PostApproval
  <2>2. QED
    BY <1>1, <1>2, <1>3, <2>1, PendingRaces DEF Raced1
<1>9. ASSUME NEW r \in Reviewers, NEW g \in Gates, NEW d \in Decisions, ReadLatest(r, g, d)
      PROVE  Reads1 /\ Raced1
  <2>1. UNCHANGED approvals
    BY <1>9 DEF ReadLatest, tables
  <2>2. /\ review'[r] = [at |-> "insert", gate |-> g, decision |-> d, row |-> Len(approvals)]
        /\ \A s \in Reviewers : s # r => review'[s] = review[s]
    BY <1>1, <1>9, ReadType
  <2>3. PICK p \in RowsOf(g) : /\ approvals[p].status = "pending"
                               /\ \A q \in RowsOf(g) : q <= p
    BY <1>9 DEF ReadLatest, IsPending
  <2>4. Len(approvals) \in Nat /\ DOMAIN approvals = 1..Len(approvals)
    BY <1>1 DEF TypeOK
  <2>5. ReadPending(review'[r], approvals')
    BY <2>1, <2>2, <2>3, <2>4 DEF ReadPending, RowsOf
  <2>6. QED
    BY <1>4, <1>5, <2>1, <2>2, <2>5
<1>10. ASSUME NEW r \in Reviewers, InsertDecision(r) PROVE Reads1 /\ Raced1
  <2>1. Raced1
    BY <1>1, <1>2, <1>10, DecisionRaces DEF RaceInv, Reads, Raced1
  <2>2. /\ \/ review'[r] = NoReview
           \/ review'[r] = [review[r] EXCEPT !.at = "submit", !.row = Len(approvals) + 1]
        /\ review[r] \in Reviewing
        /\ \A s \in Reviewers : s # r => review'[s] = review[s]
    BY <1>1, <1>10, InsertType
  <2>3. review'[r].at # "insert"
    <3>1. ASSUME NEW n
          PROVE  [review[r] EXCEPT !.at = "submit", !.row = n].at = "submit"
      BY <2>2 DEF Reviewing
    <3>2. NoReview.at = "idle"
      BY DEF NoReview
    <3>3. review'[r].at \in {"submit", "idle"}
      BY <2>2, <3>1, <3>2
    <3>4. QED
      BY <3>3
  <2>4. QED
    BY <1>5, <2>1, <2>2, <2>3 DEF ReadPending
<1>11. ASSUME NEW r \in Reviewers, SubmitResume(r) \/ ReviewFails(r) PROVE Reads1 /\ Raced1
  <2>1. UNCHANGED approvals
    BY <1>11 DEF SubmitResume, ReviewFails, tables
  <2>2. review'[r].at # "insert" /\ \A s \in Reviewers : s # r => review'[s] = review[s]
    BY <1>1, <1>11, LeaveType DEF NoReview
  <2>3. QED
    BY <1>4, <1>5, <2>1, <2>2 DEF ReadPending
<1>12. QED
  BY <1>6, <1>7, <1>8, <1>9, <1>10, <1>11 DEF Next, Review

\* A second decision on a gate that was not opened again was made by a handler
\* that had read the table before the first decision was inserted.
THEOREM SecondDecisionsRace == Spec => []SecondDecisionRaced
<1>1. RaceInv => SecondDecisionRaced
  BY DEF RaceInv
<1>2. QED
  BY <1>1, InitRace, NextRace, PTL DEF Spec
==============================================================================
