--------------------------- MODULE PushNotifications ---------------------------
(***************************************************************************)
(* Fire-and-forget calls between agents: send_a2a_with_push gives the peer *)
(* a callback and a token, the peer posts the task to the callback as it   *)
(* proceeds, and the receiver checks the token and appends to an inbox.    *)
(* Tokens and inbox live in the process; the peer outlives it.             *)
(*                                                                         *)
(* An operator whose name ends in _Wrong is a faulty variant of the one    *)
(* after it; no specification uses it.                                     *)
(***************************************************************************)
EXTENDS Naturals, Sequences, ActivityLog

CONSTANTS
  Tasks,      \* calls, each with a token of its own, which names it
  MaxStates,  \* bound: what a peer posts for a task
  MaxLives    \* bound: lives of this process

ASSUME PushBoundsAreNat == MaxStates \in Nat /\ MaxLives \in Nat \ {0}

VARIABLES
  life,
  sending,    \* the tool's call: where it is and the life it is of
  logged,     \* the rows log_event wrote for the call
  requests,   \* calls on their way to the peer
  peer,       \* the next state the peer posts of a task: 0 before it has the call
  posted,     \* pushes on their way
  reading,    \* pushes whose token was accepted, before the body is read
  expected,   \* _expected_tokens
  inbox,      \* _inbox
  refused     \* history: the refused pushes, with the life that refused

pushVars == <<life, sending, logged, requests, peer, posted, reading, expected, inbox, refused>>

PushInit ==
  /\ life = 1
  /\ sending = [t \in Tasks |-> [at |-> "idle", life |-> 0]]
  /\ logged = [t \in Tasks |-> << >>]
  /\ requests = {}
  /\ peer = [t \in Tasks |-> 0]
  /\ posted = {}
  /\ reading = {}
  /\ expected = {}
  /\ inbox = [t \in Tasks |-> << >>]
  /\ refused = {}

Moves(t, step) == sending' = [sending EXCEPT ![t].at = step]
Logs(t, status) == \E r \in AfterLogging(logged[t], status) : logged' = [logged EXCEPT ![t] = r]

\* push_delegate_tool: a dispatching row, then the call.
Delegate(t) ==
  /\ sending[t].at = "idle"
  /\ sending' = [sending EXCEPT ![t] = [at |-> "resolving", life |-> life]]
  /\ Logs(t, "dispatching")
  /\ UNCHANGED <<life, requests, peer, posted, reading, expected, inbox, refused>>

\* The peer is resolved and its card advertises pushes: the token is registered,
\* and the request goes out.
SendCall(t) ==
  /\ sending[t].at = "resolving"
  /\ expected' = expected \cup {t}
  /\ requests' = requests \cup {t}
  /\ Moves(t, "sent")
  /\ UNCHANGED <<life, logged, peer, posted, reading, inbox, refused>>

\* "delegated" is no status of the log's, so that no row closes a call that went out.
Submitted(t) ==
  /\ sending[t].at = "sent"
  /\ peer[t] > 0
  /\ Moves(t, "over")
  /\ Logs(t, "delegated")
  /\ UNCHANGED <<life, requests, peer, posted, reading, expected, inbox, refused>>

\* No such peer, no pushes on its card, or no answer, though it may have the call.
SendFails(t) ==
  /\ sending[t].at \in {"resolving", "sent"}
  /\ Moves(t, "over")
  /\ Logs(t, "error")
  /\ UNCHANGED <<life, requests, peer, posted, reading, expected, inbox, refused>>

\* Cancelled: the row of the finally repeats the status it finds.
Cancelled(t) ==
  /\ sending[t].at \in {"resolving", "sent"}
  /\ Moves(t, "over")
  /\ Logs(t, "dispatching")
  /\ UNCHANGED <<life, requests, peer, posted, reading, expected, inbox, refused>>

\* The peer: it receives the call, then posts each state of the task once.
\* Requests and posts may arrive in any order, or never.
PeerReceives(t) ==
  /\ t \in requests
  /\ requests' = requests \ {t}
  /\ peer' = [peer EXCEPT ![t] = 1]
  /\ UNCHANGED <<life, sending, logged, posted, reading, expected, inbox, refused>>

PeerPosts(t) ==
  /\ peer[t] \in 1..MaxStates
  /\ posted' = posted \cup {[task |-> t, state |-> peer[t]]}
  /\ peer' = [peer EXCEPT ![t] = @ + 1]
  /\ UNCHANGED <<life, sending, logged, requests, reading, expected, inbox, refused>>

\* _token_required, by default: only while tokens are expected.
TokenRequired == expected # {}

Accepts(push) == ~TokenRequired \/ push.task \in expected

Receive_Wrong(push) ==   \* a token is good for one push
  /\ push \in posted
  /\ posted' = posted \ {push}
  /\ IF Accepts(push)
       THEN /\ reading' = reading \cup {push}
            /\ expected' = expected \ {push.task}
            /\ UNCHANGED refused
       ELSE refused' = refused \cup {[push |-> push, life |-> life]} /\ UNCHANGED <<reading, expected>>
  /\ UNCHANGED <<life, sending, logged, requests, peer, inbox>>

\* The receiver validates the token and awaits the body, or answers 401.
Receive(push) ==
  /\ push \in posted
  /\ posted' = posted \ {push}
  /\ IF Accepts(push)
       THEN reading' = reading \cup {push} /\ UNCHANGED refused
       ELSE refused' = refused \cup {[push |-> push, life |-> life]} /\ UNCHANGED reading
  /\ UNCHANGED <<life, sending, logged, requests, peer, expected, inbox>>

File(push) ==
  /\ push \in reading
  /\ reading' = reading \ {push}
  /\ inbox' = [inbox EXCEPT ![push.task] = Append(@, push.state)]
  /\ UNCHANGED <<life, sending, logged, requests, peer, posted, expected, refused>>

\* The body is no task.
Unreadable(push) ==
  /\ push \in reading
  /\ reading' = reading \ {push}
  /\ UNCHANGED <<life, sending, logged, requests, peer, posted, expected, inbox, refused>>

\* The process dies with its tokens, its inbox and its calls; the peer goes on.
Restart ==
  /\ life < MaxLives
  /\ life' = life + 1
  /\ expected' = {}
  /\ reading' = {}
  /\ inbox' = [t \in Tasks |-> << >>]
  /\ sending' = [t \in Tasks |->
       IF sending[t].at = "idle" THEN sending[t] ELSE [sending[t] EXCEPT !.at = "over"]]
  /\ UNCHANGED <<logged, requests, peer, posted, refused>>

PushNext ==
  \/ \E t \in Tasks :
       \/ Delegate(t) \/ SendCall(t) \/ Submitted(t) \/ SendFails(t) \/ Cancelled(t)
       \/ PeerReceives(t) \/ PeerPosts(t)
  \/ \E push \in posted : Receive(push)
  \/ \E push \in reading : File(push) \/ Unreadable(push)
  \/ Restart

PushSpec == PushInit /\ [][PushNext]_pushVars

------------------------------------------------------------------------------
Pushes == [task : Tasks, state : 1..MaxStates]

PushTypeOK ==
  /\ life \in 1..MaxLives
  /\ sending \in [Tasks -> [at : {"idle", "resolving", "sent", "over"}, life : 0..MaxLives]]
  /\ logged \in [Tasks -> Seq(Statuses)]
  /\ requests \subseteq Tasks
  /\ peer \in [Tasks -> 0..MaxStates + 1]
  /\ posted \subseteq Pushes /\ reading \subseteq Pushes
  /\ expected \subseteq Tasks
  /\ inbox \in [Tasks -> Seq(1..MaxStates)]
  /\ refused \subseteq [push : Pushes, life : 1..MaxLives]

\* Whatever the order of the peer's answer and its pushes, and however often it
\* pushes, this process never refuses a push of a call it sent itself.
PushIsAccepted ==
  \A r \in refused : sending[r.push.task].life # r.life
==============================================================================
