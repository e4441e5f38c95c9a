------------------------------- MODULE Heartbeat -------------------------------
(***************************************************************************)
(* An agent that keeps itself alive in the registry: at start it registers *)
(* and records a heartbeat, then a background task registers again after   *)
(* every interval of seven tenths of the time to live.  Registration and   *)
(* heartbeat write the same row of the table agents by two ways: the       *)
(* registry upserts what the agent is, the agent upserts when it was seen. *)
(*                                                                         *)
(* An operator whose name ends in _Wrong is a faulty variant of the one    *)
(* after it; no specification uses it.                                     *)
(***************************************************************************)
EXTENDS Integers

CONSTANTS
  TTL,      \* seconds a heartbeat keeps an agent alive
  Slowest,  \* longest that one registration, or one heartbeat, takes
  Absent,   \* no row, no heartbeat
  MaxSecond   \* bound

\* int(ttl * 0.7)
Interval == (TTL * 7) \div 10

Rows == [registered : BOOLEAN, beat : Int \cup {Absent}]

ASSUME BeatIsNat == TTL \in Nat /\ Slowest \in Nat /\ Interval \in Nat
ASSUME BeatMargin == Interval + 2 * Slowest < TTL
ASSUME AbsentIsNoTime == Absent \notin Int
ASSUME AbsentIsNoRow == Absent \notin Rows

VARIABLES
  seconds,
  schema,   \* does a row that a heartbeat inserts read back as an agent?
  listed,   \* the row: is it registered, and when was the last heartbeat
  agent,
  missed    \* history: in this life a registration or heartbeat failed, or the row was deleted

beatVars == <<seconds, schema, listed, agent, missed>>

Down == [at |-> "down"]
At(step, due) == [at |-> step, due |-> due]

BeatInit ==
  /\ seconds = 0
  /\ schema \in BOOLEAN
  /\ listed = Absent
  /\ agent = Down
  /\ missed = FALSE

\* A row inserted by a heartbeat has no registered_at unless the table gives it
\* one, and get() cannot build an agent of it: every registration then raises.
CanRegister == listed # Absent => listed.registered \/ schema

Registered ==
  [registered |-> TRUE, beat |-> IF listed = Absent THEN Absent ELSE listed.beat]

Seen_Wrong ==   \* ON CONFLICT DO NOTHING
  IF listed = Absent \/ listed.beat = Absent
    THEN [registered |-> listed # Absent /\ listed.registered, beat |-> seconds]
    ELSE listed

\* record_heartbeat: the upsert touches no column of the registry's own.
Seen == [registered |-> listed # Absent /\ listed.registered, beat |-> seconds]

\* The lifespan starts.
Boot ==
  /\ agent = Down
  /\ agent' = At("boot", seconds + Slowest)
  /\ missed' = FALSE
  /\ UNCHANGED <<seconds, schema, listed>>

\* Whatever came of the registration at start, a heartbeat follows.
BootRegistered ==
  /\ agent.at = "boot"
  /\ CanRegister
  /\ listed' = Registered
  /\ agent' = At("greet", seconds + Slowest)
  /\ UNCHANGED <<seconds, schema, missed>>

BootUnregistered ==
  /\ agent.at = "boot"
  /\ listed' \in {listed} \cup (IF CanRegister THEN {Registered} ELSE {})  \* the answer may be lost
  /\ agent' = At("greet", seconds + Slowest)
  /\ missed' = TRUE
  /\ UNCHANGED <<seconds, schema>>

\* The loop: sleep(interval), then register in a thread.
Wake ==
  /\ agent.at = "sleep"
  /\ seconds = agent.due
  /\ agent' = At("register", seconds + Slowest)
  /\ UNCHANGED <<seconds, schema, listed, missed>>

Reregistered ==
  /\ agent.at = "register"
  /\ CanRegister
  /\ listed' = Registered
  /\ agent' = At("beat", seconds + Slowest)
  /\ UNCHANGED <<seconds, schema, missed>>

\* Unlike at start, no heartbeat follows a registration that failed.
ReregisterFails ==
  /\ agent.at = "register"
  /\ listed' \in {listed} \cup (IF CanRegister THEN {Registered} ELSE {})
  /\ agent' = At("sleep", seconds + Interval)
  /\ missed' = TRUE
  /\ UNCHANGED <<seconds, schema>>

Beat ==
  /\ agent.at \in {"greet", "beat"}
  /\ listed' = Seen
  /\ agent' = At("sleep", seconds + Interval)
  /\ UNCHANGED <<seconds, schema, missed>>

\* record_heartbeat never raises.
BeatFails ==
  /\ agent.at \in {"greet", "beat"}
  /\ agent' = At("sleep", seconds + Interval)
  /\ missed' = TRUE
  /\ UNCHANGED <<seconds, schema, listed>>

\* Shutdown cancels the task and leaves the row; so does a crash.
Stop ==
  /\ agent # Down
  /\ agent' = Down
  /\ UNCHANGED <<seconds, schema, listed, missed>>

\* Registry.delete
Deleted ==
  /\ listed # Absent
  /\ listed' = Absent
  /\ missed' = TRUE
  /\ UNCHANGED <<seconds, schema, agent>>

\* Nothing takes longer than its due time.
Second ==
  /\ seconds < MaxSecond
  /\ agent # Down => seconds < agent.due
  /\ seconds' = seconds + 1
  /\ UNCHANGED <<schema, listed, agent, missed>>

BeatNext ==
  \/ Boot \/ BootRegistered \/ BootUnregistered
  \/ Wake \/ Reregistered \/ ReregisterFails
  \/ Beat \/ BeatFails
  \/ Stop \/ Deleted \/ Second

BeatSpec == BeatInit /\ [][BeatNext]_beatVars

------------------------------------------------------------------------------
BeatTypeOK ==
  /\ seconds \in Int
  /\ schema \in BOOLEAN
  /\ listed \in Rows \cup {Absent}
  /\ agent \in {Down} \cup [at : {"boot", "greet", "register", "beat", "sleep"}, due : Int]
  /\ missed \in BOOLEAN

\* get_live_agents: last_heartbeat > NOW() - ttl_seconds
IsAlive == listed # Absent /\ listed.beat # Absent /\ seconds - listed.beat < TTL

\* An agent whose task is running, and that no call has failed in this life, is
\* among the live agents at every moment: a round, with the registration before
\* the heartbeat, is over before the last heartbeat expires.
AliveWhileBeating ==
  agent.at \in {"sleep", "register", "beat"} /\ ~missed => IsAlive
==============================================================================
