------------------------------- MODULE Discovery -------------------------------
(***************************************************************************)
(* How an agent finds a peer: resolve_agent asks the registry through a    *)
(* cache whose expired entries serve when the registry fails, and          *)
(* materialize_remote_a2a_peer_sync resolves the peer, fetches its card    *)
(* and retries a fixed number of times.  (discover_agents uses the cache   *)
(* in the same way, with the empty list for Nobody.)                       *)
(*                                                                         *)
(* Records are told apart by where they say the peer is; Unusable is one   *)
(* that a heartbeat inserted, with no private_facts_url.                   *)
(*                                                                         *)
(* An operator whose name ends in _Wrong is a faulty variant of the one    *)
(* after it; no specification uses it.                                     *)
(***************************************************************************)
EXTENDS Integers

CONSTANTS
  Calls,      \* callers in this process
  Places,     \* usable records
  Unusable,
  Nobody,     \* no record
  RecordTTL,  \* ttl of every record
  Answering,  \* longest that the registry's answer takes after its read
  RetryDelay, \* A2A_PEER_REGISTRY_RETRY_DELAY_S
  MaxTries,   \* the largest number of attempts; a bare resolve_agent makes one
  MaxMoment   \* bound

Found == Places \cup {Unusable}

ASSUME NobodyIsNotFound == Nobody \notin Found
ASSUME DiscoveryTimes ==
  RecordTTL \in Nat /\ Answering \in Nat /\ RetryDelay \in Nat /\ MaxTries \in Nat

VARIABLES
  moment,
  published,  \* what the registry holds of the peer
  lastHeld,   \* history: the last moment at which the registry held each record
  token,      \* _bearer_token
  entry,      \* the cache's entry for the peer
  known,      \* history: a record of the peer has been resolved
  call

discoveryVars == <<moment, published, lastHeld, token, entry, known, call>>

NoEntry == [until |-> -1]
Idle == [at |-> "idle"]
Never == -100

DiscoveryInit ==
  /\ moment = 0
  /\ published = Nobody
  /\ lastHeld = [r \in Found \cup {Nobody} |-> IF r = Nobody THEN 0 ELSE Never]
  /\ token = "unset"
  /\ entry = NoEntry
  /\ known = FALSE
  /\ call = [c \in Calls |-> Idle]

Goes(c, next) == call' = [call EXCEPT ![c] = next]

Fresh_Wrong == entry # NoEntry   \* expired entries too, as allow_stale does

\* TTLCache.get
Fresh == entry # NoEntry /\ moment < entry.until

Remembered_Wrong(record) ==          \* the answer that there is no agent as well
  [record |-> record, until |-> moment + RecordTTL]

\* TTLCache.set, which no answer without an agent reaches.
Remembered(record) ==
  IF record = Nobody THEN entry ELSE [record |-> record, until |-> moment + RecordTTL]

Start(c, tries) ==
  /\ call[c] = Idle
  /\ Goes(c, [at |-> "try", left |-> tries - 1])
  /\ UNCHANGED <<moment, published, lastHeld, token, entry, known>>

\* resolve_agent returned: what, whether for want of an answer, and how long
\* before the registry had held it.  Without a record, or with one that has no
\* base URL, the attempt raises a ValueError.
Resolved(c, record, stale) ==
  Goes(c, [at    |-> IF record \in Places THEN "card" ELSE "missed",
           left  |-> call[c].left,
           got   |-> record,
           stale |-> stale,
           age   |-> moment - lastHeld[record]])

\* A fresh entry answers; otherwise the request goes out with the cached token,
\* which the first request fetches once and for all: a failure leaves it blank.
FromCache(c) ==
  /\ call[c].at = "try"
  /\ Fresh
  /\ Resolved(c, entry.record, FALSE)
  /\ UNCHANGED <<moment, published, lastHeld, token, entry, known>>

Ask(c) ==
  /\ call[c].at = "try"
  /\ ~Fresh
  /\ token' \in IF token = "unset" THEN {"blank", "good"} ELSE {token}
  /\ Goes(c, [at |-> "asked", left |-> call[c].left])
  /\ UNCHANGED <<moment, published, lastHeld, entry, known>>

\* The registry reads; a blank token it refuses.
RegistryReads(c) ==
  /\ call[c].at = "asked"
  /\ token = "good"
  /\ Goes(c, [at |-> "told", left |-> call[c].left, answer |-> published,
              due |-> moment + Answering])
  /\ UNCHANGED <<moment, published, lastHeld, token, entry, known>>

Told(c) ==
  /\ call[c].at = "told"
  /\ entry' = Remembered(call[c].answer)
  /\ known' = (known \/ call[c].answer # Nobody)
  /\ Resolved(c, call[c].answer, FALSE)
  /\ UNCHANGED <<moment, published, lastHeld, token>>

OnFailure_Wrong == IF Fresh THEN entry.record ELSE Nobody   \* get without allow_stale

OnFailure == IF entry = NoEntry THEN Nobody ELSE entry.record

\* Refused, unreachable, too late or in error: the entry serves, however old.
AskFails(c) ==
  /\ call[c].at \in {"asked", "told"}
  /\ Resolved(c, OnFailure, TRUE)
  /\ UNCHANGED <<moment, published, lastHeld, token, entry, known>>

CardFetched(c) ==
  /\ call[c].at = "card"
  /\ Goes(c, Idle)
  /\ UNCHANGED <<moment, published, lastHeld, token, entry, known>>

CardFails(c) ==
  /\ call[c].at = "card"
  /\ Goes(c, [call[c] EXCEPT !.at = "missed"])
  /\ UNCHANGED <<moment, published, lastHeld, token, entry, known>>

\* After a failed attempt: sleep and try again, or give up.
Retry(c) ==
  /\ call[c].at = "missed"
  /\ IF call[c].left > 0
       THEN Goes(c, [at |-> "sleep", left |-> call[c].left, due |-> moment + RetryDelay])
       ELSE Goes(c, Idle)
  /\ UNCHANGED <<moment, published, lastHeld, token, entry, known>>

Awake(c) ==
  /\ call[c].at = "sleep"
  /\ moment >= call[c].due
  /\ Goes(c, [at |-> "try", left |-> call[c].left - 1])
  /\ UNCHANGED <<moment, published, lastHeld, token, entry, known>>

\* The peer registers, moves, is deleted, or is known by a heartbeat only.
Publish(record) ==
  /\ published # record
  /\ published' = record
  /\ lastHeld' = [lastHeld EXCEPT ![record] = moment]
  /\ UNCHANGED <<moment, token, entry, known, call>>

PassMoment ==
  /\ moment < MaxMoment
  /\ \A c \in Calls : call[c].at = "told" => moment < call[c].due
  /\ moment' = moment + 1
  /\ lastHeld' = [lastHeld EXCEPT ![published] = moment + 1]
  /\ UNCHANGED <<published, token, entry, known, call>>

DiscoveryNext ==
  \/ \E c \in Calls :
       \/ \E tries \in 1..MaxTries : Start(c, tries)
       \/ FromCache(c) \/ Ask(c) \/ RegistryReads(c) \/ Told(c) \/ AskFails(c)
       \/ CardFetched(c) \/ CardFails(c) \/ Retry(c) \/ Awake(c)
  \/ \E record \in Found \cup {Nobody} : Publish(record)
  \/ PassMoment

DiscoverySpec == DiscoveryInit /\ [][DiscoveryNext]_discoveryVars

------------------------------------------------------------------------------
Outcomes ==
  [at : {"card", "missed"}, left : Nat, got : Found \cup {Nobody},
   stale : BOOLEAN, age : Int]

Entries == [record : Found, until : Nat]

CallStates ==
  {Idle} \cup [at : {"try", "asked"}, left : Nat]
    \cup [at : {"told"}, left : Nat, answer : Found \cup {Nobody}, due : Int]
    \cup [at : {"sleep"}, left : Nat \ {0}, due : Int]
    \cup Outcomes

DiscoveryTypeOK ==
  /\ moment \in Nat
  /\ published \in Found \cup {Nobody}
  /\ lastHeld \in [Found \cup {Nobody} -> Int]
  /\ token \in {"unset", "blank", "good"}
  /\ known \in BOOLEAN
  /\ entry \in {NoEntry} \cup Entries
  /\ call \in [Calls -> CallStates]

\* Unless the registry failed the request, resolve_agent returns what the
\* registry held no longer ago than an answer takes, or, of an agent that there
\* is, less than a time to live before that: a peer that is registered again is
\* not missed for what the cache remembers.
ResolvedIsRecent ==
  \A c \in Calls : call[c].at \in {"card", "missed"} /\ ~call[c].stale =>
    \/ call[c].age <= Answering
    \/ call[c].got # Nobody /\ call[c].age < RecordTTL + Answering

\* While the registry fails, an agent this process has once resolved is still
\* found: no lookup in between forgets the entry it finds expired.
Resolves(c) == call[c].at \in {"try", "asked", "told"} /\ call'[c].at \in {"card", "missed"}

OutageForgetsNobody ==
  [][\A c \in Calls : Resolves(c) /\ known /\ call'[c].stale => call'[c].got # Nobody]_discoveryVars
==============================================================================
