------------------------------- MODULE AgentAuth -------------------------------
(***************************************************************************)
(* Calls between agents.  The caller attaches an OAuth token of the        *)
(* registry that it shares between its flows (RegistryA2AOAuth2Auth); the  *)
(* token service mints it (mint_token); the callee's ApiKeyMiddleware      *)
(* admits a request by its path, an internal secret, an API key the        *)
(* registry knows, a Google token (verify_google_token, cached GoogleTTL), *)
(* or a JWT (verify_jwt).                                                  *)
(*                                                                         *)
(* A request to the token service, the registry or Google is answered or   *)
(* fails within Delay ticks (the timeout of the HTTP client), a call       *)
(* reaches its callee within Travel ticks.  The service mints, and the     *)
(* registry and Google look a credential up, at a moment between request   *)
(* and answer.  Signatures, issuers and audiences are left out: a JWT is   *)
(* its expiry.                                                             *)
(*                                                                         *)
(* An operator whose name ends in _Wrong is a faulty variant of the one    *)
(* after it; no specification uses it.                                     *)
(***************************************************************************)
EXTENDS Naturals, FiniteSetsExt

CONSTANTS
  Flows,     \* async_auth_flow calls of the caller
  Inbound,   \* other requests at the callee
  Margin,    \* the 30 seconds of _is_expired
  Lifetimes, \* the ttl the token service is asked for
  MaxTTL,    \* max_ttl of mint_token
  GoogleTTL, \* the ttl of _token_cache
  Delay, Travel,
  MaxTime    \* bound: ticks

ASSUME AuthTimes ==
  /\ Delay \in Nat /\ Travel \in Nat /\ Margin \in Nat
  /\ Lifetimes \subseteq Nat /\ MaxTTL \in Nat
  /\ GoogleTTL \in Nat \ {0}

\* The margin outlasts the request for a token and the call that carries it, and
\* so does every token when it is new.
ASSUME MarginCovers == Delay + Travel <= Margin
ASSUME LifetimeCovers == \A ttl \in Lifetimes \cup {MaxTTL} : Delay + Travel < ttl

VARIABLES
  time,
  held,     \* the expiry of the caller's _token, 0 for none, and its _expires_at
  flow,
  secrets,  \* which internal secrets the callee is configured with
  live,     \* credentials the registry and Google would confirm now
  lastLive, \* history: the last tick they would
  google,   \* _token_cache: when the Google token was put in, 0 for never
  inbound

outgoing == <<held, flow>>
outside == <<live, lastLive>>
callee == <<google, inbound>>
authVars == <<time, outgoing, secrets, outside, callee>>

External == {"sk", "google"}    \* credentials that somebody else confirms

NoFlow == [at |-> "idle", since |-> 0, exp |-> 0, ttl |-> 0]
NoRequest == [at |-> "idle", cred |-> "none", since |-> 0, row |-> FALSE]

AuthInit ==
  /\ time = 1
  /\ held = [exp |-> 0, until |-> 0]
  /\ flow = [f \in Flows |-> NoFlow]
  /\ secrets \in SUBSET {"trigger", "delegation"}
  /\ live = [c \in External |-> TRUE]
  /\ lastLive = [c \in External |-> 1]
  /\ google = 0
  /\ inbound = [r \in Inbound |-> NoRequest]

\* No answer and no call is late.
InTime ==
  /\ \A f \in Flows :
       /\ flow[f].at \in {"asking", "minted"} => time < flow[f].since + Delay
       /\ flow[f].at = "sent" => time < flow[f].since + Travel
  /\ \A r \in Inbound : inbound[r].at \in {"asked", "read"} => time < inbound[r].since + Delay

Pass ==
  /\ time < MaxTime
  /\ InTime
  /\ time' = time + 1
  /\ lastLive' = [c \in External |-> IF live[c] THEN time + 1 ELSE lastLive[c]]
  /\ UNCHANGED <<outgoing, secrets, live, callee>>

\* A credential is revoked or expires at the registry or at Google.
Lapse(c) ==
  /\ live[c]
  /\ live' = [live EXCEPT ![c] = FALSE]
  /\ UNCHANGED <<time, outgoing, secrets, lastLive, callee>>

------------------------------------------------------------------------------
(* The caller.                                                             *)

IsExpired_Wrong == time >= held.until     \* no margin

\* _is_expired, and a token that was never fetched.
IsExpired == time + Margin >= held.until

Attach(f, exp) == flow' = [flow EXCEPT ![f] = [NoFlow EXCEPT !.at = "sent", !.since = time, !.exp = exp]]

Send(f) ==
  /\ flow[f].at = "idle"
  /\ IF held.exp = 0 \/ IsExpired
       THEN flow' = [flow EXCEPT ![f] = [NoFlow EXCEPT !.at = "asking", !.since = time]]
       ELSE Attach(f, held.exp)
  /\ UNCHANGED <<time, held, secrets, outside, callee>>

EffectiveTTL(ttl) == Min({ttl, MaxTTL})

\* The token service: mint_token, with the lifetime it was asked for.
Mint(f, ttl) ==
  /\ flow[f].at = "asking"
  /\ flow' = [flow EXCEPT ![f].at = "minted", ![f].ttl = EffectiveTTL(ttl),
                          ![f].exp = time + EffectiveTTL(ttl)]
  /\ UNCHANGED <<time, held, secrets, outside, callee>>

\* The answer: the lifetime is counted from here, and the token goes out.
Refreshed(f) ==
  /\ flow[f].at = "minted"
  /\ held' = [exp |-> flow[f].exp, until |-> time + flow[f].ttl]
  /\ Attach(f, flow[f].exp)
  /\ UNCHANGED <<time, secrets, outside, callee>>

\* The refresh raises, and the call with it; the old token stays.
RefreshFails(f) ==
  /\ flow[f].at \in {"asking", "minted"}
  /\ flow' = [flow EXCEPT ![f] = NoFlow]
  /\ UNCHANGED <<time, held, secrets, outside, callee>>

\* The callee's middleware: no Google token, so verify_jwt decides.
Arrive(f) ==
  /\ flow[f].at = "sent"
  /\ flow' = [flow EXCEPT ![f] = IF @.exp > time THEN NoFlow ELSE [NoFlow EXCEPT !.at = "refused"]]
  /\ UNCHANGED <<time, held, secrets, outside, callee>>

------------------------------------------------------------------------------
(* The callee: ApiKeyMiddleware.dispatch for requests that do not bring a  *)
(* JWT of the caller above.                                                *)

\* The verdict on a request; of one that is admitted, when its credential was
\* last good.
Decide(r, cred, status) ==
  inbound' = [inbound EXCEPT ![r] =
    IF status = "admitted"
      THEN [at |-> "decided", status |-> status, cred |-> cred, since |-> time,
            lastLive |-> lastLive[cred]]
      ELSE [at |-> "decided", status |-> status]]

Cached_Wrong == google # 0      \* an entry does not expire

Cached == google # 0 /\ time < google + GoogleTTL

\* secret: the request carries the internal secret of its path.
Dispatch(r, path, secret, cred) ==
  /\ inbound[r].at \in {"idle", "decided"}
  /\ IF path = "open" THEN Decide(r, "none", "open")
     ELSE IF path \in secrets /\ secret THEN Decide(r, "none", "internal")
     ELSE IF cred = "none" THEN Decide(r, cred, "401")
     ELSE IF cred = "google" /\ Cached THEN Decide(r, cred, "admitted")
     ELSE inbound' = [inbound EXCEPT ![r] = [NoRequest EXCEPT !.at = "asked", !.cred = cred,
                                                              !.since = time]]
  /\ UNCHANGED <<time, outgoing, secrets, outside, google>>

\* The registry or Google looks the credential up.
LookUp(r) ==
  /\ inbound[r].at = "asked"
  /\ inbound' = [inbound EXCEPT ![r].at = "read", ![r].row = live[inbound[r].cred]]
  /\ UNCHANGED <<time, outgoing, secrets, outside, google>>

\* The answer.  A Google token that is not confirmed is no JWT either.
Answered(r) ==
  /\ inbound[r].at = "read"
  /\ Decide(r, inbound[r].cred, IF inbound[r].row THEN "admitted" ELSE "401")
  /\ google' = IF inbound[r].cred = "google" /\ inbound[r].row THEN time ELSE google
  /\ UNCHANGED <<time, outgoing, secrets, outside>>

\* Nobody answers: 503 for an API key; a Google token is tried as a JWT.
LookUpFails(r) ==
  /\ inbound[r].at \in {"asked", "read"}
  /\ Decide(r, inbound[r].cred, IF inbound[r].cred = "sk" THEN "503" ELSE "401")
  /\ UNCHANGED <<time, outgoing, secrets, outside, google>>

Paths == {"open", "trigger", "delegation", "other"}

CallerNext ==
  \E f \in Flows :
    \/ Send(f)
    \/ \E ttl \in Lifetimes : Mint(f, ttl)
    \/ Refreshed(f) \/ RefreshFails(f) \/ Arrive(f)

CalleeNext ==
  \/ \E c \in External : Lapse(c)
  \/ \E r \in Inbound :
       \/ \E p \in Paths, s \in BOOLEAN, c \in {"none"} \cup External : Dispatch(r, p, s, c)
       \/ LookUp(r) \/ Answered(r) \/ LookUpFails(r)

AuthNext == Pass \/ CallerNext \/ CalleeNext

AuthSpec == AuthInit /\ [][AuthNext]_authVars

------------------------------------------------------------------------------
Flights == [at : {"idle", "asking", "minted", "sent", "refused"}, since : Nat, exp : Nat, ttl : Nat]

LookUps == [at : {"idle", "asked", "read"}, cred : External \cup {"none"}, since : Nat, row : BOOLEAN]

Verdicts ==
  [at : {"decided"}, status : {"open", "internal", "401", "503"}]
    \cup [at : {"decided"}, status : {"admitted"}, cred : External, since : Nat, lastLive : Nat]

AuthTypeOK ==
  /\ time \in Nat
  /\ held \in [exp : Nat, until : Nat]
  /\ flow \in [Flows -> Flights]
  /\ secrets \subseteq {"trigger", "delegation"}
  /\ live \in [External -> BOOLEAN] /\ lastLive \in [External -> Nat]
  /\ google \in Nat
  /\ inbound \in [Inbound -> LookUps \cup Verdicts]

\* A token the caller attaches is still good when the callee verifies it,
\* although its expiry is counted from the answer and not from the minting, and
\* flows that refresh at once may store their tokens in any order.
CallsAreNotRefused == \A f \in Flows : flow[f].at # "refused"

\* Whoever is admitted by an outside party had a credential that was good less
\* than the cache's lifetime and one answer's delay ago, or during the look-up.
AdmittedWasLive ==
  \A r \in Inbound :
    inbound[r].at = "decided" /\ inbound[r].status = "admitted" =>
      /\ inbound[r].cred = "sk" => inbound[r].lastLive + Delay >= inbound[r].since
      /\ inbound[r].cred = "google" =>
           inbound[r].lastLive + Delay + GoogleTTL > inbound[r].since
==============================================================================
