------------------------------ MODULE Calls_proofs ------------------------------
(***************************************************************************)
(* Proofs about agents that call one another: AgentAuth (the tokens of the *)
(* caller, the credentials the callee accepts), PushNotifications (the     *)
(* caller is called back), Submission (the tool that delegates work) and   *)
(* RedisClient (the client through which accept handlers and the worker of *)
(* the callee reach their queue), for any numbers of them and any          *)
(* durations within the margins assumed.                                   *)
(* A part for each; they share no definition.                              *)
(***************************************************************************)
EXTENDS AgentAuth, PushNotifications, Submission, RedisClient, TLAPS

------------------------------------------------------------------------------
(* AgentAuth.  The caller's half counts what is left of a token: it is     *)
(* attached with more than the margin to go and arrives within Travel of   *)
(* that.  The callee's half follows a credential from the moment it was    *)
(* last good through the look-up, or the cache, to the verdict.            *)

\* A token held by the caller: counted from the answer, its expiry is late by the
\* answer's delay at most.
HeldOK == held.exp # 0 => held.until <= held.exp + Delay

\* How long a flow has been where it is, and what is left of its token.
FlowOK(f) ==
  /\ f.at # "refused"
  /\ f.at \in {"asking", "minted"} => f.since <= time /\ time <= f.since + Delay
  /\ f.at = "minted" => f.since + f.ttl <= f.exp /\ Delay + Travel < f.ttl
  /\ f.at = "sent" => time <= f.since + Travel /\ f.since + Travel < f.exp

CallerOK == HeldOK /\ \A f \in Flows : FlowOK(flow[f])

CallerInv == AuthTypeOK /\ CallerOK

\* The outside parties' record of a credential is never behind, nor ahead.
OutsideOK ==
  \A c \in External : lastLive[c] <= time /\ (live[c] => lastLive[c] = time)

\* What AdmittedWasLive says of one request.
SoundAdmission(q) ==
  q.at = "decided" /\ q.status = "admitted" =>
    /\ q.cred = "sk" => q.lastLive + Delay >= q.since
    /\ q.cred = "google" => q.lastLive + Delay + GoogleTTL > q.since

\* A look-up is not late; a credential it found good was so since it began.
RequestOK(q) ==
  /\ q.at \in {"asked", "read"} =>
       q.cred \in External /\ q.since <= time /\ time <= q.since + Delay
  /\ q.at = "read" /\ q.row => q.since <= lastLive[q.cred]
  /\ SoundAdmission(q)

\* A cached token was good one answer's delay before it was put in.
CachedOK == google # 0 => google <= lastLive["google"] + Delay

CalleeOK == OutsideOK /\ CachedOK /\ \A r \in Inbound : RequestOK(inbound[r])

AuthInv == CallerInv /\ CalleeOK

------------------------------------------------------------------------------
LEMMA MintedLives ==
  ASSUME NEW ttl \in Lifetimes
  PROVE  EffectiveTTL(ttl) \in Nat /\ Delay + Travel < EffectiveTTL(ttl)
<1>1. ttl \in Nat /\ MaxTTL \in Nat
  BY AuthTimes
<1>2. \E x \in {ttl, MaxTTL} : \A y \in {ttl, MaxTTL} : x <= y
  <2>1. CASE ttl <= MaxTTL
    BY <1>1, <2>1
  <2>2. CASE ~(ttl <= MaxTTL)
    BY <1>1, <2>2
  <2>3. QED
    BY <2>1, <2>2
<1>3. EffectiveTTL(ttl) \in {ttl, MaxTTL}
  BY <1>2 DEF EffectiveTTL, Min
<1>4. QED
  BY <1>1, <1>3, LifetimeCovers

\* One flow changes; what it becomes has to be sound.
LEMMA OneFlow ==
  ASSUME CallerInv, NEW f \in Flows, NEW g \in Flights,
         flow' = [flow EXCEPT ![f] = g], FlowOK(g),
         UNCHANGED <<time, held, secrets, outside, callee>>
  PROVE  CallerInv'
<1>1. AuthTypeOK'
  BY DEF CallerInv, AuthTypeOK, outside, callee
<1>2. \A h \in Flows : FlowOK(flow[h])'
  BY DEF CallerInv, CallerOK, AuthTypeOK, FlowOK
<1>3. HeldOK'
  BY DEF CallerInv, CallerOK, HeldOK
<1>4. QED
  BY <1>1, <1>2, <1>3 DEF CallerInv, CallerOK

\* What is known of a flow, by where it is.
LEMMA FlowFacts ==
  ASSUME CallerInv, NEW f \in Flows
  PROVE  /\ flow[f] \in Flights /\ flow \in [Flows -> Flights]
         /\ FlowOK(flow[f]) /\ time \in Nat
         /\ held.exp \in Nat /\ held.until \in Nat /\ held \in [exp : Nat, until : Nat]
         /\ held.exp # 0 => held.until <= held.exp + Delay
BY DEF CallerInv, CallerOK, AuthTypeOK, HeldOK

\* A flow that goes out now with a token that outlasts the way.
LEMMA Attached ==
  ASSUME time \in Nat, NEW exp \in Nat, time + Travel < exp,
         NEW g, g = [NoFlow EXCEPT !.at = "sent", !.since = time, !.exp = exp]
  PROVE  g \in Flights /\ FlowOK(g)
<1>1. g = [at |-> "sent", since |-> time, exp |-> exp, ttl |-> 0]
  BY DEF NoFlow
<1>2. QED
  BY <1>1, AuthTimes DEF Flights, FlowOK

\* A flow that asks for a token now.
LEMMA Asking ==
  ASSUME time \in Nat, NEW g, g = [NoFlow EXCEPT !.at = "asking", !.since = time]
  PROVE  g \in Flights /\ FlowOK(g)
<1>1. g = [at |-> "asking", since |-> time, exp |-> 0, ttl |-> 0]
  BY DEF NoFlow
<1>2. QED
  BY <1>1, AuthTimes DEF Flights, FlowOK

LEMMA IdleFlow == NoFlow \in Flights /\ FlowOK(NoFlow)
BY DEF NoFlow, Flights, FlowOK

LEMMA SendKeeps ==
  ASSUME CallerInv, NEW f \in Flows, Send(f)
  PROVE  CallerInv'
<1>1. CASE held.exp = 0 \/ IsExpired
  <2> DEFINE g == [NoFlow EXCEPT !.at = "asking", !.since = time]
  <2>2. g \in Flights /\ FlowOK(g)
    BY FlowFacts, Asking
  <2>3. flow' = [flow EXCEPT ![f] = g] /\ UNCHANGED <<time, held, secrets, outside, callee>>
    BY <1>1 DEF Send
  <2>4. QED
    BY <2>2, <2>3, OneFlow
<1>2. CASE ~(held.exp = 0 \/ IsExpired)
  <2> DEFINE g == [NoFlow EXCEPT !.at = "sent", !.since = time, !.exp = held.exp]
  <2>1. held.exp \in Nat /\ time \in Nat /\ time + Travel < held.exp
    BY <1>2, FlowFacts, AuthTimes, MarginCovers DEF IsExpired
  <2>2. g \in Flights /\ FlowOK(g)
    BY <2>1, Attached
  <2>3. flow' = [flow EXCEPT ![f] = g] /\ UNCHANGED <<time, held, secrets, outside, callee>>
    BY <1>2 DEF Send, Attach
  <2>4. QED
    BY <2>2, <2>3, OneFlow
<1>3. QED
  BY <1>1, <1>2

\* The service's answer in a flow.
LEMMA Minted ==
  ASSUME NEW x \in Flights, NEW e \in Nat, time \in Nat
  PROVE  [x EXCEPT !.at = "minted", !.ttl = e, !.exp = time + e]
           = [at |-> "minted", since |-> x.since, exp |-> time + e, ttl |-> e]
<1>1. SUFFICES ASSUME NEW g, g = [x EXCEPT !.at = "minted", !.ttl = e, !.exp = time + e]
               PROVE  g = [at |-> "minted", since |-> x.since, exp |-> time + e, ttl |-> e]
  OBVIOUS
<1>2. QED
  BY <1>1 DEF Flights

LEMMA MintKeeps ==
  ASSUME CallerInv, NEW f \in Flows, NEW ttl \in Lifetimes, Mint(f, ttl)
  PROVE  CallerInv'
<1> DEFINE e == EffectiveTTL(ttl)
           g == [flow[f] EXCEPT !.at = "minted", !.ttl = e, !.exp = time + e]
<1>1. e \in Nat /\ Delay + Travel < e
  BY MintedLives
<1>2. /\ flow[f] \in Flights /\ flow[f].at = "asking"
      /\ flow[f].since <= time /\ time <= flow[f].since + Delay
  BY FlowFacts DEF Mint, FlowOK
<1>3. g \in Flights /\ g.at = "minted" /\ g.since = flow[f].since /\ g.ttl = e /\ g.exp = time + e
  <2> HIDE DEF e
  <2>1. g = [at |-> "minted", since |-> flow[f].since, exp |-> time + e, ttl |-> e]
    BY <1>1, <1>2, FlowFacts, Minted
  <2>2. flow[f].since \in Nat /\ time + e \in Nat
    BY <1>1, <1>2, FlowFacts DEF Flights
  <2>3. QED
    BY <1>1, <2>1, <2>2 DEF Flights
<1>4. FlowOK(g)
  <2> HIDE DEF e, g
  <2>1. flow[f].since \in Nat /\ time \in Nat
    BY FlowFacts DEF Flights
  <2>2. QED
    BY <1>1, <1>2, <1>3, <2>1, AuthTimes DEF FlowOK
<1>5. flow' = [flow EXCEPT ![f] = g] /\ UNCHANGED <<time, held, secrets, outside, callee>>
  BY FlowFacts DEF Mint
<1>6. QED
  BY <1>3, <1>4, <1>5, OneFlow

LEMMA RefreshedKeeps ==
  ASSUME CallerInv, NEW f \in Flows, Refreshed(f)
  PROVE  CallerInv'
<1> DEFINE exp == flow[f].exp
           g == [NoFlow EXCEPT !.at = "sent", !.since = time, !.exp = exp]
<1>1. /\ flow[f].since \in Nat /\ exp \in Nat /\ flow[f].ttl \in Nat /\ time \in Nat
      /\ time <= flow[f].since + Delay
      /\ flow[f].since + flow[f].ttl <= exp /\ Delay + Travel < flow[f].ttl
  BY FlowFacts DEF Refreshed, FlowOK, Flights
<1>2. time + Travel < exp
  BY <1>1, AuthTimes
<1>3. g \in Flights /\ FlowOK(g)
  BY <1>1, <1>2, Attached
<1>4. /\ held' = [exp |-> exp, until |-> time + flow[f].ttl]
      /\ flow' = [flow EXCEPT ![f] = g]
      /\ UNCHANGED <<time, secrets, outside, callee>>
  BY DEF Refreshed, Attach
<1> HIDE DEF g, exp
<1>5. held' \in [exp : Nat, until : Nat] /\ held'.until <= held'.exp + Delay
  BY <1>1, <1>4, AuthTimes
<1>6. AuthTypeOK'
  BY <1>3, <1>4, <1>5 DEF CallerInv, AuthTypeOK, outside, callee
<1>7. HeldOK'
  BY <1>5 DEF HeldOK
<1>8. \A h \in Flows : FlowOK(flow[h])'
  BY <1>3, <1>4 DEF CallerInv, CallerOK, AuthTypeOK, FlowOK
<1>9. QED
  BY <1>6, <1>7, <1>8 DEF CallerInv, CallerOK

LEMMA ArriveKeeps ==
  ASSUME CallerInv, NEW f \in Flows, Arrive(f)
  PROVE  CallerInv'
<1>1. flow[f].exp > time
  BY FlowFacts, AuthTimes DEF Arrive, FlowOK, Flights
<1>2. flow' = [flow EXCEPT ![f] = NoFlow]
  BY <1>1, FlowFacts DEF Arrive
<1>3. QED
  BY <1>2, IdleFlow, OneFlow DEF Arrive

LEMMA RefreshFailsKeeps ==
  ASSUME CallerInv, NEW f \in Flows, RefreshFails(f)
  PROVE  CallerInv'
BY IdleFlow, OneFlow DEF RefreshFails

\* A step of the callee or of an outside party is none of the caller.
LEMMA CallerUntouched ==
  ASSUME CallerInv, UNCHANGED <<time, outgoing, secrets>>,
         live' \in [External -> BOOLEAN], lastLive' \in [External -> Nat],
         google' \in Nat, inbound' \in [Inbound -> LookUps \cup Verdicts]
  PROVE  CallerInv'
<1>1. AuthTypeOK'
  BY DEF CallerInv, AuthTypeOK, outgoing
<1>2. CallerOK'
  BY DEF CallerInv, CallerOK, HeldOK, FlowOK, outgoing
<1>3. QED
  BY <1>1, <1>2 DEF CallerInv

\* A step of the caller is none of the callee.
LEMMA CalleeUntouched ==
  ASSUME CalleeOK, UNCHANGED <<time, outside, callee>>
  PROVE  CalleeOK'
BY DEF CalleeOK, OutsideOK, CachedOK, RequestOK, SoundAdmission, outside, callee

LEMMA CallerKeeps ==
  ASSUME AuthInv, CallerNext
  PROVE  AuthInv'
<1>1. PICK f \in Flows :
        Send(f) \/ (\E ttl \in Lifetimes : Mint(f, ttl)) \/ Refreshed(f) \/ RefreshFails(f) \/ Arrive(f)
  BY DEF CallerNext
<1>2. CallerInv
  BY DEF AuthInv
<1>3. CASE Send(f)
  <2>1. CallerInv'
    BY <1>2, <1>3, SendKeeps
  <2>2. UNCHANGED <<time, outside, callee>>
    BY <1>3 DEF Send
  <2>3. QED
    BY <2>1, <2>2, CalleeUntouched DEF AuthInv
<1>4. ASSUME NEW ttl \in Lifetimes, Mint(f, ttl)
      PROVE  AuthInv'
  <2>1. CallerInv'
    BY <1>2, <1>4, MintKeeps
  <2>2. UNCHANGED <<time, outside, callee>>
    BY <1>4 DEF Mint
  <2>3. QED
    BY <2>1, <2>2, CalleeUntouched DEF AuthInv
<1>5. CASE Refreshed(f)
  <2>1. CallerInv'
    BY <1>2, <1>5, RefreshedKeeps
  <2>2. UNCHANGED <<time, outside, callee>>
    BY <1>5 DEF Refreshed
  <2>3. QED
    BY <2>1, <2>2, CalleeUntouched DEF AuthInv
<1>6. CASE RefreshFails(f)
  <2>1. CallerInv'
    BY <1>2, <1>6, RefreshFailsKeeps
  <2>2. UNCHANGED <<time, outside, callee>>
    BY <1>6 DEF RefreshFails
  <2>3. QED
    BY <2>1, <2>2, CalleeUntouched DEF AuthInv
<1>7. CASE Arrive(f)
  <2>1. CallerInv'
    BY <1>2, <1>7, ArriveKeeps
  <2>2. UNCHANGED <<time, outside, callee>>
    BY <1>7 DEF Arrive
  <2>3. QED
    BY <2>1, <2>2, CalleeUntouched DEF AuthInv
<1>8. QED
  BY <1>1, <1>3, <1>4, <1>5, <1>6, <1>7

------------------------------------------------------------------------------
(* The callee.                                                             *)

LEMMA CalleeFacts ==
  ASSUME AuthInv, NEW r \in Inbound
  PROVE  /\ time \in Nat /\ google \in Nat
         /\ live \in [External -> BOOLEAN] /\ lastLive \in [External -> Nat]
         /\ inbound \in [Inbound -> LookUps \cup Verdicts]
         /\ inbound[r].at \in {"idle", "asked", "read"} => inbound[r] \in LookUps
         /\ RequestOK(inbound[r])
         /\ "google" \in External
<1>1. inbound[r] \in LookUps \cup Verdicts
  BY DEF AuthInv, CallerInv, AuthTypeOK
<1>2. \A q \in Verdicts : q.at = "decided"
  BY DEF Verdicts
<1>3. inbound[r].at \in {"idle", "asked", "read"} => inbound[r] \in LookUps
  BY <1>1, <1>2
<1>4. QED
  BY <1>1, <1>3 DEF AuthInv, CallerInv, AuthTypeOK, CalleeOK, External

\* One request changes, and perhaps the cache with it.
LEMMA OneInbound ==
  ASSUME AuthInv, NEW r \in Inbound, NEW q \in LookUps \cup Verdicts,
         inbound' = [inbound EXCEPT ![r] = q], RequestOK(q),
         google' \in Nat, google' # 0 => google' <= lastLive["google"] + Delay,
         UNCHANGED <<time, outgoing, secrets, outside>>
  PROVE  AuthInv'
<1>1. CallerInv'
  BY CallerUntouched DEF AuthInv, CallerInv, AuthTypeOK, outside
<1>2. OutsideOK' /\ CachedOK'
  BY DEF AuthInv, CalleeOK, OutsideOK, CachedOK, outside
<1>3. \A i \in Inbound : RequestOK(inbound[i])'
  BY DEF AuthInv, CallerInv, AuthTypeOK, CalleeOK, RequestOK, SoundAdmission, outside
<1>4. QED
  BY <1>1, <1>2, <1>3 DEF AuthInv, CalleeOK

\* A verdict that is no admission.
LEMMA Plain ==
  ASSUME NEW status \in {"open", "internal", "401", "503"}
  PROVE  /\ [at |-> "decided", status |-> status] \in LookUps \cup Verdicts
         /\ RequestOK([at |-> "decided", status |-> status])
BY DEF Verdicts, RequestOK, SoundAdmission

\* An admission on the word of an outside party.
LEMMA Admission ==
  ASSUME AuthInv, NEW cred \in External,
         cred = "sk" => time <= lastLive[cred] + Delay,
         cred = "google" => time < lastLive[cred] + Delay + GoogleTTL,
         NEW q, q = [at |-> "decided", status |-> "admitted", cred |-> cred, since |-> time,
                     lastLive |-> lastLive[cred]]
  PROVE  q \in LookUps \cup Verdicts /\ RequestOK(q)
<1>1. time \in Nat /\ lastLive[cred] \in Nat
  BY DEF AuthInv, CallerInv, AuthTypeOK
<1>2. q \in Verdicts
  BY <1>1 DEF Verdicts
<1>3. RequestOK(q)
  BY <1>1, AuthTimes DEF RequestOK, SoundAdmission
<1>4. QED
  BY <1>2, <1>3

LEMMA DispatchKeeps ==
  ASSUME AuthInv, NEW r \in Inbound, NEW path \in Paths, NEW secret \in BOOLEAN,
         NEW cred \in {"none"} \cup External, Dispatch(r, path, secret, cred)
  PROVE  AuthInv'
<1>1. /\ UNCHANGED <<time, outgoing, secrets, outside, google>>
      /\ google' \in Nat /\ (google' # 0 => google' <= lastLive["google"] + Delay)
  BY CalleeFacts DEF Dispatch, AuthInv, CalleeOK, CachedOK
<1>2. ASSUME NEW status \in {"open", "internal", "401", "503"}, NEW c, Decide(r, c, status)
      PROVE  AuthInv'
  <2>1. inbound' = [inbound EXCEPT ![r] = [at |-> "decided", status |-> status]]
    BY <1>2 DEF Decide
  <2>2. QED
    BY <1>1, <2>1, Plain, OneInbound
<1>3. CASE cred = "google" /\ Cached /\ Decide(r, cred, "admitted")
  <2> DEFINE q == [at |-> "decided", status |-> "admitted", cred |-> cred, since |-> time,
                   lastLive |-> lastLive[cred]]
  <2>1. inbound' = [inbound EXCEPT ![r] = q]
    BY <1>3 DEF Decide
  <2>2. time < lastLive[cred] + Delay + GoogleTTL
    BY <1>3, CalleeFacts, AuthTimes DEF Cached, AuthInv, CalleeOK, CachedOK
  <2>3. cred \in External /\ cred # "sk"
    BY <1>3 DEF External
  <2>4. q \in LookUps \cup Verdicts /\ RequestOK(q)
    BY <2>2, <2>3, Admission
  <2> HIDE DEF q
  <2>5. QED
    BY <1>1, <2>1, <2>4, OneInbound
<1>4. ASSUME cred \in External,
             inbound' = [inbound EXCEPT ![r] = [NoRequest EXCEPT !.at = "asked", !.cred = cred, !.since = time]]
      PROVE  AuthInv'
  <2>1. PICK q : q = [NoRequest EXCEPT !.at = "asked", !.cred = cred, !.since = time]
    OBVIOUS
  <2>2. time \in Nat
    BY CalleeFacts
  <2>3. q = [at |-> "asked", cred |-> cred, since |-> time, row |-> FALSE]
    BY <2>1, <2>2 DEF NoRequest
  <2>4. q \in LookUps \cup Verdicts /\ RequestOK(q)
    BY <1>4, <2>2, <2>3, AuthTimes DEF LookUps, RequestOK, SoundAdmission
  <2>5. QED
    BY <1>1, <1>4, <2>1, <2>4, OneInbound
<1>5. \/ \E status \in {"open", "internal", "401", "503"} : \E c \in {"none", cred} : Decide(r, c, status)
      \/ cred = "google" /\ Cached /\ Decide(r, cred, "admitted")
      \/ /\ cred \in External
         /\ inbound' = [inbound EXCEPT ![r] = [NoRequest EXCEPT !.at = "asked", !.cred = cred, !.since = time]]
  BY Zenon DEF Dispatch
<1>6. QED
  BY <1>2, <1>3, <1>4, <1>5

LEMMA LookUpKeeps ==
  ASSUME AuthInv, NEW r \in Inbound, LookUp(r)
  PROVE  AuthInv'
<1> DEFINE x == inbound[r]
<1>1. PICK q : q = [x EXCEPT !.at = "read", !.row = live[x.cred]]
  OBVIOUS
<1>2. /\ x \in LookUps /\ x.at = "asked" /\ x.cred \in External
      /\ x.since \in Nat /\ x.since <= time /\ time <= x.since + Delay
      /\ live[x.cred] \in BOOLEAN
      /\ live[x.cred] => lastLive[x.cred] = time
  BY CalleeFacts DEF LookUp, RequestOK, LookUps, AuthInv, CalleeOK, OutsideOK
<1>3. q = [at |-> "read", cred |-> x.cred, since |-> x.since, row |-> live[x.cred]]
  BY <1>1, <1>2 DEF LookUps
<1>4. inbound' = [inbound EXCEPT ![r] = q]
  BY <1>1, CalleeFacts DEF LookUp
<1>5. q \in LookUps \cup Verdicts /\ RequestOK(q)
  BY <1>2, <1>3 DEF LookUps, RequestOK, SoundAdmission
<1>6. /\ UNCHANGED <<time, outgoing, secrets, outside, google>>
      /\ google' \in Nat /\ (google' # 0 => google' <= lastLive["google"] + Delay)
  BY CalleeFacts DEF LookUp, AuthInv, CalleeOK, CachedOK
<1>7. QED
  BY <1>4, <1>5, <1>6, OneInbound

LEMMA AnsweredKeeps ==
  ASSUME AuthInv, NEW r \in Inbound, Answered(r)
  PROVE  AuthInv'
<1> DEFINE x == inbound[r]
<1>1. /\ x.at = "read" /\ x.cred \in External /\ x.since \in Nat /\ time \in Nat
      /\ time <= x.since + Delay
      /\ x.row => x.since <= lastLive[x.cred]
      /\ lastLive[x.cred] \in Nat
      /\ UNCHANGED <<time, outgoing, secrets, outside>>
      /\ google \in Nat /\ (google # 0 => google <= lastLive["google"] + Delay)
  BY CalleeFacts DEF Answered, RequestOK, LookUps, AuthInv, CalleeOK, CachedOK
<1>2. CASE x.row
  <2>1. PICK q : q = [at |-> "decided", status |-> "admitted", cred |-> x.cred, since |-> time,
                      lastLive |-> lastLive[x.cred]]
    OBVIOUS
  <2>2. inbound' = [inbound EXCEPT ![r] = q]
    BY <1>2, <2>1 DEF Answered, Decide
  <2>3. time <= lastLive[x.cred] + Delay /\ time < lastLive[x.cred] + Delay + GoogleTTL
    BY <1>1, <1>2, AuthTimes
  <2>4. q \in LookUps \cup Verdicts /\ RequestOK(q)
    BY <1>1, <2>1, <2>3, Admission
  <2>5. google' = IF x.cred = "google" THEN time ELSE google
    BY <1>2 DEF Answered
  <2>6. google' \in Nat /\ (google' # 0 => google' <= lastLive["google"] + Delay)
    BY <1>1, <2>3, <2>5
  <2>7. QED
    BY <1>1, <2>2, <2>4, <2>6, OneInbound
<1>3. CASE ~x.row
  <2>1. inbound' = [inbound EXCEPT ![r] = [at |-> "decided", status |-> "401"]] /\ google' = google
    BY <1>3 DEF Answered, Decide
  <2>2. QED
    BY <1>1, <2>1, Plain, OneInbound
<1>4. QED
  BY <1>2, <1>3

LEMMA LookUpFailsKeeps ==
  ASSUME AuthInv, NEW r \in Inbound, LookUpFails(r)
  PROVE  AuthInv'
<1>1. /\ UNCHANGED <<time, outgoing, secrets, outside, google>>
      /\ google' \in Nat /\ (google' # 0 => google' <= lastLive["google"] + Delay)
  BY CalleeFacts DEF LookUpFails, AuthInv, CalleeOK, CachedOK
<1>2. PICK status \in {"401", "503"} :
        inbound' = [inbound EXCEPT ![r] = [at |-> "decided", status |-> status]]
  BY DEF LookUpFails, Decide
<1>3. QED
  BY <1>1, <1>2, Plain, OneInbound

LEMMA LapseKeeps ==
  ASSUME AuthInv, NEW c \in External, Lapse(c)
  PROVE  AuthInv'
<1>1. /\ live' = [live EXCEPT ![c] = FALSE]
      /\ UNCHANGED <<time, outgoing, secrets, lastLive, google, inbound>>
  BY DEF Lapse, callee
<1>2. live' \in [External -> BOOLEAN] /\ \A e \in External : live'[e] => live[e]
  BY <1>1 DEF AuthInv, CallerInv, AuthTypeOK
<1>3. CallerInv'
  BY <1>1, <1>2, CallerUntouched DEF AuthInv, CallerInv, AuthTypeOK
<1>4. CalleeOK'
  BY <1>1, <1>2 DEF AuthInv, CalleeOK, OutsideOK, CachedOK, RequestOK, SoundAdmission
<1>5. QED
  BY <1>3, <1>4 DEF AuthInv

\* A tick: nobody is late, so nobody's time is over.
LEMMA PassKeeps ==
  ASSUME AuthInv, Pass
  PROVE  AuthInv'
<1>1. /\ time \in Nat /\ time' = time + 1 /\ time' \in Nat
      /\ lastLive' = [c \in External |-> IF live[c] THEN time + 1 ELSE lastLive[c]]
      /\ UNCHANGED <<held, flow, secrets, live, google, inbound>>
      /\ lastLive \in [External -> Nat]
  BY DEF Pass, outgoing, callee, AuthInv, CallerInv, AuthTypeOK
<1>2. lastLive' \in [External -> Nat]
  BY <1>1
<1>3. \A c \in External : lastLive[c] <= lastLive'[c] /\ lastLive'[c] <= time' /\ (live[c] => lastLive'[c] = time')
  BY <1>1 DEF AuthInv, CalleeOK, OutsideOK
<1>4. AuthTypeOK'
  BY <1>1, <1>2 DEF AuthInv, CallerInv, AuthTypeOK
<1>5. ASSUME NEW f \in Flows
      PROVE  FlowOK(flow[f])'
  <2>1. flow[f] \in Flights /\ FlowOK(flow[f])
    BY FlowFacts DEF AuthInv
  <2>2. /\ flow[f].at \in {"asking", "minted"} => time < flow[f].since + Delay
        /\ flow[f].at = "sent" => time < flow[f].since + Travel
    BY DEF Pass, InTime
  <2>3. QED
    BY <1>1, <2>1, <2>2, AuthTimes DEF FlowOK, Flights
<1>6. HeldOK'
  BY <1>1 DEF AuthInv, CallerInv, CallerOK, HeldOK
<1>7. ASSUME NEW r \in Inbound
      PROVE  RequestOK(inbound[r])'
  <2>1. /\ inbound[r].at \in {"asked", "read"} => inbound[r] \in LookUps
        /\ RequestOK(inbound[r])
    BY CalleeFacts
  <2>2. inbound[r].at \in {"asked", "read"} => time < inbound[r].since + Delay
    BY DEF Pass, InTime
  <2>3. CASE inbound[r].at \in {"asked", "read"}
    <3>1. /\ inbound[r].since \in Nat /\ inbound[r].cred \in External
          /\ inbound[r].since <= time /\ inbound[r].at # "decided"
      BY <2>1, <2>3 DEF RequestOK, LookUps
    <3>2. inbound[r].at = "read" /\ inbound[r].row => inbound[r].since <= lastLive'[inbound[r].cred]
      BY <1>1, <1>2, <1>3, <2>1, <3>1 DEF RequestOK
    <3>3. QED
      BY <1>1, <2>2, <3>1, <3>2, AuthTimes DEF RequestOK, SoundAdmission
  <2>4. CASE inbound[r].at \notin {"asked", "read"}
    BY <1>1, <2>1, <2>4 DEF RequestOK, SoundAdmission
  <2>5. QED
    BY <2>3, <2>4
<1>8. CachedOK'
  <2>1. "google" \in External
    BY DEF External
  <2>2. QED
    BY <1>1, <1>2, <1>3, <2>1, AuthTimes DEF AuthInv, CallerInv, AuthTypeOK, CalleeOK, CachedOK
<1>9. QED
  BY <1>1, <1>3, <1>4, <1>5, <1>6, <1>7, <1>8
     DEF AuthInv, CallerInv, CallerOK, CalleeOK, OutsideOK

LEMMA CalleeKeeps ==
  ASSUME AuthInv, CalleeNext
  PROVE  AuthInv'
<1>1. ASSUME NEW c \in External, Lapse(c)
      PROVE  AuthInv'
  BY <1>1, LapseKeeps
<1>2. ASSUME NEW r \in Inbound, NEW p \in Paths, NEW s \in BOOLEAN, NEW c \in {"none"} \cup External,
             Dispatch(r, p, s, c)
      PROVE  AuthInv'
  BY <1>2, DispatchKeeps
<1>3. ASSUME NEW r \in Inbound, LookUp(r) \/ Answered(r) \/ LookUpFails(r)
      PROVE  AuthInv'
  BY <1>3, LookUpKeeps, AnsweredKeeps, LookUpFailsKeeps
<1>4. QED
  BY <1>1, <1>2, <1>3 DEF CalleeNext

------------------------------------------------------------------------------
LEMMA AuthInitHolds == AuthInit => AuthInv
<1> SUFFICES ASSUME AuthInit PROVE AuthInv
  OBVIOUS
<1>1. /\ time = 1 /\ held = [exp |-> 0, until |-> 0] /\ flow = [f \in Flows |-> NoFlow]
      /\ live = [c \in External |-> TRUE] /\ lastLive = [c \in External |-> 1]
      /\ google = 0 /\ inbound = [r \in Inbound |-> NoRequest]
      /\ secrets \subseteq {"trigger", "delegation"}
  BY DEF AuthInit
<1>2. NoRequest \in LookUps /\ RequestOK(NoRequest)
  BY DEF NoRequest, LookUps, RequestOK, SoundAdmission
<1>3. AuthTypeOK
  BY <1>1, <1>2, IdleFlow DEF AuthTypeOK
<1>4. CallerOK
  BY <1>1, IdleFlow DEF CallerOK, HeldOK
<1>5. CalleeOK
  BY <1>1, <1>2 DEF CalleeOK, OutsideOK, CachedOK
<1>6. QED
  BY <1>3, <1>4, <1>5 DEF AuthInv, CallerInv

LEMMA AuthStepKeeps == AuthInv /\ [AuthNext]_authVars => AuthInv'
<1>1. ASSUME AuthInv, Pass PROVE AuthInv'
  BY <1>1, PassKeeps
<1>2. ASSUME AuthInv, CallerNext PROVE AuthInv'
  BY <1>2, CallerKeeps
<1>3. ASSUME AuthInv, CalleeNext PROVE AuthInv'
  BY <1>3, CalleeKeeps
<1>4. ASSUME AuthInv, UNCHANGED authVars PROVE AuthInv'
  <2>1. UNCHANGED <<time, held, flow, secrets, live, lastLive, google, inbound>>
    BY <1>4 DEF authVars, outgoing, outside, callee
  <2>2. QED
    BY <1>4, <2>1 DEF AuthInv, CallerInv, AuthTypeOK, CallerOK, HeldOK, FlowOK, CalleeOK,
                      OutsideOK, CachedOK, RequestOK, SoundAdmission
<1>5. QED
  BY <1>1, <1>2, <1>3, <1>4 DEF AuthNext

THEOREM AuthInvariance == AuthSpec => []AuthInv
BY AuthInitHolds, AuthStepKeeps, PTL DEF AuthSpec

\* The caller's and the callee's state has its type.
THEOREM AuthTypeCorrect == AuthSpec => []AuthTypeOK
<1>1. AuthInv => AuthTypeOK
  BY DEF AuthInv, CallerInv
<1>2. QED
  BY <1>1, AuthInvariance, PTL

\* No call is refused for its token, in whatever order racing flows refresh it:
\* 30 seconds of _is_expired outlast the token's request and the call.
THEOREM TokensOutlastCalls == AuthSpec => []CallsAreNotRefused
<1>1. AuthInv => CallsAreNotRefused
  BY DEF AuthInv, CallerInv, CallerOK, FlowOK, CallsAreNotRefused
<1>2. QED
  BY <1>1, AuthInvariance, PTL

\* ApiKeyMiddleware admits on an outside party's word only while that word is
\* younger than an answer's delay and, for a Google token, the cache's lifetime.
THEOREM AdmissionsAreRecent == AuthSpec => []AdmittedWasLive
<1>1. AuthInv => AdmittedWasLive
  BY DEF AuthInv, CalleeOK, RequestOK, SoundAdmission, AdmittedWasLive
<1>2. QED
  BY <1>1, AuthInvariance, PTL

------------------------------------------------------------------------------
(* PushNotifications.  A push is refused in the life that sent its call    *)
(* only if the token is missing, so the invariant says that whatever has   *)
(* left for the peer has its token registered, for as long as the life     *)
(* that sent it.                                                           *)

Sends == [at : {"idle", "resolving", "sent", "over"}, life : 0..MaxLives]
Refusals == [push : Pushes, life : 1..MaxLives]

\* The call of t has left this process.
HasLeft(t) ==
  \/ t \in requests
  \/ peer[t] # 0
  \/ \E push \in posted : push.task = t
  \/ \E r \in refused : r.push.task = t

LeftWhenSent ==
  \A t \in Tasks : sending[t].at \in {"idle", "resolving"} => ~HasLeft(t)

TokenFirst ==
  \A t \in Tasks : HasLeft(t) /\ sending[t].life = life => t \in expected

NoFutureLife == \A t \in Tasks : sending[t].life <= life

PushInv == PushTypeOK /\ LeftWhenSent /\ TokenFirst /\ NoFutureLife /\ PushIsAccepted

------------------------------------------------------------------------------
\* What EXCEPT does to the record of one call.
LEMMA MovesKeepsLife ==
  ASSUME PushTypeOK, NEW t \in Tasks,
         NEW step \in {"idle", "resolving", "sent", "over"}, Moves(t, step)
  PROVE  /\ sending' \in [Tasks -> Sends]
         /\ \A u \in Tasks : sending'[u].life = sending[u].life
         /\ \A u \in Tasks : u # t => sending'[u] = sending[u]
         /\ sending'[t].at = step
<1>1. sending \in [Tasks -> Sends]
  BY DEF PushTypeOK, Sends
<1>2. sending' = [sending EXCEPT ![t] = [sending[t] EXCEPT !.at = step]]
  BY DEF Moves
<1>3. sending[t] \in Sends
  BY <1>1
<1>4. /\ [sending[t] EXCEPT !.at = step] \in Sends
      /\ [sending[t] EXCEPT !.at = step].at = step
      /\ [sending[t] EXCEPT !.at = step].life = sending[t].life
  BY <1>3 DEF Sends
<1>5. QED
  BY <1>1, <1>2, <1>4

\* The rows of a call are a sequence of statuses.
LEMMA LogsType ==
  ASSUME PushTypeOK, NEW t \in Tasks,
         NEW status, Logs(t, status)
  PROVE  logged' \in [Tasks -> Seq(Statuses)]
<1>1. logged \in [Tasks -> Seq(Statuses)]
  BY DEF PushTypeOK
<1>2. status \in Statuses => Append(logged[t], status) \in Seq(Statuses)
  BY <1>1
<1>3. AfterLogging(logged[t], status) \subseteq Seq(Statuses)
  BY <1>1, <1>2 DEF AfterLogging
<1>4. QED
  BY <1>1, <1>3 DEF Logs

\* The type of everything a step leaves alone.
LEMMA PushTypeFrom ==
  ASSUME PushTypeOK, life' \in 1..MaxLives, sending' \in [Tasks -> Sends],
         logged' \in [Tasks -> Seq(Statuses)],
         requests' \subseteq Tasks, peer' \in [Tasks -> 0..MaxStates + 1],
         posted' \subseteq Pushes, reading' \subseteq Pushes, expected' \subseteq Tasks,
         inbox' \in [Tasks -> Seq(1..MaxStates)], refused' \subseteq Refusals
  PROVE  PushTypeOK'
BY Zenon DEF PushTypeOK, Sends, Refusals

\* The types of the state, with the sets of records by their names.
LEMMA PushTypeParts ==
  ASSUME PushTypeOK
  PROVE  /\ life \in 1..MaxLives /\ sending \in [Tasks -> Sends]
         /\ logged \in [Tasks -> Seq(Statuses)]
         /\ requests \subseteq Tasks /\ peer \in [Tasks -> 0..MaxStates + 1]
         /\ posted \subseteq Pushes /\ reading \subseteq Pushes /\ expected \subseteq Tasks
         /\ inbox \in [Tasks -> Seq(1..MaxStates)] /\ refused \subseteq Refusals
BY Zenon DEF PushTypeOK, Sends, Refusals

\* Steps after which no call has newly left: tokens stay, and so does the life,
\* which calls have only moved on or been made.
LEMMA NothingLeaves ==
  ASSUME PushInv, UNCHANGED <<life, expected, refused>>, PushTypeOK',
         \A t \in Tasks : HasLeft(t)' => HasLeft(t),
         \A t \in Tasks :
            sending'[t].at \in {"idle", "resolving"} => sending[t].at \in {"idle", "resolving"},
         \A t \in Tasks : \/ sending'[t].life = sending[t].life
                          \/ sending[t].at = "idle" /\ sending'[t].life = life
  PROVE  PushInv'
<1>1. LeftWhenSent'
  BY DEF PushInv, LeftWhenSent
<1>2. TokenFirst'
  BY DEF PushInv, TokenFirst, LeftWhenSent
<1>3. NoFutureLife'
  <2>1. life \in Nat
    BY PushTypeParts, PushBoundsAreNat DEF PushInv
  <2>2. QED
    BY <2>1 DEF PushInv, NoFutureLife
<1>4. PushIsAccepted'
  <2>1. ASSUME NEW r \in refused
        PROVE  sending'[r.push.task].life # r.life
    <3>1. r.push.task \in Tasks
      BY PushTypeParts DEF PushInv, Refusals, Pushes
    <3>2. HasLeft(r.push.task)
      BY DEF HasLeft
    <3>3. sending[r.push.task].at # "idle"
      BY <3>1, <3>2 DEF PushInv, LeftWhenSent
    <3>4. QED
      BY <3>1, <3>3 DEF PushInv, PushIsAccepted
  <2>2. QED
    BY <2>1 DEF PushIsAccepted
<1>5. QED
  BY <1>1, <1>2, <1>3, <1>4 DEF PushInv

------------------------------------------------------------------------------
(* The steps of the tool's call.                                           *)

LEMMA DelegateKeeps ==
  ASSUME PushInv, NEW t \in Tasks, Delegate(t)
  PROVE  PushInv'
<1>1. PushTypeOK
  BY DEF PushInv
<1>2. /\ sending \in [Tasks -> Sends] /\ life \in 1..MaxLives /\ sending[t].at = "idle"
      /\ sending' = [sending EXCEPT ![t] = [at |-> "resolving", life |-> life]]
      /\ UNCHANGED <<life, requests, peer, posted, reading, expected, inbox, refused>>
  BY <1>1, PushTypeParts DEF Delegate
<1>3. [at |-> "resolving", life |-> life] \in Sends
  BY <1>2, PushBoundsAreNat DEF Sends
<1>4. sending' \in [Tasks -> Sends]
  BY <1>2, <1>3
<1>5. logged' \in [Tasks -> Seq(Statuses)]
  BY <1>1, LogsType DEF Delegate
<1>6. PushTypeOK'
  BY <1>1, <1>2, <1>4, <1>5, PushTypeParts, PushTypeFrom
<1>7. \A u \in Tasks :
        /\ sending'[u].at \in {"idle", "resolving"} => sending[u].at \in {"idle", "resolving"}
        /\ \/ sending'[u].life = sending[u].life
           \/ sending[u].at = "idle" /\ sending'[u].life = life
  BY <1>2
<1>8. \A u \in Tasks : HasLeft(u)' => HasLeft(u)
  BY <1>2 DEF HasLeft
<1>9. QED
  BY <1>2, <1>6, <1>7, <1>8, NothingLeaves

LEMMA SendCallKeeps ==
  ASSUME PushInv, NEW t \in Tasks, SendCall(t)
  PROVE  PushInv'
<1>1. PushTypeOK
  BY DEF PushInv
<1>2. /\ sending' \in [Tasks -> Sends]
      /\ \A u \in Tasks : sending'[u].life = sending[u].life
      /\ \A u \in Tasks : u # t => sending'[u] = sending[u]
      /\ sending'[t].at = "sent"
  BY <1>1, MovesKeepsLife DEF SendCall
<1>3. /\ expected' = expected \cup {t} /\ requests' = requests \cup {t}
      /\ UNCHANGED <<life, logged, peer, posted, reading, inbox, refused>>
  BY DEF SendCall
<1>4. PushTypeOK'
  BY <1>1, <1>2, <1>3, PushTypeParts, PushTypeFrom
<1>5. \A u \in Tasks : u # t => (HasLeft(u)' <=> HasLeft(u))
  BY <1>3 DEF HasLeft
<1>6. LeftWhenSent'
  BY <1>2, <1>5 DEF PushInv, LeftWhenSent
<1>7. TokenFirst'
  BY <1>2, <1>3, <1>5 DEF PushInv, TokenFirst
<1>8. NoFutureLife'
  BY <1>2, <1>3 DEF PushInv, NoFutureLife
<1>9. PushIsAccepted'
  <2>1. \A r \in refused : r.push.task \in Tasks
    BY <1>1, PushTypeParts DEF Refusals, Pushes
  <2>2. QED
    BY <1>2, <1>3, <2>1 DEF PushInv, PushIsAccepted
<1>10. QED
  BY <1>4, <1>6, <1>7, <1>8, <1>9 DEF PushInv

\* The call is over, whichever way.
LEMMA CallEndsKeeps ==
  ASSUME PushInv, NEW t \in Tasks, Submitted(t) \/ SendFails(t) \/ Cancelled(t)
  PROVE  PushInv'
<1>1. PushTypeOK
  BY DEF PushInv
<1>2. /\ Moves(t, "over")
      /\ UNCHANGED <<life, requests, peer, posted, reading, expected, inbox, refused>>
  BY DEF Submitted, SendFails, Cancelled
<1>3. /\ sending' \in [Tasks -> Sends]
      /\ \A u \in Tasks : sending'[u].life = sending[u].life
      /\ \A u \in Tasks : u # t => sending'[u] = sending[u]
      /\ sending'[t].at = "over"
  BY <1>1, <1>2, MovesKeepsLife
<1>4. logged' \in [Tasks -> Seq(Statuses)]
  BY <1>1, LogsType DEF Submitted, SendFails, Cancelled
<1>5. PushTypeOK'
  BY <1>1, <1>2, <1>3, <1>4, PushTypeParts, PushTypeFrom
<1>6. \A u \in Tasks : HasLeft(u)' => HasLeft(u)
  BY <1>2 DEF HasLeft
<1>7. \A u \in Tasks :
        sending'[u].at \in {"idle", "resolving"} => sending[u].at \in {"idle", "resolving"}
  BY <1>3
<1>8. QED
  BY <1>2, <1>3, <1>5, <1>6, <1>7, NothingLeaves

------------------------------------------------------------------------------
(* The peer and the receiver.                                              *)

\* A step that moves what has left along, and leaves the tool's calls alone.
LEMMA PeerKeeps ==
  ASSUME PushInv, NEW t \in Tasks, PeerReceives(t) \/ PeerPosts(t)
  PROVE  PushInv'
<1>1. PushTypeOK
  BY DEF PushInv
<1>2. /\ UNCHANGED <<life, sending, logged, reading, expected, inbox, refused>>
      /\ peer \in [Tasks -> 0..MaxStates + 1]
  BY <1>1, PushTypeParts DEF PeerReceives, PeerPosts
<1>3. MaxStates \in Nat
  BY PushBoundsAreNat
<1>4. peer' \in [Tasks -> 0..MaxStates + 1] /\ requests' \subseteq Tasks /\ posted' \subseteq Pushes
  <2>1. CASE PeerReceives(t)
    BY <1>1, <1>2, <1>3, <2>1, PushTypeParts DEF PeerReceives
  <2>2. CASE PeerPosts(t)
    <3>1. /\ peer[t] \in 1..MaxStates /\ requests' = requests
          /\ posted' = posted \cup {[task |-> t, state |-> peer[t]]}
          /\ peer' = [peer EXCEPT ![t] = peer[t] + 1]
      BY <2>2 DEF PeerPosts
    <3>2. [task |-> t, state |-> peer[t]] \in Pushes
      BY <3>1 DEF Pushes
    <3>3. peer[t] + 1 \in 0..MaxStates + 1
      BY <1>3, <3>1
    <3>4. QED
      BY <1>1, <1>2, <3>1, <3>2, <3>3, PushTypeParts
  <2>3. QED
    BY <2>1, <2>2
<1>5. PushTypeOK'
  BY <1>1, <1>2, <1>4, PushTypeParts, PushTypeFrom
<1>6. \A u \in Tasks : HasLeft(u)' => HasLeft(u)
  <2>1. CASE PeerReceives(t)
    BY <1>2, <2>1 DEF PeerReceives, HasLeft
  <2>2. CASE PeerPosts(t)
    <3>1. peer[t] # 0
      BY <2>2, <1>3 DEF PeerPosts
    <3>2. \A push \in posted' : push \in posted \/ push.task = t
      BY <2>2 DEF PeerPosts
    <3>3. \A u \in Tasks : u # t => peer'[u] = peer[u]
      BY <1>2, <2>2 DEF PeerPosts
    <3>4. requests' = requests
      BY <2>2 DEF PeerPosts
    <3>5. QED
      BY <1>2, <3>1, <3>2, <3>3, <3>4 DEF HasLeft
  <2>3. QED
    BY <2>1, <2>2
<1>7. QED
  BY <1>2, <1>5, <1>6, NothingLeaves

LEMMA ReceiveKeeps ==
  ASSUME PushInv, NEW push \in posted, Receive(push)
  PROVE  PushInv'
<1>1. PushTypeOK /\ push \in Pushes /\ push.task \in Tasks /\ life \in 1..MaxLives
  BY PushTypeParts DEF PushInv, Pushes
<1>2. /\ posted' = posted \ {push}
      /\ UNCHANGED <<life, sending, logged, requests, peer, expected, inbox>>
  BY DEF Receive
<1>3. CASE Accepts(push)
  <2>1. reading' = reading \cup {push} /\ refused' = refused
    BY <1>3 DEF Receive
  <2>2. PushTypeOK'
    BY <1>1, <1>2, <2>1, PushTypeParts, PushTypeFrom
  <2>3. \A u \in Tasks : HasLeft(u)' => HasLeft(u)
    BY <1>2, <2>1 DEF HasLeft
  <2>4. QED
    BY <1>2, <2>1, <2>2, <2>3, NothingLeaves
<1>4. CASE ~Accepts(push)
  <2> DEFINE new == [push |-> push, life |-> life]
  <2>1. refused' = refused \cup {new} /\ reading' = reading
    BY <1>4 DEF Receive
  <2>2. new \in Refusals /\ new.push.task = push.task /\ new.life = life
    BY <1>1 DEF Refusals
  <2>3. PushTypeOK'
    BY <1>1, <1>2, <2>1, <2>2, PushTypeParts, PushTypeFrom
  <2>4. HasLeft(push.task)
    BY DEF HasLeft
  <2>5. \A u \in Tasks : HasLeft(u)' => HasLeft(u)
    <3>1. \A r \in refused' : r \in refused \/ r.push.task = push.task
      BY <2>1, <2>2
    <3>2. QED
      BY <1>2, <2>4, <3>1 DEF HasLeft
  <2>6. sending[push.task].life # life
    BY <1>1, <1>4, <2>4 DEF Accepts, PushInv, TokenFirst
  <2>7. LeftWhenSent' /\ TokenFirst' /\ NoFutureLife'
    BY <1>2, <2>5 DEF PushInv, LeftWhenSent, TokenFirst, NoFutureLife
  <2>8. PushIsAccepted'
    BY <1>2, <2>1, <2>2, <2>6 DEF PushInv, PushIsAccepted
  <2>9. QED
    BY <2>3, <2>7, <2>8 DEF PushInv
<1>5. QED
  BY <1>3, <1>4

\* The body of an accepted push is read, or is none.
LEMMA ReadingKeeps ==
  ASSUME PushInv, NEW push \in reading, File(push) \/ Unreadable(push)
  PROVE  PushInv'
<1>1. PushTypeOK /\ push.task \in Tasks /\ push.state \in 1..MaxStates
  BY PushTypeParts DEF PushInv, Pushes
<1>2. /\ reading' = reading \ {push}
      /\ UNCHANGED <<life, sending, logged, requests, peer, posted, expected, refused>>
  BY DEF File, Unreadable
<1>3. inbox \in [Tasks -> Seq(1..MaxStates)]
  BY <1>1, PushTypeParts
<1>4. Append(inbox[push.task], push.state) \in Seq(1..MaxStates)
  BY <1>1, <1>3
<1>5. inbox' \in [Tasks -> Seq(1..MaxStates)]
  BY <1>3, <1>4 DEF File, Unreadable
<1>6. PushTypeOK'
  BY <1>1, <1>2, <1>5, PushTypeParts, PushTypeFrom
<1>7. \A u \in Tasks : HasLeft(u)' => HasLeft(u)
  BY <1>2 DEF HasLeft
<1>8. QED
  BY <1>2, <1>6, <1>7, NothingLeaves

\* A restart forgets the tokens, and every call is of an earlier life.
LEMMA RestartKeeps ==
  ASSUME PushInv, Restart
  PROVE  PushInv'
<1>1. PushTypeOK /\ life \in 1..MaxLives /\ MaxLives \in Nat /\ life < MaxLives
  BY PushTypeParts, PushBoundsAreNat DEF PushInv, Restart
<1>2. /\ life' = life + 1 /\ expected' = {} /\ reading' = {}
      /\ UNCHANGED <<logged, requests, peer, posted, refused>>
  BY DEF Restart
<1>3. ASSUME NEW t \in Tasks
      PROVE  /\ sending'[t] \in Sends
             /\ sending'[t].life = sending[t].life
             /\ sending'[t].at \in {"idle", "resolving"} => sending[t].at \in {"idle", "resolving"}
             /\ sending[t].life \in Nat /\ sending[t].life <= life
  <2>1. sending[t] \in Sends
    BY <1>1, PushTypeParts
  <2>2. sending'[t] = IF sending[t].at = "idle" THEN sending[t] ELSE [sending[t] EXCEPT !.at = "over"]
    BY DEF Restart
  <2>3. /\ [sending[t] EXCEPT !.at = "over"] \in Sends
        /\ [sending[t] EXCEPT !.at = "over"].at = "over"
        /\ [sending[t] EXCEPT !.at = "over"].life = sending[t].life
    BY <2>1 DEF Sends
  <2>4. sending[t].life \in Nat /\ sending[t].life <= life
    BY <2>1, <1>1 DEF Sends, PushInv, NoFutureLife
  <2>5. CASE sending[t].at = "idle"
    BY <2>1, <2>2, <2>4, <2>5
  <2>6. CASE sending[t].at # "idle"
    BY <2>2, <2>3, <2>4, <2>6
  <2>7. QED
    BY <2>5, <2>6
<1>4. sending' \in [Tasks -> Sends]
  <2>1. sending' = [t \in Tasks |-> sending'[t]]
    BY DEF Restart
  <2>2. QED
    BY <1>3, <2>1
<1>5. inbox' \in [Tasks -> Seq(1..MaxStates)]
  <2>1. << >> \in Seq(1..MaxStates)
    OBVIOUS
  <2>2. QED
    BY <2>1 DEF Restart
<1>6. life' \in 1..MaxLives
  BY <1>1, <1>2
<1>7. PushTypeOK'
  BY <1>1, <1>2, <1>4, <1>5, <1>6, PushTypeParts, PushTypeFrom
<1>8. \A t \in Tasks : HasLeft(t)' => HasLeft(t)
  BY <1>2 DEF HasLeft
<1>9. LeftWhenSent'
  BY <1>3, <1>8 DEF PushInv, LeftWhenSent
<1>10. TokenFirst' /\ NoFutureLife'
  BY <1>1, <1>2, <1>3 DEF TokenFirst, NoFutureLife
<1>11. PushIsAccepted'
  <2>1. \A r \in refused : r.push.task \in Tasks
    BY <1>1, PushTypeParts DEF Refusals, Pushes
  <2>2. QED
    BY <1>2, <1>3, <2>1 DEF PushInv, PushIsAccepted
<1>12. QED
  BY <1>7, <1>9, <1>10, <1>11 DEF PushInv

------------------------------------------------------------------------------
LEMMA PushInitHolds == PushInit => PushInv
<1> SUFFICES ASSUME PushInit PROVE PushInv
  OBVIOUS
<1>1. 1 \in 1..MaxLives /\ 0 \in 0..MaxLives /\ 0 \in 0..MaxStates + 1
  BY PushBoundsAreNat
<1>2. \A t \in Tasks : sending[t].at = "idle" /\ sending[t].life = 0 /\ peer[t] = 0
  BY DEF PushInit
<1>3. PushTypeOK
  <2>1. sending \in [Tasks -> Sends]
    BY <1>1 DEF PushInit, Sends
  <2>2. << >> \in Seq(Statuses) /\ << >> \in Seq(1..MaxStates)
    OBVIOUS
  <2>3. /\ logged \in [Tasks -> Seq(Statuses)]
        /\ inbox \in [Tasks -> Seq(1..MaxStates)]
        /\ peer \in [Tasks -> 0..MaxStates + 1]
    BY <1>1, <2>2 DEF PushInit
  <2>4. QED
    BY <1>1, <2>1, <2>3 DEF PushInit, PushTypeOK, Sends
<1>4. \A t \in Tasks : ~HasLeft(t)
  BY <1>2 DEF PushInit, HasLeft
<1>5. LeftWhenSent /\ TokenFirst /\ NoFutureLife
  BY <1>2, <1>4 DEF PushInit, LeftWhenSent, TokenFirst, NoFutureLife
<1>6. PushIsAccepted
  BY DEF PushInit, PushIsAccepted
<1>7. QED
  BY <1>3, <1>5, <1>6 DEF PushInv

LEMMA PushStepKeeps == PushInv /\ [PushNext]_pushVars => PushInv'
<1> SUFFICES ASSUME PushInv, [PushNext]_pushVars PROVE PushInv'
  OBVIOUS
<1>1. ASSUME NEW t \in Tasks,
             \/ Delegate(t) \/ SendCall(t) \/ Submitted(t) \/ SendFails(t) \/ Cancelled(t)
             \/ PeerReceives(t) \/ PeerPosts(t)
      PROVE  PushInv'
  BY <1>1, DelegateKeeps, SendCallKeeps, CallEndsKeeps, PeerKeeps
<1>2. ASSUME NEW push \in posted, Receive(push) PROVE PushInv'
  BY <1>2, ReceiveKeeps
<1>3. ASSUME NEW push \in reading, File(push) \/ Unreadable(push) PROVE PushInv'
  BY <1>3, ReadingKeeps
<1>4. CASE Restart
  BY <1>4, RestartKeeps
<1>5. CASE UNCHANGED pushVars
  <2>1. PushTypeOK'
    BY <1>5 DEF pushVars, PushInv, PushTypeOK
  <2>2. LeftWhenSent' /\ TokenFirst' /\ NoFutureLife' /\ PushIsAccepted'
    BY <1>5 DEF pushVars, PushInv, LeftWhenSent, TokenFirst, HasLeft, NoFutureLife, PushIsAccepted
  <2>3. QED
    BY <2>1, <2>2 DEF PushInv
<1>6. QED
  BY <1>1, <1>2, <1>3, <1>4, <1>5 DEF PushNext

\* The inductive invariant holds in every reachable state.
THEOREM TokenInvariance == PushSpec => []PushInv
BY PushInitHolds, PushStepKeeps, PTL DEF PushSpec

\* Every variable of the push notifications has its type.
THEOREM PushTypeCorrect == PushSpec => []PushTypeOK
<1>1. PushInv => PushTypeOK
  BY DEF PushInv
<1>2. QED
  BY <1>1, TokenInvariance, PTL

\* The handler refuses no push of a call that its own process sent: client.py
\* registers the token before the request goes out, and no token is forgotten.
THEOREM PushesAreAccepted == PushSpec => []PushIsAccepted
<1>1. PushInv => PushIsAccepted
  BY DEF PushInv
<1>2. QED
  BY <1>1, TokenInvariance, PTL

------------------------------------------------------------------------------
(* Submission.  The inductive invariant adds to the property that an       *)
(* answer 202 is behind the job, and that rows other than the first are    *)
(* written only once the tool's call is over.                              *)

\* An answer 202 is only on its way when the target has the job.
AnswersAreTrue == \A j \in Jobs : post[j] = "202" => j \in accepted

\* Until the call is over its rows, if any, say dispatching.
OnlyDispatching ==
  \A j \in Jobs : submitting[j] # "over" =>
    \A i \in DOMAIN rows[j] : rows[j][i] = "dispatching"

SubmissionInv == SubmissionTypeOK /\ AnswersAreTrue /\ OnlyDispatching /\ CompletedIsAccepted

------------------------------------------------------------------------------
LEMMA SubmissionInitHolds == SubmissionInit => SubmissionInv
<1> SUFFICES ASSUME SubmissionInit
             PROVE  SubmissionInv
  OBVIOUS
<1>1. \A j \in Jobs : rows[j] = << >> /\ DOMAIN rows[j] = {} /\ post[j] = "none"
  BY DEF SubmissionInit
<1>2. << >> \in Seq(Statuses)
  OBVIOUS
<1>3. SubmissionTypeOK
  BY <1>2 DEF SubmissionInit, SubmissionTypeOK
<1>4. QED
  BY <1>1, <1>3 DEF SubmissionInv, AnswersAreTrue, OnlyDispatching, CompletedIsAccepted

\* The elements of a sequence with one more at its end.
LEMMA AppendedRows ==
  ASSUME NEW seq \in Seq(Statuses), NEW status \in Statuses,
         NEW i \in DOMAIN Append(seq, status)
  PROVE  \/ i \in DOMAIN seq /\ Append(seq, status)[i] = seq[i]
         \/ i = Len(seq) + 1 /\ Append(seq, status)[i] = status
<1>1. /\ Len(seq) \in Nat /\ DOMAIN seq = 1..Len(seq)
      /\ DOMAIN Append(seq, status) = 1..(Len(seq) + 1)
  OBVIOUS
<1>2. Append(seq, status)[i] = IF i <= Len(seq) THEN seq[i] ELSE status
  BY <1>1
<1>3. CASE i <= Len(seq)
  BY <1>1, <1>2, <1>3
<1>4. CASE i = Len(seq) + 1
  BY <1>1, <1>2, <1>4
<1>5. QED
  BY <1>1, <1>3, <1>4

\* What a row adds: the rows stay, or one of that status follows them.
LEMMA WritesOne ==
  ASSUME SubmissionTypeOK, NEW j \in Jobs, NEW status \in Statuses, Writes(j, status)
  PROVE  /\ rows' \in [Jobs -> Seq(Statuses)]
         /\ \A h \in Jobs : h # j => rows'[h] = rows[h]
         /\ \/ rows'[j] = rows[j]
            \/ rows'[j] = Append(rows[j], status)
<1>1. rows \in [Jobs -> Seq(Statuses)]
  BY DEF SubmissionTypeOK
<1>2. PICK r \in AfterLogging(rows[j], status) : rows' = [rows EXCEPT ![j] = r]
  BY DEF Writes
<1>3. r = rows[j] \/ r = Append(rows[j], status)
  BY <1>2 DEF AfterLogging
<1>4. r \in Seq(Statuses)
  BY <1>1, <1>3
<1>5. QED
  BY <1>1, <1>2, <1>3, <1>4

\* A step that writes no row and leaves the target what it has.
LEMMA QuietStep ==
  ASSUME SubmissionInv, SubmissionTypeOK', UNCHANGED rows, accepted \subseteq accepted',
         AnswersAreTrue',
         \A j \in Jobs : submitting'[j] # "over" => submitting[j] # "over"
  PROVE  SubmissionInv'
BY DEF SubmissionInv, OnlyDispatching, CompletedIsAccepted

LEMMA DelegateWorkKeeps ==
  ASSUME SubmissionInv, NEW j \in Jobs, DelegateWork(j)
  PROVE  SubmissionInv'
<1>1. /\ SubmissionTypeOK /\ UNCHANGED <<post, working, accepted>>
      /\ submitting[j] = "idle" /\ submitting' = [submitting EXCEPT ![j] = "resolving"]
      /\ "dispatching" \in Statuses /\ Writes(j, "dispatching")
  BY DEF SubmissionInv, DelegateWork, Steps, Statuses
<1>2. /\ rows' \in [Jobs -> Seq(Statuses)]
      /\ \A h \in Jobs : h # j => rows'[h] = rows[h]
      /\ \/ rows'[j] = rows[j]
         \/ rows'[j] = Append(rows[j], "dispatching")
  BY <1>1, WritesOne
<1>3. SubmissionTypeOK'
  BY <1>1, <1>2 DEF SubmissionTypeOK
<1>4. \A i \in DOMAIN rows'[j] : rows'[j][i] = "dispatching"
  <2>1. rows[j] \in Seq(Statuses) /\ \A i \in DOMAIN rows[j] : rows[j][i] = "dispatching"
    BY <1>1 DEF SubmissionInv, OnlyDispatching, SubmissionTypeOK
  <2>2. CASE rows'[j] = rows[j]
    BY <2>1, <2>2
  <2>3. CASE rows'[j] = Append(rows[j], "dispatching")
    BY <1>1, <2>1, <2>3, AppendedRows
  <2>4. QED
    BY <1>2, <2>2, <2>3
<1>5. OnlyDispatching'
  BY <1>1, <1>2, <1>4 DEF SubmissionInv, OnlyDispatching, SubmissionTypeOK
<1>6. CompletedIsAccepted'
  BY <1>1, <1>2, <1>4 DEF SubmissionInv, CompletedIsAccepted
<1>7. QED
  BY <1>1, <1>3, <1>5, <1>6 DEF SubmissionInv, AnswersAreTrue

\* The row that closes a call: completed only when the target has the job.
LEMMA ClosingKeeps ==
  ASSUME SubmissionInv, NEW j \in Jobs, NEW status \in {"completed", "error"},
         status = "completed" => j \in accepted,
         submitting[j] \in {"resolving", "posting"},
         submitting' = [submitting EXCEPT ![j] = "over"],
         Writes(j, status), UNCHANGED <<post, working, accepted>>
  PROVE  SubmissionInv'
<1>1. SubmissionTypeOK /\ status \in Statuses
  BY DEF SubmissionInv, Statuses
<1>2. /\ rows' \in [Jobs -> Seq(Statuses)]
      /\ \A h \in Jobs : h # j => rows'[h] = rows[h]
      /\ \/ rows'[j] = rows[j]
         \/ rows'[j] = Append(rows[j], status)
  BY <1>1, WritesOne
<1>3. SubmissionTypeOK'
  BY <1>1, <1>2 DEF SubmissionTypeOK
<1>4. rows[j] \in Seq(Statuses) /\ \A i \in DOMAIN rows[j] : rows[j][i] = "dispatching"
  BY <1>1 DEF SubmissionInv, OnlyDispatching, SubmissionTypeOK
<1>5. \A i \in DOMAIN rows'[j] :
         rows'[j][i] = "dispatching" \/ (i = Len(rows[j]) + 1 /\ rows'[j][i] = status)
  <2>1. CASE rows'[j] = rows[j]
    BY <1>4, <2>1
  <2>2. CASE rows'[j] = Append(rows[j], status)
    BY <1>1, <1>4, <2>2, AppendedRows
  <2>3. QED
    BY <1>2, <2>1, <2>2
<1>6. OnlyDispatching'
  BY <1>1, <1>2 DEF SubmissionInv, OnlyDispatching, SubmissionTypeOK
<1>7. CompletedIsAccepted'
  BY <1>2, <1>5 DEF SubmissionInv, CompletedIsAccepted
<1>8. QED
  BY <1>3, <1>6, <1>7 DEF SubmissionInv, AnswersAreTrue

LEMMA AcceptJobKeeps ==
  ASSUME SubmissionInv, NEW j \in Jobs, AcceptJob(j)
  PROVE  SubmissionInv'
<1>1. PICK answer \in {"202", "5xx"}, taken \in BOOLEAN :
        /\ answer = "202" => working /\ taken
        /\ post' = [post EXCEPT ![j] = answer]
        /\ accepted' = IF taken THEN accepted \cup {j} ELSE accepted
  BY DEF AcceptJob
<1>2. UNCHANGED <<submitting, rows, working>>
  BY DEF AcceptJob
<1>3. SubmissionTypeOK'
  BY <1>1, <1>2 DEF SubmissionInv, SubmissionTypeOK
<1>4. AnswersAreTrue'
  BY <1>1 DEF SubmissionInv, SubmissionTypeOK, AnswersAreTrue
<1>5. QED
  BY <1>1, <1>2, <1>3, <1>4, QuietStep

LEMMA PostJobKeeps ==
  ASSUME SubmissionInv, NEW j \in Jobs, PostJob(j)
  PROVE  SubmissionInv'
<1>1. /\ submitting[j] = "resolving" /\ submitting' = [submitting EXCEPT ![j] = "posting"]
      /\ post' = [post EXCEPT ![j] = "sent"] /\ UNCHANGED <<rows, working, accepted>>
  BY DEF PostJob, Steps
<1>2. SubmissionTypeOK'
  BY <1>1 DEF SubmissionInv, SubmissionTypeOK
<1>3. AnswersAreTrue'
  BY <1>1 DEF SubmissionInv, SubmissionTypeOK, AnswersAreTrue
<1>4. QED
  BY <1>1, <1>2, <1>3, QuietStep DEF SubmissionInv, SubmissionTypeOK

LEMMA SubmissionStepKeeps == SubmissionInv /\ [SubmissionNext]_submissionVars => SubmissionInv'
<1> SUFFICES ASSUME SubmissionInv, [SubmissionNext]_submissionVars
             PROVE  SubmissionInv'
  OBVIOUS
<1>1. ASSUME NEW j \in Jobs, SubmissionAnswered(j) PROVE SubmissionInv'
  <2> DEFINE status == IF post[j] = "202" THEN "completed" ELSE "error"
  <2>1. status \in {"completed", "error"} /\ (status = "completed" => j \in accepted)
    BY DEF SubmissionInv, AnswersAreTrue
  <2>2. /\ submitting[j] = "posting" /\ submitting' = [submitting EXCEPT ![j] = "over"]
        /\ Writes(j, status) /\ UNCHANGED <<post, working, accepted>>
    BY <1>1 DEF SubmissionAnswered, Steps
  <2> HIDE DEF status
  <2>3. QED
    BY <2>1, <2>2, ClosingKeeps
<1>2. ASSUME NEW j \in Jobs, SubmissionFails(j) PROVE SubmissionInv'
  BY <1>2, ClosingKeeps DEF SubmissionFails, Steps
<1>3. CASE SwitchWorker
  <2>1. SubmissionTypeOK' /\ AnswersAreTrue'
    BY <1>3 DEF SwitchWorker, SubmissionInv, SubmissionTypeOK, AnswersAreTrue
  <2>2. QED
    BY <1>3, <2>1, QuietStep DEF SwitchWorker
<1>4. CASE UNCHANGED submissionVars
  BY <1>4 DEF submissionVars, SubmissionInv, SubmissionTypeOK, AnswersAreTrue,
              OnlyDispatching, CompletedIsAccepted
<1>5. QED
  BY <1>1, <1>2, <1>3, <1>4, DelegateWorkKeeps, PostJobKeeps, AcceptJobKeeps DEF SubmissionNext

\* The inductive invariant holds in every reachable state.
THEOREM SubmissionInvariance == SubmissionSpec => []SubmissionInv
BY SubmissionInitHolds, SubmissionStepKeeps, PTL DEF SubmissionSpec

\* delegate_tool logs a delivery only of a job the target has, and at most one
\* outcome of a job, whatever posts and answers are lost.
THEOREM DeliveriesAreTrue == SubmissionSpec => []CompletedIsAccepted
<1>1. SubmissionInv => CompletedIsAccepted
  BY DEF SubmissionInv
<1>2. QED
  BY <1>1, SubmissionInvariance, PTL

------------------------------------------------------------------------------
(* RedisClient.  A client is in at most one place: shared, or in the hand  *)
(* of the user that creates or closes it.  A new one is fresh, and what    *)
(* leaves every place has been closed or is stray.  While a user holds the *)
(* lock the shared client stays, so that it is what the user is given.     *)

\* Which users are where, and when they have a client in hand.
PlaceOK(u) ==
  /\ user[u].at \in {"asking", "using"} => u # Worker
  /\ user[u].at \in {"starting", "reading", "dropping", "closing", "renewing", "retiring"} => u = Worker
  /\ IF user[u].at \in {"closing", "retiring", "creating", "discarding"}
       THEN user[u].hand \in open /\ user[u].hand # shared
       ELSE user[u].hand = NoClient
  /\ user[u].at = "discarding" => shared # NoClient
  /\ user[u].has \in 0..created
  /\ user[u].at = "using" => user[u].has # NoClient

HandsDiffer ==
  \A u, v \in Users : u # v /\ user[u].hand = user[v].hand => user[u].hand = NoClient

ClientInv ==
  /\ ClientTypeOK
  /\ shared # NoClient => shared \in open
  /\ open \subseteq 1..created
  /\ \A u \in Users : PlaceOK(u)
  /\ HandsDiffer
  /\ ConnectionsAreKnown
  /\ user[Worker].at \in {"starting", "reading"} => user[Worker].has = shared /\ shared # NoClient


\* What a step has to see to that gives user u the state st, and leaves the others
\* where they are.
OneMoves(u, st) ==
  /\ st \in UserStates
  /\ user' = [user EXCEPT ![u] = st]
  /\ shared' \in Clients \cup {NoClient} /\ created' \in 0..MaxClients
  /\ open' \subseteq 1..created' /\ stray' \subseteq Clients /\ running' \in BOOLEAN
  /\ shared' # NoClient => shared' \in open'
  /\ st.at \in {"asking", "using"} => u # Worker
  /\ st.at \in {"starting", "reading", "dropping", "closing", "renewing", "retiring"} => u = Worker
  /\ IF st.at \in {"closing", "retiring", "creating", "discarding"}
       THEN st.hand \in open' /\ st.hand # shared'
       ELSE st.hand = NoClient
  /\ st.at = "discarding" => shared' # NoClient
  /\ created <= created' /\ st.has \in 0..created'
  /\ st.at = "using" => st.has # NoClient
  /\ \A v \in Users \ {u} :
       /\ user[v].hand # NoClient =>
            user[v].hand \in open' /\ user[v].hand # shared' /\ user[v].hand # st.hand
       /\ user[v].at = "discarding" => shared' # NoClient
  /\ \A c \in open' :
       c = shared' \/ c \in stray' \/ c = st.hand \/ \E v \in Users \ {u} : user[v].hand = c
  /\ IF u = Worker
       THEN st.at \in {"starting", "reading"} => st.has = shared' /\ shared' # NoClient
       ELSE user[Worker].at \in {"starting", "reading"} => shared' = shared

LEMMA WorkerIsUser == Worker \in Users /\ \A a \in Acceptors : a \in Users /\ a # Worker
BY WorkerIsNoAcceptor DEF Users

LEMMA OneMovesKeeps ==
  ASSUME ClientInv, NEW u \in Users, NEW st, OneMoves(u, st)
  PROVE  ClientInv'
<1>1. /\ user'[u] = st
      /\ \A v \in Users : v # u => user'[v] = user[v]
      /\ user' \in [Users -> UserStates]
  BY DEF OneMoves, ClientInv, ClientTypeOK
<1> HIDE DEF UserStates
<1>2. ClientTypeOK'
  BY <1>1, ClientsAreNat DEF OneMoves, ClientTypeOK, Clients
<1>3. (shared # NoClient => shared \in open)' /\ (open \subseteq 1..created)'
  BY DEF OneMoves
<1>4. ASSUME NEW v \in Users PROVE PlaceOK(v)'
  <2>1. CASE v = u
    BY <1>1, <2>1 DEF OneMoves, PlaceOK
  <2>2. CASE v # u
    <3>1. PlaceOK(v) /\ user'[v] = user[v]
      BY <1>1, <2>2 DEF ClientInv
    <3>2. user[v].hand # NoClient => user[v].hand \in open' /\ user[v].hand # shared'
      BY <2>2 DEF OneMoves
    <3>3. user[v].at = "discarding" => shared' # NoClient
      BY <2>2 DEF OneMoves
    <3>4. open \subseteq 1..created /\ created \in Nat /\ created' \in Nat /\ created <= created'
      BY DEF ClientInv, ClientTypeOK, OneMoves
    <3>5. user[v].has \in 0..created'
      BY <3>1, <3>4 DEF PlaceOK
    <3> QED
      BY <3>1, <3>2, <3>3, <3>4, <3>5 DEF PlaceOK, NoClient
  <2> QED
    BY <2>1, <2>2
<1>5. HandsDiffer'
  <2> SUFFICES ASSUME NEW v \in Users, NEW w \in Users, v # w, user'[v].hand = user'[w].hand
               PROVE  user'[v].hand = NoClient
    BY DEF HandsDiffer
  <2>1. CASE v # u /\ w # u
    BY <1>1, <2>1 DEF ClientInv, HandsDiffer
  <2>2. CASE v = u \/ w = u
    BY <1>1, <2>2 DEF OneMoves
  <2> QED
    BY <2>1, <2>2
<1>6. ConnectionsAreKnown'
  <2> SUFFICES ASSUME NEW c \in open', c # shared', c \notin stray'
               PROVE  \E v \in Users : user'[v].hand = c
    BY DEF ConnectionsAreKnown
  <2>1. c = st.hand \/ \E v \in Users \ {u} : user[v].hand = c
    BY DEF OneMoves
  <2> QED
    BY <1>1, <2>1
<1>7. (user[Worker].at \in {"starting", "reading"} => user[Worker].has = shared /\ shared # NoClient)'
  <2>1. CASE u = Worker
    BY <1>1, <2>1 DEF OneMoves
  <2>2. CASE u # Worker
    BY <1>1, <2>2, WorkerIsUser DEF OneMoves, ClientInv
  <2> QED
    BY <2>1, <2>2
<1> QED
  BY <1>2, <1>3, <1>4, <1>5, <1>6, <1>7 DEF ClientInv

LEMMA ClientInvInit == ClientInit => ClientInv
<1> SUFFICES ASSUME ClientInit PROVE ClientInv
  OBVIOUS
<1>1. \A u \in Users : user[u] = Resting
  BY DEF ClientInit
<1>2. /\ Resting \in UserStates /\ Resting.at = "idle"
      /\ Resting.hand = NoClient /\ Resting.has \in 0..created
  BY DEF ClientInit, Resting, UserStates, NoClient
<1>3. ClientTypeOK
  <2>1. user \in [Users -> UserStates]
    BY <1>2 DEF ClientInit
  <2>2. shared \in Clients \cup {NoClient} /\ open \subseteq Clients /\ stray \subseteq Clients
    BY DEF ClientInit
  <2>3. created \in 0..MaxClients
    BY ClientsAreNat DEF ClientInit
  <2> QED
    BY <2>1, <2>2, <2>3, Zenon DEF ClientInit, ClientTypeOK
<1>4. \A u \in Users : PlaceOK(u)
  BY <1>1, <1>2 DEF PlaceOK
<1> QED
  BY <1>1, <1>2, <1>3, <1>4, WorkerIsUser
     DEF ClientInit, ClientInv, HandsDiffer, ConnectionsAreKnown

\* What the invariant says of the user u and of the others, for the steps below.
LEMMA WhereItIs ==
  ASSUME ClientInv, NEW u \in Users
  PROVE  /\ user[u] \in UserStates /\ PlaceOK(u)
         /\ created \in Nat /\ created <= MaxClients /\ MaxClients \in Nat
         /\ user[u].has \in 0..created /\ NoClient \in 0..created /\ created \in 0..created
         /\ shared # NoClient => shared \in 0..created
         /\ shared \in Clients \cup {NoClient} /\ stray \subseteq Clients /\ running \in BOOLEAN
         /\ open \subseteq 1..created /\ open \subseteq Clients /\ NoClient \notin open
         /\ \A v \in Users \ {u} :
              /\ user[v].hand # NoClient =>
                   user[v].hand \in open /\ user[v].hand # shared /\ user[v].hand # user[u].hand
              /\ user[v].at = "discarding" => shared # NoClient
         /\ \A c \in open :
              c = shared \/ c \in stray \/ c = user[u].hand \/ \E v \in Users \ {u} : user[v].hand = c
<1>1. user[u] \in UserStates /\ PlaceOK(u)
  BY DEF ClientInv, ClientTypeOK
<1>2. /\ created \in Nat /\ created <= MaxClients /\ MaxClients \in Nat
      /\ shared \in Clients \cup {NoClient} /\ stray \subseteq Clients /\ running \in BOOLEAN
      /\ open \subseteq 1..created /\ open \subseteq Clients
  BY ClientsAreNat DEF ClientInv, ClientTypeOK
<1>5. NoClient \notin open /\ NoClient \in 0..created /\ created \in 0..created
  BY <1>2 DEF NoClient
<1>6. user[u].has \in 0..created /\ (shared # NoClient => shared \in 0..created)
  BY <1>1, <1>2 DEF PlaceOK, ClientInv
<1>3. ASSUME NEW v \in Users \ {u}
      PROVE  /\ user[v].hand # NoClient =>
                  user[v].hand \in open /\ user[v].hand # shared /\ user[v].hand # user[u].hand
             /\ user[v].at = "discarding" => shared # NoClient
  <2>1. PlaceOK(v)
    BY DEF ClientInv
  <2>2. user[v].hand = user[u].hand => user[v].hand = NoClient
    BY DEF ClientInv, HandsDiffer
  <2> QED
    BY <2>1, <2>2 DEF PlaceOK
<1>4. \A c \in open :
        c = shared \/ c \in stray \/ c = user[u].hand \/ \E v \in Users \ {u} : user[v].hand = c
  BY DEF ClientInv, ConnectionsAreKnown
<1> QED
  BY <1>1, <1>2, <1>3, <1>4, <1>5, <1>6


LEMMA RestingIs ==
  /\ Resting \in UserStates /\ Resting.at = "idle"
  /\ Resting.hand = NoClient /\ Resting.has = NoClient
BY DEF Resting, UserStates

\* A user that has nothing in hand moves, and no client is touched.
LEMMA StaysKnown ==
  ASSUME ClientInv, NEW u \in Users, NEW st \in UserStates,
         user' = [user EXCEPT ![u] = st], user[u].hand = NoClient, st.hand = NoClient,
         st.has \in 0..created, st.at = "using" => st.has # NoClient,
         st.at \notin {"closing", "retiring", "creating", "discarding"},
         st.at \in {"asking", "using"} => u # Worker,
         st.at \in {"starting", "reading", "dropping", "renewing"} => u = Worker,
         u = Worker /\ st.at \in {"starting", "reading"} => st.has = shared /\ shared # NoClient,
         running' \in BOOLEAN, UNCHANGED <<shared, created, open, stray>>
  PROVE  OneMoves(u, st)
<1>1. /\ created \in Nat /\ created <= MaxClients /\ MaxClients \in Nat
      /\ shared \in Clients \cup {NoClient} /\ stray \subseteq Clients
      /\ open \subseteq 1..created
  BY WhereItIs
<1>2. \A v \in Users \ {u} :
        /\ user[v].hand # NoClient =>
             user[v].hand \in open /\ user[v].hand # shared /\ user[v].hand # st.hand
        /\ user[v].at = "discarding" => shared # NoClient
  BY WhereItIs
<1>3. \A c \in open :
        c = shared \/ c \in stray \/ c = st.hand \/ \E v \in Users \ {u} : user[v].hand = c
  BY WhereItIs
<1>4. shared # NoClient => shared \in open
  BY DEF ClientInv
<1> QED
  BY <1>1, <1>2, <1>3, <1>4 DEF OneMoves

\* A new client is in the hand of the one who creates it.  What that one had in
\* hand before, if anything, is closed.
LEMMA CreatesKeeps ==
  ASSUME ClientInv, NEW u \in Users, created < MaxClients, created' = created + 1,
         open' = (open \ {user[u].hand}) \cup {created + 1},
         Puts(u, [user[u] EXCEPT !.at = "creating", !.hand = created + 1]),
         UNCHANGED <<shared, running, stray>>
  PROVE  ClientInv'
<1> DEFINE new == created + 1
           st == [user[u] EXCEPT !.at = "creating", !.hand = new]
<1>1. /\ user[u] \in UserStates /\ PlaceOK(u)
      /\ created \in Nat /\ MaxClients \in Nat
      /\ shared \in Clients \cup {NoClient} /\ stray \subseteq Clients /\ running \in BOOLEAN
      /\ open \subseteq 1..created
  BY WhereItIs
<1>2. new \in Clients /\ new \notin open /\ new # NoClient /\ created' \in 0..MaxClients
  BY <1>1 DEF Clients, NoClient
<1>3. st \in UserStates /\ st.at = "creating" /\ st.hand = new /\ st.has = user[u].has
  BY <1>1, <1>2 DEF UserStates
<1>11. st.has \in 0..created' /\ created <= created'
  BY <1>1, <1>3, WhereItIs
<1>4. user' = [user EXCEPT ![u] = st]
  BY DEF Puts
<1>5. open' \subseteq 1..created' /\ new \in open'
  BY <1>1
<1>6. shared # NoClient => shared \in open /\ shared # user[u].hand
  BY <1>1 DEF ClientInv, PlaceOK
<1>7. new # shared
  BY <1>2, <1>6
<1>8. \A v \in Users \ {u} :
        /\ user[v].hand # NoClient =>
             user[v].hand \in open' /\ user[v].hand # shared /\ user[v].hand # new
        /\ user[v].at = "discarding" => shared # NoClient
  BY <1>2, WhereItIs
<1>9. \A c \in open' :
        c = shared \/ c \in stray \/ c = new \/ \E v \in Users \ {u} : user[v].hand = c
  BY WhereItIs
<1> HIDE DEF st, new
<1>10. OneMoves(u, st)
  BY <1>1, <1>2, <1>3, <1>4, <1>5, <1>6, <1>7, <1>8, <1>9, <1>11 DEF OneMoves, ClientInv
<1> QED
  BY <1>10, OneMovesKeeps

LEMMA GetKeeps ==
  ASSUME ClientInv, NEW u \in Users, Get(u), user[u].at \in {"idle", "asking"}
  PROVE  ClientInv'
<1>1. /\ user[u] \in UserStates /\ PlaceOK(u) /\ shared \in Clients \cup {NoClient}
      /\ running \in BOOLEAN /\ open \subseteq 1..created /\ created \in Nat
  BY WhereItIs
<1>2. user[u].hand = NoClient /\ (shared # NoClient => shared \in 0..created)
  BY <1>1, WhereItIs DEF PlaceOK
<1>3. CASE shared # NoClient
  <2> DEFINE st == [user[u] EXCEPT !.at = Onward(u), !.has = shared]
  <2>1. /\ Onward(u) \in {"using", "starting", "reading"} /\ (Onward(u) = "using" <=> u # Worker)
    BY DEF Onward
  <2>2. st \in UserStates /\ st.at = Onward(u) /\ st.has = shared /\ st.hand = NoClient
    BY <1>1, <1>2, <2>1 DEF UserStates
  <2>3. user' = [user EXCEPT ![u] = st] /\ UNCHANGED <<shared, created, open, running, stray>>
    BY <1>3 DEF Get, Puts
  <2> HIDE DEF st
  <2>4. OneMoves(u, st)
    BY <1>1, <1>2, <1>3, <2>1, <2>2, <2>3, StaysKnown
  <2> QED
    BY <2>4, OneMovesKeeps
<1>4. CASE shared = NoClient
  <2>1. Creates(u) /\ UNCHANGED <<shared, running, stray>>
    BY <1>4 DEF Get
  <2>2. open \cup {created + 1} = (open \ {user[u].hand}) \cup {created + 1}
    BY <1>1, <1>2 DEF NoClient
  <2> QED
    BY <2>1, <2>2, CreatesKeeps DEF Creates
<1> QED
  BY <1>3, <1>4

\* A user puts away what it had in hand: c is closed, or left open as stray.
LEMMA PutsAway ==
  ASSUME ClientInv, NEW u \in Users, NEW st \in UserStates,
         user' = [user EXCEPT ![u] = st], user[u].hand # NoClient, BreaksOff(user[u].hand),
         st.has \in 0..created, st.at = "using" => st.has # NoClient,
         st.hand = NoClient, st.at \in {"idle", "using", "starting", "reading", "dropping", "renewing"},
         st.at = "using" => u # Worker,
         st.at \in {"starting", "reading", "dropping", "renewing"} => u = Worker,
         u = Worker /\ st.at \in {"starting", "reading"} => st.has = shared /\ shared # NoClient,
         running' \in BOOLEAN, UNCHANGED <<shared, created>>
  PROVE  ClientInv'
<1>1. /\ PlaceOK(u) /\ created \in Nat /\ created <= MaxClients /\ MaxClients \in Nat
      /\ shared \in Clients \cup {NoClient} /\ stray \subseteq Clients
      /\ open \subseteq 1..created /\ open \subseteq Clients
  BY WhereItIs
<1>2. user[u].hand \in Clients /\ user[u].hand # shared
  BY <1>1 DEF PlaceOK
<1>3. open' \subseteq open /\ stray' \subseteq Clients /\ stray \subseteq stray'
  BY <1>1, <1>2 DEF BreaksOff
<1>4. \A c \in open : c # user[u].hand => c \in open'
  BY DEF BreaksOff
<1>5. user[u].hand \in open' => user[u].hand \in stray'
  BY DEF BreaksOff
<1>6. \A v \in Users \ {u} :
        /\ user[v].hand # NoClient =>
             user[v].hand \in open' /\ user[v].hand # shared /\ user[v].hand # st.hand
        /\ user[v].at = "discarding" => shared # NoClient
  BY <1>4, WhereItIs
<1>7. \A c \in open' :
        c = shared \/ c \in stray' \/ c = st.hand \/ \E v \in Users \ {u} : user[v].hand = c
  BY <1>3, <1>5, WhereItIs
<1>8. shared # NoClient => shared \in open'
  BY <1>2, <1>4 DEF ClientInv
<1>9. OneMoves(u, st)
  BY <1>1, <1>3, <1>6, <1>7, <1>8 DEF OneMoves
<1> QED
  BY <1>9, OneMovesKeeps

LEMMA PlaceKeeps ==
  ASSUME ClientInv, NEW u \in Users, Place(u)
  PROVE  ClientInv'
<1>1. /\ user[u] \in UserStates /\ PlaceOK(u) /\ running \in BOOLEAN
      /\ created \in Nat /\ created <= MaxClients /\ MaxClients \in Nat
      /\ shared \in Clients \cup {NoClient} /\ stray \subseteq Clients
      /\ open \subseteq 1..created /\ open \subseteq Clients /\ NoClient \notin open
  BY WhereItIs
<1>2. user[u].at = "creating" /\ user[u].hand \in open /\ user[u].hand # shared
  BY <1>1 DEF Place, PlaceOK
<1>3. /\ user[u].hand \in Clients /\ user[u].hand # NoClient
  BY <1>1, <1>2
<1>9. user[u].hand \in 0..created /\ user[u].has \in 0..created
  <2>1. user[u].hand \in 1..created
    BY <1>1, <1>2
  <2>2. user[u].hand \in 0..created
    BY <1>1, <2>1
  <2> QED
    BY <2>2, WhereItIs
<1>4. \A v \in Users : user[v].at # "discarding"
  BY DEF Place, LockIsFree
<1>5. CASE shared = NoClient
  <2> DEFINE st == [at |-> Onward(u), has |-> user[u].hand, hand |-> NoClient]
  <2>1. /\ Onward(u) \in {"using", "starting", "reading"} /\ (Onward(u) = "using" <=> u # Worker)
    BY DEF Onward
  <2>2. st \in UserStates /\ st.at = Onward(u) /\ st.has = user[u].hand /\ st.hand = NoClient
    BY <1>3, <2>1 DEF UserStates
  <2>3. user' = [user EXCEPT ![u] = st] /\ shared' = user[u].hand /\ UNCHANGED <<created, open, running, stray>>
    BY <1>5 DEF Place, Puts
  <2> HIDE DEF st
  <2>4. \A v \in Users \ {u} :
          user[v].hand # NoClient =>
            user[v].hand \in open /\ user[v].hand # shared' /\ user[v].hand # st.hand
    BY <2>2, <2>3, WhereItIs
  <2>5. \A c \in open :
          c = shared' \/ c \in stray \/ c = st.hand \/ \E v \in Users \ {u} : user[v].hand = c
    BY <1>5, <2>2, <2>3, WhereItIs
  <2>6. u # Worker => user[Worker].at \notin {"starting", "reading"}
    BY <1>5 DEF ClientInv
  <2>7. OneMoves(u, st)
    BY <1>1, <1>2, <1>3, <1>4, <1>9, <2>1, <2>2, <2>3, <2>4, <2>5, <2>6 DEF OneMoves
  <2> QED
    BY <2>7, OneMovesKeeps
<1>6. CASE shared # NoClient
  <2> DEFINE st == [user[u] EXCEPT !.at = "discarding"]
  <2>1. st \in UserStates /\ st.at = "discarding" /\ st.has = user[u].has /\ st.hand = user[u].hand
    BY <1>1 DEF UserStates
  <2>2. user' = [user EXCEPT ![u] = st] /\ UNCHANGED <<shared, created, open, running, stray>>
    BY <1>6 DEF Place, Puts, Turns
  <2> HIDE DEF st
  <2>3. \A v \in Users \ {u} :
          user[v].hand # NoClient =>
            user[v].hand \in open /\ user[v].hand # shared /\ user[v].hand # st.hand
    BY <2>1, WhereItIs
  <2>4. \A c \in open :
          c = shared \/ c \in stray \/ c = st.hand \/ \E v \in Users \ {u} : user[v].hand = c
    BY <2>1, WhereItIs
  <2>5. shared \in open
    BY <1>6 DEF ClientInv
  <2>6. OneMoves(u, st)
    BY <1>1, <1>2, <1>3, <1>4, <1>6, <1>9, <2>1, <2>2, <2>3, <2>4, <2>5 DEF OneMoves
  <2> QED
    BY <2>6, OneMovesKeeps
<1> QED
  BY <1>5, <1>6

LEMMA DiscardedKeeps ==
  ASSUME ClientInv, NEW u \in Users, Discarded(u)
  PROVE  ClientInv'
<1> DEFINE st == [at |-> Onward(u), has |-> shared, hand |-> NoClient]
<1>1. PlaceOK(u) /\ running \in BOOLEAN /\ shared \in Clients \cup {NoClient} /\ NoClient \notin open
  BY WhereItIs
<1>2. user[u].hand # NoClient /\ shared # NoClient /\ shared \in 0..created
  BY <1>1, WhereItIs DEF Discarded, PlaceOK
<1>3. /\ Onward(u) \in {"using", "starting", "reading"} /\ (Onward(u) = "using" <=> u # Worker)
  BY DEF Onward
<1>4. st \in UserStates /\ st.at = Onward(u) /\ st.has = shared /\ st.hand = NoClient
  BY <1>1, <1>3 DEF UserStates
<1>5. /\ user' = [user EXCEPT ![u] = st] /\ UNCHANGED <<shared, created, running, stray>>
      /\ BreaksOff(user[u].hand)
  BY DEF Discarded, Puts, BreaksOff
<1> HIDE DEF st
<1>6. running' \in BOOLEAN
  BY <1>1, <1>5, Zenon
<1>7. /\ st.at \in {"idle", "using", "starting", "reading", "dropping", "renewing"}
      /\ st.at = "using" => u # Worker
      /\ st.at \in {"starting", "reading", "dropping", "renewing"} => u = Worker
      /\ u = Worker /\ st.at \in {"starting", "reading"} => st.has = shared /\ shared # NoClient
  BY <1>2, <1>3, <1>4
<1> QED
  BY <1>2, <1>4, <1>5, <1>6, <1>7, PutsAway

\* Where an exception leaves a user.
LEMMA RaisesTo ==
  ASSUME ClientInv, NEW u \in Users, Raises(u)
  PROVE  \E st \in UserStates :
           /\ user' = [user EXCEPT ![u] = st] /\ st.at = "idle" /\ st.hand = NoClient
           /\ st.has \in 0..created /\ running' \in BOOLEAN
<1>1. /\ user[u] \in UserStates /\ running \in BOOLEAN
      /\ user[u].has \in 0..created /\ NoClient \in 0..created
  BY WhereItIs
<1>2. running' \in BOOLEAN
  BY DEF Raises
<1>3. CASE u = Worker
  <2> DEFINE st == [user[u] EXCEPT !.at = "idle", !.hand = NoClient]
  <2>1. st \in UserStates /\ st.at = "idle" /\ st.hand = NoClient /\ st.has \in 0..created
    BY <1>1 DEF UserStates
  <2>2. user' = [user EXCEPT ![u] = st]
    BY <1>3 DEF Raises, Puts
  <2> HIDE DEF st
  <2> QED
    BY <1>2, <2>1, <2>2
<1>4. CASE u # Worker
  <2>1. user' = [user EXCEPT ![u] = Resting]
    BY <1>4 DEF Raises, Puts
  <2> QED
    BY <1>1, <1>2, <2>1, RestingIs
<1> QED
  BY <1>3, <1>4

\* The steps of the service that only move it, from nothing in hand to nothing.
LEMMA MovesKeep ==
  ASSUME ClientInv, NEW u \in Users, NEW to \in {"idle", "asking", "reading", "dropping"},
         user' = [user EXCEPT ![u].at = to],
         user[u].hand = NoClient,
         to = "asking" => u # Worker,
         to = "reading" => u = Worker /\ user[u].at = "starting",
         to = "dropping" => u = Worker,
         running' \in BOOLEAN, UNCHANGED <<shared, created, open, stray>>
  PROVE  ClientInv'
<1> DEFINE st == [user[u] EXCEPT !.at = to]
<1>1. user[u] \in UserStates /\ user[u].has \in 0..created
  BY WhereItIs
<1>2. st \in UserStates /\ st.at = to /\ st.has = user[u].has /\ st.hand = NoClient
  BY <1>1 DEF UserStates
<1>3. user' = [user EXCEPT ![u] = st]
  OBVIOUS
<1> HIDE DEF st
<1>4. u = Worker /\ st.at \in {"starting", "reading"} => st.has = shared /\ shared # NoClient
  BY <1>2 DEF ClientInv
<1>5. /\ st.at \notin {"closing", "retiring", "creating", "discarding"}
      /\ st.at \in {"asking", "using"} => u # Worker
      /\ st.at \in {"starting", "reading", "dropping", "renewing"} => u = Worker
  BY <1>2
<1>6. OneMoves(u, st)
  BY <1>1, <1>2, <1>3, <1>4, <1>5, StaysKnown
<1> QED
  BY <1>6, OneMovesKeeps

\* The shared client is taken out, into the hand of the worker that closes it.
LEMMA TakesOut ==
  ASSUME ClientInv, NEW to \in {"closing", "retiring"}, user[Worker].hand = NoClient,
         user[Worker].at \in {"dropping", "renewing"},
         shared # NoClient, shared' = NoClient,
         \A v \in Users : user[v].at # "discarding",
         user' = [user EXCEPT ![Worker] = [user[Worker] EXCEPT !.at = to, !.hand = shared]],
         UNCHANGED <<created, open, running, stray>>
  PROVE  ClientInv'
<1> DEFINE st == [user[Worker] EXCEPT !.at = to, !.hand = shared]
<1>1. /\ user[Worker] \in UserStates /\ running \in BOOLEAN
      /\ created \in Nat /\ created <= MaxClients /\ MaxClients \in Nat
      /\ shared \in Clients \cup {NoClient} /\ stray \subseteq Clients
      /\ open \subseteq 1..created /\ user[Worker].has \in 0..created
  BY WhereItIs, WorkerIsUser
<1>2. st \in UserStates /\ st.at = to /\ st.hand = shared /\ st.has = user[Worker].has
  BY <1>1 DEF UserStates
<1>3. user' = [user EXCEPT ![Worker] = st]
  OBVIOUS
<1> HIDE DEF st
<1>4. shared \in open
  BY DEF ClientInv
<1>5. \A v \in Users \ {Worker} :
        user[v].hand # NoClient =>
          user[v].hand \in open /\ user[v].hand # shared' /\ user[v].hand # st.hand
  BY <1>2, WhereItIs, WorkerIsUser
<1>6. \A c \in open :
        c = shared' \/ c \in stray \/ c = st.hand \/ \E v \in Users \ {Worker} : user[v].hand = c
  BY <1>2, WhereItIs, WorkerIsUser DEF ClientInv
<1>7. /\ shared' \in Clients \cup {NoClient} /\ created' \in 0..MaxClients
      /\ created <= created' /\ st.has \in 0..created'
      /\ open' \subseteq 1..created' /\ stray' \subseteq Clients
  BY <1>1, <1>2
<1>8. /\ st.at \notin {"asking", "using", "starting", "reading", "discarding"}
      /\ st.hand \in open' /\ st.hand # shared'
  BY <1>2, <1>4
<1>9. running' \in BOOLEAN
  BY <1>1, Zenon
<1>10. OneMoves(Worker, st)
  BY <1>2, <1>3, <1>5, <1>6, <1>7, <1>8, <1>9 DEF OneMoves
<1> QED
  BY <1>10, OneMovesKeeps, WorkerIsUser

LEMMA FailuresKeep ==
  ASSUME ClientInv, NEW u \in Users, CreateFails(u) \/ CloseFails(u)
  PROVE  ClientInv'
<1>1. PlaceOK(u) /\ NoClient \notin open
  BY WhereItIs
<1>2. user[u].hand # NoClient
  BY <1>1 DEF CreateFails, CloseFails, PlaceOK
<1>3. Raises(u) /\ BreaksOff(user[u].hand) /\ UNCHANGED <<shared, created>>
  BY DEF CreateFails, CloseFails, BreaksOff
<1>4. PICK st \in UserStates :
        /\ user' = [user EXCEPT ![u] = st] /\ st.at = "idle" /\ st.hand = NoClient
        /\ st.has \in 0..created /\ running' \in BOOLEAN
  BY <1>3, RaisesTo
<1> QED
  BY <1>2, <1>3, <1>4, PutsAway

\* What a command connects again is in no one's hand, and is not the shared client.
LEMMA ReconnectsKeeps ==
  ASSUME ClientInv, NEW u \in Users, Reconnects(u)
  PROVE  ClientInv'
<1> DEFINE c == user[u].has
<1>1. /\ PlaceOK(u) /\ created \in Nat /\ created <= MaxClients /\ MaxClients \in Nat
      /\ open \subseteq 1..created /\ c \in 0..created
  BY WhereItIs
<1>2. /\ open' = open \cup {c} /\ stray' = stray \cup {c} /\ c \notin open
      /\ UNCHANGED <<shared, created, user, running>>
      /\ user[u].at \in {"using", "starting", "reading"}
  BY DEF Reconnects
<1>3. c # NoClient
  <2>1. CASE u = Worker
    BY <1>1, <1>2, <2>1 DEF ClientInv, PlaceOK
  <2>2. CASE u # Worker
    BY <1>1, <1>2, <2>2 DEF PlaceOK
  <2> QED
    BY <2>1, <2>2
<1>4. c \in 1..created /\ c \in Clients
  BY <1>1, <1>3 DEF Clients, NoClient
<1> HIDE DEF c
<1>5. ClientTypeOK'
  BY <1>2, <1>4 DEF ClientInv, ClientTypeOK
<1>6. (shared # NoClient => shared \in open)' /\ (open \subseteq 1..created)'
  BY <1>2, <1>4 DEF ClientInv
<1>7. ASSUME NEW v \in Users PROVE PlaceOK(v)'
  BY <1>2 DEF ClientInv, PlaceOK
<1>8. HandsDiffer' /\ ConnectionsAreKnown'
  BY <1>2 DEF ClientInv, HandsDiffer, ConnectionsAreKnown
<1> QED
  BY <1>2, <1>5, <1>6, <1>7, <1>8 DEF ClientInv

LEMMA RenewKeeps == ASSUME ClientInv, Renew(Worker) PROVE ClientInv'
<1>1. PlaceOK(Worker) /\ NoClient \notin open /\ user[Worker].at = "renewing"
  BY WhereItIs, WorkerIsUser DEF Renew
<1>2. user[Worker].hand = NoClient
  BY <1>1 DEF PlaceOK
<1>3. CASE shared # NoClient
  BY <1>1, <1>2, <1>3, TakesOut DEF Renew, Puts, LockIsFree
<1>4. CASE shared = NoClient
  <2>1. Creates(Worker) /\ UNCHANGED <<shared, running, stray>>
    BY <1>4 DEF Renew
  <2>2. open \cup {created + 1} = (open \ {user[Worker].hand}) \cup {created + 1}
    BY <1>1, <1>2
  <2> QED
    BY <2>1, <2>2, CreatesKeeps, WorkerIsUser DEF Creates
<1> QED
  BY <1>3, <1>4

LEMMA RetiredKeeps == ASSUME ClientInv, Retired(Worker) PROVE ClientInv'
BY CreatesKeeps, WorkerIsUser DEF Retired

LEMMA AcceptorsKeep ==
  ASSUME ClientInv, NEW a \in Acceptors, Accept(a) \/ LockComes(a) \/ AcceptEnds(a)
  PROVE  ClientInv'
<1>1. a \in Users /\ a # Worker
  BY WorkerIsUser
<1>2. PlaceOK(a) /\ running \in BOOLEAN /\ NoClient \in 0..created
  BY <1>1, WhereItIs
<1>3. CASE Get(a) /\ user[a].at \in {"idle", "asking"}
  BY <1>1, <1>3, GetKeeps
<1>4. CASE user[a].at = "idle" /\ Turns(a, "asking") /\ UNCHANGED <<shared, created, open, running, stray>>
  <2>1. user' = [user EXCEPT ![a].at = "asking"] /\ user[a].hand = NoClient /\ running' \in BOOLEAN
    BY <1>2, <1>4 DEF Turns, Puts, PlaceOK
  <2> QED
    BY <1>1, <1>4, <2>1, MovesKeep
<1>5. CASE AcceptEnds(a)
  <2>1. user' = [user EXCEPT ![a] = Resting] /\ user[a].hand = NoClient
    BY <1>2, <1>5 DEF AcceptEnds, Puts, PlaceOK
  <2>2. running' \in BOOLEAN /\ UNCHANGED <<shared, created, open, stray>>
    BY <1>2, <1>5, Zenon DEF AcceptEnds
  <2>3. OneMoves(a, Resting)
    BY <1>1, <1>2, <2>1, <2>2, RestingIs, StaysKnown
  <2> QED
    BY <1>1, <2>3, OneMovesKeeps
<1> QED
  BY <1>3, <1>4, <1>5 DEF Accept, LockComes

LEMMA WorkerMovesKeep ==
  ASSUME ClientInv, WorkerStarts \/ AuthenticationFails \/ WorkerDies
  PROVE  ClientInv'
<1>1. PlaceOK(Worker) /\ running \in BOOLEAN /\ Worker \in Users
  BY WhereItIs, WorkerIsUser
<1>2. /\ user[Worker].at \in {"starting", "reading"} /\ user[Worker].hand = NoClient
      /\ UNCHANGED <<shared, created, open, stray>>
  BY <1>1 DEF WorkerStarts, AuthenticationFails, WorkerDies, PlaceOK
<1>3. CASE user[Worker].at = "starting" /\ Turns(Worker, "reading") /\ running' = TRUE
  BY <1>1, <1>2, <1>3, MovesKeep DEF Turns, Puts
<1>4. CASE AuthenticationFails
  <2>1. running' \in BOOLEAN
    BY <1>1, <1>4, Zenon DEF AuthenticationFails
  <2> QED
    BY <1>1, <1>2, <1>4, <2>1, MovesKeep DEF AuthenticationFails, Turns, Puts
<1>5. CASE Raises(Worker)
  <2>1. PICK st \in UserStates :
          /\ user' = [user EXCEPT ![Worker] = st] /\ st.at = "idle" /\ st.hand = NoClient
          /\ st.has \in 0..created /\ running' \in BOOLEAN
    BY <1>1, <1>5, RaisesTo
  <2>2. OneMoves(Worker, st)
    BY <1>1, <1>2, <2>1, StaysKnown
  <2> QED
    BY <1>1, <2>2, OneMovesKeeps
<1> QED
  BY <1>3, <1>4, <1>5 DEF WorkerStarts, WorkerDies

LEMMA StopKeeps == ASSUME ClientInv, StopWorker PROVE ClientInv'
<1> DEFINE st == [user[Worker] EXCEPT !.at = "dropping", !.hand = NoClient]
<1>1. /\ user[Worker] \in UserStates /\ PlaceOK(Worker) /\ Worker \in Users
      /\ user[Worker].has \in 0..created
  BY WhereItIs, WorkerIsUser
<1>2. st \in UserStates /\ st.at = "dropping" /\ st.hand = NoClient /\ st.has = user[Worker].has
  BY <1>1 DEF UserStates
<1>3. /\ user' = [user EXCEPT ![Worker] = st] /\ running' \in BOOLEAN
      /\ UNCHANGED <<shared, created>>
  BY DEF StopWorker, Puts
<1> HIDE DEF st
<1>4. CASE user[Worker].at \in {"closing", "retiring", "discarding", "creating"}
  <2>1. BreaksOff(user[Worker].hand)
    BY <1>4 DEF StopWorker, BreaksOff
  <2>2. user[Worker].hand # NoClient
    BY <1>1, <1>4, WhereItIs DEF PlaceOK
  <2> QED
    BY <1>1, <1>2, <1>3, <2>1, <2>2, PutsAway
<1>5. CASE user[Worker].at \notin {"closing", "retiring", "discarding", "creating"}
  <2>1. UNCHANGED <<open, stray>>
    BY <1>5 DEF StopWorker
  <2>2. user[Worker].hand = NoClient
    BY <1>1, <1>5 DEF PlaceOK
  <2>3. OneMoves(Worker, st)
    BY <1>1, <1>2, <1>3, <2>1, <2>2, StaysKnown
  <2> QED
    BY <1>1, <2>3, OneMovesKeeps
<1> QED
  BY <1>4, <1>5

LEMMA DroppedIs ==
  ASSUME ClientInv
  PROVE  /\ Dropped \in UserStates /\ Dropped.at \in {"idle", "renewing"}
         /\ Dropped.hand = NoClient /\ Dropped.has \in 0..created
<1>1. user[Worker] \in UserStates /\ user[Worker].has \in 0..created /\ NoClient \in 0..created
  BY WhereItIs, WorkerIsUser
<1>2. CASE running
  BY <1>1, <1>2 DEF Dropped, UserStates
<1>3. CASE ~running
  BY <1>1, <1>3, RestingIs DEF Dropped
<1> QED
  BY <1>2, <1>3

LEMMA DropKeeps == ASSUME ClientInv, Drop PROVE ClientInv'
<1>1. PlaceOK(Worker) /\ running \in BOOLEAN /\ Worker \in Users
  BY WhereItIs, WorkerIsUser
<1>2. user[Worker].at = "dropping" /\ user[Worker].hand = NoClient
  BY <1>1 DEF Drop, PlaceOK
<1>3. CASE shared # NoClient
  BY <1>2, <1>3, TakesOut DEF Drop, Puts, LockIsFree
<1>4. CASE shared = NoClient
  <2>1. user' = [user EXCEPT ![Worker] = Dropped] /\ UNCHANGED <<shared, created, open, running, stray>>
    BY <1>4 DEF Drop, Puts
  <2>2. running' \in BOOLEAN
    BY <1>1, <2>1, Zenon
  <2>3. OneMoves(Worker, Dropped)
    BY <1>1, <1>2, <2>1, <2>2, DroppedIs, StaysKnown
  <2> QED
    BY <1>1, <2>3, OneMovesKeeps
<1> QED
  BY <1>3, <1>4

LEMMA ClosedKeeps == ASSUME ClientInv, Closed PROVE ClientInv'
<1>1. PlaceOK(Worker) /\ running \in BOOLEAN /\ Worker \in Users /\ NoClient \notin open
  BY WhereItIs, WorkerIsUser
<1>2. user[Worker].hand # NoClient
  BY <1>1 DEF Closed, PlaceOK
<1>3. /\ user' = [user EXCEPT ![Worker] = Dropped] /\ BreaksOff(user[Worker].hand)
      /\ UNCHANGED <<shared, created, running>>
  BY DEF Closed, Puts, BreaksOff
<1>4. running' \in BOOLEAN
  BY <1>1, <1>3, Zenon
<1> QED
  BY <1>1, <1>2, <1>3, <1>4, DroppedIs, PutsAway

LEMMA ClientInvStep == ClientInv /\ [ClientNext]_clientVars => ClientInv'
<1> SUFFICES ASSUME ClientInv, [ClientNext]_clientVars PROVE ClientInv'
  OBVIOUS
<1>1. CASE UNCHANGED clientVars
  <2>1. UNCHANGED <<shared, created, open, user, running, stray>>
    BY <1>1 DEF clientVars
  <2> QED
    BY <2>1 DEF ClientInv, ClientTypeOK, PlaceOK, HandsDiffer, ConnectionsAreKnown
<1>2. ASSUME NEW a \in Acceptors, Accept(a) \/ LockComes(a) \/ AcceptEnds(a) PROVE ClientInv'
  BY <1>2, AcceptorsKeep
<1>3. ASSUME NEW u \in Users,
             Place(u) \/ Discarded(u) \/ CreateFails(u) \/ CloseFails(u) \/ Reconnects(u)
      PROVE  ClientInv'
  BY <1>3, PlaceKeeps, DiscardedKeeps, FailuresKeep, ReconnectsKeeps
<1>4. CASE Renew(Worker) \/ Retired(Worker)
  BY <1>4, RenewKeeps, RetiredKeeps
<1>5. CASE StartWorker
  BY <1>5, GetKeeps, WorkerIsUser DEF StartWorker
<1>6. CASE WorkerStarts \/ AuthenticationFails \/ WorkerDies
  BY <1>6, WorkerMovesKeep
<1>7. CASE StopWorker \/ Drop \/ Closed
  BY <1>7, StopKeeps, DropKeeps, ClosedKeeps
<1> QED
  BY <1>1, <1>2, <1>3, <1>4, <1>5, <1>6, <1>7 DEF ClientNext

THEOREM ClientInvariance == ClientSpec => []ClientInv
BY ClientInvInit, ClientInvStep, PTL DEF ClientSpec

\* Whoever asks for the client of the pod is given one that is open and that
\* nobody is about to close, and the worker reads through the same.
THEOREM SharedClientsAreOpen == ClientSpec => []SharedIsOpen
<1>1. ClientInv => SharedIsOpen
  <2> SUFFICES ASSUME ClientInv PROVE SharedIsOpen
    OBVIOUS
  <2>1. ASSUME shared # NoClient, NEW u \in Users PROVE user[u].hand # shared
    BY <2>1 DEF ClientInv, PlaceOK
  <2> QED
    BY <2>1 DEF ClientInv, SharedIsOpen
<1> QED
  BY <1>1, ClientInvariance, PTL

\* No connection is left behind but by a close that was broken off, or by a
\* handler whose client was closed under it.
THEOREM ConnectionsAreAccountedFor == ClientSpec => []ConnectionsAreKnown
<1>1. ClientInv => ConnectionsAreKnown
  BY DEF ClientInv
<1> QED
  BY <1>1, ClientInvariance, PTL
==============================================================================
