----------------------------- MODULE Agents_proofs -----------------------------
(* That what TLC runs of the agents and the registry is what the theorems of  *)
(* Registry_proofs and Calls_proofs are about.  Every step of MCSpec is a     *)
(* step of one of the seven specifications and leaves the variables of the    *)
(* other six alone, so a behaviour of MCSpec is a behaviour of each of the    *)
(* seven, and has every property that was proved of any of them.              *)
EXTENDS MCAgents, Registry_proofs, Calls_proofs

LEMMA EveryPartStarts ==
  MCInit => /\ AuthInit /\ StoreInit /\ BeatInit /\ DiscoveryInit
            /\ PushInit /\ SubmissionInit /\ ClientInit
BY DEF MCInit

\* A step of the composition is a step of every part, or leaves it as it was.
LEMMA EveryPartSteps ==
  ASSUME [MCNext]_MCVars
  PROVE  /\ [AuthNext]_authVars
         /\ [StoreNext]_storeVars
         /\ [BeatNext]_beatVars
         /\ [DiscoveryNext]_discoveryVars
         /\ [PushNext]_pushVars
         /\ [SubmissionNext]_submissionVars
         /\ [ClientNext]_clientVars
<1>1. CASE UNCHANGED MCVars
  BY <1>1 DEF MCVars
<1>2. CASE Pass /\ UNCHANGED <<storeVars, beatVars, discoveryVars, pushVars, submissionVars, clientVars>>
  BY <1>2 DEF AuthNext
<1>3. CASE CallerNext /\ UNCHANGED <<storeVars, beatVars, discoveryVars, pushVars, submissionVars, clientVars>>
  BY <1>3 DEF AuthNext
<1>4. CASE CalleeNext /\ UNCHANGED <<storeVars, beatVars, discoveryVars, pushVars, submissionVars, clientVars>>
  BY <1>4 DEF AuthNext
<1>5. CASE StoreNext /\ UNCHANGED <<authVars, beatVars, discoveryVars, pushVars, submissionVars, clientVars>>
  BY <1>5
<1>6. CASE BeatNext /\ UNCHANGED <<authVars, storeVars, discoveryVars, pushVars, submissionVars, clientVars>>
  BY <1>6
<1>7. CASE DiscoveryNext /\ UNCHANGED <<authVars, storeVars, beatVars, pushVars, submissionVars, clientVars>>
  BY <1>7
<1>8. CASE PushNext /\ UNCHANGED <<authVars, storeVars, beatVars, discoveryVars, submissionVars, clientVars>>
  BY <1>8
<1>9. CASE SubmissionNext /\ UNCHANGED <<authVars, storeVars, beatVars, discoveryVars, pushVars, clientVars>>
  BY <1>9
<1>10. CASE ClientNext /\ UNCHANGED <<authVars, storeVars, beatVars, discoveryVars, pushVars, submissionVars>>
  BY <1>10
<1> QED
  BY <1>1, <1>2, <1>3, <1>4, <1>5, <1>6, <1>7, <1>8, <1>9, <1>10 DEF MCNext

\* The composition implements the specification of every part: an agent's
\* tokens, its record, its heartbeat, its lookups, the pushes it is sent, the
\* work it submits and the client of its queue do not disturb one another.
THEOREM AgentsImplementParts ==
  MCSpec => /\ AuthSpec /\ StoreSpec /\ BeatSpec
            /\ DiscoverySpec /\ PushSpec /\ SubmissionSpec /\ ClientSpec
<1>1. MCInit => /\ AuthInit /\ StoreInit /\ BeatInit
                /\ DiscoveryInit /\ PushInit /\ SubmissionInit /\ ClientInit
  BY EveryPartStarts
<1>2. [MCNext]_MCVars => /\ [AuthNext]_authVars
                         /\ [StoreNext]_storeVars
                         /\ [BeatNext]_beatVars
                         /\ [DiscoveryNext]_discoveryVars
                         /\ [PushNext]_pushVars
                         /\ [SubmissionNext]_submissionVars
                         /\ [ClientNext]_clientVars
  BY EveryPartSteps
<1> QED
  BY <1>1, <1>2, PTL
     DEF MCSpec, AuthSpec, StoreSpec, BeatSpec, DiscoverySpec, PushSpec, SubmissionSpec, ClientSpec

\* Every variable of the seven modules has its type, in every state that the
\* agents and the registry of MCAgents reach together.
THEOREM AgentsTypeCorrect == MCSpec => []TypeOK
<1>1. MCSpec => /\ []AuthTypeOK /\ []StoreTypeOK /\ []BeatTypeOK
                /\ []DiscoveryTypeOK /\ []PushTypeOK
  BY AgentsImplementParts, AuthTypeCorrect, StoreTypeCorrect, BeatTypeCorrect,
     DiscoveryTypeCorrect, PushTypeCorrect
<1>2. MCSpec => []SubmissionInv /\ []ClientInv
  BY AgentsImplementParts, SubmissionInvariance, ClientInvariance
<1>3. (SubmissionInv => SubmissionTypeOK) /\ (ClientInv => ClientTypeOK)
  BY DEF SubmissionInv, ClientInv
<1>4. AuthTypeOK /\ StoreTypeOK /\ BeatTypeOK /\ DiscoveryTypeOK /\ PushTypeOK
        /\ SubmissionTypeOK /\ ClientTypeOK => TypeOK
  BY DEF TypeOK
<1> QED
  BY <1>1, <1>2, <1>3, <1>4, PTL

\* What the run of MCAgents checks of each part, of every size of the system:
\* no token expires under way, nobody is admitted on a credential that was
\* given up long ago, undisturbed saves leave what one at a time would leave,
\* an agent that beats is alive, a lookup is as recent as the cache allows, a
\* push that is expected is accepted, work called completed was accepted, and
\* the client of the queue that is shared is open, is the worker's, and leaves
\* no connections behind.
THEOREM AgentsAreSound ==
  MCSpec => /\ [](/\ CallsAreNotRefused /\ AdmittedWasLive
                  /\ SavesAreSerial /\ AliveWhileBeating
                  /\ ResolvedIsRecent /\ PushIsAccepted /\ CompletedIsAccepted
                  /\ SharedIsOpen /\ ConnectionsAreKnown)
            /\ OutageForgetsNobody
<1>1. MCSpec => /\ []CallsAreNotRefused /\ []AdmittedWasLive
                /\ []SavesAreSerial /\ []AliveWhileBeating
                /\ []ResolvedIsRecent /\ []PushIsAccepted /\ []CompletedIsAccepted
                /\ []SharedIsOpen /\ []ConnectionsAreKnown
  BY AgentsImplementParts, TokensOutlastCalls, AdmissionsAreRecent, OverlapsAreSerial,
     BeatingKeepsAlive, ResolutionsAreRecent, PushesAreAccepted, DeliveriesAreTrue,
     SharedClientsAreOpen, ConnectionsAreAccountedFor
<1>2. MCSpec => OutageForgetsNobody
  BY AgentsImplementParts, OutagesForgetNobody
<1> QED
  BY <1>1, <1>2, PTL
==============================================================================
