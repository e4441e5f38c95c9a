------------------------------- MODULE MCAgents -------------------------------
(* What agents and the registry know of one another: the tokens of an agent   *)
(* that calls and the credentials an agent that is called accepts, the record *)
(* of an agent under concurrent writes, an agent that keeps itself listed, an *)
(* agent that looks another one up, one that is called back, one that         *)
(* delegates work, and the client of the queue in one that takes it.          *)
(* The modules share no variable (each has its own           *)
(* abstraction of a record), so a behaviour is of one side: the states add up *)
(* and do not multiply.                                                       *)
EXTENDS AgentAuth, RegistryStore, Heartbeat, Discovery, PushNotifications, Submission,
        RedisClient, TLC

VARIABLE side

MaxCalleeTime == 4   \* bound: ticks of the agent that is called

MCVars == <<side, authVars, storeVars, beatVars, discoveryVars, pushVars, submissionVars,
            clientVars>>

MCInit ==
  /\ AuthInit /\ StoreInit /\ BeatInit /\ DiscoveryInit /\ PushInit /\ SubmissionInit
  /\ ClientInit
  /\ side \in {"caller", "callee", "store", "heartbeat", "discovery", "push", "submission", "client"}
  /\ side # "callee" => secrets = {}
  /\ side # "heartbeat" => schema

MCNext ==
  /\ UNCHANGED side
  /\ \/ /\ side \in {"caller", "callee"}
        /\ \/ (side = "callee" => time < MaxCalleeTime) /\ Pass
           \/ side = "caller" /\ CallerNext
           \/ side = "callee" /\ CalleeNext
        /\ UNCHANGED <<storeVars, beatVars, discoveryVars, pushVars, submissionVars, clientVars>>
     \/ side = "store" /\ StoreNext
        /\ UNCHANGED <<authVars, beatVars, discoveryVars, pushVars, submissionVars, clientVars>>
     \/ side = "heartbeat" /\ BeatNext
        /\ UNCHANGED <<authVars, storeVars, discoveryVars, pushVars, submissionVars, clientVars>>
     \/ side = "discovery" /\ DiscoveryNext
        /\ UNCHANGED <<authVars, storeVars, beatVars, pushVars, submissionVars, clientVars>>
     \/ side = "push" /\ PushNext
        /\ UNCHANGED <<authVars, storeVars, beatVars, discoveryVars, submissionVars, clientVars>>
     \/ side = "submission" /\ SubmissionNext
        /\ UNCHANGED <<authVars, storeVars, beatVars, discoveryVars, pushVars, clientVars>>
     \/ side = "client" /\ ClientNext
        /\ UNCHANGED <<authVars, storeVars, beatVars, discoveryVars, pushVars, submissionVars>>

MCSpec == MCInit /\ [][MCNext]_MCVars

\* Every variable of the seven modules has its type.
TypeOK == AuthTypeOK /\ StoreTypeOK /\ BeatTypeOK /\ DiscoveryTypeOK /\ PushTypeOK
          /\ SubmissionTypeOK /\ ClientTypeOK

Interchangeable == Permutations(Flows) \cup Permutations(Inbound) \cup Permutations(Calls)
==============================================================================
