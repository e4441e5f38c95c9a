---------------------------- MODULE ChatCompletions ----------------------------
(***************************************************************************)
(* One request to the gateway's chat completions.  A model of OpenAI's is  *)
(* passed through.  For any other the name is resolved, the conversation   *)
(* cleaned and, when it is too long, condensed by two calls that run at    *)
(* once: a summary of the history and a draft of the answer.  When either  *)
(* fails the tail goes alone, while the other call runs on.                *)
(*                                                                         *)
(* An operator whose name ends in _Wrong is a faulty variant of the one    *)
(* after it; no specification uses it.                                     *)
(***************************************************************************)
EXTENDS RequestCleaner, ModelNames

CONSTANTS
  Clients,       \* [name, model, suffix, maxTokens, tools, system, stream, longest]: the name
                 \* as it is written, what it means, the parameters (0 or FALSE when absent),
                 \* and the bound on the number of messages
  MessageKinds,  \* what conversations are made of
  HasOpenAI      \* is OPENAI_API_KEY set?

ASSUME KindsAreMessages == MessageKinds \subseteq Messages
ASSUME ParametersAreNat ==
  \A c \in Clients : c.maxTokens \in Nat /\ c.tools \in Nat /\ c.system \in Nat
                    /\ c.longest \in Nat /\ c.stream \in BOOLEAN

VARIABLES
  incoming,
  phase,
  cleaned,   \* the messages of the cleaned body
  split,     \* what split_for_condensation returned
  job,       \* the two calls
  sent       \* the arguments of the router's completion

chatVars == <<incoming, phase, cleaned, split, job, sent>>

Jobs == {"condense", "generate"}
Nothing == [model |-> << >>, messages |-> << >>, maxTokens |-> 0, thinking |-> 0]

ChatInit ==
  /\ \E c \in Clients : \E n \in 1..c.longest : \E messages \in [1..n -> MessageKinds] :
       incoming = [client |-> c, name |-> c.name, messages |-> messages]
  /\ phase = "arrived"
  /\ cleaned = << >>
  /\ split = NoSplit
  /\ job = [j \in Jobs |-> "idle"]
  /\ sent = Nothing

Becomes(p) == phase' = p

\* _openai_passthrough: 503 without a key; otherwise the answer is relayed as it
\* comes, or an answer that is no JSON is a 500.
Passthrough ==
  /\ phase = "arrived"
  /\ IsOpenAI(incoming.name)
  /\ IF HasOpenAI
       THEN \E p \in {"served", "error"} \cup (IF incoming.client.stream THEN {"streaming"} ELSE {}) : Becomes(p)
       ELSE Becomes("error")
  /\ UNCHANGED <<incoming, cleaned, split, job, sent>>

\* 400: no configured model of this name.
Refuse ==
  /\ phase = "arrived"
  /\ ~IsOpenAI(incoming.name)
  /\ Resolve(incoming.name) \notin ModelNamesConfigured
  /\ Becomes("refused")
  /\ UNCHANGED <<incoming, cleaned, split, job, sent>>

\* process_request_body and split_for_condensation; both calls start together.
Prepare ==
  LET body == Clean(incoming.messages)
      parts == Split(body, incoming.client.tools, incoming.client.system)
  IN
  /\ phase = "arrived"
  /\ ~IsOpenAI(incoming.name)
  /\ Resolve(incoming.name) \in ModelNamesConfigured
  /\ cleaned' = body
  /\ IF Condenses(parts)
       THEN /\ split' = parts
            /\ job' = [j \in Jobs |-> "running"]
            /\ Becomes("condensing")
       ELSE /\ Becomes("ready")
            /\ UNCHANGED <<split, job>>
  /\ sent' = [sent EXCEPT !.messages = body]
  /\ UNCHANGED incoming

\* A call ends, wanted or not.
JobEnds(j) ==
  /\ job[j] = "running"
  /\ \E how \in {"done", "failed"} : job' = [job EXCEPT ![j] = how]
  /\ UNCHANGED <<incoming, phase, cleaned, split, sent>>

Inject_Wrong ==      \* as soon as the summary is there
  /\ phase = "condensing"
  /\ job["condense"] = "done"
  /\ sent' = [sent EXCEPT !.messages = Injected(cleaned, split.tail)]
  /\ Becomes("ready")
  /\ UNCHANGED <<incoming, cleaned, split, job>>

Inject ==
  /\ phase = "condensing"
  /\ \A j \in Jobs : job[j] = "done"
  /\ sent' = [sent EXCEPT !.messages = Injected(cleaned, split.tail)]
  /\ Becomes("ready")
  /\ UNCHANGED <<incoming, cleaned, split, job>>

\* gather raises with the first failure and leaves the other call running.
FallBack ==
  /\ phase = "condensing"
  /\ \E j \in Jobs : job[j] = "failed"
  /\ sent' = [sent EXCEPT !.messages = SystemOf(cleaned) \o split.tail]
  /\ Becomes("ready")
  /\ UNCHANGED <<incoming, cleaned, split, job>>

\* A budget for thinking must leave tokens for the answer.
MaxTokens(asked, thinking) ==
  LET max == IF asked = 0 THEN 16384 ELSE asked
  IN  IF thinking > 0 /\ max <= thinking THEN thinking + 4096 ELSE max

\* The variant is that of the name the request used.
Forward ==
  /\ phase = "ready"
  /\ sent' = [model     |-> Resolve(incoming.name),
              messages  |-> sent.messages,
              maxTokens |-> MaxTokens(incoming.client.maxTokens, Thinking(incoming.name)),
              thinking  |-> Thinking(incoming.name)]
  /\ Becomes("forwarded")
  /\ UNCHANGED <<incoming, cleaned, split, job>>

\* 502 when the router raises.
Completed ==
  /\ phase = "forwarded"
  /\ \E p \in {IF incoming.client.stream THEN "streaming" ELSE "served", "error"} : Becomes(p)
  /\ UNCHANGED <<incoming, cleaned, split, job, sent>>

\* _stream_chunks: [DONE], or the source breaks off and so does the stream.
StreamEnds ==
  /\ phase = "streaming"
  /\ \E p \in {"served", "broken"} : Becomes(p)
  /\ UNCHANGED <<incoming, cleaned, split, job, sent>>

ChatNext ==
  \/ Passthrough \/ Refuse \/ Prepare
  \/ \E j \in Jobs : JobEnds(j)
  \/ Inject \/ FallBack \/ Forward \/ Completed \/ StreamEnds

ChatSpec == ChatInit /\ [][ChatNext]_chatVars

------------------------------------------------------------------------------
ChatTypeOK ==
  /\ phase \in {"arrived", "condensing", "ready", "forwarded", "streaming",
                "served", "broken", "error", "refused"}
  /\ \A s \in {cleaned, split.history, split.tail, sent.messages} :
       \A i \in DOMAIN s :
         /\ s[i].role \in Roles
         /\ s[i].results = << >> /\ s[i].uses = {}
  /\ job \in [Jobs -> {"idle", "running", "done", "failed"}]
  /\ sent.maxTokens \in Nat /\ sent.thinking \in Int

Forwarded == phase \in {"forwarded", "streaming"} /\ sent # Nothing

\* What the model is sent of the conversation itself.
Kept == IF Condenses(split) THEN split.tail ELSE OthersOf(cleaned)

\* Every tool result that is sent answers a call of the last assistant message
\* before it.  The model need not see that call, in two cases: the message made it
\* as a tool_call and was cleaned to the blocks it also had; or the user spoke
\* between the call and its result, and the tail begins with those words.
ResultsFollowCalls ==
  Forwarded => \A i \in DOMAIN Kept : Kept[i].role = "tool" =>
    LET before == {j \in 1..(i - 1) : Kept[j].role = "assistant"}
        caller == Kept[Max(before)]
    IN  IF before = {} THEN Condenses(split) /\ Kept[1].role = "user"
        ELSE Kept[i].of \in caller.calls \cup caller.lost

\* The system messages and the end of the conversation always reach the model: of
\* the last MinTail messages every one that is no result, with all that follows.
\* What is left out before it is summarised, all of it, by two calls that are both
\* done, or one of them has failed; one that ends later changes nothing of it.
ConversationReachesTheModel ==
  Forwarded =>
    LET others == OthersOf(cleaned)
        body   == OthersOf(sent.messages)
        n      == Len(others)
    IN
    /\ SystemOf(sent.messages) = SystemOf(cleaned)
    /\ \A i \in 1..n :
         n - i < MinTail /\ ~IsResult(others[i]) => IsSuffix(SubSeq(others, i, n), body)
    /\ \/ body = others
       \/ /\ body = Notes \o split.tail /\ split.history \o split.tail = others
          /\ \A j \in Jobs : job[j] = "done"
       \/ \E j \in Jobs : job[j] = "failed"

\* A condensed prompt, without the notes and the system parameter, leaves the
\* reserve free, unless it is down to the least number of messages.
PromptFits ==
  Forwarded /\ Condenses(split) =>
    \/ TokensOf(SystemOf(cleaned) \o split.tail) + incoming.client.tools + Reserve <= Limit
    \/ Len(split.tail) <= MinTail

\* Which clients name a configured model, or one whose variant is configured.
NamesAModel(c) ==
  {ToPublicName(c.model), ToPublicName(c.model \o c.suffix)} \cap ModelNamesConfigured # {}

\* A client writes a model in one of the forms of it; or what it names is no model
\* of the configuration, and then the gateway knows none by that name.
NamesAreRead ==
  \A c \in Clients :
    IF NamesAModel(c)
      THEN IsBase(c.model) /\ c.suffix \in VariantSuffixes /\ c.name \in Forms(c.model, c.suffix)
      ELSE IsOpenAI(c.name) \/ Resolve(c.name) \notin ModelNamesConfigured

\* The prefix is also how the model's public name begins without it (giulia- and a
\* claude model), and is taken off the name that a request gives.
ReadWithoutFamily(name, full) == Prefixed(name) /\ Prefixed(ReplaceSegments(full, Aliases))

\* However a request writes a model and a variant of it, with any prefix, it is not
\* refused: it is routed to that variant when it is configured and to the model
\* otherwise, and with room for an answer beyond the thinking.  The thinking is that
\* of the variant's canonical name, unless the name is read without its family.
RoutedAsNamed ==
  LET c    == incoming.client
      full == c.model \o c.suffix
  IN
  /\ phase = "refused" => ~NamesAModel(c)
  /\ Forwarded =>
       /\ sent.model = ToPublicName(IF ToPublicName(full) \in ModelNamesConfigured THEN full ELSE c.model)
       /\ ReadWithoutFamily(c.name, full) \/ sent.thinking = Thinking(full)
       /\ sent.maxTokens > sent.thinking

\* The split's documentation: the tail always includes at least the last four
\* messages that are not the system's.
TailKeepsTheLast ==
  Condenses(split) => Len(split.tail) >= MinTail
==============================================================================
