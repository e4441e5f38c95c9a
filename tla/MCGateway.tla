------------------------------- MODULE MCGateway -------------------------------
(* The gateway: the verification of the key every request brings, and what a  *)
(* chat request goes through once its key is accepted.  They share no state,  *)
(* so a behaviour is of one of them: the states add up and do not multiply.   *)
EXTENDS GatewayKeys, ChatCompletions

VARIABLE side

MCVars == <<side, vars, chatVars>>

MCInit ==
  /\ side \in {"keys", "chat"}
  /\ Init /\ ChatInit
  /\ side = "keys" => incoming.name = <<"llama">> /\ incoming.messages = <<Message("user", 1)>>
  /\ side = "chat" => master = None /\ \A k \in Keys : valid[k]

MCNext ==
  /\ UNCHANGED side
  /\ \/ side = "keys" /\ Next /\ UNCHANGED chatVars
     \/ side = "chat" /\ ChatNext /\ UNCHANGED vars

MCSpec == MCInit /\ [][MCNext]_MCVars

ChatOnly == MCInit /\ side = "chat" /\ [][MCNext]_MCVars

\* Every variable of the two modules has its type.
TypeOK == KeysTypeOK /\ ChatTypeOK

Interchangeable == Permutations(Requests)

\* The README's example, giulia-: also the codename of claude.
PrefixSegments == <<"giulia">>
DottedVersions == (<<"4", "8">> :> "4.8") @@ (<<"4", "6">> :> "4.6")

Opus(v) == <<"claude", v, "opus">>
Configured == {Opus("4.8"), Opus("4.8") \o <<"thinking", "high">>, Opus("4.6"), <<"gemini", "flash">>,
               Opus("4.7") \o <<"thinking", "max">>}

Kinds ==
  {Message("system", 1), Message("user", 1), Message("user", 3),
   UserBlocks(1, <<"a">>), UserBlocks(0, <<"a", "b">>),
   AssistantCalls(1, {}, {}), AssistantCalls(0, {"a", "b"}, {}), AssistantCalls(0, {"a"}, {"b"}),
   ToolMessage("a", 1)}

Client(name, longest) ==
  [name |-> name, model |-> name, suffix |-> << >>, maxTokens |-> 0, tools |-> 0, system |-> 0,
   stream |-> FALSE, longest |-> longest]

\* Long conversations, of one model.
Talkers ==
  {Client(Opus("4.6"), 5), [Client(Opus("4.6"), 4) EXCEPT !.tools = 1, !.system = 1]}

\* Every way to name a model, with one message.
Namers ==
  UNION {{[Client(n, 1) EXCEPT !.model = m, !.suffix = s, !.maxTokens = t, !.stream = (t = 1000)] :
             n \in Forms(m, s), t \in {0, 1000, 16384, 40000}} :
         m \in {Opus("4.8"), Opus("4.7"), Opus("4.6"), <<"gemini", "flash">>}, s \in VariantSuffixes}

Strangers ==
  {Client(<<"gpt", "5">>, 1), [Client(<<"giulia", "gpt", "5">>, 1) EXCEPT !.stream = TRUE],
   Client(<<"llama">>, 1)}

AllClients == Talkers \cup Namers \cup Strangers

\* The configuration and the requests can be read in one way only.
ASSUME ReadInOneWay == NamesAreApart /\ NamesAreRead
==============================================================================
