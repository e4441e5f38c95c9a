---------------------------- MODULE RequestCleaner ----------------------------
(***************************************************************************)
(* What the gateway does to a conversation before it forwards it: the tool *)
(* calls and results are brought into one format, results of no call are   *)
(* dropped, and a conversation too long for the model is split into a      *)
(* history to summarise and a tail to keep.                                *)
(*                                                                         *)
(* A message has the tokens of its text, an assistant's calls (tool_calls) *)
(* and uses (blocks tool_use), the results a user's list of blocks holds,  *)
(* and of, the call that a tool message answers.  A string as a user's     *)
(* content is told from a list by list.  lost is history: the calls of a   *)
(* message that cleaning it has overwritten.                               *)
(*                                                                         *)
(* An operator whose name ends in _Wrong is a faulty variant of the one    *)
(* after it; no specification uses it.                                     *)
(***************************************************************************)
EXTENDS Integers, Sequences, SequencesExt

CONSTANTS
  Ids,      \* of tool calls
  NoCall,
  MinTail,  \* MIN_TAIL
  Limit,    \* context_limit_for_model
  Reserve   \* CONDENSATION_RESERVE

ASSUME LimitsAreNat == MinTail \in Nat /\ Limit \in Nat /\ Reserve \in Nat

Roles == {"system", "user", "assistant", "tool"}

Messages ==
  {m \in [role : Roles, text : Nat, calls : SUBSET Ids, uses : SUBSET Ids, lost : SUBSET Ids,
          list : BOOLEAN, results : Seq(Ids), of : Ids \cup {NoCall}] :
     /\ IsFiniteSet(m.calls) /\ IsFiniteSet(m.uses)
     /\ m.uses # {} => m.role = "assistant"
     /\ m.results # << >> => m.role = "user" /\ m.list}

Message(role, text) ==
  [role |-> role, text |-> text, calls |-> {}, uses |-> {}, lost |-> {}, list |-> FALSE,
   results |-> << >>, of |-> NoCall]

UserBlocks(text, results) ==
  [Message("user", text) EXCEPT !.list = TRUE, !.results = results]

AssistantCalls(text, calls, uses) ==
  [Message("assistant", text) EXCEPT !.calls = calls, !.uses = uses]

ToolMessage(id, text) == [Message("tool", text) EXCEPT !.of = id]

\* estimate_tokens of a cleaned message: a call costs a token, a message at least one.
Tokens(m) == Max({1, m.text + Cardinality(m.calls) + Len(m.results)})

TokensOf(messages) == FoldLeft(LAMBDA sum, m : sum + Tokens(m), 0, messages)

\* The results that answer pending calls, each a message of its own.
Answers(ids, pending) ==
  FoldLeft(LAMBDA found, id : IF id \in pending THEN Append(found, ToolMessage(id, 1)) ELSE found,
           << >>, ids)

\* A user's blocks: first what is left of the message, then its results.
FromBlocks(m, pending) ==
  (IF m.text = 0 THEN << >> ELSE <<[m EXCEPT !.results = << >>]>>) \o Answers(m.results, pending)

\* An assistant's message in one format: its blocks become its tool_calls, in the
\* place of those it had.
Converted(m) ==
  IF m.uses = {}
    THEN [m EXCEPT !.lost = {}]
    ELSE [m EXCEPT !.calls = m.uses, !.uses = {}, !.lost = m.calls \ m.uses]

\* extract_tool_use_ids: the calls of both formats.
ToolUseIds(m) == m.calls \cup m.uses

CleanNext_Wrong(acc, m) ==     \* the calls of earlier turns stay pending
  IF m.role = "assistant"
    THEN [out |-> Append(acc.out, Converted(m)), pending |-> acc.pending \cup ToolUseIds(m)]
  ELSE IF m.role = "user" /\ m.list
    THEN [out |-> acc.out \o FromBlocks(m, acc.pending), pending |-> acc.pending]
  ELSE IF m.role = "tool" /\ m.of \notin acc.pending
    THEN acc
  ELSE [acc EXCEPT !.out = Append(@, m)]

\* One message of the loop: an assistant message sets the pending calls, those of
\* both formats; a user's list of blocks clears them; a tool message of no
\* pending call is dropped.
CleanNext(acc, m) ==
  IF m.role = "assistant"
    THEN [out |-> Append(acc.out, Converted(m)), pending |-> ToolUseIds(m)]
  ELSE IF m.role = "user" /\ m.list
    THEN [out |-> acc.out \o FromBlocks(m, acc.pending), pending |-> {}]
  ELSE IF m.role = "tool" /\ m.of \notin acc.pending
    THEN acc
  ELSE [acc EXCEPT !.out = Append(@, m)]

\* clean_messages
Clean(messages) == FoldLeft(CleanNext, [out |-> << >>, pending |-> {}], messages).out

------------------------------------------------------------------------------
WithRole(messages, roles) ==
  FoldLeft(LAMBDA kept, m : IF m.role \in roles THEN Append(kept, m) ELSE kept, << >>, messages)

SystemOf(messages) == WithRole(messages, {"system"})
OthersOf(messages) == WithRole(messages, Roles \ {"system"})

IsResult(m) == m.role = "tool" \/ (m.role = "user" /\ m.list /\ m.results # << >>)

Budget_Wrong(messages, tools) == Limit - tools - Reserve   \* system messages not counted

\* What the tail may cost.  The system parameter of the request is in the total
\* of NeedsSplit, not here.
Budget(messages, tools) == Limit - TokensOf(SystemOf(messages)) - tools - Reserve

\* The longest tail within the budget, but MinTail messages at least.
TailFrom(others, budget) ==
  LET n == Len(others)
      Fits(i) == TokensOf(SubSeq(others, i, n)) <= budget \/ n - i + 1 < MinTail
      reach == Min({i \in 1..(n + 1) : \A j \in i..n : Fits(j)})
  IN  Min({reach, Max({0, n - MinTail}) + 1})

\* Results at the start of the tail belong to calls before it: skipped.
AfterResults(others, from) ==
  Min({i \in from..(Len(others) + 1) :
         (\A j \in from..(i - 1) : IsResult(others[j]))
         /\ (i <= Len(others) => ~IsResult(others[i]))})

NoSplit == [history |-> << >>, tail |-> << >>]

TooLong(messages, tools, system) == TokensOf(messages) + tools + system > Limit

\* split_for_condensation, without the system messages it puts before the tail.
Split(messages, tools, system) ==
  LET others == OthersOf(messages)
      from   == AfterResults(others, TailFrom(others, Budget(messages, tools)))
  IN  IF TooLong(messages, tools, system)
        THEN [history |-> SubSeq(others, 1, from - 1),
              tail    |-> SubSeq(others, from, Len(others))]
        ELSE NoSplit

Condenses(split) == split.history # << >>

\* The four messages that carry the summary and the draft.
Notes == <<Message("user", 1), Message("assistant", 1), Message("user", 1), Message("assistant", 1)>>

\* inject_draft_into_messages
Injected(messages, tail) == SystemOf(messages) \o Notes \o tail
==============================================================================
