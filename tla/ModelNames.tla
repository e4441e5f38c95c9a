------------------------------ MODULE ModelNames ------------------------------
(***************************************************************************)
(* The names of models at the gateway.  A name is the sequence of its      *)
(* dash-separated segments.  Configured models are published under         *)
(* codenames and a prefix; a request may use the public name, the          *)
(* canonical one, the older form with the version behind the family, and   *)
(* any of them with a variant suffix.                                      *)
(*                                                                         *)
(* An operator whose name ends in _Wrong is a faulty variant of the one    *)
(* after it; no specification uses it.                                     *)
(***************************************************************************)
EXTENDS Integers, Sequences, SequencesExt

CONSTANTS
  Prefix,    \* GATEWAY_MODEL_PREFIX, as segments
  Versions,  \* the dotted version of two segments of digits
  Models     \* the bare names of the configuration

Aliases == [claude |-> "giulia", opus |-> "leonardo", sonnet |-> "raptor"]
Codenames == [giulia |-> "claude", leonardo |-> "opus", raptor |-> "sonnet"]

ReplaceSegments(name, mapping) ==
  [i \in DOMAIN name |-> IF name[i] \in DOMAIN mapping THEN mapping[name[i]] ELSE name[i]]

\* The configured prefix is words and a last dash: a name begins with it when
\* more follows.
Prefixed(name) == Prefix # << >> /\ IsStrictPrefix(Prefix, name)

\* _strip_gateway_prefix
Unprefixed(name) ==
  IF Prefixed(name) THEN SubSeq(name, Len(Prefix) + 1, Len(name)) ELSE name

ToPublicName(name) ==
  LET aliased == ReplaceSegments(name, Aliases)
  IN  IF Prefixed(aliased) THEN aliased ELSE Prefix \o aliased

EndsWith(name, suffix) == IsSuffix(suffix, name)
Without(name, suffix) == SubSeq(name, 1, Len(name) - Len(suffix))

\* _is_openai_model
IsOpenAI(name) == LET bare == Unprefixed(name) IN bare # << >> /\ bare[1] \in {"gpt", "o3", "chatgpt"}

\* What a suffix of the two tables asks of the model: a budget, adaptive
\* thinking, or no thinking.
Budgets == <<
  [suffix |-> <<"thinking", "max">>,  thinking |-> 32768],
  [suffix |-> <<"thinking", "high">>, thinking |-> 16384],
  [suffix |-> <<"thinking">>,         thinking |-> 16384],
  [suffix |-> <<"xhigh">>,            thinking |-> 65536],
  [suffix |-> <<"max">>,              thinking |-> 0],
  [suffix |-> <<"high">>,             thinking |-> 0]>>

Adaptive == -1

Adaptives ==
  [i \in DOMAIN Budgets |->
     [Budgets[i] EXCEPT !.thinking = IF @ = 0 THEN 0 ELSE Adaptive]]
  \o <<[suffix |-> <<"medium">>, thinking |-> 0]>>

AdaptiveFamilies ==
  {<<"claude", "4.7", "opus">>, <<"claude", "4.8", "opus">>, <<"claude", "sonnet", "5">>}

\* The first entry of the table whose suffix Ends accepts; 0 when there is none.
FirstMatch(table, Ends(_)) ==
  LET hits == {i \in DOMAIN table : Ends(table[i].suffix)}
  IN  IF hits = {} THEN 0 ELSE Min(hits)

\* claude-opus-4-8-x and claude-opus-4.8-x become claude-4.8-opus-x.
Normalized(name) ==
  LET rest    == SubSeq(name, 3, Len(name))
      hit     == FirstMatch(Budgets, LAMBDA s : EndsWith(rest, s))
      suffix  == IF hit = 0 THEN << >> ELSE Budgets[hit].suffix
      digits  == Without(rest, suffix)
      version == IF digits \in DOMAIN Versions THEN <<Versions[digits]>> ELSE digits
  IN  IF IsPrefix(<<"claude", "opus">>, name) /\ Len(name) > 2
        THEN <<"claude">> \o version \o <<"opus">> \o suffix
        ELSE name

ToCanonicalName_Wrong(name) == ReplaceSegments(Unprefixed(name), Codenames)

ToCanonicalName(name) == Normalized(ReplaceSegments(Unprefixed(name), Codenames))

ModelNamesConfigured == {ToPublicName(m) : m \in Models}

\* _resolve_model_name: the name itself, its canonical form, or that without the
\* first suffix that makes it a configured one.
Resolve(name) ==
  LET core == ToCanonicalName(name)
      Candidates(n) == {ToPublicName(n), n} \cap ModelNamesConfigured
      hits == {i \in DOMAIN Budgets :
                 EndsWith(core, Budgets[i].suffix) /\ Candidates(Without(core, Budgets[i].suffix)) # {}}
      base == Without(core, Budgets[Min(hits)].suffix)
      Preferred(n) == IF ToPublicName(n) \in ModelNamesConfigured THEN ToPublicName(n) ELSE n
  IN  IF name \in ModelNamesConfigured THEN name
      ELSE IF Candidates(core) # {} THEN Preferred(core)
      ELSE IF hits # {} THEN Preferred(base)
      ELSE name

\* _variant_kwargs: the family's table, and in it the first suffix of the name.
Thinking(name) ==
  LET canonical == ToCanonicalName(name)
      table == IF \E f \in AdaptiveFamilies : IsPrefix(f, canonical) THEN Adaptives ELSE Budgets
      hit   == FirstMatch(table, LAMBDA s : EndsWith(canonical, s) \/ EndsWith(name, s))
  IN  IF hit = 0 THEN 0 ELSE table[hit].thinking

------------------------------------------------------------------------------
(* The names a request may use, and when a name can be read in one way only. *)

VariantSuffixes == {<< >>} \cup {Budgets[i].suffix : i \in DOMAIN Budgets}

IsOpus(model) == Len(model) = 3 /\ model[1] = "claude" /\ model[3] = "opus"

\* The ways to write a model with a suffix: the canonical name, the public one,
\* that without the prefix, and the older forms with the version last.
Forms(model, suffix) ==
  LET full == model \o suffix
      older == {v \in {<<model[2]>>} \cup DOMAIN Versions :
                  v = <<model[2]>> \/ Versions[v] = model[2]}
  IN  {full, ToPublicName(full), ReplaceSegments(full, Aliases)}
      \cup IF IsOpus(model) THEN {<<"claude", "opus">> \o v \o suffix : v \in older} ELSE {}

\* A canonical name that holds no codename, is not of the older form, and has the
\* prefix at most once: what is left of it behind the prefix, if its public name
\* begins with that, is such a name too.
Apart(name) ==
  LET aliased == ReplaceSegments(name, Aliases)
      bare    == Unprefixed(aliased)
  IN
  /\ name \in Seq(STRING) /\ name # << >>
  /\ \A i \in DOMAIN name : name[i] \notin DOMAIN Codenames
  /\ \A n \in {name, ReplaceSegments(bare, Codenames)} : ~IsPrefix(<<"claude", "opus">>, n)
  /\ \A n \in {aliased, bare} : ~IsPrefix(n, Prefix)
  /\ ~Prefixed(bare)

SuffixWords == {"thinking", "max", "high", "xhigh"}
VersionWords == STRING \ (SuffixWords \cup {"medium"} \cup DOMAIN Codenames)

\* The name of a model without a variant.
IsBase(name) ==
  /\ Apart(name)
  /\ name[Len(name)] \notin SuffixWords
  /\ IsOpus(name) => name[2] \in VersionWords

NamesAreApart ==
  /\ Prefix \in Seq(STRING \ DOMAIN Aliases)
  /\ \A m \in Models : Apart(m)
  /\ \A d \in DOMAIN Versions : d \in Seq(VersionWords) /\ Len(d) = 2
==============================================================================
