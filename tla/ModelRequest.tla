---------------------------- MODULE ModelRequest ----------------------------
(***************************************************************************)
(* What a client of a model asks and what it makes of the answer           *)
(* (llm_client.py: the endpoint and its key, the effective parameters and  *)
(* the request they become, the key of the cache, text and usage of the    *)
(* reply, its cost; utils/pricing.py: the prices). Every client belongs to *)
(* one evaluation and has its own prices; the file of prices and the cache *)
(* are shared, and the cache is on. The attempts of a call are LLMCall's,  *)
(* the files of the cache ResponseCache's.                                 *)
(***************************************************************************)
EXTENDS Naturals, Sequences, FiniteSets, SequencesExt, Functions

CONSTANTS
  Clients,      \* ordered: the others follow the first
  Varied,       \* bound: of "endpoint", "price" and "content", what varies
  MaxCalls,     \* bound: answered requests
  MaxEdits      \* bound: changes of the file of prices

VARIABLES
  vary,     \* what varies in this behaviour
  client,   \* of each evaluation: its configuration and its prices
  file,     \* pricing.json
  cache,    \* key of a request -> the answer
  last,     \* the answer given last
  calls, edits

vars == <<vary, client, file, cache, last, calls, edits>>

None == "none"

---------------------------------------------------------------------------
(* The prices. A model's name begins with the names it extends. *)

Alias == <<"m">>                       \* the configured model
Names == {<<"m">>, <<"m", "1">>, <<"x">>}
Builtin == {<<"m">>}                   \* BUILTIN_PRICING
Absent == [n \in Names |-> None]       \* no file, or one that cannot be read

(* _load_custom_pricing, _normalize_entry: entries without a price are     *)
(* left out one by one.                                                    *)
Loaded(f) == {n \in Names : f[n] = "priced"}

Unpriced == [source |-> "unknown", key |-> <<>>, of |-> 0]
Price(source, key, of) == [source |-> source, key |-> key, of |-> of]
Longest(S) == CHOOSE k \in S : \A j \in S : Len(j) <= Len(k)

(* get_pricing: the override of this very name, else the longest beginning *)
(* of it that has a price.                                                 *)
GetPricing(c, model) ==
  LET Begins(S) == {k \in S : IsPrefix(k, model)}
  IN IF model \in client[c].overrides THEN Price("override", model, c)
     ELSE IF Begins(client[c].custom) # {}
     THEN Price("custom", Longest(Begins(client[c].custom)), 0)
     ELSE IF Begins(Builtin) # {} THEN Price("builtin", Longest(Begins(Builtin)), 0)
     ELSE Unpriced

(* The provider may answer as another model than the one configured. *)
ResponsePricing(c, model) ==
  GetPricing(c, IF Alias \in client[c].overrides THEN Alias ELSE model)

---------------------------------------------------------------------------
(* The client. *)

Providers == {"openai", "local", "deepseek", "siliconflow", "anthropic"}
Official == [p \in {"openai", "deepseek", "siliconflow", "anthropic"} |-> p]
NoClient == [made |-> FALSE, provider |-> None, base |-> None, key |-> None,
             thinking |-> None, timeout |-> 0, overrides |-> {}, custom |-> {}]

(* _resolve_api_key: a key, a reference to the environment, or the         *)
(* provider's own variable; a local server needs none.                     *)
Resolved(configured, env, provider) ==
  CASE configured = "key" -> "configured"
    [] configured = "reference" -> IF "named" \in env THEN "named" ELSE None
    [] OTHER -> IF "default" \in env THEN "default"
                ELSE IF provider = "local" THEN "placeholder" ELSE None

(* _initialize_client: where the requests go, or nowhere. *)
Base(provider, base) ==
  CASE provider = "local" -> base
    [] provider = "deepseek" -> IF base \in {None, "deepseek"} THEN "deepseek" ELSE None
    [] provider = "anthropic" -> "anthropic"
    [] OTHER -> IF base = None THEN Official[provider] ELSE base

---------------------------------------------------------------------------
(* A request. *)

Request == [system : {None, "empty"}, temperature : {0},
            custom : {<<>>, [temperature |-> 2], [enable_thinking |-> "off"],
                      [extra_body |-> "body"], [timeout |-> 9], [system_prompt |-> "other"],
                      [seed |-> 1]}]
Plain == [system |-> None, temperature |-> 0, custom |-> <<>>]
Reserved == {"model", "messages", "timeout", "system_prompt"}

(* _effective_params: what the strategy sets wins, but for what is         *)
(* reserved.                                                               *)
Effective(c, r) ==
  LET params == [temperature |-> r.temperature, timeout |-> client[c].timeout,
                 system_prompt |-> r.system]
      thinking == IF client[c].thinking = None THEN <<>>
                  ELSE [enable_thinking |-> client[c].thinking]
      custom == DOMAIN r.custom \ Reserved
  IN [field \in custom \cup DOMAIN params \cup DOMAIN thinking |->
        IF field \in custom THEN r.custom[field]
        ELSE IF field \in DOMAIN params THEN params[field] ELSE thinking[field]]

(* CacheKey.generate *)
Key(c, r) ==
  LET effective == Effective(c, r)
  IN [provider |-> client[c].provider, base |-> client[c].base,
      params |-> Restrict(effective, DOMAIN effective \ {"timeout"})]

(* _call_openai and _call_anthropic: what is sent, but for the deadline.   *)
Sent(c, r) ==
  LET effective == Effective(c, r)
      Has(field) == field \in DOMAIN effective
      thinking == IF ~Has("enable_thinking") \/ client[c].provider = "anthropic" THEN None
                  ELSE effective.enable_thinking
  IN [base |-> client[c].base,
      anthropic |-> client[c].provider = "anthropic",
      system |-> IF effective.system_prompt = "empty" THEN None ELSE effective.system_prompt,
      temperature |-> effective.temperature,
      body |-> IF Has("extra_body") THEN effective.extra_body ELSE None,
      thinking |-> IF thinking = None THEN <<>>
                   ELSE <<thinking, client[c].provider = "deepseek">>,
      others |-> Restrict(effective, DOMAIN effective \
                   {"system_prompt", "temperature", "timeout", "enable_thinking", "extra_body"})]

---------------------------------------------------------------------------
(* The answer. *)

(* _openai_usage, _anthropic_usage: incomplete usage is no usage. *)
Usages == {"absent", "incomplete", "negative", "whole"}
Usage(raw) ==
  IF raw \in {"absent", "incomplete"} THEN [missing |-> TRUE, tokens |-> 0]
  ELSE [missing |-> FALSE, tokens |-> IF raw = "negative" THEN 0 ELSE 1]

Blocks == {"text", "thinking"}
Contents == {<<>>} \cup [1..1 -> Blocks] \cup [1..2 -> Blocks]
IsText(block) == block = "text"
Text(content) == SelectSeq(content, IsText)
(* _extract_reasoning: a field of its own first, else the blocks. *)
Reasoning(field, content) ==
  IF field THEN <<"field">> ELSE SelectSeq(content, LAMBDA b : ~IsText(b))

Cost(price, usage) ==
  IF usage.missing \/ price = Unpriced THEN [known |-> FALSE, price |-> Unpriced, tokens |-> 0]
  ELSE [known |-> TRUE, price |-> price, tokens |-> usage.tokens]

NoAnswer == [of |-> 0, hit |-> FALSE, failed |-> TRUE, sent |-> None, model |-> <<>>,
             usage |-> Usage("absent"), cost |-> Cost(Unpriced, Usage("absent")),
             raw |-> <<>>, field |-> FALSE, text |-> <<>>, reasoning |-> <<>>]

Init ==
  /\ vary \in Varied
  /\ client = [c \in Clients |-> NoClient]
  /\ file = Absent
  /\ cache = <<>>
  /\ last = NoAnswer
  /\ calls = 0 /\ edits = 0

---------------------------------------------------------------------------
(* The file is edited, or found broken. *)
Edit(f) ==
  /\ vary = "price" /\ edits < MaxEdits /\ f # file
  /\ edits' = edits + 1
  /\ file' = f
  /\ UNCHANGED <<vary, client, cache, last, calls>>

(* __init__, _initialize_client: without a key or an endpoint there is no  *)
(* client; the evaluation's overrides are set on it before its first call. *)
(* Bound: the second differs in its endpoint only where endpoints vary.    *)
Create(c, provider, base, configured, env, thinking, overrides) ==
  LET key == Resolved(configured, env, provider)
      endpoint == Base(provider, base)
  IN /\ ~client[c].made /\ \A d \in Clients : d < c => client[d].made
     /\ \/ configured = "key" /\ env = {}
        \/ vary = "endpoints" /\ c = 1 /\ base # "deepseek" /\ thinking = None
     /\ key # None /\ endpoint # None
     /\ client' = [client EXCEPT ![c] =
          [made |-> TRUE, provider |-> provider, base |-> endpoint, key |-> key,
           thinking |-> thinking, timeout |-> c, overrides |-> overrides,
           custom |-> Loaded(file)]]
     /\ UNCHANGED <<vary, file, cache, last, calls, edits>>

(* generate: an answer of the cache is priced anew where the evaluation    *)
(* has a price of its own for it.                                          *)
Repriced(c, found) ==
  IF client[c].overrides \cap {Alias, found.model} # {}
  THEN Cost(ResponsePricing(c, found.model), found.usage)
  ELSE found.cost

Hit(c, r) ==
  /\ client[c].made /\ calls < MaxCalls /\ Key(c, r) \in DOMAIN cache
  /\ LET found == cache[Key(c, r)]
     IN last' = [found EXCEPT !.of = c, !.hit = TRUE, !.cost = Repriced(c, found)]
  /\ calls' = calls + 1
  /\ UNCHANGED <<vary, client, file, cache, edits>>

(* Bound: one answer is kept; what is missed beside it, the same way       *)
(* asked, would be one more.                                               *)
Ask(c, r, model, raw, field, content) ==
  LET named == IF model = <<>> THEN Alias ELSE model
      usage == Usage(raw)
      answer == [of |-> c, hit |-> FALSE, failed |-> FALSE, sent |-> Sent(c, r),
                 model |-> named, usage |-> usage,
                 cost |-> Cost(ResponsePricing(c, named), usage),
                 raw |-> content, field |-> field, text |-> Text(content),
                 reasoning |-> Reasoning(field, content)]
  IN /\ client[c].made /\ calls < MaxCalls /\ cache = <<>>
     /\ calls' = calls + 1
     /\ last' = answer
     /\ cache' = [key \in {Key(c, r)} |-> answer]
     /\ UNCHANGED <<vary, client, file, edits>>

(* A provider's error is told to the caller and kept nowhere. *)
Fail(c, r) ==
  /\ vary = "content" /\ client[c].made /\ calls < MaxCalls
  /\ Key(c, r) \notin DOMAIN cache
  /\ last' = [NoAnswer EXCEPT !.of = c]
  /\ calls' = calls + 1
  /\ UNCHANGED <<vary, client, file, cache, edits>>

(* Bounds: what varies in the clients, the requests and the answers.       *)
Vary(what, S, usual) == IF vary = what THEN S ELSE {usual}
Overrides == Vary("price", {{}} \cup {{n} : n \in Names}, {})
Questions == Vary("endpoints", Request, Plain)
Answerers == Vary("price", {<<>>} \cup Names, <<>>)
RawUsages == CASE vary = "price" -> {"absent", "whole"} [] vary = "content" -> Usages
               [] OTHER -> {"whole"}

Next ==
  \/ \E n \in Names, entry \in {"priced", "unpriced"} : Edit([file EXCEPT ![n] = entry])
  \/ Edit(Absent)
  \/ \E c \in {d \in Clients : ~client[d].made},
        provider \in Vary("endpoints", Providers, "openai"),
        base \in Vary("endpoints", {None, "deepseek", "other"}, None),
        configured \in {None, "key", "reference"}, env \in SUBSET {"named", "default"},
        thinking \in Vary("endpoints", {None, "on"}, None), overrides \in Overrides :
       Create(c, provider, base, configured, env, thinking, overrides)
  \/ \E c \in {d \in Clients : client[d].made}, r \in Questions :
       \/ Hit(c, r)
       \/ Fail(c, r)
       \/ /\ cache = <<>>
          /\ \E model \in Answerers, raw \in RawUsages, field \in Vary("content", BOOLEAN, FALSE),
                content \in Vary("content", Contents, <<"text">>) :
               Ask(c, r, model, raw, field, content)

Spec == Init /\ [][Next]_vars

TypeOK ==
  /\ vary \in Varied
  /\ file \in [Names -> {None, "priced", "unpriced"}]
  /\ \A c \in Clients : client[c].overrides \subseteq Names /\ client[c].custom \subseteq Names
  /\ calls \in 0..MaxCalls /\ edits \in 0..MaxEdits

(* What the cache would answer is what the provider was asked, whatever    *)
(* the client, the strategy's parameters and the provider's own spelling   *)
(* of them (CacheKey.generate, _call_openai, _call_anthropic).             *)
CacheAnswersTheSame ==
  \A c \in {d \in Clients : client[d].made}, r \in Request :
    Key(c, r) \in DOMAIN cache => cache[Key(c, r)].sent = Sent(c, r)

(* A cost is told if and only if usage and price are known, and is that of *)
(* the evaluation's own price where it has one: an answer from the cache   *)
(* costs what a new one would (generate, _response_pricing).               *)
CostIsOwn ==
  ~last.failed =>
    LET own == client[last.of].overrides \cap {Alias, last.model}
    IN /\ last.cost.known => ~last.usage.missing /\ last.cost.price # Unpriced
       /\ own # {} => /\ last.cost.known = ~last.usage.missing
                      /\ last.cost.known => /\ last.cost.price.source = "override"
                                            /\ last.cost.price.of = last.of
                                            /\ last.cost.price.key \in own
       /\ ~last.hit => last.cost = Cost(ResponsePricing(last.of, last.model), last.usage)

(* The text is what the model answered, without what it thought, and what  *)
(* it thought is not lost (_extract_text, _extract_reasoning).             *)
TextIsAnswer ==
  /\ \A i \in DOMAIN last.text : last.text[i] = "text"
  /\ Len(last.text) = Cardinality({i \in DOMAIN last.raw : last.raw[i] = "text"})
  /\ "thinking" \in ToSet(last.raw) => last.reasoning # <<>>

RequestsAreOwn == CacheAnswersTheSame /\ CostIsOwn
=============================================================================
