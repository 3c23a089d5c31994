------------------------------- MODULE Gateway -------------------------------
(***************************************************************************)
(* LLMGateway.generate_text of agentica_core/llm/gateway.py and its two    *)
(* facades call_llm and call_routed_llm: which models a call may try, in   *)
(* which order, which provider each name goes to, and how often a provider *)
(* is asked before the next model has its turn.  A behaviour is one call:  *)
(* the gateway keeps nothing between two.                                  *)
(*                                                                         *)
(* Abstractions.                                                           *)
(*  - A model name is a member of Models; Shape[m] has what the dispatch   *)
(*    looks for in it: the part before "/", a ":", ":free", "gemini-".     *)
(*    Names that differ in case or blanks only are one model.              *)
(*  - The alias tables of _normalize_requested_model are Normal.           *)
(*  - Prompts and answers: whether a prompt is too long, whether an answer *)
(*    is blank or lacks the JSON keys a caller wants.                      *)
(***************************************************************************)
EXTENDS Naturals, Sequences, SequencesExt

CONSTANTS
  Models,         \* model names
  Shape,          \* Shape[m]: what the dispatch sees in the name m
  LocalModel,     \* LOCAL_MODEL, whatever the environment names
  AutoModel,      \* "openrouter/auto"
  NoModel,        \* no model requested
  FreeChain, PremiumTop, FastTop, LocalFirstTop,  \* the rosters
  Routed,         \* ROUTED_MODELS[provider][task]
  Normal,         \* Normal[tier][m]: _normalize_requested_model
  Pinned,         \* model chains that direct callers pass
  MaxRetries      \* MAX_RETRIES

Providers == {"anthropic", "gemini", "openai", "openrouter", "ollama"}

Shapes ==
  [provider : {"none", "anthropic", "google", "openai", "other"},
   tag : BOOLEAN, free : BOOLEAN, gemini : BOOLEAN]

Tasks == {"classification", "analysis"}
CallTiers == {"PREMIUM", "FAST", "FREE", "LOCAL_FIRST", "LOCAL"}

ASSUME ShapeAssumption == Shape \in [Models -> Shapes]
ASSUME LocalAssumption == LocalModel \in Models
ASSUME RosterAssumption ==
  /\ {FreeChain, PremiumTop, FastTop, LocalFirstTop} \subseteq Seq(Models)
  /\ FreeChain /= << >>
  /\ Pinned \subseteq Seq(Models) \ {<< >>}
  /\ AutoModel \in Models /\ NoModel \notin Models
  /\ Normal \in [CallTiers -> [Models -> Models]]
ASSUME RoutedAssumption ==
  /\ Routed \in [{"claude", "gemini", "ollama", "openrouter"} -> [Tasks -> Models]]
  /\ \A t \in Tasks :
       /\ Shape[Routed["claude"][t]].provider = "anthropic"
       /\ ~Shape[Routed["claude"][t]].free
       /\ Shape[Routed["gemini"][t]] =
            [provider |-> "none", tag |-> FALSE, free |-> FALSE, gemini |-> TRUE]
       /\ Shape[Routed["ollama"][t]].provider = "none"
       /\ Shape[Routed["ollama"][t]].tag /\ ~Shape[Routed["ollama"][t]].free
       /\ Shape[Routed["openrouter"][t]].free
ASSUME RetriesAssumption == MaxRetries \in Nat \ {0}

PremiumChain == PremiumTop \o FreeChain
FastChain == FastTop \o FreeChain
LocalFirstChain == LocalFirstTop \o FreeChain

\* What the environment gives one LLMGateway: the credentials, of which
\* Gemini may have two, LLM_DEFAULT_TIER and LOCAL_SAFETY_NET_ENABLED.
Settings ==
  [keys : SUBSET {"anthropic", "openai", "openrouter"}, geminiKeys : 0 .. 2,
   premium : BOOLEAN, safetyNet : BOOLEAN]

\* The calls: generate_text with a chain, a model or neither; call_llm with a
\* requested model, a tier and perhaps JSON keys; call_routed_llm with a task.
Direct ==
  [way : {"direct"}, chain : Pinned \union {<< >>}, model : Models \union {NoModel},
   localOnly : BOOLEAN]
Legacy ==
  [way : {"legacy"}, model : Models \union {NoModel}, tier : CallTiers, json : BOOLEAN]
RoutedCalls ==
  [way : {"routed"}, task : Tasks, localOnly : BOOLEAN]

Calls == Direct \union Legacy \union RoutedCalls

VARIABLES
  settings,  \* the environment of the call
  call,      \* the call under way
  chain,     \* models in the order they are tried
  at,        \* position in chain, 0 when the call has ended
  key,       \* which Gemini key is used
  attempt,   \* requests with this key (Gemini) or to this model so far
  sent,      \* providers the prompt has been sent to
  tried,     \* models that had their turn
  out        \* how the call ended

gatewayVars == <<settings, call, chain, at, key, attempt, sent, tried, out>>

Outcomes == {"none", "answer", "raised", "nothing"}

GatewayTypeOK ==
  /\ settings \in Settings /\ call \in Calls
  /\ chain \in Seq(Models)
  /\ at \in 0 .. Len(chain)
  /\ key \in 1 .. 2 /\ attempt \in 0 .. MaxRetries - 1
  /\ sent \subseteq Providers /\ tried \subseteq Models
  /\ out \in Outcomes

-----------------------------------------------------------------------------
(* The chain of a call                                                     *)

IsTag(m) == Shape[m].provider = "none" /\ Shape[m].tag

\* Mutant: a tag is anything with a colon.
KeptAnyColon(s) == SelectSeq(s, LAMBDA m : Shape[m].tag)

\* local_only keeps bare Ollama tags.
IsLocal(m) == IsTag(m) /\ ~Shape[m].free

Kept(s) ==
  LET kept[n \in 0 .. Len(s)] ==
        IF n = 0 THEN << >>
        ELSE IF IsLocal(s[n]) THEN Append(kept[n - 1], s[n]) ELSE kept[n - 1]
  IN  kept[Len(s)]

OrElse(s, default) == IF s = << >> THEN default ELSE s

One(m) == IF m = NoModel THEN << >> ELSE <<m>>

\* generate_text up to the loop.
DirectChain(s, asked, model, localOnly) ==
  IF localOnly THEN OrElse(Kept(OrElse(asked, One(model))), <<LocalModel>>)
  ELSE LET base == IF asked /= << >> THEN asked
                   ELSE IF model = NoModel
                        THEN IF s.premium THEN PremiumChain ELSE FastChain
                   ELSE IF Shape[model].free THEN <<model>> ELSE <<model>> \o FreeChain
       IN  IF s.safetyNet /\ LocalModel \notin ToSet(base)
           THEN Append(base, LocalModel) ELSE base

\* _build_legacy_chain.
LegacyChain(model, tier) ==
  LET m == IF model = NoModel THEN NoModel ELSE Normal[tier][model]
      isFree == m /= NoModel /\ Shape[m].free
  IN  CASE tier = "LOCAL" -> <<LocalModel>>
        [] tier = "LOCAL_FIRST" -> LocalFirstChain \o One(m)
        [] tier = "FREE" -> <<IF isFree THEN m ELSE AutoModel>> \o <<AutoModel>> \o FreeChain
        [] tier = "PREMIUM" -> One(m) \o PremiumChain
        [] tier = "FAST" -> One(m) \o FastChain

With(present, m) == IF present THEN <<m>> ELSE << >>

\* call_routed_llm: Claude, Gemini, local, OpenRouter, where there is a key.
RoutedChain(s, task) ==
  With("anthropic" \in s.keys, Routed["claude"][task])
  \o With(s.geminiKeys > 0, Routed["gemini"][task])
  \o <<Routed["ollama"][task]>>
  \o With("openrouter" \in s.keys, Routed["openrouter"][task])

ChainOf(s, c) ==
  CASE c.way = "direct" -> DirectChain(s, c.chain, c.model, c.localOnly)
    [] c.way = "legacy" -> DirectChain(s, LegacyChain(c.model, c.tier), NoModel, FALSE)
    [] c.way = "routed" ->
         IF c.localOnly THEN DirectChain(s, <<Routed["ollama"][c.task]>>, NoModel, TRUE)
         ELSE DirectChain(s, RoutedChain(s, c.task), NoModel, FALSE)

\* The dispatch in generate_text's loop.
Dispatch(s, m) ==
  LET name == Shape[m]
  IN  IF name.free THEN "openrouter"
      ELSE IF name.provider = "anthropic"
           THEN IF "anthropic" \in s.keys THEN "anthropic" ELSE "openrouter"
      ELSE IF name.provider = "google"
           THEN IF name.gemini THEN "gemini" ELSE "openrouter"
      ELSE IF name.provider = "openai" THEN "openai"
      ELSE IF name.provider = "other" THEN "openrouter"
      ELSE IF m = LocalModel \/ name.tag THEN "ollama"
      ELSE "gemini"

-----------------------------------------------------------------------------
(* The loop                                                                *)

\* _dedupe_chain: a name that came up before has had its turn.
Fresh(i) == \A j \in 1 .. i - 1 : chain[j] /= chain[i]

Ahead == {j \in at + 1 .. Len(chain) : Fresh(j)}

Here == Dispatch(settings, chain[at])

\* The credential _call_gemini and _call_openai ask for before they send.
Ready ==
  /\ Here = "gemini" => settings.geminiKeys > 0
  /\ Here = "openai" => "openai" \in settings.keys

\* A facade turns an exception into None, the others pass it on.
Failure == IF call.way = "routed" THEN "nothing" ELSE "raised"

\* A call as generate_text receives it; the gateway keeps nothing from the
\* calls before.
GatewayInit ==
  /\ settings \in Settings /\ call \in Calls
  /\ chain = ChainOf(settings, call)
  /\ at = 1 /\ key = 1 /\ attempt = 0
  /\ sent = {} /\ tried = {} /\ out = "none"

Leave(result) ==
  out' = result /\ at' = 0 /\ key' = 1 /\ attempt' = 0 /\ chain' = << >>

\* The exception of one model ends its turn; the last one's ends the call.
NextModel ==
  /\ tried' = tried \union {chain[at]}
  /\ IF Ahead = {} THEN Leave(Failure)
     ELSE /\ at' \in Ahead /\ \A j \in Ahead : at' <= j
          /\ key' = 1 /\ attempt' = 0 /\ UNCHANGED <<chain, out>>

\* The prompt is longer than MAX_PROMPT_LENGTH.
Refuse ==
  /\ at = 1 /\ key = 1 /\ attempt = 0 /\ sent = {} /\ tried = {}
  /\ Leave(Failure)
  /\ UNCHANGED <<settings, call, sent, tried>>

Unready ==
  /\ at > 0 /\ ~Ready
  /\ NextModel
  /\ UNCHANGED <<settings, call, sent>>

Send ==
  /\ at > 0 /\ Ready
  /\ sent' = sent \union {Here}
  /\ UNCHANGED <<settings, call>>

\* Blank text is an answer to all but call_routed_llm; call_llm raises when
\* the answer does not parse to the keys it was asked for.
ResultsOf(c) ==
  IF c.way = "routed" THEN {"answer", "nothing"}
  ELSE IF c.way = "legacy" /\ c.json THEN {"answer", "raised"}
  ELSE {"answer"}

Answer ==
  /\ Send
  /\ tried' = tried \union {chain[at]}
  /\ \E result \in ResultsOf(call) : Leave(result)

\* 429, 500: all but Ollama are asked again.  502 to 504 and time-outs: all
\* but Ollama and Gemini.
Transient ==
  [busy |-> {"anthropic", "gemini", "openai", "openrouter"},
   down |-> {"anthropic", "openai", "openrouter"},
   refused |-> {}]

\* Mutant: the count of attempts starts again.
RetryForEver(error) ==
  /\ Here \in Transient[error]
  /\ attempt' = (attempt + 1) % MaxRetries

Retry(error) ==
  /\ Here \in Transient[error] /\ attempt < MaxRetries - 1
  /\ attempt' = attempt + 1

MoreKeys == Here = "gemini" /\ key < settings.geminiKeys

\* An error, or an answer with no text in it.
Fail(error) ==
  /\ Send
  /\ \/ Retry(error) /\ UNCHANGED <<chain, at, key, tried, out>>
     \/ /\ ~(Here \in Transient[error] /\ attempt < MaxRetries - 1)
        /\ IF MoreKeys
           THEN key' = key + 1 /\ attempt' = 0 /\ UNCHANGED <<chain, at, tried,
                                                              out>>
           ELSE NextModel

GatewayStep == Unready \/ Answer \/ \E error \in DOMAIN Transient : Fail(error)

GatewayNext == Refuse \/ GatewayStep

GatewaySpec == GatewayInit /\ [][GatewayNext]_gatewayVars

\* Every request has a time-out, so a call goes on.
GatewayFairSpec == GatewaySpec /\ WF_gatewayVars(GatewayStep)

-----------------------------------------------------------------------------
(* Safety                                                                  *)

\* What a caller must do for its prompt to stay on this machine: say so, use
\* the LOCAL tier, or pin a chain of local tags.
AskedForLocal(c) ==
  CASE c.way = "direct" ->
         \/ c.localOnly
         \/ c.chain /= << >> /\ \A i \in DOMAIN c.chain : IsLocal(c.chain[i])
    [] c.way = "legacy" -> c.tier = "LOCAL"
    [] c.way = "routed" -> c.localOnly

\* LOCAL_MODEL_NAME is not validated: a name with a "/" or ":free" in it is
\* dispatched to a provider before anyone asks whether it is LOCAL_MODEL.
LocalIsBare == Shape[LocalModel].provider = "none" /\ ~Shape[LocalModel].free

\* "Fail-closed privacy routing ... never add cloud models" (405-407): such a
\* prompt is sent to no provider.
PrivateStaysHere == AskedForLocal(call) => sent \subseteq {"ollama"}

\* Where the local model's name is a bare one, privacy routing fails closed: no
\* failure, missing key or safety net sends such a prompt to the cloud.
LocalStaysLocal == LocalIsBare => PrivateStaysHere

ChainNames(c) == ToSet(ChainOf(settings, c))

\* A call gives up only when every model of its chain has had its turn,
\* whatever repeats in the chain, and whichever model's error came when.
NobodyIsSkipped ==
  at = 0 /\ tried /= {} /\ out = Failure /\ out \notin ResultsOf(call)
    => tried = ChainNames(call)

Keyed(s) ==
  {"ollama"} \union s.keys \union (IF s.geminiKeys > 0 THEN {"gemini"} ELSE {})

\* call_routed_llm makes no doomed request: whatever it tries, it has the
\* credential for, where the safety net behind its chain has a bare name.
NoDoomedRequest ==
  LocalIsBare /\ call.way = "routed" => sent \subseteq Keyed(settings)

\* Whatever the settings, the chain and the failures: nobody in the chain is
\* passed over, and where the local model has a bare name, a private prompt stays
\* here and no routed request is sent without its key
\* (agentica_core/llm/gateway.py).
GatewayInv ==
  /\ GatewayTypeOK
  /\ LocalStaysLocal
  /\ NobodyIsSkipped
  /\ NoDoomedRequest

(* Liveness                                                                *)

\* However the providers fail, the retries of each model are counted and the
\* call ends.
CallEnds == <>(at = 0)
=============================================================================
