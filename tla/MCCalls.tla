------------------------------- MODULE MCCalls -------------------------------
(* The parts that are called: LLMGateway's generate_text (Gateway) and         *)
(* generate_strict (StrictCall), the tier of a skill (BushidoPolicy), and the  *)
(* append to a chained log (ChainLedger), and a decision whose stores cannot   *)
(* be read (DecisionStores).  They share no state: a behaviour is one of a     *)
(* single part, which `live` names, while the variables of the others keep a   *)
(* state in which they have come to rest.                                      *)
EXTENDS Gateway, StrictCall, BushidoPolicy, ChainLedger, DecisionStores

CONSTANTS
  sonnet,      \* anthropic/claude-sonnet-4-6
  flash,       \* gemini-2.5-flash
  gflash,      \* google/gemini-2.0-flash
  mini,        \* openai/gpt-4o-mini
  llama,       \* meta-llama/llama-3.3-70b-instruct:free
  gemma9,      \* google/gemma-2-9b-it:free
  gemma4,      \* gemma4:4b
  qwen,        \* qwen3.6:35b
  auto,        \* openrouter/auto
  hub,         \* hf.co/google/gemma-3:Q4_K_M, a local model's name with a path
  tidy, spend, \* work that waits in the queue, work the owner decides
  childA, childB

VARIABLE live

-----------------------------------------------------------------------------
(* One name of every shape the rosters hold                                  *)

Named(provider, tag, free, gemini) ==
  [provider |-> provider, tag |-> tag, free |-> free, gemini |-> gemini]

MCModels == {sonnet, flash, gflash, mini, llama, gemma9, gemma4, qwen, auto,
             hub}

MCShape ==
  [m \in MCModels |->
    IF m = sonnet THEN Named("anthropic", FALSE, FALSE, FALSE)
    ELSE IF m = flash THEN Named("none", FALSE, FALSE, TRUE)
    ELSE IF m = gflash THEN Named("google", FALSE, FALSE, TRUE)
    ELSE IF m = mini THEN Named("openai", FALSE, FALSE, FALSE)
    ELSE IF m = llama THEN Named("other", TRUE, TRUE, FALSE)
    ELSE IF m = gemma9 THEN Named("google", TRUE, TRUE, FALSE)
    ELSE IF m = hub THEN Named("other", TRUE, FALSE, FALSE)
    ELSE IF m \in {gemma4, qwen} THEN Named("none", TRUE, FALSE, FALSE)
    ELSE Named("other", FALSE, FALSE, FALSE)]

MCRouted ==
  [claude |-> [t \in Tasks |-> sonnet], gemini |-> [t \in Tasks |-> flash],
   ollama |-> [classification |-> gemma4, analysis |-> qwen],
   openrouter |-> [t \in Tasks |-> llama]]

\* A Gemini name loses its provider; the others are their own aliases.
MCNormal == [t \in CallTiers |-> [m \in Models |-> IF m = gflash THEN flash ELSE m]]

MCFree == <<gemma9, llama>>
MCPremium == <<sonnet, flash, gemma4>>
MCFast == <<flash, gemma4>>
MCLocalFirst == <<gemma4, flash, mini>>

\* A pinned local tag, a chain with a cloud name behind it, one with a
\* name that comes up twice.
MCPinned == {<<qwen>>, <<qwen, llama, sonnet>>, <<mini, qwen, mini, gflash>>}

MCTier == [w \in Works |-> IF w = tidy THEN "queue" ELSE "hitl"]

-----------------------------------------------------------------------------
(* A part that is at rest                                                    *)

GatewayRest ==
  /\ settings = CHOOSE s \in Settings : TRUE
  /\ call = CHOOSE c \in RoutedCalls : TRUE
  /\ chain = << >> /\ at = 0 /\ key = 1 /\ attempt = 0
  /\ sent = {} /\ tried = {} /\ out = "none"

StrictRest ==
  /\ main = "over" /\ child = "done" /\ held = FALSE /\ timeUp = FALSE
  /\ pipe = 0 /\ output = 0 /\ reader = "ended" /\ writer = "ended"
  /\ failures = << >> /\ ending = "none"

PolicyRest ==
  /\ entry = NoEntry /\ requested = "none" /\ overBudget = FALSE
  /\ mode = [env |-> "unset", global |-> FALSE, pillar |-> FALSE]

ChainRest == serialised = TRUE /\ ChainInit

DecisionRest ==
  /\ rows = [is |-> "absent", has |-> NoRows] /\ DecisionInit
  /\ ~asking.strict

-----------------------------------------------------------------------------

MCInit ==
  /\ live \in {"gateway", "strict", "policy", "chain", "decision"}
  /\ IF live = "gateway" THEN GatewayInit ELSE GatewayRest
  /\ IF live = "strict" THEN StrictInit ELSE StrictRest
  /\ IF live = "policy" THEN Init ELSE PolicyRest
  /\ IF live = "chain" THEN ChainInit ELSE ChainRest
  /\ IF live = "decision" THEN DecisionInit /\ rows.is = "whole" ELSE DecisionRest

MCNext ==
  /\ UNCHANGED live
  /\ \/ live = "gateway" /\ GatewayNext
        /\ UNCHANGED <<strictVars, vars, chainVars, decisionVars>>
     \/ live = "strict" /\ StrictNext
        /\ UNCHANGED <<gatewayVars, vars, chainVars, decisionVars>>
     \/ live = "policy" /\ Next
        /\ UNCHANGED <<gatewayVars, strictVars, chainVars, decisionVars>>
     \/ live = "chain" /\ ChainNext
        /\ UNCHANGED <<gatewayVars, strictVars, vars, decisionVars>>
     \/ live = "decision" /\ DecisionNext
        /\ UNCHANGED <<gatewayVars, strictVars, vars, chainVars>>

MCSpec ==
  /\ MCInit
  /\ [][MCNext]_<<live, gatewayVars, strictVars, vars, chainVars, decisionVars>>
  /\ WF_gatewayVars(live = "gateway" /\ GatewayStep)
  /\ StrictFairness
  /\ \A w \in Writers : WF_chainVars(live = "chain" /\ WriterStep(w))
  /\ WF_chainVars(live = "chain" /\ LockAges)
  /\ WF_chainVars(live = "chain" /\ \E w \in Writers : BeginAppend(w))

\* Every call of the gateway and every strict call comes to its end, and so does
\* every abandoned lock of the chain.
CallsEnd == CallEnds /\ StrictCallEnds /\ AbandonedIsReclaimed
=============================================================================
