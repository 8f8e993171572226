---------------------------- MODULE EngineRouter ----------------------------
(***************************************************************************)
(* AgentEngineRouter, AgentAffinityScorer and the chain builders of         *)
(* RouteToEngineUseCase: in which order agent engines are tried.            *)
(*                                                                          *)
(* A request says whether there is a budget, whether the work is estimated  *)
(* at more than an hour, whether the context has more than 100,000 tokens,  *)
(* and which engine is preferred.                                           *)
(***************************************************************************)
EXTENDS Selections

CONSTANTS
    MinSamples,      \* affinity_min_samples
    BoostThreshold   \* affinity_boost_threshold, in thousandths

ASSUME RouterAssumption == MinSamples \in Nat /\ BoostThreshold \in Nat

Engine == {"OLLAMA", "OPENHANDS", "CLAUDE_CODE", "GEMINI_CLI", "CODEX_CLI", "ADK"}
NoEngine == "none"

Primary == [
    LONG_RUNNING_DEV  |-> "OPENHANDS",
    COMPLEX_REASONING |-> "CLAUDE_CODE",
    LONG_CONTEXT      |-> "GEMINI_CLI",
    CODE_GENERATION   |-> "CODEX_CLI",
    SIMPLE_QA         |-> "OLLAMA",
    FILE_OPERATION    |-> "OLLAMA",
    MULTIMODAL        |-> "CLAUDE_CODE",
    WORKFLOW_PIPELINE |-> "ADK",
    WEB_SEARCH        |-> "GEMINI_CLI"]

TaskType == DOMAIN Primary

Fallbacks == [
    OPENHANDS   |-> <<"CLAUDE_CODE", "CODEX_CLI", "OLLAMA">>,
    CLAUDE_CODE |-> <<"CODEX_CLI", "GEMINI_CLI", "OLLAMA">>,
    GEMINI_CLI  |-> <<"CLAUDE_CODE", "CODEX_CLI", "OLLAMA">>,
    CODEX_CLI   |-> <<"CLAUDE_CODE", "OLLAMA">>,
    ADK         |-> <<"GEMINI_CLI", "CLAUDE_CODE", "OLLAMA">>,
    OLLAMA      |-> <<>>]

Query == [type : TaskType, budget : BOOLEAN, long : BOOLEAN, wide : BOOLEAN,
          preferred : Engine \cup {NoEngine}]

Select(q) ==
    IF ~q.budget THEN "OLLAMA"
    ELSE IF q.long THEN "OPENHANDS"
    ELSE IF q.wide THEN "GEMINI_CLI"
    ELSE Primary[q.type]

Members(chain) == {chain[i] : i \in DOMAIN chain}

(* The other engines of a chain, in its order.                              *)
Except(chain, e) == Kept(chain, {i \in DOMAIN chain : chain[i] # e})

Promote(e, chain) == <<e>> \o Except(chain, e)

OllamaLast_IfFirst(chain) ==
    IF Head(chain) = "OLLAMA" THEN chain ELSE Append(Except(chain, "OLLAMA"), "OLLAMA")

OllamaLast(chain) == Append(Except(chain, "OLLAMA"), "OLLAMA")

Chains == [e \in Engine |-> OllamaLast(Promote(e, Fallbacks[e]))]

WithFallbacks(q) == IF q.budget THEN Chains[Select(q)] ELSE <<"OLLAMA">>

(* The score of an engine after n successes on a topic: familiarity starts  *)
(* at 0.1 and grows by 0.05 up to 1, with weight 0.4; recency and success   *)
(* rate are always 1 (weights 0.25, 0.2), cost efficiency 0.5 (0.15).       *)
Score(n) == (IF n >= 19 THEN 400 ELSE 20 * (n + 1)) + 525

(* The best engines of a topic; they are rows of an unordered query, and    *)
(* among equals the first one is taken.                                     *)
Best(samples) ==
    LET known == {e \in Engine : samples[e] > 0 /\ samples[e] >= MinSamples} IN
        {e \in known : \A f \in known : Score(samples[f]) <= Score(samples[e])}

WithAffinity_AnyBudget(q, samples) ==
    LET boosted == {e \in Best(samples) : Score(samples[e]) >= BoostThreshold} IN
        IF boosted = {} THEN {WithFallbacks(q)}
        ELSE {OllamaLast(ch) : ch \in {Promote(e, WithFallbacks(q)) : e \in boosted}}

WithAffinity(q, samples) ==
    LET boosted == {e \in Best(samples) : Score(samples[e]) >= BoostThreshold} IN
        IF ~q.budget \/ boosted = {} THEN {WithFallbacks(q)}
        ELSE {OllamaLast(ch) : ch \in {Promote(e, WithFallbacks(q)) : e \in boosted}}

BaseChains(q, samples) ==
    IF q.preferred # NoEngine
    THEN {Promote(q.preferred, WithFallbacks(q))}
    ELSE WithAffinity(q, samples)

(* The two engines a council debates about, if there are two.               *)
TopTwo(chain) ==
    LET rest == Except(chain, "OLLAMA") IN SubSeq(rest, 1, IF Len(rest) < 2 THEN Len(rest) ELSE 2)

Debatable(q, chain) == q.preferred = NoEngine /\ Len(TopTwo(chain)) = 2

CouncilChain(winner, chain) == OllamaLast(Promote(winner, chain))
=============================================================================
