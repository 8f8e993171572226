----------------------------- MODULE LlmGateway ------------------------------
(* The gateway every model call goes through: availability, fallback, the    *)
(* completion and the row of its cost; beside Ollama, whose models come and  *)
(* go, and the use case that manages it. Asking whether a model is available *)
(* is one step: the two requests it makes to Ollama agree with what a single *)
(* moment between them would have answered.                                  *)
EXTENDS Naturals, Sequences, SequencesExt, FiniteSets, Selections

CONSTANTS
    Call,        \* concurrent completions
    Asked,       \* what they ask for: models, or NoModel for the default
    NoModel,
    Switched,    \* models the default is switched to
    Providers    \* the sets of providers there may be keys for

VARIABLES
    keys,                \* the providers there is a key for
    running, installed,  \* Ollama: whether it answers, and its models
    defaultModel,
    stage, asked,        \* where a call stands and which model it wants
    resolved,            \* the model it will call
    index,               \* the next candidate for a fallback
    refused,             \* history: models the call found unavailable
    costs,               \* rows of cost_logs
    unsaved,             \* history: completions whose row could not be saved
    switching            \* the model a switch of the default waits for

vars == <<keys, running, installed, defaultModel, stage, asked, resolved, index,
          refused, costs, unsaved, switching>>

-----------------------------------------------------------------------------
MODEL_TIERS ==
    [free |-> <<"ollama/qwen3:8b", "ollama/qwen3-coder:30b", "ollama/deepseek-r1:8b", "ollama/llama3.2:3b">>,
     low |-> <<"claude-haiku-4-5-20251001", "gemini/gemini-3-flash-preview">>,
     medium |-> <<"claude-sonnet-4-6", "o4-mini", "gemini/gemini-3-pro-preview">>,
     high |-> <<"claude-opus-4-6", "o3">>]

Local(m) == m \in Range(MODEL_TIERS.free)
Provider(m) ==
    CASE m \in {"claude-haiku-4-5-20251001", "claude-sonnet-4-6", "claude-opus-4-6"} -> "anthropic"
      [] m \in {"o4-mini", "o3"} -> "openai"
      [] m \in {"gemini/gemini-3-flash-preview", "gemini/gemini-3-pro-preview"} -> "gemini"

TASK_MODEL_MAP(type) ==
    CASE type \in {"SIMPLE_QA", "FILE_OPERATION"} -> <<"free", "low">>
      [] type \in {"COMPLEX_REASONING", "MULTIMODAL"} -> <<"medium", "high">>
      [] type = "LONG_CONTEXT" -> <<"medium">>
      [] OTHER -> <<"free", "medium">>

\* The model for a kind of task, given the models that are available.
Route(type, withinBudget, localFirst, ollamaRuns, available, default) ==
    LET tiers == TASK_MODEL_MAP(type)
        models == FlattenSeq([i \in DOMAIN tiers |-> MODEL_TIERS[tiers[i]]])
        choices == SelectSeq(models, LAMBDA m : m \in available)
    IN  IF \/ ~withinBudget
           \/ localFirst /\ ollamaRuns /\ "free" \in Range(tiers)
           \/ choices = <<>>
        THEN default ELSE choices[1]

IsAvailable(m) == IF Local(m) THEN running /\ m \in installed ELSE Provider(m) \in keys

\* Free models but the one that failed, then paid ones; never the dearest tier.
FreeBut(failed) == Kept(MODEL_TIERS.free, {i \in DOMAIN MODEL_TIERS.free : MODEL_TIERS.free[i] # failed})
Candidates_AllTiers(failed) == FreeBut(failed) \o MODEL_TIERS.high \o MODEL_TIERS.low \o MODEL_TIERS.medium
Candidates(failed) == FreeBut(failed) \o MODEL_TIERS.low \o MODEL_TIERS.medium

-----------------------------------------------------------------------------
Init ==
    /\ keys \in Providers
    /\ running = TRUE /\ installed = {"ollama/qwen3:8b"}
    /\ defaultModel = "ollama/qwen3:8b"
    /\ stage = [c \in Call |-> "idle"]
    /\ asked = [c \in Call |-> NoModel] /\ resolved = [c \in Call |-> NoModel]
    /\ index = [c \in Call |-> 0] /\ refused = [c \in Call |-> {}]
    /\ costs = <<>> /\ unsaved = {}
    /\ switching = {}

ollama == <<keys, running, installed, defaultModel, switching>>
Goto(c, s) == stage' = [stage EXCEPT ![c] = s]

Complete(c) ==
    /\ stage[c] = "idle" /\ refused[c] = {} /\ resolved[c] = NoModel
    /\ \E m \in Asked : asked' = [asked EXCEPT ![c] = IF m = NoModel THEN defaultModel ELSE m]
    /\ Goto(c, "check")
    /\ UNCHANGED <<ollama, resolved, index, refused, costs, unsaved>>

Resolve(c, m) == resolved' = [resolved EXCEPT ![c] = m] /\ Goto(c, "call")
Refuse(c, m) == refused' = [refused EXCEPT ![c] = @ \cup {m}]

CheckAsked(c) ==
    /\ stage[c] = "check"
    /\ IF IsAvailable(asked[c])
       THEN Resolve(c, asked[c]) /\ UNCHANGED <<index, refused>>
       ELSE /\ Refuse(c, asked[c]) /\ Goto(c, "search")
            /\ index' = [index EXCEPT ![c] = 1]
            /\ UNCHANGED resolved
    /\ UNCHANGED <<ollama, asked, costs, unsaved>>

\* With no candidate left the call goes to the model that was asked for.
FindAvailableFallback(c) ==
    /\ stage[c] = "search"
    /\ LET candidates == Candidates(asked[c])
           i == index[c]
       IN  IF i > Len(candidates) THEN Resolve(c, asked[c]) /\ UNCHANGED <<index, refused>>
           ELSE IF IsAvailable(candidates[i]) THEN Resolve(c, candidates[i]) /\ UNCHANGED <<index, refused>>
           ELSE /\ Refuse(c, candidates[i])
                /\ index' = [index EXCEPT ![c] = i + 1]
                /\ UNCHANGED <<resolved, stage>>
    /\ UNCHANGED <<ollama, asked, costs, unsaved>>

\* The provider answers, or raises; a model that is not there raises.
Answered(c) ==
    /\ stage[c] = "call" /\ IsAvailable(resolved[c])
    /\ Goto(c, "charge")
    /\ UNCHANGED <<ollama, asked, resolved, index, refused, costs, unsaved>>

Raised(c) ==
    /\ stage[c] = "call"
    /\ Goto(c, "raised")
    /\ UNCHANGED <<ollama, asked, resolved, index, refused, costs, unsaved>>

\* A row that cannot be saved is given up; the answer is returned all the same.
Charge(c) ==
    /\ stage[c] = "charge"
    /\ \/ costs' = Append(costs, [call |-> c, model |-> resolved[c], is_local |-> Local(resolved[c])])
          /\ UNCHANGED unsaved
       \/ unsaved' = unsaved \cup {c} /\ UNCHANGED costs
    /\ Goto(c, "answered")
    /\ UNCHANGED <<ollama, asked, resolved, index, refused>>

-----------------------------------------------------------------------------
\* The default is switched once the model is installed or has been pulled.
SwitchDefault ==
    /\ switching = {}
    /\ \E m \in Switched : switching' = {m}
    /\ UNCHANGED <<keys, running, installed, defaultModel, stage, asked, resolved, index, refused, costs, unsaved>>

FinishSwitch ==
    /\ \E m \in switching :
        \/ /\ running /\ installed' = installed \cup {m}
           /\ defaultModel' = m
        \/ UNCHANGED <<installed, defaultModel>>
    /\ switching' = {}
    /\ UNCHANGED <<keys, running, stage, asked, resolved, index, refused, costs, unsaved>>

DeleteModel ==
    /\ running
    /\ \E m \in installed : installed' = installed \ {m}
    /\ UNCHANGED <<keys, running, defaultModel, switching, stage, asked, resolved, index, refused, costs, unsaved>>

OllamaStartsOrStops ==
    /\ running' = ~running
    /\ UNCHANGED <<keys, installed, defaultModel, switching, stage, asked, resolved, index, refused, costs, unsaved>>

Next ==
    \/ \E c \in Call : \/ Complete(c) \/ CheckAsked(c) \/ FindAvailableFallback(c)
                       \/ Answered(c) \/ Raised(c) \/ Charge(c)
    \/ SwitchDefault \/ FinishSwitch \/ DeleteModel \/ OllamaStartsOrStops

Spec == Init /\ [][Next]_vars

-----------------------------------------------------------------------------
(* A model other than the one asked for is called only when that one and     *)
(* every cheaper candidate were found unavailable, and never of the dearest  *)
(* tier, however Ollama and its models come and go meanwhile.                *)
FallbackIsCheapest ==
    \A c \in Call : resolved[c] \notin {NoModel, asked[c]} =>
        LET candidates == Candidates(asked[c])
        IN  /\ asked[c] \in refused[c]
            /\ resolved[c] \notin Range(MODEL_TIERS.high)
            /\ \A i \in DOMAIN candidates :
                candidates[i] # resolved[c] => \/ candidates[i] \in refused[c]
                                               \/ \E j \in 1 .. i - 1 : candidates[j] = resolved[c]

(* Every answered call has one row with the model that answered, or is one   *)
(* whose row could not be saved; a call that raised has none.                *)
ChargedOnce ==
    \A c \in Call :
        LET rows == {i \in DOMAIN costs : costs[i].call = c}
        IN  /\ Cardinality(rows) = IF stage[c] = "answered" /\ c \notin unsaved THEN 1 ELSE 0
            /\ \A i \in rows : costs[i].model = resolved[c] /\ costs[i].is_local = Local(resolved[c])

Safe == FallbackIsCheapest /\ ChargedOnce
=============================================================================
