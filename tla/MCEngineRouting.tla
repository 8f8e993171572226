-------------------------- MODULE MCEngineRouting ---------------------------
(* One call alone, a routing with every kind of work, budget and            *)
(* preference, a handoff; and two calls at a time that run OLLAMA only.     *)
EXTENDS EngineRouting, TLC

CONSTANTS c1, c2

MCCall == {c1, c2}
None == [type |-> "SIMPLE_QA", budget |-> FALSE, long |-> FALSE, wide |-> FALSE,
         preferred |-> NoEngine]
Asked(kind, q, extract) == [kind |-> kind, q |-> q, extract |-> extract]
Pair(a, b) == (c1 :> a) @@ (c2 :> b)
Alone(a) == Pair(a, Asked("none", None, FALSE))

Queries ==
    {[None EXCEPT !.type = t, !.budget = TRUE, !.preferred = p] :
        t \in {"COMPLEX_REASONING", "SIMPLE_QA"}, p \in {NoEngine, "OLLAMA", "ADK"}}
    \cup {[None EXCEPT !.type = t, !.budget = TRUE] : t \in TaskType}
    \cup {[None EXCEPT !.budget = TRUE, !.long = l, !.wide = TRUE] : l \in BOOLEAN}
    \cup {[None EXCEPT !.preferred = p] : p \in {NoEngine, "CODEX_CLI"}}

Pairs == {<<"route", "route">>, <<"handoff", "route">>, <<"handoff", "handoff">>, <<"handoff", "insights">>,
          <<"handoff", "forget">>, <<"insights", "route">>}

MCWorkloads ==
    {Alone(Asked("route", q, FALSE)) : q \in Queries}
    \cup {Alone(Asked("handoff", [None EXCEPT !.type = "CODE_GENERATION", !.budget = TRUE], TRUE))}
    \cup {Pair(Asked(p[1], None, TRUE), Asked(p[2], None, FALSE)) : p \in Pairs}

MCHandOff == {Alone(Asked("handoff", None, FALSE))}

(* Except is the comprehension [e for e in ch if e != x] of the source.      *)
ASSUME ExceptIsSelection ==
    \A n \in 0..4 : \A ch \in [1..n -> {"OLLAMA", "ADK", "CODEX_CLI"}], x \in Engine :
        Except(ch, x) = SelectSeq(ch, LAMBDA e : e # x)

MCRegistered == Engine \ {"OPENHANDS"}
NoSamples == [e \in Engine |-> 0]
MCBeginnings ==
    {NoSamples, [NoSamples EXCEPT !["OLLAMA"] = 3, !["GEMINI_CLI"] = 3],
     [NoSamples EXCEPT !["ADK"] = 2], [NoSamples EXCEPT !["ADK"] = 4, !["CLAUDE_CODE"] = 3]}
MCNoSamples == {NoSamples}
=============================================================================
