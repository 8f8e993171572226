----------------------------- MODULE GoalRouting ------------------------------
(* The router of the fractal planner: a classifier is asked whether the      *)
(* small model can plan a goal, within a deadline; whatever goes wrong, the  *)
(* large one does. Goals are routed concurrently and every decision is       *)
(* counted and published.                                                    *)
EXTENDS Naturals, Sequences, SequencesExt

CONSTANTS
    Goal,
    Enabled,       \* whether the router is
    Remote,        \* the classifier is the paid model, else a local one
    Confidences,   \* in tenths
    HaikuThreshold

VARIABLES
    stage, verdict,  \* of each goal
    charged,         \* goals whose classification the gateway charged for
    planner,         \* the model that plans a goal
    decisions,       \* the metrics: decisions in the order they were counted
    published        \* goals whose event reached the bus

vars == <<stage, verdict, charged, planner, decisions, published>>

NoVerdict == [model |-> "SONNET", confidence |-> 0, cost |-> 0]

Init ==
    /\ stage = [g \in Goal |-> "new"]
    /\ verdict = [g \in Goal |-> NoVerdict]
    /\ charged = {}
    /\ planner = [g \in Goal |-> "-"]
    /\ decisions = <<>> /\ published = {}

Goto(g, s) == stage' = [stage EXCEPT ![g] = s]

-----------------------------------------------------------------------------
SelectFor(g) ==
    /\ stage[g] = "new"
    /\ IF Enabled THEN Goto(g, "classifying") /\ UNCHANGED planner
       ELSE Goto(g, "done") /\ planner' = [planner EXCEPT ![g] = "SONNET"]
    /\ UNCHANGED <<verdict, charged, decisions, published>>

\* A local classifier reports no cost, also if the gateway had a paid model
\* answer in its place.
ClassifierAnswers(g) ==
    /\ stage[g] = "classifying"
    /\ \E m \in {"HAIKU", "SONNET"}, c \in Confidences, paid \in IF Remote THEN {TRUE} ELSE BOOLEAN :
        /\ verdict' = [verdict EXCEPT ![g] = [model |-> m, confidence |-> c, cost |-> IF Remote THEN 1 ELSE 0]]
        /\ charged' = IF paid THEN charged \cup {g} ELSE charged
    /\ Goto(g, "judged")
    /\ UNCHANGED <<planner, decisions, published>>

\* The deadline, an error, or an answer that is no classification.
ClassifierFails(g) ==
    /\ stage[g] = "classifying"
    /\ charged' \in {charged, charged \cup {g}}
    /\ Goto(g, "failed")
    /\ UNCHANGED <<verdict, planner, decisions, published>>

Emit(g, model, category) ==
    /\ decisions' = Append(decisions, [goal |-> g, model |-> model, category |-> category, cost |-> verdict[g].cost])
    /\ planner' = [planner EXCEPT ![g] = model]
    /\ Goto(g, "done")
    /\ published' \in {published, published \cup {g}}
    /\ UNCHANGED <<verdict, charged>>

FallbackSonnet(g) == stage[g] = "failed" /\ Emit(g, "SONNET", "classifier_failed")

Decide_IgnoresConfidence(g) ==
    /\ stage[g] = "judged"
    /\ Emit(g, verdict[g].model, "generic_tech_english")

\* Counted first; a bus that fails to publish is not noticed.
Decide(g) ==
    /\ stage[g] = "judged"
    /\ IF verdict[g].model = "SONNET"
       THEN \E category \in {"non_ascii_entity", "quoted_specific_entity", "multilingual_or_proper_noun"} :
                Emit(g, "SONNET", category)
       ELSE IF verdict[g].confidence >= HaikuThreshold THEN Emit(g, "HAIKU", "generic_tech_english")
       ELSE Emit(g, "SONNET", "low_confidence")

Next == \E g \in Goal :
    SelectFor(g) \/ ClassifierAnswers(g) \/ ClassifierFails(g) \/ FallbackSonnet(g) \/ Decide(g)

Spec == Init /\ [][Next]_vars

-----------------------------------------------------------------------------
(* The small model plans only goals that the classifier was sure of.         *)
HaikuIsEarned ==
    \A g \in Goal : planner[g] = "HAIKU" =>
        verdict[g].model = "HAIKU" /\ verdict[g].confidence >= HaikuThreshold

(* Every routed goal is counted exactly once, as what it was planned with    *)
(* and with its classification's cost; only what a failed classification, or *)
(* a stand-in of the local one, has cost is in no count.                     *)
EveryGoalCounted ==
    \A g \in Goal :
        LET mine == {i \in DOMAIN decisions : decisions[i].goal = g}
        IN  IF stage[g] # "done" \/ ~Enabled THEN mine = {}
            ELSE \E i \in mine :
                /\ mine = {i} /\ decisions[i].model = planner[g]
                /\ g \in charged /\ Remote =>
                        decisions[i].cost = 1 \/ decisions[i].category = "classifier_failed"

Safe == HaikuIsEarned /\ EveryGoalCounted
=============================================================================
