----------------------------- MODULE GoalAnalysis -----------------------------
(* The intent analyzer: a goal becomes a plan of subtasks. The models it     *)
(* names and how complex it looks decide whether a model is asked to         *)
(* decompose it and what becomes of its answer. A goal is reduced to the     *)
(* features its text is searched for, an answer to the items of its JSON.    *)
EXTENDS Integers, Sequences, SequencesExt

CONSTANTS
    Goals,    \* [models, roles, short, concerns, simple, complex, words, tools]
    Answers   \* what the decomposing model may answer: sequences of items

VARIABLES
    goal,     \* the goal that is analysed
    stage,
    asked,    \* history: whether the model was asked
    answer,   \* history: what it answered
    plan      \* the subtasks, an item each with its role and complexity

vars == <<goal, stage, asked, answer, plan>>

-----------------------------------------------------------------------------
\* TaskComplexityClassifier.
Classify(g) ==
    IF g.short THEN IF g.concerns >= 2 THEN "medium" ELSE "simple"
    ELSE IF g.simple THEN "simple"
    ELSE IF g.concerns >= 3 \/ g.complex THEN "complex"
    ELSE IF g.concerns = 2 THEN "medium"
    ELSE IF g.words <= 10 THEN "simple"
    ELSE IF g.words <= 25 THEN "medium" ELSE "complex"

\* The levels are strings and compare as strings do.
Alphabetical == <<"complex", "medium", "simple">>
LaterOf(a, b) ==
    Alphabetical[CHOOSE i \in 1 .. 3 : /\ Alphabetical[i] \in {a, b}
                                       /\ \A j \in i + 1 .. 3 : Alphabetical[j] \notin {a, b}]

ComplexityOf_NoUpgrade(g) == IF Len(g.models) >= 2 THEN LaterOf(Classify(g), "medium") ELSE Classify(g)

\* A simple goal that needs tools is not simple.
ComplexityOf(g) ==
    IF Len(g.models) >= 2 THEN LaterOf(Classify(g), "medium")
    ELSE IF Classify(g) = "simple" /\ g.tools THEN "medium"
    ELSE Classify(g)

Subtask(description, model) ==
    [description |-> description, model |-> model, role |-> "-", deps |-> {},
     produces |-> {}, consumes |-> {}, complexity |-> "-"]

\* Whoever consumes an artifact depends on the last subtask that produces it.
Resolve(p) ==
    [i \in DOMAIN p |-> [p[i] EXCEPT !.deps = @ \cup
        {j \in DOMAIN p \ {i} : \E a \in p[i].consumes :
            a \in p[j].produces /\ \A k \in DOMAIN p : a \in p[k].produces => k <= j}]]

\* Artifacts that the model named are resolved; a plan that was not the
\* model's is chained.
ApplyArtifactFlow(p, decomposed) ==
    IF \E i \in DOMAIN p : p[i].produces \cup p[i].consumes # {} THEN Resolve(p)
    ELSE IF Len(p) > 1 /\ ~decomposed
    THEN Resolve([i \in DOMAIN p |-> [p[i] EXCEPT !.produces = {i}, !.consumes = IF i > 1 THEN {i - 1} ELSE {}]])
    ELSE p

\* Dependencies on items that there are not are dropped; a model that was not
\* asked for is replaced by the next one in turn.
Parse(items, models) ==
    ApplyArtifactFlow(
        [i \in DOMAIN items |->
            [Subtask(items[i].description,
                     IF Len(models) < 2 THEN "-"
                     ELSE IF items[i].model \in ToSet(models) THEN items[i].model
                     ELSE models[((i - 1) % Len(models)) + 1])
             EXCEPT !.role = IF Len(models) < 2 THEN "-" ELSE items[i].role,
                    !.deps = items[i].deps \cap DOMAIN items,
                    !.produces = items[i].produces, !.consumes = items[i].consumes]],
        TRUE)

CreatePerModelSubtasks(models) ==
    ApplyArtifactFlow([i \in DOMAIN models |-> Subtask("long", models[i])], FALSE)

\* What a model's plan with unusable descriptions is replaced by.
TemplateDecompose(complexity) ==
    LET n == IF complexity = "medium" THEN 2 ELSE 3
    IN  [i \in 1 .. n |-> [Subtask("long", "-") EXCEPT !.deps = IF i = n THEN 1 .. n - 1 ELSE {}]]

\* The roles the user named, in turn; else those the model gave stay.
AssignRoles(p, roles) ==
    IF roles = <<>> THEN p ELSE [i \in DOMAIN p |-> [p[i] EXCEPT !.role = roles[((i - 1) % Len(roles)) + 1]]]

-----------------------------------------------------------------------------
Init ==
    /\ goal \in Goals
    /\ stage = "new" /\ asked = FALSE /\ answer = <<>> /\ plan = <<>>

Multi == Len(goal.models) >= 2

\* Every subtask has the complexity of the goal and the one model it named.
Finish(p) ==
    /\ plan' = [i \in DOMAIN p |-> [p[i] EXCEPT
            !.complexity = ComplexityOf(goal),
            !.model = IF Len(goal.models) = 1 THEN goal.models[1] ELSE @]]
    /\ stage' = "done"
    /\ UNCHANGED goal

Decompose ==
    /\ stage = "new"
    /\ IF ~Multi /\ ComplexityOf(goal) = "simple"
       THEN Finish(<<Subtask("long", "-")>>) /\ UNCHANGED asked
       ELSE stage' = "asking" /\ asked' = TRUE /\ UNCHANGED <<goal, plan>>
    /\ UNCHANGED answer

FinishMulti(p) == Finish(AssignRoles(p, goal.roles))

LlmMultiModelDecompose ==
    /\ stage = "asking" /\ Multi
    /\ answer' \in Answers
    /\ LET p == Parse(answer', goal.models)
       IN  FinishMulti(IF Len(p) < Len(goal.models) THEN CreatePerModelSubtasks(goal.models) ELSE p)
    /\ UNCHANGED asked

\* An error, and an answer that cannot be parsed, only where several models
\* are named; elsewhere it is the caller's.
DecompositionFails ==
    /\ stage = "asking"
    /\ IF Multi THEN FinishMulti(CreatePerModelSubtasks(goal.models))
       ELSE stage' = "raised" /\ UNCHANGED <<goal, plan>>
    /\ UNCHANGED <<asked, answer>>

LlmDecompose ==
    /\ stage = "asking" /\ ~Multi
    /\ answer' \in Answers
    /\ LET p == Parse(answer', <<>>)
       IN  Finish(IF \E i \in DOMAIN p : p[i].description = "short"
                  THEN TemplateDecompose(ComplexityOf(goal)) ELSE p)
    /\ UNCHANGED asked

Next == Decompose \/ LlmMultiModelDecompose \/ LlmDecompose \/ DecompositionFails

Spec == Init /\ [][Next]_vars

-----------------------------------------------------------------------------
(* A plan that reaches the engine keeps what the goal asked for: of several  *)
(* named models there are at least as many subtasks, each on one of them; a  *)
(* single named model has them all; a goal that needs tools has a plan that  *)
(* is executed with tools, which a simple one is not.                        *)
PlanKeepsTheGoal ==
    stage = "done" =>
        /\ Multi => Len(plan) >= Len(goal.models)
        /\ goal.models # <<>> => \A i \in DOMAIN plan : plan[i].model \in ToSet(goal.models)
        /\ goal.tools /\ ~Multi => \A i \in DOMAIN plan : plan[i].complexity # "simple"
        /\ ~asked => Len(plan) = 1

(* Where no item of the model's answer depends on a later one, or makes what *)
(* an earlier one takes, the plan can be executed in its order: nothing that *)
(* replaced the answer or was added to it closes a cycle.                    *)
PlansAreOrdered ==
    (\A i \in DOMAIN answer :
        /\ \A d \in answer[i].deps : d < i \/ d \notin DOMAIN answer
        /\ \A j \in DOMAIN answer : answer[i].produces \cap answer[j].consumes # {} => i < j)
    => \A i \in DOMAIN plan : \A d \in plan[i].deps : d < i

Safe == PlanKeepsTheGoal /\ PlansAreOrdered
=============================================================================
