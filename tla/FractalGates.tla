---------------------------- MODULE FractalGates -----------------------------
(* The gates of the fractal engine from the inside: what the bypass          *)
(* classifier, the planner and the evaluators make of a model's answer, and  *)
(* how a plan is approved out of them. Tasks plan concurrently on one engine *)
(* and share its cache of candidates. Scores are tenths; means are compared  *)
(* as exact fractions. FractalEngine follows what is done with the plans.    *)
EXTENDS Integers, SequencesExt, Selections

CONSTANTS
    Task,              \* tasks with the same goal, planning at once
    Evaluator,         \* the evaluators of plans
    Level, MaxDepth,   \* the nesting level of the plans and the deepest one
    MinScore,          \* of a plan, and of a step of it
    OkThreshold, RetryThreshold,  \* of a result
    MaxPlanAttempts,
    PlanAnswers,       \* what the planner's model may answer: sequences of items
    Grades             \* what an evaluator's model may answer on its three axes

VARIABLES
    stage,       \* where each task stands
    attempts,    \* number of plans it has judged
    feedback,    \* whether the last one came back with feedback
    candidates,  \* the candidates of its plan
    votes,       \* evaluations of the plan so far, by evaluator
    unreachable, \* history: evaluators whose model did not answer usefully
    plan,        \* visible nodes of its approved plan
    cache,       \* the engine's cached candidates for the goal, or <<>>
    judged       \* history: verdicts on results, with their grades

vars == <<stage, attempts, feedback, candidates, votes, unreachable, plan, cache, judged>>

-----------------------------------------------------------------------------
\* An item of a plan's JSON. A condition makes it a reserve.
Item(description, terminal, score, conditional) ==
    [description |-> description, is_terminal |-> terminal, score |-> score, conditional |-> conditional]

Clamp(score, top) == IF score < 0 THEN 0 ELSE IF score > top THEN top ELSE score

Candidate(item) ==
    [description |-> item.description,
     is_terminal |-> item.is_terminal \/ Level >= MaxDepth - 1,
     score |-> Clamp(item.score, 10),
     state |-> IF item.conditional THEN "CONDITIONAL" ELSE "VISIBLE"]

FallbackCandidate == [description |-> "goal", is_terminal |-> TRUE, score |-> 10, state |-> "VISIBLE"]

\* Items without a description are dropped; an answer that cannot be parsed,
\* or that leaves nothing, becomes a single step that is the goal itself.
GenerateCandidates(answer) ==
    LET parsed == [i \in DOMAIN answer |-> Candidate(answer[i])]
        named == Kept(parsed, {i \in DOMAIN parsed : parsed[i].description # ""})
    IN  IF named = <<>> THEN <<FallbackCandidate>> ELSE named

Visible(cs) == Kept(cs, {i \in DOMAIN cs : cs[i].state = "VISIBLE"})

\* Even of an approved plan a step that is scored too low is not executed.
ApplyEvaluation(cs) ==
    [i \in DOMAIN cs |-> IF cs[i].state = "VISIBLE" /\ cs[i].score < MinScore
                         THEN [cs[i] EXCEPT !.state = "PRUNED"] ELSE cs[i]]

SumOf(grades) == grades[1] + grades[2] + grades[3]

\* An evaluator's model that is away, or says nothing usable, counts as this.
FallbackEvaluation == <<5, 5, 10>>

\* Mean over the axes of the means over the evaluators.
Aggregate(vs) ==
    LET total == MapThenSumSet(LAMBDA e : SumOf(vs[e]), DOMAIN vs)
    IN  IF DOMAIN vs # {} /\ total >= MinScore * 3 * Cardinality(DOMAIN vs) THEN "APPROVED" ELSE "REJECTED"

ScoreToDecision(sum) ==
    IF sum >= 3 * OkThreshold THEN "OK" ELSE IF sum >= 3 * RetryThreshold THEN "RETRY" ELSE "REPLAN"
Decide(grades) == ScoreToDecision(SumOf([i \in 1 .. 3 |-> Clamp(grades[i], 10)]))
FallbackResult == <<5, 5, 5>>

\* The verdict of the bypass classifier: only simple questions of text skip
\* the plan; whatever it does not understand is of medium complexity.
ShouldBypass(complexity, requirement) ==
    complexity = "SIMPLE" /\ (requirement = "text" \/ requirement \notin {"file", "code", "data"})

-----------------------------------------------------------------------------
Init ==
    /\ stage = [t \in Task |-> "new"]
    /\ attempts = [t \in Task |-> 0] /\ feedback = [t \in Task |-> FALSE]
    /\ candidates = [t \in Task |-> <<>>]
    /\ votes = [t \in Task |-> <<>>] /\ unreachable = [t \in Task |-> {}]
    /\ plan = [t \in Task |-> <<>>]
    /\ cache = <<>>
    /\ judged = {}

Goto(t, s) == stage' = [stage EXCEPT ![t] = s]

Classify(t) ==
    /\ stage[t] = "new"
    /\ \E complexity \in {"SIMPLE", "MEDIUM"}, requirement \in {"text", "file"} :
        Goto(t, IF ShouldBypass(complexity, requirement) THEN "bypassed" ELSE "plan")
    /\ UNCHANGED <<attempts, feedback, candidates, votes, unreachable, plan, cache, judged>>

Propose(t, cs) ==
    /\ candidates' = [candidates EXCEPT ![t] = cs]
    /\ votes' = [votes EXCEPT ![t] = <<>>] /\ unreachable' = [unreachable EXCEPT ![t] = {}]
    /\ Goto(t, "evaluate")

\* The copy that the cache hands out is the task's own.
GenerateCached(t) ==
    /\ stage[t] = "plan" /\ ~feedback[t] /\ cache # <<>>
    /\ Propose(t, cache)
    /\ UNCHANGED <<attempts, feedback, plan, cache, judged>>

AskPlanner(t) ==
    /\ stage[t] = "plan" /\ (feedback[t] \/ cache = <<>>)
    /\ Goto(t, "planning")
    /\ UNCHANGED <<attempts, feedback, candidates, votes, unreachable, plan, cache, judged>>

PlannerAnswers(t) ==
    /\ stage[t] = "planning"
    /\ \E answer \in PlanAnswers :
        /\ Propose(t, GenerateCandidates(answer))
        /\ cache' = IF feedback[t] THEN cache ELSE GenerateCandidates(answer)
    /\ UNCHANGED <<attempts, feedback, plan, judged>>

Counted(vs, e, evaluation) == [d \in DOMAIN vs \cup {e} |-> IF d = e THEN evaluation ELSE vs[d]]

\* The evaluators are asked at once and answer in any order.
Evaluate(t, e) ==
    /\ stage[t] = "evaluate" /\ e \notin DOMAIN votes[t]
    /\ \/ \E grades \in Grades :
            votes' = [votes EXCEPT ![t] = Counted(@, e, [i \in 1 .. 3 |-> Clamp(grades[i], 10)])]
          /\ UNCHANGED unreachable
       \/ /\ votes' = [votes EXCEPT ![t] = Counted(@, e, FallbackEvaluation)]
          /\ unreachable' = [unreachable EXCEPT ![t] = @ \cup {e}]
    /\ UNCHANGED <<stage, attempts, feedback, candidates, plan, cache, judged>>

Evaluated(t) == stage[t] = "evaluate" /\ DOMAIN votes[t] = Evaluator

Approve_PrunesCache(t) ==
    /\ Evaluated(t) /\ Aggregate(votes[t]) = "APPROVED"
    /\ LET evaluated == ApplyEvaluation(candidates[t])
       IN  /\ candidates' = [candidates EXCEPT ![t] = evaluated]
           /\ plan' = [plan EXCEPT ![t] = Visible(evaluated)]
           /\ cache' = IF candidates[t] = cache THEN evaluated ELSE cache
    /\ attempts' = [attempts EXCEPT ![t] = @ + 1]
    /\ Goto(t, "approved")
    /\ UNCHANGED <<feedback, votes, unreachable, judged>>

Approve(t) ==
    /\ Evaluated(t) /\ Aggregate(votes[t]) = "APPROVED"
    /\ LET evaluated == ApplyEvaluation(candidates[t])
       IN  /\ candidates' = [candidates EXCEPT ![t] = evaluated]
           /\ plan' = [plan EXCEPT ![t] = Visible(evaluated)]
    /\ attempts' = [attempts EXCEPT ![t] = @ + 1]
    /\ Goto(t, "approved")
    /\ UNCHANGED <<feedback, votes, unreachable, cache, judged>>

\* With feedback the planner is asked again, past the cache.
Reject(t) ==
    /\ Evaluated(t) /\ Aggregate(votes[t]) = "REJECTED"
    /\ attempts' = [attempts EXCEPT ![t] = @ + 1]
    /\ feedback' = [feedback EXCEPT ![t] = TRUE]
    /\ Goto(t, IF attempts'[t] = MaxPlanAttempts THEN "rejected" ELSE "plan")
    /\ UNCHANGED <<candidates, votes, unreachable, plan, cache, judged>>

\* A step of an approved plan has a result, and the result is judged.
JudgeResult(t) ==
    /\ stage[t] = "approved" /\ plan[t] # <<>>
    /\ \E grades \in Grades \cup {FallbackResult} :
        judged' = judged \cup {[grades |-> grades, decision |-> Decide(grades)]}
    /\ Goto(t, "judged")
    /\ UNCHANGED <<attempts, feedback, candidates, votes, unreachable, plan, cache>>

Next ==
    \E t \in Task :
        \/ Classify(t) \/ GenerateCached(t) \/ AskPlanner(t) \/ PlannerAnswers(t)
        \/ \E e \in Evaluator : Evaluate(t, e)
        \/ Approve(t) \/ Reject(t) \/ JudgeResult(t)

Spec == Init /\ [][Next]_vars

-----------------------------------------------------------------------------
(* What the engine executes was seen by every evaluator, is primary, is not  *)
(* scored below the bar, and cannot expand below the deepest level; so at    *)
(* whatever level the recursion ends.                                        *)
OnlyVettedStepsRun ==
    \A t \in Task : stage[t] \in {"approved", "judged"} =>
        /\ DOMAIN votes[t] = Evaluator
        /\ \A i \in DOMAIN plan[t] : /\ plan[t][i] \in Range(candidates[t])
                                     /\ plan[t][i].score >= MinScore
                                     /\ Level >= MaxDepth - 1 => plan[t][i].is_terminal

(* Neither pruning nor feedback of one task shows in what another is handed  *)
(* from the cache: its candidates are those of a planner's first answer.     *)
CacheIsPristine ==
    cache # <<>> => cache \in {GenerateCandidates(answer) : answer \in PlanAnswers}

(* The verdict on a plan is the evaluators' own where they agree, and those  *)
(* that cannot be asked never are the reason for a rejection.                *)
VerdictFollowsVotes ==
    \A t \in Task : DOMAIN votes[t] = Evaluator =>
        LET low == {e \in Evaluator : SumOf(votes[t][e]) < 3 * MinScore}
        IN  /\ stage[t] = "rejected" => low \ unreachable[t] # {}
            /\ stage[t] \in {"approved", "judged"} => low # Evaluator

(* A better result is never judged worse, and a result nobody could judge is *)
(* neither taken for good nor given up.                                      *)
ResultsAreRanked ==
    /\ \A x, y \in judged :
        (\A i \in 1 .. 3 : x.grades[i] >= y.grades[i]) =>
            /\ y.decision = "OK" => x.decision = "OK"
            /\ x.decision = "REPLAN" => y.decision = "REPLAN"
    /\ \A x \in judged : x.grades = FallbackResult => x.decision = "RETRY"

Safe == OnlyVettedStepsRun /\ CacheIsPristine /\ VerdictFollowsVotes /\ ResultsAreRanked
=============================================================================
