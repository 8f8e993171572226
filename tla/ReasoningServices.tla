-------------------------- MODULE ReasoningServices ---------------------------
(* What is decided by what a model answers: the analyzer of goals, the       *)
(* router of the planner's model, the gates of a plan, the tool loop of a    *)
(* subtask, the discussion and the debate over results. None reads another's *)
(* state: a step of the whole is a step of one of them.                      *)
EXTENDS Integers, Sequences, FiniteSets

CONSTANTS
    ToolLoop, LocalTools, Registrations, Allowed, LoopAnswers, MaxIterations,         \* ReactLoop
    Planning, Evaluator, Level, MaxDepth, MinScore, OkThreshold,             \* FractalGates
    RetryThreshold, MaxPlanAttempts, PlanAnswers, Grades,
    Texts, Rotation, Routable, GatewayModel, MinRounds, MaxRounds,           \* Discussion
    Convergence, Rotates, Adaptive,
    Debaters, Names, Mentions,                                               \* CouncilDebate
    Goal, Enabled, Remote, Confidences, HaikuThreshold,                      \* GoalRouting
    Goals, Decompositions                                                    \* GoalAnalysis

VARIABLES
    schemas, route, connected, loopStage, toolLists, dialogue, steps, current, last, repeats,
    reason, final,
    gateStage, attempts, feedback, planCandidates, votes, unreachable, approved, cache, judged,
    round, phase, roundModel, models, rounds, previous, spent, synthesis,
    debating, arguments, decision, debateEvents,
    routeStage, verdict, charged, planner, decisions, published,
    goal, goalStage, consulted, answer, plan

React == INSTANCE ReactLoop WITH
    Loop <- ToolLoop, Local <- LocalTools,
    Answers <- LoopAnswers, stage <- loopStage, tools <- toolLists, messages <- dialogue
Gates == INSTANCE FractalGates WITH Task <- Planning, stage <- gateStage,
    candidates <- planCandidates, plan <- approved
Talks == INSTANCE Discussion WITH
    DefaultModel <- GatewayModel, Threshold <- Convergence, asked <- roundModel, cost <- spent
Debate == INSTANCE CouncilDebate WITH Candidates <- Debaters, events <- debateEvents
Route == INSTANCE GoalRouting WITH stage <- routeStage
Intent == INSTANCE GoalAnalysis WITH
    Answers <- Decompositions, stage <- goalStage, asked <- consulted

\* A model's own answer is told from what stands for none.
ASSUME LoopAssumption ==
    /\ \A a \in LoopAnswers : /\ a.calls \in Seq([tool : STRING, args : Nat])
                              /\ a.content # React!NoResults
    /\ MaxIterations \in Nat \ {0}

\* An evaluator that cannot be asked is no reason for a rejection, and a result
\* that nobody could judge lies between the thresholds.
ASSUME GatesAssumption ==
    /\ IsFiniteSet(Evaluator) /\ Evaluator # {}
    /\ Level \in Int /\ MaxDepth \in Int /\ MaxPlanAttempts \in Nat
    /\ MinScore \in 0 .. 6
    /\ OkThreshold \in Int /\ RetryThreshold \in Int /\ RetryThreshold <= 5 /\ 5 < OkThreshold
    /\ PlanAnswers \subseteq Seq([description : STRING, is_terminal : BOOLEAN, score : Int,
                                  conditional : BOOLEAN])
    /\ Grades \subseteq [1 .. 3 -> Int]

\* A text without words does not object.
ASSUME DiscussionAssumption ==
    /\ Talks!NoText \notin Texts
    /\ MinRounds \in Nat /\ MaxRounds \in Nat \ {0}

ASSUME DebateAssumption == Debaters \in Seq(Names)

\* A dependency is the number of an item, counted from one.
ASSUME GoalsAssumption ==
    /\ \A g \in Goals : g.models \in Seq(STRING) /\ g.roles \in Seq(STRING)
    /\ Decompositions \subseteq Seq([description : {"short", "long"}, model : STRING, role : STRING,
                                     deps : SUBSET Nat, produces : SUBSET Nat, consumes : SUBSET Nat])

loopVars == <<schemas, route, connected, loopStage, toolLists, dialogue, steps, current, last,
              repeats, reason, final>>
gateVars == <<gateStage, attempts, feedback, planCandidates, votes, unreachable, approved, cache, judged>>
talkVars == <<round, phase, roundModel, models, rounds, previous, spent, synthesis>>
debateVars == <<debating, arguments, decision, debateEvents>>
routeVars == <<routeStage, verdict, charged, planner, decisions, published>>
goalVars == <<goal, goalStage, consulted, answer, plan>>
reasoningVars == <<loopVars, gateVars, talkVars, debateVars, routeVars, goalVars>>

ReasoningInit ==
    /\ React!Init /\ Gates!Init /\ Talks!Init
    /\ Debate!Init /\ Route!Init /\ Intent!Init

UseTools == React!Next /\ UNCHANGED <<gateVars, talkVars, debateVars, routeVars, goalVars>>
VetPlans == Gates!Next /\ UNCHANGED <<loopVars, talkVars, debateVars, routeVars, goalVars>>
Discuss == Talks!Next /\ UNCHANGED <<loopVars, gateVars, debateVars, routeVars, goalVars>>
HoldDebate == Debate!Next /\ UNCHANGED <<loopVars, gateVars, talkVars, routeVars, goalVars>>
RouteGoals == Route!Next /\ UNCHANGED <<loopVars, gateVars, talkVars, debateVars, goalVars>>
AnalyzeGoal == Intent!Next /\ UNCHANGED <<loopVars, gateVars, talkVars, debateVars, routeVars>>

ReasoningNext == UseTools \/ VetPlans \/ Discuss \/ HoldDebate \/ RouteGoals \/ AnalyzeGoal
ReasoningSpec == ReasoningInit /\ [][ReasoningNext]_reasoningVars

-----------------------------------------------------------------------------
(* What a model's answer decides: the gates' OnlyVettedStepsRun,             *)
(* CacheIsPristine, VerdictFollowsVotes and ResultsAreRanked, the tool       *)
(* loop's EveryCallAnswered, EndsForItsReason and FallbackIsRecent, the      *)
(* discussion's SynthesisIsTheLastRound and EndsForAReason, the council's    *)
(* DebateIsTold, the router's HaikuIsEarned and EveryGoalCounted, the        *)
(* analyzer's PlanKeepsTheGoal and PlansAreOrdered.                          *)
ReasoningSafe ==
    /\ React!Safe /\ Gates!Safe /\ Talks!Safe
    /\ Debate!DebateIsTold /\ Route!Safe /\ Intent!Safe
=============================================================================
