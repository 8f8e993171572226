----------------------------- MODULE Discussion -----------------------------
(* The discussion of a task whose subtasks several models have answered: the *)
(* results are synthesised in rounds, each by an engine or, failing that, by *)
(* the gateway, until two texts in a row converge. A text is the set of its  *)
(* words with the density, none or full, of what agrees and what objects.    *)
EXTENDS Integers, Sequences, FiniteSets, SequencesExt

CONSTANTS
    Texts,                 \* [words, agrees, objects]
    Rotation,              \* models the rounds rotate through, in order
    Routable,              \* those of them that an engine runs
    DefaultModel,          \* the gateway's own choice
    MinRounds, MaxRounds,
    Threshold,             \* of convergence, in hundredths
    Rotates, Adaptive      \* settings

VARIABLES
    round, phase,
    asked,      \* model the current round asks for
    models,     \* models that answered, as reported
    rounds,     \* history: answers of the rounds
    previous,   \* text of the round before
    cost,       \* of all rounds so far
    synthesis   \* the unifying subtask, or what it would be so far

vars == <<round, phase, asked, models, rounds, previous, cost, synthesis>>

NoText == [words |-> {}, agrees |-> 0, objects |-> 1]
None == "none"
NoSynthesis == [text |-> NoText, model |-> None, engine |-> FALSE]

-----------------------------------------------------------------------------
\* Similarity, plus a share for agreement, less a share for objections, with
\* everything multiplied by the number of words of both texts.
Converged(a, b) ==
    LET union == a.words \cup b.words
        both == a.words \cap b.words
        scale == IF union = {} THEN 1 ELSE Cardinality(union)
        similar == IF union = {} THEN 1 ELSE Cardinality(both)
    IN  100 * similar + (15 * b.agrees - 20 * b.objects) * scale >= Threshold * scale

Stops_BelowMinimum(before, text) ==
    \/ round >= MaxRounds
    \/ before # NoText /\ Converged(before, text)

\* Whether the discussion stops after this round.
Stops(before, text) ==
    \/ round >= MaxRounds
    \/ round >= MinRounds /\ before # NoText /\ Converged(before, text)

Init ==
    /\ round = 1 /\ phase = "pick"
    /\ asked = DefaultModel /\ models = {} /\ rounds = <<>>
    /\ previous = NoText /\ cost = 0 /\ synthesis = NoSynthesis

-----------------------------------------------------------------------------
\* From the second round on the first available model that has not answered
\* is asked, an engine if one runs it.
PickDiscussionModel ==
    /\ phase = "pick"
    /\ \E available \in SUBSET ToSet(Rotation) :
        LET fresh == SelectSeq(Rotation, LAMBDA m : m \in available \ models)
        IN  asked' = IF round > 1 /\ Rotates /\ fresh # <<>> THEN Head(fresh) ELSE DefaultModel
    /\ phase' = IF asked' \in Routable /\ asked' # DefaultModel THEN "engine" ELSE "llm"
    /\ UNCHANGED <<round, models, rounds, previous, cost, synthesis>>

Answered(text, model, engine) ==
    /\ synthesis' = [text |-> text, model |-> model, engine |-> engine]
    /\ models' = models \cup {model}
    /\ cost' = cost + 1
    /\ rounds' = Append(rounds, synthesis')
    /\ previous' = text
    /\ IF (IF Adaptive THEN Stops(previous, text) ELSE round >= MaxRounds)
       THEN phase' = "done" /\ UNCHANGED round
       ELSE phase' = "pick" /\ round' = round + 1
    /\ UNCHANGED asked

\* The engine may report another model than it was asked for.
EngineAnswers ==
    /\ phase = "engine"
    /\ \E text \in Texts, m \in {asked, DefaultModel} : Answered(text, m, TRUE)

EngineFails ==
    /\ phase = "engine"
    /\ phase' = "llm"
    /\ UNCHANGED <<round, asked, models, rounds, previous, cost, synthesis>>

LlmAnswers ==
    /\ phase = "llm"
    /\ \E text \in Texts, m \in {asked, DefaultModel} : Answered(text, m, FALSE)

\* What the earlier rounds arrived at is kept; without any, there is none.
LlmFails ==
    /\ phase = "llm"
    /\ phase' = "done"
    /\ UNCHANGED <<round, asked, models, rounds, previous, cost, synthesis>>

Next == PickDiscussionModel \/ EngineAnswers \/ EngineFails \/ LlmAnswers \/ LlmFails

Spec == Init /\ [][Next]_vars

-----------------------------------------------------------------------------
(* The synthesis is wholly that of the last round that answered, text, model *)
(* and engine, and it is charged for all of them, also for the rounds that   *)
(* were overtaken and when the last one failed.                              *)
SynthesisIsTheLastRound ==
    /\ cost = Len(rounds)
    /\ synthesis = IF rounds = <<>> THEN NoSynthesis ELSE rounds[Len(rounds)]

(* A discussion ends for a reason: a failed gateway, its number of rounds,   *)
(* or two texts in a row that agree, the second of a round from the minimum  *)
(* on; and while it goes on no two such texts have been met.                 *)
EndsForAReason ==
    LET n == Len(rounds)
        agreed(i) == Adaptive /\ i >= MinRounds /\ i > 1 /\ Converged(rounds[i - 1].text, rounds[i].text)
    IN  /\ n <= MaxRounds
        /\ \A i \in 1 .. n - 1 : ~agreed(i)
        /\ phase = "done" => n = round - 1 \/ n = MaxRounds \/ agreed(n)
        /\ phase # "done" => n < MaxRounds /\ ~agreed(n)

Safe == SynthesisIsTheLastRound /\ EndsForAReason
=============================================================================
