------------------------------ MODULE Insights --------------------------------
(* The insights that are drawn from what the engines say: found by an        *)
(* adapter for each engine, freed of repetitions and contradictions, stored  *)
(* as memories one by one and noted in the shared state of the task, of      *)
(* which the next engine is shown what fits. A statement is the set of its   *)
(* words, whether it negates, and how its wording would be classified.       *)
EXTENDS Integers, Sequences, FiniteSets, SequencesExt

CONSTANTS
    Extraction,          \* extractions and discussions that run at once
    Outputs,             \* what an engine may say: sequences of statements
    Engine,              \* the engines whose outputs are looked at
    TokenThreshold, VectorThreshold, ConflictThreshold,  \* in hundredths
    Budget               \* items of a context shown to an engine

VARIABLES
    stage, engine,
    mode,       \* how repetitions are found
    found,      \* history: the insights an extraction found
    pending,    \* those to store, and then to note
    stored,     \* number of them stored
    copy,       \* the task's state it read
    entries,    \* memories
    row,        \* shared state of the task: [decisions, artifacts]
    shown       \* history: the last context, with the row it was made of

vars == <<stage, engine, mode, found, pending, stored, copy, entries, row, shown>>

-----------------------------------------------------------------------------
\* What each adapter looks for, in its order and with its confidence, and how
\* many decisions it shows.
Adapter ==
    [CLAUDE_CODE |-> [finds |-> <<<<"decision", 70>>, <<"file", 80>>, <<"error", 60>>, <<"fact", 60>>>>, decisions |-> 10],
     ADK         |-> [finds |-> <<<<"fact", 70>>, <<"decision", 70>>, <<"file", 80>>, <<"error", 60>>>>, decisions |-> 10],
     GEMINI_CLI  |-> [finds |-> <<<<"fact", 70>>, <<"decision", 70>>, <<"file", 80>>, <<"error", 60>>>>, decisions |-> 20],
     CODEX_CLI   |-> [finds |-> <<<<"file", 90>>, <<"decision", 60>>, <<"error", 70>>>>, decisions |-> 5],
     OPENHANDS   |-> [finds |-> <<<<"file", 85>>, <<"decision", 70>>, <<"error", 70>>>>, decisions |-> 10],
     OLLAMA      |-> [finds |-> <<<<"decision", 50>>, <<"file", 60>>, <<"error", 50>>, <<"fact", 40>>>>, decisions |-> 3]]

TypeOf == [decision |-> "episodic", file |-> "episodic", error |-> "procedural", fact |-> "semantic"]

Insight(s, type, confidence, e) ==
    [kind |-> s.kind, words |-> s.words, negated |-> s.negated, hits |-> s.hits,
     type |-> type, confidence |-> confidence, engine |-> e]

Extract(e, output) ==
    FlattenSeq([i \in DOMAIN Adapter[e].finds |->
        LET f == Adapter[e].finds[i]
            matches == SelectSeq(output, LAMBDA s : s.kind = f[1])
        IN  [j \in DOMAIN matches |-> Insight(matches[j], TypeOf[f[1]], f[2], e)]])

Share(a, b, threshold) ==
    a \cup b # {} /\ 100 * Cardinality(a \cap b) >= threshold * Cardinality(a \cup b)

Text(i) == i.words \cup (IF i.negated THEN {"not"} ELSE {})

\* With an embedding, by vectors; without, by words; where the embedding
\* failed only what is literally the same is a repetition.
Alike(m, a, b) ==
    CASE m = "vectors" -> Share(Text(a), Text(b), VectorThreshold)
      [] m = "tokens" -> Share(Text(a), Text(b), TokenThreshold)
      [] m = "exact" -> Text(a) = Text(b)

Survivors(ins, losers) ==
    LET left == SetToSortSeq(DOMAIN ins \ losers, <)
    IN  [k \in DOMAIN left |-> ins[left[k]]]

Dedup_ForwardOnly(m, ins) ==
    Survivors(ins, {j \in DOMAIN ins : j > 1 /\ Alike(m, ins[j - 1], ins[j])})

\* Of two alike the more confident stays; one that goes has sent away, before,
\* others that may be like nothing that stays.
Dedup(m, ins) ==
    LET Against(i, drop) ==
            FoldLeft(LAMBDA d, j : IF i \in d \/ j \in d \/ ~Alike(m, ins[i], ins[j]) THEN d
                                   ELSE d \cup {IF m = "exact" \/ ins[i].confidence >= ins[j].confidence
                                                THEN j ELSE i},
                     drop, [k \in 1 .. Len(ins) - i |-> i + k])
    IN  Survivors(ins, FoldLeft(LAMBDA d, i : Against(i, d), {}, [k \in DOMAIN ins |-> k]))

Types == <<"procedural", "semantic", "working", "episodic">>

\* The type with the most hits, the first such one.
ClassifyWithConfidence(hits) ==
    LET best == FoldLeft(LAMBDA b, t : IF hits[t] > b[2] THEN <<t, hits[t]>> ELSE b, <<"episodic", 0>>, Types)
    IN  <<best[1], IF 30 + 20 * best[2] > 90 THEN 90 ELSE 30 + 20 * best[2]>>

\* Only an insight the adapter is not sure of is classified again.
Classify(i) ==
    IF i.confidence >= 50 THEN i
    ELSE LET c == ClassifyWithConfidence(i.hits) IN [i EXCEPT !.type = c[1], !.confidence = c[2]]

IsConflict(a, b) ==
    /\ a.engine # b.engine
    /\ Share(a.words, b.words, ConflictThreshold)
    /\ a.negated # b.negated

\* A loser goes whether or not who beat it stays.
ResolveAll(ins) ==
    Survivors(ins, {k \in DOMAIN ins : \E o \in DOMAIN ins :
        /\ IsConflict(ins[k], ins[o])
        /\ IF k < o THEN ins[k].confidence < ins[o].confidence ELSE ins[o].confidence >= ins[k].confidence})

-----------------------------------------------------------------------------
Init ==
    /\ stage = [x \in Extraction |-> "new"]
    /\ engine = [x \in Extraction |-> "-"] /\ mode = [x \in Extraction |-> "-"]
    /\ found = [x \in Extraction |-> <<>>] /\ pending = [x \in Extraction |-> <<>>]
    /\ stored = [x \in Extraction |-> 0]
    /\ copy = [x \in Extraction |-> <<>>]
    /\ entries = {}
    /\ row = [decisions |-> <<>>, artifacts |-> {}]
    /\ shown = [engine |-> "-", of |-> row, items |-> <<>>]

Goto(x, s) == stage' = [stage EXCEPT ![x] = s]

Begin(x, e, m, ins, survivors) ==
    /\ stage[x] = "new"
    /\ engine' = [engine EXCEPT ![x] = e]
    /\ mode' = [mode EXCEPT ![x] = m]
    /\ found' = [found EXCEPT ![x] = ins]
    /\ pending' = [pending EXCEPT ![x] = survivors]
    /\ UNCHANGED <<stored, copy, entries, row, shown>>

ExtractFromOutput(x) ==
    \E e \in Engine, output \in Outputs, m \in {"vectors", "tokens", "exact"} :
        LET ins == Extract(e, output)
            unique == Dedup(m, IF m = "tokens" THEN Dedup("exact", ins) ELSE ins)
        IN  /\ Begin(x, e, m, ins, ResolveAll([k \in DOMAIN unique |-> Classify(unique[k])]))
            /\ Goto(x, IF ins = <<>> THEN "done" ELSE "storing")

\* A discussion resolves the answers of several engines, and stores nothing.
Discuss(x) ==
    \E e \in Engine, o \in Engine, output \in Outputs :
        LET ins == [k \in DOMAIN output |-> Insight(output[k], "episodic", 70, IF k = 1 THEN e ELSE o)]
        IN  Begin(x, e, "none", ins, ResolveAll(ins)) /\ Goto(x, "done")

Store(x) ==
    /\ stage[x] = "storing" /\ stored[x] < Len(pending[x])
    /\ stored' = [stored EXCEPT ![x] = @ + 1]
    /\ entries' = entries \cup {pending[x][stored'[x]].words}
    /\ UNCHANGED <<stage, engine, mode, found, pending, copy, row, shown>>

\* An error of the repository leaves what is stored, unnoted.
StoreFails(x) ==
    /\ stage[x] = "storing"
    /\ Goto(x, "raised")
    /\ UNCHANGED <<engine, mode, found, pending, stored, copy, entries, row, shown>>

ReadState(x) ==
    /\ stage[x] = "storing" /\ stored[x] = Len(pending[x])
    /\ copy' = [copy EXCEPT ![x] = row]
    /\ Goto(x, "noting")
    /\ UNCHANGED <<engine, mode, found, pending, stored, entries, row, shown>>

\* The state is saved whole; what another has saved since is gone.
UpdateTaskState(x) ==
    /\ stage[x] = "noting"
    /\ LET decisions == SelectSeq(pending[x], LAMBDA i : i.kind = "decision")
           files == SelectSeq(pending[x], LAMBDA i : i.kind = "file")
       IN  row' = [decisions |-> copy[x].decisions \o [k \in DOMAIN decisions |-> decisions[k].words],
                   artifacts |-> copy[x].artifacts \cup {files[k].words : k \in DOMAIN files}]
    /\ Goto(x, "done")
    /\ UNCHANGED <<engine, mode, found, pending, stored, copy, entries, shown>>

LastOf(s, n) == SubSeq(s, IF Len(s) > n THEN Len(s) - n + 1 ELSE 1, Len(s))

\* What the budget does not hold is cut from the end, the newest decisions
\* and everything that would have followed them.
InjectContext(e) ==
    LET decisions == LastOf(row.decisions, Adapter[e].decisions)
        items == decisions \o SetToSeq(row.artifacts)
    IN  shown' = [engine |-> e, of |-> row, items |-> SubSeq(items, 1, IF Len(items) > Budget THEN Budget ELSE Len(items))]

HandContext ==
    /\ \E e \in Engine : InjectContext(e)
    /\ UNCHANGED <<stage, engine, mode, found, pending, stored, copy, entries, row>>

Next ==
    \/ \E x \in Extraction :
        ExtractFromOutput(x) \/ Discuss(x) \/ Store(x) \/ StoreFails(x) \/ ReadState(x) \/ UpdateTaskState(x)
    \/ HandContext

Spec == Init /\ [][Next]_vars

-----------------------------------------------------------------------------
(* What is left of an output stands apart: no two insights are alike by the  *)
(* measure that was used, none contradicts another engine's, and none was    *)
(* sent away that nothing found was alike or contrary to.                    *)
SurvivorsStandApart ==
    \A x \in Extraction :
        /\ \A i, j \in DOMAIN pending[x] : i # j =>
            /\ mode[x] # "none" => ~Alike(mode[x], pending[x][i], pending[x][j])
            /\ ~IsConflict(pending[x][i], pending[x][j])
        /\ \A i \in DOMAIN found[x] :
            \/ \E k \in DOMAIN pending[x] : pending[x][k].words = found[x][i].words
            \/ \E j \in DOMAIN found[x] \ {i} :
                IF mode[x] = "none" THEN IsConflict(found[x][i], found[x][j])
                ELSE Alike(mode[x], found[x][i], found[x][j])

(* A decision that a task's state notes is in the memory, also when another  *)
(* extraction fails half way or overwrites the state.                        *)
DecisionsAreRemembered ==
    /\ ToSet(row.decisions) \subseteq entries
    /\ row.artifacts \subseteq entries

(* An engine that is handed the state is shown its newest decision, or as    *)
(* much as its context holds.                                                *)
ContextIsCurrent ==
    \/ shown.of.decisions = <<>> \/ Len(shown.items) = Budget
    \/ shown.of.decisions[Len(shown.of.decisions)] \in ToSet(shown.items)

Safe == SurvivorsStandApart /\ DecisionsAreRemembered /\ ContextIsCurrent
=============================================================================
