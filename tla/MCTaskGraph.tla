---------------------------- MODULE MCTaskGraph -----------------------------
(* Instance of TaskGraph for TLC: three subtasks, two models and the shapes *)
(* of decomposition that differ for the engine.                             *)
EXTENDS TaskGraph

CONSTANTS draft, m1, m2

MCModel == {m1, m2}
MCKey   == {draft}

None == [s \in 1..3 |-> {}]
Local == [s \in 1..3 |-> "none"]

Shape(deps, intended, needsTools, simple, pinned) ==
    [deps |-> deps, produces |-> None, consumes |-> None, needsTools |-> needsTools,
     simple |-> simple, pinned |-> pinned, intended |-> intended]

(* 2 and 3 depend on 1; engine, ReAct and direct path in one task.          *)
Fork == Shape(<<{}, {1}, {1}>>, <<"none", "capable", "none">>, {2}, {1}, {})

(* 3 joins 1 and 2.                                                         *)
Join == Shape(<<{}, {}, {1, 2}>>, Local, {2}, {1, 3}, {})

(* 2 and 3 wait for each other, as a model's "deps" may say.                *)
Cycle == Shape(<<{}, {1, 3}, {2}>>, <<"ollama", "none", "none">>, {1}, {}, {1})

(* A chain the model left out of "deps" and the artifacts put in; 3 revises *)
(* the draft it consumes.                                                   *)
Draft == [Shape(<<{}, {}, {2}>>, Local, {}, {1, 2, 3}, {}) EXCEPT
            !.produces = <<{draft}, {}, {draft}>>, !.consumes = <<{}, {draft}, {draft}>>]

(* Every dependency relation between three subtasks, on one local path.     *)
AnyGraph ==
    {Shape(deps, Local, {}, {2, 3}, {}) :
        deps \in {g \in [1..3 -> SUBSET (1..3)] : \A s \in 1..3 : s \notin g[s]}}

MCDecompositions == {Fork, Join, Cycle, Draft} \cup AnyGraph
=============================================================================
