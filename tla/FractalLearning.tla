--------------------------- MODULE FractalLearning ---------------------------
(* What fractal executions leave behind for later plans: failed steps and    *)
(* successful paths, in two tables with a row per pattern. A save reads its  *)
(* row in one statement and inserts or updates it in another, and the value  *)
(* it writes is computed from the row it read. The planner is told of the    *)
(* most frequent rows. (The repository in memory does both in one step.)     *)
EXTENDS Integers, SequencesExt

CONSTANTS
    Execution,    \* executions that record what they did, at once
    Histories,    \* the steps an execution may have completed, with their outcome
    Cost,         \* what a successful path may have cost
    MaxErrors, MaxPaths  \* how many rows of each kind the planner is told of

VARIABLES
    nodes,     \* the steps each execution has completed, with their outcome
    cost,      \* what each execution has cost
    todo,      \* the saves an execution has still to make
    read,      \* the row its current save has read, or Unread
    errors,    \* fractal_error_patterns: failed step -> occurrence_count
    paths,     \* fractal_successful_paths: steps -> usage_count and total cost
    saved,     \* history: the saves that were committed, with their execution
    told       \* what the planner was last told

vars == <<nodes, cost, todo, read, errors, paths, saved, told>>

Unread == [asked |-> FALSE, row |-> <<>>]

-----------------------------------------------------------------------------
\* Failed steps in order, and the path when every step of it succeeded.
ExtractErrorPatterns(ns) ==
    LET failed == SelectSeq(ns, LAMBDA n : ~n.ok)
    IN  [i \in DOMAIN failed |-> [kind |-> "error", key |-> failed[i].step]]

ExtractSuccessfulPath(ns) ==
    IF ns # <<>> /\ \A i \in DOMAIN ns : ns[i].ok
    THEN <<[kind |-> "path", key |-> [i \in DOMAIN ns |-> ns[i].step]]>> ELSE <<>>

Saves(ns) == ExtractErrorPatterns(ns) \o ExtractSuccessfulPath(ns)

Init ==
    /\ nodes \in [Execution -> Histories]
    /\ cost \in [Execution -> Cost]
    /\ todo = [x \in Execution |-> Saves(nodes[x])]
    /\ read = [x \in Execution |-> Unread]
    /\ errors = <<>> /\ paths = <<>>
    /\ saved = {} /\ told = <<<<>>, <<>>>>

-----------------------------------------------------------------------------
Table(kind) == IF kind = "error" THEN errors ELSE paths

SelectRow(x) ==
    /\ todo[x] # <<>> /\ ~read[x].asked
    /\ LET save == Head(todo[x])
           found == save.key \in DOMAIN Table(save.kind)
       IN  read' = [read EXCEPT ![x] = [asked |-> TRUE,
                                        row |-> IF found THEN <<Table(save.kind)[save.key]>> ELSE <<>>]]
    /\ UNCHANGED <<nodes, cost, todo, errors, paths, saved, told>>

Cheaper(c, total) == IF c < total THEN c ELSE total
Written_Adds(x) ==
    LET row == Head(read[x].row)
    IN  IF Head(todo[x]).kind = "error" THEN IF read[x].row # <<>> THEN row + 1 ELSE 1
        ELSE IF read[x].row # <<>>
             THEN [usage_count |-> row.usage_count + 1, total_cost |-> row.total_cost + cost[x]]
             ELSE [usage_count |-> 1, total_cost |-> cost[x]]
Written(x) ==
    LET row == Head(read[x].row)
    IN  IF Head(todo[x]).kind = "error" THEN IF read[x].row # <<>> THEN row + 1 ELSE 1
        ELSE IF read[x].row # <<>>
             THEN [usage_count |-> row.usage_count + 1, total_cost |-> Cheaper(cost[x], row.total_cost)]
             ELSE [usage_count |-> 1, total_cost |-> cost[x]]

\* A second insert of a key violates its constraint: the save raises, and the
\* execution gives up on what it has still to save.
Commit(x) ==
    /\ read[x].asked
    /\ LET save == Head(todo[x])
           new == save.key :> Written(x)
       IN  IF read[x].row = <<>> /\ save.key \in DOMAIN Table(save.kind)
           THEN todo' = [todo EXCEPT ![x] = <<>>] /\ UNCHANGED <<errors, paths, saved>>
           ELSE /\ todo' = [todo EXCEPT ![x] = Tail(@)]
                /\ saved' = saved \cup {[execution |-> x, kind |-> save.kind, key |-> save.key,
                                         place |-> Len(todo[x])]}
                /\ IF save.kind = "error" THEN errors' = new @@ errors /\ UNCHANGED paths
                   ELSE paths' = new @@ paths /\ UNCHANGED errors
    /\ read' = [read EXCEPT ![x] = Unread]
    /\ UNCHANGED <<nodes, cost, told>>

\* The most frequent rows first; rows of the same frequency in any order.
First(s, n) == SubSeq(s, 1, IF n < Len(s) THEN n ELSE Len(s))
Ranked(keys, Count(_)) ==
    {s \in SetToSeqs(keys) : \A i, j \in DOMAIN s : i < j => Count(s[i]) >= Count(s[j])}
BuildLearningContext ==
    /\ \E es \in Ranked(DOMAIN errors, LAMBDA k : errors[k]),
          ps \in Ranked(DOMAIN paths, LAMBDA k : paths[k].usage_count) :
        told' = <<First(es, MaxErrors), First(ps, MaxPaths)>>
    /\ UNCHANGED <<nodes, cost, todo, read, errors, paths, saved>>

Next ==
    \/ \E x \in Execution : SelectRow(x) \/ Commit(x)
    \/ BuildLearningContext

Spec == Init /\ [][Next]_vars

-----------------------------------------------------------------------------
Savers(kind, key) == {s \in saved : s.kind = kind /\ s.key = key}

(* Executions that save at once may lose each other's counts, never make     *)
(* them up: a row is there exactly when a save of it was committed, counts   *)
(* one at least and those saves at most.                                     *)
CountsAreEarned ==
    /\ DOMAIN errors = {s.key : s \in {r \in saved : r.kind = "error"}}
    /\ DOMAIN paths = {s.key : s \in {r \in saved : r.kind = "path"}}
    /\ \A k \in DOMAIN errors : errors[k] \in 1 .. Cardinality(Savers("error", k))
    /\ \A k \in DOMAIN paths : paths[k].usage_count \in 1 .. Cardinality(Savers("path", k))

(* The cost of a path is that of one of the executions that took it and were *)
(* saved, even when they overwrite each other's.                             *)
CostsAreReal ==
    \A k \in DOMAIN paths : paths[k].total_cost \in {cost[s.execution] : s \in Savers("path", k)}

(* An execution that succeeded leaves no failure behind, one with a failure  *)
(* no path; and the planner hears of what was committed only.                *)
LessonsAreTrue ==
    /\ \A r, s \in saved : r.execution = s.execution => r.kind = s.kind
    /\ Range(told[1]) \subseteq DOMAIN errors /\ Range(told[2]) \subseteq DOMAIN paths

Safe == CountsAreEarned /\ CostsAreReal /\ LessonsAreTrue
=============================================================================
