---------------------------- MODULE SharedEngines -----------------------------
(* One FractalTaskEngine, and one LangGraphTaskEngine inside it, for all      *)
(* tasks of a process. Both keep what belongs to the call in progress on      *)
(* themselves and neither has a lock: the nodes of a plan call the inner      *)
(* engine at once, and so do tasks that are executed at once. A plan here is  *)
(* one batch of terminal nodes, each tried once; FractalEngine and TaskGraph  *)
(* follow what the engines do for a call that is alone.                       *)
EXTENDS Naturals, FiniteSets

CONSTANTS
    Task, Nodes(_),  \* the tasks of the process, and the nodes of their plans
    NoTask,
    Limit(_),        \* the override of max_concurrent_nodes a task comes with, or 0
    DefaultLimit,    \* max_concurrent_nodes of the settings
    Bypassed,        \* the tasks the bypass classifier may call SIMPLE
    MaxRetries       \* MAX_RETRIES of the inner engine

VARIABLES
    stage,    \* where the execution of a task stands
    fractal,  \* the fields of the fractal engine
    permits,  \* of the semaphore each task has made
    inner,    \* the fields of the inner engine
    had,      \* whether the inner engine was wired when a bypass wired it
    call,     \* the calls of the inner engine, by the task they were made for
    sub,      \* the one subtask of each of these tasks
    node,     \* the nodes, with the task whose result each was given
    row,      \* the subtasks a page shows for the nodes
    table,    \* the inner tasks that are rows of the task table
    met       \* history: tasks and calls of the inner engine that were beside another

vars == <<stage, fractal, permits, inner, had, call, sub, node, row, table, met>>

Node == UNION {Nodes(t) : t \in Task}
Owner(n) == CHOOSE t \in Task : n \in Nodes(t)
Called == Task \cup Node

(* Ids are unique: a node belongs to one task, and is no task.               *)
EnginesAssumption ==
    /\ \A t, u \in Task : Nodes(t) \cap Nodes(u) # {} => t = u
    /\ Task \cap Node = {}
    /\ NoTask \notin Called
    /\ IsFiniteSet(Called)
    /\ \A t \in Task : Limit(t) \in Nat
    /\ DefaultLimit \in Nat

Init ==
    /\ stage = [t \in Task |-> "new"]
    /\ fractal = [task |-> NoTask, overrides |-> 0, semaphore |-> NoTask]
    /\ permits = [t \in Task |-> 0]
    /\ inner = [task |-> NoTask, counts |-> [e \in Called |-> 0], wired |-> FALSE]
    /\ had = [t \in Task |-> FALSE]
    /\ call = [e \in Called |-> [at |-> "none", ready |-> {}, on |-> NoTask, semaphore |-> NoTask]]
    /\ sub = [e \in Called |-> "pending"]
    /\ node = [n \in Node |-> [status |-> "pending", of |-> NoTask]]
    /\ row = [n \in Node |-> "none"]
    /\ table = {} /\ met = {}

-----------------------------------------------------------------------------
(* The execution of a task up to its nodes.                                  *)
InProgress(t) == stage[t] \notin {"new", "answered"}
Meeting(others, e) == met \cup (IF others = {} THEN {} ELSE others \cup {e})

SetExecutionOverrides(t) ==
    /\ stage[t] = "new"
    /\ stage' = [stage EXCEPT ![t] = "set"]
    /\ fractal' = IF Limit(t) # 0 THEN [fractal EXCEPT !.overrides = Limit(t)] ELSE fractal
    /\ met' = Meeting({u \in Task : InProgress(u)}, t)
    /\ UNCHANGED <<permits, inner, had, call, sub, node, row, table>>

\* The row is read and saved between the overrides and the call of execute.
BeginTask_KeepsOverrides(t) ==
    /\ stage[t] = "set"
    /\ stage' = [stage EXCEPT ![t] = "classify"]
    /\ permits' = [permits EXCEPT ![t] = IF fractal.overrides # 0 THEN fractal.overrides ELSE DefaultLimit]
    /\ fractal' = [fractal EXCEPT !.task = t, !.semaphore = t]
    /\ UNCHANGED <<inner, had, call, sub, node, row, table, met>>

BeginTask(t) ==
    /\ stage[t] = "set"
    /\ stage' = [stage EXCEPT ![t] = "classify"]
    /\ permits' = [permits EXCEPT ![t] = IF fractal.overrides # 0 THEN fractal.overrides ELSE DefaultLimit]
    /\ fractal' = [task |-> t, overrides |-> 0, semaphore |-> t]
    /\ UNCHANGED <<inner, had, call, sub, node, row, table, met>>

Approve(t) ==
    /\ stage[t] = "classify"
    /\ stage' = [stage EXCEPT ![t] = "planned"]
    /\ row' = [n \in Node |-> IF n \in Nodes(t) THEN "pending" ELSE row[n]]
    /\ UNCHANGED <<fractal, permits, inner, had, call, sub, node, table, met>>

\* Rows are found through the engine's task, whichever that is by now.
StartBatch(t) ==
    /\ stage[t] = "planned"
    /\ stage' = [stage EXCEPT ![t] = "batch"]
    /\ row' = [n \in Node |-> IF n \in Nodes(t) /\ fractal.task = t THEN "running" ELSE row[n]]
    /\ UNCHANGED <<fractal, permits, inner, had, call, sub, node, table, met>>

-----------------------------------------------------------------------------
(* The inner engine.                                                         *)
Goto(e, at) == call' = [call EXCEPT ![e].at = at]

Active(e) == call[e].at \in {"select", "batch", "running", "route", "return"}

Execute(e, wired) ==
    /\ inner' = [task |-> e, counts |-> [x \in Called |-> 0], wired |-> wired]
    /\ Goto(e, "select")
    /\ met' = Meeting({x \in Called : Active(x)}, e)

\* A node takes the semaphore there is when its coroutine begins.
Queue(n) ==
    /\ stage[Owner(n)] = "batch" /\ call[n].at = "none"
    /\ call' = [call EXCEPT ![n].at = "queued", ![n].semaphore = fractal.semaphore]
    /\ UNCHANGED <<stage, fractal, permits, inner, had, sub, node, row, table, met>>

Holders(s) == {n \in Node : call[n].semaphore = s /\ call[n].at \notin {"none", "queued", "over"}}

ExecuteTerminal(n) ==
    /\ call[n].at = "queued"
    /\ LET s == call[n].semaphore IN s # NoTask => Cardinality(Holders(s)) < permits[s]
    /\ node' = [node EXCEPT ![n].status = "running"]
    /\ Execute(n, inner.wired)
    /\ UNCHANGED <<stage, fractal, permits, had, sub, row, table>>

ExecuteBypass(t) ==
    /\ stage[t] = "classify" /\ t \in Bypassed
    /\ stage' = [stage EXCEPT ![t] = "bypass"]
    /\ had' = [had EXCEPT ![t] = inner.wired]
    /\ Execute(t, TRUE)
    /\ UNCHANGED <<fractal, permits, sub, node, row, table>>

\* What is persisted is the task of the engine, when a repository is wired.
Persisted == IF inner.wired THEN table \cup {inner.task} ELSE table

SelectReady(e) ==
    /\ call[e].at = "select"
    /\ call' = [call EXCEPT ![e].at = "batch",
                            ![e].ready = {x \in {inner.task} : sub[x] = "pending"}]
    /\ UNCHANGED <<stage, fractal, permits, inner, had, sub, node, row, table, met>>

ExecuteBatch(e) ==
    /\ call[e].at = "batch"
    /\ call[e].ready = {inner.task}
    /\ call' = [call EXCEPT ![e].at = "running", ![e].on = inner.task]
    /\ sub' = [sub EXCEPT ![inner.task] = "running"]
    /\ table' = Persisted
    /\ UNCHANGED <<stage, fractal, permits, inner, had, node, row, met>>

ExecuteNothing(e) ==
    /\ call[e].at = "batch" /\ call[e].ready = {}
    /\ Goto(e, "route")
    /\ UNCHANGED <<stage, fractal, permits, inner, had, sub, node, row, table, met>>

Answered(e) ==
    /\ call[e].at = "running"
    /\ sub' = [sub EXCEPT ![call[e].on] = "success"]
    /\ table' = Persisted
    /\ Goto(e, "route")
    /\ UNCHANGED <<stage, fractal, permits, inner, had, node, row, met>>

Raised(e) ==
    /\ call[e].at = "running"
    /\ LET count == inner.counts[call[e].on] + 1 IN
        /\ inner' = [inner EXCEPT !.counts[call[e].on] = count]
        /\ sub' = [sub EXCEPT ![call[e].on] = IF count < MaxRetries THEN "pending" ELSE "failed"]
    /\ table' = Persisted
    /\ Goto(e, "route")
    /\ UNCHANGED <<stage, fractal, permits, had, node, row, met>>

RouteAfterExecution_ByOwnTask(e) ==
    /\ call[e].at = "route"
    /\ Goto(e, IF sub[e] = "pending" THEN "select" ELSE "return")
    /\ UNCHANGED <<stage, fractal, permits, inner, had, sub, node, row, table, met>>

RouteAfterExecution(e) ==
    /\ call[e].at = "route"
    /\ Goto(e, IF sub[inner.task] = "pending" THEN "select" ELSE "return")
    /\ UNCHANGED <<stage, fractal, permits, inner, had, sub, node, row, table, met>>

-----------------------------------------------------------------------------
(* What becomes of the answer.                                               *)
ApplyResult(n) ==
    /\ call[n].at = "return"
    /\ node' = [node EXCEPT ![n] = [status |-> sub[inner.task], of |-> inner.task]]
    /\ Goto(n, IF sub[inner.task] = "success" THEN "over" ELSE "gate")
    /\ UNCHANGED <<stage, fractal, permits, inner, had, sub, row, table, met>>

\* A batch whose ready subtask is of another task than the engine's by now.
NodeRaises(n) ==
    /\ call[n].at = "batch" /\ call[n].ready \notin {{}, {inner.task}}
    /\ node' = [node EXCEPT ![n] = [status |-> "failed", of |-> NoTask]]
    /\ Goto(n, "gate")
    /\ UNCHANGED <<stage, fractal, permits, inner, had, sub, row, table, met>>

Gate(n) ==
    /\ call[n].at = "gate"
    /\ \E verdict \in {"success", "failed"} : node' = [node EXCEPT ![n].status = verdict]
    /\ Goto(n, "over")
    /\ UNCHANGED <<stage, fractal, permits, inner, had, sub, row, table, met>>

\* The use case saves the task it was given back, whichever that is.
LeaveBypass(t) ==
    /\ fractal' = [fractal EXCEPT !.task = NoTask]
    /\ Goto(t, "over")
    /\ stage' = [stage EXCEPT ![t] = "answered"]

BypassReturns(t) ==
    /\ t \in Task /\ call[t].at = "return"
    /\ LeaveBypass(t)
    /\ inner' = [inner EXCEPT !.wired = had[t]]
    /\ table' = table \cup {inner.task}
    /\ UNCHANGED <<permits, had, sub, node, row, met>>

BypassRaises(t) ==
    /\ t \in Task
    /\ call[t].at = "batch" /\ call[t].ready \notin {{}, {inner.task}}
    /\ LeaveBypass(t)
    /\ inner' = [inner EXCEPT !.wired = had[t]]
    /\ sub' = [sub EXCEPT ![t] = "failed"]
    /\ table' = table \cup {t}
    /\ UNCHANGED <<permits, had, node, row, met>>

-----------------------------------------------------------------------------
Synchronised(t) == [n \in Node |-> IF n \in Nodes(t) /\ fractal.task = t THEN node[n].status ELSE row[n]]

BatchOver(t) ==
    /\ stage[t] = "batch" /\ \A n \in Nodes(t) : call[n].at = "over"
    /\ row' = Synchronised(t)
    /\ stage' = [stage EXCEPT ![t] = "synced"]
    /\ UNCHANGED <<fractal, permits, inner, had, call, sub, node, table, met>>

Sweep(t) ==
    /\ stage[t] = "synced"
    /\ row' = [n \in Node |-> IF n \in Nodes(t) /\ Synchronised(t)[n] \in {"pending", "running"}
                              THEN "failed" ELSE Synchronised(t)[n]]
    /\ stage' = [stage EXCEPT ![t] = "leaving"]
    /\ UNCHANGED <<fractal, permits, inner, had, call, sub, node, table, met>>

LeaveTask(t) ==
    /\ stage[t] = "leaving"
    /\ stage' = [stage EXCEPT ![t] = "answered"]
    /\ fractal' = [fractal EXCEPT !.task = NoTask, !.semaphore = NoTask]
    /\ table' = table \cup {t}
    /\ UNCHANGED <<permits, inner, had, call, sub, node, row, met>>

CallStep(e) ==
    \/ SelectReady(e) \/ ExecuteBatch(e) \/ ExecuteNothing(e)
    \/ Answered(e) \/ Raised(e) \/ RouteAfterExecution(e)
NodeStep(n) == Queue(n) \/ ExecuteTerminal(n) \/ ApplyResult(n) \/ NodeRaises(n) \/ Gate(n) \/ CallStep(n)
TaskStep(t) ==
    \/ BeginTask(t) \/ Approve(t) \/ StartBatch(t) \/ ExecuteBypass(t)
    \/ CallStep(t) \/ BypassReturns(t) \/ BypassRaises(t) \/ BatchOver(t) \/ Sweep(t) \/ LeaveTask(t)

\* Whatever the coroutines of the process have left to do.
Progress == (\E t \in Task : TaskStep(t)) \/ (\E n \in Node : NodeStep(n))

Next == Progress \/ \E t \in Task : SetExecutionOverrides(t)
Spec == Init /\ [][Next]_vars

-----------------------------------------------------------------------------
Stages ==
    {"new", "set", "classify", "planned", "batch", "bypass", "synced", "leaving", "answered"}
Places ==
    {"none", "queued", "select", "batch", "running", "route", "return", "gate", "over"}
Call ==
    [at : Places, ready : SUBSET (Called \cup {NoTask}), on : Called \cup {NoTask},
     semaphore : Task \cup {NoTask}]
Statuses == {"pending", "running", "success", "failed"}

TypeOK ==
    /\ stage \in [Task -> Stages]
    /\ fractal \in [task : Task \cup {NoTask}, overrides : Nat, semaphore : Task \cup {NoTask}]
    /\ permits \in [Task -> Nat]
    /\ inner \in [task : Called \cup {NoTask}, counts : [Called -> Nat], wired : BOOLEAN]
    /\ had \in [Task -> BOOLEAN]
    /\ call \in [Called -> Call]
    /\ sub \in [Called -> Statuses]
    /\ node \in [Node -> [status : Statuses, of : Called \cup {NoTask}]]
    /\ row \in [Node -> Statuses \cup {"none"}]
    /\ table \subseteq Called /\ met \subseteq Called

(* Nothing leaks from one task to the next: a task that met no other is      *)
(* executed with its own limit or that of the settings, keeps to it, ends    *)
(* with the rows of its nodes, and leaves no task of a node in the table,    *)
(* unless two bypasses that crossed have left the inner engine wired.        *)
NothingLeaks ==
    \A t \in Task \ met :
        LET limit == IF Limit(t) # 0 THEN Limit(t) ELSE DefaultLimit
        IN  /\ stage[t] \notin {"new", "set"} => permits[t] = limit
            /\ Cardinality({n \in Nodes(t) : call[n].at \notin {"none", "queued", "over"}}) <= limit
            /\ stage[t] = "answered" =>
                  /\ \A n \in Nodes(t) : row[n] \in {"none", node[n].status} \ {"pending", "running"}
                  /\ call[t].at = "over" => sub[t] \in {"success", "failed"}
            /\ Cardinality(met \cap Bypassed) < 2 => table \cap Nodes(t) = {}

(* A node is given a result other than its own, or an exception for one,     *)
(* only when another call of the inner engine was made beside it.            *)
OthersOnlyWhenMet ==
    \A n \in Node : call[n].at = "over" => node[n].of = n \/ n \in met

(* However tasks cross, a page never shows as a success what was none.       *)
RowsNotFlattered == \A n \in Node : row[n] = "success" => node[n].status = "success"

Safe == NothingLeaks /\ OthersOnlyWhenMet /\ RowsNotFlattered

(* However calls of the shared engines cross, every task that was begun is   *)
(* answered: none waits for a permit or a subtask that another has taken.    *)
Quiet == \A t \in Task : stage[t] \in {"new", "answered"}
TasksEnd == []<>Quiet

(* "Converts fractal PlanNode into SubTask/TaskEntity for execution by the   *)
(* inner engine, then applies results back to the PlanNode"                  *)
(* (node_executor.py:3): the results of this node, and of no other.          *)
NodeKeepsItsOwnResult == \A n \in Node : call[n].at = "over" => node[n].of = n
=============================================================================
