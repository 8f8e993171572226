------------------------------ MODULE TaskGraph ------------------------------
(***************************************************************************)
(* LangGraphTaskEngine (src/infrastructure/task_graph/engine.py): one task  *)
(* whose subtasks form a dependency graph.  The graph of nodes              *)
(*                                                                          *)
(*     select_ready -> execute_batch -> (continue | done | failed)          *)
(*                                                                          *)
(* runs every ready subtask of a batch as a coroutine of its own            *)
(* (asyncio.gather); a coroutine gives way at every await, so the           *)
(* coroutines of a batch interleave between the actions below.              *)
(*                                                                          *)
(* A subtask is named by its position in task.subtasks: the decomposition   *)
(* fills 1..N and a discussion appends behind it.  Texts, prompts and       *)
(* logging are left out; every model call costs one unit.  An intermediate  *)
(* persist is the write of the whole row (its failure is swallowed by the   *)
(* code and only leaves the row older; it is not modelled).                 *)
(***************************************************************************)
EXTENDS Integers, FiniteSets

CONSTANTS
    N,               \* number of subtasks the analyzer produced
    MaxRetries,      \* LangGraphTaskEngine.MAX_RETRIES
    MaxExecutions,   \* 1 + ExecuteTaskUseCase._max_skill_retries
    Key,             \* names of artifacts
    Model,           \* models an answer may come from
    NoModel,
    Decompositions   \* what IntentAnalyzer may hand to the engine

Subtask == 1..N
Slot    == 1..(N + MaxExecutions)     \* one discussion subtask per execution

(* deps: what the model listed; produces/consumes: the keys of              *)
(* output_artifacts and input_artifacts; needsTools: descriptions that      *)
(* match requires_tools; simple: complexity SIMPLE; pinned: a               *)
(* preferred_model is set; intended: the engine the subtask is routed to.   *)
Decomposition ==
    [deps : [Subtask -> SUBSET Subtask], produces : [Subtask -> SUBSET Key],
     consumes : [Subtask -> SUBSET Key], needsTools : SUBSET Subtask,
     simple : SUBSET Subtask, pinned : SUBSET Subtask,
     intended : [Subtask -> {"none", "ollama", "capable"}]]

ASSUME SizeAssumption ==
    /\ N \in Nat \ {0}
    /\ MaxRetries \in Nat \ {0}
    /\ MaxExecutions \in Nat \ {0}
    /\ NoModel \notin Model
ASSUME DecompositionAssumption == Decompositions \subseteq Decomposition

VARIABLES
    plan,        \* the decomposition being executed, dependencies resolved
    len,         \* len(task.subtasks)
    status,      \* SubTask.status
    error,       \* SubTask.error, by the place that sets it
    info,        \* the other fields an execution writes into a SubTask
    retries,     \* _retry_counts
    phase,       \* where the graph stands
    batch,       \* AgentState.ready_ids
    stage,       \* the await at which the coroutine of a subtask stands
    earned,      \* the cost in the result a coroutine is about to return
    costSoFar,   \* AgentState.cost_so_far
    published,   \* the status in the subtask's last event
    stored,      \* the status of each subtask in the task's row
    execution    \* which call of execute() on this task

vars == <<plan, len, status, error, info, retries, phase, batch, stage,
          earned, costSoFar, published, stored, execution>>

Status == {"ABSENT", "PENDING", "RUNNING", "SUCCESS", "DEGRADED", "FAILED"}
Error  == {"none", "blocked", "exception", "capped"}
Stage  == {"idle", "starting", "engine", "react", "upgrade", "llm", "code",
           "reported", "returned"}
Phase  == {"select", "batch", "route", "discuss", "finalize", "ended"}
Info   == [model : Model \cup {NoModel}, cost : {0, 1},
           engine : {"none", "autonomous", "api"}, tools : BOOLEAN,
           filled : BOOLEAN, input : [Key -> SUBSET Subtask]]

Completed(s) == status[s] \in {"SUCCESS", "DEGRADED"}
Terminal(s)  == status[s] \in {"SUCCESS", "DEGRADED", "FAILED"}

-----------------------------------------------------------------------------
(* ArtifactDependencyResolver: the consumer of a key comes to depend on the *)
(* last subtask that produces it, unless that is the consumer itself.       *)
Producers(d, k) == {p \in Subtask : k \in d.produces[p]}
LastProducer(d, k, p) ==
    /\ p \in Producers(d, k)
    /\ \A q \in Producers(d, k) : q <= p

Resolve(d) ==
    [d EXCEPT !.deps = [s \in Subtask |-> d.deps[s] \cup
        {p \in Subtask \ {s} : \E k \in d.consumes[s] : LastProducer(d, k, p)}]]

BlankInfo == [model |-> NoModel, cost |-> 0, engine |-> "none", tools |-> FALSE,
              filled |-> FALSE, input |-> [k \in Key |-> {}]]

Init ==
    /\ plan \in {Resolve(d) : d \in Decompositions}
    /\ len = N
    /\ status = [s \in Slot |-> IF s \in Subtask THEN "PENDING" ELSE "ABSENT"]
    /\ error = [s \in Slot |-> "none"]
    /\ info = [s \in Slot |-> BlankInfo]
    /\ retries = [s \in Subtask |-> 0]
    /\ phase = "select"
    /\ batch = {}
    /\ stage = [s \in Subtask |-> "idle"]
    /\ earned = [s \in Subtask |-> 0]
    /\ costSoFar = 0
    /\ published = [s \in Slot |-> "PENDING"]
    /\ stored = status
    /\ execution = 1

-----------------------------------------------------------------------------
(* TaskEntity.get_ready_subtasks and the node _select_ready.                *)
Ready_AnySettled ==
    {s \in Subtask : status[s] = "PENDING" /\ \A d \in plan.deps[s] : Terminal(d)}

Ready == {s \in Subtask : status[s] = "PENDING" /\ \A d \in plan.deps[s] : Completed(d)}

Select ==
    /\ phase = "select"
    /\ batch' = Ready
    /\ phase' = "batch"
    /\ UNCHANGED <<plan, len, status, error, info, retries, stage, earned,
                   costSoFar, published, stored, execution>>

(* A coroutine of the batch reaches its first await: RUNNING, event, row.   *)
Start(s) ==
    /\ phase = "batch" /\ s \in batch /\ stage[s] = "idle"
    /\ status' = [status EXCEPT ![s] = "RUNNING"]
    /\ published' = [published EXCEPT ![s] = "RUNNING"]
    /\ stored' = status'
    /\ stage' = [stage EXCEPT ![s] = "starting"]
    /\ UNCHANGED <<plan, len, error, info, retries, phase, batch, earned,
                   costSoFar, execution>>

(* _inject_artifacts: for each consumed key what the last completed subtask  *)
(* of the list that produces it has (input names that subtask), if it has   *)
(* anything yet.                                                            *)
Sources(k) == {p \in Subtask : Completed(p) /\ k \in plan.produces[p]}
LastSource(k) == {p \in Sources(k) : \A q \in Sources(k) : q <= p}
Injected(s) ==
    [k \in Key |->
        IF k \in plan.consumes[s] /\ \E p \in LastSource(k) : info[p].filled
        THEN LastSource(k) ELSE info[s].input[k]]

LocalStage(s) == IF s \in plan.simple \ plan.needsTools THEN "llm" ELSE "react"

Launch(s) ==
    /\ stage[s] = "starting"
    /\ info' = [info EXCEPT ![s] = [@ EXCEPT !.input = Injected(s)]]
    /\ stage' = [stage EXCEPT ![s] =
                    IF plan.intended[s] = "none" THEN LocalStage(s) ELSE "engine"]
    /\ UNCHANGED <<plan, len, status, error, retries, phase, batch, earned,
                   costSoFar, published, stored, execution>>

(* What the answer of a model or an engine writes into its SubTask.         *)
Answered(i, m, by, tools) ==
    [i EXCEPT !.model = m, !.engine = by, !.cost = 1, !.tools = i.tools \/ tools]

(* _extract_output_artifacts.                                               *)
Filled(i) == [i EXCEPT !.filled = TRUE]

(* The shared tail of every path that ends without an exception: artifacts  *)
(* are extracted, the event goes out, the row is written and the coroutine  *)
(* waits for that write.                                                    *)
Report(s, st, c) ==
    /\ status' = [status EXCEPT ![s] = st]
    /\ published' = [published EXCEPT ![s] = st]
    /\ stored' = status'
    /\ stage' = [stage EXCEPT ![s] = "reported"]
    /\ earned' = [earned EXCEPT ![s] = c]

(* The engine route answered and the answer is kept.                        *)
EngineAnswer(s) ==
    /\ stage[s] = "engine"
    /\ \E m \in Model, by \in {"autonomous", "api"} :
        /\ ~(by = "api" /\ s \in plan.needsTools /\ plan.intended[s] = "capable")
        /\ info' = [info EXCEPT ![s] = Filled(Answered(@, m, by, FALSE))]
    /\ Report(s, "SUCCESS", 1)
    /\ UNCHANGED <<plan, len, error, retries, phase, batch, costSoFar, execution>>

(* The route failed, or only OLLAMA answered a subtask that needs tools.    *)
EngineDeclined(s) ==
    /\ stage[s] = "engine"
    /\ stage' = [stage EXCEPT ![s] = LocalStage(s)]
    /\ UNCHANGED <<plan, len, status, error, info, retries, phase, batch,
                   earned, costSoFar, published, stored, execution>>

(* The ReAct loop ended: a final answer, with or without tool calls, or     *)
(* capped by max_iterations or a repeated call (then tools were called).    *)
NeedsUpgrade(s, tools) ==
    stage[s] = "react" /\ s \in plan.needsTools \ plan.pinned /\ ~tools

ReactAnswer(s) ==
    /\ stage[s] \in {"react", "upgrade"}
    /\ \E m \in Model, tools \in BOOLEAN, capped \in BOOLEAN :
        /\ capped => tools
        /\ info' = [info EXCEPT ![s] = Filled(Answered(@, m, "api", tools))]
        /\ error' = [error EXCEPT ![s] = IF capped THEN "capped" ELSE @]
        /\ Report(s, IF capped THEN "FAILED" ELSE "SUCCESS", 1)
    /\ UNCHANGED <<plan, len, retries, phase, batch, costSoFar, execution>>

(* No tool was called though the subtask needs one, and a capable model is  *)
(* available: the loop runs again with it, the first result is dropped.     *)
ReactUpgrade(s) ==
    /\ NeedsUpgrade(s, FALSE)
    /\ stage' = [stage EXCEPT ![s] = "upgrade"]
    /\ UNCHANGED <<plan, len, status, error, info, retries, phase, batch,
                   earned, costSoFar, published, stored, execution>>

(* Single completion: SUCCESS is written before the code in the answer runs.*)
LlmAnswer(s) ==
    /\ stage[s] = "llm"
    /\ \E m \in Model :
        info' = [info EXCEPT ![s] = Answered(@, m, "api", FALSE)]
    /\ status' = [status EXCEPT ![s] = "SUCCESS"]
    /\ stage' = [stage EXCEPT ![s] = "code"]
    /\ UNCHANGED <<plan, len, error, retries, phase, batch, earned, costSoFar,
                   published, stored, execution>>

CodeReturned(s) ==
    /\ stage[s] = "code"
    /\ info' = [info EXCEPT ![s] = Filled(@)]
    /\ Report(s, "SUCCESS", info[s].cost)
    /\ UNCHANGED <<plan, len, error, retries, phase, batch, costSoFar, execution>>

Raising(s) == stage[s] \in {"engine", "react", "upgrade", "llm", "code"}

Raise_OneTooMany(s) ==
    /\ Raising(s)
    /\ retries' = [retries EXCEPT ![s] = @ + 1]
    /\ LET again == retries[s] < MaxRetries IN
        /\ error' = [error EXCEPT ![s] = IF again THEN "none" ELSE "exception"]
        /\ Report(s, IF again THEN "PENDING" ELSE "FAILED", 0)
    /\ UNCHANGED <<plan, len, info, phase, batch, costSoFar, execution>>

Raise_NoEvent(s) ==
    /\ Raising(s)
    /\ retries' = [retries EXCEPT ![s] = @ + 1]
    /\ LET again == retries[s] + 1 < MaxRetries IN
        /\ error' = [error EXCEPT ![s] = IF again THEN "none" ELSE "exception"]
        /\ status' = [status EXCEPT ![s] = IF again THEN "PENDING" ELSE "FAILED"]
    /\ stored' = status'
    /\ stage' = [stage EXCEPT ![s] = "reported"]
    /\ earned' = [earned EXCEPT ![s] = 0]
    /\ UNCHANGED <<plan, len, info, phase, batch, costSoFar, published, execution>>

Raise_NoPersist(s) ==
    /\ Raising(s)
    /\ retries' = [retries EXCEPT ![s] = @ + 1]
    /\ LET again == retries[s] + 1 < MaxRetries IN
        /\ error' = [error EXCEPT ![s] = IF again THEN "none" ELSE "exception"]
        /\ status' = [status EXCEPT ![s] = IF again THEN "PENDING" ELSE "FAILED"]
        /\ published' = [published EXCEPT ![s] = IF again THEN "PENDING" ELSE "FAILED"]
    /\ stage' = [stage EXCEPT ![s] = "reported"]
    /\ earned' = [earned EXCEPT ![s] = 0]
    /\ UNCHANGED <<plan, len, info, phase, batch, costSoFar, stored, execution>>

(* Any awaited call raises: one more retry, or the end of this subtask.     *)
Raise(s) ==
    /\ Raising(s)
    /\ retries' = [retries EXCEPT ![s] = @ + 1]
    /\ LET again == retries[s] + 1 < MaxRetries IN
        /\ error' = [error EXCEPT ![s] = IF again THEN "none" ELSE "exception"]
        /\ Report(s, IF again THEN "PENDING" ELSE "FAILED", 0)
    /\ UNCHANGED <<plan, len, info, phase, batch, costSoFar, execution>>

Return_RowCost(s) ==
    /\ stage[s] = "reported"
    /\ stage' = [stage EXCEPT ![s] = "returned"]
    /\ costSoFar' = costSoFar + info[s].cost
    /\ earned' = [earned EXCEPT ![s] = 0]
    /\ UNCHANGED <<plan, len, status, error, info, retries, phase, batch,
                   published, stored, execution>>

(* The row is written; the result's cost goes into cost_so_far.             *)
Return(s) ==
    /\ stage[s] = "reported"
    /\ stage' = [stage EXCEPT ![s] = "returned"]
    /\ costSoFar' = costSoFar + earned[s]
    /\ earned' = [earned EXCEPT ![s] = 0]
    /\ UNCHANGED <<plan, len, status, error, info, retries, phase, batch,
                   published, stored, execution>>

BatchDone ==
    /\ phase = "batch"
    /\ \A s \in batch : stage[s] = "returned"
    /\ phase' = "route"
    /\ stage' = [s \in Subtask |-> "idle"]
    /\ UNCHANGED <<plan, len, status, error, info, retries, batch, earned,
                   costSoFar, published, stored, execution>>

-----------------------------------------------------------------------------
(* _route_after_execution: go on, or give up on what can never be ready.    *)
Continue ==
    /\ phase = "route" /\ Ready # {}
    /\ phase' = "select"
    /\ UNCHANGED <<plan, len, status, error, info, retries, batch, stage, earned,
                   costSoFar, published, stored, execution>>

FailBlocked_LeavesPending ==
    /\ phase = "route" /\ Ready = {}
    /\ phase' = "discuss"
    /\ UNCHANGED <<plan, len, status, error, info, retries, batch, stage, earned,
                   costSoFar, published, stored, execution>>

FailBlocked_Eager ==
    /\ phase = "route"
    /\ LET blocked == {s \in Subtask : status[s] = "PENDING"} IN
        /\ status' = [s \in Slot |-> IF s \in blocked THEN "FAILED" ELSE status[s]]
        /\ error' = [s \in Slot |-> IF s \in blocked THEN "blocked" ELSE error[s]]
    /\ phase' = "discuss"
    /\ UNCHANGED <<plan, len, info, retries, batch, stage, earned, costSoFar,
                   published, stored, execution>>

FailBlocked_NoBlockedCase ==
    /\ phase = "route" /\ \A s \in Subtask : Terminal(s)
    /\ phase' = "discuss"
    /\ UNCHANGED <<plan, len, status, error, info, retries, batch, stage, earned,
                   costSoFar, published, stored, execution>>

FailBlocked ==
    /\ phase = "route" /\ Ready = {}
    /\ LET blocked == {s \in Subtask : status[s] = "PENDING"} IN
        /\ status' = [s \in Slot |-> IF s \in blocked THEN "FAILED" ELSE status[s]]
        /\ error' = [s \in Slot |-> IF s \in blocked THEN "blocked" ELSE error[s]]
    /\ phase' = "discuss"
    /\ UNCHANGED <<plan, len, info, retries, batch, stage, earned, costSoFar,
                   published, stored, execution>>

(* _run_discussion: with two models among the completed subtasks, its       *)
(* rounds leave one more SUCCESS subtask, unless no round answered.         *)
MultiModel ==
    \E s, t \in 1..len : /\ Completed(s) /\ Completed(t)
                         /\ NoModel \notin {info[s].model, info[t].model}
                         /\ info[s].model # info[t].model

Synthesise ==
    /\ phase = "discuss" /\ MultiModel
    /\ \E m \in Model, by \in {"none", "autonomous"} :
        info' = [info EXCEPT ![len + 1] = Answered(BlankInfo, m, by, FALSE)]
    /\ len' = len + 1
    /\ status' = [status EXCEPT ![len + 1] = "SUCCESS"]
    /\ costSoFar' = costSoFar + 1
    /\ phase' = "finalize"
    /\ UNCHANGED <<plan, error, retries, batch, stage, earned, published,
                   stored, execution>>

NoSynthesis ==
    /\ phase = "discuss"
    /\ phase' = "finalize"
    /\ UNCHANGED <<plan, len, status, error, info, retries, batch, stage, earned,
                   costSoFar, published, stored, execution>>

(* _finalize: needed tools, called none, on an engine that reports them.    *)
Unverified(s) ==
    /\ status[s] = "SUCCESS" /\ s \in plan.needsTools
    /\ info[s].engine # "autonomous" /\ ~info[s].tools

Finalize ==
    /\ phase = "finalize"
    /\ status' = [s \in Slot |-> IF Unverified(s) THEN "DEGRADED" ELSE status[s]]
    /\ phase' = "ended"
    /\ UNCHANGED <<plan, len, error, info, retries, batch, stage, earned,
                   costSoFar, published, stored, execution>>

(* ExecuteTaskUseCase calls execute() again with the result of the first    *)
(* call: some subtask failed, and a tool was installed for it.              *)
Reexecute ==
    /\ phase = "ended" /\ execution < MaxExecutions
    /\ \E s \in Subtask : status[s] = "FAILED"
    /\ execution' = execution + 1
    /\ retries' = [s \in Subtask |-> 0]
    /\ costSoFar' = 0
    /\ phase' = "select"
    /\ UNCHANGED <<plan, len, status, error, info, batch, stage, earned,
                   published, stored>>

CoroutineStep(s) ==
    \/ Start(s) \/ Launch(s) \/ EngineAnswer(s) \/ EngineDeclined(s)
    \/ ReactAnswer(s) \/ ReactUpgrade(s) \/ LlmAnswer(s) \/ CodeReturned(s)
    \/ Raise(s) \/ Return(s)

GraphStep ==
    \/ Select \/ BatchDone \/ Continue \/ FailBlocked
    \/ Synthesise \/ NoSynthesis \/ Finalize

Next == GraphStep \/ Reexecute \/ \E s \in Subtask : CoroutineStep(s)

Spec == Init /\ [][Next]_vars

(* The event loop resumes every coroutine whose awaited call has ended, and *)
(* every model, engine and code call ends (each has a client-side timeout). *)
(* Reexecute needs a tool to be found and installed: no fairness.           *)
FairSpec ==
    /\ Spec
    /\ WF_vars(GraphStep)
    /\ \A s \in Subtask : WF_vars(CoroutineStep(s))

-----------------------------------------------------------------------------
(* Every variable has its type; a retry count never passes MAX_RETRIES.     *)
TypeOK ==
    /\ plan \in Decomposition
    /\ len \in N..(N + execution)
    /\ status \in [Slot -> Status]
    /\ error \in [Slot -> Error]
    /\ info \in [Slot -> Info]
    /\ retries \in [Subtask -> 0..MaxRetries]
    /\ phase \in Phase
    /\ batch \in SUBSET Subtask
    /\ stage \in [Subtask -> Stage]
    /\ earned \in [Subtask -> {0, 1}]
    /\ costSoFar \in Nat
    /\ published \in [Slot -> Status]
    /\ stored \in [Slot -> Status]
    /\ execution \in 1..MaxExecutions

(* A subtask that runs, or has completed, was started only after everything *)
(* it depends on had completed, and none of that is withdrawn later, though *)
(* a batch runs its subtasks concurrently and retries them                  *)
(* (get_ready_subtasks, _execute_batch).                                    *)
DependencyOrder ==
    \A s \in Subtask :
        status[s] \in {"RUNNING", "SUCCESS", "DEGRADED"} =>
            \A d \in plan.deps[s] : Completed(d)

(* When the graph reaches _finalize no subtask is left PENDING or RUNNING:  *)
(* cyclic dependencies and failed ones included (_route_after_execution).   *)
EndedSettled ==
    phase \in {"discuss", "finalize", "ended"} => \A s \in 1..len : Terminal(s)

(* Only a subtask with a dependency that failed is given up as blocked: a   *)
(* subtask waiting for its retry, or for a batch to come, is not.           *)
BlockedHasFailedDependency ==
    \A s \in Subtask :
        error[s] = "blocked" => \E d \in plan.deps[s] : status[d] = "FAILED"

(* A subtask that has used up its attempts is never selected or run again   *)
(* in the same execution.                                                   *)
RetryBudget ==
    \A s \in Subtask :
        status[s] \in {"PENDING", "RUNNING"} => retries[s] < MaxRetries

RowCost(S) == Cardinality({s \in S : info[s].cost = 1})

(* What execute() adds up over its batches is what the subtasks of the task *)
(* cost, retried attempts included; only the cost of one that died in an    *)
(* exception after its answer had arrived is dropped.                       *)
CostAccounting ==
    (phase = "ended" /\ execution = 1) =>
        costSoFar = RowCost({s \in 1..len : error[s] # "exception"})

(* The last event of a subtask tells a subscriber what became of it: an     *)
(* announced success is not withdrawn, and when the execution has ended     *)
(* only subtasks given up as blocked were left without their outcome.       *)
EventsTellOutcome ==
    \A s \in Subtask :
        /\ published[s] = "SUCCESS" => Completed(s)
        /\ published[s] = "FAILED" => status[s] = "FAILED"
        /\ (phase = "ended" /\ published[s] \in {"PENDING", "RUNNING"}) =>
                error[s] = "blocked"

(* A reader of the row (page refresh, WebSocket) never sees a subtask as    *)
(* completed that is not: the direct path writes SUCCESS before it runs the *)
(* answer's code, and a failure of that code takes it back.                 *)
RowNeverAhead ==
    \A s \in Subtask : stored[s] \in {"SUCCESS", "DEGRADED"} => Completed(s)

(* Every execution ends, whatever fails and however the subtasks depend on  *)
(* each other.                                                              *)
ExecutionEnds == phase = "select" ~> phase = "ended"

(* The engine keeps the contract of its port.  All that the steps of one    *)
(* execution do is work between the call and its return, which leaves no    *)
(* subtask unfinished.                                                      *)
Contract == INSTANCE TaskEngine WITH
    running    <- phase # "ended",
    sub        <- status,
    Unfinished <- {"PENDING", "RUNNING"},
    Outcome    <- {"ABSENT", "SUCCESS", "DEGRADED", "FAILED"}

(* LangGraphTaskEngine.execute returns only with every subtask settled and  *)
(* leaves the task alone afterwards, so ExecuteTaskUseCase may judge what   *)
(* came back and save it (execute_task.py:112-121).                         *)
ImplementsTaskEngine == Contract!EngineSpec

(* TD-178: when a tool has been installed for a failed task, the use case   *)
(* "re-executes task once": the second execution has a failed subtask to    *)
(* run.                                                                     *)
RetryRunsFailedSubtasks ==
    [][Reexecute => \E s \in Subtask : status[s] = "FAILED" /\ s \in Ready']_vars
=============================================================================
