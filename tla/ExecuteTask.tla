---------------------------- MODULE ExecuteTask ----------------------------
(***************************************************************************)
(* ExecuteTaskUseCase (src/application/use_cases/execute_task.py) for one   *)
(* task, with the task's row (PgTaskRepository) and the TaskEventBus of the *)
(* process (src/shared/event_bus.py).  The engine is                        *)
(* the port's contract (module TaskEngine) with the events and writes an    *)
(* engine adds while it runs.                                               *)
(*                                                                          *)
(* An event is an object that all queues share: a queue holds positions of  *)
(* the log of everything published, and `popped` says which events have     *)
(* lost their "type" entry.  Insights, todo.md and the execution record's   *)
(* figures are left out, and of a subtask's status only what the use case   *)
(* and the stream look at: PENDING stands for RUNNING as well and SUCCESS   *)
(* for DEGRADED.                                                            *)
(***************************************************************************)
EXTENDS Integers, Sequences, FiniteSets

CONSTANTS
    Slot,            \* subtasks of the task
    Tab,             \* clients that may open the task's event stream
    SkillRetries,    \* max_skill_retries
    MaxEvents        \* bound: events published by the engine

ASSUME RunAssumption ==
    /\ Slot # {}
    /\ SkillRetries \in Nat
    /\ MaxEvents \in Nat

VARIABLES
    stage,           \* where _execute_in_scope stands
    verdict,         \* task.status, in the process
    sub,             \* the statuses of task.subtasks, in the process
    row,             \* the task's row: [status, sub]
    record,          \* ExecutionRecord.success
    calls,           \* calls of engine.execute() so far
    log,             \* the types of all events published
    queue            \* [subscribed tabs -> what their queues hold]

runVars == <<stage, verdict, sub, row, record, calls, log, queue>>

Unfinished == {"PENDING"}
Outcome    == {"ABSENT", "SUCCESS", "FAILED"}

Engine == INSTANCE TaskEngine WITH running <- stage = "engine"

Verdict  == {"PENDING", "RUNNING", "SUCCESS", "FALLBACK", "FAILED"}
Final    == {"SUCCESS", "FALLBACK", "FAILED"}
UseStage == {"idle", "engine", "judged", "acquiring", "saving", "announcing",
             "done", "broken"}

Row(st, subs) == [status |-> st, sub |-> subs]

(* TaskEntity.success_rate and the verdict made of it.                      *)
Completed(subs) == {s \in Slot : subs[s] = "SUCCESS"}
Listed(subs)    == {s \in Slot : subs[s] # "ABSENT"}
Judge(subs) ==
    IF Completed(subs) = {} THEN "FAILED"
    ELSE IF Completed(subs) = Listed(subs) THEN "SUCCESS" ELSE "FALLBACK"

(* TaskEntity.is_complete.                                                  *)
IsComplete(r) == \A s \in Slot : r.sub[s] \in Outcome

(* TaskEventBus.publish: the same object into every queue.                  *)
Publish(type) ==
    /\ log' = Append(log, type)
    /\ queue' = [t \in DOMAIN queue |-> Append(queue[t], Len(log) + 1)]

RunInit ==
    /\ stage = "idle"
    /\ verdict = "PENDING"
    /\ sub = [s \in Slot |-> "PENDING"]
    /\ row = Row(verdict, sub)
    /\ record = "none"
    /\ calls = 0
    /\ log = <<>>
    /\ queue = <<>>

-----------------------------------------------------------------------------
Begin ==
    /\ stage = "idle"
    /\ stage' = "engine"
    /\ verdict' = "RUNNING"
    /\ row' = Row("RUNNING", sub)
    /\ calls' = 1
    /\ UNCHANGED <<sub, record, log, queue>>

(* The engine changes subtasks, and tells the bus.                          *)
EngineWorks ==
    /\ stage = "engine" /\ Len(log) < MaxEvents
    /\ stage' = "engine"
    /\ Engine!Work
    /\ Publish("subtask")
    /\ UNCHANGED <<verdict, row, record, calls>>

(* _persist_intermediate writes the whole row.                              *)
EnginePersists ==
    /\ stage = "engine"
    /\ row' = Row(verdict, sub)
    /\ UNCHANGED <<stage, verdict, sub, record, calls, log, queue>>

(* The fractal engine's hard timeout: its own verdict, in the row as well.  *)
EngineTimesOut ==
    /\ stage = "engine"
    /\ sub' \in [Slot -> Outcome]
    /\ verdict' = "FAILED"
    /\ row' = Row(verdict', sub')
    /\ UNCHANGED <<stage, record, calls, log, queue>>

(* execute() returns and the verdict is computed from the subtasks.         *)
EngineReturns ==
    /\ stage' = "judged"
    /\ Engine!Finish
    /\ verdict' = Judge(sub')
    /\ UNCHANGED <<row, record, calls, log, queue>>

(* The record for self-evolution is made of the first execution only.       *)
Record_Partial ==
    /\ stage = "judged" /\ calls = 1
    /\ record' = IF verdict \in {"SUCCESS", "FALLBACK"} THEN "success" ELSE "failure"
    /\ stage' = IF verdict = "SUCCESS" THEN "saving" ELSE "acquiring"
    /\ UNCHANGED <<verdict, sub, row, calls, log, queue>>

Record ==
    /\ stage = "judged" /\ calls = 1
    /\ record' = IF verdict = "SUCCESS" THEN "success" ELSE "failure"
    /\ stage' = IF verdict = "SUCCESS" THEN "saving" ELSE "acquiring"
    /\ UNCHANGED <<verdict, sub, row, calls, log, queue>>

NoMoreRetries ==
    /\ stage = "judged" /\ calls > 1
    /\ stage' = "saving"
    /\ UNCHANGED <<verdict, sub, row, record, calls, log, queue>>

(* A tool was found and installed: the engine gets the task once more.  The *)
(* fractal engine resets task.status, the LangGraph engine does not.        *)
Retry ==
    /\ stage = "acquiring" /\ SkillRetries > 0
    /\ \E s \in Slot : sub[s] = "FAILED"
    /\ stage' = "engine"
    /\ Engine!Call
    /\ verdict' \in {verdict, "RUNNING"}
    /\ calls' = calls + 1
    /\ UNCHANGED <<row, record, log, queue>>

NothingAcquired ==
    /\ stage = "acquiring"
    /\ stage' = "saving"
    /\ UNCHANGED <<verdict, sub, row, record, calls, log, queue>>

Save ==
    /\ stage = "saving"
    /\ row' = Row(verdict, sub)
    /\ stage' = "announcing"
    /\ UNCHANGED <<verdict, sub, record, calls, log, queue>>

Announce_BeforeSave ==
    /\ stage = "saving"
    /\ Publish("task_completed")
    /\ stage' = "done"
    /\ UNCHANGED <<verdict, sub, row, record, calls>>

Announce ==
    /\ stage = "announcing"
    /\ Publish("task_completed")
    /\ stage' = "done"
    /\ UNCHANGED <<verdict, sub, row, record, calls>>

(* The engine or the repository raises: _safe_execute logs it.              *)
Break ==
    /\ stage \in {"engine", "saving"}
    /\ stage' = "broken"
    /\ UNCHANGED <<verdict, sub, row, record, calls, log, queue>>

UseCaseStep ==
    \/ Begin \/ EngineReturns \/ Record \/ NoMoreRetries \/ Retry
    \/ NothingAcquired \/ Save \/ Announce

RunNext == UseCaseStep \/ EngineWorks \/ EnginePersists \/ EngineTimesOut \/ Break

-----------------------------------------------------------------------------
(* Every variable of the run has its type.                                  *)
RunTypeOK ==
    /\ stage \in UseStage
    /\ verdict \in Verdict
    /\ sub \in [Slot -> Engine!SubStatus]
    /\ row \in [status : Verdict, sub : [Slot -> Engine!SubStatus]]
    /\ record \in {"none", "success", "failure"}
    /\ calls \in 0..2
    /\ Len(log) <= MaxEvents + 1
    /\ DOMAIN queue \subseteq Tab
    /\ \A t \in DOMAIN queue : \A i \in DOMAIN queue[t] : queue[t][i] \in 1..Len(log)

(* A task is final in the database before anybody is told that it is: when  *)
(* task_completed has been published, the row holds the final status, every *)
(* subtask of it has an outcome, and the status is the one they amount to   *)
(* (the retry after a skill was acquired included).                         *)
CompletionIsPersisted ==
    (\E i \in DOMAIN log : log[i] = "task_completed") =>
        /\ row.status = Judge(row.sub)
        /\ IsComplete(row)

(* What self-evolution learns from is never better than what happened: an   *)
(* execution recorded as a success ends, for its row, as one; the status of *)
(* a failed one may still improve in the retry.                             *)
RecordNotOptimistic ==
    record = "success" /\ stage = "done" => row.status = "SUCCESS"
=============================================================================
