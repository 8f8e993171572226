----------------------------- MODULE TaskEngine -----------------------------
(***************************************************************************)
(* The port TaskEngine (src/domain/ports/task_engine.py): what a caller of  *)
(* execute() may rely on, whichever engine is behind it.  While a call is   *)
(* under way the engine does what it likes with the subtasks; when the call *)
(* returns every subtask has an outcome, and the engine keeps its hands off *)
(* the task until it is called again.                                       *)
(*                                                                          *)
(* LangGraphTaskEngine (module TaskGraph) implements this specification,    *)
(* ExecuteTaskUseCase (module ExecuteTask) relies on it.                    *)
(***************************************************************************)
CONSTANTS
    Slot,              \* positions in task.subtasks
    Unfinished,        \* statuses of a subtask that is still to be executed
    Outcome            \* the others, that of a subtask that is not there included

VARIABLES
    running,           \* a call of execute() is under way
    sub                \* the status of each subtask

engineVars == <<running, sub>>

SubStatus == Unfinished \cup Outcome

Start ==
    /\ running \in BOOLEAN
    /\ sub \in [Slot -> IF running THEN SubStatus ELSE Outcome]

Work ==
    /\ running
    /\ running' = TRUE
    /\ sub' \in [Slot -> SubStatus]

Finish ==
    /\ running
    /\ running' = FALSE
    /\ sub' \in [Slot -> Outcome]

Call ==
    /\ ~running
    /\ running' = TRUE
    /\ sub' = sub

EngineNext == Work \/ Finish \/ Call

EngineSpec == Start /\ [][EngineNext]_engineVars
=============================================================================
