----------------------------- MODULE TaskStream -----------------------------
(***************************************************************************)
(* GET /api/tasks/{id}/stream (src/interface/api/routes/task_stream.py):    *)
(* every tab that opens it runs event_generator, concurrently with the use  *)
(* case of module ExecuteTask, the engine and the other tabs.               *)
(***************************************************************************)
EXTENDS ExecuteTask

VARIABLES
    stream,      \* where the generator of a tab stands
    seen,        \* the row in the last snapshot sent
    told,        \* the status in the task_completed sent ("none": not sent)
    popped       \* events whose "type" has been popped

streamVars == <<stream, seen, told, popped>>
vars == <<runVars, streamVars>>

StreamStage == {"off", "snapshot", "listening", "completing", "finished", "closed", "gone"}

Init ==
    /\ RunInit
    /\ stream = [t \in Tab |-> "off"]
    /\ seen = [t \in Tab |-> row]
    /\ told = [t \in Tab |-> "none"]
    /\ popped = {}

-----------------------------------------------------------------------------
(* The row is read and sent.                                                *)
Connect(t) ==
    /\ stream[t] = "off"
    /\ seen' = [seen EXCEPT ![t] = row]
    /\ stream' = [stream EXCEPT ![t] = "snapshot"]
    /\ UNCHANGED <<runVars, told, popped>>

(* Every subtask of it had ended: task_completed goes out with the status   *)
(* that was read.                                                           *)
NothingToStream(t) ==
    /\ stream[t] = "snapshot" /\ IsComplete(seen[t])
    /\ told' = [told EXCEPT ![t] = seen[t].status]
    /\ stream' = [stream EXCEPT ![t] = "closed"]
    /\ UNCHANGED <<runVars, seen, popped>>

(* Between the snapshot and the subscription the generator has given way.   *)
Subscribe(t) ==
    /\ stream[t] = "snapshot" /\ ~IsComplete(seen[t])
    /\ queue' = [u \in DOMAIN queue \cup {t} |-> IF u = t THEN <<>> ELSE queue[u]]
    /\ stream' = [stream EXCEPT ![t] = "listening"]
    /\ UNCHANGED <<stage, verdict, sub, row, record, calls, log, seen, told, popped>>

(* event.pop("type", "update"): the next reader of the same event finds it  *)
(* without a type.                                                          *)
Receive_Coalesces(t) ==
    /\ stream[t] = "listening" /\ queue[t] # <<>>
    /\ LET e == Head(queue[t])
           completed == log[e] = "task_completed" /\ e \notin popped IN
        /\ popped' = popped \cup {e}
        /\ stream' = [stream EXCEPT ![t] = IF completed THEN "completing" ELSE @]
        /\ told' = [told EXCEPT ![t] = IF completed THEN verdict ELSE @]
        /\ queue' = [queue EXCEPT ![t] = <<>>]
    /\ UNCHANGED <<stage, verdict, sub, row, record, calls, log, seen>>

Receive(t) ==
    /\ stream[t] = "listening" /\ queue[t] # <<>>
    /\ LET e == Head(queue[t])
           completed == log[e] = "task_completed" /\ e \notin popped IN
        /\ popped' = popped \cup {e}
        /\ stream' = [stream EXCEPT ![t] = IF completed THEN "completing" ELSE @]
        /\ told' = [told EXCEPT ![t] = IF completed THEN verdict ELSE @]
        /\ queue' = [queue EXCEPT ![t] = Tail(@)]
    /\ UNCHANGED <<stage, verdict, sub, row, record, calls, log, seen>>

Unsubscribed(t) == [u \in DOMAIN queue \ {t} |-> queue[u]]

(* The final snapshot, and the finally clause.                              *)
Complete_NoSnapshot(t) ==
    /\ stream[t] = "completing"
    /\ stream' = [stream EXCEPT ![t] = "finished"]
    /\ queue' = Unsubscribed(t)
    /\ UNCHANGED <<stage, verdict, sub, row, record, calls, log, seen, told, popped>>

Complete(t) ==
    /\ stream[t] = "completing"
    /\ seen' = [seen EXCEPT ![t] = row]
    /\ stream' = [stream EXCEPT ![t] = "finished"]
    /\ queue' = Unsubscribed(t)
    /\ UNCHANGED <<stage, verdict, sub, row, record, calls, log, told, popped>>

(* The client is gone, or nothing came for MAX_STREAM_DURATION.             *)
Leave_KeepsQueue(t) ==
    /\ stream[t] \in {"snapshot", "listening"}
    /\ stream' = [stream EXCEPT ![t] = "gone"]
    /\ UNCHANGED <<runVars, seen, told, popped>>

Leave(t) ==
    /\ stream[t] \in {"snapshot", "listening"}
    /\ stream' = [stream EXCEPT ![t] = "gone"]
    /\ queue' = Unsubscribed(t)
    /\ UNCHANGED <<stage, verdict, sub, row, record, calls, log, seen, told, popped>>

Deliver(t) == NothingToStream(t) \/ Subscribe(t) \/ Receive(t) \/ Complete(t)

Next ==
    \/ RunNext /\ UNCHANGED streamVars
    \/ \E t \in Tab : Connect(t) \/ Deliver(t) \/ Leave(t)

Spec == Init /\ [][Next]_vars

(* The engine's call returns (ExecutionEnds of TaskGraph, the time limit of *)
(* FractalEngine), the use case goes on, and a generator with something to  *)
(* send sends it.  Nobody has to connect or to leave.                       *)
FairSpec ==
    /\ Spec
    /\ WF_vars(UseCaseStep /\ UNCHANGED streamVars)
    /\ \A t \in Tab : WF_vars(Deliver(t))

-----------------------------------------------------------------------------
(* Every variable has its type.                                             *)
TypeOK ==
    /\ RunTypeOK
    /\ stream \in [Tab -> StreamStage]
    /\ seen \in [Tab -> [status : Verdict, sub : [Slot -> Engine!SubStatus]]]
    /\ told \in [Tab -> Verdict \cup {"none"}]
    /\ popped \subseteq 1..Len(log)

(* The bus keeps a queue exactly for the generators that listen: none is    *)
(* left behind to fill up when a client leaves, none is dropped early.      *)
QueuesAreListened ==
    DOMAIN queue = {t \in Tab : stream[t] \in {"listening", "completing"}}

(* A tab that was told the outcome by an event ends up with the final state *)
(* of the task: the status it was told, and every subtask's outcome.        *)
LastSnapshotIsFinal ==
    \A t \in Tab : stream[t] = "finished" => seen[t] = row /\ told[t] = row.status

(* A tab that listens before the task is completed is told when it is,      *)
(* unless it leaves or the execution breaks.                                *)
ListenerIsTold ==
    \A t \in Tab :
        (stream[t] = "listening" /\ stage # "done") ~>
            (stream[t] \in {"finished", "gone"} \/ stage = "broken")

(* shared/event_bus.py: "Multiple subscribers per task are supported".        *)
EveryListenerIsTold ==
    \A t \in Tab :
        (stream[t] = "listening" /\ stage # "done") ~>
            (stream[t] \in {"finished", "gone"} \/ stage = "broken")

(* execute_task.py: task_completed is emitted "AFTER final status + cost    *)
(* are persisted": no tab is told of a completion with any other status.    *)
ToldIsFinal == \A t \in Tab : told[t] \in Final \cup {"none"}
=============================================================================
