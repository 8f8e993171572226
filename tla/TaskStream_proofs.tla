------------------------- MODULE TaskStream_proofs --------------------------
(***************************************************************************)
(* Theorems about ExecuteTask and TaskStream, for every set of subtasks and *)
(* of tabs and every number of events and retries.                          *)
(*                                                                          *)
(* The properties speak of the end of a run; what makes them true are its   *)
(* earlier stages.  RunInv follows the verdict from the engine's return to  *)
(* the row, StreamInv what a tab has received from it.                      *)
(***************************************************************************)
EXTENDS TaskStream, SequenceTheorems, TLAPS

(* The engine has returned, and nobody has called it again.                 *)
AfterEngine == {"judged", "acquiring", "saving", "announcing", "done"}

(* From the engine's return on the verdict is that of the subtasks in       *)
(* memory; from the save on it is in the row; then it is announced.         *)
VerdictInv ==
    /\ stage \in AfterEngine => verdict = Judge(sub) /\ sub \in [Slot -> Outcome]
    /\ stage \in {"announcing", "done"} => row = Row(verdict, sub)
    /\ \A i \in DOMAIN log : log[i] = "task_completed" => stage = "done"

(* A first execution that is recorded as a success is the only one.         *)
RecordInv ==
    /\ record = "success" =>
          stage = "broken" \/ (stage \in {"saving", "announcing", "done"} /\ verdict = "SUCCESS")
    /\ stage = "acquiring" => calls = 1

(* A queue holds positions of the log.                                      *)
LogInv ==
    /\ log \in Seq({"subtask", "task_completed"})
    /\ stage # "done" => Len(log) <= MaxEvents
    /\ queue \in [DOMAIN queue -> Seq(Nat)]
    /\ \A t \in DOMAIN queue : \A i \in DOMAIN queue[t] : queue[t][i] \in DOMAIN log

(* A tab that was told by an event was told by the last one of all.         *)
StreamInv ==
    /\ \A t \in Tab : stream[t] \in {"completing", "finished"} =>
            stage = "done" /\ told[t] = verdict
    /\ \A t \in Tab : stream[t] = "finished" => seen[t] = row

Inv ==
    /\ TypeOK /\ VerdictInv /\ RecordInv /\ LogInv /\ StreamInv /\ QueuesAreListened

LEMMA JudgeType == \A subs : Judge(subs) \in Verdict
BY DEF Judge, Verdict

LEMMA InitInv == Init => Inv
<1> SUFFICES ASSUME Init PROVE Inv
    OBVIOUS
<1>1. log = <<>> /\ queue = <<>> /\ DOMAIN queue = {} /\ Len(log) = 0
      BY DEF Init, RunInit
<1>2. TypeOK
      BY <1>1, RunAssumption DEF Init, RunInit, TypeOK, RunTypeOK, UseStage, Verdict, Row,
         Engine!SubStatus, Unfinished, StreamStage
<1>3. LogInv
      BY <1>1, RunAssumption DEF LogInv
<1>4. VerdictInv /\ RecordInv /\ StreamInv /\ QueuesAreListened
      BY <1>1 DEF Init, RunInit, VerdictInv, AfterEngine, RecordInv, StreamInv,
         QueuesAreListened
<1>5. QED
      BY <1>2, <1>3, <1>4 DEF Inv

(* What a publication does to the log and to the queues.                    *)
LEMMA PublishStep ==
    ASSUME Inv, NEW type \in {"subtask", "task_completed"}, Publish(type)
    PROVE  /\ log' \in Seq({"subtask", "task_completed"})
           /\ Len(log') = Len(log) + 1
           /\ DOMAIN log' = DOMAIN log \cup {Len(log) + 1}
           /\ \A i \in DOMAIN log : log'[i] = log[i]
           /\ log'[Len(log) + 1] = type
           /\ DOMAIN queue' = DOMAIN queue
           /\ queue' \in [DOMAIN queue' -> Seq(Nat)]
           /\ \A t \in DOMAIN queue' : \A i \in DOMAIN queue'[t] : queue'[t][i] \in DOMAIN log'
<1>1. /\ log \in Seq({"subtask", "task_completed"}) /\ Len(log) \in Nat
      /\ DOMAIN log = 1..Len(log)
      BY DEF Inv, LogInv
<1>2. /\ log' \in Seq({"subtask", "task_completed"}) /\ Len(log') = Len(log) + 1
      /\ DOMAIN log' = 1..(Len(log) + 1)
      /\ \A i \in DOMAIN log : log'[i] = log[i]
      /\ log'[Len(log) + 1] = type
      BY <1>1 DEF Publish
<1>3. ASSUME NEW t \in DOMAIN queue
      PROVE  /\ queue'[t] \in Seq(Nat)
             /\ \A i \in DOMAIN queue'[t] : queue'[t][i] \in DOMAIN log'
  <2>1. queue[t] \in Seq(Nat) /\ queue'[t] = Append(queue[t], Len(log) + 1)
        BY DEF Inv, LogInv, Publish
  <2>2. /\ queue'[t] \in Seq(Nat) /\ DOMAIN queue'[t] = 1..(Len(queue[t]) + 1)
        /\ Len(queue[t]) \in Nat
        /\ queue'[t][Len(queue[t]) + 1] = Len(log) + 1
        /\ \A i \in DOMAIN queue[t] : queue'[t][i] = queue[t][i]
        /\ DOMAIN queue[t] = 1..Len(queue[t])
        BY <1>1, <2>1
  <2>3. \A i \in DOMAIN queue[t] : queue[t][i] \in DOMAIN log
        BY DEF Inv, LogInv
  <2>4. QED
        BY <1>1, <1>2, <2>2, <2>3
<1>4. DOMAIN queue' = DOMAIN queue
      BY DEF Publish
<1>5. queue' = [t \in DOMAIN queue' |-> queue'[t]]
      BY DEF Publish
<1>6. QED
      BY <1>1, <1>2, <1>3, <1>4, <1>5

(* The steps of the use case and the engine leave the tabs alone.           *)
LEMMA RunStep == Inv /\ RunNext /\ UNCHANGED streamVars => Inv'
<1> SUFFICES ASSUME Inv, RunNext, UNCHANGED streamVars PROVE Inv'
    OBVIOUS
<1> USE RunAssumption
<1>0. UNCHANGED <<stream, seen, told, popped>>
      BY DEF streamVars
<1>1. ASSUME stage # "done", UNCHANGED <<log, queue>>, RunTypeOK',
             VerdictInv', RecordInv'
      PROVE  Inv'
      BY <1>0, <1>1 DEF Inv, TypeOK, LogInv, StreamInv, QueuesAreListened
<1>2. CASE Begin
      BY <1>1, <1>2 DEF Begin, Inv, TypeOK, RunTypeOK, UseStage, Verdict, Row, VerdictInv,
         AfterEngine, RecordInv
<1>3. CASE EnginePersists
      BY <1>1, <1>3 DEF EnginePersists, Inv, TypeOK, RunTypeOK, UseStage, Verdict, Row,
         VerdictInv, AfterEngine, RecordInv
<1>4. CASE EngineTimesOut
      BY <1>1, <1>4 DEF EngineTimesOut, Inv, TypeOK, RunTypeOK, UseStage, Verdict, Row,
         VerdictInv, AfterEngine, RecordInv, Engine!SubStatus
<1>5. CASE EngineReturns
  <2>1. stage = "engine" /\ sub' \in [Slot -> Outcome] /\ verdict' \in Verdict
        BY <1>5, JudgeType DEF EngineReturns, Engine!Finish
  <2>2. QED
        BY <1>1, <1>5, <2>1 DEF EngineReturns, Inv, TypeOK, RunTypeOK, UseStage,
           VerdictInv, AfterEngine, RecordInv, Engine!SubStatus
<1>6. CASE Record \/ NoMoreRetries \/ NothingAcquired
      BY <1>1, <1>6 DEF Record, NoMoreRetries, NothingAcquired, Inv, TypeOK, RunTypeOK,
         UseStage, VerdictInv, AfterEngine, RecordInv
<1>7. CASE Retry
      BY <1>1, <1>7 DEF Retry, Engine!Call, Inv, TypeOK, RunTypeOK, UseStage, Verdict,
         VerdictInv, AfterEngine, RecordInv
<1>8. CASE Save
      BY <1>1, <1>8 DEF Save, Inv, TypeOK, RunTypeOK, UseStage, Row, VerdictInv, AfterEngine,
         RecordInv
<1>9. CASE Break
      BY <1>1, <1>9 DEF Break, Inv, TypeOK, RunTypeOK, UseStage, VerdictInv, AfterEngine,
         RecordInv
(* Publications: the events of the engine and the last one.                 *)
<1>10. CASE EngineWorks
  <2>1. Publish("subtask") /\ stage = "engine" /\ stage' = "engine"
        BY <1>10 DEF EngineWorks
  <2>2. sub' \in [Slot -> Engine!SubStatus] /\ UNCHANGED <<verdict, row, record, calls>>
        BY <1>10 DEF EngineWorks, Engine!Work
  <2>3. Len(log) \in Nat /\ Len(log) < MaxEvents /\ DOMAIN log = 1..Len(log)
        BY <1>10 DEF EngineWorks, Inv, LogInv
  <2>4. TypeOK'
        BY <1>0, <2>1, <2>2, <2>3, PublishStep DEF Inv, TypeOK, RunTypeOK
  <2>5. QED
        BY <1>0, <2>1, <2>2, <2>3, <2>4, PublishStep DEF Inv, VerdictInv, AfterEngine,
           RecordInv, LogInv, StreamInv, QueuesAreListened
<1>11. CASE Announce
  <2>1. Publish("task_completed") /\ stage = "announcing" /\ stage' = "done"
        BY <1>11 DEF Announce
  <2>2. UNCHANGED <<verdict, sub, row, record, calls>>
        BY <1>11 DEF Announce
  <2>3. Len(log) \in Nat /\ Len(log) <= MaxEvents /\ DOMAIN log = 1..Len(log)
        BY <2>1 DEF Inv, LogInv
  <2>4. TypeOK'
        BY <1>0, <2>1, <2>2, <2>3, PublishStep DEF Inv, TypeOK, RunTypeOK, UseStage
  <2>5. QED
        BY <1>0, <2>1, <2>2, <2>3, <2>4, PublishStep DEF Inv, VerdictInv, AfterEngine,
           RecordInv, LogInv, StreamInv, QueuesAreListened
<1>12. QED
      BY <1>2, <1>3, <1>4, <1>5, <1>6, <1>7, <1>8, <1>9, <1>10, <1>11 DEF RunNext,
         UseCaseStep

(* The steps of a tab leave the run alone.                                  *)
LEMMA TabStep ==
    ASSUME Inv, NEW t \in Tab, Connect(t) \/ Deliver(t) \/ Leave(t)
    PROVE  Inv'
<1>0. UNCHANGED <<stage, verdict, sub, row, record, calls, log>>
      BY DEF Connect, Deliver, NothingToStream, Subscribe, Receive, Complete, Leave, runVars
<1>1. VerdictInv' /\ RecordInv'
      BY <1>0 DEF Inv, VerdictInv, RecordInv
<1>2. Len(log) \in Nat /\ DOMAIN log = 1..Len(log)
      BY DEF Inv, LogInv
<1>3. CASE Connect(t)
      BY <1>0, <1>1, <1>3 DEF Connect, runVars, Inv, TypeOK, RunTypeOK, StreamStage, LogInv,
         StreamInv, QueuesAreListened
<1>4. CASE NothingToStream(t)
      BY <1>0, <1>1, <1>4 DEF NothingToStream, runVars, Inv, TypeOK, RunTypeOK, StreamStage,
         LogInv, StreamInv, QueuesAreListened
<1>5. CASE Subscribe(t)
  <2>1. /\ DOMAIN queue' = DOMAIN queue \cup {t}
        /\ queue'[t] = <<>> /\ \A u \in DOMAIN queue \ {t} : queue'[u] = queue[u]
        /\ queue' = [u \in DOMAIN queue' |-> queue'[u]]
        BY <1>5 DEF Subscribe
  <2>2. LogInv'
    <3>1. <<>> \in Seq(Nat) /\ DOMAIN <<>> = {}
          OBVIOUS
    <3>2. ASSUME NEW u \in DOMAIN queue'
          PROVE  /\ queue'[u] \in Seq(Nat)
                 /\ \A i \in DOMAIN queue'[u] : queue'[u][i] \in DOMAIN log
          BY <2>1, <3>1, <3>2 DEF Inv, LogInv
    <3>3. queue' \in [DOMAIN queue' -> Seq(Nat)]
          BY <2>1, <3>2
    <3>4. QED
          BY <1>0, <3>2, <3>3 DEF Inv, LogInv
  <2>3. QED
        BY <1>0, <1>1, <1>2, <1>5, <2>1, <2>2 DEF Subscribe, Inv, TypeOK, RunTypeOK,
           StreamStage, LogInv, StreamInv, QueuesAreListened
<1>6. CASE Receive(t)
  <2>1. /\ t \in DOMAIN queue /\ queue[t] \in Seq(Nat) /\ queue[t] # <<>>
        /\ \A i \in DOMAIN queue[t] : queue[t][i] \in DOMAIN log
        BY <1>6 DEF Receive, Inv, LogInv, QueuesAreListened
  <2>2. /\ Head(queue[t]) \in DOMAIN log
        /\ Tail(queue[t]) \in Seq(Nat)
        /\ \A i \in DOMAIN Tail(queue[t]) : Tail(queue[t])[i] \in DOMAIN log
    <3>1. Len(queue[t]) \in Nat \ {0} /\ DOMAIN queue[t] = 1..Len(queue[t])
          BY <2>1
    <3>2. Head(queue[t]) = queue[t][1]
          BY <2>1
    <3>3. /\ Tail(queue[t]) \in Seq(Nat) /\ Len(Tail(queue[t])) = Len(queue[t]) - 1
          /\ \A i \in 1..Len(Tail(queue[t])) : Tail(queue[t])[i] = queue[t][i + 1]
          BY <2>1, HeadTailProperties
    <3>4. DOMAIN Tail(queue[t]) = 1..Len(Tail(queue[t]))
          BY <3>3
    <3>5. QED
          BY <2>1, <3>1, <3>2, <3>3, <3>4
  <2>3. /\ queue' = [queue EXCEPT ![t] = Tail(queue[t])]
        /\ popped' = popped \cup {Head(queue[t])} /\ seen' = seen
        BY <1>6 DEF Receive
  <2>4. DOMAIN queue' = DOMAIN queue /\ LogInv'
        BY <1>0, <2>1, <2>2, <2>3 DEF Inv, LogInv
  <2>5. CASE log[Head(queue[t])] = "task_completed" /\ Head(queue[t]) \notin popped
    <3>1. /\ stream' = [stream EXCEPT ![t] = "completing"]
          /\ told' = [told EXCEPT ![t] = verdict] /\ stream[t] = "listening"
          BY <1>6, <2>5 DEF Receive
    <3>2. stage = "done"
          BY <2>2, <2>5 DEF Inv, VerdictInv
    <3>3. QED
          BY <1>0, <1>1, <1>2, <2>1, <2>2, <2>3, <2>4, <3>1, <3>2 DEF Inv, TypeOK,
             RunTypeOK, StreamStage, LogInv, StreamInv, QueuesAreListened
  <2>6. CASE ~(log[Head(queue[t])] = "task_completed" /\ Head(queue[t]) \notin popped)
    <3>1. UNCHANGED <<stream, told>>
          BY <1>6, <2>6 DEF Receive, Inv, TypeOK
    <3>2. QED
          BY <1>0, <1>1, <1>2, <2>1, <2>2, <2>3, <2>4, <3>1 DEF Inv, TypeOK, RunTypeOK,
             LogInv, StreamInv, QueuesAreListened
  <2>7. QED
        BY <2>5, <2>6
(* The generator ends, and takes its queue with it.                         *)
<1>7. CASE Complete(t) \/ Leave(t)
  <2>1. queue' = [u \in DOMAIN queue \ {t} |-> queue[u]]
        BY <1>7 DEF Complete, Leave, Unsubscribed
  <2>2. /\ DOMAIN queue' = DOMAIN queue \ {t}
        /\ \A u \in DOMAIN queue' : queue'[u] = queue[u]
        /\ queue' = [u \in DOMAIN queue' |-> queue'[u]]
        BY <2>1
  <2>3. LogInv'
        BY <1>0, <2>2 DEF Inv, LogInv
  <2>4. CASE Complete(t)
    <3>1. row.status = verdict
          BY <2>4 DEF Complete, Inv, StreamInv, VerdictInv, Row
    <3>2. QED
          BY <1>0, <1>1, <1>2, <2>2, <2>3, <2>4, <3>1 DEF Complete, Inv, TypeOK, RunTypeOK,
             StreamStage, StreamInv, QueuesAreListened
  <2>5. CASE Leave(t)
        BY <1>0, <1>1, <1>2, <2>2, <2>3, <2>5 DEF Leave, Inv, TypeOK, RunTypeOK, StreamStage,
           StreamInv, QueuesAreListened
  <2>6. QED
        BY <1>7, <2>4, <2>5
<1>8. QED
      BY <1>3, <1>4, <1>5, <1>6, <1>7 DEF Deliver

THEOREM InvCorrect == Spec => []Inv
<1>1. Init => Inv
      BY InitInv
<1>2. Inv /\ [Next]_vars => Inv'
  <2> SUFFICES ASSUME Inv, [Next]_vars PROVE Inv'
      OBVIOUS
  <2>1. CASE UNCHANGED vars
        BY <2>1 DEF vars, runVars, streamVars, Inv, TypeOK, RunTypeOK, VerdictInv, RecordInv,
           LogInv, StreamInv, QueuesAreListened
  <2>2. QED
        BY <2>1, RunStep, TabStep DEF Next
<1>3. QED
      BY <1>1, <1>2, PTL DEF Spec

(* Every reachable state is well typed; the use case calls the engine twice *)
(* at most.                                                                 *)
THEOREM TypeCorrect == Spec => []TypeOK
<1>1. Inv => TypeOK
      BY DEF Inv
<1>2. QED
      BY <1>1, InvCorrect, PTL

(* task_completed is published over a row that is final and consistent.     *)
THEOREM CompletionPersisted == Spec => []CompletionIsPersisted
<1>1. Inv => CompletionIsPersisted
      BY DEF Inv, VerdictInv, AfterEngine, CompletionIsPersisted, IsComplete, Row, Judge,
         Completed, Listed
<1>2. QED
      BY <1>1, InvCorrect, PTL

(* An execution is recorded as a success only if its task ends as one.      *)
THEOREM RecordHonest == Spec => []RecordNotOptimistic
<1>1. Inv => RecordNotOptimistic
      BY DEF Inv, RecordInv, VerdictInv, RecordNotOptimistic, Row
<1>2. QED
      BY <1>1, InvCorrect, PTL

(* The bus has a queue for every listener and for nobody else.              *)
THEOREM QueuesListened == Spec => []QueuesAreListened
<1>1. Inv => QueuesAreListened
      BY DEF Inv
<1>2. QED
      BY <1>1, InvCorrect, PTL

(* A tab that was told the outcome has, in the end, the final snapshot.     *)
THEOREM LastSnapshotFinal == Spec => []LastSnapshotIsFinal
<1>1. Inv => LastSnapshotIsFinal
      BY DEF Inv, StreamInv, VerdictInv, LastSnapshotIsFinal, Row
<1>2. QED
      BY <1>1, InvCorrect, PTL
=============================================================================
