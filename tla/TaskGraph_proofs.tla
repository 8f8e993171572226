--------------------------- MODULE TaskGraph_proofs ---------------------------
(***************************************************************************)
(* Theorems about TaskGraph, for every number of subtasks, every retry      *)
(* limit and every set of decompositions.                                   *)
(*                                                                          *)
(* The properties are not inductive: that a started subtask keeps its       *)
(* completed dependencies needs to know that a dependency never runs in the *)
(* same batch as its dependent, and that a retry budget is kept needs to    *)
(* know at which await a coroutine can stand with which status.  Inv states *)
(* both and is preserved by every step.                                     *)
(***************************************************************************)
EXTENDS TaskGraph, FiniteSetTheorems, TLAPS

(* The subtasks that execute_batch is running.                              *)
Active == IF phase = "batch" THEN batch ELSE {}

Awaiting == {"starting", "engine", "react", "upgrade", "llm"}

(* One discussion subtask at most is appended per execution.                *)
RoomInv ==
    phase \in {"select", "batch", "route", "discuss"} => len < N + execution

(* Which status a coroutine has at which await.                             *)
CoroutineInv ==
    /\ \A s \in Subtask : stage[s] # "idle" => s \in Active
    /\ \A s \in Subtask : status[s] = "RUNNING" <=> stage[s] \in Awaiting
    /\ \A s \in Subtask : stage[s] = "code" => status[s] = "SUCCESS"
    /\ \A s \in Active : stage[s] = "idle" => status[s] = "PENDING"
    /\ \A s \in Subtask :
        (status[s] = "PENDING" \/ stage[s] \in Awaiting \cup {"code"}) =>
            retries[s] < MaxRetries

(* A dependency of what runs or has run is complete and not running.        *)
DependencyInv ==
    \A s \in Subtask :
        (s \in Active \/ status[s] \in {"RUNNING", "SUCCESS", "DEGRADED"}) =>
            \A d \in plan.deps[s] : Completed(d) /\ d \notin Active

(* The subtasks of the decomposition are there, a discussion has completed, *)
(* and nothing is written behind the list.                                  *)
PresentInv ==
    /\ \A s \in Subtask : status[s] # "ABSENT"
    /\ \A s \in Slot : s \in (N + 1)..len => Completed(s)
    /\ \A s \in Slot : s > len => status[s] = "ABSENT"

(* A given-up subtask and the dependency it waited for stay FAILED.         *)
BlockedInv ==
    \A s \in Subtask :
        error[s] = "blocked" =>
            status[s] = "FAILED" /\ \E d \in plan.deps[s] : status[d] = "FAILED"

(* What the last event of a subtask tells.                                  *)
EventInv ==
    \A s \in Subtask :
        /\ published[s] = "SUCCESS" => Completed(s) /\ stage[s] # "code"
        /\ published[s] = "FAILED" => status[s] = "FAILED"
        /\ published[s] = "PENDING" => status[s] = "PENDING" \/ error[s] = "blocked"
        /\ published[s] = "RUNNING" => stage[s] \in Awaiting \cup {"code"}
        /\ published[s] \in {"PENDING", "RUNNING", "SUCCESS", "FAILED"}

Inv ==
    /\ TypeOK /\ RoomInv /\ CoroutineInv /\ DependencyInv /\ PresentInv
    /\ BlockedInv /\ EventInv /\ RowNeverAhead /\ EndedSettled

LEMMA ResolveType ==
    ASSUME NEW d \in Decomposition
    PROVE  Resolve(d) \in Decomposition
BY DEF Resolve, Decomposition, Subtask

LEMMA BlankInfoType == BlankInfo \in Info
BY DEF BlankInfo, Info, Slot

LEMMA AnswerType ==
    ASSUME NEW i \in Info
    PROVE  /\ \A m \in Model, by \in {"none", "autonomous", "api"}, t \in BOOLEAN :
                Answered(i, m, by, t) \in Info
           /\ Filled(i) \in Info
           /\ \A f \in [Key -> SUBSET Subtask] : [i EXCEPT !.input = f] \in Info
BY DEF Answered, Filled, Info

LEMMA InitInv == Init => Inv
<1> SUFFICES ASSUME Init PROVE Inv
    OBVIOUS
<1> USE SizeAssumption
<1>1. TypeOK
  <2>1. plan \in Decomposition
        BY DecompositionAssumption, ResolveType DEF Init
  <2>2. info \in [Slot -> Info]
        BY BlankInfoType DEF Init
  <2>3. status \in [Slot -> Status] /\ len \in N..(N + execution)
        BY DEF Init, Subtask, Slot, Status
  <2>4. retries \in [Subtask -> 0..MaxRetries] /\ execution \in 1..MaxExecutions
        BY DEF Init
  <2>5. QED
        BY <2>1, <2>2, <2>3, <2>4 DEF Init, TypeOK, Status, Error, Stage, Phase
<1>2. RoomInv /\ CoroutineInv
      BY DEF Init, RoomInv, CoroutineInv, Active, Awaiting, Subtask, Slot
<1>3. DependencyInv
      BY DEF Init, DependencyInv, Active, Subtask, Slot
<1>4. PresentInv /\ BlockedInv /\ EndedSettled
      BY DEF Init, PresentInv, BlockedInv, EndedSettled, Subtask, Slot
<1>5. EventInv /\ RowNeverAhead
      BY DEF Init, EventInv, RowNeverAhead, Completed, Awaiting, Subtask, Slot
<1>6. QED
      BY <1>1, <1>2, <1>3, <1>4, <1>5 DEF Inv

(* Dependencies and needed tools are about subtasks of the decomposition.   *)
LEMMA PlanType ==
    ASSUME plan \in Decomposition
    PROVE  /\ \A s \in Subtask : plan.deps[s] \subseteq Subtask
           /\ plan.needsTools \subseteq Subtask
BY DEF Decomposition

(* A step that takes back no failure and gives up on no other subtask keeps *)
(* every given-up subtask explained.                                        *)
LEMMA BlockedStep ==
    ASSUME Inv, plan' = plan,
           \A t \in Subtask : status[t] = "FAILED" => status'[t] = "FAILED",
           \A t \in Subtask : error'[t] = "blocked" => error[t] = "blocked"
    PROVE  BlockedInv'
<1> SUFFICES ASSUME NEW t \in Subtask, error'[t] = "blocked"
             PROVE  status'[t] = "FAILED" /\ \E d \in plan.deps[t] : status'[d] = "FAILED"
    BY DEF BlockedInv
<1>1. status[t] = "FAILED" /\ \E d \in plan.deps[t] : status[d] = "FAILED"
      BY DEF Inv, BlockedInv
<1>2. plan.deps[t] \subseteq Subtask
      BY PlanType DEF Inv, TypeOK
<1>3. QED
      BY <1>1, <1>2

(* A step that completes and withdraws nothing, and starts nothing, keeps   *)
(* the dependencies of what has run.                                        *)
LEMMA DependencyStep ==
    ASSUME Inv, plan' = plan, Active' = {},
           \A t \in Subtask : Completed(t) <=> Completed(t)',
           \A t \in Subtask : status'[t] # "RUNNING"
    PROVE  DependencyInv'
<1> SUFFICES ASSUME NEW t \in Subtask, Completed(t)', NEW d \in plan.deps[t]
             PROVE  Completed(d)'
    BY DEF DependencyInv, Completed
<1>1. d \in Subtask
      BY PlanType DEF Inv, TypeOK
<1>2. Completed(d)
      BY DEF Inv, DependencyInv, Completed
<1>3. QED
      BY <1>1, <1>2

LEMMA StepInv == Inv /\ [Next]_vars => Inv'
<1> SUFFICES ASSUME Inv, [Next]_vars PROVE Inv'
    OBVIOUS
<1> USE SizeAssumption
<1>1. ASSUME NEW s \in Subtask, Start(s) PROVE Inv'
  <2>1. TypeOK' /\ RoomInv'
        BY <1>1 DEF Inv, TypeOK, RoomInv, CoroutineInv, Awaiting, Start,
            Status, Error, Stage, Phase, Subtask, Slot
  <2>2. CoroutineInv'
        BY <1>1 DEF Inv, TypeOK, CoroutineInv, Active, Awaiting, Start, Subtask,
            Slot
  <2>3. DependencyInv'
        BY <1>1 DEF Inv, TypeOK, CoroutineInv, DependencyInv, Active, Awaiting,
            Completed, Start, Subtask, Slot
  <2>4. PresentInv'
        BY <1>1 DEF Inv, TypeOK, CoroutineInv, PresentInv,
            Active, Awaiting, Completed, Start, Subtask, Slot
  <2>5. BlockedInv'
    <3>1. \A t \in Subtask : status[t] = "FAILED" => status'[t] = "FAILED"
          BY <1>1 DEF Inv, TypeOK, CoroutineInv, Active, Awaiting, Start, Subtask,
              Slot
    <3>2. \A t \in Subtask : error'[t] = "blocked" => error[t] = "blocked"
          BY <1>1 DEF Inv, TypeOK, Start, Subtask, Slot
    <3>3. QED
          BY <1>1, <3>1, <3>2, BlockedStep DEF Start
  <2>6. EventInv'
        BY <1>1 DEF Inv, TypeOK, CoroutineInv, EventInv, Active, Awaiting,
            Completed, Start,
            Subtask, Slot
  <2>7. RowNeverAhead' /\ EndedSettled'
        BY <1>1 DEF Inv, TypeOK, CoroutineInv, PresentInv, RowNeverAhead,
            EndedSettled,
            Active, Awaiting, Completed, Terminal, Start, Subtask, Slot
  <2>8. QED
        BY <2>1, <2>2, <2>3, <2>4, <2>5, <2>6, <2>7 DEF Inv
<1>2. ASSUME NEW s \in Subtask, Launch(s) PROVE Inv'
  <2>1. TypeOK' /\ RoomInv'
    <3>1. info' \in [Slot -> Info]
      <4>1. Injected(s) \in [Key -> SUBSET Subtask]
        <5>1. info[s] \in Info
              BY DEF Inv, TypeOK, Subtask, Slot
        <5>2. \A k \in Key : info[s].input[k] \in SUBSET Subtask
              BY <5>1 DEF Info
        <5>3. \A k \in Key : LastSource(k) \in SUBSET Subtask
              BY DEF LastSource, Sources
        <5>4. QED
              BY <5>2, <5>3 DEF Injected
      <4>2. QED
            BY <1>2, <4>1, AnswerType DEF Launch, Inv, TypeOK, Subtask, Slot
    <3>2. QED
          BY <1>2, <3>1 DEF Inv, TypeOK, RoomInv, CoroutineInv, Awaiting, Launch,
              Injected, LocalStage,
              Status, Error, Stage, Phase, Subtask, Slot
  <2>2. CoroutineInv'
        BY <1>2 DEF Inv, TypeOK, CoroutineInv, Active, Awaiting, Launch, Injected,
            LocalStage, Subtask, Slot
  <2>3. DependencyInv'
        BY <1>2 DEF Inv, TypeOK, CoroutineInv, DependencyInv, Active, Awaiting,
            Completed, Launch, Injected, LocalStage, Subtask, Slot
  <2>4. PresentInv'
        BY <1>2 DEF Inv, TypeOK, CoroutineInv, PresentInv,
            Active, Awaiting, Completed, Launch, Injected, LocalStage, Subtask, Slot
  <2>5. BlockedInv'
        BY <1>2 DEF Inv, TypeOK, CoroutineInv, BlockedInv, Active, Awaiting, Launch,
            Injected, LocalStage, Subtask, Slot
  <2>6. EventInv'
        BY <1>2 DEF Inv, TypeOK, CoroutineInv, EventInv, Active, Awaiting,
            Completed, Launch, Injected, LocalStage,
            Subtask, Slot
  <2>7. RowNeverAhead' /\ EndedSettled'
        BY <1>2 DEF Inv, TypeOK, CoroutineInv, PresentInv, RowNeverAhead,
            EndedSettled,
            Active, Awaiting, Completed, Terminal, Launch, Injected, LocalStage,
            Subtask, Slot
  <2>8. QED
        BY <2>1, <2>2, <2>3, <2>4, <2>5, <2>6, <2>7 DEF Inv
<1>3. ASSUME NEW s \in Subtask, EngineAnswer(s) PROVE Inv'
  <2>1. TypeOK' /\ RoomInv'
    <3>1. info' \in [Slot -> Info]
      <4>1. PICK m \in Model, by \in {"autonomous", "api"} :
                info' = [info EXCEPT ![s] = Filled(Answered(@, m, by, FALSE))]
            BY <1>3 DEF EngineAnswer
      <4>2. QED
            BY <4>1, AnswerType DEF Inv, TypeOK, Subtask, Slot
    <3>2. QED
          BY <1>3, <3>1 DEF Inv, TypeOK, RoomInv, CoroutineInv, Awaiting,
              EngineAnswer, Report,
              Status, Error, Stage, Phase, Subtask, Slot
  <2>2. CoroutineInv'
        BY <1>3 DEF Inv, TypeOK, CoroutineInv, Active, Awaiting, EngineAnswer,
            Report, Subtask, Slot
  <2>3. DependencyInv'
        BY <1>3 DEF Inv, TypeOK, CoroutineInv, DependencyInv, Active, Awaiting,
            Completed, EngineAnswer, Report, Subtask, Slot
  <2>4. PresentInv'
        BY <1>3 DEF Inv, TypeOK, CoroutineInv, PresentInv,
            Active, Awaiting, Completed, EngineAnswer, Report, Subtask, Slot
  <2>5. BlockedInv'
    <3>1. \A t \in Subtask : status[t] = "FAILED" => status'[t] = "FAILED"
          BY <1>3 DEF Inv, TypeOK, CoroutineInv, Active, Awaiting, EngineAnswer,
              Report, Subtask, Slot
    <3>2. \A t \in Subtask : error'[t] = "blocked" => error[t] = "blocked"
          BY <1>3 DEF Inv, TypeOK, EngineAnswer, Report, Subtask, Slot
    <3>3. QED
          BY <1>3, <3>1, <3>2, BlockedStep DEF EngineAnswer, Report
  <2>6. EventInv'
        BY <1>3 DEF Inv, TypeOK, CoroutineInv, EventInv, Active, Awaiting,
            Completed, EngineAnswer, Report,
            Subtask, Slot
  <2>7. RowNeverAhead' /\ EndedSettled'
        BY <1>3 DEF Inv, TypeOK, CoroutineInv, PresentInv, RowNeverAhead,
            EndedSettled,
            Active, Awaiting, Completed, Terminal, EngineAnswer, Report, Subtask,
            Slot
  <2>8. QED
        BY <2>1, <2>2, <2>3, <2>4, <2>5, <2>6, <2>7 DEF Inv
<1>4. ASSUME NEW s \in Subtask, EngineDeclined(s) PROVE Inv'
  <2>1. TypeOK' /\ RoomInv'
        BY <1>4 DEF Inv, TypeOK, RoomInv, CoroutineInv, Awaiting, EngineDeclined,
            LocalStage,
            Status, Error, Stage, Phase, Subtask, Slot
  <2>2. CoroutineInv'
        BY <1>4 DEF Inv, TypeOK, CoroutineInv, Active, Awaiting, EngineDeclined,
            LocalStage, Subtask, Slot
  <2>3. DependencyInv'
        BY <1>4 DEF Inv, TypeOK, CoroutineInv, DependencyInv, Active, Awaiting,
            Completed, EngineDeclined, LocalStage, Subtask, Slot
  <2>4. PresentInv'
        BY <1>4 DEF Inv, TypeOK, CoroutineInv, PresentInv,
            Active, Awaiting, Completed, EngineDeclined, LocalStage, Subtask, Slot
  <2>5. BlockedInv'
        BY <1>4 DEF Inv, TypeOK, CoroutineInv, BlockedInv, Active, Awaiting,
            EngineDeclined, LocalStage, Subtask, Slot
  <2>6. EventInv'
        BY <1>4 DEF Inv, TypeOK, CoroutineInv, EventInv, Active, Awaiting,
            Completed, EngineDeclined, LocalStage,
            Subtask, Slot
  <2>7. RowNeverAhead' /\ EndedSettled'
        BY <1>4 DEF Inv, TypeOK, CoroutineInv, PresentInv, RowNeverAhead,
            EndedSettled,
            Active, Awaiting, Completed, Terminal, EngineDeclined, LocalStage,
            Subtask, Slot
  <2>8. QED
        BY <2>1, <2>2, <2>3, <2>4, <2>5, <2>6, <2>7 DEF Inv
<1>5. ASSUME NEW s \in Subtask, ReactAnswer(s) PROVE Inv'
  <2>1. TypeOK' /\ RoomInv'
    <3>1. info' \in [Slot -> Info]
      <4>1. PICK m \in Model, tools \in BOOLEAN :
                info' = [info EXCEPT ![s] = Filled(Answered(@, m, "api", tools))]
            BY <1>5 DEF ReactAnswer
      <4>2. QED
            BY <4>1, AnswerType DEF Inv, TypeOK, Subtask, Slot
    <3>2. QED
          BY <1>5, <3>1 DEF Inv, TypeOK, RoomInv, CoroutineInv, Awaiting,
              ReactAnswer, Report,
              Status, Error, Stage, Phase, Subtask, Slot
  <2>2. CoroutineInv'
        BY <1>5 DEF Inv, TypeOK, CoroutineInv, Active, Awaiting, ReactAnswer,
            Report, Subtask, Slot
  <2>3. DependencyInv'
        BY <1>5 DEF Inv, TypeOK, CoroutineInv, DependencyInv, Active, Awaiting,
            Completed, ReactAnswer, Report, Subtask, Slot
  <2>4. PresentInv'
        BY <1>5 DEF Inv, TypeOK, CoroutineInv, PresentInv,
            Active, Awaiting, Completed, ReactAnswer, Report, Subtask, Slot
  <2>5. BlockedInv'
    <3>1. \A t \in Subtask : status[t] = "FAILED" => status'[t] = "FAILED"
          BY <1>5 DEF Inv, TypeOK, CoroutineInv, Active, Awaiting, ReactAnswer,
              Report, Subtask, Slot
    <3>2. \A t \in Subtask : error'[t] = "blocked" => error[t] = "blocked"
          BY <1>5 DEF Inv, TypeOK, ReactAnswer, Report, Subtask, Slot
    <3>3. QED
          BY <1>5, <3>1, <3>2, BlockedStep DEF ReactAnswer, Report
  <2>6. EventInv'
        BY <1>5 DEF Inv, TypeOK, CoroutineInv, EventInv, Active, Awaiting,
            Completed, ReactAnswer, Report,
            Subtask, Slot
  <2>7. RowNeverAhead' /\ EndedSettled'
        BY <1>5 DEF Inv, TypeOK, CoroutineInv, PresentInv, RowNeverAhead,
            EndedSettled,
            Active, Awaiting, Completed, Terminal, ReactAnswer, Report, Subtask,
            Slot
  <2>8. QED
        BY <2>1, <2>2, <2>3, <2>4, <2>5, <2>6, <2>7 DEF Inv
<1>6. ASSUME NEW s \in Subtask, ReactUpgrade(s) PROVE Inv'
  <2>1. TypeOK' /\ RoomInv'
        BY <1>6 DEF Inv, TypeOK, RoomInv, CoroutineInv, Awaiting, ReactUpgrade,
            NeedsUpgrade,
            Status, Error, Stage, Phase, Subtask, Slot
  <2>2. CoroutineInv'
        BY <1>6 DEF Inv, TypeOK, CoroutineInv, Active, Awaiting, ReactUpgrade,
            NeedsUpgrade, Subtask, Slot
  <2>3. DependencyInv'
        BY <1>6 DEF Inv, TypeOK, CoroutineInv, DependencyInv, Active, Awaiting,
            Completed, ReactUpgrade, NeedsUpgrade, Subtask, Slot
  <2>4. PresentInv'
        BY <1>6 DEF Inv, TypeOK, CoroutineInv, PresentInv,
            Active, Awaiting, Completed, ReactUpgrade, NeedsUpgrade, Subtask, Slot
  <2>5. BlockedInv'
        BY <1>6 DEF Inv, TypeOK, CoroutineInv, BlockedInv, Active, Awaiting,
            ReactUpgrade, NeedsUpgrade, Subtask, Slot
  <2>6. EventInv'
        BY <1>6 DEF Inv, TypeOK, CoroutineInv, EventInv, Active, Awaiting,
            Completed, ReactUpgrade, NeedsUpgrade,
            Subtask, Slot
  <2>7. RowNeverAhead' /\ EndedSettled'
        BY <1>6 DEF Inv, TypeOK, CoroutineInv, PresentInv, RowNeverAhead,
            EndedSettled,
            Active, Awaiting, Completed, Terminal, ReactUpgrade, NeedsUpgrade,
            Subtask, Slot
  <2>8. QED
        BY <2>1, <2>2, <2>3, <2>4, <2>5, <2>6, <2>7 DEF Inv
<1>7. ASSUME NEW s \in Subtask, LlmAnswer(s) PROVE Inv'
  <2>1. TypeOK' /\ RoomInv'
    <3>1. info' \in [Slot -> Info]
      <4>1. PICK m \in Model :
                info' = [info EXCEPT ![s] = Answered(@, m, "api", FALSE)]
            BY <1>7 DEF LlmAnswer
      <4>2. QED
            BY <4>1, AnswerType DEF Inv, TypeOK, Subtask, Slot
    <3>2. QED
          BY <1>7, <3>1 DEF Inv, TypeOK, RoomInv, CoroutineInv, Awaiting, LlmAnswer,
              Status, Error, Stage, Phase, Subtask, Slot
  <2>2. CoroutineInv'
        BY <1>7 DEF Inv, TypeOK, CoroutineInv, Active, Awaiting, LlmAnswer, Subtask,
            Slot
  <2>3. DependencyInv'
        BY <1>7 DEF Inv, TypeOK, CoroutineInv, DependencyInv, Active, Awaiting,
            Completed, LlmAnswer, Subtask, Slot
  <2>4. PresentInv'
        BY <1>7 DEF Inv, TypeOK, CoroutineInv, PresentInv,
            Active, Awaiting, Completed, LlmAnswer, Subtask, Slot
  <2>5. BlockedInv'
    <3>1. \A t \in Subtask : status[t] = "FAILED" => status'[t] = "FAILED"
          BY <1>7 DEF Inv, TypeOK, CoroutineInv, Active, Awaiting, LlmAnswer,
              Subtask, Slot
    <3>2. \A t \in Subtask : error'[t] = "blocked" => error[t] = "blocked"
          BY <1>7 DEF Inv, TypeOK, LlmAnswer, Subtask, Slot
    <3>3. QED
          BY <1>7, <3>1, <3>2, BlockedStep DEF LlmAnswer
  <2>6. EventInv'
        BY <1>7 DEF Inv, TypeOK, CoroutineInv, EventInv, Active, Awaiting,
            Completed, LlmAnswer,
            Subtask, Slot
  <2>7. RowNeverAhead' /\ EndedSettled'
        BY <1>7 DEF Inv, TypeOK, CoroutineInv, PresentInv, RowNeverAhead,
            EndedSettled,
            Active, Awaiting, Completed, Terminal, LlmAnswer, Subtask, Slot
  <2>8. QED
        BY <2>1, <2>2, <2>3, <2>4, <2>5, <2>6, <2>7 DEF Inv
<1>8. ASSUME NEW s \in Subtask, CodeReturned(s) PROVE Inv'
  <2>1. TypeOK' /\ RoomInv'
    <3>1. info' \in [Slot -> Info]
          BY <1>8, AnswerType DEF Inv, TypeOK, CodeReturned, Subtask, Slot
    <3>2. info[s].cost \in {0, 1}
          BY DEF Inv, TypeOK, Info, Subtask, Slot
    <3>3. QED
          BY <1>8, <3>1, <3>2 DEF Inv, TypeOK, RoomInv, CoroutineInv, Awaiting,
              CodeReturned, Report,
              Status, Error, Stage, Phase, Subtask, Slot
  <2>2. CoroutineInv'
        BY <1>8 DEF Inv, TypeOK, CoroutineInv, Active, Awaiting, CodeReturned,
            Report, Subtask, Slot
  <2>3. DependencyInv'
        BY <1>8 DEF Inv, TypeOK, CoroutineInv, DependencyInv, Active, Awaiting,
            Completed, CodeReturned, Report, Subtask, Slot
  <2>4. PresentInv'
        BY <1>8 DEF Inv, TypeOK, CoroutineInv, PresentInv,
            Active, Awaiting, Completed, CodeReturned, Report, Subtask, Slot
  <2>5. BlockedInv'
    <3>1. \A t \in Subtask : status[t] = "FAILED" => status'[t] = "FAILED"
          BY <1>8 DEF Inv, TypeOK, CoroutineInv, Active, Awaiting, CodeReturned,
              Report, Subtask, Slot
    <3>2. \A t \in Subtask : error'[t] = "blocked" => error[t] = "blocked"
          BY <1>8 DEF Inv, TypeOK, CodeReturned, Report, Subtask, Slot
    <3>3. QED
          BY <1>8, <3>1, <3>2, BlockedStep DEF CodeReturned, Report
  <2>6. EventInv'
        BY <1>8 DEF Inv, TypeOK, CoroutineInv, EventInv, Active, Awaiting,
            Completed, CodeReturned, Report,
            Subtask, Slot
  <2>7. RowNeverAhead' /\ EndedSettled'
        BY <1>8 DEF Inv, TypeOK, CoroutineInv, PresentInv, RowNeverAhead,
            EndedSettled,
            Active, Awaiting, Completed, Terminal, CodeReturned, Report, Subtask,
            Slot
  <2>8. QED
        BY <2>1, <2>2, <2>3, <2>4, <2>5, <2>6, <2>7 DEF Inv
<1>9. ASSUME NEW s \in Subtask, Raise(s) PROVE Inv'
  <2>1. TypeOK' /\ RoomInv'
        BY <1>9 DEF Inv, TypeOK, RoomInv, CoroutineInv, Awaiting, Raise, Report,
            Raising,
            Status, Error, Stage, Phase, Subtask, Slot
  <2>2. CoroutineInv'
        BY <1>9 DEF Inv, TypeOK, CoroutineInv, Active, Awaiting, Raise, Report,
            Raising, Subtask, Slot
  <2>3. DependencyInv'
        BY <1>9 DEF Inv, TypeOK, CoroutineInv, DependencyInv, Active, Awaiting,
            Completed, Raise, Report, Raising, Subtask, Slot
  <2>4. PresentInv'
        BY <1>9 DEF Inv, TypeOK, CoroutineInv, PresentInv,
            Active, Awaiting, Completed, Raise, Report, Raising, Subtask, Slot
  <2>5. BlockedInv'
    <3>1. \A t \in Subtask : status[t] = "FAILED" => status'[t] = "FAILED"
          BY <1>9 DEF Inv, TypeOK, CoroutineInv, Active, Awaiting, Raise, Report,
              Raising, Subtask, Slot
    <3>2. \A t \in Subtask : error'[t] = "blocked" => error[t] = "blocked"
          BY <1>9 DEF Inv, TypeOK, Raise, Report, Raising, Subtask, Slot
    <3>3. QED
          BY <1>9, <3>1, <3>2, BlockedStep DEF Raise, Report, Raising
  <2>6. EventInv'
        BY <1>9 DEF Inv, TypeOK, CoroutineInv, EventInv, Active, Awaiting,
            Completed, Raise, Report, Raising,
            Subtask, Slot
  <2>7. RowNeverAhead' /\ EndedSettled'
        BY <1>9 DEF Inv, TypeOK, CoroutineInv, PresentInv, RowNeverAhead,
            EndedSettled,
            Active, Awaiting, Completed, Terminal, Raise, Report, Raising, Subtask,
            Slot
  <2>8. QED
        BY <2>1, <2>2, <2>3, <2>4, <2>5, <2>6, <2>7 DEF Inv
<1>10. ASSUME NEW s \in Subtask, Return(s) PROVE Inv'
  <2>1. TypeOK' /\ RoomInv'
    <3>1. earned[s] \in {0, 1}
          BY DEF Inv, TypeOK
    <3>2. costSoFar' \in Nat
          BY <1>10, <3>1 DEF Inv, TypeOK, Return
    <3>3. QED
          BY <1>10, <3>2 DEF Inv, TypeOK, RoomInv, Return, Stage, Subtask, Slot
  <2>2. CoroutineInv'
        BY <1>10 DEF Inv, TypeOK, CoroutineInv, Active, Awaiting, Return, Subtask,
            Slot
  <2>3. DependencyInv'
        BY <1>10 DEF Inv, TypeOK, CoroutineInv, DependencyInv, Active, Awaiting,
            Completed, Return, Subtask, Slot
  <2>4. PresentInv'
        BY <1>10 DEF Inv, TypeOK, CoroutineInv, PresentInv,
            Active, Awaiting, Completed, Return, Subtask, Slot
  <2>5. BlockedInv'
        BY <1>10 DEF Inv, TypeOK, CoroutineInv, BlockedInv, Active, Awaiting,
            Return, Subtask, Slot
  <2>6. EventInv'
        BY <1>10 DEF Inv, TypeOK, CoroutineInv, EventInv, Active, Awaiting,
            Completed, Return,
            Subtask, Slot
  <2>7. RowNeverAhead' /\ EndedSettled'
        BY <1>10 DEF Inv, TypeOK, CoroutineInv, PresentInv, RowNeverAhead,
            EndedSettled,
            Active, Awaiting, Completed, Terminal, Return, Subtask, Slot
  <2>8. QED
        BY <2>1, <2>2, <2>3, <2>4, <2>5, <2>6, <2>7 DEF Inv
<1>11. ASSUME Select PROVE Inv'
  <2>1. TypeOK' /\ RoomInv'
        BY <1>11 DEF Inv, TypeOK, RoomInv, CoroutineInv, Awaiting, Select, Ready,
            Status, Error, Stage, Phase, Subtask, Slot
  <2>2. CoroutineInv'
        BY <1>11 DEF Inv, TypeOK, CoroutineInv, Active, Awaiting, Select, Ready,
            Subtask, Slot
  <2>3. DependencyInv'
        BY <1>11 DEF Inv, TypeOK, CoroutineInv, DependencyInv, Active, Awaiting,
            Completed, Select, Ready, Subtask, Slot
  <2>4. PresentInv'
        BY <1>11 DEF Inv, TypeOK, CoroutineInv, PresentInv,
            Active, Awaiting, Completed, Select, Ready, Subtask, Slot
  <2>5. BlockedInv'
        BY <1>11 DEF Inv, TypeOK, CoroutineInv, BlockedInv, Active, Awaiting,
            Select, Ready, Subtask, Slot
  <2>6. EventInv'
        BY <1>11 DEF Inv, TypeOK, CoroutineInv, EventInv, Active, Awaiting,
            Completed, Select, Ready,
            Subtask, Slot
  <2>7. RowNeverAhead' /\ EndedSettled'
        BY <1>11 DEF Inv, TypeOK, CoroutineInv, PresentInv, RowNeverAhead,
            EndedSettled,
            Active, Awaiting, Completed, Terminal, Select, Ready, Subtask, Slot
  <2>8. QED
        BY <2>1, <2>2, <2>3, <2>4, <2>5, <2>6, <2>7 DEF Inv
<1>12. ASSUME BatchDone PROVE Inv'
  <2>1. TypeOK' /\ RoomInv'
        BY <1>12 DEF Inv, TypeOK, RoomInv, CoroutineInv, Awaiting, BatchDone,
            Status, Error, Stage, Phase, Subtask, Slot
  <2>2. CoroutineInv'
        BY <1>12 DEF Inv, TypeOK, CoroutineInv, Active, Awaiting, BatchDone,
            Subtask, Slot
  <2>3. DependencyInv'
        BY <1>12 DEF Inv, TypeOK, CoroutineInv, DependencyInv, Active, Awaiting,
            Completed, BatchDone, Subtask, Slot
  <2>4. PresentInv'
        BY <1>12 DEF Inv, TypeOK, CoroutineInv, PresentInv,
            Active, Awaiting, Completed, BatchDone, Subtask, Slot
  <2>5. BlockedInv'
        BY <1>12 DEF Inv, TypeOK, CoroutineInv, BlockedInv, Active, Awaiting,
            BatchDone, Subtask, Slot
  <2>6. EventInv'
        BY <1>12 DEF Inv, TypeOK, CoroutineInv, EventInv, Active, Awaiting,
            Completed, BatchDone,
            Subtask, Slot
  <2>7. RowNeverAhead' /\ EndedSettled'
        BY <1>12 DEF Inv, TypeOK, CoroutineInv, PresentInv, RowNeverAhead,
            EndedSettled,
            Active, Awaiting, Completed, Terminal, BatchDone, Subtask, Slot
  <2>8. QED
        BY <2>1, <2>2, <2>3, <2>4, <2>5, <2>6, <2>7 DEF Inv
<1>13. ASSUME Continue PROVE Inv'
  <2>1. TypeOK' /\ RoomInv'
        BY <1>13 DEF Inv, TypeOK, RoomInv, CoroutineInv, Awaiting, Continue, Ready,
            Status, Error, Stage, Phase, Subtask, Slot
  <2>2. CoroutineInv'
        BY <1>13 DEF Inv, TypeOK, CoroutineInv, Active, Awaiting, Continue, Ready,
            Subtask, Slot
  <2>3. DependencyInv'
        BY <1>13 DEF Inv, TypeOK, CoroutineInv, DependencyInv, Active, Awaiting,
            Completed, Continue, Ready, Subtask, Slot
  <2>4. PresentInv'
        BY <1>13 DEF Inv, TypeOK, CoroutineInv, PresentInv,
            Active, Awaiting, Completed, Continue, Ready, Subtask, Slot
  <2>5. BlockedInv'
        BY <1>13 DEF Inv, TypeOK, CoroutineInv, BlockedInv, Active, Awaiting,
            Continue, Ready, Subtask, Slot
  <2>6. EventInv'
        BY <1>13 DEF Inv, TypeOK, CoroutineInv, EventInv, Active, Awaiting,
            Completed, Continue, Ready,
            Subtask, Slot
  <2>7. RowNeverAhead' /\ EndedSettled'
        BY <1>13 DEF Inv, TypeOK, CoroutineInv, PresentInv, RowNeverAhead,
            EndedSettled,
            Active, Awaiting, Completed, Terminal, Continue, Ready, Subtask, Slot
  <2>8. QED
        BY <2>1, <2>2, <2>3, <2>4, <2>5, <2>6, <2>7 DEF Inv
<1>14. ASSUME FailBlocked PROVE Inv'
  <2>1. TypeOK' /\ RoomInv'
        BY <1>14 DEF Inv, TypeOK, RoomInv, CoroutineInv, Awaiting, FailBlocked,
            Ready,
            Status, Error, Stage, Phase, Subtask, Slot
  <2>2. CoroutineInv'
        BY <1>14 DEF Inv, TypeOK, CoroutineInv, Active, Awaiting, FailBlocked,
            Ready, Subtask, Slot
  <2>3. DependencyInv'
    <3>1. \A t \in Subtask : Completed(t) <=> Completed(t)'
          BY <1>14 DEF Inv, TypeOK, FailBlocked, Completed, Subtask, Slot
    <3>2. \A t \in Subtask : status'[t] # "RUNNING"
          BY <1>14 DEF Inv, TypeOK, CoroutineInv, Active, Awaiting, FailBlocked,
              Subtask, Slot
    <3>3. QED
          BY <1>14, <3>1, <3>2, DependencyStep DEF FailBlocked, Active
  <2>4. PresentInv'
        BY <1>14 DEF Inv, TypeOK, CoroutineInv, PresentInv,
            Active, Awaiting, Completed, FailBlocked, Ready, Subtask, Slot
  <2>5. BlockedInv'
    <3> SUFFICES ASSUME NEW t \in Subtask, error'[t] = "blocked"
                 PROVE  status'[t] = "FAILED" /\ \E d \in plan.deps[t] : status'[d] = "FAILED"
        BY <1>14 DEF BlockedInv, FailBlocked
    <3>1. plan.deps[t] \subseteq Subtask
          BY PlanType DEF Inv, TypeOK
    <3>2. \A d \in Subtask : status[d] \in {"PENDING",
    "FAILED"} => status'[d] = "FAILED"
          BY <1>14 DEF FailBlocked, Subtask, Slot
    <3>3. CASE status[t] = "PENDING"
      <4>1. PICK d \in plan.deps[t] : ~Completed(d)
            BY <1>14, <3>3 DEF FailBlocked, Ready
      <4>2. status[d] \in {"PENDING", "FAILED"}
            BY <1>14, <3>1, <4>1 DEF Inv, TypeOK, Status, CoroutineInv, PresentInv,
                Active,
                Awaiting, Completed, FailBlocked, Subtask, Slot
      <4>3. QED
            BY <3>1, <3>2, <3>3, <4>1, <4>2
    <3>4. CASE status[t] # "PENDING"
      <4>1. error[t] = "blocked"
            BY <1>14, <3>4 DEF FailBlocked, Subtask, Slot
      <4>2. QED
            BY <3>1, <3>2, <4>1 DEF Inv, BlockedInv
    <3>5. QED
          BY <3>3, <3>4
  <2>6. EventInv'
        BY <1>14 DEF Inv, TypeOK, CoroutineInv, EventInv, Active, Awaiting,
            Completed, FailBlocked, Ready,
            Subtask, Slot
  <2>7. RowNeverAhead' /\ EndedSettled'
    <3>1. \A t \in Subtask : Completed(t) => Completed(t)'
          BY <1>14 DEF Inv, TypeOK, FailBlocked, Completed, Subtask, Slot
    <3>2. RowNeverAhead'
          BY <1>14, <3>1 DEF Inv, RowNeverAhead, FailBlocked
    <3>3. \A t \in Subtask : Terminal(t)'
      <4>1. \A t \in Subtask : status[t] \notin {"RUNNING", "ABSENT"}
            BY <1>14 DEF Inv, CoroutineInv, PresentInv, Active, Awaiting,
                FailBlocked
      <4>2. \A t \in Subtask : status[t] \in Status
            BY DEF Inv, TypeOK, Subtask, Slot
      <4>3. QED
            BY <1>14, <4>1, <4>2 DEF FailBlocked, Terminal, Status, Subtask, Slot
    <3>4. \A t \in (N + 1)..len : Terminal(t)'
          BY <1>14 DEF Inv, TypeOK, PresentInv, Completed, Terminal, FailBlocked,
              Subtask, Slot
    <3>5. QED
          BY <1>14, <3>2, <3>3, <3>4 DEF Inv, TypeOK, EndedSettled, FailBlocked,
              Subtask
  <2>8. QED
        BY <2>1, <2>2, <2>3, <2>4, <2>5, <2>6, <2>7 DEF Inv
<1>15. ASSUME Synthesise PROVE Inv'
  <2>1. TypeOK' /\ RoomInv'
    <3>1. info' \in [Slot -> Info]
      <4>1. PICK m \in Model, by \in {"none", "autonomous"} :
                info' = [info EXCEPT ![len + 1] = Answered(BlankInfo, m, by, FALSE)]
            BY <1>15 DEF Synthesise
      <4>2. QED
            BY <4>1, BlankInfoType, AnswerType DEF Inv, TypeOK
    <3>2. len' = len + 1 /\ len' \in N..(N + execution)
          BY <1>15 DEF Inv, TypeOK, RoomInv, Synthesise
    <3>3. status' \in [Slot -> Status] /\ costSoFar' \in Nat
      <4>1. status' = [status EXCEPT ![len + 1] = "SUCCESS"] /\ costSoFar' = costSoFar + 1
            BY <1>15 DEF Synthesise
      <4>2. "SUCCESS" \in Status
            BY DEF Status
      <4>3. status' \in [Slot -> Status]
            BY <4>1, <4>2 DEF Inv, TypeOK
      <4>4. costSoFar' \in Nat
            BY <4>1 DEF Inv, TypeOK
      <4>5. QED
            BY <4>3, <4>4
    <3>4. QED
          BY <1>15, <3>1, <3>2, <3>3 DEF Inv, TypeOK, RoomInv, Synthesise, Phase
  <2>2. CoroutineInv'
        BY <1>15 DEF Inv, TypeOK, CoroutineInv, Active, Awaiting, Synthesise,
            BlankInfo, Subtask, Slot
  <2>3. DependencyInv'
        BY <1>15 DEF Inv, TypeOK, CoroutineInv, DependencyInv, Active, Awaiting,
            Completed, Synthesise, BlankInfo, Subtask, Slot
  <2>4. PresentInv'
    <3>1. len + 1 \in Slot \ Subtask
          BY <1>15 DEF Inv, TypeOK, RoomInv, Synthesise, Subtask, Slot
    <3>2. status' = [status EXCEPT ![len + 1] = "SUCCESS"] /\ len' = len + 1
          BY <1>15 DEF Synthesise
    <3>3. QED
          BY <3>1, <3>2 DEF Inv, TypeOK, PresentInv, Completed, Subtask, Slot
  <2>5. BlockedInv'
    <3>1. \A t \in Subtask : status[t] = "FAILED" => status'[t] = "FAILED"
          BY <1>15 DEF Inv, TypeOK, CoroutineInv, RoomInv, Active, Awaiting,
              Synthesise, BlankInfo, Subtask, Slot
    <3>2. \A t \in Subtask : error'[t] = "blocked" => error[t] = "blocked"
          BY <1>15 DEF Inv, TypeOK, Synthesise, BlankInfo, Subtask, Slot
    <3>3. QED
          BY <1>15, <3>1, <3>2, BlockedStep DEF Synthesise, BlankInfo
  <2>6. EventInv'
        BY <1>15 DEF Inv, TypeOK, CoroutineInv, EventInv, Active, Awaiting,
            Completed, Synthesise, BlankInfo,
            Subtask, Slot
  <2>7. RowNeverAhead' /\ EndedSettled'
    <3>1. len + 1 \in Slot \ Subtask
          BY <1>15 DEF Inv, TypeOK, RoomInv, Synthesise, Subtask, Slot
    <3>2. status' = [status EXCEPT ![len + 1] = "SUCCESS"] /\ len' = len + 1
          BY <1>15 DEF Synthesise
    <3>3. RowNeverAhead'
          BY <1>15, <3>1, <3>2 DEF Inv, TypeOK, RowNeverAhead, Completed,
              Synthesise, Subtask, Slot
    <3>4. \A t \in 1..len : Terminal(t)
          BY <1>15 DEF Inv, EndedSettled, Synthesise
    <3>5. \A t \in 1..len : t \in Slot /\ t # len + 1
          BY DEF Inv, TypeOK, Slot
    <3>6. QED
          BY <3>1, <3>2, <3>3, <3>4, <3>5 DEF Inv, TypeOK, EndedSettled, Terminal
  <2>8. QED
        BY <2>1, <2>2, <2>3, <2>4, <2>5, <2>6, <2>7 DEF Inv
<1>16. ASSUME NoSynthesis PROVE Inv'
  <2>1. TypeOK' /\ RoomInv'
        BY <1>16 DEF Inv, TypeOK, RoomInv, CoroutineInv, Awaiting, NoSynthesis,
            Status, Error, Stage, Phase, Subtask, Slot
  <2>2. CoroutineInv'
        BY <1>16 DEF Inv, TypeOK, CoroutineInv, Active, Awaiting, NoSynthesis,
            Subtask, Slot
  <2>3. DependencyInv'
        BY <1>16 DEF Inv, TypeOK, CoroutineInv, DependencyInv, Active, Awaiting,
            Completed, NoSynthesis, Subtask, Slot
  <2>4. PresentInv'
        BY <1>16 DEF Inv, TypeOK, CoroutineInv, PresentInv,
            Active, Awaiting, Completed, NoSynthesis, Subtask, Slot
  <2>5. BlockedInv'
        BY <1>16 DEF Inv, TypeOK, CoroutineInv, BlockedInv, Active, Awaiting,
            NoSynthesis, Subtask, Slot
  <2>6. EventInv'
        BY <1>16 DEF Inv, TypeOK, CoroutineInv, EventInv, Active, Awaiting,
            Completed, NoSynthesis,
            Subtask, Slot
  <2>7. RowNeverAhead' /\ EndedSettled'
        BY <1>16 DEF Inv, TypeOK, CoroutineInv, PresentInv, RowNeverAhead,
            EndedSettled,
            Active, Awaiting, Completed, Terminal, NoSynthesis, Subtask, Slot
  <2>8. QED
        BY <2>1, <2>2, <2>3, <2>4, <2>5, <2>6, <2>7 DEF Inv
<1>17. ASSUME Finalize PROVE Inv'
  <2>1. TypeOK' /\ RoomInv'
        BY <1>17 DEF Inv, TypeOK, RoomInv, CoroutineInv, Awaiting, Finalize,
            Unverified,
            Status, Error, Stage, Phase, Subtask, Slot
  <2>2. CoroutineInv'
        BY <1>17 DEF Inv, TypeOK, CoroutineInv, Active, Awaiting, Finalize,
            Unverified, Subtask, Slot
  <2>3. DependencyInv'
    <3>1. \A t \in Subtask : Completed(t) <=> Completed(t)'
          BY <1>17 DEF Inv, TypeOK, Finalize, Unverified, Completed, Subtask, Slot
    <3>2. \A t \in Subtask : status'[t] # "RUNNING"
      <4>1. \A t \in Subtask : status[t] # "RUNNING"
            BY <1>17 DEF Inv, CoroutineInv, Active, Awaiting, Finalize
      <4>2. QED
            BY <1>17, <4>1 DEF Finalize, Subtask, Slot
    <3>3. QED
          BY <1>17, <3>1, <3>2, DependencyStep DEF Finalize, Active
  <2>4. PresentInv'
        BY <1>17 DEF Inv, TypeOK, CoroutineInv, PresentInv,
            Active, Awaiting, Completed, Finalize, Unverified, Subtask, Slot
  <2>5. BlockedInv'
    <3>1. \A t \in Subtask : status[t] = "FAILED" => status'[t] = "FAILED"
          BY <1>17 DEF Inv, TypeOK, CoroutineInv, Active, Awaiting, Finalize,
              Unverified, Subtask, Slot
    <3>2. \A t \in Subtask : error'[t] = "blocked" => error[t] = "blocked"
          BY <1>17 DEF Inv, TypeOK, Finalize, Unverified, Subtask, Slot
    <3>3. QED
          BY <1>17, <3>1, <3>2, BlockedStep DEF Finalize, Unverified
  <2>6. EventInv'
        BY <1>17 DEF Inv, TypeOK, CoroutineInv, EventInv, Active, Awaiting,
            Completed, Finalize, Unverified,
            Subtask, Slot
  <2>7. RowNeverAhead' /\ EndedSettled'
        BY <1>17 DEF Inv, TypeOK, CoroutineInv, PresentInv, RowNeverAhead,
            EndedSettled,
            Active, Awaiting, Completed, Terminal, Finalize, Unverified, Subtask,
            Slot
  <2>8. QED
        BY <2>1, <2>2, <2>3, <2>4, <2>5, <2>6, <2>7 DEF Inv
<1>18. ASSUME Reexecute PROVE Inv'
  <2>1. TypeOK' /\ RoomInv'
        BY <1>18 DEF Inv, TypeOK, RoomInv, CoroutineInv, Awaiting, Reexecute,
            Status, Error, Stage, Phase, Subtask, Slot
  <2>2. CoroutineInv'
        BY <1>18 DEF Inv, TypeOK, CoroutineInv, Active, Awaiting, Reexecute,
            Subtask, Slot
  <2>3. DependencyInv'
        BY <1>18 DEF Inv, TypeOK, CoroutineInv, DependencyInv, Active, Awaiting,
            Completed, Reexecute, Subtask, Slot
  <2>4. PresentInv'
        BY <1>18 DEF Inv, TypeOK, CoroutineInv, PresentInv,
            Active, Awaiting, Completed, Reexecute, Subtask, Slot
  <2>5. BlockedInv'
        BY <1>18 DEF Inv, TypeOK, CoroutineInv, BlockedInv, Active, Awaiting,
            Reexecute, Subtask, Slot
  <2>6. EventInv'
        BY <1>18 DEF Inv, TypeOK, CoroutineInv, EventInv, Active, Awaiting,
            Completed, Reexecute,
            Subtask, Slot
  <2>7. RowNeverAhead' /\ EndedSettled'
        BY <1>18 DEF Inv, TypeOK, CoroutineInv, PresentInv, RowNeverAhead,
            EndedSettled,
            Active, Awaiting, Completed, Terminal, Reexecute, Subtask, Slot
  <2>8. QED
        BY <2>1, <2>2, <2>3, <2>4, <2>5, <2>6, <2>7 DEF Inv
<1>19. CASE UNCHANGED vars
      BY <1>19 DEF vars, Inv, TypeOK, RoomInv, CoroutineInv, DependencyInv,
          PresentInv,
          BlockedInv, EventInv, RowNeverAhead, EndedSettled, Active, Completed,
          Terminal
<1> QED
    BY <1>1, <1>2, <1>3, <1>4, <1>5, <1>6, <1>7, <1>8, <1>9, <1>10, <1>11, <1>12,
        <1>13, <1>14, <1>15, <1>16, <1>17, <1>18, <1>19 DEF Next, GraphStep,
        CoroutineStep

(* The inductive invariant holds of every reachable state of every instance. *)
THEOREM InvCorrect == Spec => []Inv
<1>1. Init => Inv
      BY InitInv
<1>2. Inv /\ [Next]_vars => Inv'
      BY StepInv
<1>3. QED
      BY <1>1, <1>2, PTL DEF Spec

(* Every reachable state is well typed: no retry count passes MAX_RETRIES,  *)
(* no discussion is appended beyond one per execution.                      *)
THEOREM TypeCorrect == Spec => []TypeOK
<1>1. Inv => TypeOK
      BY DEF Inv
<1>2. QED
      BY <1>1, InvCorrect, PTL

(* Whatever the decomposition, a subtask runs and completes only over       *)
(* completed dependencies (get_ready_subtasks, _execute_batch).             *)
THEOREM DependenciesRespected == Spec => []DependencyOrder
<1>1. Inv => DependencyOrder
      BY DEF Inv, DependencyInv, DependencyOrder
<1>2. QED
      BY <1>1, InvCorrect, PTL

(* No subtask is left unsettled when _finalize starts, cycles included.     *)
THEOREM NothingLeftUnsettled == Spec => []EndedSettled
<1>1. Inv => EndedSettled
      BY DEF Inv
<1>2. QED
      BY <1>1, InvCorrect, PTL

(* _route_after_execution gives up only on subtasks with a failed           *)
(* dependency, never on one that waits for its retry.                       *)
THEOREM BlockedExplained == Spec => []BlockedHasFailedDependency
<1>1. Inv => BlockedHasFailedDependency
      BY DEF Inv, BlockedInv, BlockedHasFailedDependency
<1>2. QED
      BY <1>1, InvCorrect, PTL

(* A subtask whose attempts are used up is never selected or run again.     *)
THEOREM RetriesBounded == Spec => []RetryBudget
<1>1. Inv => RetryBudget
      BY DEF Inv, CoroutineInv, RetryBudget
<1>2. QED
      BY <1>1, InvCorrect, PTL

(* The last event never claims a completion that is taken back, and an      *)
(* ended execution has announced every outcome but the given-up ones.       *)
THEOREM ReadersNotMisled == Spec => []EventsTellOutcome
<1>1. Inv => EventsTellOutcome
  <2> SUFFICES ASSUME Inv PROVE EventsTellOutcome
      OBVIOUS
  <2>1. ASSUME NEW s \in Subtask, phase = "ended"
        PROVE  Terminal(s) /\ stage[s] = "idle"
    <3>1. s \in 1..len
          BY SizeAssumption DEF Inv, TypeOK, Subtask
    <3>2. QED
          BY <2>1, <3>1 DEF Inv, EndedSettled, CoroutineInv, Active
  <2>2. QED
        BY <2>1 DEF Inv, EventInv, EventsTellOutcome, Terminal, Awaiting
<1>2. QED
      BY <1>1, InvCorrect, PTL

(* A reader of the task's row never sees a completion that the code of an   *)
(* answer, run after SUCCESS was written in memory, takes back.             *)
THEOREM RowIsTrue == Spec => []RowNeverAhead
<1>1. Inv => RowNeverAhead
      BY DEF Inv
<1>2. QED
      BY <1>1, InvCorrect, PTL

(* The status of every slot that _finalize finds is an outcome.             *)
LEMMA FinalizeSettles ==
    ASSUME Inv, Finalize
    PROVE  status' \in [Slot -> {"ABSENT", "SUCCESS", "DEGRADED", "FAILED"}]
<1>1. \A s \in Slot : s \in 1..len \/ s > len
      BY SizeAssumption DEF Inv, TypeOK, Slot
<1>2. \A s \in Slot : status[s] \in {"ABSENT", "SUCCESS", "DEGRADED", "FAILED"}
      BY <1>1 DEF Inv, EndedSettled, PresentInv, Finalize, Terminal
<1>3. QED
      BY <1>2 DEF Finalize

(* Whatever the decomposition and whatever its models answer, the engine    *)
(* implements the TaskEngine port: every step of an execution is work       *)
(* between call and return, and the return leaves nothing unfinished.       *)
THEOREM EngineImplementsPort == Spec => ImplementsTaskEngine
<1> DEFINE Outcomes == {"ABSENT", "SUCCESS", "DEGRADED", "FAILED"}
           All == {"PENDING", "RUNNING"} \cup Outcomes
<1>1. Init => Contract!Start
      BY SizeAssumption DEF Init, Contract!Start, Contract!SubStatus, Subtask, Slot
<1>2. Inv /\ Inv' /\ [Next]_vars => [Contract!EngineNext]_(Contract!engineVars)
  <2> SUFFICES ASSUME Inv, Inv', [Next]_vars
               PROVE  [Contract!EngineNext]_(Contract!engineVars)
      OBVIOUS
  <2>1. status' \in [Slot -> All]
        BY DEF Inv, TypeOK, Status
  <2>2. CASE Finalize
    <3>1. phase # "ended" /\ phase' = "ended"
          BY <2>2 DEF Finalize
    <3>2. QED
          BY <2>2, <3>1, FinalizeSettles
          DEF Contract!EngineNext, Contract!Finish
  <2>3. CASE Reexecute
        BY <2>3 DEF Reexecute, Contract!EngineNext, Contract!Call
  <2>4. ASSUME phase # "ended", phase' # "ended"
        PROVE  Contract!EngineNext
        BY <2>1, <2>4 DEF Contract!EngineNext, Contract!Work, Contract!SubStatus
  <2>5. CASE Select \/ BatchDone \/ Continue \/ FailBlocked \/ Synthesise \/ NoSynthesis
        BY <2>4, <2>5 DEF Select, BatchDone, Continue, FailBlocked, Synthesise,
            NoSynthesis
  <2>6. ASSUME NEW s \in Subtask, CoroutineStep(s)
        PROVE  phase # "ended" /\ phase' # "ended"
    <3>1. phase = "batch"
      <4>1. phase = "batch" \/ stage[s] # "idle"
            BY <2>6 DEF CoroutineStep, Start, Launch, EngineAnswer, EngineDeclined,
                ReactAnswer, ReactUpgrade, NeedsUpgrade, LlmAnswer, CodeReturned,
                Raise, Raising, Return
      <4>2. QED
            BY <4>1 DEF Inv, CoroutineInv, Active
    <3>2. phase' = phase
          BY <2>6 DEF CoroutineStep, Start, Launch, EngineAnswer, EngineDeclined,
              ReactAnswer, ReactUpgrade, LlmAnswer, CodeReturned, Raise, Return
    <3>3. QED
          BY <3>1, <3>2
  <2>7. CASE UNCHANGED vars
        BY <2>7 DEF vars, Contract!engineVars
  <2>8. QED
        BY <2>2, <2>3, <2>4, <2>5, <2>6, <2>7 DEF Next, GraphStep
<1>3. QED
      BY <1>1, <1>2, InvCorrect, PTL DEF Spec, ImplementsTaskEngine,
          Contract!EngineSpec

-----------------------------------------------------------------------------
(* The subtasks whose answer is in cost_so_far: with an answer that was     *)
(* kept, and back from their coroutine.                                     *)
Counted ==
    {s \in 1..len : /\ Completed(s) \/ error[s] = "capped"
                    /\ s \in Subtask => stage[s] \notin {"code", "reported"}}

(* What a subtask's fields tell of each other.  An answer costs one unit    *)
(* and is only asked for over completed dependencies: a subtask that has    *)
(* one, kept or dropped, is never given up as blocked.                      *)
OutcomeInv ==
    /\ \A s \in Slot : error[s] # "none" <=> status[s] = "FAILED"
    /\ \A s \in Slot : Completed(s) \/ error[s] = "capped" => info[s].cost = 1
    /\ \A s \in Subtask : info[s].cost = 1 =>
            /\ error[s] # "blocked"
            /\ \A d \in plan.deps[s] : Completed(d) /\ d \notin Active
    /\ \A s \in Subtask : stage[s] = "reported" =>
            earned[s] = IF Completed(s) \/ error[s] = "capped" THEN 1 ELSE 0

(* At every moment of the first execution cost_so_far is what the subtasks  *)
(* counted so far cost.                                                     *)
CostInv == execution = 1 => costSoFar = Cardinality(Counted)

LEMMA CountedFinite == TypeOK => IsFiniteSet(Counted)
<1> SUFFICES ASSUME TypeOK PROVE IsFiniteSet(Counted)
    OBVIOUS
<1>1. len \in Int
      BY SizeAssumption DEF TypeOK
<1>2. IsFiniteSet(1..len)
      BY <1>1, FS_Interval
<1>3. Counted \in SUBSET (1..len)
      BY DEF Counted
<1>4. QED
      BY <1>2, <1>3, FS_Subset

LEMMA InitCost == Init => OutcomeInv /\ CostInv
<1> SUFFICES ASSUME Init PROVE OutcomeInv /\ CostInv
    OBVIOUS
<1>1. OutcomeInv
      BY SizeAssumption DEF Init, OutcomeInv, BlankInfo, Completed, Active, Subtask, Slot
<1>2. Counted = {}
      BY SizeAssumption DEF Init, Counted, Completed, Subtask, Slot
<1>3. QED
      BY <1>1, <1>2, FS_EmptySet DEF Init, CostInv

LEMMA OutcomeStep == Inv /\ OutcomeInv /\ [Next]_vars => OutcomeInv'
<1> SUFFICES ASSUME Inv, OutcomeInv, [Next]_vars PROVE OutcomeInv'
    OBVIOUS
<1> USE SizeAssumption
<1>0. /\ Subtask \subseteq Slot
      /\ \A s \in Subtask : plan.deps[s] \subseteq Subtask
      BY PlanType DEF Inv, TypeOK, Subtask, Slot
<1>1. ASSUME NEW s \in Subtask, Start(s) PROVE OutcomeInv'
      BY <1>0, <1>1 DEF Start, Inv, TypeOK, CoroutineInv, OutcomeInv, Active, Awaiting,
          Completed
<1>2. ASSUME NEW s \in Subtask, Launch(s) PROVE OutcomeInv'
      BY <1>0, <1>2 DEF Launch, LocalStage, Inv, TypeOK, Info, OutcomeInv, Active, Completed
(* An answer: the subtask runs, so its dependencies are complete.           *)
<1>3. ASSUME NEW s \in Subtask, EngineAnswer(s) \/ ReactAnswer(s)
      PROVE  OutcomeInv'
  <2>1. /\ status[s] = "RUNNING" /\ s \in Active
        /\ \A d \in plan.deps[s] : Completed(d) /\ d \notin Active
        BY <1>3 DEF EngineAnswer, ReactAnswer, Inv, CoroutineInv, DependencyInv, Awaiting
  <2>2. PICK st \in {"SUCCESS", "FAILED"} :
            /\ info'[s].cost = 1 /\ info' = [info EXCEPT ![s] = info'[s]]
            /\ error' = [error EXCEPT ![s] = IF st = "FAILED" THEN "capped" ELSE @]
            /\ Report(s, st, 1)
    <3>1. CASE EngineAnswer(s)
      <4>1. PICK m \in Model, by \in {"autonomous", "api"} :
                info' = [info EXCEPT ![s] = Filled(Answered(@, m, by, FALSE))]
            BY <3>1 DEF EngineAnswer
      <4>2. info'[s].cost = 1 /\ info' = [info EXCEPT ![s] = info'[s]]
            BY <1>0, <4>1 DEF Inv, TypeOK, Info, Filled, Answered
      <4>3. error' = [error EXCEPT ![s] = error[s]]
            BY <3>1 DEF EngineAnswer, Inv, TypeOK
      <4>4. QED
            BY <3>1, <4>2, <4>3 DEF EngineAnswer
    <3>2. CASE ReactAnswer(s)
      <4>1. PICK m \in Model, tools \in BOOLEAN, capped \in BOOLEAN :
                /\ info' = [info EXCEPT ![s] = Filled(Answered(@, m, "api", tools))]
                /\ error' = [error EXCEPT ![s] = IF capped THEN "capped" ELSE @]
                /\ Report(s, IF capped THEN "FAILED" ELSE "SUCCESS", 1)
            BY <3>2 DEF ReactAnswer
      <4>2. info'[s].cost = 1 /\ info' = [info EXCEPT ![s] = info'[s]]
            BY <1>0, <4>1 DEF Inv, TypeOK, Info, Filled, Answered
      <4>3. QED
            BY <4>1, <4>2
    <3>3. QED
          BY <1>3, <3>1, <3>2
  <2>3. UNCHANGED <<plan, phase, batch>>
        BY <1>3 DEF EngineAnswer, ReactAnswer
  <2>4. QED
        BY <1>0, <2>1, <2>2, <2>3 DEF Report, Inv, TypeOK, OutcomeInv, Active, Completed
<1>4. ASSUME NEW s \in Subtask, EngineDeclined(s) \/ ReactUpgrade(s)
      PROVE  OutcomeInv'
      BY <1>0, <1>4 DEF EngineDeclined, ReactUpgrade, LocalStage, Inv, TypeOK, OutcomeInv,
          Active, Completed
<1>5. ASSUME NEW s \in Subtask, LlmAnswer(s) PROVE OutcomeInv'
  <2>1. /\ status[s] = "RUNNING" /\ s \in Active
        /\ \A d \in plan.deps[s] : Completed(d) /\ d \notin Active
        BY <1>5 DEF LlmAnswer, Inv, CoroutineInv, DependencyInv, Awaiting
  <2>2. PICK m \in Model : info' = [info EXCEPT ![s] = Answered(@, m, "api", FALSE)]
        BY <1>5 DEF LlmAnswer
  <2>3. info' = [info EXCEPT ![s] = info'[s]] /\ info'[s].cost = 1
        BY <1>0, <2>2 DEF Inv, TypeOK, Info, Answered
  <2>4. /\ status' = [status EXCEPT ![s] = "SUCCESS"]
        /\ stage' = [stage EXCEPT ![s] = "code"]
        /\ UNCHANGED <<plan, error, phase, batch, earned>>
        BY <1>5 DEF LlmAnswer
  <2>5. QED
        BY <1>0, <2>1, <2>3, <2>4 DEF Inv, TypeOK, OutcomeInv, Active, Completed
<1>6. ASSUME NEW s \in Subtask, CodeReturned(s) PROVE OutcomeInv'
  <2>1. status[s] = "SUCCESS"
        BY <1>6 DEF CodeReturned, Inv, CoroutineInv
  <2>2. info' = [info EXCEPT ![s] = info'[s]] /\ info'[s].cost = info[s].cost
        BY <1>0, <1>6 DEF CodeReturned, Inv, TypeOK, Info, Filled
  <2>3. QED
        BY <1>0, <1>6, <2>1, <2>2 DEF CodeReturned, Report, Inv, TypeOK, OutcomeInv, Active,
            Completed
<1>7. ASSUME NEW s \in Subtask, Raise(s) PROVE OutcomeInv'
  <2>1. status[s] \in {"RUNNING", "SUCCESS"} /\ s \in Active
        BY <1>7 DEF Raise, Raising, Inv, CoroutineInv, Awaiting
  <2>2. QED
        BY <1>0, <1>7, <2>1 DEF Raise, Report, Inv, TypeOK, OutcomeInv, Active, Completed
<1>8. ASSUME NEW s \in Subtask, Return(s) PROVE OutcomeInv'
      BY <1>0, <1>8 DEF Return, Inv, TypeOK, OutcomeInv, Active, Completed
<1>9. CASE Select
      BY <1>0, <1>9 DEF Select, Ready, Inv, TypeOK, OutcomeInv, Active, Completed
<1>10. CASE BatchDone \/ Continue \/ NoSynthesis
      BY <1>0, <1>10 DEF BatchDone, Continue, NoSynthesis, Inv, TypeOK, OutcomeInv, Active,
          Completed
(* Who had an answer is ready, and so is not left when nothing is ready.    *)
<1>11. CASE FailBlocked
  <2>1. \A s \in Subtask : status[s] = "PENDING" => info[s].cost # 1
        BY <1>11 DEF FailBlocked, Ready, OutcomeInv
  <2>2. QED
        BY <1>0, <1>11, <2>1 DEF FailBlocked, Inv, TypeOK, OutcomeInv, Active, Completed
<1>12. CASE Synthesise
  <2>1. len + 1 \in Slot /\ len + 1 \notin Subtask /\ status[len + 1] = "ABSENT"
        BY <1>12 DEF Synthesise, Inv, TypeOK, RoomInv, PresentInv, Subtask, Slot
  <2>2. info' = [info EXCEPT ![len + 1] = info'[len + 1]] /\ info'[len + 1].cost = 1
    <3>1. PICK m \in Model, by \in {"none", "autonomous"} :
              info' = [info EXCEPT ![len + 1] = Answered(BlankInfo, m, by, FALSE)]
          BY <1>12 DEF Synthesise
    <3>2. QED
          BY <2>1, <3>1 DEF Inv, TypeOK, Answered, BlankInfo
  <2>3. QED
        BY <1>0, <1>12, <2>1, <2>2 DEF Synthesise, Inv, TypeOK, OutcomeInv, Active, Completed
<1>13. CASE Finalize
  <2>1. \A s \in Subtask : stage[s] = "idle"
        BY <1>13 DEF Finalize, Inv, CoroutineInv, Active
  <2>2. QED
        BY <1>0, <1>13, <2>1 DEF Finalize, Unverified, Inv, TypeOK, OutcomeInv, Active,
            Completed
<1>14. CASE Reexecute
      BY <1>0, <1>14 DEF Reexecute, Inv, TypeOK, OutcomeInv, Active, Completed
<1>15. CASE UNCHANGED vars
      BY <1>15 DEF vars, OutcomeInv, Active, Completed
<1>16. QED
      BY <1>1, <1>2, <1>3, <1>4, <1>5, <1>6, <1>7, <1>8, <1>9, <1>10, <1>11, <1>12,
          <1>13, <1>14, <1>15 DEF Next, GraphStep, CoroutineStep

(* The sum and the set change together: only a coroutine that returns with  *)
(* an answer and a discussion add to either.                                *)
LEMMA CostStep == Inv /\ OutcomeInv /\ CostInv /\ [Next]_vars => CostInv'
<1> SUFFICES ASSUME Inv, OutcomeInv, CostInv, [Next]_vars, execution' = 1 PROVE CostInv'
    BY DEF CostInv
<1> USE SizeAssumption
<1>0. /\ Subtask \subseteq Slot /\ 1..len \subseteq Slot
      /\ IsFiniteSet(Counted)
      BY CountedFinite DEF Inv, TypeOK, Subtask, Slot
<1>1. execution = 1
  <2>1. ~Reexecute
        BY DEF Reexecute, Inv, TypeOK
  <2>2. GraphStep => UNCHANGED execution
        BY DEF GraphStep, Select, BatchDone, Continue, FailBlocked, Synthesise, NoSynthesis,
           Finalize
  <2>3. ASSUME NEW s \in Subtask, CoroutineStep(s) PROVE UNCHANGED execution
        BY <2>3 DEF CoroutineStep, Start, Launch, EngineAnswer, EngineDeclined, ReactAnswer,
           ReactUpgrade, LlmAnswer, CodeReturned, Raise, Return
  <2>4. QED
        BY <2>1, <2>2, <2>3 DEF Next, vars
<1>2. ASSUME Counted' = Counted, costSoFar' = costSoFar PROVE CostInv'
      BY <1>1, <1>2 DEF CostInv
<1>3. ASSUME NEW x, x \notin Counted, Counted' = Counted \cup {x},
             costSoFar' = costSoFar + 1
      PROVE  CostInv'
      BY <1>0, <1>1, <1>3, FS_AddElement DEF CostInv
(* A coroutine that has not reported does not count, whatever it changes.   *)
<1>4. ASSUME NEW s \in Subtask,
             \/ Start(s) \/ Launch(s) \/ EngineAnswer(s) \/ EngineDeclined(s)
             \/ ReactAnswer(s) \/ ReactUpgrade(s) \/ LlmAnswer(s) \/ CodeReturned(s)
             \/ Raise(s)
      PROVE  CostInv'
  <2>1. UNCHANGED <<len, costSoFar>>
        BY <1>4 DEF Start, Launch, EngineAnswer, EngineDeclined, ReactAnswer, ReactUpgrade,
           LlmAnswer, CodeReturned, Raise
  <2>2. \A t \in Slot \ {s} : status'[t] = status[t] /\ error'[t] = error[t]
        BY <1>4 DEF Start, Launch, EngineAnswer, EngineDeclined, ReactAnswer, ReactUpgrade,
           LlmAnswer, CodeReturned, Raise, Report, Inv, TypeOK
  <2>3. \A t \in Subtask \ {s} : stage'[t] = stage[t]
        BY <1>4 DEF Start, Launch, EngineAnswer, EngineDeclined, ReactAnswer, ReactUpgrade,
           LlmAnswer, CodeReturned, Raise, Report, Inv, TypeOK
  <2>4. s \notin Counted
    <3>1. status[s] \in {"PENDING", "RUNNING"} \/ stage[s] = "code"
          BY <1>4 DEF Start, Launch, EngineAnswer, EngineDeclined, ReactAnswer, ReactUpgrade,
             NeedsUpgrade, LlmAnswer, CodeReturned, Raise, Raising, Inv, CoroutineInv,
             Active, Awaiting
    <3>2. QED
          BY <1>0, <3>1 DEF Counted, Completed, OutcomeInv
  <2>5. s \notin Counted'
    <3>1. CASE Start(s)
          BY <1>0, <3>1 DEF Start, Counted, Completed, Inv, TypeOK, CoroutineInv, Active,
             OutcomeInv
    <3>2. CASE Launch(s) \/ EngineDeclined(s) \/ ReactUpgrade(s)
          BY <1>0, <3>2 DEF Launch, EngineDeclined, ReactUpgrade, NeedsUpgrade, Counted,
             Completed, Inv, TypeOK, CoroutineInv, Awaiting, OutcomeInv
    <3>3. CASE EngineAnswer(s) \/ ReactAnswer(s) \/ LlmAnswer(s) \/ CodeReturned(s) \/ Raise(s)
      <4>1. stage'[s] \in {"code", "reported"}
            BY <3>3 DEF EngineAnswer, ReactAnswer, LlmAnswer, CodeReturned, Raise, Report,
               Inv, TypeOK
      <4>2. QED
            BY <4>1 DEF Counted
    <3>4. QED
          BY <1>4, <3>1, <3>2, <3>3
  <2>6. Counted' = Counted
        BY <1>0, <2>1, <2>2, <2>3, <2>4, <2>5 DEF Counted, Completed
  <2>7. QED
        BY <1>2, <2>1, <2>6
<1>5. ASSUME NEW s \in Subtask, Return(s) PROVE CostInv'
  <2>1. s \notin Counted /\ s \in 1..len
        BY <1>5 DEF Return, Counted, Inv, TypeOK, Subtask
  <2>2. Counted' = IF Completed(s) \/ error[s] = "capped"
                   THEN Counted \cup {s} ELSE Counted
        BY <1>5, <2>1 DEF Return, Counted, Completed, Inv, TypeOK
  <2>3. earned[s] = IF Completed(s) \/ error[s] = "capped" THEN 1 ELSE 0
        BY <1>5 DEF Return, OutcomeInv
  <2>4. costSoFar \in Nat /\ costSoFar' = costSoFar + earned[s]
        BY <1>5 DEF Return, Inv, TypeOK
  <2>5. CASE Completed(s) \/ error[s] = "capped"
        BY <1>3, <2>1, <2>2, <2>3, <2>4, <2>5
  <2>6. CASE ~(Completed(s) \/ error[s] = "capped")
        BY <1>2, <2>2, <2>3, <2>4, <2>6
  <2>7. QED
        BY <2>5, <2>6
<1>6. CASE Select \/ Continue \/ NoSynthesis \/ Reexecute
      BY <1>1, <1>2, <1>6 DEF Select, Continue, NoSynthesis, Reexecute, Counted, Completed,
         Inv, TypeOK
<1>7. CASE BatchDone
  <2>1. \A s \in Subtask : stage[s] \in {"idle", "returned"}
        BY <1>7 DEF BatchDone, Inv, CoroutineInv, Active
  <2>2. Counted' = Counted
        BY <1>7, <2>1 DEF BatchDone, Counted, Completed
  <2>3. QED
        BY <1>2, <1>7, <2>2 DEF BatchDone
<1>8. CASE FailBlocked
      BY <1>0, <1>2, <1>8 DEF FailBlocked, Counted, Completed, Inv, TypeOK, OutcomeInv
<1>9. CASE Synthesise
  <2>1. len + 1 \in Slot /\ len + 1 \notin Subtask /\ len + 1 \notin 1..len
        BY <1>9 DEF Synthesise, Inv, TypeOK, RoomInv, Subtask, Slot
  <2>2. 1..len' = 1..len \cup {len + 1}
        BY <1>9 DEF Synthesise, Inv, TypeOK
  <2>3. /\ status' = [status EXCEPT ![len + 1] = "SUCCESS"]
        /\ UNCHANGED <<error, stage>> /\ costSoFar' = costSoFar + 1
        BY <1>9 DEF Synthesise
  <2>4. len + 1 \notin Counted /\ Counted' = Counted \cup {len + 1}
        BY <1>0, <2>1, <2>2, <2>3 DEF Counted, Completed, Inv, TypeOK
  <2>5. QED
        BY <1>3, <2>3, <2>4
<1>10. CASE Finalize
  <2>1. Counted' = Counted
        BY <1>0, <1>10 DEF Finalize, Unverified, Counted, Completed, Inv, TypeOK
  <2>2. QED
        BY <1>2, <1>10, <2>1 DEF Finalize
<1>11. CASE UNCHANGED vars
      BY <1>2, <1>11 DEF vars, Counted, Completed
<1>12. QED
      BY <1>4, <1>5, <1>6, <1>7, <1>8, <1>9, <1>10, <1>11 DEF Next, GraphStep, CoroutineStep

(* What execute() adds up is what the subtasks of the task cost, for every  *)
(* graph and whatever is retried: nothing is counted twice or forgotten but *)
(* the answer of a subtask that died in an exception.                       *)
THEOREM CostsAddUp == Spec => []CostAccounting
<1>1. Spec => [](OutcomeInv /\ CostInv)
  <2>1. Init => OutcomeInv /\ CostInv
        BY InitCost
  <2>2. Inv /\ OutcomeInv /\ CostInv /\ [Next]_vars => (OutcomeInv /\ CostInv)'
        BY OutcomeStep, CostStep
  <2>3. QED
        BY <2>1, <2>2, InvCorrect, PTL DEF Spec
<1>2. Inv /\ OutcomeInv /\ CostInv => CostAccounting
  <2> SUFFICES ASSUME Inv, OutcomeInv, CostInv, phase = "ended", execution = 1
               PROVE  Counted = {s \in {t \in 1..len : error[t] # "exception"} :
                                    info[s].cost = 1}
      BY DEF CostInv, CostAccounting, RowCost
  <2>1. \A s \in 1..len : /\ s \in Slot /\ Terminal(s)
                          /\ s \notin Subtask => Completed(s)
        BY SizeAssumption DEF Inv, TypeOK, PresentInv, EndedSettled, Slot, Subtask
  <2>2. \A s \in Subtask : stage[s] = "idle"
        BY DEF Inv, CoroutineInv, Active
  <2>3. \A s \in Slot : error[s] \in {"none", "blocked", "exception", "capped"}
        BY DEF Inv, TypeOK, Error
  <2>4. QED
        BY <2>1, <2>2, <2>3 DEF Counted, OutcomeInv, Completed, Terminal
<1>3. QED
      BY <1>1, <1>2, InvCorrect, PTL
=============================================================================
