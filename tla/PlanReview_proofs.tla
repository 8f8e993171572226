------------------------- MODULE PlanReview_proofs --------------------------
(***************************************************************************)
(* Theorems about PlanReview, for every set of requests, every workload and *)
(* decomposition and every number of retries and crashes.                   *)
(*                                                                          *)
(* What a request has read and what an execution holds in memory may be     *)
(* older than the rows.  ReaderInv and WorkInv bound how much older: a plan *)
(* that somebody has read to decide is there to stay until it is deleted    *)
(* with its task, and whatever a row shows as done is done in memory too.   *)
(***************************************************************************)
EXTENDS PlanReview, TLAPS

(* A request makes its plan, then decides on plans that are made.           *)
ReaderInv ==
    /\ \A r \in Request : at[r] = "idle" => plan[r].status = "absent"
    /\ \A r \in Request : at[r] \in {"decided", "saved"} =>
            target[r] \in Request /\ at[target[r]] # "idle"

(* An execution starts behind the answer to its request; until then its     *)
(* task is as it was made.                                                  *)
JobInv ==
    \A t \in Request :
        /\ at[t] \in InFlight \cup {"idle"} => job[t] = "none"
        /\ job[t] = "none" =>
              \A s \in DOMAIN task[t].sub : task[t].sub[s] = "PENDING"

(* Memory is never behind the row, and what runs is running in memory.      *)
WorkInv ==
    \A t \in Request :
        /\ job[t] \in {"fetched", "running", "saving"} =>
              /\ mem[t].status # "absent"
              /\ \A s \in DOMAIN task[t].sub : task[t].sub[s] = "SUCCESS" =>
                    s \in DOMAIN mem[t].sub /\ mem[t].sub[s] = "SUCCESS"
        /\ live[t] # {} => job[t] = "running"
        /\ \A s \in live[t] : s \in DOMAIN mem[t].sub /\ mem[t].sub[s] = "RUNNING"

Inv == TypeOK /\ ReaderInv /\ PlanHasItsTask /\ JobInv /\ WorkInv

StepStatus == {"PENDING", "RUNNING", "SUCCESS", "FAILED"}

-----------------------------------------------------------------------------
(* Rows of tasks.                                                           *)
LEMMA AbsentType == Absent \in Task /\ DOMAIN Absent.sub = {} /\ Absent.status = "absent"
<1>1. <<>> \in [{} -> StepStatus] /\ DOMAIN <<>> = {}
      OBVIOUS
<1>2. QED
      BY <1>1 DEF Absent, Task, StepStatus

LEMMA FreshType ==
    ASSUME NEW t \in Request, kind[t] = "approve" => target[t] \in Request
    PROVE  /\ Fresh(t) \in Task /\ Fresh(t).status = "PENDING"
           /\ \A s \in DOMAIN Fresh(t).sub : Fresh(t).sub[s] = "PENDING"
BY DEF Fresh, Task

LEMMA StatusStep ==
    ASSUME NEW m \in Task, NEW st \in {"RUNNING"} \cup Final
    PROVE  LET n == [m EXCEPT !.status = st] IN
              n \in Task /\ n.status = st /\ n.sub = m.sub
BY DEF Task

LEMMA SubStep ==
    ASSUME NEW m \in Task, NEW s \in DOMAIN m.sub, NEW st \in StepStatus,
           NEW n, n = [m EXCEPT !.sub[s] = st]
    PROVE  /\ n \in Task /\ n.status = m.status /\ DOMAIN n.sub = DOMAIN m.sub
           /\ n.sub[s] = st /\ \A u \in DOMAIN m.sub \ {s} : n.sub[u] = m.sub[u]
<1>1. PICK D \in {{}} \cup {Steps[r] : r \in Request} : m.sub \in [D -> StepStatus]
      BY DEF Task, StepStatus
<1>2. m = [status |-> m.status, sub |-> m.sub]
      BY DEF Task
<1>3. n = [status |-> m.status, sub |-> [m.sub EXCEPT ![s] = st]]
      BY <1>2
<1>4. [m.sub EXCEPT ![s] = st] \in [D -> StepStatus]
      BY <1>1
<1>5. n \in Task
      BY <1>3, <1>4 DEF Task, StepStatus
<1>6. QED
      BY <1>1, <1>3, <1>5

LEMMA VerdictType == \A subs : Verdict(subs) \in Final
BY DEF Verdict, Final

(* The steps of a row are steps some request's goal is decomposed into.     *)
LEMMA TaskSteps ==
    ASSUME NEW m \in Task
    PROVE  DOMAIN m.sub \subseteq UNION {Steps[r] : r \in Request}
BY DEF Task

-----------------------------------------------------------------------------
LEMMA InitInv == Init => Inv
<1> SUFFICES ASSUME Init PROVE Inv
    OBVIOUS
<1>1. TypeOK
      BY ReviewAssumption, AbsentType DEF Init, TypeOK, NoPlan, InFlight
<1>2. ReaderInv /\ PlanHasItsTask
      BY ReviewAssumption DEF Init, ReaderInv, PlanHasItsTask, NoPlan
<1>3. JobInv /\ WorkInv
      BY AbsentType DEF Init, JobInv, WorkInv
<1>4. QED
      BY <1>1, <1>2, <1>3 DEF Inv

(* The handlers: they make rows, and change none that is being executed.    *)
LEMMA HandleStep ==
    ASSUME Inv, NEW r \in Request, Handle(r)
    PROVE  Inv'
<1> USE ReviewAssumption
<1>1. CASE Propose(r)
  <2>1. TypeOK'
        BY <1>1 DEF Propose, Goto, jobVars, Inv, TypeOK, InFlight
  <2>2. QED
        BY <1>1, <2>1 DEF Propose, Goto, jobVars, Inv, TypeOK, ReaderInv, PlanHasItsTask,
           Exists, JobInv, WorkInv, InFlight
<1>2. CASE Read(r)
  <2>1. PICK p \in Request :
            /\ target' = [target EXCEPT ![r] = p]
            /\ at' = [at EXCEPT ![r] = IF plan[p].status = "proposed"
                                       THEN "decided" ELSE "refused"]
            /\ at[r] \in {"idle", "created"}
        BY <1>2 DEF Read, Asks, Goto
  <2>2. UNCHANGED <<kind, celery, plan, task, jobVars, crashes>>
        BY <1>2 DEF Read
  <2>3. TypeOK'
        BY <2>1, <2>2 DEF jobVars, Inv, TypeOK, InFlight
  <2>4. QED
        BY <2>1, <2>2, <2>3 DEF jobVars, Inv, TypeOK, ReaderInv, PlanHasItsTask, Exists,
           JobInv, WorkInv, InFlight
<1>3. CASE SaveTask(r)
  <2>1. /\ kind[r] = "approve" => target[r] \in Request
        /\ at[r] \in {"decided", "idle"} /\ job[r] = "none"
        BY <1>3 DEF SaveTask, Inv, ReaderInv, JobInv, InFlight
  <2>2. /\ Fresh(r) \in Task /\ Fresh(r).status = "PENDING"
        /\ \A s \in DOMAIN Fresh(r).sub : Fresh(r).sub[s] = "PENDING"
        BY <2>1, FreshType
  <2>3. /\ task' = [task EXCEPT ![r] = Fresh(r)]
        /\ at' = [at EXCEPT ![r] = at'[r]] /\ at'[r] \in {"marked", "saved"}
        /\ at'[r] = "saved" => at[r] = "decided"
        /\ UNCHANGED <<kind, celery, target, plan, job, live, mem, retries, crashes>>
        BY <1>3 DEF SaveTask, Goto, jobVars, Inv, TypeOK
  <2>4. TypeOK'
        BY <2>2, <2>3 DEF Inv, TypeOK, InFlight
  <2>5. ReaderInv' /\ PlanHasItsTask'
        BY <2>1, <2>2, <2>3 DEF Inv, TypeOK, ReaderInv, PlanHasItsTask, Exists
  <2>6. JobInv' /\ WorkInv'
        BY <2>1, <2>2, <2>3 DEF Inv, TypeOK, JobInv, WorkInv, InFlight
  <2>7. QED
        BY <2>4, <2>5, <2>6 DEF Inv
<1>4. CASE MarkApproved(r)
  <2>1. target[r] \in Request /\ at[target[r]] # "idle"
        BY <1>4 DEF MarkApproved, Inv, ReaderInv
  <2>2. TypeOK'
    <3>1. [status |-> "approved", task |-> r] \in
              [status : {"absent", "proposed", "approved", "rejected"},
               task : Request \cup {NoRequest}]
          OBVIOUS
    <3>2. UNCHANGED <<kind, celery, target, task, job, live, mem, retries, crashes>>
          BY <1>4 DEF MarkApproved, jobVars
    <3>3. CASE Exists(r)
      <4>1. /\ plan' = [plan EXCEPT ![target[r]] = [status |-> "approved", task |-> r]]
            /\ at' = [at EXCEPT ![r] = "marked"]
            BY <1>4, <3>3 DEF MarkApproved, Goto
      <4>2. QED
            BY <2>1, <3>1, <3>2, <4>1 DEF Inv, TypeOK, InFlight
    <3>4. CASE ~Exists(r)
          BY <1>4, <3>2, <3>4 DEF MarkApproved, Goto, Inv, TypeOK, InFlight
    <3>5. QED
          BY <3>3, <3>4
  <2>3. ReaderInv' /\ PlanHasItsTask'
        BY <1>4, <2>1 DEF MarkApproved, Goto, jobVars, Inv, TypeOK, ReaderInv,
           PlanHasItsTask, Exists
  <2>4. JobInv' /\ WorkInv'
        BY <1>4 DEF MarkApproved, Goto, jobVars, Inv, TypeOK, JobInv, WorkInv, InFlight
  <2>5. QED
        BY <2>2, <2>3, <2>4 DEF Inv
<1>5. CASE Reject(r)
  <2>1. target[r] \in Request /\ at[target[r]] # "idle"
        BY <1>5 DEF Reject, Inv, ReaderInv
  <2>2. /\ plan' = [plan EXCEPT ![target[r]] = plan'[target[r]]]
        /\ plan'[target[r]] = [status |-> "rejected", task |-> plan[target[r]].task]
        BY <1>5, <2>1 DEF Reject, Inv, TypeOK
  <2>3. TypeOK'
        BY <1>5, <2>1, <2>2 DEF Reject, Goto, jobVars, Inv, TypeOK, InFlight
  <2>4. ReaderInv' /\ PlanHasItsTask'
        BY <1>5, <2>1, <2>2 DEF Reject, Goto, jobVars, Inv, TypeOK, ReaderInv,
           PlanHasItsTask, Exists
  <2>5. JobInv' /\ WorkInv'
        BY <1>5 DEF Reject, Goto, jobVars, Inv, TypeOK, JobInv, WorkInv, InFlight
  <2>6. QED
        BY <2>3, <2>4, <2>5 DEF Inv
<1>6. CASE Dispatch(r)
      BY <1>6 DEF Dispatch, Goto, Inv, TypeOK, ReaderInv, PlanHasItsTask, Exists, JobInv,
         WorkInv, InFlight
<1>7. CASE Delete(r)
  <2>1. PICK t \in Request :
            /\ task' = [task EXCEPT ![t] = Absent]
            /\ plan' = [p \in Request |-> IF plan[p].task = t THEN NoPlan ELSE plan[p]]
        BY <1>7 DEF Delete
  <2>2. /\ at' = [at EXCEPT ![r] = "ok"] /\ at[r] = "idle"
        /\ UNCHANGED <<kind, celery, target, job, live, mem, retries, crashes>>
        BY <1>7 DEF Delete, Goto, jobVars
  <2>3. TypeOK'
        BY <2>1, <2>2, AbsentType DEF Inv, TypeOK, NoPlan
  <2>4. ReaderInv' /\ PlanHasItsTask'
        BY <2>1, <2>2 DEF Inv, TypeOK, ReaderInv, PlanHasItsTask, Exists, NoPlan
  <2>5. JobInv' /\ WorkInv'
        BY <2>1, <2>2, AbsentType DEF Inv, TypeOK, JobInv, WorkInv, InFlight
  <2>6. QED
        BY <2>3, <2>4, <2>5 DEF Inv
<1>8. QED
      BY <1>1, <1>2, <1>3, <1>4, <1>5, <1>6, <1>7 DEF Handle

(* The write of a row by an execution: the row is then what is in memory.   *)
LEMMA StoreStep ==
    ASSUME Inv, NEW t \in Request, NEW row \in Task, row.status # "absent",
           Store(t, row), UNCHANGED <<kind, celery, at, target, plan, retries, crashes>>,
           job[t] \in {"fetched", "running", "saving"},
           job' = [job EXCEPT ![t] = job'[t]],
           job'[t] \in {"running", "saved"},
           live' = [live EXCEPT ![t] = live'[t]],
           live'[t] # {} => job'[t] = "running",
           \A s \in live'[t] : s \in DOMAIN row.sub /\ row.sub[s] = "RUNNING"
    PROVE  Inv'
<1>1. mem' = [mem EXCEPT ![t] = row] /\ task' = [task EXCEPT ![t] = row]
      BY DEF Store
<1>2. live'[t] \in SUBSET UNION {Steps[r] : r \in Request}
      BY TaskSteps
<1>3. TypeOK'
      BY <1>1, <1>2 DEF Inv, TypeOK, Working
<1>4. ReaderInv' /\ PlanHasItsTask'
      BY <1>1 DEF Inv, TypeOK, ReaderInv, PlanHasItsTask, Exists
<1>5. JobInv' /\ WorkInv'
      BY <1>1 DEF Inv, TypeOK, JobInv, WorkInv
<1>6. QED
      BY <1>3, <1>4, <1>5 DEF Inv

(* A step that leaves rows and memory alone and stops what it takes away.   *)
LEMMA JobOnlyStep ==
    ASSUME Inv, TypeOK', UNCHANGED <<target, plan, task, mem>>,
           \A r \in Request : at'[r] = at[r] \/ at'[r] = "gone",
           \A r \in Request : at'[r] # at[r] => at[r] # "idle",
           \A t \in Request :
                \/ job'[t] = job[t] /\ live'[t] = live[t]
                \/ /\ job[t] # "none" /\ job'[t] \notin {"none", "fetched", "running", "saving"}
                   /\ live'[t] = {}
    PROVE  Inv'
<1>1. ReaderInv' /\ PlanHasItsTask'
      BY DEF Inv, ReaderInv, PlanHasItsTask, Exists
<1>2. JobInv'
      BY DEF Inv, JobInv, InFlight
<1>3. WorkInv'
      BY DEF Inv, WorkInv
<1>4. QED
      BY <1>1, <1>2, <1>3 DEF Inv

(* What an execution that raised becomes.                                   *)
LEMMA RaisedStep ==
    ASSUME Inv, NEW t \in Request, Raised(t), job[t] # "none",
           UNCHANGED <<kind, celery, webVars, task, mem, crashes>>
    PROVE  Inv'
<1>1. TypeOK'
      BY ReviewAssumption DEF Raised, Inv, TypeOK, webVars, Working
<1>2. QED
      BY <1>1, JobOnlyStep DEF Raised, Inv, TypeOK, webVars

LEMMA JobStepInv ==
    ASSUME Inv, NEW t \in Request, JobStep(t) \/ Break(t)
    PROVE  Inv'
<1>0. mem[t] \in Task /\ task[t] \in Task
      BY DEF Inv, TypeOK
<1>1. CASE Fetch(t)
  <2>1. CASE Exists(t)
    <3>1. /\ job' = [job EXCEPT ![t] = "fetched"] /\ job[t] = "queued"
          /\ mem' = [mem EXCEPT ![t] = task[t]]
          /\ UNCHANGED <<kind, celery, at, target, plan, task, live, retries, crashes>>
          BY <1>1, <2>1 DEF Fetch, webVars
    <3>2. TypeOK'
          BY <1>0, <3>1 DEF Inv, TypeOK, Working
    <3>3. ReaderInv' /\ PlanHasItsTask'
          BY <3>1 DEF Inv, TypeOK, ReaderInv, PlanHasItsTask, Exists
    <3>4. JobInv' /\ WorkInv'
          BY <2>1, <3>1 DEF Inv, TypeOK, JobInv, WorkInv, Exists
    <3>5. QED
          BY <3>2, <3>3, <3>4 DEF Inv
  <2>2. CASE ~Exists(t)
        BY <1>1, <2>2, RaisedStep DEF Fetch
  <2>3. QED
        BY <2>1, <2>2
<1>2. CASE Begin(t)
  <2>1. live[t] = {}
        BY <1>2 DEF Begin, Inv, WorkInv
  <2>2. [mem[t] EXCEPT !.status = "RUNNING"] \in Task
        /\ [mem[t] EXCEPT !.status = "RUNNING"].status = "RUNNING"
        BY <1>0, StatusStep
  <2>3. QED
        BY <1>2, <2>1, <2>2, StoreStep DEF Begin, webVars, Inv, TypeOK
<1>3. CASE StartStep(t)
  <2>1. PICK s \in DOMAIN mem[t].sub :
            /\ mem[t].sub[s] = "PENDING"
            /\ live' = [live EXCEPT ![t] = @ \cup {s}]
            /\ Store(t, [mem[t] EXCEPT !.sub[s] = "RUNNING"])
        BY <1>3 DEF StartStep
  <2>2. PICK row : row = [mem[t] EXCEPT !.sub[s] = "RUNNING"] /\ Store(t, row)
        BY <2>1, Zenon
  <2>3. "RUNNING" \in StepStatus
        BY DEF StepStatus
  <2>4. /\ row \in Task /\ row.status = mem[t].status
         /\ DOMAIN row.sub = DOMAIN mem[t].sub /\ row.sub[s] = "RUNNING"
         /\ \A u \in DOMAIN mem[t].sub \ {s} : row.sub[u] = mem[t].sub[u]
        BY <1>0, <2>2, <2>3, SubStep
  <2>5. \A u \in live[t] : u \in DOMAIN mem[t].sub /\ mem[t].sub[u] = "RUNNING"
        BY DEF Inv, WorkInv
  <2>6. /\ job[t] = "running" /\ mem[t].status # "absent"
        /\ UNCHANGED <<kind, celery, at, target, plan, job, retries, crashes>>
        BY <1>3 DEF StartStep, webVars, Inv, WorkInv
  <2>7. /\ job' = [job EXCEPT ![t] = job'[t]] /\ job'[t] = "running"
        /\ live' = [live EXCEPT ![t] = live'[t]] /\ live'[t] = live[t] \cup {s}
        BY <2>1, <2>6 DEF Inv, TypeOK
  <2>8. \A u \in live'[t] : u \in DOMAIN row.sub /\ row.sub[u] = "RUNNING"
        BY <2>4, <2>5, <2>7
  <2>9. QED
        BY <2>2, <2>4, <2>6, <2>7, <2>8, StoreStep
<1>4. CASE EndStep(t)
  <2>1. PICK s \in live[t], st \in {"SUCCESS", "FAILED"} :
            /\ live' = [live EXCEPT ![t] = @ \ {s}]
            /\ Store(t, [mem[t] EXCEPT !.sub[s] = st])
        BY <1>4 DEF EndStep
  <2>2. \A u \in live[t] : u \in DOMAIN mem[t].sub /\ mem[t].sub[u] = "RUNNING"
        BY DEF Inv, WorkInv
  <2>3. PICK row : row = [mem[t] EXCEPT !.sub[s] = st] /\ Store(t, row)
        BY <2>1, Zenon
  <2>4. s \in DOMAIN mem[t].sub /\ st \in StepStatus
        BY <2>2 DEF StepStatus
  <2>5. /\ row \in Task /\ row.status = mem[t].status
         /\ DOMAIN row.sub = DOMAIN mem[t].sub /\ row.sub[s] = st
         /\ \A u \in DOMAIN mem[t].sub \ {s} : row.sub[u] = mem[t].sub[u]
        BY <1>0, <2>4, <2>3, SubStep
  <2>6. /\ job[t] = "running" /\ mem[t].status # "absent"
        /\ UNCHANGED <<kind, celery, at, target, plan, job, retries, crashes>>
        BY <1>4 DEF EndStep, webVars, Inv, WorkInv
  <2>7. /\ job' = [job EXCEPT ![t] = job'[t]] /\ job'[t] = "running"
        /\ live' = [live EXCEPT ![t] = live'[t]] /\ live'[t] = live[t] \ {s}
        BY <2>1, <2>6 DEF Inv, TypeOK
  <2>8. \A u \in live'[t] : u \in DOMAIN row.sub /\ row.sub[u] = "RUNNING"
        BY <2>2, <2>5, <2>7
  <2>9. QED
        BY <2>3, <2>5, <2>6, <2>7, <2>8, StoreStep
<1>5. CASE Judge(t)
  <2>1. LET m == [mem[t] EXCEPT !.status = Verdict(mem[t].sub)] IN
            m \in Task /\ m.status \in Final /\ m.sub = mem[t].sub
        BY <1>0, VerdictType, StatusStep
  <2>2. /\ mem' = [mem EXCEPT ![t] = mem'[t]]
        /\ mem'[t] \in Task /\ mem'[t].status # "absent" /\ mem'[t].sub = mem[t].sub
        BY <1>5, <2>1 DEF Judge, Inv, TypeOK, Final
  <2>3. /\ job' = [job EXCEPT ![t] = "saving"] /\ job[t] = "running" /\ live[t] = {}
        /\ UNCHANGED <<kind, celery, at, target, plan, task, live, retries, crashes>>
        BY <1>5 DEF Judge, webVars
  <2>4. TypeOK'
        BY <2>2, <2>3 DEF Inv, TypeOK, Working
  <2>5. ReaderInv' /\ PlanHasItsTask'
        BY <2>3 DEF Inv, TypeOK, ReaderInv, PlanHasItsTask, Exists
  <2>6. JobInv' /\ WorkInv'
        BY <2>2, <2>3 DEF Inv, TypeOK, JobInv, WorkInv
  <2>7. QED
        BY <2>4, <2>5, <2>6 DEF Inv
<1>6. CASE Save(t)
  <2>1. live[t] = {} /\ mem[t].status # "absent"
        BY <1>6 DEF Save, Inv, WorkInv
  <2>2. QED
        BY <1>0, <1>6, <2>1, StoreStep DEF Save, webVars, Inv, TypeOK
<1>7. CASE Acknowledge(t)
  <2>1. live[t] = {}
        BY <1>7 DEF Acknowledge, Inv, WorkInv
  <2>2. TypeOK'
        BY <1>7 DEF Acknowledge, webVars, Inv, TypeOK
  <2>3. QED
        BY <1>7, <2>1, <2>2, JobOnlyStep DEF Acknowledge, webVars, Inv, TypeOK
<1>8. CASE Break(t)
      BY <1>8, RaisedStep DEF Break, Working
<1>9. QED
      BY <1>1, <1>2, <1>3, <1>4, <1>5, <1>6, <1>7, <1>8 DEF JobStep

(* Crashes.                                                                 *)
LEMMA CrashStep ==
    ASSUME Inv, ApiCrash \/ \E t \in Request : WorkerCrash(t) \/ PoolProcessDies(t)
    PROVE  Inv'
<1> USE ReviewAssumption
<1>1. CASE ApiCrash
  <2>1. TypeOK'
        BY <1>1 DEF ApiCrash, Inv, TypeOK, InFlight
  <2>2. QED
        BY <1>1, <2>1, JobOnlyStep DEF ApiCrash, Inv, TypeOK, InFlight, Working
<1>2. ASSUME NEW t \in Request, NEW becomes \in {"queued", "lost"}, Cut(t, becomes)
      PROVE  Inv'
  <2>1. TypeOK'
        BY <1>2 DEF Cut, webVars, Inv, TypeOK
  <2>2. QED
        BY <1>2, <2>1, JobOnlyStep DEF Cut, webVars, Inv, TypeOK, Working
<1>3. QED
      BY <1>1, <1>2 DEF WorkerCrash, PoolProcessDies

LEMMA StepInv == Inv /\ [Next]_vars => Inv'
<1> SUFFICES ASSUME Inv, [Next]_vars PROVE Inv'
    OBVIOUS
<1>1. CASE UNCHANGED vars
      BY <1>1 DEF vars, webVars, jobVars, Inv, TypeOK, ReaderInv, PlanHasItsTask, Exists,
         JobInv, WorkInv
<1>2. QED
      BY <1>1, HandleStep, JobStepInv, CrashStep DEF Next

THEOREM InvCorrect == Spec => []Inv
<1>1. QED
      BY InitInv, StepInv, PTL DEF Spec

(* Every reachable state is well typed; no message is retried more often    *)
(* than max_retries.                                                        *)
THEOREM TypeCorrect == Spec => []TypeOK
<1>1. Inv => TypeOK
      BY DEF Inv
<1>2. QED
      BY <1>1, InvCorrect, PTL

(* Whatever is deleted and brought back in between, the rows of plans refer *)
(* to tasks that are there.                                                 *)
THEOREM PlansHaveTheirTasks == Spec => []PlanHasItsTask
<1>1. Inv => PlanHasItsTask
      BY DEF Inv
<1>2. QED
      BY <1>1, InvCorrect, PTL

-----------------------------------------------------------------------------
(* A step keeps what a row shows as done, or takes the whole row away.      *)
LEMMA RowStep ==
    ASSUME Inv, Next, NEW t \in Request,
           NEW s \in DOMAIN task[t].sub, task[t].sub[s] = "SUCCESS"
    PROVE  \/ s \in DOMAIN task'[t].sub /\ task'[t].sub[s] = "SUCCESS"
           \/ task'[t].status = "absent" /\ live'[t] = live[t]
<1>0. job[t] # "none"
      BY DEF Inv, JobInv
<1>1. ASSUME NEW r \in Request, SaveTask(r) PROVE task'[t] = task[t]
      BY <1>0, <1>1 DEF SaveTask, Inv, TypeOK, JobInv, InFlight
<1>2. ASSUME NEW r \in Request, Delete(r)
      PROVE  live'[t] = live[t] /\ (task'[t] = task[t] \/ task'[t].status = "absent")
      BY <1>2, AbsentType DEF Delete, jobVars, Inv, TypeOK
<1>3. ASSUME NEW r \in Request,
             Propose(r) \/ Read(r) \/ MarkApproved(r) \/ Reject(r) \/ Dispatch(r)
      PROVE  task'[t] = task[t]
      BY <1>3 DEF Propose, Read, MarkApproved, Reject, Dispatch
(* Only the execution of t writes the row of t.                             *)
<1>4. ASSUME NEW r \in Request, NEW row, Store(r, row),
             r = t => s \in DOMAIN row.sub /\ row.sub[s] = "SUCCESS"
      PROVE  s \in DOMAIN task'[t].sub /\ task'[t].sub[s] = "SUCCESS"
      BY <1>4 DEF Store, Inv, TypeOK
<1>5. ASSUME NEW r \in Request, Begin(r) \/ Save(r)
      PROVE  s \in DOMAIN task'[t].sub /\ task'[t].sub[s] = "SUCCESS"
  <2>1. r = t => s \in DOMAIN mem[t].sub /\ mem[t].sub[s] = "SUCCESS"
        BY <1>5 DEF Begin, Save, Inv, WorkInv
  <2>2. CASE Begin(r)
    <3>1. mem[r] \in Task
          BY DEF Inv, TypeOK
    <3>2. [mem[r] EXCEPT !.status = "RUNNING"].sub = mem[r].sub
          BY <3>1 DEF Task
    <3>3. Store(r, [mem[r] EXCEPT !.status = "RUNNING"])
          BY <2>2 DEF Begin
    <3>4. QED
          BY <1>4, <2>1, <3>2, <3>3
  <2>3. CASE Save(r)
        BY <1>4, <2>1, <2>3 DEF Save
  <2>4. QED
        BY <1>5, <2>2, <2>3
<1>6. ASSUME NEW r \in Request, StartStep(r) \/ EndStep(r)
      PROVE  s \in DOMAIN task'[t].sub /\ task'[t].sub[s] = "SUCCESS"
  <2>1. r = t => s \in DOMAIN mem[t].sub /\ mem[t].sub[s] = "SUCCESS"
        BY <1>6 DEF StartStep, EndStep, Inv, WorkInv
  <2>2. PICK u \in DOMAIN mem[r].sub, st \in StepStatus :
            /\ mem[r].sub[u] \in {"PENDING", "RUNNING"}
            /\ Store(r, [mem[r] EXCEPT !.sub[u] = st])
    <3>1. CASE StartStep(r)
      <4>1. PICK u \in DOMAIN mem[r].sub :
                /\ mem[r].sub[u] = "PENDING"
                /\ Store(r, [mem[r] EXCEPT !.sub[u] = "RUNNING"])
            BY <3>1 DEF StartStep
      <4>2. "RUNNING" \in StepStatus
            BY DEF StepStatus
      <4>3. QED
            BY <4>1, <4>2
    <3>2. CASE EndStep(r)
      <4>1. PICK u \in live[r], st \in {"SUCCESS", "FAILED"} :
                Store(r, [mem[r] EXCEPT !.sub[u] = st])
            BY <3>2 DEF EndStep
      <4>2. st \in StepStatus /\ u \in DOMAIN mem[r].sub /\ mem[r].sub[u] = "RUNNING"
            BY DEF StepStatus, Inv, WorkInv
      <4>3. QED
            BY <4>1, <4>2
    <3>3. QED
          BY <1>6, <3>1, <3>2
  <2>3. PICK row : row = [mem[r] EXCEPT !.sub[u] = st] /\ Store(r, row)
        BY <2>2, Zenon
  <2>4. mem[r] \in Task
        BY DEF Inv, TypeOK
  <2>5. /\ DOMAIN row.sub = DOMAIN mem[r].sub
        /\ \A v \in DOMAIN mem[r].sub \ {u} : row.sub[v] = mem[r].sub[v]
        BY <2>3, <2>4, SubStep
  <2>6. r = t => s # u
        BY <2>1, <2>2
  <2>7. QED
        BY <1>4, <2>1, <2>3, <2>5, <2>6
<1>7. ASSUME NEW r \in Request, Fetch(r) \/ Judge(r) \/ Acknowledge(r) \/ Break(r)
      PROVE  task'[t] = task[t]
      BY <1>7 DEF Fetch, Judge, Acknowledge, Break
<1>8. CASE ApiCrash \/ \E r \in Request : WorkerCrash(r) \/ PoolProcessDies(r)
      BY <1>8 DEF ApiCrash, WorkerCrash, PoolProcessDies, Cut
<1>9. QED
      BY <1>1, <1>2, <1>3, <1>5, <1>6, <1>7, <1>8 DEF Next, Handle, JobStep

(* Whatever crashes, is retried, delivered twice or deleted: a step that a  *)
(* row shows as SUCCESS is not run again and not shown as anything else.    *)
THEOREM WorkNotRedone == Spec => WorkIsNotRedone
<1> DEFINE Kept ==
        \A t \in Request : \A s \in DOMAIN task[t].sub :
            task[t].sub[s] = "SUCCESS" =>
                /\ s \notin live'[t]
                /\ Exists(t)' => task'[t].sub[s] = "SUCCESS"
<1>1. Inv /\ Inv' /\ [Next]_vars => [Kept]_vars
  <2> SUFFICES ASSUME Inv, Inv', Next,
                      NEW t \in Request, NEW s \in DOMAIN task[t].sub,
                      task[t].sub[s] = "SUCCESS"
               PROVE  s \notin live'[t] /\ (Exists(t)' => task'[t].sub[s] = "SUCCESS")
      OBVIOUS
  <2>1. CASE s \in DOMAIN task'[t].sub /\ task'[t].sub[s] = "SUCCESS"
        BY <2>1 DEF Inv, WorkInv
  <2>2. CASE task'[t].status = "absent" /\ live'[t] = live[t]
        BY <2>2 DEF Inv, WorkInv, Exists
  <2>3. QED
        BY <2>1, <2>2, RowStep
<1>2. QED
      BY <1>1, InvCorrect, PTL DEF Spec, WorkIsNotRedone

(* A decision holds: nobody is about to write the plan, and its proposer is *)
(* past proposing it.                                                       *)
Decided(p, st) ==
    plan[p].status \in {st, "absent"} /\ ~ReadBefore(p) /\ at[p] # "idle"

LEMMA DecidedStep ==
    ASSUME NEW p \in Request, NEW st \in {"approved", "rejected"},
           Inv, Decided(p, st), [Next]_vars
    PROVE  Decided(p, st)'
<1>1. ASSUME at' = at, target' = target, plan' = plan PROVE Decided(p, st)'
      BY <1>1 DEF Decided, ReadBefore
<1>2. ASSUME NEW r \in Request, Propose(r) PROVE Decided(p, st)'
      BY <1>2 DEF Propose, Goto, Decided, ReadBefore, Inv, TypeOK
<1>3. ASSUME NEW r \in Request, Read(r) PROVE Decided(p, st)'
  <2>1. PICK q \in Request :
            /\ target' = [target EXCEPT ![r] = q]
            /\ at' = [at EXCEPT ![r] = IF plan[q].status = "proposed"
                                       THEN "decided" ELSE "refused"]
        BY <1>3 DEF Read, Goto
  <2>2. UNCHANGED plan
        BY <1>3 DEF Read
  <2>3. QED
        BY <2>1, <2>2 DEF Decided, ReadBefore, Inv, TypeOK
<1>4. ASSUME NEW r \in Request, SaveTask(r) PROVE Decided(p, st)'
      BY <1>4 DEF SaveTask, Goto, Decided, ReadBefore, Inv, TypeOK
<1>5. ASSUME NEW r \in Request, MarkApproved(r) \/ Reject(r) PROVE Decided(p, st)'
  <2>1. target[r] # p /\ at[r] \in {"saved", "decided"}
        BY <1>5 DEF MarkApproved, Reject, Decided, ReadBefore
  <2>2. plan'[p] = plan[p] /\ UNCHANGED target
        BY <1>5, <2>1 DEF MarkApproved, Reject, Inv, TypeOK
  <2>3. PICK x \in {"marked", "failed", "ok"} : at' = [at EXCEPT ![r] = x]
        BY <1>5 DEF MarkApproved, Reject, Goto
  <2>4. QED
        BY <2>2, <2>3 DEF Decided, ReadBefore, Inv, TypeOK
<1>6. ASSUME NEW r \in Request, Dispatch(r) PROVE Decided(p, st)'
      BY <1>6 DEF Dispatch, Goto, Decided, ReadBefore, Inv, TypeOK
<1>7. ASSUME NEW r \in Request, Delete(r) PROVE Decided(p, st)'
      BY <1>7 DEF Delete, Goto, NoPlan, Decided, ReadBefore, Inv, TypeOK
<1>8. ASSUME NEW r \in Request, JobStep(r) \/ Break(r) PROVE Decided(p, st)'
      BY <1>1, <1>8 DEF JobStep, Fetch, Begin, StartStep, EndStep, Judge, Save, Acknowledge,
         Break, webVars
<1>9. CASE ApiCrash
      BY <1>9 DEF ApiCrash, InFlight, Decided, ReadBefore, Inv, TypeOK
<1>10. ASSUME NEW r \in Request, WorkerCrash(r) \/ PoolProcessDies(r)
       PROVE  Decided(p, st)'
       BY <1>1, <1>10 DEF WorkerCrash, PoolProcessDies, Cut, webVars
<1>11. CASE UNCHANGED vars
       BY <1>1, <1>11 DEF vars, webVars
<1>12. QED
       BY <1>2, <1>3, <1>4, <1>5, <1>6, <1>7, <1>8, <1>9, <1>10, <1>11 DEF Next, Handle

(* Approved stays approved and rejected rejected, however late requests     *)
(* come: 409 for every one that reads the plan after the decision.          *)
THEOREM DecisionsAreFinal == Spec => DecisionsStick
<1> SUFFICES ASSUME NEW p \in Request, NEW st \in {"approved", "rejected"}
             PROVE  Spec => [](plan[p].status = st /\ ~ReadBefore(p)
                                  => [](plan[p].status \in {st, "absent"}))
    BY DEF DecisionsStick
<1>1. Inv /\ plan[p].status = st /\ ~ReadBefore(p) => Decided(p, st)
      BY DEF Inv, ReaderInv, Decided
<1>2. Inv /\ Decided(p, st) /\ [Next]_vars => Decided(p, st)'
      BY DecidedStep
<1>3. Decided(p, st) => plan[p].status \in {st, "absent"}
      BY DEF Decided
<1>4. QED
      BY <1>1, <1>2, <1>3, InvCorrect, PTL DEF Spec
=============================================================================
