----------------------------- MODULE PlanReview -----------------------------
(***************************************************************************)
(* From a goal to the execution of its task: InteractivePlanUseCase behind  *)
(* the routes of plans and tasks, their rows in an SQL database             *)
(* (PgPlanRepository, PgTaskRepository), and the execution, either a        *)
(* coroutine of the API process or a message to a Celery worker.            *)
(*                                                                          *)
(* Every repository call is a transaction of its own; requests interleave   *)
(* between them.  A plan, and a task, has the name of the request that      *)
(* makes it.  Of an execution only the steps and what it writes to the row  *)
(* are kept (module TaskGraph has the rest).  With the in-memory            *)
(* repositories a request never gives way, and nothing below interleaves.   *)
(***************************************************************************)
EXTENDS Integers, FiniteSets

CONSTANTS
    Request,         \* HTTP requests
    NoRequest,
    Workloads,       \* which requests come together: sets of [Request -> Kind]
    Steps,           \* the subtasks a request's goal is decomposed into
    MaxRetries,      \* of execute_task_worker
    MaxCrashes       \* bound: crashes of a process

Kind == {"propose", "auto", "direct", "approve", "reject", "delete"}

ASSUME ReviewAssumption ==
    /\ NoRequest \notin Request
    /\ Workloads \subseteq [Request -> Kind]
    /\ Steps \in [Request -> SUBSET Nat] /\ \A r \in Request : Steps[r] # {}
    /\ MaxRetries \in Nat /\ MaxCrashes \in Nat

VARIABLES
    kind,        \* what each request asks for
    celery,      \* celery_enabled
    at,          \* where the handler of a request stands
    target,      \* the plan it read
    plan,        \* rows of plans
    task,        \* rows of tasks
    job,         \* where the execution of a task stands
    live,        \* its steps that are under way
    mem,         \* the TaskEntity it works on
    retries,     \* how often Celery has retried it
    crashes

webVars  == <<at, target, plan>>
jobVars  == <<job, live, mem, retries>>
vars == <<kind, celery, webVars, task, jobVars, crashes>>

(* An approved plan has the steps of the request that proposed it.          *)
Fresh(t) ==
    LET goal == IF kind[t] = "approve" THEN target[t] ELSE t IN
        [status |-> "PENDING", sub |-> [s \in Steps[goal] |-> "PENDING"]]
Absent == [status |-> "absent", sub |-> <<>>]
NoPlan == [status |-> "absent", task |-> NoRequest]
Final  == {"SUCCESS", "FALLBACK", "FAILED"}
Task   == [status : {"absent", "PENDING", "RUNNING"} \cup Final,
           sub : UNION {[D -> {"PENDING", "RUNNING", "SUCCESS", "FAILED"}] :
                            D \in {{}} \cup {Steps[r] : r \in Request}}]

Exists(t) == task[t].status # "absent"
OnCelery(t) == celery /\ kind[t] # "auto"
InFlight == {"created", "decided", "saved", "marked"}
Working  == {"fetched", "running", "saving", "saved"}

Init ==
    /\ kind \in Workloads
    /\ celery \in BOOLEAN
    /\ at = [r \in Request |-> "idle"]
    /\ target = [r \in Request |-> NoRequest]
    /\ plan = [r \in Request |-> NoPlan]
    /\ task = [r \in Request |-> Absent]
    /\ job = [r \in Request |-> "none"]
    /\ live = [r \in Request |-> {}]
    /\ mem = [r \in Request |-> Absent]
    /\ retries = [r \in Request |-> 0]
    /\ crashes = 0

Goto(r, stage) == at' = [at EXCEPT ![r] = stage]

-----------------------------------------------------------------------------
(* create_plan, asked for by itself or by POST /api/tasks in AUTO mode for  *)
(* a simple goal.                                                           *)
Propose(r) ==
    /\ at[r] = "idle" /\ kind[r] \in {"propose", "auto"}
    /\ plan' = [plan EXCEPT ![r] = [status |-> "proposed", task |-> NoRequest]]
    /\ Goto(r, IF kind[r] = "auto" THEN "created" ELSE "ok")
    /\ UNCHANGED <<kind, celery, target, task, jobVars, crashes>>

(* approve_plan and reject_plan read the plan and refuse one that is not    *)
(* there (404) or is decided (409).                                         *)
Asks(r, p) ==
    \/ at[r] = "idle" /\ kind[r] \in {"approve", "reject"}
    \/ at[r] = "created" /\ p = r

Read_EvenDecided(r) ==
    /\ \E p \in Request :
        /\ Asks(r, p)
        /\ target' = [target EXCEPT ![r] = p]
        /\ Goto(r, IF plan[p].status # "absent" THEN "decided" ELSE "refused")
    /\ UNCHANGED <<kind, celery, plan, task, jobVars, crashes>>

Read(r) ==
    /\ \E p \in Request :
        /\ Asks(r, p)
        /\ target' = [target EXCEPT ![r] = p]
        /\ Goto(r, IF plan[p].status = "proposed" THEN "decided" ELSE "refused")
    /\ UNCHANGED <<kind, celery, plan, task, jobVars, crashes>>

(* The task of an approved plan, or of CreateTaskUseCase in DISABLED mode.  *)
SaveTask(r) ==
    /\ \/ at[r] = "decided" /\ kind[r] \in {"approve", "auto"}
       \/ at[r] = "idle" /\ kind[r] = "direct"
    /\ task' = [task EXCEPT ![r] = Fresh(r)]
    /\ Goto(r, IF kind[r] = "direct" THEN "marked" ELSE "saved")
    /\ UNCHANGED <<kind, celery, target, plan, jobVars, crashes>>

(* The write of the plan: an upsert, refused by the foreign key when the    *)
(* task has been deleted in between.                                        *)
MarkApproved(r) ==
    /\ at[r] = "saved"
    /\ IF Exists(r)
       THEN /\ plan' = [plan EXCEPT ![target[r]] = [status |-> "approved", task |-> r]]
            /\ Goto(r, "marked")
       ELSE /\ plan' = plan
            /\ Goto(r, "failed")
    /\ UNCHANGED <<kind, celery, target, task, jobVars, crashes>>

(* The row keeps the task_id of an approval that came in between.           *)
Reject(r) ==
    /\ at[r] = "decided" /\ kind[r] = "reject"
    /\ plan' = [plan EXCEPT ![target[r]].status = "rejected"]
    /\ Goto(r, "ok")
    /\ UNCHANGED <<kind, celery, target, task, jobVars, crashes>>

(* A coroutine of this process, or a message to the broker.                 *)
Dispatch(r) ==
    /\ at[r] = "marked"
    /\ job' = [job EXCEPT ![r] = "queued"]
    /\ Goto(r, "ok")
    /\ UNCHANGED <<kind, celery, target, plan, task, live, mem, retries, crashes>>

(* DELETE /api/tasks/{id}: the plans that refer to the task go with it.     *)
Delete_LeavesPlans(r) ==
    /\ at[r] = "idle" /\ kind[r] = "delete"
    /\ \E t \in Request :
        /\ Exists(t)
        /\ task' = [task EXCEPT ![t] = Absent]
    /\ Goto(r, "ok")
    /\ UNCHANGED <<kind, celery, target, plan, jobVars, crashes>>

Delete(r) ==
    /\ at[r] = "idle" /\ kind[r] = "delete"
    /\ \E t \in Request :
        /\ Exists(t)
        /\ task' = [task EXCEPT ![t] = Absent]
        /\ plan' = [p \in Request |-> IF plan[p].task = t THEN NoPlan ELSE plan[p]]
    /\ Goto(r, "ok")
    /\ UNCHANGED <<kind, celery, target, jobVars, crashes>>

-----------------------------------------------------------------------------
(* ExecuteTaskUseCase, by what it reads and writes.  The write of a row is  *)
(* an upsert: it brings a deleted task back.                                *)
Store(t, row) ==
    /\ mem' = [mem EXCEPT ![t] = row]
    /\ task' = [task EXCEPT ![t] = row]

(* What becomes of an execution that raised: the coroutine logs it, the     *)
(* worker asks for a retry.                                                 *)
Raised(t) ==
    LET again == OnCelery(t) /\ retries[t] < MaxRetries IN
        /\ job' = [job EXCEPT ![t] = IF again THEN "queued" ELSE "dead"]
        /\ retries' = [retries EXCEPT ![t] = IF again THEN @ + 1 ELSE @]
        /\ live' = [live EXCEPT ![t] = {}]

Fetch(t) ==
    /\ job[t] = "queued"
    /\ IF Exists(t)
       THEN /\ job' = [job EXCEPT ![t] = "fetched"]
            /\ mem' = [mem EXCEPT ![t] = task[t]]
            /\ UNCHANGED <<live, retries>>
       ELSE /\ Raised(t)
            /\ mem' = mem
    /\ UNCHANGED <<kind, celery, webVars, task, crashes>>

Begin_Afresh(t) ==
    /\ job[t] = "fetched"
    /\ job' = [job EXCEPT ![t] = "running"]
    /\ Store(t, [Fresh(t) EXCEPT !.status = "RUNNING"])
    /\ UNCHANGED <<kind, celery, webVars, live, retries, crashes>>

Begin(t) ==
    /\ job[t] = "fetched"
    /\ job' = [job EXCEPT ![t] = "running"]
    /\ Store(t, [mem[t] EXCEPT !.status = "RUNNING"])
    /\ UNCHANGED <<kind, celery, webVars, live, retries, crashes>>

(* A pending step is run; a step some earlier execution left RUNNING is not *)
(* pending.                                                                 *)
StartStep(t) ==
    /\ job[t] = "running"
    /\ \E s \in DOMAIN mem[t].sub :
        /\ mem[t].sub[s] = "PENDING"
        /\ live' = [live EXCEPT ![t] = @ \cup {s}]
        /\ Store(t, [mem[t] EXCEPT !.sub[s] = "RUNNING"])
    /\ UNCHANGED <<kind, celery, webVars, job, retries, crashes>>

EndStep(t) ==
    /\ job[t] = "running"
    /\ \E s \in live[t], st \in {"SUCCESS", "FAILED"} :
        /\ live' = [live EXCEPT ![t] = @ \ {s}]
        /\ Store(t, [mem[t] EXCEPT !.sub[s] = st])
    /\ UNCHANGED <<kind, celery, webVars, job, retries, crashes>>

Verdict(sub) ==
    IF \A s \in DOMAIN sub : sub[s] # "SUCCESS" THEN "FAILED"
    ELSE IF \A s \in DOMAIN sub : sub[s] = "SUCCESS" THEN "SUCCESS" ELSE "FALLBACK"

Judge(t) ==
    /\ job[t] = "running" /\ live[t] = {}
    /\ \A s \in DOMAIN mem[t].sub : mem[t].sub[s] # "PENDING"
    /\ mem' = [mem EXCEPT ![t].status = Verdict(mem[t].sub)]
    /\ job' = [job EXCEPT ![t] = "saving"]
    /\ UNCHANGED <<kind, celery, webVars, task, live, retries, crashes>>

Save(t) ==
    /\ job[t] = "saving"
    /\ Store(t, mem[t])
    /\ job' = [job EXCEPT ![t] = "saved"]
    /\ UNCHANGED <<kind, celery, webVars, live, retries, crashes>>

(* The worker acknowledges its message (task_acks_late).                    *)
Acknowledge(t) ==
    /\ job[t] = "saved"
    /\ job' = [job EXCEPT ![t] = "done"]
    /\ UNCHANGED <<kind, celery, webVars, task, live, mem, retries, crashes>>

Break(t) ==
    /\ job[t] \in Working \ {"saved"}
    /\ Raised(t)
    /\ UNCHANGED <<kind, celery, webVars, task, mem, crashes>>

JobStep(t) ==
    \/ Fetch(t) \/ Begin(t) \/ StartStep(t) \/ EndStep(t) \/ Judge(t)
    \/ Save(t) \/ Acknowledge(t)

-----------------------------------------------------------------------------
(* The API process dies, and every coroutine with it.                       *)
ApiCrash ==
    /\ crashes < MaxCrashes
    /\ crashes' = crashes + 1
    /\ at' = [r \in Request |-> IF at[r] \in InFlight THEN "gone" ELSE at[r]]
    /\ LET lost == {t \in Request : ~OnCelery(t) /\ job[t] \in Working \cup {"queued"}} IN
        /\ job' = [t \in Request |-> IF t \in lost THEN "lost" ELSE job[t]]
        /\ live' = [t \in Request |-> IF t \in lost THEN {} ELSE live[t]]
    /\ UNCHANGED <<kind, celery, target, plan, task, mem, retries>>

(* A worker dies.  What it had not acknowledged is delivered again          *)
(* (task_acks_late), with the retries it has left.                          *)
Cut(t, becomes) ==
    /\ crashes < MaxCrashes
    /\ crashes' = crashes + 1
    /\ OnCelery(t) /\ job[t] \in Working
    /\ job' = [job EXCEPT ![t] = becomes]
    /\ live' = [live EXCEPT ![t] = {}]
    /\ UNCHANGED <<kind, celery, webVars, task, mem, retries>>

WorkerCrash_AckedEarly(t) == Cut(t, "done")
WorkerCrash(t) == Cut(t, "queued")

(* Only the pool process that executes the task dies: the worker            *)
(* acknowledges its message all the same, for task_reject_on_worker_lost is *)
(* not set.                                                                 *)
PoolProcessDies(t) == Cut(t, "lost")

Handle(r) ==
    \/ Propose(r) \/ Read(r) \/ SaveTask(r) \/ MarkApproved(r) \/ Reject(r)
    \/ Dispatch(r) \/ Delete(r)

Next ==
    \/ \E r \in Request : Handle(r) \/ JobStep(r) \/ Break(r)
    \/ ApiCrash
    \/ \E t \in Request : WorkerCrash(t) \/ PoolProcessDies(t)

Spec == Init /\ [][Next]_vars

(* Celery delivers, the event loop resumes, and every step of an execution  *)
(* ends (ExecutionEnds of TaskGraph).                                       *)
FairSpec == Spec /\ \A t \in Request : WF_vars(JobStep(t))

-----------------------------------------------------------------------------
(* Every variable has its type; a message is retried max_retries times.     *)
TypeOK ==
    /\ kind \in Workloads
    /\ celery \in BOOLEAN
    /\ at \in [Request -> {"idle", "ok", "refused", "failed", "gone"} \cup InFlight]
    /\ target \in [Request -> Request \cup {NoRequest}]
    /\ plan \in [Request -> [status : {"absent", "proposed", "approved", "rejected"},
                             task : Request \cup {NoRequest}]]
    /\ task \in [Request -> Task]
    /\ job \in [Request -> {"none", "queued", "done", "dead", "lost"} \cup Working]
    /\ live \in [Request -> SUBSET UNION {Steps[r] : r \in Request}]
    /\ mem \in [Request -> Task]
    /\ retries \in [Request -> 0..MaxRetries]
    /\ crashes \in 0..MaxCrashes

(* A decision about a plan is final: once a plan is decided and no request  *)
(* that had read it before is still under way, approved stays approved and  *)
(* rejected stays rejected (later requests get a 409), until the plan goes  *)
(* with its task.                                                           *)
ReadBefore(p) == \E r \in Request : target[r] = p /\ at[r] \in {"decided", "saved"}

DecisionsStick ==
    \A p \in Request, st \in {"approved", "rejected"} :
        [](plan[p].status = st /\ ~ReadBefore(p)
              => [](plan[p].status \in {st, "absent"}))

(* A step that the row shows as SUCCESS is never run again, and never shown *)
(* as anything else, though an execution may be broken off, retried or      *)
(* delivered twice; only the task as a whole can be deleted.                *)
WorkIsNotRedone ==
    [][\A t \in Request : \A s \in DOMAIN task[t].sub :
        task[t].sub[s] = "SUCCESS" =>
            /\ s \notin live'[t]
            /\ Exists(t)' => task'[t].sub[s] = "SUCCESS"]_vars

(* A row of plans never refers to a task that is not there, though tasks    *)
(* are deleted while plans are approved, and deleted tasks come back.       *)
PlanHasItsTask ==
    \A p \in Request :
        /\ plan[p].task # NoRequest => Exists(plan[p].task)
        /\ plan[p].status = "approved" => plan[p].task # NoRequest

(* A task whose creation was answered is executed to an end, whatever       *)
(* happens to the workers: unless it is deleted, its execution raises (for  *)
(* the last time), or the API or pool process that ran it died.             *)
AnsweredTaskEnds ==
    \A t \in Request :
        (at[t] = "ok" /\ kind[t] \in {"auto", "direct", "approve"}) ~>
            (task[t].status \in Final \cup {"absent"} \/ job[t] \in {"dead", "lost"})
=============================================================================
