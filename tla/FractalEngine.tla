--------------------------- MODULE FractalEngine ---------------------------
(***************************************************************************)
(* FractalTaskEngine.execute (src/infrastructure/fractal/fractal_engine.py) *)
(* for one task: a plan of nodes runs as a batch of coroutines, an          *)
(* expandable node runs a plan of its own (recursion on _execute_plan),     *)
(* Gate 2 judges results, failed nodes are retried or replaced by a         *)
(* conditional fallback, and reflection adds nodes to the top-level plan.   *)
(*                                                                          *)
(* Nodes are numbers; the plan of the task itself is 0.  The planner's      *)
(* candidates are cached (the container's setting), so that a step keeps    *)
(* its id when its parent is retried, and batches run in parallel (the      *)
(* container's setting).  A call of a model, of a gate or of the inner      *)
(* engine (module TaskGraph) is a stage a coroutine waits in; rejected plan *)
(* attempts that are followed by an approved one are part of that stage, as *)
(* is the classification of a node's output.  The evaluators and planners   *)
(* of the container answer with a fallback instead of raising.  Costs are   *)
(* left out: the total of a plan starts at 0 and parallel batches never see *)
(* a budget exceeded before their nodes run; where the budget can stop a    *)
(* reflection, reflection may also find nothing to add.                     *)
(***************************************************************************)
EXTENDS Integers, Sequences, FiniteSets, FiniteSetsExt

CONSTANTS
    Node,           \* every step a planner or a reflection can come up with
    Parent,         \* Node -> Node \cup {0}: the plan a node belongs to
    Marked,         \* nodes with is_terminal
    Fallback,       \* [conditional nodes -> the node whose failure they await]
    Suggested,      \* nodes a reflection can suggest
    MaxDepth,       \* max_depth
    MaxRetries,     \* max_retries
    MaxRounds,      \* max_reflection_rounds
    MaxTotal,       \* max_total_nodes
    Permits,        \* max_concurrent_nodes, 0 = unlimited
    SkipGate2       \* skip_gate2_for_terminal_success

Conditional == DOMAIN Fallback
Planned     == Node \ (Suggested \cup Conditional)

ASSUME TreeAssumption ==
    /\ Node \subseteq Nat \ {0} /\ IsFiniteSet(Node)
    /\ Parent \in [Node -> Node \cup {0}]
    /\ \A n \in Node : Parent[n] < n
    /\ Marked \subseteq Node
    /\ Suggested \subseteq {n \in Marked : Parent[n] = 0}
    /\ Conditional \subseteq Node \ Suggested
    /\ \A c \in Conditional : /\ Fallback[c] \in Planned
                              /\ Parent[Fallback[c]] = Parent[c]
ASSUME LimitAssumption ==
    /\ {MaxDepth, MaxRetries, MaxRounds, MaxTotal, Permits} \subseteq Nat
    /\ SkipGate2 \in BOOLEAN

Level[n \in Node] == IF Parent[n] = 0 THEN 0 ELSE 1 + Level[Parent[n]]

(* NestingDepthController.should_terminate, as _execute_with_eval asks it.  *)
Expands(n) == n \notin Marked /\ Level[n] < MaxDepth

Plan == {0} \cup {n \in Node : Expands(n)}
Members(p) == {n \in Node : Parent[n] = p}

VARIABLES
    phase,       \* of execute()
    task,        \* TaskEntity.status
    late,        \* _is_timed_out()
    rounds,      \* ExecutionPlan.reflection_rounds of the top-level plan
    status,      \* PlanNode.status
    tries,       \* PlanNode.retry_count
    at,          \* the await at which the coroutine of a node stands
    frame,       \* the running _execute_plan of each plan
    rows         \* the SubTasks with a node's id, in the order of the list

vars == <<phase, task, late, rounds, status, tries, at, frame, rows>>

Status == {"PENDING", "RUNNING", "SUCCESS", "DEGRADED", "FAILED"}
Stage  == {"idle", "queued", "inner", "planning", "children", "gate",
           "done", "raised"}
Frame  == [at : {"closed", "head", "batch", "post", "fallback", "reflect"},
           pending : SUBSET Node, batch : SUBSET Node, completed : SUBSET Node]

Closed == [at |-> "closed", pending |-> {}, batch |-> {}, completed |-> {}]
Opened(nodes) == [Closed EXCEPT !.at = "head", !.pending = nodes]

OK(n) == status[n] \in {"SUCCESS", "DEGRADED"}
Settled(n) == at[n] \in {"done", "raised"}

Init ==
    /\ phase = "planning"
    /\ task = "RUNNING"
    /\ late = FALSE
    /\ rounds = 0
    /\ status = [n \in Node |-> "PENDING"]
    /\ tries = [n \in Node |-> 0]
    /\ at = [n \in Node |-> "idle"]
    /\ frame = [p \in Plan |-> Closed]
    /\ rows = [n \in Node |-> <<>>]

-----------------------------------------------------------------------------
(* _sync_subtask writes the first SubTask with the node's id.               *)
First(r, st) == IF r = <<>> THEN r ELSE [r EXCEPT ![1] = st]
Shown(R, nodes, st) == [n \in Node |-> IF n \in nodes THEN First(R[n], st[n]) ELSE R[n]]
Listed(R, nodes) == [n \in Node |-> IF n \in nodes THEN Append(R[n], "PENDING") ELSE R[n]]
Swept(R) ==
    [n \in Node |-> [i \in DOMAIN R[n] |->
        IF R[n][i] \in {"PENDING", "RUNNING"} THEN "FAILED" ELSE R[n][i]]]

(* The top of the loop in _execute_with_eval.                               *)
Enter(n, st) ==
    /\ status' = [st EXCEPT ![n] = IF late THEN "FAILED" ELSE "RUNNING"]
    /\ at' = [at EXCEPT ![n] = IF late THEN "done"
                               ELSE IF Expands(n) THEN "planning" ELSE "inner"]

-----------------------------------------------------------------------------
(* The planner's candidates for the task, less what Gate 1 prunes.          *)
Approve ==
    /\ phase = "planning"
    /\ \E kept \in SUBSET (Members(0) \cap Planned) :
        /\ frame' = [frame EXCEPT ![0] = Opened(kept)]
        /\ rows' = Listed(rows, kept)
    /\ phase' = "executing"
    /\ UNCHANGED <<task, late, rounds, status, tries, at>>

Reject ==
    /\ phase = "planning"
    /\ phase' = "rejected"
    /\ task' = "FAILED"
    /\ UNCHANGED <<late, rounds, status, tries, at, frame, rows>>

(* max_execution_seconds have passed.                                       *)
Expire ==
    /\ phase \in {"planning", "executing"} /\ ~late
    /\ late' = TRUE
    /\ UNCHANGED <<phase, task, rounds, status, tries, at, frame, rows>>

(* asyncio.wait_for gives up; its clock starts after the planning, so       *)
(* _is_timed_out has turned true before.                                    *)
HardTimeout_LeavesRows ==
    /\ phase = "executing" /\ late
    /\ phase' = "timedout"
    /\ task' = "FAILED"
    /\ at' = [n \in Node |-> "idle"]
    /\ frame' = [p \in Plan |-> Closed]
    /\ UNCHANGED <<late, rounds, status, tries, rows>>

HardTimeout ==
    /\ phase = "executing" /\ late
    /\ phase' = "timedout"
    /\ task' = "FAILED"
    /\ rows' = Swept(rows)
    /\ at' = [n \in Node |-> "idle"]
    /\ frame' = [p \in Plan |-> Closed]
    /\ UNCHANGED <<late, rounds, status, tries>>

-----------------------------------------------------------------------------
(* One turn of the loop of _execute_plan: every pending node of the plan    *)
(* becomes a coroutine.                                                     *)
Launch(p) ==
    /\ frame[p].at = "head" /\ frame[p].pending # {} /\ ~late
    /\ LET nodes == frame[p].pending IN
        /\ frame' = [frame EXCEPT ![p] = [@ EXCEPT !.at = "batch", !.pending = {},
                                                   !.batch = nodes]]
        /\ rows' = Shown(rows, nodes, [n \in Node |-> "RUNNING"])
        /\ at' = [n \in Node |-> IF n \in nodes THEN "queued" ELSE at[n]]
    /\ UNCHANGED <<phase, task, late, rounds, status, tries>>

(* The loop ends: nothing is pending, or the time is up and what is pending *)
(* fails.  The result of a node's own plan decides the node (the tail of    *)
(* _execute_expandable); the result of the task's plan decides the task.    *)
Abandoned(p) == [n \in Node |-> IF n \in frame[p].pending THEN "FAILED" ELSE status[n]]
AllOK(p) == frame[p].pending = {} /\ \A n \in frame[p].completed : OK(n)

EndOfPlan(p) ==
    /\ frame[p].at = "head"
    /\ frame[p].pending = {} \/ late
    /\ p # 0
    /\ status' = [Abandoned(p) EXCEPT ![p] = IF AllOK(p) THEN "SUCCESS" ELSE "FAILED"]
    /\ rows' = Shown(rows, frame[p].pending, Abandoned(p))
    /\ frame' = [frame EXCEPT ![p] = Closed]
    /\ at' = [at EXCEPT ![p] = "gate"]
    /\ UNCHANGED <<phase, task, late, rounds, tries>>

EndOfTask ==
    /\ frame[0].at = "head"
    /\ frame[0].pending = {} \/ late
    /\ status' = Abandoned(0)
    /\ rows' = Swept(Shown(rows, frame[0].pending, Abandoned(0)))
    /\ frame' = [frame EXCEPT ![0] = Closed]
    /\ task' = IF AllOK(0) THEN "SUCCESS" ELSE "FAILED"
    /\ phase' = "ended"
    /\ UNCHANGED <<late, rounds, tries, at>>

-----------------------------------------------------------------------------
(* _execute_node_safe holds a permit of the semaphore around everything     *)
(* _execute_with_eval does, the plan of an expandable node included; a      *)
(* fallback runs outside of it.                                             *)
Holders_FreeParents ==
    {n \in Node \ Conditional : at[n] \in {"inner", "planning", "gate"}}

Holders_LeakOnRaise ==
    {n \in Node \ Conditional :
        at[n] \in {"inner", "planning", "children", "gate", "raised"}}

Holders == {n \in Node \ Conditional : at[n] \in {"inner", "planning", "children", "gate"}}

Acquire(n) ==
    /\ at[n] = "queued"
    /\ Permits = 0 \/ Cardinality(Holders) < Permits
    /\ Enter(n, status)
    /\ UNCHANGED <<phase, task, late, rounds, tries, frame, rows>>

(* The inner engine returned; a success with a text may skip Gate 2.        *)
InnerReturned(n) ==
    /\ at[n] = "inner"
    /\ \E st \in {"SUCCESS", "DEGRADED", "FAILED"}, text \in BOOLEAN :
        /\ status' = [status EXCEPT ![n] = st]
        /\ at' = [at EXCEPT ![n] =
                    IF SkipGate2 /\ st = "SUCCESS" /\ text THEN "done" ELSE "gate"]
    /\ UNCHANGED <<phase, task, late, rounds, tries, frame, rows>>

(* _execute_expandable got its plan: the children are new nodes, listed in  *)
(* the task behind what is there.                                           *)
Expand(n) ==
    /\ at[n] = "planning"
    /\ \E kept \in SUBSET (Members(n) \cap Planned) :
        /\ frame' = [frame EXCEPT ![n] = Opened(kept)]
        /\ rows' = Listed(rows, kept)
    /\ at' = [at EXCEPT ![n] = "children"]
    /\ status' = [m \in Node |-> IF m \in Members(n) THEN "PENDING" ELSE status[m]]
    /\ tries' = [m \in Node |-> IF m \in Members(n) THEN 0 ELSE tries[m]]
    /\ UNCHANGED <<phase, task, late, rounds>>

(* Gate 1 rejected every attempt (_PlanFailureError).                       *)
ExpandRejected(n) ==
    /\ at[n] = "planning"
    /\ status' = [status EXCEPT ![n] = "FAILED"]
    /\ at' = [at EXCEPT ![n] = "raised"]
    /\ UNCHANGED <<phase, task, late, rounds, tries, frame, rows>>

(* Gate 2: accept, whatever the status was; run again; or raise.            *)
GateOK(n) ==
    /\ at[n] = "gate"
    /\ status' = [status EXCEPT ![n] = "SUCCESS"]
    /\ at' = [at EXCEPT ![n] = "done"]
    /\ UNCHANGED <<phase, task, late, rounds, tries, frame, rows>>

GateRetry_EvenLate(n) ==
    /\ at[n] = "gate" /\ tries[n] < MaxRetries
    /\ tries' = [tries EXCEPT ![n] = @ + 1]
    /\ status' = [status EXCEPT ![n] = "RUNNING"]
    /\ at' = [at EXCEPT ![n] = IF Expands(n) THEN "planning" ELSE "inner"]
    /\ UNCHANGED <<phase, task, late, rounds, frame, rows>>

GateRetry(n) ==
    /\ at[n] = "gate" /\ tries[n] < MaxRetries
    /\ tries' = [tries EXCEPT ![n] = @ + 1]
    /\ Enter(n, status)
    /\ UNCHANGED <<phase, task, late, rounds, frame, rows>>

GateReplan(n) ==
    /\ at[n] = "gate"
    /\ status' = [status EXCEPT ![n] = "FAILED"]
    /\ at' = [at EXCEPT ![n] = "raised"]
    /\ UNCHANGED <<phase, task, late, rounds, tries, frame, rows>>

-----------------------------------------------------------------------------
(* The gather of the batch is complete.                                     *)
Gathered_FirstError(p) ==
    /\ frame[p].at = "batch"
    /\ \/ \A n \in frame[p].batch : Settled(n)
       \/ \E n \in frame[p].batch : at[n] = "raised"
    /\ frame' = [frame EXCEPT ![p].at = "post"]
    /\ UNCHANGED <<phase, task, late, rounds, status, tries, at, rows>>

Gathered(p) ==
    /\ frame[p].at = "batch"
    /\ \A n \in frame[p].batch : Settled(n)
    /\ frame' = [frame EXCEPT ![p].at = "post"]
    /\ UNCHANGED <<phase, task, late, rounds, status, tries, at, rows>>

(* The results are taken in the order of the batch; a node that raised is   *)
(* replaced by its fallback if the plan holds one.                          *)
Current(p) == Min(frame[p].batch)
FallbackFor(n) == {c \in Conditional : Fallback[c] = n}

Count(p, n) ==
    frame' = [frame EXCEPT ![p].at = "post", ![p].batch = @ \ {Current(p)},
                           ![p].completed = @ \cup {n}]

TakeResult_NoSync(p) ==
    /\ frame[p].at = "post" /\ frame[p].batch # {}
    /\ LET n == Current(p) IN
        /\ at[n] = "raised" => FallbackFor(n) = {}
        /\ Count(p, n)
        /\ at' = [at EXCEPT ![n] = "idle"]
        /\ rows' = IF at[n] = "raised" THEN rows ELSE Shown(rows, {n}, status)
    /\ UNCHANGED <<phase, task, late, rounds, status, tries>>

TakeResult(p) ==
    /\ frame[p].at = "post" /\ frame[p].batch # {}
    /\ LET n == Current(p) IN
        /\ at[n] = "raised" => FallbackFor(n) = {}
        /\ Count(p, n)
        /\ at' = [at EXCEPT ![n] = "idle"]
        /\ rows' = Shown(rows, {n}, status)
    /\ UNCHANGED <<phase, task, late, rounds, status, tries>>

StartFallback_KeepsRow(p) ==
    /\ frame[p].at = "post" /\ frame[p].batch # {}
    /\ at[Current(p)] = "raised"
    /\ \E c \in FallbackFor(Current(p)) :
        /\ rows' = Listed(rows, {c})
        /\ Enter(c, status)
    /\ frame' = [frame EXCEPT ![p].at = "fallback"]
    /\ UNCHANGED <<phase, task, late, rounds, tries>>

StartFallback(p) ==
    /\ frame[p].at = "post" /\ frame[p].batch # {}
    /\ at[Current(p)] = "raised"
    /\ \E c \in FallbackFor(Current(p)) :
        /\ rows' = Listed([rows EXCEPT ![Current(p)] = <<>>], {c})
        /\ Enter(c, status)
    /\ frame' = [frame EXCEPT ![p].at = "fallback"]
    /\ UNCHANGED <<phase, task, late, rounds, tries>>

FallbackReturned(p) ==
    /\ frame[p].at = "fallback"
    /\ \E c \in FallbackFor(Current(p)) :
        /\ Settled(c)
        /\ Count(p, c)
        /\ rows' = Shown(rows, {c}, status)
        /\ at' = [at EXCEPT ![c] = "idle", ![Current(p)] = "idle"]
    /\ UNCHANGED <<phase, task, late, rounds, status, tries>>

(* _maybe_reflect, up to the call of the evaluator.                         *)
MayReflect(p) ==
    /\ p = 0 /\ ~late
    /\ ~(rounds = 0 /\ Cardinality(frame[p].completed) = 1
          /\ \A n \in frame[p].completed : status[n] = "SUCCESS")
    /\ rounds < MaxRounds
    /\ Cardinality(frame[p].completed) < MaxTotal

BatchSettled(p) ==
    /\ frame[p].at = "post" /\ frame[p].batch = {}
    /\ frame' = [frame EXCEPT ![p].at = IF MayReflect(p) THEN "reflect" ELSE "head"]
    /\ UNCHANGED <<phase, task, late, rounds, status, tries, at, rows>>

Satisfied ==
    /\ frame[0].at = "reflect"
    /\ frame' = [frame EXCEPT ![0].at = "head"]
    /\ UNCHANGED <<phase, task, late, rounds, status, tries, at, rows>>

(* New terminal nodes for the top-level plan.                               *)
Spawn ==
    /\ frame[0].at = "reflect"
    /\ \E new \in (SUBSET (Suggested \ frame[0].completed)) \ {{}} :
        /\ frame' = [frame EXCEPT ![0] = [@ EXCEPT !.at = "head", !.pending = new]]
        /\ rows' = Listed(rows, new)
    /\ rounds' = rounds + 1
    /\ UNCHANGED <<phase, task, late, status, tries, at>>

NodeStep(n) ==
    \/ Acquire(n) \/ InnerReturned(n) \/ Expand(n) \/ ExpandRejected(n)
    \/ GateOK(n) \/ GateRetry(n) \/ GateReplan(n)

PlanStep(p) ==
    \/ Launch(p) \/ EndOfPlan(p) \/ Gathered(p) \/ TakeResult(p)
    \/ StartFallback(p) \/ FallbackReturned(p) \/ BatchSettled(p)

RootStep == Approve \/ Reject \/ EndOfTask \/ Satisfied \/ Spawn

EngineStep ==
    \/ RootStep
    \/ \E n \in Node : NodeStep(n)
    \/ \E p \in Plan : PlanStep(p)

Next == EngineStep \/ Expire \/ HardTimeout

Spec == Init /\ [][Next]_vars

(* The event loop resumes what can go on, and every call of a model or of   *)
(* the inner engine returns.  No fairness for Expire and HardTimeout: the   *)
(* engine has to end by itself.                                             *)
FairSpec ==
    /\ Spec
    /\ WF_vars(RootStep)
    /\ \A n \in Node : WF_vars(NodeStep(n))
    /\ \A p \in Plan : WF_vars(PlanStep(p))

-----------------------------------------------------------------------------
(* Every variable has its type; a step is retried max_retries times at most *)
(* and the task reflects max_reflection_rounds times at most.               *)
TypeOK ==
    /\ phase \in {"planning", "executing", "ended", "rejected", "timedout"}
    /\ task \in {"RUNNING", "SUCCESS", "FAILED"}
    /\ late \in BOOLEAN
    /\ rounds \in 0..MaxRounds
    /\ status \in [Node -> Status]
    /\ tries \in [Node -> 0..MaxRetries]
    /\ at \in [Node -> Stage]
    /\ frame \in [Plan -> Frame]
    /\ rows \in [Node -> Seq(Status)]

(* max_concurrent_nodes bounds the calls that are under way at any moment   *)
(* over all levels of the recursion, though fallbacks run outside of the    *)
(* semaphore and a parent keeps its permit while its children run (TD-175). *)
ThrottleRespected ==
    Permits = 0 \/
        Cardinality({n \in Node : at[n] \in {"inner", "planning", "gate"}}) <= Permits

(* No coroutine outlives the plan that launched it: while a node is under   *)
(* way its plan waits for it, and so does, level by level, every node       *)
(* above (gather in _execute_plan, wait_for in execute).                    *)
StructuredConcurrency ==
    \A n \in Node : at[n] \notin {"idle", "done", "raised"} =>
        LET p == Parent[n] IN
            /\ phase = "executing"
            /\ frame[p].at = IF n \in Conditional THEN "fallback" ELSE "batch"
            /\ p # 0 => at[p] = "children"

(* What a page shows as running is running: the first row of a node says    *)
(* RUNNING only as long as its coroutine is there.                          *)
RunningRowIsLive ==
    \A n \in Node :
        rows[n] # <<>> /\ rows[n][1] = "RUNNING" => at[n] # "idle"

(* TD-181: after the end, by whatever way, no row is left unfinished.       *)
RowsSettled ==
    phase \in {"ended", "timedout"} =>
        \A n \in Node : \A i \in DOMAIN rows[n] : rows[n][i] \notin {"PENDING", "RUNNING"}

(* The use case throws the engine's verdict away and computes one from the  *)
(* rows; the rows of a normal end support the engine's: success means that  *)
(* every top-level step, the suggested ones included, or the fallback that  *)
(* took its place, shows success; failure shows up as a failed row.         *)
VerdictMatchesRows ==
    phase = "ended" =>
        /\ task = "SUCCESS" => \A n \in Members(0) : rows[n] # <<>> =>
                                    OK(n) /\ rows[n][1] = status[n]
        /\ task = "FAILED" => \E n \in Node : \E i \in DOMAIN rows[n] : rows[n][i] = "FAILED"

(* Once the time is up no node is started or started again and no           *)
(* reflection is asked for; calls that are under way may end (TD-181).      *)
NothingStartsLate ==
    [][late => /\ \A n \in Node : at'[n] \in {"queued", "inner", "planning"} =>
                                    at'[n] = at[n]
               /\ frame[0].at = "post" => frame'[0].at # "reflect"]_vars

(* With permits to spare, a task ends without the help of the timeout.      *)
TaskEnds == phase = "executing" ~> phase \in {"ended", "timedout"}

(* "asyncio.wait_for is the last resort when inner engine hangs": when it   *)
(* strikes, some call is outstanding.                                       *)
HardTimeoutMeansHang ==
    [][HardTimeout => \/ \E n \in Node : at[n] \in {"inner", "planning", "gate"}
                      \/ frame[0].at = "reflect"
                      \/ ENABLED EngineStep]_vars
=============================================================================
