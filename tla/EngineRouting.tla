---------------------------- MODULE EngineRouting ---------------------------
(***************************************************************************)
(* RouteToEngineUseCase and HandoffTaskUseCase with what they keep about a  *)
(* task and a topic in Postgres: the row of shared_task_states and the      *)
(* affinity scores.  All calls here are about one task and one topic.       *)
(*                                                                          *)
(* A repository call is one step, except append_action, which computes the  *)
(* new history from the one it has selected.  (With the in-memory           *)
(* repositories everybody works on the same object, and only the call of an *)
(* engine or of a council gives way.)                                       *)
(***************************************************************************)
EXTENDS EngineRouter

CONSTANTS
    Call,            \* concurrent requests
    Workloads,       \* which requests come together: sets of [Call -> Ask]
    Registered,      \* the engines that have a driver
    Council,         \* council_debate_enabled
    Beginnings,      \* affinity samples of earlier times: sets of [Engine -> Nat]
    MaxFaults        \* bound: database errors in the bookkeeping

Ask == [kind : {"none", "route", "handoff", "insights", "forget"}, q : Query,
        extract : BOOLEAN]

ASSUME RoutingAssumption ==
    /\ IsFiniteSet(Call) /\ Workloads \subseteq [Call -> Ask]
    /\ Registered \subseteq Engine /\ Council \in BOOLEAN
    /\ Beginnings \subseteq [Engine -> Nat] /\ MaxFaults \in Nat

VARIABLES
    ask,         \* what each call is asked for
    at,          \* where it stands
    chain,       \* the engines it is to try
    attempts,    \* its FallbackAttempts
    answer,      \* the result it returns
    base,        \* the samples at the beginning
    samples,     \* sample_count of the affinity rows, 0 for none
    sampled,     \* what a call read of the row of its engine
    state,       \* the row of the task, or NoState
    copy,        \* the SharedTaskState a handoff holds
    read,        \* the row as the transaction or use case of a call read it
    faults

callVars == <<at, chain, attempts, answer>>
vars == <<ask, callVars, base, samples, sampled, state, copy, read, faults>>

NoState == [exists |-> FALSE, history |-> <<>>, decisions |-> {}]
Created == [NoState EXCEPT !.exists = TRUE]
NoAnswer == [engine |-> NoEngine, success |-> FALSE]

Action(type, c) == [type |-> type, call |-> c]
AddAction(s, a) == [s EXCEPT !.history = Append(@, a)]
AddDecision(s, d) == [s EXCEPT !.decisions = @ \cup {d}]

Init ==
    /\ ask \in Workloads
    /\ at = [c \in Call |-> IF ask[c].kind = "none" THEN "done" ELSE "idle"]
    /\ chain = [c \in Call |-> <<>>]
    /\ attempts = [c \in Call |-> <<>>]
    /\ answer = [c \in Call |-> NoAnswer]
    /\ base \in Beginnings
    /\ samples = base
    /\ sampled = [c \in Call |-> 0]
    /\ state = NoState
    /\ copy = [c \in Call |-> NoState]
    /\ read = [c \in Call |-> NoState]
    /\ faults = 0

Goto(c, stage) == at' = [at EXCEPT ![c] = stage]
AfterInsights(c) == IF ask[c].kind = "handoff" THEN "finishing" ELSE "done"
AfterRoute(c) == IF ask[c].kind = "handoff" THEN "returned" ELSE "done"

-----------------------------------------------------------------------------
(* A handoff loads or creates the state, notes itself and its reason, and   *)
(* saves it before it routes.                                               *)
HandOff(c) ==
    /\ at[c] = "idle" /\ ask[c].kind = "handoff"
    /\ LET found == IF state.exists THEN state ELSE Created IN
        copy' = [copy EXCEPT ![c] = AddDecision(AddAction(found, Action("handoff", c)),
                                                Action("reason", c))]
    /\ Goto(c, "handing")
    /\ UNCHANGED <<ask, chain, attempts, answer, base, samples, sampled, state, read, faults>>

SaveHandOff(c) ==
    /\ at[c] = "handing"
    /\ state' = copy[c]
    /\ Goto(c, "routing")
    /\ UNCHANGED <<ask, chain, attempts, answer, base, samples, sampled, copy, read, faults>>

(* The base chain, from the affinities of the topic.                        *)
BuildChain(c) ==
    /\ \/ at[c] = "routing"
       \/ at[c] = "idle" /\ ask[c].kind = "route"
    /\ \E ch \in BaseChains(ask[c].q, samples) :
        /\ chain' = [chain EXCEPT ![c] = ch]
        /\ Goto(c, IF Council /\ Debatable(ask[c].q, ch) THEN "debate" ELSE "try")
    /\ UNCHANGED <<ask, attempts, answer, base, samples, sampled, state, copy, read, faults>>

(* The council decides for one of the two, or is abandoned (a timeout, an   *)
(* error, an answer that names neither).                                    *)
Debate(c) ==
    /\ at[c] = "debate"
    /\ \/ /\ \E e \in Members(TopTwo(chain[c])) :
                chain' = [chain EXCEPT ![c] = CouncilChain(e, chain[c])]
          /\ Goto(c, "decided")
       \/ /\ chain' = chain
          /\ Goto(c, "try")
    /\ UNCHANGED <<ask, attempts, answer, base, samples, sampled, state, copy, read, faults>>

ReadForDecision(c) ==
    /\ at[c] = "decided"
    /\ read' = [read EXCEPT ![c] = AddDecision(state, Action("council", c))]
    /\ Goto(c, IF state.exists THEN "deciding" ELSE "try")
    /\ UNCHANGED <<ask, chain, attempts, answer, base, samples, sampled, state, copy, faults>>

UpdateDecisions(c) ==
    /\ at[c] = "deciding"
    /\ state' = IF state.exists
                THEN [state EXCEPT !.decisions = read[c].decisions] ELSE state
    /\ Goto(c, "try")
    /\ UNCHANGED <<ask, chain, attempts, answer, base, samples, sampled, copy, read, faults>>

-----------------------------------------------------------------------------
(* The loop over the chain: one FallbackAttempt for each engine in turn.    *)
Candidate(c) == chain[c][Len(attempts[c]) + 1]
Left(c) == Len(attempts[c]) < Len(chain[c])

Attempted(c, reason) ==
    attempts' = [attempts EXCEPT ![c] = Append(@, [engine |-> Candidate(c), reason |-> reason])]

Skip_Unnoted(c) ==
    /\ at[c] = "try" /\ Left(c)
    /\ IF Candidate(c) \in Registered
       THEN Attempted(c, "unavailable")
       ELSE attempts' = attempts
    /\ UNCHANGED <<ask, at, chain, answer, base, samples, sampled, state, copy, read, faults>>

Skip(c) ==
    /\ at[c] = "try" /\ Left(c)
    /\ IF Candidate(c) \in Registered
       THEN Attempted(c, "unavailable")
       ELSE Attempted(c, "not_registered")
    /\ UNCHANGED <<ask, at, chain, answer, base, samples, sampled, state, copy, read, faults>>

RunTask(c) ==
    /\ at[c] = "try" /\ Left(c) /\ Candidate(c) \in Registered
    /\ Goto(c, "running")
    /\ UNCHANGED <<ask, chain, attempts, answer, base, samples, sampled, state, copy, read, faults>>

Failed_KeepsFirst(c) ==
    /\ at[c] = "running"
    /\ \E reason \in {"exception", "failure"} : Attempted(c, reason)
    /\ answer' = IF answer[c] = NoAnswer
                 THEN [answer EXCEPT ![c].engine = Candidate(c)] ELSE answer
    /\ Goto(c, "try")
    /\ UNCHANGED <<ask, chain, base, samples, sampled, state, copy, read, faults>>

(* An exception and a result without success alike lead to the next engine. *)
Failed(c) ==
    /\ at[c] = "running"
    /\ \E reason \in {"exception", "failure"} : Attempted(c, reason)
    /\ answer' = [answer EXCEPT ![c] = [engine |-> Candidate(c), success |-> FALSE]]
    /\ Goto(c, "try")
    /\ UNCHANGED <<ask, chain, base, samples, sampled, state, copy, read, faults>>

Succeeded(c) ==
    /\ at[c] = "running"
    /\ Attempted(c, "")
    /\ answer' = [answer EXCEPT ![c] = [engine |-> Candidate(c), success |-> TRUE]]
    /\ Goto(c, "affinity")
    /\ UNCHANGED <<ask, chain, base, samples, sampled, state, copy, read, faults>>

(* The last error, or "No engines available" in the name of OLLAMA.         *)
AllFailed_Scores(c) ==
    /\ at[c] = "try" /\ ~Left(c)
    /\ answer' = IF answer[c] = NoAnswer
                 THEN [answer EXCEPT ![c].engine = "OLLAMA"] ELSE answer
    /\ Goto(c, "affinity")
    /\ UNCHANGED <<ask, chain, attempts, base, samples, sampled, state, copy, read, faults>>

AllFailed(c) ==
    /\ at[c] = "try" /\ ~Left(c)
    /\ answer' = IF answer[c] = NoAnswer
                 THEN [answer EXCEPT ![c].engine = "OLLAMA"] ELSE answer
    /\ Goto(c, AfterRoute(c))
    /\ UNCHANGED <<ask, chain, attempts, base, samples, sampled, state, copy, read, faults>>

-----------------------------------------------------------------------------
(* _post_success: affinity and action, neither of which may fail the call.  *)
ReadAffinity(c) ==
    /\ at[c] = "affinity"
    /\ sampled' = [sampled EXCEPT ![c] = samples[answer[c].engine]]
    /\ Goto(c, "scored")
    /\ UNCHANGED <<ask, chain, attempts, answer, base, samples, state, copy, read, faults>>

UpsertAffinity(c) ==
    /\ at[c] = "scored"
    /\ samples' = [samples EXCEPT ![answer[c].engine] = sampled[c] + 1]
    /\ Goto(c, "record")
    /\ UNCHANGED <<ask, chain, attempts, answer, base, sampled, state, copy, read, faults>>

ReadForAction(c) ==
    /\ at[c] = "record"
    /\ read' = [read EXCEPT ![c] = state]
    /\ Goto(c, IF state.exists THEN "appending" ELSE AfterRoute(c))
    /\ UNCHANGED <<ask, chain, attempts, answer, base, samples, sampled, state, copy, faults>>

AppendAction(c) ==
    /\ at[c] = "appending"
    /\ state' = IF state.exists
                THEN [state EXCEPT !.history = Append(read[c].history, Action("execute", c))]
                ELSE state
    /\ Goto(c, AfterRoute(c))
    /\ UNCHANGED <<ask, chain, attempts, answer, base, samples, sampled, copy, read, faults>>

(* An error of the database is logged, and the next thing is done.          *)
Swallow(c) ==
    /\ faults < MaxFaults
    /\ faults' = faults + 1
    /\ \/ at[c] \in {"decided", "deciding"} /\ Goto(c, "try")
       \/ at[c] \in {"affinity", "scored"} /\ Goto(c, "record")
       \/ at[c] \in {"record", "appending"} /\ Goto(c, AfterRoute(c))
       \/ at[c] = "insight" /\ Goto(c, AfterInsights(c))
    /\ UNCHANGED <<ask, chain, attempts, answer, base, samples, sampled, state, copy, read>>

(* Only a handoff that cannot save its state fails for it.                  *)
FailHandOff(c) ==
    /\ faults < MaxFaults
    /\ faults' = faults + 1
    /\ at[c] \in {"handing", "finishing"}
    /\ Goto(c, "failed")
    /\ UNCHANGED <<ask, chain, attempts, answer, base, samples, sampled, state, copy, read>>

-----------------------------------------------------------------------------
(* The handoff notes on its own copy who received it, has insights of the   *)
(* output stored if it was asked to, and saves its copy.                    *)
Receive_Reread(c) ==
    /\ at[c] = "returned"
    /\ copy' = [copy EXCEPT ![c] = AddAction([state EXCEPT !.exists = TRUE],
                                             Action("received_handoff", c))]
    /\ Goto(c, IF ask[c].extract /\ answer[c].success THEN "extracting" ELSE "finishing")
    /\ UNCHANGED <<ask, chain, attempts, answer, base, samples, sampled, state, read, faults>>

Receive(c) ==
    /\ at[c] = "returned"
    /\ copy' = [copy EXCEPT ![c] = AddAction(copy[c], Action("received_handoff", c))]
    /\ Goto(c, IF ask[c].extract /\ answer[c].success THEN "extracting" ELSE "finishing")
    /\ UNCHANGED <<ask, chain, attempts, answer, base, samples, sampled, state, read, faults>>

(* ExtractInsightsUseCase, of a handoff or of a request of its own.  An     *)
(* output may hold nothing worth noting.                                    *)
ReadForInsights(c) ==
    /\ \/ at[c] = "extracting"
       \/ at[c] = "idle" /\ ask[c].kind = "insights"
    /\ \/ /\ read' = [read EXCEPT ![c] =
                AddDecision(IF state.exists THEN state ELSE Created, Action("insight", c))]
          /\ Goto(c, "insight")
       \/ /\ read' = read
          /\ Goto(c, AfterInsights(c))
    /\ UNCHANGED <<ask, chain, attempts, answer, base, samples, sampled, state, copy, faults>>

SaveInsights(c) ==
    /\ at[c] = "insight"
    /\ state' = read[c]
    /\ Goto(c, AfterInsights(c))
    /\ UNCHANGED <<ask, chain, attempts, answer, base, samples, sampled, copy, read, faults>>

FinishHandOff(c) ==
    /\ at[c] = "finishing"
    /\ state' = copy[c]
    /\ Goto(c, "done")
    /\ UNCHANGED <<ask, chain, attempts, answer, base, samples, sampled, copy, read, faults>>

(* DELETE /api/cognitive/state/{task_id}.                                   *)
Forget(c) ==
    /\ at[c] = "idle" /\ ask[c].kind = "forget"
    /\ state' = NoState
    /\ Goto(c, "done")
    /\ UNCHANGED <<ask, chain, attempts, answer, base, samples, sampled, copy, read, faults>>

Step(c) ==
    \/ HandOff(c) \/ SaveHandOff(c)
    \/ BuildChain(c) \/ Debate(c) \/ ReadForDecision(c) \/ UpdateDecisions(c)
    \/ Skip(c) \/ RunTask(c) \/ Failed(c) \/ Succeeded(c) \/ AllFailed(c)
    \/ ReadAffinity(c) \/ UpsertAffinity(c) \/ ReadForAction(c) \/ AppendAction(c)
    \/ Receive(c) \/ ReadForInsights(c) \/ SaveInsights(c) \/ FinishHandOff(c)
    \/ Forget(c)

Next == \E c \in Call : Step(c) \/ Swallow(c) \/ FailHandOff(c)

Spec == Init /\ [][Next]_vars

(* A request that has come is served; drivers, councils and the database    *)
(* answer or raise within their timeouts.                                   *)
FairSpec == Spec /\ \A c \in Call : WF_vars(Step(c))

-----------------------------------------------------------------------------
Stage == {"idle", "handing", "routing", "debate", "decided", "deciding", "try", "running",
          "affinity", "scored", "record", "appending", "returned", "extracting", "insight",
          "finishing", "done", "failed"}
Noted == [type : {"handoff", "execute", "received_handoff"}, call : Call]
States == [exists : BOOLEAN, history : Seq(Noted),
           decisions : SUBSET [type : {"reason", "council", "insight"}, call : Call]]

(* Every variable has its type.                                             *)
TypeOK ==
    /\ ask \in Workloads
    /\ at \in [Call -> Stage]
    /\ chain \in [Call -> Seq(Engine)]
    /\ attempts \in [Call -> Seq([engine : Engine, reason :
            {"", "not_registered", "unavailable", "exception", "failure"}])]
    /\ answer \in [Call -> [engine : Engine \cup {NoEngine}, success : BOOLEAN]]
    /\ base \in Beginnings /\ samples \in [Engine -> Nat] /\ sampled \in [Call -> Nat]
    /\ state \in States /\ copy \in [Call -> States] /\ read \in [Call -> States]
    /\ faults \in 0..MaxFaults

(* Whatever affinities and councils promote, a chain holds no engine twice, *)
(* keeps every engine the router would try, ends with OLLAMA unless the     *)
(* caller prefers that, and without a budget has no engine that costs,      *)
(* unless the caller asked for it.                                          *)
OrderOfEngines ==
    \A c \in Call :
        LET ch == chain[c]  q == ask[c].q IN
            ch # <<>> =>
                /\ Cardinality(Members(ch)) = Len(ch)
                /\ Members(WithFallbacks(q)) \subseteq Members(ch)
                /\ q.preferred # "OLLAMA" => ch[Len(ch)] = "OLLAMA"
                /\ ~q.budget => Members(ch) \subseteq {"OLLAMA", q.preferred}

(* The result of a call is explained by its attempts: one for each engine   *)
(* of the chain up to the first that succeeded, each but that one with the  *)
(* reason why the next was tried; an error is the last one met.             *)
Tried(c) == {i \in DOMAIN attempts[c] : attempts[c][i].reason \in {"exception", "failure"}}

AttemptsExplainAnswer ==
    \A c \in Call :
        /\ \A i \in DOMAIN attempts[c] :
              /\ attempts[c][i].engine = chain[c][i]
              /\ attempts[c][i].reason = "" => i = Len(attempts[c]) /\ at[c] # "try"
        /\ answer[c].success => attempts[c][Len(attempts[c])] = [engine |-> answer[c].engine,
                                                                reason |-> ""]
        /\ at[c] \in {"returned", "done"} /\ ~answer[c].success /\ chain[c] # <<>> =>
              /\ Len(attempts[c]) = Len(chain[c])
              /\ IF Tried(c) = {} THEN answer[c].engine = "OLLAMA"
                 ELSE \E i \in Tried(c) : /\ answer[c].engine = chain[c][i]
                                         /\ \A j \in Tried(c) : j <= i

(* Concurrent updates of an affinity may be lost, but an engine is never    *)
(* credited with more samples than it has successes: what promotes it, and  *)
(* passes the threshold of min_samples, has been earned.                    *)
ScoresAreEarned ==
    \A e \in Engine :
        samples[e] <= base[e] + Cardinality({c \in Call : answer[c].success /\ answer[c].engine = e})

(* Concurrent writers may lose records of the shared history, never make    *)
(* them up: nothing is recorded twice, an execution is recorded for a call  *)
(* that succeeded, and who received a handoff comes after who handed off.   *)
HistoryIsGenuine ==
    \A h \in {state.history} \cup {copy[c].history : c \in Call} :
        \A i \in DOMAIN h :
            /\ \A j \in DOMAIN h : h[i] = h[j] => i = j
            /\ h[i].type = "execute" => \E e \in DOMAIN attempts[h[i].call] :
                                            attempts[h[i].call][e].reason = ""
            /\ h[i].type = "received_handoff" =>
                   \E j \in 1..i : h[j] = Action("handoff", h[i].call)

(* Every call is answered, whatever engines and councils do.                *)
EveryCallIsAnswered == \A c \in Call : <>(at[c] \in {"done", "failed"})

(* "Cross-agent task handoff with full state preservation": what an engine  *)
(* did during a handoff is in the task's state when the handoff is done     *)
(* (claim of application/use_cases/handoff_task.py, for a handoff that      *)
(* nobody disturbs).                                                        *)
HandOffPreservesHistory ==
    \A c \in Call :
        at[c] = "done" /\ ask[c].kind = "handoff" /\ answer[c].success =>
            Action("execute", c) \in Members(state.history)
=============================================================================
