---------------------------- MODULE AgentDrivers ------------------------------
(* The drivers behind the agent engines: command line agents run as child    *)
(* processes (and so is a code block of an answer), the ADK runner and       *)
(* Ollama are awaited in process, OpenHands is a server that is told its     *)
(* model, given a conversation and polled. An output is reduced to how it    *)
(* parses; deadlines pass at any time.                                       *)
EXTENDS Naturals, Sequences, SequencesExt

CONSTANTS
    Task,
    Driver,       \* of "cli", "code", "adk", "ollama" and "openhands"
    Model,        \* models a caller may ask for, NoModel among them
    NoModel, DefaultModel, Installed,
    HasApiKey,    \* whether OpenHands is given a key, and settings with it
    Blocks,       \* what an answer may hold: sequences of [language, python]
    Keys,         \* the priced model names, in order
    Similar,      \* pairs of a key and a model of which one contains the other
    PriceOf, DefaultPrice, Free

VARIABLES
    stage,     \* of each task's run_task
    driver, model,
    child,     \* its process: "none", "running", "ended", "killed"
    holder,    \* whether a descendant of it holds the output pipe
    printed,   \* what the process wrote: [code, form]
    result,    \* what run_task returned
    settings,  \* the model OpenHands is set to, for everyone
    remote,    \* its conversations: status and the model each began with
    disturbed  \* history: tasks whose settings another task replaced in time

vars == <<stage, driver, model, child, holder, printed, result, settings, remote, disturbed>>

NoResult == [success |-> FALSE, output |-> "-", model |-> NoModel, cost |-> 0]
Failure(output) == [NoResult EXCEPT !.output = output]
NoConversation == [status |-> "none", model |-> NoModel]

-----------------------------------------------------------------------------
\* Exact names first, then the first key that contains the model's name or
\* is contained in it.
ResolvePricing(m) ==
    LET like == {i \in DOMAIN Keys : <<Keys[i], m>> \in Similar}
    IN  IF m \in Free THEN 0
        ELSE IF m \in ToSet(Keys) THEN PriceOf[m]
        ELSE IF like # {} THEN PriceOf[Keys[Min(like)]]
        ELSE DefaultPrice

Calculate(m, usage) == IF usage = 0 THEN 0 ELSE usage * ResolvePricing(m)

Runnable == {"python", "bash", "sh", "javascript", "js", "ruby"}

\* The first block in a known language, else the first that names none and
\* looks like Python; 0 for neither.
FindExecutableBlock(blocks) ==
    LET known == {i \in DOMAIN blocks : blocks[i].language \in Runnable}
        guessed == {i \in DOMAIN blocks : blocks[i].language = "" /\ blocks[i].python}
        First(S) == CHOOSE i \in S : \A j \in S : i <= j
    IN  IF known # {} THEN First(known) ELSE IF guessed # {} THEN First(guessed) ELSE 0

Init ==
    /\ stage = [t \in Task |-> "new"]
    /\ driver = [t \in Task |-> "-"] /\ model = [t \in Task |-> NoModel]
    /\ child = [t \in Task |-> "none"] /\ holder = [t \in Task |-> FALSE]
    /\ printed = [t \in Task |-> [code |-> 0, form |-> "-"]]
    /\ result = [t \in Task |-> NoResult]
    /\ settings = DefaultModel
    /\ remote = [t \in Task |-> NoConversation]
    /\ disturbed = {}

Goto(t, s) == stage' = [stage EXCEPT ![t] = s]
Return(t, r) == result' = [result EXCEPT ![t] = r] /\ Goto(t, "done")

-----------------------------------------------------------------------------
Spawn(t) ==
    /\ child' = [child EXCEPT ![t] = "running"]
    /\ Goto(t, "waiting")
    /\ UNCHANGED result

\* A driver may be switched off and its program not installed, which raises
\* where a process would start; is_available is asked by the caller, before.
Start(t) ==
    /\ stage[t] = "new"
    /\ \E d \in Driver, m \in Model, found \in {"ready", "disabled", "missing"} :
        /\ driver' = [driver EXCEPT ![t] = d]
        /\ model' = [model EXCEPT ![t] =
              IF m = NoModel /\ d \in {"adk", "ollama", "openhands"} THEN DefaultModel ELSE m]
        /\ CASE found = "disabled" /\ d \in {"cli", "adk"} -> Return(t, Failure("disabled")) /\ UNCHANGED child
             [] d = "cli" /\ found = "missing" -> Goto(t, "raised") /\ UNCHANGED <<child, result>>
             [] d = "cli" /\ found = "ready" -> Spawn(t)
             [] d = "code" ->
                  \E blocks \in Blocks :
                    IF FindExecutableBlock(blocks) = 0
                    THEN Return(t, Failure("no code")) /\ UNCHANGED child
                    ELSE Spawn(t)
             [] d = "adk" /\ found = "missing" -> Return(t, Failure("not installed")) /\ UNCHANGED child
             [] d = "adk" /\ found = "ready" -> Goto(t, "calling") /\ UNCHANGED <<child, result>>
             [] d = "ollama" -> Goto(t, "listing") /\ UNCHANGED <<child, result>>
             [] d = "openhands" ->
                  Goto(t, IF HasApiKey THEN "settings" ELSE "create") /\ UNCHANGED <<child, result>>
        /\ disturbed' = IF d = "openhands" /\ ~HasApiKey THEN disturbed \cup {t} ELSE disturbed
    /\ UNCHANGED <<holder, printed, settings, remote>>

\* The process ends; one that it started may live on with its pipe.
ChildEnds(t) ==
    /\ child[t] = "running"
    /\ child' = [child EXCEPT ![t] = "ended"]
    /\ \E holds \in BOOLEAN : holder' = [holder EXCEPT ![t] = holds]
    /\ \E p \in {[code |-> 1, form |-> "text"]} \cup [code : {0}, form : {"object", "text", "number", "bytes"}] :
        printed' = [printed EXCEPT ![t] = p]
    /\ UNCHANGED <<stage, driver, model, result, settings, remote, disturbed>>

HolderEnds(t) ==
    /\ holder[t]
    /\ holder' = [holder EXCEPT ![t] = FALSE]
    /\ UNCHANGED <<stage, driver, model, child, printed, result, settings, remote, disturbed>>

\* What a command line agent's answer is taken for: text that is not JSON is
\* the answer; JSON that is not an object has no result to get, which nobody
\* catches. The model and the usage of an object are the agent's own.
ParseCli(t) ==
    CASE printed[t].code # 0 -> Return(t, Failure("stdout"))
      [] printed[t].code = 0 /\ printed[t].form = "number" -> Goto(t, "raised") /\ UNCHANGED result
      [] printed[t].code = 0 /\ printed[t].form = "object" ->
            \E m \in Model \ {NoModel}, usage \in {0, 1} :
                Return(t, [success |-> TRUE, output |-> "result", model |-> m, cost |-> Calculate(m, usage)])
      [] OTHER -> Return(t, [success |-> TRUE, output |-> "stdout", model |-> model[t], cost |-> 0])

\* The output of a code block is decoded strictly, outside of what is caught.
ParseCode(t) ==
    CASE printed[t].code # 0 -> Return(t, Failure("stderr"))
      [] printed[t].code = 0 /\ printed[t].form = "bytes" -> Goto(t, "raised") /\ UNCHANGED result
      [] OTHER -> Return(t, [NoResult EXCEPT !.success = TRUE, !.output = "stdout"])

\* communicate ends when the process has and its pipes are closed.
Communicated(t) ==
    /\ stage[t] = "waiting" /\ child[t] = "ended" /\ ~holder[t]
    /\ IF driver[t] = "cli" THEN ParseCli(t) ELSE ParseCode(t)
    /\ UNCHANGED <<driver, model, child, holder, printed, settings, remote, disturbed>>

Kill(c) == IF c = "running" THEN "killed" ELSE c

TimedOut_LeavesChild(t) ==
    /\ stage[t] = "waiting"
    /\ Goto(t, "draining")
    /\ UNCHANGED <<driver, model, child, holder, printed, result, settings, remote, disturbed>>

\* The deadline kills the process, not what it has started, ...
TimedOut(t) ==
    /\ stage[t] = "waiting"
    /\ child' = [child EXCEPT ![t] = Kill(@)]
    /\ \E holds \in BOOLEAN : holder' = [holder EXCEPT ![t] = IF child[t] = "running" THEN holds ELSE @]
    /\ Goto(t, "draining")
    /\ UNCHANGED <<driver, model, printed, result, settings, remote, disturbed>>

\* ... and communicate is awaited again, without one.
Drained(t) ==
    /\ stage[t] = "draining" /\ ~holder[t]
    /\ Return(t, Failure("timed out"))
    /\ UNCHANGED <<driver, model, child, holder, printed, settings, remote, disturbed>>

\* Nothing kills the process of a caller that is cancelled.
Cancel(t) ==
    /\ stage[t] \notin {"new", "done", "raised", "cancelled"}
    /\ Goto(t, "cancelled")
    /\ UNCHANGED <<driver, model, child, holder, printed, result, settings, remote, disturbed>>

\* Ollama: only an installed model is called.
Listed(t) ==
    /\ stage[t] = "listing"
    /\ IF \E i \in Installed : <<model[t], i>> \in Similar \/ i = model[t]
       THEN Goto(t, "calling") /\ UNCHANGED result
       ELSE Return(t, Failure("not installed"))
    /\ UNCHANGED <<driver, model, child, holder, printed, settings, remote, disturbed>>

\* The ADK runner and the gateway take no deadline. An error is a failure.
Called(t) ==
    /\ stage[t] = "calling"
    /\ \/ Return(t, [success |-> TRUE, output |-> "answer", model |-> model[t], cost |-> 0])
       \/ Return(t, [Failure("error") EXCEPT !.model = model[t]])
    /\ UNCHANGED <<driver, model, child, holder, printed, settings, remote, disturbed>>

-----------------------------------------------------------------------------
Posting == {u \in Task : driver[u] = "openhands" /\ stage[u] = "create"}

\* The settings are the server's; whether it took them is not looked at.
EnsureSettings(t) ==
    /\ stage[t] = "settings"
    /\ \/ settings' = model[t]
          /\ disturbed' = (disturbed \ {t}) \cup {u \in Posting : model[u] # model[t]}
       \/ disturbed' = disturbed \cup {t} /\ UNCHANGED settings
    /\ Goto(t, "create")
    /\ UNCHANGED <<driver, model, child, holder, printed, result, remote>>

Conversation(m) == [status |-> "running", model |-> m]

\* A server without the newer address is told the model with the task.
CreateConversation(t) ==
    /\ stage[t] = "create"
    /\ \/ remote' = [remote EXCEPT ![t] = Conversation(settings)] /\ Goto(t, "polling") /\ UNCHANGED <<result, disturbed>>
       \/ remote' = [remote EXCEPT ![t] = Conversation(model[t])] /\ Goto(t, "polling")
          /\ disturbed' = disturbed \ {t} /\ UNCHANGED result
       \/ Return(t, Failure("create")) /\ UNCHANGED <<remote, disturbed>>
    /\ UNCHANGED <<driver, model, child, holder, printed, settings>>

RemoteEnds(t) ==
    /\ remote[t].status = "running"
    /\ \E s \in {"completed", "stopped", "error"} : remote' = [remote EXCEPT ![t].status = s]
    /\ UNCHANGED <<stage, driver, model, child, holder, printed, result, settings, disturbed>>

\* Polled until the conversation has ended; an idle one is completed.
Poll(t) ==
    /\ stage[t] = "polling" /\ remote[t].status # "running"
    /\ IF remote[t].status = "error" THEN Return(t, Failure("error"))
       ELSE \E usage \in {0, 1} :
                Return(t, [success |-> remote[t].status # "stopped", output |-> "result",
                           model |-> model[t], cost |-> Calculate(model[t], usage)])
    /\ UNCHANGED <<driver, model, child, holder, printed, settings, remote, disturbed>>

\* A failed request or the deadline ends the polling, not the conversation.
PollFails(t) ==
    /\ stage[t] = "polling"
    /\ Return(t, Failure("poll"))
    /\ UNCHANGED <<driver, model, child, holder, printed, settings, remote, disturbed>>

Next ==
    \E t \in Task :
        \/ Start(t) \/ ChildEnds(t) \/ HolderEnds(t) \/ Communicated(t) \/ TimedOut(t) \/ Drained(t)
        \/ Cancel(t) \/ Listed(t) \/ Called(t)
        \/ EnsureSettings(t) \/ CreateConversation(t) \/ RemoteEnds(t) \/ Poll(t) \/ PollFails(t)

Spec == Init /\ [][Next]_vars

-----------------------------------------------------------------------------
(* No run_task returns while its process runs, or while a process that one   *)
(* started holds its output: what outlives a task belongs to a cancelled one.*)
NothingOutlivesItsTask ==
    \A t \in Task : child[t] = "running" \/ holder[t] => stage[t] \in {"waiting", "draining", "cancelled"}

(* A success stands for work that was done: its process ended by itself and  *)
(* with no error, its conversation was completed.                            *)
SuccessIsGenuine ==
    \A t \in Task : result[t].success =>
        CASE driver[t] \in {"cli", "code"} -> child[t] = "ended" /\ printed[t].code = 0
          [] driver[t] = "openhands" -> remote[t].status = "completed"
          [] OTHER -> TRUE

(* The model that OpenHands is reported, and charged, to have used is the    *)
(* one its conversation began with, unless the settings were not taken or    *)
(* another task replaced them before the conversation was created.           *)
ReportedModelRan ==
    \A t \in Task : driver[t] = "openhands" /\ result[t].success =>
        \/ t \in disturbed
        \/ /\ remote[t].model = result[t].model
           /\ result[t].cost \in {0, ResolvePricing(remote[t].model)}

Safe == NothingOutlivesItsTask /\ SuccessIsGenuine /\ ReportedModelRan
=============================================================================
