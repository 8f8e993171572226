------------------------------ MODULE ReactLoop -------------------------------
(* The ReAct executor: a model is asked, the tools it calls are executed in  *)
(* order and their observations are shown to it, until it answers, repeats   *)
(* itself or runs out of iterations. Loops of concurrent subtasks share one  *)
(* executor, its schemas and its routes, while tools of MCP servers are      *)
(* still being registered. A content or an observation is reduced to what    *)
(* the code looks at.                                                        *)
EXTENDS Naturals, Sequences, SequencesExt, Selections

CONSTANTS
    Loop,
    Local,          \* sequence of the names of the local tools
    Registrations,  \* sequence of [server, tools]: MCP servers as they connect
    Allowed,        \* the tool lists a caller may pass; {} restricts nothing
    Answers,        \* the model's answers: [content, calls]
    MaxIterations   \* of a loop

VARIABLES
    schemas,       \* names of the schemas the executor holds, a shared list
    route,         \* server of each registered MCP tool
    connected,     \* number of Registrations done
    stage,         \* of each loop: "new", "ask", "tools", "done", "raised"
    tools,         \* <<its filtered schemas>>, or <<>> for the executor's list
    messages,      \* its conversation after the two prompts
    steps,         \* its trace: [content, calls, observations]
    current,       \* the step whose calls are being executed
    last, repeats, \* the call of the last step with one call, and its run
    reason, final  \* how the loop ended, and with what

vars == <<schemas, route, connected, stage, tools, messages, steps, current, last, repeats, reason, final>>

NoStep == [content |-> "", calls |-> <<>>, observations |-> <<>>]
NoCall == [tool |-> "-", args |-> 0]

Init ==
    /\ schemas = Local /\ route = <<>> /\ connected = 0
    /\ stage = [l \in Loop |-> "new"]
    /\ tools = [l \in Loop |-> <<>>]
    /\ messages = [l \in Loop |-> <<>>]
    /\ steps = [l \in Loop |-> <<>>] /\ current = [l \in Loop |-> NoStep]
    /\ last = [l \in Loop |-> NoCall] /\ repeats = [l \in Loop |-> 0]
    /\ reason = [l \in Loop |-> "-"]
    /\ final = [l \in Loop |-> <<>>]

Goto(l, s) == stage' = [stage EXCEPT ![l] = s]

-----------------------------------------------------------------------------
\* A later server takes over a name; the schema of the earlier one stays.
RegisterMcpTools ==
    /\ connected < Len(Registrations)
    /\ connected' = connected + 1
    /\ LET r == Registrations[connected']
       IN  /\ schemas' = schemas \o r.tools
           /\ route' = [n \in DOMAIN route \cup ToSet(r.tools) |->
                           IF n \in ToSet(r.tools) THEN r.server ELSE route[n]]
    /\ UNCHANGED <<stage, tools, messages, steps, current, last, repeats, reason, final>>

Filtered(allowed) == SelectSeq(schemas, LAMBDA n : n \in allowed)

Begin(l) ==
    /\ stage[l] = "new"
    /\ \E allowed \in Allowed :
        tools' = [tools EXCEPT ![l] = IF allowed = {} THEN <<>> ELSE <<Filtered(allowed)>>]
    /\ Goto(l, "ask")
    /\ UNCHANGED <<schemas, route, connected, messages, steps, current, last, repeats, reason, final>>

Offered(l) == IF tools[l] = <<>> THEN schemas ELSE tools[l][1]

Text(t) == <<[tool |-> "-", observation |-> t]>>

\* What a step observed, without what is empty or an error of a local tool.
Useful(step) ==
    Kept([j \in DOMAIN step.observations |->
             [tool |-> step.calls[j].tool, observation |-> step.observations[j]]],
         {j \in DOMAIN step.observations : step.observations[j] \notin {"", "ERROR"}})

NoResults == "No results"

\* What is left when the model gave no answer: the last three useful
\* observations.
FallbackAnswer(trace) ==
    LET kept == FlattenSeq([i \in DOMAIN trace |-> Useful(trace[i])])
    IN  IF kept = <<>> THEN Text(NoResults)
        ELSE SubSeq(kept, IF Len(kept) > 3 THEN Len(kept) - 2 ELSE 1, Len(kept))

Conclude(l, trace, why, content) ==
    /\ steps' = [steps EXCEPT ![l] = trace]
    /\ reason' = [reason EXCEPT ![l] = why]
    /\ final' = [final EXCEPT ![l] = IF content = "" THEN FallbackAnswer(trace) ELSE Text(content)]
    /\ Goto(l, "done")

\* The model calls tools it is offered. An error of the gateway is the
\* caller's; the trace is lost.
Ask(l) ==
    /\ stage[l] = "ask"
    /\ \/ \E a \in Answers :
           /\ \A i \in DOMAIN a.calls : a.calls[i].tool \in ToSet(Offered(l))
           /\ LET step == [content |-> a.content, calls |-> a.calls, observations |-> <<>>]
              IN  IF a.calls = <<>>
                  THEN Conclude(l, Append(steps[l], step), "final_answer", a.content)
                       /\ UNCHANGED <<messages, current>>
                  ELSE /\ messages' = [messages EXCEPT ![l] = Append(@, [role |-> "assistant", calls |-> a.calls])]
                       /\ current' = [current EXCEPT ![l] = step]
                       /\ Goto(l, "tools")
                       /\ UNCHANGED <<steps, reason, final>>
       \/ Goto(l, "raised") /\ UNCHANGED <<messages, steps, current, reason, final>>
    /\ UNCHANGED <<schemas, route, connected, tools, last, repeats>>

\* An error becomes an observation, marked by whose tool it was. A name that
\* a server registered is never the local tool's again.
Observations(tool) ==
    IF tool \in DOMAIN route THEN {"result", "", "MCP_ERROR"} ELSE {"result", "", "ERROR"}

ExecuteTool(l) ==
    LET n == Len(current[l].observations) + 1
    IN  /\ stage[l] = "tools" /\ n <= Len(current[l].calls)
        /\ \E o \in Observations(current[l].calls[n].tool) :
            /\ current' = [current EXCEPT ![l].observations = Append(@, o)]
            /\ messages' = [messages EXCEPT ![l] = Append(@, [role |-> "tool", call |-> current[l].calls[n]])]
        /\ UNCHANGED <<schemas, route, connected, stage, tools, steps, last, repeats, reason, final>>

Repeated_AcrossOthers(l) ==
    IF Len(current[l].calls) # 1 THEN [call |-> last[l], run |-> repeats[l]]
    ELSE [call |-> current[l].calls[1],
          run |-> IF current[l].calls[1] = last[l] THEN repeats[l] + 1 ELSE 1]

\* Only steps of a single call count as repetition, and only in a row.
Repeated(l) ==
    IF Len(current[l].calls) # 1 THEN [call |-> NoCall, run |-> 0]
    ELSE [call |-> current[l].calls[1],
          run |-> IF current[l].calls[1] = last[l] THEN repeats[l] + 1 ELSE 1]

EndStep(l) ==
    /\ stage[l] = "tools" /\ Len(current[l].observations) = Len(current[l].calls)
    /\ LET trace == Append(steps[l], current[l])
           seen == Repeated(l)
       IN  /\ last' = [last EXCEPT ![l] = seen.call]
           /\ repeats' = [repeats EXCEPT ![l] = seen.run]
           /\ IF seen.run >= 3 THEN Conclude(l, trace, "repetitive_tool_loop", "")
              ELSE IF Len(trace) >= MaxIterations THEN Conclude(l, trace, "max_iterations", "")
              ELSE /\ steps' = [steps EXCEPT ![l] = trace]
                   /\ Goto(l, "ask")
                   /\ UNCHANGED <<reason, final>>
    /\ current' = [current EXCEPT ![l] = NoStep]
    /\ UNCHANGED <<schemas, route, connected, tools, messages>>

Next ==
    \/ RegisterMcpTools
    \/ \E l \in Loop : Begin(l) \/ Ask(l) \/ ExecuteTool(l) \/ EndStep(l)

Spec == Init /\ [][Next]_vars

-----------------------------------------------------------------------------
(* Whenever the model is asked, each of its messages with calls is followed  *)
(* by exactly the results of those calls, in their order, whichever of them  *)
(* failed; providers refuse a conversation where one is missing.             *)
EveryCallAnswered ==
    \A l \in Loop : stage[l] = "ask" =>
        messages[l] = FlattenSeq([i \in DOMAIN steps[l] |->
            <<[role |-> "assistant", calls |-> steps[l][i].calls]>>
            \o [j \in DOMAIN steps[l][i].calls |-> [role |-> "tool", call |-> steps[l][i].calls[j]]]])

SameThrice(trace, i) ==
    \A j \in i .. i + 2 : Len(trace[j].calls) = 1 /\ trace[j].calls = trace[i].calls

(* A loop ends as repetitive exactly when its last three steps are one and   *)
(* the same single call, which happens to no other three steps; and it ends  *)
(* in time, by its iterations only after all of them.                        *)
EndsForItsReason ==
    \A l \in Loop :
        LET n == Len(steps[l])
        IN  /\ n <= MaxIterations
            /\ \A i \in 1 .. n - 2 :
                SameThrice(steps[l], i) => i = n - 2 /\ reason[l] = "repetitive_tool_loop"
            /\ reason[l] = "repetitive_tool_loop" => n >= 3 /\ SameThrice(steps[l], n - 2)
            /\ reason[l] = "max_iterations" => n = MaxIterations

(* A loop never comes back with nothing while one of its tools observed      *)
(* something: what it falls back on ends with the last such observation.     *)
FallbackIsRecent ==
    \A l \in Loop : stage[l] = "done" /\ final[l] = Text(NoResults) =>
        \A i \in DOMAIN steps[l] : \A j \in DOMAIN steps[l][i].observations :
            steps[l][i].observations[j] \in {"", "ERROR"}

Safe == EveryCallAnswered /\ EndsForItsReason /\ FallbackIsRecent
=============================================================================
