----------------------------- MODULE ChatLedger ------------------------------
(* The chat sessions of the CLI: the use cases that start, resume, talk,     *)
(* run slash commands and tools, plan hooks, ask for approval, summarise,    *)
(* and the JSONL file that alone survives the process. Sessions are          *)
(* immutable values: an operation records events on copies, appends them to  *)
(* the file one by one, and only then hands the new session to the REPL. An  *)
(* exception or a crash in between ends the process, and the next one        *)
(* rebuilds the session from whatever the file holds. Texts are left out.    *)
EXTENDS FiniteSetsExt, Selections

CONSTANTS
    Mode,        \* the permission modes of the sessions started
    Tool,        \* the tools asked for
    HookDirs,    \* what .morphic/hooks may hold whenever it is read
    MaxEvents,   \* bound: no operation begins once the file is this long
    MaxRestarts  \* bound on the processes that continue the session

VARIABLES
    ledger,   \* the session's file
    session,  \* the session the process holds, NoSession without a process
    draft,    \* the operation's copy of it
    buffer,   \* events recorded and not appended yet
    todo,     \* what is left of the operation
    restarts,
    toolsRun  \* history: for every tool run, its name and the mode the session was started in

chatVars == <<ledger, session, draft, buffer, todo, restarts, toolsRun>>

NoSession == [next |-> 0, mode |-> "none", status |-> "none"]
Process == session # NoSession
AtPrompt == Process /\ todo = <<>>

-----------------------------------------------------------------------------
(* Hook files. A file is read as invalid JSON, as something that is not an   *)
(* object, or as an object with a type, a command and the flag "enabled".    *)
HookFile == [json : {"invalid", "other", "object"}, type : {"pre_tool", "post_tool", "pre_edit", "unknown"},
             command : {"empty", "secret", "usable"}, enabled : BOOLEAN]

ValidateFile(f) ==
    IF f.json # "object" \/ f.type = "unknown" \/ f.command # "usable" THEN "FAIL"
    ELSE IF f.enabled THEN "OK" ELSE "WARN"

DefinitionFor(f) ==
    IF f.json = "invalid" \/ f.json # "object" \/ f.type = "unknown" \/ f.command \in {"empty", "secret"}
    THEN {} ELSE {[hook_type |-> f.type, enabled |-> f.enabled]}

\* The files of a directory that define a hook of the type.
HooksFor(dir, type) ==
    Kept(dir, {i \in DOMAIN dir : \E h \in DefinitionFor(dir[i]) : h.hook_type = type})

ASSUME ChatAssumption ==
    /\ "none" \notin Mode
    /\ HookDirs \subseteq Seq(HookFile)
    /\ MaxRestarts \in Nat

-----------------------------------------------------------------------------
(* What an operation is made of.                                             *)
Record(types) == [do |-> "record", types |-> types]
Deliberate == [do |-> "deliberate"]
ListEngines == [do |-> "await"]
RunTool(tool) == [do |-> "tool", tool |-> tool]
PlanHooks(type) == [do |-> "hooks", type |-> type]
Save == [do |-> "save"]
Become(status) == [do |-> "status", status |-> status]
Leave == [do |-> "leave"]

DiscoverContext == <<Record(<<"context_indexed">>), Save>>
SendMessage == <<Record(<<"user_message">>), Deliberate, Save>>
SlashCommand(engines) ==
    <<Record(<<"slash_command">>)>>
    \o (IF engines THEN <<ListEngines>> ELSE <<>>)
    \o <<Record(<<"assistant_message">>), Save>>
Quit == <<Record(<<"slash_command", "session_ended">>), Become("ended"), Save, Leave>>
RequestApproval == <<Become("waiting_for_approval"), Record(<<"approval_requested">>), Save>>

\* With hooks the tool's events are saved before the hooks that follow it are planned.
ExecuteTool(tool, hooks, diff, verify) ==
    (IF hooks THEN <<PlanHooks("pre_tool"), Save>> ELSE <<>>)
    \o (IF diff THEN <<Record(<<"diff_proposed">>)>> ELSE <<>>)
    \o <<Record(<<"tool_call_requested">>), RunTool(tool), Record(<<"tool_call_completed">>)>>
    \o (IF verify THEN <<Record(<<"verification_result">>)>> ELSE <<>>)
    \o <<Save>>
    \o (IF hooks THEN <<PlanHooks("post_tool"), Save>> ELSE <<>>)

\* A tool of the caller's choice with the risk the caller gives it.
ReadOnlyTools == {"fs_read", "fs_list", "grep", "search", "git_status", "git_diff"}
BlockedByReadOnly_RiskAlone(s, tool, risky) == s.mode = "read-only" /\ risky
BlockedByReadOnly(s, tool, risky) ==
    s.mode = "read-only" /\ (risky \/ tool \notin ReadOnlyTools)

-----------------------------------------------------------------------------
ChatInit ==
    /\ ledger = <<>>
    /\ session = NoSession /\ draft = NoSession
    /\ buffer = <<>> /\ todo = <<>>
    /\ restarts = 0 /\ toolsRun = {}

Number(types, s, tag) ==
    [i \in DOMAIN types |-> [seq |-> s.next + i - 1, type |-> types[i], mode |-> s.mode, tag |-> tag]]

RecordEvents(types, tag) ==
    /\ buffer' = buffer \o Number(types, draft, tag)
    /\ draft' = [draft EXCEPT !.next = @ + Len(types)]

Start(mode) ==
    /\ ~Process /\ ledger = <<>>
    /\ session' = [next |-> 1, mode |-> mode, status |-> "active"]
    /\ ledger' = Number(<<"session_started">>, [session' EXCEPT !.next = 0], "nobody")
    /\ draft' = session'
    /\ todo' = DiscoverContext
    /\ UNCHANGED <<buffer, restarts, toolsRun>>

\* A session is rebuilt from its file: number, mode and whether it ever ended.
NextNumber_Last == Max({ledger[i].seq : i \in DOMAIN ledger})
NextNumber == 1 + Max({ledger[i].seq : i \in DOMAIN ledger})

Rebuilt ==
    [next |-> NextNumber,
     mode |-> IF ledger[1].type = "session_started" THEN ledger[1].mode ELSE "confirm-destructive",
     status |-> IF \E i \in DOMAIN ledger : ledger[i].type = "session_ended" THEN "ended" ELSE "active"]

Resume ==
    /\ ~Process /\ ledger # <<>>
    /\ restarts < MaxRestarts
    /\ restarts' = restarts + 1
    /\ session' = Rebuilt
    /\ draft' = session'
    /\ todo' = DiscoverContext
    /\ UNCHANGED <<ledger, buffer, toolsRun>>

Begin(operation) ==
    /\ AtPrompt /\ Len(ledger) < MaxEvents
    /\ todo' = operation
    /\ draft' = session
    /\ UNCHANGED <<ledger, session, buffer, restarts, toolsRun>>

Talk == Begin(SendMessage)
Command == Begin(Quit) \/ \E engines \in BOOLEAN : Begin(SlashCommand(engines))
AskApproval == Begin(RequestApproval)
UseTool ==
    \E tool \in Tool, risky, hooks, diff, verify \in BOOLEAN :
        /\ ~BlockedByReadOnly(session, tool, risky)
        /\ Begin(ExecuteTool(tool, hooks, diff, verify))

\* The step of the operation that the process stands at.
Doing(what) == todo # <<>> /\ Head(todo).do = what

DoRecord ==
    /\ Doing("record")
    /\ RecordEvents(Head(todo).types, "nobody")
    /\ todo' = Tail(todo)
    /\ UNCHANGED <<ledger, session, restarts, toolsRun>>

DoStatus ==
    /\ Doing("status")
    /\ draft' = [draft EXCEPT !.status = Head(todo).status]
    /\ todo' = Tail(todo)
    /\ UNCHANGED <<ledger, session, buffer, restarts, toolsRun>>

DoDeliberate_AnswerFirst ==
    /\ Doing("deliberate")
    /\ \E role \in {"leader", "planner"} :
        RecordEvents(<<"assistant_message", "council_argument", "council_argument", "council_argument",
                       "council_decision">>, role)
    /\ todo' = Tail(todo)
    /\ UNCHANGED <<ledger, session, restarts, toolsRun>>

\* Three roles are asked in turn through the router; when one of them fails
\* the local runtime answers for all, and selects its planner.
DoDeliberate ==
    /\ Doing("deliberate")
    /\ \E role \in {"leader", "planner"} :
        RecordEvents(<<"council_argument", "council_argument", "council_argument",
                       "council_decision", "assistant_message">>, role)
    /\ todo' = Tail(todo)
    /\ UNCHANGED <<ledger, session, restarts, toolsRun>>

DoAwait ==
    /\ Doing("await")
    /\ todo' = Tail(todo)
    /\ UNCHANGED <<ledger, session, draft, buffer, restarts, toolsRun>>

DoTool ==
    /\ Doing("tool")
    /\ toolsRun' = toolsRun \cup {[mode |-> ledger[1].mode, tool |-> Head(todo).tool]}
    /\ todo' = Tail(todo)
    /\ UNCHANGED <<ledger, session, draft, buffer, restarts>>

\* Every file is validated, then those of the type are planned or skipped.
DoHooks ==
    /\ Doing("hooks")
    /\ \E dir \in HookDirs :
        /\ \A i \in DOMAIN dir : ValidateFile(dir[i]) # "FAIL"
        /\ LET hooks == HooksFor(dir, Head(todo).type)
           IN  RecordEvents([i \in DOMAIN hooks |->
                   IF hooks[i].enabled THEN "hook_execution_planned" ELSE "hook_execution_skipped"], "nobody")
    /\ todo' = Tail(todo)
    /\ UNCHANGED <<ledger, session, restarts, toolsRun>>

\* One line of the file; the session is handed over with the operation's last line.
DoSave ==
    /\ Doing("save")
    /\ IF buffer = <<>>
       THEN todo' = Tail(todo) /\ UNCHANGED <<ledger, buffer>>
       ELSE /\ ledger' = Append(ledger, Head(buffer))
            /\ buffer' = Tail(buffer)
            /\ todo' = IF Len(buffer) = 1 THEN Tail(todo) ELSE todo
    /\ session' = IF todo' = <<>> THEN draft ELSE session
    /\ UNCHANGED <<draft, restarts, toolsRun>>

\* The process ends: a crash, an exception of a council, a registry, a hook
\* directory that does not validate or a tool, end of input, or /quit.
Stop ==
    /\ Process
    /\ session' = NoSession /\ draft' = NoSession
    /\ buffer' = <<>> /\ todo' = <<>>
    /\ UNCHANGED <<ledger, restarts, toolsRun>>

Summarize ==
    /\ ~Process /\ ledger # <<>> /\ Len(ledger) < MaxEvents
    /\ ledger' = Append(ledger, [seq |-> Rebuilt.next, type |-> "session_summary",
                                 mode |-> Rebuilt.mode, tag |-> "nobody"])
    /\ UNCHANGED <<session, draft, buffer, todo, restarts, toolsRun>>

ChatNext ==
    \/ \E mode \in Mode : Start(mode)
    \/ Resume \/ Talk \/ Command \/ AskApproval \/ UseTool
    \/ DoRecord \/ DoStatus \/ DoDeliberate \/ DoAwait \/ DoTool \/ DoHooks \/ DoSave
    \/ Stop \/ Summarize

ChatSpec == ChatInit /\ [][ChatNext]_chatVars

-----------------------------------------------------------------------------
ChatEventType ==
    {"session_started", "context_indexed", "user_message", "assistant_message", "slash_command",
     "council_started", "council_argument", "council_decision", "tool_call_requested",
     "approval_requested", "approval_resolved", "tool_call_completed", "diff_proposed",
     "verification_started", "verification_result", "hook_execution_planned",
     "hook_execution_skipped", "memory_candidate", "session_summary", "session_ended"}
Status == {"active", "waiting_for_approval", "ended"}
Session == [next : Nat, mode : Mode, status : Status]
Event == [seq : Nat, type : ChatEventType, mode : Mode, tag : {"nobody", "leader", "planner"}]

\* What an operation that uses the given tools may be made of.
Step(tools) ==
    [do : {"record"}, types : Seq(ChatEventType)]
    \cup [do : {"deliberate", "await", "save", "leave"}]
    \cup [do : {"tool"}, tool : tools]
    \cup [do : {"hooks"}, type : {"pre_tool", "post_tool"}]
    \cup [do : {"status"}, status : Status]

ChatTypeOK ==
    /\ ledger \in Seq(Event) /\ buffer \in Seq(Event)
    /\ {session, draft} \subseteq Session \cup {NoSession}
    /\ todo \in Seq(Step(Tool))
    /\ restarts \in 0..MaxRestarts
    /\ toolsRun \subseteq [mode : Mode, tool : Tool]

(* Through every crash, exception and restart the file tells a story that    *)
(* can be continued: its numbers run from 0 without gap or repetition, the   *)
(* process that continues it continues the numbers, and a council's answer   *)
(* follows the decision of the same council.                                 *)
LedgerReplays ==
    /\ \A i \in DOMAIN ledger : ledger[i].seq = i - 1
    /\ AtPrompt => session.next = Len(ledger)
    /\ \A i \in DOMAIN ledger :
        (ledger[i].type = "assistant_message" /\ ledger[i].tag # "nobody") =>
            /\ i > 1 /\ ledger[i - 1].type = "council_decision"
            /\ ledger[i - 1].tag = ledger[i].tag

(* A session that was started read-only never runs a tool that changes       *)
(* anything, whatever resumes it.                                            *)
ReadOnlyNeverWrites == \A run \in toolsRun : run.mode = "read-only" => run.tool \in ReadOnlyTools
=============================================================================
