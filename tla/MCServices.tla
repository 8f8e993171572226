----------------------------- MODULE MCServices ------------------------------
(* The services beside the task engines, a small instance of each. None      *)
(* reads another's state, so a behaviour is one of a single service: part    *)
(* says of which. The chats, the conversations, OutsideServices and          *)
(* ReasoningServices, about which there are theorems, have variables of      *)
(* their own; for the others, the registers hold the variables of the        *)
(* service that moves, in the order its module declares them.                *)
EXTENDS ChatLedger, A2AConversation, OutsideServices, ReasoningServices, TLC

CONSTANTS f1, f2, Parts

VARIABLES
    part,
    r1, r2, r3, r4, r5, r6, r7, r8, r9, r10, r11

-----------------------------------------------------------------------------
(* A chat: a directory without hooks, one that plans one and skips another,  *)
(* one that does not validate. A conversation: an agent for code and one for *)
(* reviews.                                                                  *)
Hook(type, command, enabled) ==
    [json |-> "object", type |-> type, command |-> command, enabled |-> enabled]
MCHookDirs ==
    {<<>>, <<Hook("pre_tool", "usable", TRUE), Hook("post_tool", "usable", FALSE)>>,
     <<Hook("pre_edit", "usable", TRUE), Hook("post_tool", "secret", TRUE)>>}

Agent(engine, capability) == [engine |-> engine, capabilities |-> {capability}]
MCAgents == {Agent("ADK", "code"), Agent("OLLAMA", "review")}
MCParticipants == {<<"OLLAMA", "ADK">>}

LocalRequest(tool, path, old, new) ==
    [tool |-> tool, path |-> path, recursive |-> FALSE, dangerous |-> FALSE,
     content |-> <<"a">>, old |-> <<old>>, new |-> <<new>>, src |-> f1, dst |-> f2]
MCPath == {f1, f2}
MCSensitive == {f2}
MCBeginnings == {(f1 :> <<"a", "b">>) @@ (f2 :> NoFile), (f1 :> <<"b", "a">>) @@ (f2 :> Binary)}
MCLocalRequests ==
    {LocalRequest("fs_edit", f1, "a", "b"),
     LocalRequest("fs_write", f2, "a", "b"),
     [LocalRequest("fs_delete", f1, "a", "b") EXCEPT !.recursive = TRUE],
     LocalRequest("fs_move", "-", "a", "b"), LocalRequest("fs_watch", "-", "a", "b")}

MCProviders == {{"anthropic"}}

MCConfigs == <<"s1", "s2">>

Block(language, python) == [language |-> language, python |-> python]
MCBlocks == {<<Block("", TRUE), Block("bash", FALSE)>>, <<Block("rust", FALSE)>>}
MCKeys == <<"sonnet", "opus">>
MCPriceOf == ("opus" :> 15) @@ ("sonnet" :> 3)

MCLocalTools == <<"fs_read">>
ToolCall(tool) == [tool |-> tool, args |-> 0]
MCRegistrations == <<[server |-> "s1", tools |-> <<"web">>]>>
MCAllowed == {{}, {"fs_read"}}
MCLoopAnswers ==
    {[content |-> "", calls |-> <<>>],
     [content |-> "", calls |-> <<ToolCall("fs_read")>>],
     [content |-> "said", calls |-> <<ToolCall("web"), ToolCall("fs_read")>>]}

PlanStep(description, terminal, score, conditional) ==
    [description |-> description, is_terminal |-> terminal, score |-> score, conditional |-> conditional]
MCPlanAnswers == {<<PlanStep("s1", TRUE, 3, FALSE), PlanStep("s2", TRUE, 8, FALSE)>>}
MCGrades == {<<2, 2, 2>>, <<8, 8, 11>>}

MCTexts == {[words |-> {1, 2}, agrees |-> 0, objects |-> 0],
            [words |-> {1, 2, 3}, agrees |-> 1, objects |-> 0]}
MCRotation == <<"m1", "m2">>

MCDebaters == <<"a", "b">>
MCMentions == ("a" :> {"a"}) @@ ("b" :> {"b"}) @@ ("" :> {"a", "b"}) @@ ("other" :> {})

Aim(named, roles, concerns, tools) ==
    [models |-> named, roles |-> roles, short |-> FALSE, concerns |-> concerns, simple |-> FALSE,
     complex |-> FALSE, words |-> 8, tools |-> tools]
MCGoals == {Aim(m, r, c, t) : m \in {<<>>, <<"m1">>, <<"m1", "m2">>}, r \in {<<>>, <<"judge", "critic">>},
                              c \in {0, 2, 3}, t \in BOOLEAN}
Item(description, name, deps, produces, consumes) ==
    [description |-> description, model |-> name, role |-> "poet", deps |-> deps,
     produces |-> produces, consumes |-> consumes]
MCDecompositions ==
    {<<>>, <<Item("short", "m1", {}, {}, {})>>,
     <<Item("long", "m1", {}, {1}, {}), Item("long", "m9", {1, 7}, {}, {1})>>,
     <<Item("long", "m1", {2}, {}, {}), Item("long", "m2", {1}, {}, {})>>,
     <<Item("long", "m1", {}, {}, {}), Item("long", "m1", {}, {}, {}), Item("long", "m1", {1}, {}, {})>>}

Did(step, ok) == [step |-> step, ok |-> ok]
Learning == INSTANCE FractalLearning WITH
    Execution <- {1, 2, 3},
    Histories <- {<<Did("s1", TRUE)>>, <<Did("s1", FALSE)>>},
    Cost <- {1, 2}, MaxErrors <- 1, MaxPaths <- 1,
    nodes <- r1, cost <- r2, todo <- r3, read <- r4, errors <- r5, paths <- r6, saved <- r7,
    told <- r8

Outcome(engine, success) ==
    [task_type |-> "code", model |-> "m", engine |-> engine, success |-> success, error |-> IF success THEN "" ELSE "e"]
Growth == INSTANCE Evolution WITH
    Update <- {1, 2},
    Outcomes <- {Outcome("ADK", FALSE), Outcome("OLLAMA", TRUE)},
    MinSamples <- 1, MinFailures <- 1, Recurring <- 1, Recent <- 2, MaxRecords <- 2,
    records <- r1, prefs <- r2, rules <- r3, stage <- r4, seen <- r5, gaps <- r6

Offer(publisher, transport, suspicious) ==
    [publisher |-> publisher, transport |-> transport, download_count |-> 1000, description |-> TRUE,
     source_url |-> FALSE, install_command |-> TRUE, suspicious |-> suspicious]
Market == INSTANCE ToolMarketplace WITH
    Catalog <- {Offer("trusted", "stdio", FALSE), Offer("other", "http", FALSE), Offer("known", "stdio", TRUE)},
    Request <- {1, 2}, Threshold <- 1, MaxResults <- 2,
    stage <- r1, purpose <- r2, offered <- r3, chosen <- r4, installed <- r5, disk <- r6,
    running <- r7, removed <- r8

Prompts == INSTANCE PromptVersions WITH
    MinSamples <- 2, Cost <- {1, 3}, MaxVersions <- 2, MaxOutcomes <- 3,
    versions <- r1

Mem == INSTANCE Memory WITH
    Proc <- {1, 2}, Texts <- {<<8, 8, 8>>}, Message <- <<8>>, Answers <- {},
    Topic <- {"t"}, Changes <- {"x" :> 1, "x" :> NoFile}, Gone <- NoFile, HasGraph <- TRUE,
    MaxL1 <- 1, ListLimit <- 2, TopK <- 1, Budgets <- {5},
    MaxEntries <- 3, Settled <- {1}, MaxFacts <- 1,
    l1 <- r1, rows <- r2, facts <- r3, expired <- r4, at <- r5, made <- r6, kept <- r7,
    earlier <- r8, lost <- r9, gaps <- r10

Said(kind, words, negated) ==
    [kind |-> kind, words |-> words, negated |-> negated,
     hits |-> [procedural |-> 1, semantic |-> 2, working |-> 0, episodic |-> 0]]
Ins == INSTANCE Insights WITH
    Extraction <- {1, 2}, Engine <- {"OLLAMA", "CODEX_CLI"},
    Outputs <- {<<Said("decision", {"a", "b", "c"}, FALSE), Said("decision", {"a", "b"}, TRUE),
                  Said("file", {"a", "b", "c", "d"}, FALSE)>>},
    TokenThreshold <- 60, VectorThreshold <- 85, ConflictThreshold <- 40, Budget <- 2,
    stage <- r1, engine <- r2, mode <- r3, found <- r4, pending <- r5, stored <- r6, copy <- r7,
    entries <- r8, row <- r9, shown <- r10

TwoNodes(t) == {"a", "b"}
OneNode(t) == IF t = "t1" THEN {"a"} ELSE {}
One(t) == 1
Two(t) == 2
TwoOfOne(t) == IF t = "t1" THEN 2 ELSE 0
Parallel == INSTANCE SharedEngines WITH
    Task <- {"t1"}, Nodes <- TwoNodes, NoTask <- "none", Limit <- Two, DefaultLimit <- 1,
    Bypassed <- {"t1"}, MaxRetries <- 2,
    stage <- r1, fractal <- r2, permits <- r3, inner <- r4, had <- r5, call <- r6, sub <- r7,
    node <- r8, row <- r9, table <- r10, met <- r11

Limited == INSTANCE SharedEngines WITH
    Task <- {"t1"}, Nodes <- TwoNodes, NoTask <- "none", Limit <- One, DefaultLimit <- 2,
    Bypassed <- {}, MaxRetries <- 2,
    stage <- r1, fractal <- r2, permits <- r3, inner <- r4, had <- r5, call <- r6, sub <- r7,
    node <- r8, row <- r9, table <- r10, met <- r11

Tasks == INSTANCE SharedEngines WITH
    Task <- {"t1", "t2"}, Nodes <- OneNode, NoTask <- "none", Limit <- TwoOfOne, DefaultLimit <- 1,
    Bypassed <- {"t1", "t2"}, MaxRetries <- 1,
    stage <- r1, fractal <- r2, permits <- r3, inner <- r4, had <- r5, call <- r6, sub <- r7,
    node <- r8, row <- r9, table <- r10, met <- r11

ASSUME IdsAreUnique ==
    Parallel!EnginesAssumption /\ Limited!EnginesAssumption /\ Tasks!EnginesAssumption

-----------------------------------------------------------------------------
Empty11 == r11 = 0
Empty10 == r10 = 0 /\ Empty11
Empty9 == r9 = 0 /\ Empty10
Empty8 == r8 = 0 /\ Empty9
Empty7 == r7 = 0 /\ Empty8
Empty6 == r6 = 0 /\ Empty7
Empty5 == r5 = 0 /\ Empty6
Empty4 == r4 = 0 /\ Empty5
Empty3 == r3 = 0 /\ Empty4
Empty2 == r2 = 0 /\ Empty3
Empty1 == r1 = 0 /\ Empty2
Last11 == <<r11>>
Last10 == <<r10, Last11>>
Last9 == <<r9, Last10>>
Last8 == <<r8, Last9>>
Last7 == <<r7, Last8>>
Last6 == <<r6, Last7>>
Last5 == <<r5, Last6>>
Last4 == <<r4, Last5>>
Last3 == <<r3, Last4>>
Last2 == <<r2, Last3>>
Last1 == <<r1, Last2>>

registers == Last1
beside == <<outsideVars, reasoningVars, chatVars, conversationVars>>
vars == <<part, registers, beside>>
Outside == {"laee", "llm", "mcp", "drivers", "watchers"}
Reasoning == {"react", "gates", "discussion", "debate", "routing", "intent"}

\* Only the service that moves has a choice of beginnings.
Init ==
    /\ part \in Parts
    /\ OutsideInit /\ ReasoningInit /\ ChatInit /\ ConversationInit
    /\ part # "laee" => mode = "full_auto" /\ undoEnabled /\ fs[f2] = NoFile
    /\ part # "llm" => keys = {"anthropic"}
    /\ part # "intent" => goal = Aim(<<>>, <<>>, 0, FALSE)
    /\ \/ part \in Outside \cup Reasoning \cup {"chat", "conversation"} /\ Empty1
       \/ part = "learning" /\ Learning!Init /\ Empty9
       \/ part = "growth" /\ Growth!Init /\ Empty7
       \/ part = "market" /\ Market!Init /\ Empty9
       \/ part = "prompts" /\ Prompts!Init /\ Empty2
       \/ part = "memory" /\ Mem!Init /\ Empty11
       \/ part = "insights" /\ Ins!Init /\ Empty11
       \/ part = "parallel" /\ Parallel!Init
       \/ part = "limited" /\ Limited!Init
       \/ part = "tasks" /\ Tasks!Init

NextOutside ==
    /\ \/ part = "laee" /\ ActLocally
       \/ part = "llm" /\ AskModels
       \/ part = "mcp" /\ UseServers
       \/ part = "drivers" /\ RunDrivers
       \/ part = "watchers" /\ LookOn
    /\ UNCHANGED <<part, registers, reasoningVars, chatVars, conversationVars>>

NextReasoning ==
    /\ \/ part = "react" /\ UseTools
       \/ part = "gates" /\ VetPlans
       \/ part = "discussion" /\ Discuss
       \/ part = "debate" /\ HoldDebate
       \/ part = "routing" /\ RouteGoals
       \/ part = "intent" /\ AnalyzeGoal
    /\ UNCHANGED <<part, registers, outsideVars, chatVars, conversationVars>>

Next ==
    \/ NextOutside
    \/ NextReasoning
    \/ part = "learning" /\ Learning!Next /\ UNCHANGED <<part, Last9, beside>>
    \/ part = "growth" /\ Growth!Next /\ UNCHANGED <<part, Last7, beside>>
    \/ part = "market" /\ Market!Next /\ UNCHANGED <<part, Last9, beside>>
    \/ part = "prompts" /\ Prompts!Next /\ UNCHANGED <<part, Last2, beside>>
    \/ part = "memory" /\ Mem!Next /\ UNCHANGED <<part, Last11, beside>>
    \/ part = "insights" /\ Ins!Next /\ UNCHANGED <<part, Last11, beside>>
    \/ part = "parallel" /\ Parallel!Next /\ UNCHANGED <<part, beside>>
    \/ part = "limited" /\ Limited!Next /\ UNCHANGED <<part, beside>>
    \/ part = "tasks" /\ Tasks!Next /\ UNCHANGED <<part, beside>>
    \/ part = "chat" /\ ChatNext /\ UNCHANGED <<part, registers, outsideVars, reasoningVars, conversationVars>>
    \/ part = "conversation" /\ ConversationNext /\ UNCHANGED <<part, registers, outsideVars, reasoningVars, chatVars>>

\* The coroutines that share the engines go on.
Progress ==
    /\ \/ part = "parallel" /\ Parallel!Progress
       \/ part = "limited" /\ Limited!Progress
       \/ part = "tasks" /\ Tasks!Progress
    /\ UNCHANGED <<part, beside>>

Fairness == Watch!Fairness /\ WF_vars(Progress)

FairSpec == Init /\ [][Next]_vars /\ Fairness

-----------------------------------------------------------------------------
(* The engines all tasks share: NothingLeaks, OthersOnlyWhenMet and          *)
(* RowsNotFlattered.                                                         *)
SharedSafe ==
    /\ part = "parallel" => Parallel!Safe
    /\ part = "limited" => Limited!Safe
    /\ part = "tasks" => Tasks!Safe

(* What was begun ends: the pollers of a task's row (WatchersEnd), and the   *)
(* tasks on the shared engines (TasksEnd).                                   *)
ServicesEnd ==
    /\ Watch!WatchersEnd
    /\ []<>(/\ part = "parallel" => Parallel!Quiet
            /\ part = "limited" => Limited!Quiet
            /\ part = "tasks" => Tasks!Quiet)

(* What executions teach: the learner's CountsAreEarned, CostsAreReal and    *)
(* LessonsAreTrue, the updates' RulesAreWarranted, SecondRuleIsARace and     *)
(* PreferencesAreSamples, the installer's OnlyVettedToolsInstalled and       *)
(* TableIsBacked, the prompt versions' AdviceIsConsistent; what is           *)
(* remembered: NothingVanishes, StateIsLatest, BudgetsRespected and          *)
(* DiffsApply; and what is drawn into memory: SurvivorsStandApart,           *)
(* DecisionsAreRemembered and ContextIsCurrent.                              *)
KnowledgeSafe ==
    /\ part = "learning" => Learning!Safe
    /\ part = "growth" => Growth!Safe
    /\ part = "market" => Market!Safe
    /\ part = "prompts" => Prompts!Safe
    /\ part = "memory" => Mem!Safe
    /\ part = "insights" => Ins!Safe

(* A node of a plan is given the result of its own subtask.                  *)
NodeKeepsItsOwnResult == part = "parallel" => Parallel!NodeKeepsItsOwnResult
=============================================================================
