--------------------------- MODULE OutsideServices ----------------------------
(* The services that act outside of the process, and those that look on: the *)
(* local execution engine, which changes files; the gateway to the models;   *)
(* the client of the tool servers; the drivers of the agents' processes and  *)
(* conversations; and the pollers of a task's row. None reads another's      *)
(* state: a step of the whole is a step of one of them.                      *)
EXTENDS Naturals, Sequences, FiniteSets

CONSTANTS
    Path, Sensitive, Binary, NoFile, Letter, Beginnings, LocalRequests, MaxLog, \* LocalExecution
    Completion, Asked, NoModel, Switched, Providers,                         \* LlmGateway
    Server, Client, Discovery, Configs, MaxSessions,                         \* McpClient
    Task, Driver, Model, DefaultModel, Installed, HasApiKey, Blocks,         \* AgentDrivers
    Keys, Similar, PriceOf, DefaultPrice, Free,
    SubTask, Socket, MaxPoll, MaxStarts, MaxRuns                             \* Watchers

VARIABLES
    mode, undoEnabled, fs, undoStack, audit, shell,
    keys, running, installed, defaultModel, callStage, asked, resolved, index, refused,
    costs, unsaved, switching,
    connections, opened, open, lost, at, config, adapters,
    stage, driver, model, child, holder, printed, result, settings, remote, disturbed,
    row, runs, hasFailed, monitor, listed, overlapped, recommendations, socket, polls, sent

Laee == INSTANCE LocalExecution WITH Requests <- LocalRequests
Llm == INSTANCE LlmGateway WITH Call <- Completion, stage <- callStage
Mcp == INSTANCE McpClient
Drivers == INSTANCE AgentDrivers
Watch == INSTANCE Watchers

\* The arguments a tool reads: paths, texts, and patterns of a letter or more.
LocalAction(a) ==
    /\ a.tool \in {"fs_write", "fs_edit", "fs_delete"} => a.path \in Path
    /\ a.tool = "fs_write" => a.content \in Seq(Letter)
    /\ a.tool = "fs_edit" => a.old \in Seq(Letter) \ {<<>>} /\ a.new \in Seq(Letter) \ {<<>>}
    /\ a.tool = "fs_move" => a.src \in Path /\ a.dst \in Path

ASSUME LocalAssumption ==
    /\ Binary \notin Seq(Letter) /\ NoFile \notin Seq(Letter)
    /\ Beginnings \subseteq [Path -> Seq(Letter) \cup {Binary, NoFile}]
    /\ \A a \in LocalRequests : LocalAction(a)

ASSUME McpAssumption == Discovery \notin Client /\ Configs \in Seq(Server)

ASSUME DriversAssumption ==
    /\ Driver \subseteq {"cli", "code", "adk", "ollama", "openhands"}
    /\ HasApiKey \in BOOLEAN
    /\ Keys \in Seq(DOMAIN PriceOf) /\ PriceOf \in [DOMAIN PriceOf -> Nat] /\ DefaultPrice \in Nat

ASSUME WatchersAssumption == IsFiniteSet(SubTask) /\ MaxPoll \in Nat /\ MaxStarts \in Nat

localVars == <<mode, undoEnabled, fs, undoStack, audit, shell>>
gatewayVars == <<keys, running, installed, defaultModel, callStage, asked, resolved, index,
                 refused, costs, unsaved, switching>>
serverVars == <<connections, opened, open, lost, at, config, adapters>>
driverVars == <<stage, driver, model, child, holder, printed, result, settings, remote, disturbed>>
watchVars == <<row, runs, hasFailed, monitor, listed, overlapped, recommendations, socket, polls, sent>>
outsideVars == <<localVars, gatewayVars, serverVars, driverVars, watchVars>>

OutsideInit == Laee!Init /\ Llm!Init /\ Mcp!Init /\ Drivers!Init /\ Watch!Init

ActLocally == Laee!Next /\ UNCHANGED <<gatewayVars, serverVars, driverVars, watchVars>>
AskModels == Llm!Next /\ UNCHANGED <<localVars, serverVars, driverVars, watchVars>>
UseServers == Mcp!Next /\ UNCHANGED <<localVars, gatewayVars, driverVars, watchVars>>
RunDrivers == Drivers!Next /\ UNCHANGED <<localVars, gatewayVars, serverVars, watchVars>>
LookOn == Watch!Next /\ UNCHANGED <<localVars, gatewayVars, serverVars, driverVars>>

OutsideNext == ActLocally \/ AskModels \/ UseServers \/ RunDrivers \/ LookOn
OutsideSpec == OutsideInit /\ [][OutsideNext]_outsideVars

-----------------------------------------------------------------------------
(* What acts outside of the process, and what looks on: local execution's    *)
(* UndoRestores, StackIsLogged and OnlyApprovedRan, the gateway's            *)
(* FallbackIsCheapest and ChargedOnce, the tool servers'                     *)
(* SessionsAccountedFor and DiscoveredInOrder, the drivers'                  *)
(* NothingOutlivesItsTask, SuccessIsGenuine and ReportedModelRan; and the    *)
(* pollers' MonitorAccountedFor and LastSentIsComplete.                      *)
OutsideSafe == Laee!Safe /\ Llm!Safe /\ Mcp!Safe /\ Drivers!Safe /\ Watch!Safe
=============================================================================
