SPECIFICATION FairSpec
CONSTANTS
    Mode = {"read-only", "confirm-destructive"}
    Tool = {"fs_read", "fs_write"}
    HookDirs <- MCHookDirs
    MaxEvents = 5
    MaxRestarts = 1
    Engine = {"OLLAMA", "ADK"}
    NoEngine = NoEngine
    Participants <- MCParticipants
    Agents <- MCAgents
    Collector = {1}
    MaxMessages = 2
    f1 = f1
    f2 = f2
    NoModel = NoModel
    Binary = Binary
    NoFile = NoFile
    Path <- MCPath
    Sensitive <- MCSensitive
    Letter = {"a", "b"}
    Beginnings <- MCBeginnings
    LocalRequests <- MCLocalRequests
    MaxLog = 2
    Completion = {1, 2}
    Asked = {NoModel}
    Switched = {"ollama/llama3.2:3b"}
    Providers <- MCProviders
    Server = {"s1", "s2"}
    Client = {1, 2}
    Discovery = 3
    Configs <- MCConfigs
    MaxSessions = 3
    Task = {1, 2}
    Driver = {"cli", "code", "ollama", "adk", "openhands"}
    Model = {"opus"}
    DefaultModel = "sonnet"
    Installed = {"sonnet"}
    HasApiKey = TRUE
    Blocks <- MCBlocks
    Keys <- MCKeys
    Similar = {}
    PriceOf <- MCPriceOf
    DefaultPrice = 3
    Free = {}
    SubTask = {1}
    Socket = {1}
    MaxPoll = 2
    MaxStarts = 2
    MaxRuns = 1
    ToolLoop = {1}
    LocalTools <- MCLocalTools
    Registrations <- MCRegistrations
    Allowed <- MCAllowed
    LoopAnswers <- MCLoopAnswers
    MaxIterations = 4
    Planning = {1, 2}
    Evaluator = {"e1", "e2"}
    Level = 0
    MaxDepth = 1
    MinScore = 5
    OkThreshold = 7
    RetryThreshold = 4
    MaxPlanAttempts = 2
    PlanAnswers <- MCPlanAnswers
    Grades <- MCGrades
    Texts <- MCTexts
    Rotation <- MCRotation
    Routable = {"m1"}
    GatewayModel = "m0"
    MinRounds = 3
    MaxRounds = 4
    Convergence = 85
    Rotates = TRUE
    Adaptive = TRUE
    Debaters <- MCDebaters
    Names = {"a", "b", "", "other"}
    Mentions <- MCMentions
    Goal = {1, 2}
    Enabled = TRUE
    Remote = TRUE
    Confidences = {6, 7}
    HaikuThreshold = 7
    Goals <- MCGoals
    Decompositions <- MCDecompositions
    Parts = {"chat", "conversation", "laee", "llm", "mcp", "drivers", "react", "gates", "learning", "growth", "market", "prompts", "memory", "insights", "discussion", "debate", "routing", "intent", "parallel", "limited", "tasks", "watchers"}
INVARIANTS
    
    ReadOnlyNeverWrites
    ConversationIsTheLog
    DirectlyDelivered
    ResolvedMeansAnswered
    SharedSafe
    
    
    
PROPERTIES
    ServicesEnd
CHECK_DEADLOCK FALSE
