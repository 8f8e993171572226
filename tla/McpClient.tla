------------------------------ MODULE McpClient ------------------------------
(* The MCP client: sessions with tool servers over stdio. A session is       *)
(* opened, initialised and only then stored; it is taken out before it is    *)
(* closed; a call looks the session up and waits for the server. Discovery   *)
(* goes through the configured servers in turn and skips those that fail.    *)
EXTENDS Naturals, Sequences, SequencesExt

CONSTANTS
    Server,
    Client,      \* coroutines that connect, call and disconnect
    Discovery,   \* the coroutine that discovers tools
    Configs,     \* the servers it is given, in order
    MaxSessions  \* bound on the sessions opened

VARIABLES
    connections,  \* the stored session of each server, 0 for none
    opened,       \* number of sessions opened so far
    open,         \* sessions whose contexts have been entered and not left
    lost,         \* history: open sessions that no code will close
    at,           \* what each coroutine waits for, with which server and session
    config,       \* discovery's place in Configs
    adapters      \* servers whose tools it has registered

vars == <<connections, opened, open, lost, at, config, adapters>>

Idle == [op |-> "idle", server |-> "-", session |-> 0]
Goto(c, op, s, session) == at' = [at EXCEPT ![c] = [op |-> op, server |-> s, session |-> session]]
Rest(c) == at' = [at EXCEPT ![c] = Idle]

Init ==
    /\ connections = [s \in Server |-> 0]
    /\ opened = 0 /\ open = {} /\ lost = {}
    /\ at = [c \in Client \cup {Discovery} |-> Idle]
    /\ config = 1 /\ adapters = <<>>

-----------------------------------------------------------------------------
\* A connected server is left alone; discovery goes on to its tools.
Connect(c, s) ==
    \/ /\ connections[s] # 0
       /\ IF c = Discovery THEN Goto(c, "list", s, connections[s]) ELSE UNCHANGED at
       /\ UNCHANGED <<connections, opened, open, lost>>
    \/ /\ connections[s] = 0 /\ opened < MaxSessions
       /\ opened' = opened + 1
       /\ open' = open \cup {opened'}
       /\ Goto(c, "initialize", s, opened')
       /\ UNCHANGED <<connections, lost>>

\* A session that another coroutine has stored meanwhile is overwritten.
Initialized(c) ==
    /\ at[c].op = "initialize"
    /\ connections' = [connections EXCEPT ![at[c].server] = at[c].session]
    /\ lost' = IF connections[at[c].server] = 0 THEN lost ELSE lost \cup {connections[at[c].server]}
    /\ IF c = Discovery THEN Goto(c, "list", at[c].server, at[c].session) ELSE Rest(c)
    /\ UNCHANGED <<opened, open, config, adapters>>

\* Discovery logs an error and goes on with the next server.
NextConfig(c) == config' = IF c = Discovery THEN config + 1 ELSE config

InitializeFails(c) ==
    /\ at[c].op = "initialize"
    /\ lost' = lost \cup {at[c].session}
    /\ Rest(c) /\ NextConfig(c)
    /\ UNCHANGED <<connections, opened, open, adapters>>

Discover ==
    /\ at[Discovery] = Idle /\ config <= Len(Configs)
    /\ Connect(Discovery, Configs[config])
    /\ UNCHANGED <<config, adapters>>

ToolsListed ==
    /\ at[Discovery].op = "list"
    /\ adapters' = IF at[Discovery].session \in open THEN Append(adapters, at[Discovery].server) ELSE adapters
    /\ Rest(Discovery) /\ NextConfig(Discovery)
    /\ UNCHANGED <<connections, opened, open, lost>>

\* list_tools, call_tool, list_resources and read_resource.
Call(c, s) ==
    /\ connections[s] # 0
    /\ Goto(c, "call", s, connections[s])
    /\ UNCHANGED <<connections, opened, open, lost, config, adapters>>

CallEnds(c) ==
    /\ at[c].op = "call"
    /\ Rest(c)
    /\ UNCHANGED <<connections, opened, open, lost, config, adapters>>

Disconnect_ClosesFirst(c, s) ==
    /\ connections[s] # 0
    /\ open' = open \ {connections[s]}
    /\ Goto(c, "close", s, connections[s])
    /\ UNCHANGED <<connections, opened, lost, config, adapters>>

Disconnect(c, s) ==
    /\ connections[s] # 0
    /\ connections' = [connections EXCEPT ![s] = 0]
    /\ Goto(c, "close", s, connections[s])
    /\ UNCHANGED <<opened, open, lost, config, adapters>>

\* Both contexts are left; an error of theirs is logged.
Closed(c) ==
    /\ at[c].op = "close"
    /\ open' = open \ {at[c].session}
    /\ Rest(c)
    /\ UNCHANGED <<connections, opened, lost, config, adapters>>

Next ==
    \/ \E c \in Client, s \in Server :
        /\ at[c] = Idle
        /\ \/ Connect(c, s) /\ UNCHANGED <<config, adapters>>
           \/ Call(c, s)
           \/ Disconnect(c, s)
    \/ \E c \in Client \cup {Discovery} : Initialized(c) \/ InitializeFails(c)
    \/ \E c \in Client : CallEnds(c) \/ Closed(c)
    \/ Discover \/ ToolsListed

Spec == Init /\ [][Next]_vars

-----------------------------------------------------------------------------
(* Whoever looks a connection up finds a session that is open, even while    *)
(* another coroutine disconnects; and every open session is stored, in the   *)
(* hands of a coroutine, or lost by a failed or an overtaken connect.        *)
SessionsAccountedFor ==
    /\ \A s \in Server : connections[s] # 0 => connections[s] \in open
    /\ open = ({connections[s] : s \in Server} \ {0}) \cup lost
              \cup {at[c].session : c \in {d \in DOMAIN at : at[d].op \in {"initialize", "close"}}}

(* Discovery registers tools in the order of its configuration, each         *)
(* server's at most once per entry.                                          *)
DiscoveredInOrder ==
    /\ Len(adapters) < config
    /\ \E f \in [DOMAIN adapters -> 1 .. config - 1] :
        \A i \in DOMAIN adapters : Configs[f[i]] = adapters[i] /\ (i > 1 => f[i - 1] < f[i])

Safe == SessionsAccountedFor /\ DiscoveredInOrder
=============================================================================
