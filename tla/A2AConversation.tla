--------------------------- MODULE A2AConversation ---------------------------
(* Agent-to-agent messaging: one conversation of the API process, the        *)
(* in-memory broker with an inbox per engine, the registry of agents and the *)
(* router that picks a receiver. Every call of the in-memory adapters runs   *)
(* through without giving way, except waiting for a conversation's event and *)
(* for an inbox: a request of the API is one step, and collecting replies is *)
(* two with a wait between them.                                             *)
EXTENDS SequencesExt, Selections

CONSTANTS
    Engine,        \* engines that send, receive and are registered
    NoEngine,      \* None: no receiver given, or a broadcast
    Participants,  \* the sequences of participants a conversation may be created with
    Agents,        \* the agents that may register: [engine, capabilities]
    Collector,     \* concurrent requests that collect replies
    MaxMessages    \* bound on the conversation's messages

VARIABLES
    participants, status, messages,  \* the conversation
    expired,                         \* its time to live has passed
    log,                             \* the broker's messages of the conversation
    announced,                       \* the broker's event of the conversation
    inbox,                           \* a queue per engine the broker knows
    received,                        \* history: what each engine has taken from its inbox
    agents,                          \* the registry, in order of registration
    collecting                       \* whether each collector waits, may go on, or is idle

conversationVars == <<participants, status, messages, expired, log, announced, inbox,
          received, agents, collecting>>

conversation == <<participants, status, messages, expired>>
broker == <<log, announced, inbox, received>>

-----------------------------------------------------------------------------
(* The router.                                                               *)
Action == {"solve", "review", "synthesize", "delegate", "critique", "inform"}

WantedCapability(action) ==
    CASE action = "solve" -> "code"
      [] action \in {"review", "critique"} -> "review"
      [] OTHER -> action

\* The first agent with the capability, else the first; never the sender's engine.
\* The use case passes no affinities.
SelectReceiver(action, candidates, exclude) ==
    LET others == {i \in DOMAIN candidates : candidates[i].engine # exclude}
        capable == {i \in others : WantedCapability(action) \in candidates[i].capabilities}
    IN  IF others = {} THEN NoEngine
        ELSE candidates[Min(IF capable = {} THEN others ELSE capable)].engine

ASSUME ConversationAssumption ==
    /\ NoEngine \notin Engine
    /\ Participants \subseteq Seq(Engine)
    /\ \A a \in Agents : a.engine \in Engine

-----------------------------------------------------------------------------
(* The conversation manager.                                                 *)
Requests == {i \in DOMAIN messages : messages[i].type = "request"}
Initiator == messages[Min(Requests)].sender
Responders == {messages[i].sender : i \in {j \in DOMAIN messages : messages[j].type = "response"}}

HasAllResponses_AnyCounts == Requests # {} /\ Responders # {}
HasAllResponses == Requests # {} /\ Range(participants) \ {Initiator} \subseteq Responders

PendingParticipants ==
    {p \in Range(participants) : Requests = {} \/ (p # Initiator /\ p \notin Responders)}

-----------------------------------------------------------------------------
ConversationInit ==
    /\ participants \in Participants
    /\ status = "open" /\ messages = <<>> /\ expired = FALSE
    /\ log = <<>> /\ announced = FALSE
    /\ inbox = [e \in {} |-> <<>>]
    /\ received = [e \in Engine |-> <<>>]
    /\ agents = <<>>
    /\ collecting = [c \in Collector |-> "idle"]

\* An inbox comes to be when it is first named.
Inbox(e) == IF e \in DOMAIN inbox THEN inbox[e] ELSE <<>>
PutInto_OnlyKnown(e, m) ==
    [x \in DOMAIN inbox |-> IF x = e THEN Append(Inbox(x), m) ELSE inbox[x]]
PutInto(e, m) ==
    [x \in DOMAIN inbox \cup {e} |-> IF x = e THEN Append(Inbox(x), m) ELSE inbox[x]]

\* A broadcast reaches the inboxes known by now, the sender's own among them.
Deliver(m) ==
    /\ messages' = Append(messages, m)
    /\ log' = Append(log, m)
    /\ announced' = TRUE
    /\ collecting' = [c \in Collector |-> IF collecting[c] = "waiting" THEN "due" ELSE collecting[c]]
    /\ inbox' = IF m.receiver = NoEngine THEN [e \in DOMAIN inbox |-> Append(inbox[e], m)]
                ELSE PutInto(m.receiver, m)
    /\ UNCHANGED <<participants, status, expired, received, agents>>

A2AMessage(type, sender, receiver) ==
    [id |-> Len(log), type |-> type, sender |-> sender, receiver |-> receiver]

SendA2AMessage ==
    /\ Len(log) < MaxMessages
    /\ \E sender \in Engine, action \in Action, given \in Engine \cup {NoEngine} :
        LET receiver == IF given # NoEngine THEN given
                        ELSE SelectReceiver(action, agents, sender)
        IN  Deliver(A2AMessage("request", sender, receiver))

\* Any message of the conversation may be replied to, by any engine.
ReplyA2AMessage ==
    /\ Len(log) < MaxMessages
    /\ \E sender \in Engine, i \in DOMAIN messages :
        Deliver(A2AMessage("response", sender, messages[i].sender))

\* Polling: wait for the conversation's event, which stays set once anything was sent.
StartCollecting(c) ==
    /\ collecting[c] = "idle"
    /\ collecting' = [collecting EXCEPT ![c] = IF announced THEN "due" ELSE "waiting"]
    /\ UNCHANGED <<conversation, broker, agents>>

GiveUpWaiting(c) ==
    /\ collecting[c] = "waiting"
    /\ collecting' = [collecting EXCEPT ![c] = "due"]
    /\ UNCHANGED <<conversation, broker, agents>>

Fresh_Repeated(m) == m.type = "response"
Fresh(m) == m.type = "response" /\ m \notin Range(messages)

FinishCollecting(c) ==
    /\ collecting[c] = "due"
    /\ messages' = messages \o Kept(log, {i \in DOMAIN log : Fresh(log[i])})
    /\ collecting' = [collecting EXCEPT ![c] = "idle"]
    /\ UNCHANGED <<participants, status, expired, broker, agents>>

\* First whether it has expired, then whether all have answered.
CheckConversation ==
    /\ status' = IF status # "open" THEN status
                 ELSE IF expired THEN "timeout"
                 ELSE IF HasAllResponses THEN "resolved" ELSE status
    /\ UNCHANGED <<participants, messages, expired, broker, agents, collecting>>

Expire ==
    /\ ~expired /\ expired' = TRUE
    /\ UNCHANGED <<participants, status, messages, broker, agents, collecting>>

\* An agent asks the broker for its next message; a wait that times out has
\* named the inbox all the same.
Receive(e) ==
    /\ IF Inbox(e) = <<>>
       THEN inbox' = [x \in DOMAIN inbox \cup {e} |-> Inbox(x)] /\ UNCHANGED received
       ELSE /\ inbox' = [inbox EXCEPT ![e] = Tail(@)]
            /\ received' = [received EXCEPT ![e] = Append(@, Head(inbox[e]))]
    /\ UNCHANGED <<conversation, log, announced, agents, collecting>>

RegisterAgent ==
    /\ \E a \in Agents : a \notin Range(agents) /\ agents' = Append(agents, a)
    /\ UNCHANGED <<conversation, broker, collecting>>

DeregisterAgent ==
    /\ \E i \in DOMAIN agents : agents' = RemoveAt(agents, i)
    /\ UNCHANGED <<conversation, broker, collecting>>

ConversationNext ==
    \/ SendA2AMessage \/ ReplyA2AMessage \/ CheckConversation \/ Expire
    \/ RegisterAgent \/ DeregisterAgent
    \/ \E c \in Collector : StartCollecting(c) \/ GiveUpWaiting(c) \/ FinishCollecting(c)
    \/ \E e \in Engine : Receive(e)

ConversationSpec == ConversationInit /\ [][ConversationNext]_conversationVars

-----------------------------------------------------------------------------
Msg == [id : Nat, type : {"request", "response"}, sender : Engine, receiver : Engine \cup {NoEngine}]

ConversationTypeOK ==
    /\ participants \in Seq(Engine) /\ status \in {"open", "timeout", "resolved"}
    /\ messages \in Seq(Msg) /\ log \in Seq(Msg)
    /\ {expired, announced} \subseteq BOOLEAN
    /\ DOMAIN inbox \subseteq Engine /\ inbox \in [DOMAIN inbox -> Seq(Msg)]
    /\ received \in [Engine -> Seq(Msg)]
    /\ agents \in Seq(Agents)
    /\ collecting \in [Collector -> {"idle", "waiting", "due"}]

(* However sending, replying and concurrent collecting interleave, the       *)
(* conversation holds each message the broker took once, in its order: a     *)
(* poll that was waiting when a reply came does not add it again.            *)
ConversationIsTheLog == messages = log

(* An engine is given every message that was sent to it, exactly once and    *)
(* in the order they were sent, and no other engine's: broadcasts come in    *)
(* between in their order.                                                   *)
Delivered(e) == received[e] \o Inbox(e)

DirectlyDelivered ==
    \A e \in Engine :
        /\ \A i, j \in DOMAIN Delivered(e) : i < j => Delivered(e)[i].id < Delivered(e)[j].id
        /\ {m \in Range(Delivered(e)) : m.receiver # NoEngine} = {m \in Range(log) : m.receiver = e}

(* A resolved conversation has an answer of every participant but the one    *)
(* that asked first, and stays so; what the summary calls pending is then    *)
(* empty, and never before.                                                  *)
ResolvedMeansAnswered ==
    /\ status = "resolved" => HasAllResponses /\ PendingParticipants = {}
    /\ Requests # {} => (HasAllResponses <=> PendingParticipants = {})
=============================================================================
