------------------------ MODULE OutsideServices_proofs ------------------------
(* Proofs about the services that act outside of the process, for any files, *)
(* models, servers, tasks and bounds: each has an inductive invariant of its *)
(* own, and their composition keeps what each of them promises.              *)
EXTENDS OutsideServices, FiniteSetTheorems, SequenceTheorems, WellFoundedInduction, TLAPS

(* Any nonempty set of naturals has a smallest element.                     *)
LEMMA Smallest ==
    ASSUME NEW S, S \subseteq Nat, S # {}
    PROVE  \E m \in S : \A n \in S : m <= n
<1>1. \A R, D, T : IsWellFoundedOn(R, D) /\ T \subseteq D /\ T # {} =>
            \E x \in T : \A y \in T : ~(<<y, x>> \in R)
  BY WFMin, Zenon
<1>2. PICK m \in S : \A n \in S : ~(<<n, m>> \in OpToRel(<, Nat))
  BY <1>1, NatLessThanWellFounded, Zenon
<1>3. \A n \in S : ~(n < m)
  BY <1>2 DEF OpToRel
<1> QED BY <1>3

-----------------------------------------------------------------------------
(* The tool servers: a session is stored, lost or in one coroutine's hands,   *)
(* and in one of these places only.                                          *)
(* A coroutine holds a session that it opens or closes.                      *)
Coroutines == Client \cup {Discovery}
Waiting == [op : {"idle", "initialize", "list", "call", "close"}, server : Server \cup {"-"}, session : Nat]
McpHolds(c) == at[c].op \in {"initialize", "close"}

McpTypes ==
    /\ connections \in [Server -> Nat]
    /\ opened \in Nat /\ open \subseteq Nat /\ lost \subseteq Nat
    /\ at \in [Coroutines -> Waiting]
    /\ config \in Nat \ {0} /\ adapters \in Seq(Server)

\* Sessions are numbered as they are opened, and a coroutine that is not
\* idle waits for a server.
McpBounds ==
    /\ \A s \in Server : connections[s] <= opened
    /\ \A x \in lost : 1 <= x /\ x <= opened
    /\ \A c \in Coroutines :
        /\ at[c].session <= opened
        /\ at[c].op # "idle" => at[c].server \in Server
        /\ McpHolds(c) => at[c].session # 0

\* No session is in two places: stored, lost, or in the hands of a coroutine.
McpApart ==
    /\ \A s \in Server : connections[s] \notin lost
    /\ \A s, r \in Server : connections[s] = connections[r] => s = r \/ connections[s] = 0
    /\ \A c \in Coroutines : McpHolds(c) =>
        /\ at[c].session \notin lost
        /\ \A s \in Server : connections[s] # at[c].session
        /\ \A d \in Coroutines : McpHolds(d) /\ at[d].session = at[c].session => c = d

\* Every open session is in one of those places.
McpPlaced ==
    \A x \in Nat : x \in open <=>
        \/ x # 0 /\ \E s \in Server : connections[s] = x
        \/ x \in lost
        \/ \E c \in Coroutines : McpHolds(c) /\ at[c].session = x

\* Discovery waits for the server its configuration names.
McpTurn ==
    /\ at[Discovery].op \in {"idle", "initialize", "list"}
    /\ at[Discovery].op # "idle" => config <= Len(Configs) /\ at[Discovery].server = Configs[config]

McpInv == McpTypes /\ McpBounds /\ McpApart /\ McpPlaced /\ McpTurn

LEMMA McpInit == ASSUME Mcp!Init PROVE McpInv
<1> USE DEF Mcp!Init, Mcp!Idle
<1>1. McpTypes
  BY DEF McpTypes, Waiting, Coroutines
<1>2. McpBounds
  BY DEF McpBounds, Coroutines, McpHolds
<1>3. McpApart
  BY DEF McpApart, Coroutines, McpHolds
<1>4. McpPlaced
  BY DEF McpPlaced, Coroutines, McpHolds
<1>5. McpTurn
  BY DEF McpTurn, Coroutines
<1> QED
  BY <1>1, <1>2, <1>3, <1>4, <1>5 DEF McpInv

\* What a step leaves to a coroutine: its wait is replaced by another.
LEMMA McpWaits ==
  ASSUME McpTypes, NEW c \in Coroutines, NEW w \in Waiting, at' = [at EXCEPT ![c] = w]
  PROVE  /\ at' \in [Coroutines -> Waiting]
         /\ at'[c] = w
         /\ \A d \in Coroutines \ {c} : at'[d] = at[d]
BY DEF McpTypes

(* A wait that holds no session is replaced by another.                      *)
LEMMA McpQuiet ==
  ASSUME McpInv, NEW c \in Coroutines, NEW w \in Waiting, at' = [at EXCEPT ![c] = w],
         ~McpHolds(c), w.op \notin {"initialize", "close"}, w.session <= opened,
         w.op # "idle" => w.server \in Server,
         UNCHANGED <<connections, opened, open, lost>>
  PROVE  /\ at' \in [Coroutines -> Waiting] /\ at'[c] = w
         /\ \A d \in Coroutines \ {c} : at'[d] = at[d]
         /\ McpBounds' /\ McpApart' /\ McpPlaced'
<1> USE DEF McpInv
<1>1. /\ at' \in [Coroutines -> Waiting] /\ at'[c] = w
      /\ \A d \in Coroutines \ {c} : at'[d] = at[d]
  BY McpWaits
<1>2. \A d \in Coroutines : McpHolds(d)' = McpHolds(d) /\ (McpHolds(d) => at'[d] = at[d])
  BY <1>1 DEF McpHolds
<1>3. McpBounds'
  BY <1>1, <1>2 DEF McpBounds
<1>4. McpApart'
  BY <1>2 DEF McpApart
<1>5. McpPlaced'
  BY <1>2 DEF McpPlaced
<1> QED BY <1>1, <1>3, <1>4, <1>5

(* A connect opens a new session, which no place has yet.                    *)
LEMMA McpConnects ==
  ASSUME McpInv, NEW c \in Coroutines, NEW s \in Server, at[c] = Mcp!Idle,
         c = Discovery => config <= Len(Configs) /\ s = Configs[config],
         Mcp!Connect(c, s), UNCHANGED <<config, adapters>>
  PROVE  McpInv'
<1> USE DEF McpInv
<1>1. CASE UNCHANGED at
  <2>1. UNCHANGED <<connections, opened, open, lost, at, config, adapters>>
    <3>1. ASSUME connections[s] = 0 PROVE FALSE
      BY <1>1, <3>1 DEF Mcp!Connect, Mcp!Goto, Mcp!Idle, McpTypes, Waiting
    <3> QED BY <1>1, <3>1 DEF Mcp!Connect
  <2> QED
    BY <2>1 DEF McpTypes, McpBounds, McpApart, McpPlaced, McpTurn, McpHolds
<1>2. CASE c = Discovery /\ connections[s] # 0 /\ UNCHANGED <<connections, opened, open, lost>>
           /\ at' = [at EXCEPT ![c] = [op |-> "list", server |-> s, session |-> connections[s]]]
  <2> DEFINE w == [op |-> "list", server |-> s, session |-> connections[s]]
  <2>1. w \in Waiting /\ w.session <= opened /\ w.op = "list" /\ w.server = s
    BY DEF McpTypes, McpBounds, Waiting
  <2>2. at' = [at EXCEPT ![c] = w]
    BY <1>2
  <2>3. ~McpHolds(c)
    BY DEF Mcp!Idle, McpHolds
  <2> HIDE DEF w
  <2>4. /\ at' \in [Coroutines -> Waiting] /\ at'[c] = w
        /\ \A d \in Coroutines \ {c} : at'[d] = at[d]
        /\ McpBounds' /\ McpApart' /\ McpPlaced'
    BY <1>2, <2>1, <2>2, <2>3, McpQuiet
  <2>5. McpTypes'
    BY <1>2, <2>4 DEF McpTypes
  <2>6. McpTurn'
    BY <1>2, <2>1, <2>4 DEF McpTurn
  <2> QED BY <2>4, <2>5, <2>6
<1>3. CASE /\ opened' = opened + 1 /\ open' = open \cup {opened'} /\ UNCHANGED <<connections, lost>>
           /\ at' = [at EXCEPT ![c] = [op |-> "initialize", server |-> s, session |-> opened']]
  <2> DEFINE w == [op |-> "initialize", server |-> s, session |-> opened']
  <2>0. opened' \in Nat /\ opened' > opened /\ opened' # 0
    BY <1>3 DEF McpTypes
  <2>1. w \in Waiting /\ w.session = opened' /\ w.op = "initialize" /\ w.server = s
    BY <2>0 DEF McpTypes, McpBounds, Waiting
  <2>2. at' = [at EXCEPT ![c] = w]
    BY <1>3
  <2>a. at[c].op = "idle"
    BY DEF Mcp!Idle
  <2> HIDE DEF w
  <2>3. /\ at' \in [Coroutines -> Waiting]
        /\ at'[c] = w
        /\ \A d \in Coroutines \ {c} : at'[d] = at[d]
    BY <2>1, <2>2, McpWaits
  <2>4. /\ McpHolds(c)' /\ at'[c].session = opened' /\ ~McpHolds(c)
        /\ \A d \in Coroutines \ {c} : McpHolds(d)' = McpHolds(d) /\ at'[d] = at[d]
    BY <2>1, <2>3, <2>a DEF McpHolds
  <2>b. \A d \in Coroutines : at[d].session # opened'
    BY <2>0 DEF McpBounds, McpTypes, Waiting
  <2>c. \A r \in Server : connections[r] # opened'
    BY <2>0 DEF McpBounds, McpTypes
  <2>d. opened' \notin lost
    BY <2>0 DEF McpBounds, McpTypes
  <2>5. McpTypes'
    BY <1>3, <2>3, <2>0 DEF McpTypes
  <2>6. McpBounds'
    <3>1. \A r \in Server : connections'[r] <= opened'
      BY <1>3, <2>0 DEF McpBounds, McpTypes
    <3>2. \A x \in lost' : 1 <= x /\ x <= opened'
      BY <1>3, <2>0 DEF McpBounds, McpTypes
    <3>3. ASSUME NEW d \in Coroutines
          PROVE  /\ at'[d].session <= opened'
                 /\ at'[d].op # "idle" => at'[d].server \in Server
                 /\ McpHolds(d)' => at'[d].session # 0
      <4>1. at[d].session \in Nat
        BY DEF McpTypes, Waiting
      <4>2. CASE d = c
        BY <2>0, <2>1, <2>3, <4>2
      <4>3. CASE d # c
        BY <2>0, <2>4, <4>1, <4>3 DEF McpBounds, McpTypes
      <4> QED BY <4>2, <4>3
    <3> QED BY <3>1, <3>2, <3>3 DEF McpBounds
  <2>7. McpApart'
    <3>1. \A r \in Server : connections'[r] = connections[r]
      BY <1>3
    <3>2. \A r \in Server : connections'[r] \notin lost'
      BY <1>3 DEF McpApart
    <3>3. \A r, q \in Server : connections'[r] = connections'[q] => r = q \/ connections'[r] = 0
      BY <1>3 DEF McpApart
    <3>4. ASSUME NEW e \in Coroutines, McpHolds(e)'
          PROVE  /\ at'[e].session \notin lost'
                 /\ \A r \in Server : connections'[r] # at'[e].session
                 /\ \A d \in Coroutines : McpHolds(d)' /\ at'[d].session = at'[e].session => e = d
      <4>1. CASE e = c
        BY <1>3, <2>4, <2>b, <2>c, <2>d, <4>1
      <4>2. CASE e # c
        BY <1>3, <2>4, <2>b, <3>4, <4>2 DEF McpApart
      <4> QED BY <4>1, <4>2
    <3> QED BY <3>2, <3>3, <3>4 DEF McpApart
  <2>8. McpPlaced'
    <3>1. \A x \in Nat : (\E d \in Coroutines : McpHolds(d)' /\ at'[d].session = x)
                         <=> x = opened' \/ \E d \in Coroutines : McpHolds(d) /\ at[d].session = x
      BY <2>4
    <3> QED BY <1>3, <2>0, <3>1 DEF McpPlaced
  <2>9. McpTurn'
    BY <1>3, <2>1, <2>3, <2>a DEF McpTurn, Coroutines
  <2> QED BY <2>5, <2>6, <2>7, <2>8, <2>9
<1> QED
  BY <1>1, <1>2, <1>3 DEF Mcp!Connect, Mcp!Goto

\* A coroutine that neither opens nor closes a session comes to rest.
LEMMA McpRests ==
  ASSUME McpInv, NEW c \in Coroutines, ~McpHolds(c), Mcp!Rest(c), UNCHANGED <<connections, opened, open, lost>>
  PROVE  /\ at' \in [Coroutines -> Waiting] /\ at'[c] = Mcp!Idle
         /\ \A d \in Coroutines \ {c} : at'[d] = at[d]
         /\ McpBounds' /\ McpApart' /\ McpPlaced'
<1> DEFINE w == Mcp!Idle
<1>1. w \in Waiting /\ w.op = "idle" /\ w.session = 0
  BY DEF Mcp!Idle, Waiting
<1>2. w.session <= opened
  BY <1>1 DEF McpInv, McpTypes
<1>3. at' = [at EXCEPT ![c] = w]
  BY DEF Mcp!Rest
<1> HIDE DEF w
<1>4. /\ at' \in [Coroutines -> Waiting] /\ at'[c] = w
      /\ \A d \in Coroutines \ {c} : at'[d] = at[d]
      /\ McpBounds' /\ McpApart' /\ McpPlaced'
  BY <1>1, <1>2, <1>3, McpQuiet
<1> QED BY <1>4 DEF w

\* Tools are asked for, the answer comes, discovery goes on.
LEMMA McpCalls ==
  ASSUME McpInv, NEW c \in Client, NEW s \in Server, at[c] = Mcp!Idle, Mcp!Call(c, s)
  PROVE  McpInv'
<1> USE DEF McpInv
<1> DEFINE w == [op |-> "call", server |-> s, session |-> connections[s]]
<1>1. w \in Waiting /\ w.session <= opened /\ w.op = "call" /\ w.server = s /\ c \in Coroutines
  BY DEF McpTypes, McpBounds, Waiting, Coroutines
<1>2. at' = [at EXCEPT ![c] = w] /\ UNCHANGED <<connections, opened, open, lost, config, adapters>>
  BY DEF Mcp!Call, Mcp!Goto
<1>3. ~McpHolds(c)
  BY DEF Mcp!Idle, McpHolds
<1> HIDE DEF w
<1>4. /\ at' \in [Coroutines -> Waiting] /\ at'[c] = w
      /\ \A d \in Coroutines \ {c} : at'[d] = at[d]
      /\ McpBounds' /\ McpApart' /\ McpPlaced'
  BY <1>1, <1>2, <1>3, McpQuiet
<1>5. McpTypes' /\ McpTurn'
  BY <1>2, <1>4, McpAssumption DEF McpTypes, McpTurn, Coroutines
<1> QED BY <1>4, <1>5

LEMMA McpCallEnds ==
  ASSUME McpInv, NEW c \in Client, Mcp!CallEnds(c)
  PROVE  McpInv'
<1> USE DEF McpInv
<1>1. c \in Coroutines /\ ~McpHolds(c)
  BY DEF Mcp!CallEnds, McpHolds, Coroutines
<1>2. Mcp!Rest(c) /\ UNCHANGED <<connections, opened, open, lost, config, adapters>>
  BY DEF Mcp!CallEnds
<1>3. /\ at' \in [Coroutines -> Waiting] /\ at'[c] = Mcp!Idle
      /\ \A d \in Coroutines \ {c} : at'[d] = at[d]
      /\ McpBounds' /\ McpApart' /\ McpPlaced'
  BY <1>1, <1>2, McpRests
<1>4. McpTypes' /\ McpTurn'
  BY <1>2, <1>3, McpAssumption DEF McpTypes, McpTurn, Coroutines
<1> QED BY <1>3, <1>4

LEMMA McpListsTools ==
  ASSUME McpInv, Mcp!ToolsListed
  PROVE  McpInv'
<1> USE DEF McpInv
<1>1. Discovery \in Coroutines /\ ~McpHolds(Discovery)
  BY DEF Mcp!ToolsListed, McpHolds, Coroutines
<1>2. Mcp!Rest(Discovery) /\ UNCHANGED <<connections, opened, open, lost>> /\ config' = config + 1
  BY DEF Mcp!ToolsListed, Mcp!NextConfig
<1>3. /\ at' \in [Coroutines -> Waiting] /\ at'[Discovery] = Mcp!Idle
      /\ \A d \in Coroutines \ {Discovery} : at'[d] = at[d]
      /\ McpBounds' /\ McpApart' /\ McpPlaced'
  BY <1>1, <1>2, McpRests
<1>4. at[Discovery].server \in Server
  BY <1>1 DEF Mcp!ToolsListed, McpBounds
<1>5. adapters' \in Seq(Server)
  BY <1>4 DEF Mcp!ToolsListed, McpTypes
<1>6. McpTypes'
  BY <1>2, <1>3, <1>5 DEF McpTypes
<1>7. McpTurn'
  BY <1>3 DEF McpTurn, Mcp!Idle
<1> QED BY <1>3, <1>6, <1>7

\* A coroutine lets go of the session it holds: the others hold theirs.
LEMMA McpLetsGo ==
  ASSUME McpInv, NEW c \in Coroutines, McpHolds(c), NEW w \in Waiting, at' = [at EXCEPT ![c] = w],
         w.op \notin {"initialize", "close"}
  PROVE  /\ at' \in [Coroutines -> Waiting] /\ at'[c] = w
         /\ \A d \in Coroutines \ {c} : at'[d] = at[d]
         /\ at[c].session \in Nat /\ at[c].session # 0
         /\ ~McpHolds(c)'
         /\ \A d \in Coroutines \ {c} : McpHolds(d)' = McpHolds(d)
         /\ \A x \in Nat : (\E d \in Coroutines : McpHolds(d)' /\ at'[d].session = x)
                           <=> x # at[c].session /\ \E d \in Coroutines : McpHolds(d) /\ at[d].session = x
<1> USE DEF McpInv
<1>1. /\ at' \in [Coroutines -> Waiting] /\ at'[c] = w
      /\ \A d \in Coroutines \ {c} : at'[d] = at[d]
  BY McpWaits
<1>2. at[c].session \in Nat /\ at[c].session # 0
  BY DEF McpTypes, McpBounds, Waiting
<1>3. ~McpHolds(c)' /\ \A d \in Coroutines \ {c} : McpHolds(d)' = McpHolds(d)
  BY <1>1 DEF McpHolds
<1>4. \A d \in Coroutines : McpHolds(d) /\ at[d].session = at[c].session => c = d
  BY DEF McpApart
<1> QED BY <1>1, <1>2, <1>3, <1>4

\* A session is stored; the one it overtakes is lost.
LEMMA McpInitialized ==
  ASSUME McpInv, NEW c \in Coroutines, Mcp!Initialized(c)
  PROVE  McpInv'
<1> USE DEF McpInv
<1> DEFINE s == at[c].server
           x == at[c].session
           w == IF c = Discovery THEN [op |-> "list", server |-> s, session |-> x] ELSE Mcp!Idle
<1>1. McpHolds(c) /\ s \in Server /\ x \in Nat /\ x <= opened /\ x # 0
  BY DEF Mcp!Initialized, McpHolds, McpBounds, McpTypes, Waiting
<1>2. /\ w \in Waiting /\ w.op \notin {"initialize", "close"} /\ w.session <= opened
      /\ w.op # "idle" => w.server \in Server
  BY <1>1 DEF Waiting, Mcp!Idle, McpTypes
<1>3. at' = [at EXCEPT ![c] = w]
  BY DEF Mcp!Initialized, Mcp!Goto, Mcp!Rest
<1>4. c = Discovery => w.op = "list" /\ w.server = s
  OBVIOUS
<1>5. /\ connections' = [connections EXCEPT ![s] = x]
      /\ lost' = IF connections[s] = 0 THEN lost ELSE lost \cup {connections[s]}
      /\ UNCHANGED <<opened, open, config, adapters>>
  BY DEF Mcp!Initialized
<1>6. /\ \A r \in Server : connections[r] # x
      /\ x \notin lost
  BY <1>1 DEF McpApart
<1> HIDE DEF w
<1>7. /\ at' \in [Coroutines -> Waiting] /\ at'[c] = w
      /\ \A d \in Coroutines \ {c} : at'[d] = at[d]
      /\ ~McpHolds(c)'
      /\ \A d \in Coroutines \ {c} : McpHolds(d)' = McpHolds(d)
      /\ \A y \in Nat : (\E d \in Coroutines : McpHolds(d)' /\ at'[d].session = y)
                        <=> y # x /\ \E d \in Coroutines : McpHolds(d) /\ at[d].session = y
  BY <1>1, <1>2, <1>3, McpLetsGo
<1>8. /\ connections' \in [Server -> Nat] /\ connections'[s] = x
      /\ \A r \in Server \ {s} : connections'[r] = connections[r]
  BY <1>1, <1>5 DEF McpTypes
<1>9. connections[s] \in Nat /\ connections[s] <= opened
  BY <1>1 DEF McpTypes, McpBounds
<1>10. McpTypes'
  BY <1>5, <1>7, <1>8, <1>9 DEF McpTypes
<1>11. McpBounds'
  <2>1. \A r \in Server : connections'[r] <= opened'
    BY <1>1, <1>5, <1>8 DEF McpBounds
  <2>2. \A y \in lost' : 1 <= y /\ y <= opened'
    BY <1>5, <1>9 DEF McpBounds
  <2>3. ASSUME NEW d \in Coroutines
        PROVE  /\ at'[d].session <= opened'
               /\ at'[d].op # "idle" => at'[d].server \in Server
               /\ McpHolds(d)' => at'[d].session # 0
    BY <1>2, <1>5, <1>7 DEF McpBounds
  <2> QED BY <2>1, <2>2, <2>3 DEF McpBounds
<1>12. McpApart'
  <2>1. \A r \in Server : connections'[r] \notin lost'
    BY <1>1, <1>5, <1>6, <1>8 DEF McpApart
  <2>2. \A r, q \in Server : connections'[r] = connections'[q] => r = q \/ connections'[r] = 0
    BY <1>6, <1>8 DEF McpApart
  <2>3. ASSUME NEW e \in Coroutines, McpHolds(e)'
        PROVE  /\ at'[e].session \notin lost'
               /\ \A r \in Server : connections'[r] # at'[e].session
               /\ \A d \in Coroutines : McpHolds(d)' /\ at'[d].session = at'[e].session => e = d
    <3>1. e # c /\ McpHolds(e) /\ at'[e] = at[e]
      BY <1>7, <2>3
    <3>2. at[e].session # x
      BY <1>1, <3>1 DEF McpApart
    <3>3. at[e].session \notin lost /\ \A r \in Server : connections[r] # at[e].session
      BY <3>1 DEF McpApart
    <3>4. at'[e].session \notin lost' /\ \A r \in Server : connections'[r] # at'[e].session
      BY <1>1, <1>5, <1>8, <3>1, <3>2, <3>3
    <3>5. \A d \in Coroutines : McpHolds(d)' /\ at'[d].session = at'[e].session => e = d
      BY <1>7, <3>1 DEF McpApart
    <3> QED BY <3>4, <3>5
  <2> QED BY <2>1, <2>2, <2>3 DEF McpApart
<1>13. McpPlaced'
  <2>1. ASSUME NEW y \in Nat
        PROVE  y \in open' <=> \/ y # 0 /\ \E r \in Server : connections'[r] = y
                               \/ y \in lost'
                               \/ \E d \in Coroutines : McpHolds(d)' /\ at'[d].session = y
    <3>1. y \in open <=> \/ y # 0 /\ \E r \in Server : connections[r] = y
                         \/ y \in lost
                         \/ \E d \in Coroutines : McpHolds(d) /\ at[d].session = y
      BY DEF McpPlaced
    <3>2. (y # 0 /\ \E r \in Server : connections'[r] = y)
          <=> y = x \/ (y # 0 /\ \E r \in Server \ {s} : connections[r] = y)
      BY <1>1, <1>8
    <3>3. y \in lost' <=> y \in lost \/ (y # 0 /\ y = connections[s])
      BY <1>5, <1>9 DEF McpBounds
    <3>4. (y # 0 /\ \E r \in Server : connections[r] = y)
          <=> (y # 0 /\ y = connections[s]) \/ (y # 0 /\ \E r \in Server \ {s} : connections[r] = y)
      BY <1>1
    <3> QED BY <1>1, <1>5, <1>7, <3>1, <3>2, <3>3, <3>4
  <2> QED BY <2>1 DEF McpPlaced
<1>14. McpTurn'
  BY <1>1, <1>4, <1>5, <1>7 DEF McpTurn, McpHolds, Coroutines
<1> QED BY <1>10, <1>11, <1>12, <1>13, <1>14

\* A session that could not be initialised is lost.
LEMMA McpInitializeFails ==
  ASSUME McpInv, NEW c \in Coroutines, Mcp!InitializeFails(c)
  PROVE  McpInv'
<1> USE DEF McpInv
<1> DEFINE x == at[c].session
           w == Mcp!Idle
<1>1. McpHolds(c) /\ x \in Nat /\ x <= opened /\ x # 0 /\ opened \in Nat
  BY DEF Mcp!InitializeFails, McpHolds, McpBounds, McpTypes, Waiting
<1>2. w \in Waiting /\ w.op = "idle" /\ w.session = 0
  BY DEF Waiting, Mcp!Idle
<1>3. at' = [at EXCEPT ![c] = w]
  BY DEF Mcp!InitializeFails, Mcp!Rest
<1>4. /\ lost' = lost \cup {x}
      /\ config' = IF c = Discovery THEN config + 1 ELSE config
      /\ UNCHANGED <<connections, opened, open, adapters>>
  BY DEF Mcp!InitializeFails, Mcp!NextConfig
<1>5. \A r \in Server : connections[r] # x
  BY <1>1 DEF McpApart
<1> HIDE DEF w
<1>6. /\ at' \in [Coroutines -> Waiting] /\ at'[c] = w
      /\ \A d \in Coroutines \ {c} : at'[d] = at[d]
      /\ ~McpHolds(c)'
      /\ \A d \in Coroutines \ {c} : McpHolds(d)' = McpHolds(d)
      /\ \A y \in Nat : (\E d \in Coroutines : McpHolds(d)' /\ at'[d].session = y)
                        <=> y # x /\ \E d \in Coroutines : McpHolds(d) /\ at[d].session = y
  BY <1>1, <1>2, <1>3, McpLetsGo
<1>7. McpTypes'
  <2>1. config' \in Nat \ {0}
    BY <1>4 DEF McpTypes
  <2>2. lost' \subseteq Nat
    BY <1>1, <1>4 DEF McpTypes
  <2> QED BY <1>4, <1>6, <2>1, <2>2 DEF McpTypes
<1>8. McpBounds'
  BY <1>1, <1>2, <1>4, <1>6 DEF McpBounds
<1>9. McpApart'
  <2>1. \A r \in Server : connections'[r] \notin lost'
    BY <1>4, <1>5 DEF McpApart
  <2>2. \A r, q \in Server : connections'[r] = connections'[q] => r = q \/ connections'[r] = 0
    BY <1>4 DEF McpApart
  <2>3. ASSUME NEW e \in Coroutines, McpHolds(e)'
        PROVE  /\ at'[e].session \notin lost'
               /\ \A r \in Server : connections'[r] # at'[e].session
               /\ \A d \in Coroutines : McpHolds(d)' /\ at'[d].session = at'[e].session => e = d
    <3>1. e # c /\ McpHolds(e) /\ at'[e] = at[e]
      BY <1>6, <2>3
    <3>2. at[e].session # x
      BY <1>1, <3>1 DEF McpApart
    <3> QED BY <1>4, <1>6, <3>1, <3>2 DEF McpApart
  <2> QED BY <2>1, <2>2, <2>3 DEF McpApart
<1>10. McpPlaced'
  BY <1>1, <1>4, <1>6 DEF McpPlaced
<1>11. McpTurn'
  BY <1>2, <1>4, <1>6 DEF McpTurn, Coroutines
<1> QED BY <1>7, <1>8, <1>9, <1>10, <1>11

\* A session is taken out, and is in the hands of who took it.
LEMMA McpDisconnects ==
  ASSUME McpInv, NEW c \in Client, NEW s \in Server, at[c] = Mcp!Idle, Mcp!Disconnect(c, s)
  PROVE  McpInv'
<1> USE DEF McpInv
<1> DEFINE x == connections[s]
           w == [op |-> "close", server |-> s, session |-> x]
<1>1. x \in Nat /\ x # 0 /\ x <= opened /\ c \in Coroutines /\ c # Discovery
  BY McpAssumption DEF Mcp!Disconnect, McpTypes, McpBounds, Coroutines
<1>2. w \in Waiting /\ w.op = "close" /\ w.session = x /\ w.server = s
  BY <1>1 DEF Waiting
<1>3. at' = [at EXCEPT ![c] = w]
  BY DEF Mcp!Disconnect, Mcp!Goto
<1>4. connections' = [connections EXCEPT ![s] = 0] /\ UNCHANGED <<opened, open, lost, config, adapters>>
  BY DEF Mcp!Disconnect
<1> HIDE DEF w
<1>5. /\ at' \in [Coroutines -> Waiting] /\ at'[c] = w
      /\ \A d \in Coroutines \ {c} : at'[d] = at[d]
  BY <1>1, <1>2, <1>3, McpWaits
<1>6. /\ ~McpHolds(c) /\ McpHolds(c)' /\ at'[c].session = x
      /\ \A d \in Coroutines \ {c} : McpHolds(d)' = McpHolds(d)
  BY <1>2, <1>5 DEF McpHolds, Mcp!Idle
<1>7. /\ connections' \in [Server -> Nat] /\ connections'[s] = 0
      /\ \A r \in Server \ {s} : connections'[r] = connections[r]
  BY <1>4 DEF McpTypes
<1>8. x \notin lost /\ (\A d \in Coroutines : McpHolds(d) => at[d].session # x)
      /\ \A r \in Server \ {s} : connections[r] # x
  BY <1>1 DEF McpApart
<1>9. McpTypes'
  BY <1>4, <1>5, <1>7 DEF McpTypes
<1>10. McpBounds'
  BY <1>1, <1>2, <1>4, <1>5, <1>6, <1>7 DEF McpBounds, McpTypes
<1>11. McpApart'
  <2>1. \A r \in Server : connections'[r] \notin lost'
    <3>1. 0 \notin lost
      BY DEF McpBounds
    <3> QED BY <1>4, <1>7, <3>1 DEF McpApart
  <2>2. \A r, q \in Server : connections'[r] = connections'[q] => r = q \/ connections'[r] = 0
    BY <1>7 DEF McpApart
  <2>3. ASSUME NEW e \in Coroutines, McpHolds(e)'
        PROVE  /\ at'[e].session \notin lost'
               /\ \A r \in Server : connections'[r] # at'[e].session
               /\ \A d \in Coroutines : McpHolds(d)' /\ at'[d].session = at'[e].session => e = d
    <3>1. CASE e = c
      BY <1>1, <1>4, <1>5, <1>6, <1>7, <1>8, <3>1
    <3>2. CASE e # c
      <4>1. McpHolds(e) /\ at'[e] = at[e] /\ at[e].session # x /\ at[e].session # 0
        BY <1>5, <1>6, <1>8, <2>3, <3>2 DEF McpBounds
      <4> QED BY <1>4, <1>5, <1>6, <1>7, <4>1 DEF McpApart
    <3> QED BY <3>1, <3>2
  <2> QED BY <2>1, <2>2, <2>3 DEF McpApart
<1>12. McpPlaced'
  <2>1. ASSUME NEW y \in Nat
        PROVE  y \in open' <=> \/ y # 0 /\ \E r \in Server : connections'[r] = y
                               \/ y \in lost'
                               \/ \E d \in Coroutines : McpHolds(d)' /\ at'[d].session = y
    <3>1. (y # 0 /\ \E r \in Server : connections[r] = y)
          <=> y = x \/ (y # 0 /\ \E r \in Server : connections'[r] = y)
      BY <1>1, <1>7
    <3>2. (\E d \in Coroutines : McpHolds(d)' /\ at'[d].session = y)
          <=> y = x \/ \E d \in Coroutines : McpHolds(d) /\ at[d].session = y
      BY <1>1, <1>5, <1>6
    <3> QED BY <1>4, <3>1, <3>2 DEF McpPlaced
  <2> QED BY <2>1 DEF McpPlaced
<1>13. McpTurn'
  BY <1>1, <1>4, <1>5 DEF McpTurn, Coroutines
<1> QED BY <1>9, <1>10, <1>11, <1>12, <1>13

\* A session is closed by who took it out.
LEMMA McpCloses ==
  ASSUME McpInv, NEW c \in Client, Mcp!Closed(c)
  PROVE  McpInv'
<1> USE DEF McpInv
<1> DEFINE x == at[c].session
           w == Mcp!Idle
<1>1. c \in Coroutines /\ c # Discovery /\ McpHolds(c) /\ opened \in Nat
  BY McpAssumption DEF Mcp!Closed, McpHolds, Coroutines, McpTypes
<1>2. w \in Waiting /\ w.op = "idle" /\ w.session = 0
  BY DEF Waiting, Mcp!Idle
<1>3. at' = [at EXCEPT ![c] = w]
  BY DEF Mcp!Closed, Mcp!Rest
<1>4. open' = open \ {x} /\ UNCHANGED <<connections, opened, lost, config, adapters>>
  BY DEF Mcp!Closed
<1>5. x \notin lost /\ \A r \in Server : connections[r] # x
  BY <1>1 DEF McpApart
<1> HIDE DEF w
<1>6. /\ at' \in [Coroutines -> Waiting] /\ at'[c] = w
      /\ \A d \in Coroutines \ {c} : at'[d] = at[d]
      /\ ~McpHolds(c)'
      /\ \A d \in Coroutines \ {c} : McpHolds(d)' = McpHolds(d)
      /\ \A y \in Nat : (\E d \in Coroutines : McpHolds(d)' /\ at'[d].session = y)
                        <=> y # x /\ \E d \in Coroutines : McpHolds(d) /\ at[d].session = y
  BY <1>1, <1>2, <1>3, McpLetsGo
<1>7. McpTypes'
  BY <1>4, <1>6 DEF McpTypes
<1>8. McpBounds'
  BY <1>1, <1>2, <1>4, <1>6 DEF McpBounds
<1>9. McpApart'
  BY <1>4, <1>6 DEF McpApart
<1>10. McpPlaced'
  BY <1>4, <1>5, <1>6 DEF McpPlaced
<1>11. McpTurn'
  BY <1>1, <1>4, <1>6 DEF McpTurn, Coroutines
<1> QED BY <1>7, <1>8, <1>9, <1>10, <1>11

LEMMA McpStays == ASSUME McpInv, UNCHANGED Mcp!vars PROVE McpInv'
<1>1. UNCHANGED <<connections, opened, open, lost, at, config, adapters>>
  BY DEF Mcp!vars
<1>2. McpTypes' /\ McpBounds'
  BY <1>1 DEF McpInv, McpTypes, McpBounds, McpHolds
<1>3. McpApart' /\ McpTurn'
  BY <1>1 DEF McpInv, McpApart, McpTurn, McpHolds
<1>4. McpPlaced'
  BY <1>1 DEF McpInv, McpPlaced, McpHolds
<1> QED BY <1>2, <1>3, <1>4 DEF McpInv

LEMMA McpStep == ASSUME McpInv, [Mcp!Next]_(Mcp!vars) PROVE McpInv'
<1>1. ASSUME NEW c \in Client, NEW s \in Server, at[c] = Mcp!Idle,
             Mcp!Connect(c, s) /\ UNCHANGED <<config, adapters>>
      PROVE  McpInv'
  BY <1>1, McpConnects, McpAssumption DEF Coroutines
<1>2. ASSUME Mcp!Discover PROVE McpInv'
  <2>1. /\ Discovery \in Coroutines /\ Configs[config] \in Server
        /\ at[Discovery] = Mcp!Idle /\ config <= Len(Configs)
        /\ Mcp!Connect(Discovery, Configs[config]) /\ UNCHANGED <<config, adapters>>
    BY <1>2, McpAssumption DEF Mcp!Discover, Coroutines, McpInv, McpTypes
  <2> QED BY <2>1, McpConnects
<1>3. ASSUME NEW c \in Coroutines, Mcp!Initialized(c) \/ Mcp!InitializeFails(c) PROVE McpInv'
  BY <1>3, McpInitialized, McpInitializeFails
<1>4. ASSUME NEW c \in Client, Mcp!CallEnds(c) \/ Mcp!Closed(c) PROVE McpInv'
  BY <1>4, McpCallEnds, McpCloses
<1> QED
  BY <1>1, <1>2, <1>3, <1>4, McpStays, McpCalls, McpDisconnects, McpListsTools DEF Mcp!Next, Coroutines

LEMMA McpAccounted == McpInv => Mcp!SessionsAccountedFor
<1> SUFFICES ASSUME McpInv PROVE Mcp!SessionsAccountedFor
  OBVIOUS
<1>1. \A s \in Server : connections[s] \in Nat /\ (connections[s] # 0 => connections[s] \in open)
  BY DEF McpInv, McpTypes, McpPlaced
<1> DEFINE stored == {connections[s] : s \in Server} \ {0}
           held == {at[c].session : c \in {d \in DOMAIN at : at[d].op \in {"initialize", "close"}}}
<1>2. \A x : x \in stored <=> x # 0 /\ \E s \in Server : connections[s] = x
  OBVIOUS
<1>3. \A x : x \in held <=> \E c \in Coroutines : McpHolds(c) /\ at[c].session = x
  BY DEF McpInv, McpTypes, McpHolds
<1>4. stored \subseteq Nat /\ held \subseteq Nat /\ lost \subseteq Nat /\ open \subseteq Nat
  BY <1>1, <1>2, <1>3 DEF McpInv, McpTypes, Waiting
<1> HIDE DEF stored, held
<1>5. open = stored \cup lost \cup held
  BY <1>2, <1>3, <1>4 DEF McpInv, McpPlaced
<1> QED BY <1>1, <1>5 DEF Mcp!SessionsAccountedFor, stored, held

(* Whoever looks a connection up finds an open session, and no open session  *)
(* is without an owner: SessionsAccountedFor of McpClient.                   *)
THEOREM McpSessionsCorrect == Mcp!Spec => []Mcp!SessionsAccountedFor
<1>1. Mcp!Init => McpInv
  BY McpInit
<1>2. McpInv /\ [Mcp!Next]_(Mcp!vars) => McpInv'
  BY McpStep
<1> QED BY <1>1, <1>2, McpAccounted, PTL DEF Mcp!Spec

-----------------------------------------------------------------------------
\* Where in the configuration each registered server was found.
LEMMA McpGoesOn ==
  ASSUME McpInv, [Mcp!Next]_(Mcp!vars)
  PROVE  \/ config' \in {config, config + 1} /\ adapters' = adapters
         \/ /\ config <= Len(Configs) /\ config' = config + 1
            /\ adapters' = Append(adapters, Configs[config])
<1> USE DEF McpInv
<1>1. CASE Mcp!ToolsListed
  BY <1>1 DEF Mcp!ToolsListed, Mcp!NextConfig, McpTurn
<1>2. ASSUME NEW c, Mcp!Initialized(c) \/ Mcp!InitializeFails(c)
      PROVE  config' \in {config, config + 1} /\ adapters' = adapters
  BY <1>2 DEF Mcp!Initialized, Mcp!InitializeFails, Mcp!NextConfig
<1>3. ASSUME NEW c, NEW s, Mcp!Call(c, s) \/ Mcp!Disconnect(c, s) \/ Mcp!CallEnds(c) \/ Mcp!Closed(c)
      PROVE  config' = config /\ adapters' = adapters
  BY <1>3 DEF Mcp!Call, Mcp!Disconnect, Mcp!CallEnds, Mcp!Closed
<1>4. CASE Mcp!Discover
  BY <1>4 DEF Mcp!Discover
<1>5. CASE UNCHANGED Mcp!vars
  BY <1>5 DEF Mcp!vars
<1> QED
  BY <1>1, <1>2, <1>3, <1>4, <1>5 DEF Mcp!Next

LEMMA McpOrder ==
  ASSUME McpInv, Mcp!DiscoveredInOrder, [Mcp!Next]_(Mcp!vars)
  PROVE  Mcp!DiscoveredInOrder'
<1>1. config \in Nat \ {0} /\ adapters \in Seq(Server)
  BY DEF McpInv, McpTypes
<1>2. Len(adapters) < config
  BY DEF Mcp!DiscoveredInOrder
<1>3. PICK f \in [DOMAIN adapters -> 1 .. config - 1] :
         \A i \in DOMAIN adapters : Configs[f[i]] = adapters[i] /\ (i > 1 => f[i - 1] < f[i])
  BY DEF Mcp!DiscoveredInOrder
<1>4. Len(adapters) \in Nat /\ DOMAIN adapters = 1 .. Len(adapters)
  BY <1>1
<1>5. CASE config' \in {config, config + 1} /\ adapters' = adapters
  <2>1. f \in [DOMAIN adapters' -> 1 .. config' - 1]
    BY <1>1, <1>3, <1>5
  <2>2. Len(adapters') < config'
    BY <1>1, <1>2, <1>4, <1>5
  <2> QED BY <1>3, <1>5, <2>1, <2>2 DEF Mcp!DiscoveredInOrder
<1>6. CASE /\ config <= Len(Configs) /\ config' = config + 1
           /\ adapters' = Append(adapters, Configs[config])
  <2> DEFINE n == Len(adapters)
             g == [i \in 1 .. n + 1 |-> IF i = n + 1 THEN config ELSE f[i]]
  <2>1. Configs[config] \in Server
    BY <1>1, <1>6, McpAssumption
  <2>2. /\ DOMAIN adapters' = 1 .. n + 1 /\ Len(adapters') = n + 1
        /\ adapters'[n + 1] = Configs[config]
        /\ \A i \in 1 .. n : adapters'[i] = adapters[i]
    BY <1>1, <1>6, <2>1
  <2>3. g \in [DOMAIN adapters' -> 1 .. config' - 1]
    <3>1. ASSUME NEW i \in 1 .. n + 1 PROVE g[i] \in 1 .. config
      <4>1. CASE i = n + 1
        BY <1>1, <4>1
      <4>2. CASE i # n + 1
        <5>1. i \in DOMAIN adapters
          BY <1>4, <4>2
        <5>2. f[i] \in 1 .. config - 1
          BY <1>3, <5>1
        <5> QED BY <1>1, <4>2, <5>2
      <4> QED BY <4>1, <4>2
    <3>2. config' - 1 = config
      BY <1>1, <1>6
    <3> QED BY <2>2, <3>1, <3>2
  <2>4. ASSUME NEW i \in 1 .. n + 1
        PROVE  Configs[g[i]] = adapters'[i] /\ (i > 1 => g[i - 1] < g[i])
    <3>1. CASE i = n + 1
      <4>1. ASSUME i > 1 PROVE g[i - 1] < g[i]
        <5>a. i - 1 = n /\ n \in Nat /\ n >= 1
          BY <1>4, <3>1, <4>1
        <5>1. i - 1 \in DOMAIN adapters /\ i - 1 \in 1 .. n + 1 /\ i - 1 # n + 1
          BY <1>4, <5>a
        <5>2. f[i - 1] \in 1 .. config - 1
          BY <1>3, <5>1
        <5>3. g[i - 1] = f[i - 1] /\ g[i] = config
          BY <3>1, <5>1
        <5> QED BY <1>1, <5>2, <5>3
      <4> QED BY <2>2, <3>1, <4>1
    <3>2. CASE i # n + 1
      <4>1. i \in DOMAIN adapters /\ i \in 1 .. n
        BY <1>4, <3>2
      <4>2. Configs[f[i]] = adapters[i] /\ (i > 1 => f[i - 1] < f[i])
        BY <1>3, <4>1
      <4>3. i > 1 => i - 1 \in 1 .. n + 1 /\ i - 1 # n + 1
        BY <1>4, <4>1
      <4> QED BY <2>2, <3>2, <4>1, <4>2, <4>3
    <3> QED BY <3>1, <3>2
  <2>5. Len(adapters') < config'
    BY <1>1, <1>2, <1>4, <1>6, <2>2
  <2> HIDE DEF g
  <2> QED BY <2>2, <2>3, <2>4, <2>5 DEF Mcp!DiscoveredInOrder
<1> QED
  BY <1>5, <1>6, McpGoesOn

(* Discovery registers the tools of its servers in the order of its          *)
(* configuration, one that fails or is slow never twice: DiscoveredInOrder   *)
(* of McpClient.                                                             *)
THEOREM McpDiscoveryCorrect == Mcp!Spec => []Mcp!DiscoveredInOrder
<1>1. Mcp!Init => McpInv
  BY McpInit
<1>2. McpInv /\ [Mcp!Next]_(Mcp!vars) => McpInv'
  BY McpStep
<1>3. Mcp!Init => Mcp!DiscoveredInOrder
  <2> SUFFICES ASSUME Mcp!Init PROVE Mcp!DiscoveredInOrder
    OBVIOUS
  <2>1. config = 1 /\ adapters = <<>> /\ Len(<<>>) = 0 /\ DOMAIN adapters = {}
    BY DEF Mcp!Init
  <2>2. [i \in {} |-> 0] \in [DOMAIN adapters -> 1 .. config - 1]
    BY <2>1
  <2>3. Len(adapters) < config
    BY <2>1
  <2>4. \E f \in [DOMAIN adapters -> 1 .. config - 1] :
          \A i \in DOMAIN adapters : Configs[f[i]] = adapters[i] /\ (i > 1 => f[i - 1] < f[i])
    <3> WITNESS [i \in {} |-> 0] \in [DOMAIN adapters -> 1 .. config - 1]
    <3> QED BY <2>1
  <2> QED BY <2>3, <2>4 DEF Mcp!DiscoveredInOrder
<1>4. McpInv /\ Mcp!DiscoveredInOrder /\ [Mcp!Next]_(Mcp!vars) => Mcp!DiscoveredInOrder'
  BY McpOrder
<1> QED BY <1>1, <1>2, <1>3, <1>4, PTL DEF Mcp!Spec

-----------------------------------------------------------------------------
(* The drivers: for each of their awaits, what may still run for the task,   *)
(* and what an answer that is on its way stands for.                         *)
LEMMA DrvMin ==
    ASSUME NEW S, S \subseteq Nat, S # {}
    PROVE  Drivers!Min(S) \in S /\ \A n \in S : Drivers!Min(S) <= n
<1>1. \E m \in S : \A n \in S : m <= n
  BY Smallest
<1> QED BY <1>1 DEF Drivers!Min


DrvModels == Model \cup {NoModel, DefaultModel}
DrvStatus == {"none", "running", "completed", "stopped", "error"}

DrvTypes ==
    /\ DOMAIN stage = Task /\ DOMAIN driver = Task /\ DOMAIN child = Task
    /\ DOMAIN holder = Task /\ DOMAIN printed = Task /\ DOMAIN result = Task
    /\ model \in [Task -> DrvModels]
    /\ remote \in [Task -> [status : DrvStatus, model : DrvModels]]
    /\ settings \in DrvModels

\* Where a driver's task may be, and what then runs for it.
DrvPlaces(t) ==
    /\ stage[t] \in {"waiting", "draining"} => driver[t] \in {"cli", "code"}
    /\ stage[t] \in {"calling", "listing"} => driver[t] \in {"adk", "ollama"}
    /\ stage[t] \in {"settings", "create", "polling"} => driver[t] = "openhands"
    /\ stage[t] = "polling" => remote[t].status # "none"
    /\ result[t].success => stage[t] = "done"
    /\ child[t] = "running" \/ holder[t] => stage[t] \in {"waiting", "draining", "cancelled"}
    /\ stage[t] = "draining" => child[t] # "running"

\* What an answered task stands for.
DrvGenuine(t) ==
    result[t].success =>
        CASE driver[t] \in {"cli", "code"} -> child[t] = "ended" /\ printed[t].code = 0
          [] driver[t] = "openhands" -> remote[t].status = "completed"
          [] OTHER -> TRUE

\* The server works, or will work, with the task's model.
DrvUndisturbed(t) ==
    /\ stage[t] = "create" => settings = model[t]
    /\ stage[t] = "polling" => remote[t].model = model[t]
    /\ driver[t] = "openhands" /\ result[t].success =>
        /\ remote[t].model = result[t].model
        /\ result[t].cost \in {0, Drivers!ResolvePricing(remote[t].model)}

DrvTask(t) == DrvPlaces(t) /\ DrvGenuine(t) /\ (t \in disturbed \/ DrvUndisturbed(t))
DrvInv == DrvTypes /\ \A t \in Task : DrvTask(t)

(* A step of one task leaves the others as they are, unless it changes the   *)
(* settings of the server under them.                                        *)
LEMMA DrvKeeps ==
  ASSUME DrvInv, DrvTypes', NEW t \in Task, DrvTask(t)',
         \A u \in Task \ {t} :
            /\ stage'[u] = stage[u] /\ driver'[u] = driver[u] /\ model'[u] = model[u]
            /\ child'[u] = child[u] /\ holder'[u] = holder[u] /\ printed'[u] = printed[u]
            /\ result'[u] = result[u] /\ remote'[u] = remote[u]
            /\ u \notin disturbed' => u \notin disturbed
            /\ stage[u] = "create" /\ u \notin disturbed' => settings' = settings \/ settings' = model[u]
  PROVE  DrvInv'
<1>1. ASSUME NEW u \in Task \ {t} PROVE DrvTask(u)'
  <2>1. DrvTask(u)
    BY DEF DrvInv
  <2>2. DrvPlaces(u)'
    BY <2>1 DEF DrvTask, DrvPlaces
  <2>3. DrvGenuine(u)'
    BY <2>1 DEF DrvTask, DrvGenuine
  <2>4. u \in disturbed' \/ DrvUndisturbed(u)'
    BY <2>1 DEF DrvTask, DrvUndisturbed, Drivers!ResolvePricing
  <2> QED BY <2>2, <2>3, <2>4 DEF DrvTask
<1> QED BY <1>1 DEF DrvInv

LEMMA DrvInit == ASSUME Drivers!Init PROVE DrvInv
<1>1. DrvTypes
  BY DEF Drivers!Init, DrvTypes, DrvModels, DrvStatus, Drivers!NoConversation
<1>2. ASSUME NEW t \in Task PROVE DrvTask(t)
  <2>1. /\ stage[t] = "new" /\ child[t] = "none" /\ holder[t] = FALSE /\ result[t].success = FALSE
        /\ driver[t] = "-"
    BY DEF Drivers!Init, Drivers!NoResult
  <2> QED BY <2>1 DEF DrvTask, DrvPlaces, DrvGenuine, DrvUndisturbed
<1> QED BY <1>1, <1>2 DEF DrvInv

LEMMA DrvStay == ASSUME DrvInv, UNCHANGED Drivers!vars PROVE DrvInv'
<1>1. UNCHANGED <<stage, driver, model, child, holder, printed, result, settings, remote, disturbed>>
  BY DEF Drivers!vars
<1>2. DrvTypes'
  BY <1>1 DEF DrvInv, DrvTypes
<1>3. ASSUME NEW t \in Task PROVE DrvTask(t)'
  <2>1. DrvTask(t)
    BY DEF DrvInv
  <2>2. Drivers!ResolvePricing(remote[t].model)' = Drivers!ResolvePricing(remote[t].model)
    BY <1>1
  <2> QED BY <1>1, <2>1, <2>2 DEF DrvTask, DrvPlaces, DrvGenuine, DrvUndisturbed
<1> QED BY <1>2, <1>3 DEF DrvInv

LEMMA DrvChildEnds == ASSUME DrvInv, NEW t \in Task, Drivers!ChildEnds(t) PROVE DrvInv'
<1>0. DrvTypes /\ DrvTask(t)
  BY DEF DrvInv
<1>1. /\ child[t] = "running" /\ child'[t] = "ended"
      /\ \A u \in Task \ {t} : child'[u] = child[u] /\ holder'[u] = holder[u] /\ printed'[u] = printed[u]
      /\ UNCHANGED <<stage, driver, model, result, settings, remote, disturbed>>
  BY <1>0 DEF Drivers!ChildEnds, DrvTypes
<1>2. DrvTypes'
  BY <1>0 DEF Drivers!ChildEnds, DrvTypes
<1>3. DrvTask(t)'
  <2>1. stage[t] \in {"waiting", "draining", "cancelled"} /\ ~result[t].success
    BY <1>0, <1>1 DEF DrvTask, DrvPlaces
  <2>2. DrvPlaces(t)'
    BY <1>0, <1>1, <2>1 DEF DrvTask, DrvPlaces
  <2>3. DrvGenuine(t)'
    BY <1>1, <2>1 DEF DrvGenuine
  <2>4. t \in disturbed' \/ DrvUndisturbed(t)'
    BY <1>1, <2>1 DEF DrvUndisturbed
  <2> QED BY <2>2, <2>3, <2>4 DEF DrvTask
<1> QED BY <1>1, <1>2, <1>3, DrvKeeps

LEMMA DrvHolderEnds == ASSUME DrvInv, NEW t \in Task, Drivers!HolderEnds(t) PROVE DrvInv'
<1>0. DrvTypes /\ DrvTask(t)
  BY DEF DrvInv
<1>1. /\ holder'[t] = FALSE /\ \A u \in Task \ {t} : holder'[u] = holder[u]
      /\ UNCHANGED <<stage, driver, model, child, printed, result, settings, remote, disturbed>>
  BY <1>0 DEF Drivers!HolderEnds, DrvTypes
<1>2. DrvTypes'
  BY <1>0 DEF Drivers!HolderEnds, DrvTypes
<1>3. DrvTask(t)'
  <2>1. DrvPlaces(t)' /\ DrvGenuine(t)'
    BY <1>0, <1>1 DEF DrvTask, DrvPlaces, DrvGenuine
  <2>2. t \in disturbed' \/ DrvUndisturbed(t)'
    BY <1>0, <1>1 DEF DrvTask, DrvUndisturbed, Drivers!ResolvePricing
  <2> QED BY <2>1, <2>2 DEF DrvTask
<1> QED BY <1>1, <1>2, <1>3, DrvKeeps

LEMMA DrvCancel == ASSUME DrvInv, NEW t \in Task, Drivers!Cancel(t) PROVE DrvInv'
<1>0. DrvTypes /\ DrvTask(t)
  BY DEF DrvInv
<1>1. /\ stage[t] # "done" /\ stage'[t] = "cancelled" /\ \A u \in Task \ {t} : stage'[u] = stage[u]
      /\ UNCHANGED <<driver, model, child, holder, printed, result, settings, remote, disturbed>>
  BY <1>0 DEF Drivers!Cancel, Drivers!Goto, DrvTypes
<1>2. DrvTypes'
  BY <1>0 DEF Drivers!Cancel, Drivers!Goto, DrvTypes
<1>3. DrvTask(t)'
  BY <1>0, <1>1 DEF DrvTask, DrvPlaces, DrvGenuine, DrvUndisturbed
<1> QED BY <1>1, <1>2, <1>3, DrvKeeps

LEMMA DrvTimedOut == ASSUME DrvInv, NEW t \in Task, Drivers!TimedOut(t) PROVE DrvInv'
<1>0. DrvTypes /\ DrvTask(t)
  BY DEF DrvInv
<1>1. /\ stage[t] = "waiting" /\ stage'[t] = "draining" /\ child'[t] # "running"
      /\ \A u \in Task \ {t} : stage'[u] = stage[u] /\ child'[u] = child[u] /\ holder'[u] = holder[u]
      /\ UNCHANGED <<driver, model, printed, result, settings, remote, disturbed>>
  BY <1>0 DEF Drivers!TimedOut, Drivers!Goto, Drivers!Kill, DrvTypes
<1>2. DrvTypes'
  BY <1>0 DEF Drivers!TimedOut, Drivers!Goto, DrvTypes
<1>3. DrvTask(t)'
  BY <1>0, <1>1 DEF DrvTask, DrvPlaces, DrvGenuine, DrvUndisturbed
<1> QED BY <1>1, <1>2, <1>3, DrvKeeps

\* A task that fails at once, or at the end of what it waits for.
LEMMA DrvReturns ==
  ASSUME DrvInv, NEW t \in Task, NEW r, Drivers!Return(t, r),
         ~r.success, child[t] # "running", ~holder[t],
         UNCHANGED <<driver, model, child, holder, printed, settings, remote, disturbed>>
  PROVE  DrvInv'
<1>0. DrvTypes /\ DrvTask(t)
  BY DEF DrvInv
<1>1. /\ stage'[t] = "done" /\ result'[t] = r
      /\ \A u \in Task \ {t} : stage'[u] = stage[u] /\ result'[u] = result[u]
  BY <1>0 DEF Drivers!Return, Drivers!Goto, DrvTypes
<1>2. DrvTypes'
  BY <1>0 DEF Drivers!Return, Drivers!Goto, DrvTypes
<1>3. DrvTask(t)'
  BY <1>0, <1>1 DEF DrvTask, DrvPlaces, DrvGenuine, DrvUndisturbed
<1> QED BY <1>1, <1>2, <1>3, DrvKeeps

LEMMA DrvFailureFacts ==
  /\ \A o : Drivers!Failure(o).success = FALSE
  /\ \A o, m : [Drivers!Failure(o) EXCEPT !.model = m].success = FALSE
  /\ Drivers!NoResult.success = FALSE
BY DEF Drivers!Failure, Drivers!NoResult

LEMMA DrvDrained == ASSUME DrvInv, NEW t \in Task, Drivers!Drained(t) PROVE DrvInv'
<1>1. stage[t] = "draining" /\ child[t] # "running" /\ ~holder[t]
  BY DEF Drivers!Drained, DrvInv, DrvTask, DrvPlaces
<1> QED BY <1>1, DrvReturns, DrvFailureFacts DEF Drivers!Drained

\* A task that no process works for goes to another place.
LEMMA DrvGoes ==
  ASSUME DrvInv, NEW t \in Task, NEW s, Drivers!Goto(t, s), stage[t] # "done", child[t] # "running", ~holder[t],
         \/ s = "raised"
         \/ s = "calling" /\ driver[t] \in {"adk", "ollama"},
         UNCHANGED <<driver, model, child, holder, printed, result, settings, remote, disturbed>>
  PROVE  DrvInv'
<1>0. DrvTypes /\ DrvTask(t)
  BY DEF DrvInv
<1>1. stage'[t] = s /\ \A u \in Task \ {t} : stage'[u] = stage[u]
  BY <1>0 DEF Drivers!Goto, DrvTypes
<1>2. DrvTypes'
  BY <1>0 DEF Drivers!Goto, DrvTypes
<1>3. DrvTask(t)'
  BY <1>0, <1>1 DEF DrvTask, DrvPlaces, DrvGenuine, DrvUndisturbed
<1> QED BY <1>1, <1>2, <1>3, DrvKeeps

LEMMA DrvListed == ASSUME DrvInv, NEW t \in Task, Drivers!Listed(t) PROVE DrvInv'
<1>1. /\ stage[t] = "listing" /\ child[t] # "running" /\ ~holder[t] /\ driver[t] \in {"adk", "ollama"}
      /\ UNCHANGED <<driver, model, child, holder, printed, settings, remote, disturbed>>
  BY DEF Drivers!Listed, DrvInv, DrvTask, DrvPlaces
<1>2. \/ Drivers!Goto(t, "calling") /\ UNCHANGED result
      \/ Drivers!Return(t, Drivers!Failure("not installed"))
  BY DEF Drivers!Listed
<1> QED BY <1>1, <1>2, DrvGoes, DrvReturns, DrvFailureFacts

LEMMA DrvCalled == ASSUME DrvInv, NEW t \in Task, Drivers!Called(t) PROVE DrvInv'
<1>0. DrvTypes /\ DrvTask(t)
  BY DEF DrvInv
<1>1. /\ stage[t] = "calling" /\ child[t] # "running" /\ ~holder[t] /\ driver[t] \in {"adk", "ollama"}
      /\ UNCHANGED <<driver, model, child, holder, printed, settings, remote, disturbed>>
  BY <1>0 DEF Drivers!Called, DrvTask, DrvPlaces
<1>2. CASE Drivers!Return(t, [Drivers!Failure("error") EXCEPT !.model = model[t]])
  BY <1>1, <1>2, DrvReturns, DrvFailureFacts
<1>3. CASE Drivers!Return(t, [success |-> TRUE, output |-> "answer", model |-> model[t], cost |-> 0])
  <2>1. /\ stage'[t] = "done" /\ \A u \in Task \ {t} : stage'[u] = stage[u] /\ result'[u] = result[u]
    BY <1>0, <1>3 DEF Drivers!Return, Drivers!Goto, DrvTypes
  <2>2. DrvTypes'
    BY <1>0, <1>1, <1>3 DEF Drivers!Return, Drivers!Goto, DrvTypes
  <2>3. DrvTask(t)'
    BY <1>0, <1>1, <2>1 DEF DrvTask, DrvPlaces, DrvGenuine, DrvUndisturbed
  <2> QED BY <1>1, <2>1, <2>2, <2>3, DrvKeeps
<1> QED BY <1>2, <1>3 DEF Drivers!Called

\* An answer of a process that has ended by itself with code 0.
LEMMA DrvAnswers ==
  ASSUME DrvInv, NEW t \in Task, NEW r, Drivers!Return(t, r),
         stage[t] = "waiting", child[t] = "ended", ~holder[t], printed[t].code = 0,
         UNCHANGED <<driver, model, child, holder, printed, settings, remote, disturbed>>
  PROVE  DrvInv'
<1>0. DrvTypes /\ DrvTask(t)
  BY DEF DrvInv
<1>1. /\ stage'[t] = "done" /\ \A u \in Task \ {t} : stage'[u] = stage[u] /\ result'[u] = result[u]
      /\ driver[t] \in {"cli", "code"}
  BY <1>0 DEF Drivers!Return, Drivers!Goto, DrvTypes, DrvTask, DrvPlaces
<1>2. DrvTypes'
  BY <1>0 DEF Drivers!Return, Drivers!Goto, DrvTypes
<1>3. DrvTask(t)'
  BY <1>0, <1>1 DEF DrvTask, DrvPlaces, DrvGenuine, DrvUndisturbed
<1> QED BY <1>1, <1>2, <1>3, DrvKeeps

LEMMA DrvCommunicated == ASSUME DrvInv, NEW t \in Task, Drivers!Communicated(t) PROVE DrvInv'
<1>0. DrvTypes /\ DrvTask(t)
  BY DEF DrvInv
<1>1. /\ stage[t] = "waiting" /\ child[t] = "ended" /\ ~holder[t]
      /\ UNCHANGED <<driver, model, child, holder, printed, settings, remote, disturbed>>
      /\ Drivers!ParseCli(t) \/ Drivers!ParseCode(t)
  BY DEF Drivers!Communicated
<1>2. \/ \E o : Drivers!Return(t, Drivers!Failure(o))
      \/ Drivers!Goto(t, "raised") /\ UNCHANGED result
      \/ printed[t].code = 0 /\ \E r : Drivers!Return(t, r)
  <2>1. CASE Drivers!ParseCli(t)
    <3>1. CASE printed[t].code # 0
      BY <2>1, <3>1 DEF Drivers!ParseCli
    <3>2. CASE printed[t].code = 0 /\ printed[t].form = "number"
      BY <2>1, <3>2 DEF Drivers!ParseCli
    <3>3. CASE printed[t].code = 0 /\ printed[t].form = "object"
      BY <2>1, <3>3 DEF Drivers!ParseCli
    <3>4. CASE printed[t].code = 0 /\ printed[t].form \notin {"number", "object"}
      BY <2>1, <3>4 DEF Drivers!ParseCli
    <3> QED BY <3>1, <3>2, <3>3, <3>4
  <2>2. CASE Drivers!ParseCode(t)
    <3>1. CASE printed[t].code # 0
      BY <2>2, <3>1 DEF Drivers!ParseCode
    <3>2. CASE printed[t].code = 0 /\ printed[t].form = "bytes"
      BY <2>2, <3>2 DEF Drivers!ParseCode
    <3>3. CASE printed[t].code = 0 /\ printed[t].form # "bytes"
      BY <2>2, <3>3 DEF Drivers!ParseCode
    <3> QED BY <3>1, <3>2, <3>3
  <2> QED BY <1>1, <2>1, <2>2
<1>3. CASE \E o : Drivers!Return(t, Drivers!Failure(o))
  BY <1>1, <1>3, DrvReturns, DrvFailureFacts
<1>4. CASE Drivers!Goto(t, "raised") /\ UNCHANGED result
  BY <1>1, <1>4, DrvGoes
<1>5. CASE printed[t].code = 0 /\ \E r : Drivers!Return(t, r)
  BY <1>1, <1>5, DrvAnswers
<1> QED BY <1>2, <1>3, <1>4, <1>5

-----------------------------------------------------------------------------
\* OpenHands.
LEMMA DrvPrice ==
  ASSUME NEW m, NEW usage \in {0, 1}
  PROVE  Drivers!Calculate(m, usage) \in {0, Drivers!ResolvePricing(m)}
<1>1. Keys \in Seq(DOMAIN PriceOf) /\ PriceOf \in [DOMAIN PriceOf -> Nat] /\ DefaultPrice \in Nat
  BY DriversAssumption
<1> DEFINE like == {i \in DOMAIN Keys : <<Keys[i], m>> \in Similar}
<1>2. like \subseteq Nat
  BY <1>1
<1>3. like # {} => PriceOf[Keys[Drivers!Min(like)]] \in Nat
  <2> SUFFICES ASSUME like # {} PROVE PriceOf[Keys[Drivers!Min(like)]] \in Nat
    OBVIOUS
  <2>1. Drivers!Min(like) \in like
    BY <1>2, DrvMin
  <2> QED BY <1>1, <2>1
<1>4. m \in Drivers!ToSet(Keys) => PriceOf[m] \in Nat
  BY <1>1 DEF Drivers!ToSet
<1>5. Drivers!ResolvePricing(m) \in Nat
  BY <1>1, <1>3, <1>4 DEF Drivers!ResolvePricing
<1> QED BY <1>5 DEF Drivers!Calculate

LEMMA DrvPollFails == ASSUME DrvInv, NEW t \in Task, Drivers!PollFails(t) PROVE DrvInv'
<1>1. stage[t] = "polling" /\ child[t] # "running" /\ ~holder[t]
  BY DEF Drivers!PollFails, DrvInv, DrvTask, DrvPlaces
<1> QED BY <1>1, DrvReturns, DrvFailureFacts DEF Drivers!PollFails

LEMMA DrvPoll == ASSUME DrvInv, NEW t \in Task, Drivers!Poll(t) PROVE DrvInv'
<1>0. DrvTypes /\ DrvTask(t)
  BY DEF DrvInv
<1>1. /\ stage[t] = "polling" /\ child[t] # "running" /\ ~holder[t] /\ driver[t] = "openhands"
      /\ remote[t].status \in {"completed", "stopped", "error"}
      /\ t \in disturbed \/ remote[t].model = model[t]
      /\ UNCHANGED <<driver, model, child, holder, printed, settings, remote, disturbed>>
  BY <1>0 DEF Drivers!Poll, DrvTypes, DrvStatus, DrvTask, DrvPlaces, DrvUndisturbed
<1>2. CASE remote[t].status = "error"
  BY <1>1, <1>2, DrvReturns, DrvFailureFacts DEF Drivers!Poll
<1>3. CASE remote[t].status # "error"
  <2>1. PICK usage \in {0, 1} :
           Drivers!Return(t, [success |-> remote[t].status # "stopped", output |-> "result",
                              model |-> model[t], cost |-> Drivers!Calculate(model[t], usage)])
    BY <1>3 DEF Drivers!Poll
  <2>2. /\ stage'[t] = "done" /\ result'[t].success = (remote[t].status # "stopped")
        /\ result'[t].model = model[t] /\ result'[t].cost = Drivers!Calculate(model[t], usage)
        /\ \A u \in Task \ {t} : stage'[u] = stage[u] /\ result'[u] = result[u]
    BY <1>0, <2>1 DEF Drivers!Return, Drivers!Goto, DrvTypes
  <2>3. DrvTypes'
    BY <1>0, <1>1, <2>1 DEF Drivers!Return, Drivers!Goto, DrvTypes
  <2>4. result'[t].cost \in {0, Drivers!ResolvePricing(model[t])}
    <3>1. Drivers!Calculate(model[t], usage) \in {0, Drivers!ResolvePricing(model[t])}
      BY DrvPrice
    <3> QED BY <2>2, <3>1
  <2>5. DrvPlaces(t)' /\ DrvGenuine(t)'
    BY <1>1, <1>3, <2>2 DEF DrvPlaces, DrvGenuine
  <2>6. t \in disturbed' \/ DrvUndisturbed(t)'
    BY <1>1, <2>2, <2>4 DEF DrvUndisturbed, Drivers!ResolvePricing
  <2>7. DrvTask(t)'
    BY <2>5, <2>6 DEF DrvTask
  <2> QED BY <1>1, <2>2, <2>3, <2>7, DrvKeeps
<1> QED BY <1>2, <1>3

LEMMA DrvRemoteEnds == ASSUME DrvInv, NEW t \in Task, Drivers!RemoteEnds(t) PROVE DrvInv'
<1>0. DrvTypes /\ DrvTask(t)
  BY DEF DrvInv
<1>1. PICK s \in {"completed", "stopped", "error"} : remote' = [remote EXCEPT ![t].status = s]
  BY DEF Drivers!RemoteEnds
<1>2. remote[t] \in [status : DrvStatus, model : DrvModels]
  BY <1>0 DEF DrvTypes
<1>3. /\ remote'[t].status = s /\ remote'[t].model = remote[t].model
      /\ remote'[t] \in [status : DrvStatus, model : DrvModels]
      /\ \A u \in Task \ {t} : remote'[u] = remote[u]
  BY <1>0, <1>1, <1>2 DEF DrvTypes, DrvStatus
<1>4. /\ remote[t].status = "running"
      /\ UNCHANGED <<stage, driver, model, child, holder, printed, result, settings, disturbed>>
  BY DEF Drivers!RemoteEnds
<1>5. DrvTypes'
  <2>1. remote' \in [Task -> [status : DrvStatus, model : DrvModels]]
    BY <1>0, <1>1, <1>3 DEF DrvTypes
  <2> QED BY <1>0, <1>4, <2>1 DEF DrvTypes
<1>6. driver[t] = "openhands" => ~result[t].success
  BY <1>0, <1>4 DEF DrvTask, DrvGenuine
<1>7. DrvTask(t)'
  <2>1. DrvPlaces(t)'
    BY <1>0, <1>3, <1>4 DEF DrvTask, DrvPlaces
  <2>2. DrvGenuine(t)'
    BY <1>0, <1>4, <1>6 DEF DrvTask, DrvGenuine
  <2>3. t \in disturbed' \/ DrvUndisturbed(t)'
    BY <1>0, <1>3, <1>4, <1>6 DEF DrvTask, DrvUndisturbed
  <2> QED BY <2>1, <2>2, <2>3 DEF DrvTask
<1> QED BY <1>3, <1>4, <1>5, <1>7, DrvKeeps

\* The settings are changed under those that have not begun yet, and they are told.
LEMMA DrvEnsureSettings == ASSUME DrvInv, NEW t \in Task, Drivers!EnsureSettings(t) PROVE DrvInv'
<1>0. DrvTypes /\ DrvTask(t)
  BY DEF DrvInv
<1>1. /\ stage[t] = "settings" /\ child[t] # "running" /\ ~holder[t] /\ ~result[t].success
      /\ driver[t] = "openhands"
      /\ UNCHANGED <<driver, model, child, holder, printed, result, remote>>
  BY <1>0 DEF Drivers!EnsureSettings, DrvTask, DrvPlaces
<1>2. stage'[t] = "create" /\ \A u \in Task \ {t} : stage'[u] = stage[u]
  BY <1>0 DEF Drivers!EnsureSettings, Drivers!Goto, DrvTypes
<1>3. \/ /\ settings' = model[t]
         /\ disturbed' = (disturbed \ {t}) \cup {u \in Drivers!Posting : model[u] # model[t]}
      \/ disturbed' = disturbed \cup {t} /\ settings' = settings
  BY DEF Drivers!EnsureSettings
<1>4. DrvTypes'
  <2>1. settings' \in DrvModels
    BY <1>0, <1>3 DEF DrvTypes
  <2> QED BY <1>0, <1>1, <2>1 DEF Drivers!EnsureSettings, Drivers!Goto, DrvTypes
<1>5. DrvTask(t)'
  BY <1>0, <1>1, <1>2, <1>3 DEF DrvTask, DrvPlaces, DrvGenuine, DrvUndisturbed
<1>6. ASSUME NEW u \in Task \ {t}
      PROVE  /\ u \notin disturbed' => u \notin disturbed
             /\ stage[u] = "create" /\ u \notin disturbed' => settings' = settings \/ settings' = model[u]
  <2>1. stage[u] = "create" => u \in Drivers!Posting
    BY DEF DrvInv, DrvTask, DrvPlaces, Drivers!Posting
  <2> QED BY <1>3, <2>1
<1> QED BY <1>1, <1>2, <1>4, <1>5, <1>6, DrvKeeps

LEMMA DrvCreateConversation == ASSUME DrvInv, NEW t \in Task, Drivers!CreateConversation(t) PROVE DrvInv'
<1>0. DrvTypes /\ DrvTask(t)
  BY DEF DrvInv
<1>1. /\ stage[t] = "create" /\ child[t] # "running" /\ ~holder[t] /\ ~result[t].success
      /\ driver[t] = "openhands"
      /\ UNCHANGED <<driver, model, child, holder, printed, settings>>
  BY <1>0 DEF Drivers!CreateConversation, DrvTask, DrvPlaces
<1>2. CASE Drivers!Return(t, Drivers!Failure("create")) /\ UNCHANGED <<remote, disturbed>>
  BY <1>1, <1>2, DrvReturns, DrvFailureFacts
<1>3. ASSUME NEW m \in DrvModels, m = model[t] \/ t \in disturbed' \/ (m = settings /\ UNCHANGED disturbed),
             remote' = [remote EXCEPT ![t] = Drivers!Conversation(m)], Drivers!Goto(t, "polling"),
             UNCHANGED result, disturbed' \in {disturbed, disturbed \ {t}}
      PROVE  DrvInv'
  <2>1. /\ remote'[t].status = "running" /\ remote'[t].model = m
        /\ stage'[t] = "polling"
        /\ \A u \in Task \ {t} : remote'[u] = remote[u] /\ stage'[u] = stage[u]
    BY <1>0, <1>3 DEF Drivers!Conversation, Drivers!Goto, DrvTypes
  <2>2. Drivers!Conversation(m) \in [status : DrvStatus, model : DrvModels]
    BY DEF Drivers!Conversation, DrvStatus
  <2>3. DrvTypes'
    BY <1>0, <1>1, <1>3, <2>2 DEF Drivers!Goto, DrvTypes
  <2>4. t \in disturbed' \/ m = model[t]
    BY <1>0, <1>1, <1>3 DEF DrvTask, DrvUndisturbed
  <2>5. DrvTask(t)'
    BY <1>0, <1>1, <1>3, <2>1, <2>4 DEF DrvTask, DrvPlaces, DrvGenuine, DrvUndisturbed
  <2>6. ASSUME NEW u \in Task \ {t} PROVE u \notin disturbed' => u \notin disturbed
    BY <1>3
  <2> QED BY <1>1, <1>3, <2>1, <2>3, <2>5, <2>6, DrvKeeps
<1>4. settings \in DrvModels /\ model[t] \in DrvModels
  BY <1>0 DEF DrvTypes
<1> QED BY <1>2, <1>3, <1>4 DEF Drivers!CreateConversation

-----------------------------------------------------------------------------
\* Where a task begins. An answer without code, a driver that is off and a
\* program that is missing end it at once.
LEMMA DrvBegins ==
  ASSUME DrvInv, NEW t \in Task, NEW d \in Driver, stage[t] = "new",
         driver' = [driver EXCEPT ![t] = d], DrvTypes',
         \A u \in Task \ {t} : /\ stage'[u] = stage[u] /\ child'[u] = child[u]
                               /\ result'[u] = result[u] /\ model'[u] = model[u],
         UNCHANGED <<holder, printed, settings, remote>>,
         disturbed' = IF d = "openhands" /\ ~HasApiKey THEN disturbed \cup {t} ELSE disturbed,
         \/ stage'[t] \in {"done", "raised"} /\ child'[t] = child[t] /\ ~result'[t].success
         \/ stage'[t] = "waiting" /\ d \in {"cli", "code"} /\ result'[t] = result[t]
         \/ stage'[t] \in {"calling", "listing"} /\ d \in {"adk", "ollama"} /\ child'[t] = child[t] /\ result'[t] = result[t]
         \/ /\ stage'[t] = IF HasApiKey THEN "settings" ELSE "create"
            /\ d = "openhands" /\ child'[t] = child[t] /\ result'[t] = result[t]
  PROVE  DrvInv'
<1>0. DrvTypes /\ DrvTask(t)
  BY DEF DrvInv
<1>1. driver'[t] = d /\ \A u \in Task \ {t} : driver'[u] = driver[u]
  BY <1>0 DEF DrvTypes
<1>2. child[t] # "running" /\ ~holder[t] /\ ~result[t].success
  BY <1>0 DEF DrvTask, DrvPlaces
<1>3. ~result'[t].success
  BY <1>2
<1>4. DrvPlaces(t)'
  BY <1>1, <1>2, <1>3 DEF DrvPlaces
<1>5. DrvGenuine(t)'
  BY <1>3 DEF DrvGenuine
<1>6. t \in disturbed' \/ DrvUndisturbed(t)'
  BY <1>1, <1>3 DEF DrvUndisturbed
<1>7. DrvTask(t)'
  BY <1>4, <1>5, <1>6 DEF DrvTask
<1> QED BY <1>1, <1>7, DrvKeeps

LEMMA DrvStart == ASSUME DrvInv, NEW t \in Task, Drivers!Start(t) PROVE DrvInv'
<1>0. DrvTypes /\ stage[t] = "new" /\ UNCHANGED <<holder, printed, settings, remote>>
  BY DEF DrvInv, Drivers!Start
<1>1. PICK d \in Driver, m \in Model, found \in {"ready", "disabled", "missing"} :
        /\ driver' = [driver EXCEPT ![t] = d]
        /\ model' = [model EXCEPT ![t] =
              IF m = NoModel /\ d \in {"adk", "ollama", "openhands"} THEN DefaultModel ELSE m]
        /\ CASE found = "disabled" /\ d \in {"cli", "adk"} -> Drivers!Return(t, Drivers!Failure("disabled")) /\ UNCHANGED child
             [] d = "cli" /\ found = "missing" -> Drivers!Goto(t, "raised") /\ UNCHANGED <<child, result>>
             [] d = "cli" /\ found = "ready" -> Drivers!Spawn(t)
             [] d = "code" ->
                  \E blocks \in Blocks :
                    IF Drivers!FindExecutableBlock(blocks) = 0
                    THEN Drivers!Return(t, Drivers!Failure("no code")) /\ UNCHANGED child
                    ELSE Drivers!Spawn(t)
             [] d = "adk" /\ found = "missing" -> Drivers!Return(t, Drivers!Failure("not installed")) /\ UNCHANGED child
             [] d = "adk" /\ found = "ready" -> Drivers!Goto(t, "calling") /\ UNCHANGED <<child, result>>
             [] d = "ollama" -> Drivers!Goto(t, "listing") /\ UNCHANGED <<child, result>>
             [] d = "openhands" ->
                  Drivers!Goto(t, IF HasApiKey THEN "settings" ELSE "create") /\ UNCHANGED <<child, result>>
        /\ disturbed' = IF d = "openhands" /\ ~HasApiKey THEN disturbed \cup {t} ELSE disturbed
  BY DEF Drivers!Start
<1> DEFINE Ends == \E o : Drivers!Return(t, Drivers!Failure(o)) /\ UNCHANGED child
           Raises == Drivers!Goto(t, "raised") /\ UNCHANGED <<child, result>>
           Spawns == Drivers!Spawn(t) /\ d \in {"cli", "code"}
           Asks == /\ Drivers!Goto(t, "calling") \/ Drivers!Goto(t, "listing")
                   /\ d \in {"adk", "ollama"} /\ UNCHANGED <<child, result>>
           Sets == /\ Drivers!Goto(t, IF HasApiKey THEN "settings" ELSE "create")
                   /\ d = "openhands" /\ UNCHANGED <<child, result>>
<1>2. Ends \/ Raises \/ Spawns \/ Asks \/ Sets
  <2>0. d \in {"cli", "code", "adk", "ollama", "openhands"}
    BY DriversAssumption
  <2>1. CASE found = "disabled" /\ d \in {"cli", "adk"}
    BY <1>1, <2>1
  <2>2. CASE d = "cli" /\ found = "missing"
    BY <1>1, <2>2
  <2>3. CASE d = "cli" /\ found = "ready"
    BY <1>1, <2>3
  <2>4. CASE d = "code"
    BY <1>1, <2>4
  <2>5. CASE d = "adk" /\ found = "missing"
    BY <1>1, <2>5
  <2>6. CASE d = "adk" /\ found = "ready"
    BY <1>1, <2>6
  <2>7. CASE d = "ollama"
    BY <1>1, <2>7
  <2>8. CASE d = "openhands"
    BY <1>1, <2>8
  <2> QED BY <2>0, <2>1, <2>2, <2>3, <2>4, <2>5, <2>6, <2>7, <2>8
<1>3. /\ \A u \in Task \ {t} : /\ stage'[u] = stage[u] /\ child'[u] = child[u]
                               /\ result'[u] = result[u] /\ model'[u] = model[u]
      /\ \/ stage'[t] \in {"done", "raised"} /\ child'[t] = child[t] /\ ~result'[t].success
         \/ stage'[t] = "waiting" /\ d \in {"cli", "code"} /\ result'[t] = result[t]
         \/ stage'[t] \in {"calling", "listing"} /\ d \in {"adk", "ollama"} /\ child'[t] = child[t] /\ result'[t] = result[t]
         \/ /\ stage'[t] = IF HasApiKey THEN "settings" ELSE "create"
            /\ d = "openhands" /\ child'[t] = child[t] /\ result'[t] = result[t]
      /\ DOMAIN stage' = Task /\ DOMAIN child' = Task /\ DOMAIN result' = Task
  <2>1. \A u \in Task \ {t} : model'[u] = model[u]
    BY <1>0, <1>1 DEF DrvTypes
  <2>2. CASE Ends
    BY <1>0, <2>1, <2>2, DrvFailureFacts DEF Drivers!Return, Drivers!Goto, DrvTypes
  <2>3. CASE Raises
    <3>1. ~result[t].success
      BY <1>0 DEF DrvInv, DrvTask, DrvPlaces
    <3> QED BY <1>0, <2>1, <2>3, <3>1 DEF Drivers!Goto, DrvTypes
  <2>4. CASE Spawns
    BY <1>0, <2>1, <2>4 DEF Drivers!Spawn, Drivers!Goto, DrvTypes
  <2>5. CASE Asks
    BY <1>0, <2>1, <2>5 DEF Drivers!Goto, DrvTypes
  <2>6. CASE Sets
    BY <1>0, <2>1, <2>6 DEF Drivers!Goto, DrvTypes
  <2> QED BY <1>2, <2>2, <2>3, <2>4, <2>5, <2>6
<1> HIDE DEF Ends, Raises, Spawns, Asks, Sets
<1>4. DrvTypes'
  <2>1. model' \in [Task -> DrvModels]
    BY <1>0, <1>1 DEF DrvTypes, DrvModels
  <2> QED BY <1>0, <1>1, <1>3, <2>1 DEF DrvTypes
<1>5. /\ driver' = [driver EXCEPT ![t] = d]
      /\ disturbed' = IF d = "openhands" /\ ~HasApiKey THEN disturbed \cup {t} ELSE disturbed
  BY <1>1
<1> QED BY <1>0, <1>3, <1>4, <1>5, DrvBegins

LEMMA DrvStep == ASSUME DrvInv, [Drivers!Next]_(Drivers!vars) PROVE DrvInv'
BY DrvStay, DrvStart, DrvChildEnds, DrvHolderEnds, DrvCommunicated, DrvTimedOut, DrvDrained, DrvCancel,
   DrvListed, DrvCalled, DrvEnsureSettings, DrvCreateConversation, DrvRemoteEnds, DrvPoll, DrvPollFails
   DEF Drivers!Next

LEMMA DrvAlways == Drivers!Spec => []DrvInv
<1>1. Drivers!Init => DrvInv
  BY DrvInit
<1>2. DrvInv /\ [Drivers!Next]_(Drivers!vars) => DrvInv'
  BY DrvStep
<1> QED BY <1>1, <1>2, PTL DEF Drivers!Spec

(* No process outlives the task it worked for, a cancelled one apart:        *)
(* NothingOutlivesItsTask of AgentDrivers.                                   *)
THEOREM DriversEndCorrect == Drivers!Spec => []Drivers!NothingOutlivesItsTask
<1>1. DrvInv => Drivers!NothingOutlivesItsTask
  BY DEF DrvInv, DrvTask, DrvPlaces, Drivers!NothingOutlivesItsTask
<1> QED BY <1>1, DrvAlways, PTL

(* A success stands for work that was done: SuccessIsGenuine of              *)
(* AgentDrivers.                                                             *)
THEOREM DriversSuccessCorrect == Drivers!Spec => []Drivers!SuccessIsGenuine
<1>1. DrvInv => Drivers!SuccessIsGenuine
  BY DEF DrvInv, DrvTask, DrvGenuine, Drivers!SuccessIsGenuine
<1> QED BY <1>1, DrvAlways, PTL

(* The model that is reported and charged is the one that ran, unless the    *)
(* task was disturbed: ReportedModelRan of AgentDrivers.                     *)
THEOREM DriversModelCorrect == Drivers!Spec => []Drivers!ReportedModelRan
<1>1. DrvInv => Drivers!ReportedModelRan
  BY DEF DrvInv, DrvTask, DrvUndisturbed, Drivers!ReportedModelRan
<1> QED BY <1>1, DrvAlways, PTL

-----------------------------------------------------------------------------
(* The pollers: how a loop, its entry and the recommendations are related,   *)
(* and what a socket was sent so far.                                        *)
WatchStatus == {"absent", "pending", "running", "success", "failed"}
WatchRows == [status : WatchStatus, sub : [SubTask -> WatchStatus]]
WatchSent == [row : WatchRows, recommendations : Seq(SubTask)]

WatchTypes ==
    /\ row \in WatchRows /\ hasFailed \subseteq SubTask
    /\ monitor \in [Watch!Loop -> {"none", "runs", "cancelled", "over"}]
    /\ listed \in Watch!Loop \cup {0}
    /\ recommendations \in Seq(SubTask)
    /\ socket \in [Socket -> {"closed", "open", "ended", "left"}] /\ polls \in [Socket -> Nat]
    /\ sent \in [Socket -> Seq(WatchSent)]

\* A loop that was started when no other was on its way is listed, and alone,
\* as long as it runs.
WatchLoops ==
    /\ \A l \in Watch!Loop \ overlapped : monitor[l] = "runs" =>
        /\ listed = l
        /\ \A k \in Watch!Loop \ {l} : monitor[k] \notin {"runs", "cancelled"}
    /\ listed # 0 => monitor[listed] = "runs"

WatchAdvice ==
    /\ \A s \in SubTask : row.sub[s] = "failed" => s \in hasFailed
    /\ Watch!IsInjective(recommendations)
    /\ Watch!Range(recommendations) \subseteq hasFailed

WatchComplete(r) == \A s \in SubTask : r.sub[s] \in {"success", "failed", "degraded"}
WatchSocket(w) ==
    /\ socket[w] = "ended" /\ polls[w] < MaxPoll =>
        /\ sent[w] # <<>>
        /\ LET r == sent[w][Len(sent[w])].row IN r = Watch!Absent \/ WatchComplete(r)
    /\ \A i \in 2 .. Len(sent[w]) : sent[w][i] # sent[w][i - 1]

WatchInv == WatchTypes /\ WatchLoops /\ WatchAdvice /\ \A w \in Socket : WatchSocket(w)

LEMMA WatchInit == ASSUME Watch!Init PROVE WatchInv
<1> USE DEF Watch!Init
<1>1. WatchTypes
  BY DEF WatchTypes, WatchStatus, WatchRows
<1>2. WatchLoops
  BY DEF WatchLoops
<1>3. WatchAdvice
  BY DEF WatchAdvice, Watch!IsInjective, Watch!Range
<1>4. ASSUME NEW w \in Socket PROVE WatchSocket(w)
  <2>1. socket[w] = "closed" /\ sent[w] = <<>> /\ Len(<<>>) = 0
    OBVIOUS
  <2> QED BY <2>1 DEF WatchSocket
<1> QED BY <1>1, <1>2, <1>3, <1>4 DEF WatchInv

\* What the sockets and the monitors do not see leaves their invariants.
LEMMA WatchSockets ==
  ASSUME \A w \in Socket : WatchSocket(w), UNCHANGED <<socket, polls, sent>>
  PROVE  \A w \in Socket : WatchSocket(w)'
<1>1. ASSUME NEW w \in Socket PROVE WatchSocket(w)'
  <2>1. WatchSocket(w)
    OBVIOUS
  <2> QED BY <2>1 DEF WatchSocket, WatchComplete, Watch!Absent
<1> QED BY <1>1

(* The execution writes its row.                                             *)
LEMMA WatchRow ==
  ASSUME WatchInv, NEW r \in WatchRows, Watch!WriteRow(r)
  PROVE  WatchInv'
<1>0. WatchTypes /\ WatchLoops /\ WatchAdvice /\ (\A w \in Socket : WatchSocket(w))
  BY DEF WatchInv
<1>1. /\ row' = r /\ hasFailed' = hasFailed \cup {s \in SubTask : r.sub[s] = "failed"}
      /\ UNCHANGED <<monitor, listed, overlapped, recommendations, socket, polls, sent>>
  BY DEF Watch!WriteRow, Watch!watchers
<1>2. WatchTypes'
  BY <1>0, <1>1 DEF WatchTypes
<1>3. WatchLoops'
  BY <1>0, <1>1 DEF WatchLoops
<1>4. WatchAdvice'
  <2>1. Watch!IsInjective(recommendations)' /\ Watch!Range(recommendations)' \subseteq hasFailed'
    BY <1>0, <1>1 DEF WatchAdvice, Watch!IsInjective, Watch!Range
  <2> QED BY <1>1, <2>1 DEF WatchAdvice
<1>5. \A w \in Socket : WatchSocket(w)'
  BY <1>0, <1>1, WatchSockets
<1> QED BY <1>2, <1>3, <1>4, <1>5 DEF WatchInv

LEMMA WatchExecution ==
  ASSUME WatchInv, Watch!Run \/ Watch!Settle \/ Watch!Finish \/ Watch!Delete
  PROVE  WatchInv'
<1>0. row \in WatchRows
  BY DEF WatchInv, WatchTypes
<1>1. CASE Watch!Run
  <2>1. [row EXCEPT !.status = "running"] \in WatchRows
    BY <1>0 DEF WatchRows, WatchStatus
  <2> QED BY <1>1, <2>1, WatchRow DEF Watch!Run
<1>2. CASE Watch!Settle
  <2>1. PICK s \in SubTask, outcome \in {"success", "failed"} : Watch!WriteRow([row EXCEPT !.sub[s] = outcome])
    BY <1>2 DEF Watch!Settle
  <2>2. [row EXCEPT !.sub[s] = outcome] \in WatchRows
    <3>1. row.sub \in [SubTask -> WatchStatus] /\ outcome \in WatchStatus
      BY <1>0 DEF WatchRows, WatchStatus
    <3>2. [row.sub EXCEPT ![s] = outcome] \in [SubTask -> WatchStatus]
      BY <3>1
    <3>3. [row EXCEPT !.sub[s] = outcome] = [row EXCEPT !.sub = [row.sub EXCEPT ![s] = outcome]]
      BY <1>0 DEF WatchRows
    <3> QED BY <1>0, <3>2, <3>3 DEF WatchRows
  <2> QED BY <2>1, <2>2, WatchRow
<1>3. CASE Watch!Finish
  <2> DEFINE outcome == IF \A s \in SubTask : row.sub[s] = "success" THEN "success" ELSE "failed"
  <2>1. outcome \in WatchStatus
    BY DEF WatchStatus
  <2> HIDE DEF outcome
  <2>2. [row EXCEPT !.status = outcome] \in WatchRows
    BY <1>0, <2>1 DEF WatchRows
  <2>3. Watch!WriteRow([row EXCEPT !.status = outcome])
    BY <1>3 DEF Watch!Finish, outcome
  <2> QED BY <2>2, <2>3, WatchRow
<1>4. CASE Watch!Delete
  <2>1. Watch!Absent \in WatchRows
    BY DEF Watch!Absent, WatchRows, WatchStatus
  <2> QED BY <1>4, <2>1, WatchRow DEF Watch!Delete
<1> QED BY <1>1, <1>2, <1>3, <1>4

(* The monitor.                                                              *)
LEMMA WatchStarts ==
  ASSUME WatchInv, NEW l \in Watch!Loop, Watch!StartMonitor(l)
  PROVE  WatchInv'
<1>0. WatchTypes /\ WatchLoops /\ WatchAdvice /\ (\A w \in Socket : WatchSocket(w))
  BY DEF WatchInv
<1>1. /\ listed = 0 /\ listed' = l /\ recommendations' = <<>>
      /\ monitor'[l] = "runs" /\ \A k \in Watch!Loop \ {l} : monitor'[k] = monitor[k]
      /\ monitor' \in [Watch!Loop -> {"none", "runs", "cancelled", "over"}]
      /\ overlapped' = IF \E k \in Watch!Loop : monitor[k] \in {"runs", "cancelled"}
                       THEN overlapped \cup {l} ELSE overlapped
      /\ UNCHANGED <<row, hasFailed, socket, polls, sent>>
  BY <1>0 DEF Watch!StartMonitor, WatchTypes
<1>2. WatchTypes'
  BY <1>0, <1>1 DEF WatchTypes
<1>3. WatchLoops'
  <2>1. \A k \in Watch!Loop : k # 0
    BY WatchersAssumption DEF Watch!Loop
  <2>2. ASSUME NEW k \in Watch!Loop \ overlapped', monitor'[k] = "runs"
        PROVE  /\ listed' = k
               /\ \A j \in Watch!Loop \ {k} : monitor'[j] \notin {"runs", "cancelled"}
    <3>1. CASE k = l
      BY <1>1, <2>2, <3>1
    <3>2. CASE k # l
      <4>1. k \notin overlapped /\ monitor[k] = "runs"
        BY <1>1, <2>2, <3>2
      <4> QED BY <1>0, <1>1, <2>1, <4>1 DEF WatchLoops
    <3> QED BY <3>1, <3>2
  <2>3. listed' # 0 => monitor'[listed'] = "runs"
    BY <1>1
  <2> QED BY <2>2, <2>3 DEF WatchLoops
<1>4. WatchAdvice'
  <2>1. Watch!IsInjective(recommendations)' /\ Watch!Range(recommendations)' = {}
    BY <1>1 DEF Watch!IsInjective, Watch!Range
  <2> QED BY <1>0, <1>1, <2>1 DEF WatchAdvice
<1>5. \A w \in Socket : WatchSocket(w)'
  BY <1>0, <1>1, WatchSockets
<1> QED BY <1>2, <1>3, <1>4, <1>5 DEF WatchInv

\* A loop that was on its way is no longer.
LEMMA WatchEnds ==
  ASSUME WatchTypes, WatchLoops, NEW l \in Watch!Loop, Watch!End(l), UNCHANGED overlapped,
         monitor[l] \in {"runs", "cancelled"}
  PROVE  WatchLoops' /\ listed' = 0 /\ monitor' \in [Watch!Loop -> {"none", "runs", "cancelled", "over"}]
<1>1. /\ listed' = 0 /\ monitor'[l] = "over" /\ \A k \in Watch!Loop \ {l} : monitor'[k] = monitor[k]
      /\ monitor' \in [Watch!Loop -> {"none", "runs", "cancelled", "over"}]
  BY DEF Watch!End, WatchTypes
<1>2. \A k \in Watch!Loop \ overlapped : monitor'[k] # "runs"
  BY <1>1 DEF WatchLoops
<1> QED BY <1>1, <1>2 DEF WatchLoops

LEMMA WatchStops ==
  ASSUME WatchInv, Watch!StopMonitor
  PROVE  WatchInv'
<1>0. WatchTypes /\ WatchLoops /\ WatchAdvice /\ (\A w \in Socket : WatchSocket(w))
  BY DEF WatchInv
<1>1. /\ listed \in Watch!Loop /\ listed' = 0
      /\ monitor'[listed] = "cancelled" /\ \A k \in Watch!Loop \ {listed} : monitor'[k] = monitor[k]
      /\ monitor' \in [Watch!Loop -> {"none", "runs", "cancelled", "over"}]
      /\ UNCHANGED <<row, hasFailed, overlapped, recommendations, socket, polls, sent>>
  BY <1>0 DEF Watch!StopMonitor, WatchTypes
<1>2. WatchTypes'
  BY <1>0, <1>1 DEF WatchTypes
<1>3. WatchLoops'
  BY <1>0, <1>1 DEF WatchLoops
<1>4. WatchAdvice'
  BY <1>0, <1>1 DEF WatchAdvice, Watch!IsInjective, Watch!Range
<1>5. \A w \in Socket : WatchSocket(w)'
  BY <1>0, <1>1, WatchSockets
<1> QED BY <1>2, <1>3, <1>4, <1>5 DEF WatchInv

LEMMA WatchBreaksOff ==
  ASSUME WatchInv, NEW l \in Watch!Loop, Watch!MonitorCancelled(l) \/ Watch!MonitorFails(l)
  PROVE  WatchInv'
<1>0. WatchTypes /\ WatchLoops /\ WatchAdvice /\ (\A w \in Socket : WatchSocket(w))
  BY DEF WatchInv
<1>1. /\ Watch!End(l) /\ monitor[l] \in {"runs", "cancelled"}
      /\ UNCHANGED <<row, hasFailed, overlapped, recommendations, socket, polls, sent>>
  BY DEF Watch!MonitorCancelled, Watch!MonitorFails
<1>2. WatchLoops' /\ listed' = 0 /\ monitor' \in [Watch!Loop -> {"none", "runs", "cancelled", "over"}]
  BY <1>0, <1>1, WatchEnds
<1>3. WatchTypes'
  BY <1>0, <1>1, <1>2 DEF WatchTypes
<1>4. WatchAdvice'
  BY <1>0, <1>1 DEF WatchAdvice, Watch!IsInjective, Watch!Range
<1>5. \A w \in Socket : WatchSocket(w)'
  BY <1>0, <1>1, WatchSockets
<1> QED BY <1>2, <1>3, <1>4, <1>5 DEF WatchInv

\* The new recommendations: each failed subtask that is not recommended yet, once.
LEMMA WatchInOrder ==
  ASSUME NEW S, IsFiniteSet(S)
  PROVE  /\ Watch!SetToSeq(S) \in Seq(S)
         /\ \A i, j \in DOMAIN Watch!SetToSeq(S) : Watch!SetToSeq(S)[i] = Watch!SetToSeq(S)[j] => i = j
<1> DEFINE n == Cardinality(S)
           q == Watch!SetToSeq(S)
<1>1. n \in Nat /\ ExistsBijection(1 .. n, S)
  BY FS_CardinalityType
<1>2. PICK f : f \in Bijection(1 .. n, S)
  BY <1>1 DEF ExistsBijection
<1>3. f \in [1 .. n -> S] /\ \A i, j \in 1 .. n : f[i] = f[j] => i = j
  BY <1>2 DEF Bijection, Injection, IsInjective
<1>4. DOMAIN f = 1 .. n /\ Watch!IsInjective(f)
  BY <1>3 DEF Watch!IsInjective
<1>5. Watch!Cardinality(S) = n
  BY DEF Watch!Cardinality, Cardinality
<1>6. q = CHOOSE g \in [1 .. n -> S] : Watch!IsInjective(g)
  BY <1>5 DEF Watch!SetToSeq
<1> HIDE DEF n, q
<1>7. q \in [1 .. n -> S] /\ Watch!IsInjective(q)
  BY <1>3, <1>4, <1>6
<1>8. q \in Seq(S)
  BY <1>1, <1>7
<1> QED BY <1>7, <1>8 DEF q, Watch!IsInjective

LEMMA WatchRounds ==
  ASSUME WatchInv, NEW l \in Watch!Loop, Watch!MonitorRound(l)
  PROVE  WatchInv'
<1>0. WatchTypes /\ WatchLoops /\ WatchAdvice /\ (\A w \in Socket : WatchSocket(w))
  BY DEF WatchInv
<1>1. /\ recommendations' = recommendations \o Watch!New
      /\ UNCHANGED <<row, hasFailed, overlapped, socket, polls, sent>>
  BY DEF Watch!MonitorRound
<1>2. /\ WatchLoops' /\ listed' \in Watch!Loop \cup {0}
      /\ monitor' \in [Watch!Loop -> {"none", "runs", "cancelled", "over"}]
  <2>1. CASE Watch!End(l)
    BY <1>0, <1>1, <2>1, WatchEnds DEF Watch!MonitorRound
  <2>2. CASE UNCHANGED <<monitor, listed>>
    BY <1>0, <1>1, <2>2 DEF WatchLoops, WatchTypes
  <2> QED BY <2>1, <2>2 DEF Watch!MonitorRound
<1> DEFINE S == {s \in SubTask : row.sub[s] = "failed"} \ Watch!Range(recommendations)
           q == Watch!New
           m == Len(recommendations)
<1>3. IsFiniteSet(S)
  <2>1. S \in SUBSET SubTask
    OBVIOUS
  <2> QED BY <2>1, WatchersAssumption, FS_Subset
<1>4. q \in Seq(S) /\ \A i, j \in DOMAIN q : q[i] = q[j] => i = j
  BY <1>3, WatchInOrder DEF Watch!New
<1>5. q \in Seq(SubTask) /\ recommendations \in Seq(SubTask)
  BY <1>0, <1>4 DEF WatchTypes
<1>6. \A s \in S : s \notin Watch!Range(recommendations) /\ s \in hasFailed
  BY <1>0 DEF WatchAdvice
<1> HIDE DEF q, S
<1>7. recommendations' \in Seq(SubTask)
  BY <1>1, <1>5, ConcatProperties DEF q
<1>8. /\ m \in Nat /\ Len(q) \in Nat /\ DOMAIN recommendations = 1 .. m /\ DOMAIN q = 1 .. Len(q)
      /\ DOMAIN recommendations' = 1 .. m + Len(q)
      /\ \A i \in 1 .. m : recommendations'[i] = recommendations[i]
      /\ \A i \in m + 1 .. m + Len(q) : i - m \in DOMAIN q /\ recommendations'[i] = q[i - m]
  BY <1>1, <1>5 DEF q
<1>9. \A i \in DOMAIN q : q[i] \in S
  BY <1>4
<1>10. \A i \in 1 .. m : recommendations[i] \in Watch!Range(recommendations) /\ recommendations[i] \in hasFailed
  BY <1>0, <1>8 DEF WatchAdvice, Watch!Range
<1> HIDE DEF m
<1>11. WatchTypes'
  BY <1>0, <1>1, <1>2, <1>7 DEF WatchTypes
<1>12. \A i, j \in 1 .. m : recommendations[i] = recommendations[j] => i = j
  BY <1>0, <1>8 DEF WatchAdvice, Watch!IsInjective
<1>13. Watch!IsInjective(recommendations')
  <2>1. ASSUME NEW i \in 1 .. m + Len(q), NEW j \in 1 .. m + Len(q), recommendations'[i] = recommendations'[j]
        PROVE  i = j
    <3>1. CASE i \in 1 .. m /\ j \in 1 .. m
      BY <1>8, <1>12, <2>1, <3>1
    <3>2. CASE i \in 1 .. m /\ j \in m + 1 .. m + Len(q)
      BY <1>6, <1>8, <1>9, <1>10, <2>1, <3>2
    <3>3. CASE i \in m + 1 .. m + Len(q) /\ j \in 1 .. m
      BY <1>6, <1>8, <1>9, <1>10, <2>1, <3>3
    <3>4. CASE i \in m + 1 .. m + Len(q) /\ j \in m + 1 .. m + Len(q)
      <4>1. i - m = j - m
        BY <1>4, <1>8, <2>1, <3>4
      <4> QED BY <1>8, <3>4, <4>1
    <3>5. i \in 1 .. m \/ i \in m + 1 .. m + Len(q)
      BY <1>8
    <3>6. j \in 1 .. m \/ j \in m + 1 .. m + Len(q)
      BY <1>8
    <3> QED BY <3>1, <3>2, <3>3, <3>4, <3>5, <3>6
  <2> QED BY <1>8, <2>1 DEF Watch!IsInjective
<1>14. Watch!Range(recommendations') \subseteq hasFailed
  <2>1. ASSUME NEW i \in 1 .. m + Len(q) PROVE recommendations'[i] \in hasFailed
    <3>1. CASE i \in 1 .. m
      BY <1>8, <1>10, <3>1
    <3>2. CASE i \in m + 1 .. m + Len(q)
      BY <1>6, <1>8, <1>9, <3>2
    <3>3. i \in 1 .. m \/ i \in m + 1 .. m + Len(q)
      BY <1>8
    <3> QED BY <3>1, <3>2, <3>3
  <2> QED BY <1>8, <2>1 DEF Watch!Range
<1>15. WatchAdvice'
  <2>1. Watch!IsInjective(recommendations)' /\ Watch!Range(recommendations)' = Watch!Range(recommendations')
    BY <1>13
  <2> QED BY <1>0, <1>1, <1>14, <2>1 DEF WatchAdvice
<1>16. \A w \in Socket : WatchSocket(w)'
  BY <1>0, <1>1, WatchSockets
<1> QED BY <1>2, <1>11, <1>15, <1>16 DEF WatchInv

(* The sockets.                                                              *)
LEMMA WatchSent1 ==
  ASSUME WatchTypes, NEW w \in Socket
  PROVE  /\ sent[w] \in Seq(WatchSent) /\ Len(sent[w]) \in Nat
         /\ Watch!Snapshot \in WatchSent
         /\ Append(sent[w], Watch!Snapshot) \in Seq(WatchSent)
         /\ Len(Append(sent[w], Watch!Snapshot)) = Len(sent[w]) + 1
         /\ Append(sent[w], Watch!Snapshot)[Len(sent[w]) + 1] = Watch!Snapshot
         /\ \A i \in 1 .. Len(sent[w]) : Append(sent[w], Watch!Snapshot)[i] = sent[w][i]
<1>1. sent[w] \in Seq(WatchSent)
  BY DEF WatchTypes
<1>2. Watch!Snapshot \in WatchSent
  BY DEF WatchTypes, Watch!Snapshot, WatchSent
<1> QED BY <1>1, <1>2

LEMMA WatchPolls ==
  ASSUME WatchInv, NEW w \in Socket, Watch!PollRound(w)
  PROVE  WatchInv'
<1>0. WatchTypes /\ WatchLoops /\ WatchAdvice /\ (\A v \in Socket : WatchSocket(v))
  BY DEF WatchInv
<1>1. socket[w] = "open" /\ UNCHANGED <<row, hasFailed, monitor, listed, overlapped, recommendations>>
  BY DEF Watch!PollRound
<1> DEFINE s == Watch!Snapshot
           q == IF sent[w] # <<>> /\ sent[w][Len(sent[w])] = s THEN sent[w] ELSE Append(sent[w], s)
<1>2. WatchLoops' /\ WatchAdvice'
  BY <1>0, <1>1 DEF WatchLoops, WatchAdvice, Watch!IsInjective, Watch!Range
<1>3. CASE polls[w] = MaxPoll
  <2>1. /\ socket'[w] = "ended" /\ \A v \in Socket \ {w} : socket'[v] = socket[v]
        /\ socket' \in [Socket -> {"closed", "open", "ended", "left"}]
        /\ UNCHANGED <<polls, sent>>
    BY <1>0, <1>3 DEF Watch!PollRound, WatchTypes
  <2>2. WatchTypes'
    BY <1>0, <1>1, <2>1 DEF WatchTypes
  <2>3. ASSUME NEW v \in Socket PROVE WatchSocket(v)'
    <3>1. WatchSocket(v) /\ Watch!Absent' = Watch!Absent
      BY <1>0 DEF Watch!Absent
    <3>2. CASE v = w
      <4>1. ~(polls'[v] < MaxPoll)
        BY <1>3, <2>1, <3>2, WatchersAssumption
      <4> QED BY <2>1, <3>1, <4>1 DEF WatchSocket
    <3>3. CASE v # w
      BY <2>1, <3>1, <3>3 DEF WatchSocket, WatchComplete
    <3> QED BY <3>2, <3>3
  <2> QED BY <1>2, <2>2, <2>3 DEF WatchInv
<1>4. CASE polls[w] # MaxPoll
  <2>1. /\ polls' = [polls EXCEPT ![w] = @ + 1]
        /\ sent' = [sent EXCEPT ![w] = q]
        /\ socket' = IF row = Watch!Absent \/ WatchComplete(row) THEN [socket EXCEPT ![w] = "ended"] ELSE socket
    <3>1. sent[w] # <<>> /\ sent[w][Len(sent[w])] = s => sent = [sent EXCEPT ![w] = q]
      BY <1>0 DEF WatchTypes
    <3> QED BY <1>4, <3>1 DEF Watch!PollRound, WatchComplete, Watch!IsComplete, Watch!Last
  <2>2. /\ sent[w] \in Seq(WatchSent) /\ Len(sent[w]) \in Nat /\ s \in WatchSent
        /\ Append(sent[w], s) \in Seq(WatchSent)
        /\ Len(Append(sent[w], s)) = Len(sent[w]) + 1
        /\ Append(sent[w], s)[Len(sent[w]) + 1] = s
        /\ \A i \in 1 .. Len(sent[w]) : Append(sent[w], s)[i] = sent[w][i]
    BY <1>0, WatchSent1
  <2>3. /\ q \in Seq(WatchSent) /\ q # <<>> /\ q[Len(q)] = s
        /\ \A i \in 2 .. Len(q) : q[i] # q[i - 1]
    <3>1. \A i \in 2 .. Len(sent[w]) : sent[w][i] # sent[w][i - 1]
      BY <1>0 DEF WatchSocket
    <3>2. CASE sent[w] # <<>> /\ sent[w][Len(sent[w])] = s
      BY <2>2, <3>1, <3>2
    <3>3. CASE sent[w] = <<>> \/ sent[w][Len(sent[w])] # s
      <4> DEFINE a == Append(sent[w], s)
                 k == Len(sent[w])
      <4>1. k \in Nat /\ Len(a) = k + 1 /\ a[k + 1] = s /\ (\A i \in 1 .. k : a[i] = sent[w][i]) /\ a \in Seq(WatchSent)
        BY <2>2
      <4>2. k >= 1 => sent[w][k] # s
        BY <2>2, <3>3
      <4>3. q = a
        BY <3>3
      <4>4. a # <<>>
        <5>1. Len(<<>>) = 0
          OBVIOUS
        <5> HIDE DEF a, k
        <5> QED BY <4>1, <5>1
      <4>b. \A i \in 2 .. k : sent[w][i] # sent[w][i - 1]
        BY <3>1
      <4> HIDE DEF a, q, k
      <4>5. ASSUME NEW i \in 2 .. k + 1 PROVE a[i] # a[i - 1]
        <5>1. CASE i = k + 1
          BY <4>1, <4>2, <5>1
        <5>2. CASE i # k + 1
          <6>1. i \in 2 .. k /\ i \in 1 .. k /\ i - 1 \in 1 .. k
            BY <4>1, <5>2
          <6> QED BY <4>1, <4>b, <6>1
        <5> QED BY <5>1, <5>2
      <4> QED BY <4>1, <4>3, <4>4, <4>5
    <3> QED BY <3>2, <3>3
  <2> HIDE DEF q
  <2>4. /\ sent'[w] = q /\ \A v \in Socket \ {w} : /\ sent'[v] = sent[v] /\ polls'[v] = polls[v]
                                                  /\ socket'[v] = socket[v]
        /\ sent' \in [Socket -> Seq(WatchSent)] /\ polls' \in [Socket -> Nat]
        /\ socket' \in [Socket -> {"closed", "open", "ended", "left"}]
        /\ socket'[w] = "ended" => row = Watch!Absent \/ WatchComplete(row)
    BY <1>0, <1>1, <2>1, <2>3 DEF WatchTypes
  <2>5. WatchTypes'
    BY <1>0, <1>1, <2>4 DEF WatchTypes
  <2>6. ASSUME NEW v \in Socket PROVE WatchSocket(v)'
    <3>1. WatchSocket(v) /\ Watch!Absent' = Watch!Absent
      BY <1>0 DEF Watch!Absent
    <3>2. CASE v = w
      <4>1. s.row = row
        BY DEF Watch!Snapshot
      <4>2. sent'[v] # <<>> /\ sent'[v][Len(sent'[v])].row = row
        BY <2>3, <2>4, <3>2, <4>1
      <4> QED BY <2>3, <2>4, <3>1, <3>2, <4>2 DEF WatchSocket, WatchComplete
    <3>3. CASE v # w
      BY <2>4, <3>1, <3>3 DEF WatchSocket, WatchComplete
    <3> QED BY <3>2, <3>3
  <2> QED BY <1>2, <2>5, <2>6 DEF WatchInv
<1> QED BY <1>3, <1>4

LEMMA WatchComesAndGoes ==
  ASSUME WatchInv, NEW w \in Socket, Watch!Connect(w) \/ Watch!Disconnect(w)
  PROVE  WatchInv'
<1>0. WatchTypes /\ WatchLoops /\ WatchAdvice /\ (\A v \in Socket : WatchSocket(v))
  BY DEF WatchInv
<1>1. PICK end \in {"open", "left"} : socket' = [socket EXCEPT ![w] = end]
  BY DEF Watch!Connect, Watch!Disconnect
<1>2. UNCHANGED <<row, runs, hasFailed, monitor, listed, overlapped, recommendations, polls, sent>>
  BY DEF Watch!Connect, Watch!Disconnect
<1>3. socket'[w] # "ended" /\ (\A v \in Socket \ {w} : socket'[v] = socket[v])
  BY <1>0, <1>1 DEF WatchTypes
<1>4. WatchTypes'
  BY <1>0, <1>1, <1>2 DEF WatchTypes
<1>5. WatchLoops' /\ WatchAdvice'
  BY <1>0, <1>2 DEF WatchLoops, WatchAdvice, Watch!IsInjective, Watch!Range
<1>6. ASSUME NEW v \in Socket PROVE WatchSocket(v)'
  <2>1. WatchSocket(v)
    BY <1>0
  <2>2. sent'[v] = sent[v] /\ polls'[v] = polls[v] /\ (v # w => socket'[v] = socket[v])
    BY <1>2, <1>3
  <2> QED BY <1>2, <1>3, <2>1, <2>2 DEF WatchSocket, WatchComplete, Watch!Absent
<1> QED BY <1>4, <1>5, <1>6 DEF WatchInv

LEMMA WatchStay == ASSUME WatchInv, UNCHANGED Watch!vars PROVE WatchInv'
<1>0. WatchTypes /\ WatchLoops /\ WatchAdvice /\ (\A v \in Socket : WatchSocket(v))
  BY DEF WatchInv
<1>1. UNCHANGED <<row, runs, hasFailed, monitor, listed, overlapped, recommendations, socket, polls, sent>>
  BY DEF Watch!vars
<1>2. WatchTypes' /\ WatchLoops'
  BY <1>0, <1>1 DEF WatchTypes, WatchLoops
<1>3. WatchAdvice'
  BY <1>0, <1>1 DEF WatchAdvice, Watch!IsInjective, Watch!Range
<1>4. \A v \in Socket : WatchSocket(v)'
  BY <1>0, <1>1, WatchSockets
<1> QED BY <1>2, <1>3, <1>4 DEF WatchInv

LEMMA WatchStep == ASSUME WatchInv, [Watch!Next]_(Watch!vars) PROVE WatchInv'
<1>1. CASE Watch!Run \/ Watch!Settle \/ Watch!Finish \/ Watch!Delete
  BY <1>1, WatchExecution
<1>2. CASE \E l \in Watch!Loop : \/ Watch!StartMonitor(l) \/ Watch!MonitorCancelled(l)
                                \/ Watch!MonitorRound(l) \/ Watch!MonitorFails(l)
  BY <1>2, WatchStarts, WatchBreaksOff, WatchRounds
<1>3. CASE \E w \in Socket : Watch!Connect(w) \/ Watch!PollRound(w) \/ Watch!Disconnect(w)
  BY <1>3, WatchPolls, WatchComesAndGoes
<1> QED BY <1>1, <1>2, <1>3, WatchStops, WatchStay DEF Watch!Next

LEMMA WatchAlways == Watch!Spec => []WatchInv
<1>1. Watch!Init => WatchInv
  BY WatchInit
<1>2. WatchInv /\ [Watch!Next]_(Watch!vars) => WatchInv'
  BY WatchStep
<1> QED BY <1>1, <1>2, PTL DEF Watch!Spec

(* Loops that were not doubled are listed as long as they run, and what is   *)
(* recommended is recommended once, for a subtask that failed:               *)
(* MonitorAccountedFor of Watchers.                                          *)
THEOREM WatchMonitorCorrect == Watch!Spec => []Watch!MonitorAccountedFor
<1>1. WatchInv => Watch!MonitorAccountedFor
  BY DEF WatchInv, WatchLoops, WatchAdvice, Watch!MonitorAccountedFor
<1> QED BY <1>1, WatchAlways, PTL

(* A socket that ended by itself was last sent a row that is gone or settled,*)
(* and never the same twice in a row: LastSentIsComplete of Watchers.        *)
THEOREM WatchLastCorrect == Watch!Spec => []Watch!LastSentIsComplete
<1>1. WatchInv => Watch!LastSentIsComplete
  <2>1. ASSUME WatchInv, NEW w \in Socket PROVE WatchSocket(w)
    BY <2>1 DEF WatchInv
  <2> QED BY <2>1 DEF WatchSocket, WatchComplete, Watch!LastSentIsComplete, Watch!Last
<1> QED BY <1>1, WatchAlways, PTL

-----------------------------------------------------------------------------
(* The gateway: while a call searches, every candidate behind it was found   *)
(* unavailable; the candidates are a sequence with some elements left out.   *)
LlmModels ==
    Asked \cup Switched \cup {NoModel} \cup Llm!Range(Llm!MODEL_TIERS.free)
          \cup Llm!Range(Llm!MODEL_TIERS.low) \cup Llm!Range(Llm!MODEL_TIERS.medium)
LlmRows == [call : Completion, model : LlmModels, is_local : BOOLEAN]

LlmTypes ==
    /\ defaultModel \in LlmModels /\ switching \subseteq Switched
    /\ callStage \in [Completion -> {"idle", "check", "search", "call", "raised", "charge", "answered"}]
    /\ asked \in [Completion -> LlmModels] /\ resolved \in [Completion -> LlmModels]
    /\ index \in [Completion -> Nat] /\ refused \in [Completion -> SUBSET LlmModels]
    /\ costs \in Seq(LlmRows)

\* Of the candidates of a call that searches, those behind it were refused.
LlmSearch(c) ==
    /\ callStage[c] \in {"idle", "check", "search"} => resolved[c] = NoModel
    /\ callStage[c] = "search" =>
        /\ index[c] >= 1 /\ asked[c] \in refused[c]
        /\ \A i \in DOMAIN Llm!Candidates(asked[c]) : i < index[c] => Llm!Candidates(asked[c])[i] \in refused[c]

LlmCheapest(c) ==
    resolved[c] \notin {NoModel, asked[c]} =>
        LET candidates == Llm!Candidates(asked[c])
        IN  /\ asked[c] \in refused[c]
            /\ resolved[c] \notin Llm!Range(Llm!MODEL_TIERS.high)
            /\ \A i \in DOMAIN candidates :
                candidates[i] # resolved[c] => \/ candidates[i] \in refused[c]
                                               \/ \E j \in 1 .. i - 1 : candidates[j] = resolved[c]

LlmRowsOf(c) == {i \in DOMAIN costs : costs[i].call = c}
LlmCharged(c) ==
    /\ c \in unsaved => callStage[c] = "answered"
    /\ IF callStage[c] = "answered" /\ c \notin unsaved
       THEN \E i \in DOMAIN costs : LlmRowsOf(c) = {i}
       ELSE LlmRowsOf(c) = {}
    /\ \A i \in LlmRowsOf(c) : costs[i].model = resolved[c] /\ costs[i].is_local = Llm!Local(resolved[c])

LlmCall(c) == LlmSearch(c) /\ LlmCheapest(c) /\ LlmCharged(c)
LlmInv == LlmTypes /\ \A c \in Completion : LlmCall(c)

(* The k-th of a finite set of numbers is the one with k - 1 before it.       *)
LEMMA LlmRanks ==
  ASSUME NEW S, S \subseteq Nat, IsFiniteSet(S)
  PROVE  \A k \in 1 .. Cardinality(S) : \E i \in S : Cardinality({j \in S : j < i}) = k - 1
<1> DEFINE n == Cardinality(S)
           B(i) == {j \in S : j < i}
           r == [i \in S |-> Cardinality(B(i))]
<1>1. n \in Nat
      BY FS_CardinalityType
<1> HIDE DEF B
<1>2. ASSUME NEW i \in S
      PROVE  /\ IsFiniteSet(B(i))
             /\ Cardinality(B(i)) \in 0..(n - 1)
  <2>1. /\ IsFiniteSet(S \ {i}) /\ Cardinality(S \ {i}) = n - 1
        BY FS_RemoveElement
  <2>2. B(i) \in SUBSET (S \ {i})
        BY DEF B
  <2>3. /\ IsFiniteSet(B(i)) /\ Cardinality(B(i)) <= Cardinality(S \ {i})
        BY <2>1, <2>2, FS_Subset
  <2>4. Cardinality(B(i)) \in Nat
        BY <2>3, FS_CardinalityType
  <2>5. QED
        BY <1>1, <2>1, <2>3, <2>4
<1>3. ASSUME NEW i \in S, NEW j \in S, i < j
      PROVE  Cardinality(B(i)) # Cardinality(B(j))
  <2>1. B(i) \in SUBSET B(j)
    <3>1. ASSUME NEW k \in B(i) PROVE k \in S /\ k < j
      <4>1. k \in S /\ k \in Nat /\ i \in Nat /\ j \in Nat /\ k < i
            BY DEF B
      <4>2. QED
            BY <1>3, <4>1
    <3>2. QED
          BY <3>1 DEF B
  <2>2. i \in B(j) /\ i \notin B(i)
        BY <1>3 DEF B
  <2>3. Cardinality(B(i)) = Cardinality(B(j)) => B(j) = B(i)
        BY <1>2, <2>1, FS_Subset
  <2>4. QED
        BY <2>2, <2>3
<1>4. \A i, j \in S : Cardinality(B(i)) = Cardinality(B(j)) => i = j
      BY <1>3
<1>5. r \in Injection(S, 0..(n - 1))
      BY <1>2, <1>4 DEF Injection, IsInjective
<1>6. /\ IsFiniteSet(0..(n - 1)) /\ Cardinality(0..(n - 1)) = n
  <2>1. 0 \in Int /\ n - 1 \in Int
        BY <1>1
  <2>2. /\ IsFiniteSet(0..(n - 1))
        /\ Cardinality(0..(n - 1)) = IF 0 > n - 1 THEN 0 ELSE (n - 1) - 0 + 1
        BY <2>1, FS_Interval
  <2>3. QED
        BY <1>1, <2>2
<1>7. r \in Surjection(S, 0..(n - 1))
      BY <1>5, <1>6, FS_Injection
<1>8. \A k \in 0..(n - 1) : \E i \in S : Cardinality(B(i)) = k
  <2>1. \A k \in 0..(n - 1) : \E i \in S : r[i] = k
        BY <1>7 DEF Surjection
  <2>2. QED
        BY <2>1
<1>9. \A k \in 1..n : k - 1 \in 0..(n - 1)
      BY <1>1
<1>10. QED
      BY <1>8, <1>9 DEF B

(* The candidates: free ones, then paid ones.                                *)
LEMMA LlmKept ==
  ASSUME NEW E, NEW ch \in Seq(E), NEW S, S \subseteq DOMAIN ch
  PROVE  Llm!Kept(ch, S) \in Seq(E)
<1> DEFINE n == Cardinality(S)
           pick(k) == CHOOSE i \in Llm!Place(S, k) : TRUE
<1>1. DOMAIN ch = 1 .. Len(ch) /\ Len(ch) \in Nat
  OBVIOUS
<1>2. IsFiniteSet(S) /\ S \subseteq Nat /\ n \in Nat
  <2>1. IsFiniteSet(1 .. Len(ch))
    BY <1>1, FS_Interval
  <2>2. IsFiniteSet(S)
    BY <1>1, <2>1, FS_Subset
  <2> QED BY <1>1, <2>2, FS_CardinalityType
<1>3. ASSUME NEW k \in 1 .. n PROVE pick(k) \in S
  <2>1. \E i \in S : Cardinality({j \in S : j < i}) = k - 1
    BY <1>2, LlmRanks
  <2>2. Llm!Place(S, k) # {}
    BY <2>1 DEF Llm!Place, Llm!Before, Llm!Cardinality, Cardinality
  <2>3. pick(k) \in Llm!Place(S, k)
    BY <2>2
  <2> QED BY <2>3 DEF Llm!Place
<1>4. Llm!Kept(ch, S) = [k \in 1 .. n |-> ch[pick(k)]]
  BY DEF Llm!Kept, Llm!Cardinality, Cardinality
<1> HIDE DEF pick
<1>5. \A k \in 1 .. n : ch[pick(k)] \in E
  BY <1>1, <1>3
<1> QED BY <1>2, <1>4, <1>5

LlmCheap == Llm!Range(Llm!MODEL_TIERS.free) \cup Llm!Range(Llm!MODEL_TIERS.low)
                \cup Llm!Range(Llm!MODEL_TIERS.medium)

\* None of them is of the dearest tier.
LEMMA LlmCandidates ==
  ASSUME NEW failed
  PROVE  /\ Llm!Candidates(failed) \in Seq(LlmCheap)
         /\ \A m \in LlmCheap : m \notin Llm!Range(Llm!MODEL_TIERS.high)
         /\ LlmCheap \subseteq LlmModels
<1> DEFINE T == Llm!MODEL_TIERS
           S == {i \in DOMAIN T.free : T.free[i] # failed}
<1>1. /\ T.free \in Seq(Llm!Range(T.free)) /\ T.low \in Seq(Llm!Range(T.low))
      /\ T.medium \in Seq(Llm!Range(T.medium))
  BY DEF Llm!MODEL_TIERS, Llm!Range
<1>2. T.free \in Seq(LlmCheap) /\ T.low \in Seq(LlmCheap) /\ T.medium \in Seq(LlmCheap)
  BY <1>1 DEF LlmCheap
<1>3. Llm!Candidates(failed) = Llm!Kept(T.free, S) \o T.low \o T.medium
  BY DEF Llm!Candidates, Llm!FreeBut
<1>4. \A m \in LlmCheap : m \notin Llm!Range(T.high)
  BY DEF LlmCheap, Llm!Range, Llm!MODEL_TIERS
<1>5. LlmCheap \subseteq LlmModels
  BY DEF LlmCheap, LlmModels
<1>6. S \subseteq DOMAIN T.free
  OBVIOUS
<1> HIDE DEF S, T
<1>7. Llm!Kept(T.free, S) \in Seq(LlmCheap)
  BY <1>2, <1>6, LlmKept
<1>8. Llm!Kept(T.free, S) \o T.low \o T.medium \in Seq(LlmCheap)
  BY <1>2, <1>7
<1> QED BY <1>3, <1>4, <1>5, <1>8 DEF T

LEMMA LlmInit == ASSUME Llm!Init PROVE LlmInv
<1>1. /\ callStage = [c \in Completion |-> "idle"]
      /\ asked = [c \in Completion |-> NoModel] /\ resolved = [c \in Completion |-> NoModel]
      /\ index = [c \in Completion |-> 0] /\ refused = [c \in Completion |-> {}]
      /\ costs = <<>> /\ unsaved = {} /\ switching = {} /\ defaultModel = "ollama/qwen3:8b"
  BY DEF Llm!Init
<1>2. defaultModel \in LlmModels
  BY <1>1 DEF LlmModels, Llm!Range, Llm!MODEL_TIERS
<1>3. NoModel \in LlmModels
  BY DEF LlmModels
<1>4. LlmTypes
  BY <1>1, <1>2, <1>3 DEF LlmTypes
<1>5. ASSUME NEW c \in Completion PROVE LlmCall(c)
  <2>1. LlmSearch(c) /\ LlmCheapest(c)
    BY <1>1 DEF LlmSearch, LlmCheapest
  <2>2. LlmRowsOf(c) = {}
    BY <1>1 DEF LlmRowsOf
  <2>3. LlmCharged(c)
    BY <1>1, <2>2 DEF LlmCharged
  <2> QED BY <2>1, <2>3 DEF LlmCall
<1> QED BY <1>4, <1>5 DEF LlmInv

\* A call that stays as it is keeps what it was owed.
LEMMA LlmKeeps ==
  ASSUME NEW d, LlmCall(d), callStage'[d] = callStage[d], asked'[d] = asked[d], resolved'[d] = resolved[d],
         index'[d] = index[d], refused'[d] = refused[d], d \in unsaved' <=> d \in unsaved,
         LlmRowsOf(d)' = LlmRowsOf(d), DOMAIN costs \subseteq DOMAIN costs',
         \A i \in DOMAIN costs : costs'[i] = costs[i]
  PROVE  LlmCall(d)'
<1>1. LlmSearch(d) /\ LlmCheapest(d) /\ LlmCharged(d)
  BY DEF LlmCall
<1>2. Llm!Candidates(asked[d])' = Llm!Candidates(asked[d]) /\ Llm!MODEL_TIERS.high' = Llm!MODEL_TIERS.high
  BY DEF Llm!Candidates, Llm!FreeBut, Llm!Kept, Llm!Place, Llm!Before, Llm!MODEL_TIERS
<1>3. LlmSearch(d)'
  BY <1>1, <1>2 DEF LlmSearch
<1>4. LlmCheapest(d)'
  BY <1>1, <1>2 DEF LlmCheapest, Llm!MODEL_TIERS
<1>5. LlmCharged(d)'
  <2>1. LlmRowsOf(d) \subseteq DOMAIN costs
    BY DEF LlmRowsOf
  <2> QED BY <1>1, <2>1 DEF LlmCharged, Llm!Local, Llm!MODEL_TIERS
<1> QED BY <1>3, <1>4, <1>5 DEF LlmCall

LEMMA LlmRest ==
  ASSUME LlmInv, NEW c,
         UNCHANGED <<costs, unsaved>>,
         \A d \in Completion \ {c} : /\ callStage'[d] = callStage[d] /\ asked'[d] = asked[d]
                               /\ resolved'[d] = resolved[d] /\ index'[d] = index[d] /\ refused'[d] = refused[d]
  PROVE  \A d \in Completion \ {c} : LlmCall(d)'
<1>1. ASSUME NEW d \in Completion \ {c} PROVE LlmCall(d)'
  <2>1. LlmCall(d)
    BY DEF LlmInv
  <2>2. LlmRowsOf(d)' = LlmRowsOf(d)
    BY DEF LlmRowsOf
  <2> QED BY <2>1, <2>2, LlmKeeps
<1> QED BY <1>1

LEMMA LlmUncharged ==
  ASSUME NEW c, LlmCharged(c), callStage[c] # "answered", callStage'[c] # "answered", UNCHANGED <<costs, unsaved>>
  PROVE  LlmCharged(c)'
<1>1. LlmRowsOf(c)' = {} /\ c \notin unsaved'
  BY DEF LlmCharged, LlmRowsOf
<1> QED BY <1>1 DEF LlmCharged

LEMMA LlmCompletes ==
  ASSUME LlmInv, NEW c \in Completion, Llm!Complete(c)
  PROVE  LlmInv'
<1>0. LlmTypes /\ LlmSearch(c) /\ LlmCharged(c)
  BY DEF LlmInv, LlmCall
<1>1. PICK m \in Asked : asked' = [asked EXCEPT ![c] = IF m = NoModel THEN defaultModel ELSE m]
  BY DEF Llm!Complete
<1>2. /\ callStage[c] = "idle" /\ callStage' = [callStage EXCEPT ![c] = "check"]
      /\ UNCHANGED <<defaultModel, switching, resolved, index, refused, costs, unsaved>>
  BY DEF Llm!Complete, Llm!Goto, Llm!ollama
<1>3. m \in LlmModels /\ defaultModel \in LlmModels
  BY <1>0 DEF LlmTypes, LlmModels
<1>4. LlmTypes'
  BY <1>0, <1>1, <1>2, <1>3 DEF LlmTypes
<1>5. callStage'[c] = "check" /\ resolved'[c] = NoModel
  BY <1>0, <1>2 DEF LlmTypes, LlmSearch
<1>6. LlmCall(c)'
  <2>1. LlmSearch(c)' /\ LlmCheapest(c)'
    BY <1>5 DEF LlmSearch, LlmCheapest
  <2>2. LlmCharged(c)'
    BY <1>0, <1>2, <1>5, LlmUncharged
  <2> QED BY <2>1, <2>2 DEF LlmCall
<1>7. \A d \in Completion \ {c} : LlmCall(d)'
  BY <1>0, <1>1, <1>2, LlmRest DEF LlmTypes
<1> QED BY <1>4, <1>6, <1>7 DEF LlmInv

\* The call goes to the model it asked for, or to a candidate after all before it.
LEMMA LlmResolves ==
  ASSUME LlmInv, NEW c \in Completion, callStage[c] \in {"check", "search"}, NEW m \in LlmModels, Llm!Resolve(c, m),
         UNCHANGED <<defaultModel, switching, asked, index, refused, costs, unsaved>>,
         \/ m = asked[c]
         \/ /\ callStage[c] = "search" /\ index[c] \in DOMAIN Llm!Candidates(asked[c])
            /\ m = Llm!Candidates(asked[c])[index[c]]
  PROVE  LlmInv'
<1>0. LlmTypes /\ LlmSearch(c) /\ LlmCharged(c)
  BY DEF LlmInv, LlmCall
<1>1. resolved' = [resolved EXCEPT ![c] = m] /\ callStage' = [callStage EXCEPT ![c] = "call"]
  BY DEF Llm!Resolve, Llm!Goto
<1>2. LlmTypes'
  BY <1>0, <1>1 DEF LlmTypes
<1>3. callStage'[c] = "call" /\ resolved'[c] = m /\ asked'[c] = asked[c] /\ refused'[c] = refused[c]
  BY <1>0, <1>1 DEF LlmTypes
<1>4. LlmCheapest(c)'
  <2>1. CASE m = asked[c]
    BY <1>3, <2>1 DEF LlmCheapest
  <2>2. CASE /\ callStage[c] = "search" /\ index[c] \in DOMAIN Llm!Candidates(asked[c])
             /\ m = Llm!Candidates(asked[c])[index[c]]
    <3> DEFINE cs == Llm!Candidates(asked[c])
               n == index[c]
    <3>0. Llm!Candidates(asked[c])' = cs
      BY DEF Llm!Candidates, Llm!FreeBut, Llm!Kept, Llm!Place, Llm!Before, Llm!MODEL_TIERS
    <3>1. cs \in Seq(LlmCheap) /\ n \in DOMAIN cs /\ m = cs[n]
      BY <2>2, LlmCandidates
    <3>2. asked[c] \in refused[c] /\ (\A i \in DOMAIN cs : i < n => cs[i] \in refused[c])
      BY <1>0, <2>2 DEF LlmSearch
    <3> HIDE DEF cs, n
    <3>3. DOMAIN cs = 1 .. Len(cs) /\ Len(cs) \in Nat /\ m \in LlmCheap
      BY <3>1
    <3>4. m \notin Llm!Range(Llm!MODEL_TIERS.high)
      BY <3>3, LlmCandidates
    <3>5. ASSUME NEW i \in DOMAIN cs, cs[i] # m
          PROVE  cs[i] \in refused[c] \/ \E j \in 1 .. i - 1 : cs[j] = m
      <4>1. CASE i < n
        BY <3>2, <4>1
      <4>2. CASE ~(i < n)
        <5>1. n \in 1 .. i - 1
          BY <3>1, <3>3, <3>5, <4>2
        <5> QED BY <3>1, <5>1
      <4> QED BY <4>1, <4>2
    <3>6. /\ asked'[c] \in refused'[c] /\ resolved'[c] \notin Llm!Range(Llm!MODEL_TIERS.high)'
          /\ Llm!Candidates(asked[c])' = cs /\ asked[c]' = asked[c]
      BY <1>3, <3>0, <3>2, <3>4 DEF Llm!Range, Llm!MODEL_TIERS
    <3>7. \A i \in DOMAIN cs : cs[i] # resolved'[c] =>
              cs[i] \in refused'[c] \/ \E j \in 1 .. i - 1 : cs[j] = resolved'[c]
      BY <1>3, <3>5
    <3> QED BY <3>6, <3>7 DEF LlmCheapest
  <2> QED BY <2>1, <2>2
<1>5. LlmCall(c)'
  <2>1. LlmSearch(c)'
    BY <1>3 DEF LlmSearch
  <2>2. LlmCharged(c)'
    BY <1>0, <1>3, LlmUncharged
  <2> QED BY <1>4, <2>1, <2>2 DEF LlmCall
<1>6. \A d \in Completion \ {c} : LlmCall(d)'
  BY <1>0, <1>1, LlmRest DEF LlmTypes
<1> QED BY <1>2, <1>5, <1>6 DEF LlmInv

LEMMA LlmChecks ==
  ASSUME LlmInv, NEW c \in Completion, Llm!CheckAsked(c)
  PROVE  LlmInv'
<1>0. LlmTypes /\ LlmSearch(c) /\ LlmCharged(c) /\ asked[c] \in LlmModels
  BY DEF LlmInv, LlmCall, LlmTypes
<1>1. callStage[c] = "check" /\ UNCHANGED <<defaultModel, switching, asked, costs, unsaved>>
  BY DEF Llm!CheckAsked, Llm!ollama
<1>2. CASE Llm!IsAvailable(asked[c])
  BY <1>0, <1>1, <1>2, LlmResolves DEF Llm!CheckAsked
<1>3. CASE ~Llm!IsAvailable(asked[c])
  <2>1. /\ refused' = [refused EXCEPT ![c] = @ \cup {asked[c]}]
        /\ callStage' = [callStage EXCEPT ![c] = "search"] /\ index' = [index EXCEPT ![c] = 1]
        /\ UNCHANGED resolved
    BY <1>3 DEF Llm!CheckAsked, Llm!Refuse, Llm!Goto
  <2>2. LlmTypes'
    BY <1>0, <1>1, <2>1 DEF LlmTypes
  <2>3. /\ callStage'[c] = "search" /\ index'[c] = 1 /\ asked'[c] \in refused'[c] /\ resolved'[c] = NoModel
    BY <1>0, <1>1, <2>1 DEF LlmTypes, LlmSearch
  <2>4. LlmCall(c)'
    <3>1. DOMAIN Llm!Candidates(asked[c])' \subseteq Nat \ {0}
      <4> DEFINE cs == Llm!Candidates(asked[c])
      <4>1. cs' = cs
        BY <1>1 DEF Llm!Candidates, Llm!FreeBut, Llm!Kept, Llm!Place, Llm!Before, Llm!MODEL_TIERS
      <4>2. cs \in Seq(LlmCheap)
        BY LlmCandidates
      <4> HIDE DEF cs
      <4>3. DOMAIN cs \subseteq Nat \ {0}
        BY <4>2
      <4>4. DOMAIN cs' \subseteq Nat \ {0}
        BY <4>1, <4>3
      <4> QED BY <4>4 DEF cs
    <3>2. LlmSearch(c)'
      BY <2>3, <3>1 DEF LlmSearch
    <3>3. LlmCheapest(c)'
      BY <2>3 DEF LlmCheapest
    <3>4. LlmCharged(c)'
      BY <1>0, <1>1, <2>3, LlmUncharged
    <3> QED BY <3>2, <3>3, <3>4 DEF LlmCall
  <2>5. \A d \in Completion \ {c} : LlmCall(d)'
    BY <1>0, <1>1, <2>1, LlmRest DEF LlmTypes
  <2> QED BY <2>2, <2>4, <2>5 DEF LlmInv
<1> QED BY <1>2, <1>3

LEMMA LlmSearches ==
  ASSUME LlmInv, NEW c \in Completion, Llm!FindAvailableFallback(c)
  PROVE  LlmInv'
<1> DEFINE cs == Llm!Candidates(asked[c])
           n == index[c]
<1>0. LlmTypes /\ LlmSearch(c) /\ LlmCharged(c) /\ asked[c] \in LlmModels /\ n \in Nat
  BY DEF LlmInv, LlmCall, LlmTypes
<1>1. /\ callStage[c] = "search" /\ UNCHANGED <<defaultModel, switching, asked, costs, unsaved>>
      /\ IF n > Len(cs) THEN Llm!Resolve(c, asked[c]) /\ UNCHANGED <<index, refused>>
         ELSE IF Llm!IsAvailable(cs[n]) THEN Llm!Resolve(c, cs[n]) /\ UNCHANGED <<index, refused>>
         ELSE /\ refused' = [refused EXCEPT ![c] = @ \cup {cs[n]}]
              /\ index' = [index EXCEPT ![c] = n + 1]
              /\ UNCHANGED <<resolved, callStage>>
  BY DEF Llm!FindAvailableFallback, Llm!ollama, Llm!Refuse
<1>2. cs \in Seq(LlmCheap) /\ cs' = cs
  <2>1. cs \in Seq(LlmCheap)
    BY LlmCandidates
  <2>2. cs' = cs
    BY <1>1 DEF Llm!Candidates, Llm!FreeBut, Llm!Kept, Llm!Place, Llm!Before, Llm!MODEL_TIERS
  <2> QED BY <2>1, <2>2
<1>3. /\ n >= 1 /\ asked[c] \in refused[c] /\ resolved[c] = NoModel
      /\ \A i \in DOMAIN cs : i < n => cs[i] \in refused[c]
  BY <1>0, <1>1 DEF LlmSearch
<1>4. LlmCheap \subseteq LlmModels
  BY LlmCandidates
<1>5. CASE n > Len(cs)
  BY <1>0, <1>1, <1>5, LlmResolves
<1> HIDE DEF cs, n
<1>6. ASSUME ~(n > Len(cs)) PROVE n \in DOMAIN cs /\ cs[n] \in LlmModels
  <2>1. n \in DOMAIN cs
    BY <1>0, <1>2, <1>3, <1>6
  <2> QED BY <1>2, <1>4, <2>1
<1>7. CASE ~(n > Len(cs)) /\ Llm!IsAvailable(cs[n])
  BY <1>0, <1>1, <1>6, <1>7, LlmResolves DEF cs, n
<1>8. CASE ~(n > Len(cs)) /\ ~Llm!IsAvailable(cs[n])
  <2>1. /\ refused' = [refused EXCEPT ![c] = @ \cup {cs[n]}] /\ index' = [index EXCEPT ![c] = n + 1]
        /\ UNCHANGED <<resolved, callStage>>
    BY <1>1, <1>8
  <2>2. LlmTypes'
    BY <1>0, <1>1, <1>6, <1>8, <2>1 DEF LlmTypes
  <2>3. /\ refused'[c] = refused[c] \cup {cs[n]} /\ index'[c] = n + 1
        /\ resolved'[c] = NoModel /\ asked'[c] = asked[c] /\ callStage'[c] = "search"
    BY <1>0, <1>1, <1>3, <2>1 DEF LlmTypes
  <2>4. LlmCall(c)'
    <3>1. \A i \in DOMAIN cs' : i < n + 1 => cs'[i] \in refused'[c]
      <4>1. DOMAIN cs = 1 .. Len(cs) /\ Len(cs) \in Nat
        BY <1>2
      <4>2. ASSUME NEW i \in DOMAIN cs, i < n + 1 PROVE i = n \/ i < n
        BY <1>0, <4>1, <4>2
      <4> QED BY <1>2, <1>3, <2>3, <4>2
    <3>2. n + 1 >= 1
      BY <1>0
    <3>3. LlmSearch(c)'
      BY <1>3, <2>3, <3>1, <3>2 DEF LlmSearch, cs
    <3>4. LlmCheapest(c)'
      BY <2>3 DEF LlmCheapest
    <3>5. LlmCharged(c)'
      BY <1>0, <1>1, <2>3, LlmUncharged
    <3> QED BY <3>3, <3>4, <3>5 DEF LlmCall
  <2>5. \A d \in Completion \ {c} : LlmCall(d)'
    BY <1>0, <1>1, <2>1, LlmRest DEF LlmTypes
  <2> QED BY <2>2, <2>4, <2>5 DEF LlmInv
<1> QED BY <1>5, <1>7, <1>8

LEMMA LlmEnds ==
  ASSUME LlmInv, NEW c \in Completion, Llm!Answered(c) \/ Llm!Raised(c)
  PROVE  LlmInv'
<1>0. LlmTypes /\ LlmCharged(c) /\ LlmCheapest(c)
  BY DEF LlmInv, LlmCall
<1>1. PICK s \in {"charge", "raised"} : callStage' = [callStage EXCEPT ![c] = s]
  BY DEF Llm!Answered, Llm!Raised, Llm!Goto
<1>2. /\ callStage[c] = "call"
      /\ UNCHANGED <<defaultModel, switching, asked, resolved, index, refused, costs, unsaved>>
  BY DEF Llm!Answered, Llm!Raised, Llm!ollama
<1>3. LlmTypes'
  BY <1>0, <1>1, <1>2 DEF LlmTypes
<1>4. callStage'[c] = s
  BY <1>0, <1>1 DEF LlmTypes
<1>5. LlmCall(c)'
  <2>1. LlmSearch(c)'
    BY <1>4 DEF LlmSearch
  <2>2. Llm!Candidates(asked[c])' = Llm!Candidates(asked[c])
    BY <1>2 DEF Llm!Candidates, Llm!FreeBut, Llm!Kept, Llm!Place, Llm!Before, Llm!MODEL_TIERS
  <2>3. LlmCheapest(c)'
    BY <1>0, <1>2, <2>2 DEF LlmCheapest, Llm!MODEL_TIERS
  <2>4. LlmCharged(c)'
    BY <1>0, <1>2, <1>4, LlmUncharged
  <2> QED BY <2>1, <2>3, <2>4 DEF LlmCall
<1>6. \A d \in Completion \ {c} : LlmCall(d)'
  BY <1>0, <1>1, <1>2, LlmRest DEF LlmTypes
<1> QED BY <1>3, <1>5, <1>6 DEF LlmInv

LEMMA LlmOllama ==
  ASSUME LlmInv, UNCHANGED <<callStage, asked, resolved, index, refused, costs, unsaved>>,
         defaultModel' \in LlmModels, switching' \subseteq Switched
  PROVE  LlmInv'
<1>1. LlmTypes'
  BY DEF LlmInv, LlmTypes
<1>2. ASSUME NEW d \in Completion PROVE LlmCall(d)'
  <2>1. LlmCall(d)
    BY DEF LlmInv
  <2>2. LlmRowsOf(d)' = LlmRowsOf(d)
    BY DEF LlmRowsOf
  <2> QED BY <2>1, <2>2, LlmKeeps
<1> QED BY <1>1, <1>2 DEF LlmInv

LEMMA LlmCharges ==
  ASSUME LlmInv, NEW c \in Completion, Llm!Charge(c)
  PROVE  LlmInv'
<1> DEFINE x == [call |-> c, model |-> resolved[c], is_local |-> Llm!Local(resolved[c])]
<1>0. LlmTypes /\ LlmCharged(c) /\ LlmCheapest(c) /\ resolved[c] \in LlmModels
  BY DEF LlmInv, LlmCall, LlmTypes
<1>1. /\ callStage[c] = "charge" /\ callStage' = [callStage EXCEPT ![c] = "answered"]
      /\ UNCHANGED <<defaultModel, switching, asked, resolved, index, refused>>
      /\ \/ costs' = Append(costs, x) /\ UNCHANGED unsaved
         \/ unsaved' = unsaved \cup {c} /\ UNCHANGED costs
  BY DEF Llm!Charge, Llm!Goto, Llm!ollama
<1>2. x \in LlmRows /\ x.call = c /\ x.model = resolved[c] /\ x.is_local = Llm!Local(resolved[c])
  <2>1. Llm!Local(resolved[c]) \in BOOLEAN
    BY DEF Llm!Local
  <2> QED BY <1>0, <2>1 DEF LlmRows
<1> HIDE DEF x
<1>3. costs \in Seq(LlmRows) /\ DOMAIN costs = 1 .. Len(costs) /\ Len(costs) \in Nat
  BY <1>0 DEF LlmTypes
<1>4. costs' = Append(costs, x) =>
        /\ costs' \in Seq(LlmRows) /\ DOMAIN costs' = DOMAIN costs \cup {Len(costs) + 1}
        /\ Len(costs) + 1 \notin DOMAIN costs /\ costs'[Len(costs) + 1] = x
        /\ \A i \in DOMAIN costs : costs'[i] = costs[i]
  BY <1>2, <1>3
<1>5. LlmTypes'
  BY <1>0, <1>1, <1>4 DEF LlmTypes
<1>6. callStage'[c] = "answered"
  BY <1>0, <1>1 DEF LlmTypes
<1>7. LlmRowsOf(c) = {} /\ c \notin unsaved
  BY <1>0, <1>1 DEF LlmCharged
<1>8. LlmCall(c)'
  <2>1. LlmSearch(c)'
    BY <1>6 DEF LlmSearch
  <2>2. Llm!Candidates(asked[c])' = Llm!Candidates(asked[c])
    BY <1>1 DEF Llm!Candidates, Llm!FreeBut, Llm!Kept, Llm!Place, Llm!Before, Llm!MODEL_TIERS
  <2>3. LlmCheapest(c)'
    BY <1>0, <1>1, <2>2 DEF LlmCheapest, Llm!MODEL_TIERS
  <2>4. ASSUME costs' = Append(costs, x) /\ UNCHANGED unsaved PROVE LlmCharged(c)'
    <3> DEFINE k == Len(costs) + 1
    <3>1. LlmRowsOf(c)' = {k} /\ k \in DOMAIN costs' /\ costs'[k] = x
      BY <1>2, <1>4, <1>7, <2>4 DEF LlmRowsOf
    <3> HIDE DEF k
    <3>2. Llm!Local(resolved[c])' = Llm!Local(resolved[c]) /\ resolved'[c] = resolved[c]
      BY <1>1 DEF Llm!Local, Llm!MODEL_TIERS
    <3>3. \A i \in LlmRowsOf(c)' : costs'[i].model = resolved'[c] /\ costs'[i].is_local = Llm!Local(resolved[c])'
      BY <1>2, <3>1, <3>2
    <3>4. (c \notin unsaved)' /\ \E i \in DOMAIN costs' : LlmRowsOf(c)' = {i}
      BY <1>7, <2>4, <3>1
    <3> QED BY <1>6, <3>3, <3>4 DEF LlmCharged
  <2>5. ASSUME unsaved' = unsaved \cup {c} /\ UNCHANGED costs PROVE LlmCharged(c)'
    <3>1. LlmRowsOf(c)' = {} /\ c \in unsaved'
      BY <1>7, <2>5 DEF LlmRowsOf
    <3> QED BY <1>6, <3>1 DEF LlmCharged
  <2> QED BY <1>1, <2>1, <2>3, <2>4, <2>5 DEF LlmCall
<1>9. ASSUME NEW d \in Completion \ {c} PROVE LlmCall(d)'
  <2>1. LlmCall(d)
    BY DEF LlmInv
  <2>2. callStage'[d] = callStage[d] /\ (d \in unsaved' <=> d \in unsaved)
    BY <1>0, <1>1 DEF LlmTypes
  <2>3. LlmRowsOf(d)' = LlmRowsOf(d) /\ DOMAIN costs \subseteq DOMAIN costs' /\ \A i \in DOMAIN costs : costs'[i] = costs[i]
    <3>1. CASE costs' = Append(costs, x)
      BY <1>2, <1>4, <3>1 DEF LlmRowsOf
    <3>2. CASE UNCHANGED costs
      BY <3>2 DEF LlmRowsOf
    <3> QED BY <1>1, <3>1, <3>2
  <2> QED BY <1>1, <2>1, <2>2, <2>3, LlmKeeps
<1> QED BY <1>5, <1>8, <1>9 DEF LlmInv

LEMMA LlmStep == ASSUME LlmInv, [Llm!Next]_(Llm!vars) PROVE LlmInv'
<1>0. defaultModel \in LlmModels /\ switching \subseteq Switched /\ Switched \subseteq LlmModels
  BY DEF LlmInv, LlmTypes, LlmModels
<1>1. CASE \E c \in Completion : \/ Llm!Complete(c) \/ Llm!CheckAsked(c) \/ Llm!FindAvailableFallback(c)
                           \/ Llm!Answered(c) \/ Llm!Raised(c) \/ Llm!Charge(c)
  BY <1>1, LlmCompletes, LlmChecks, LlmSearches, LlmEnds, LlmCharges
<1>2. CASE Llm!SwitchDefault
  BY <1>0, <1>2, LlmOllama DEF Llm!SwitchDefault
<1>3. CASE Llm!FinishSwitch
  BY <1>0, <1>3, LlmOllama DEF Llm!FinishSwitch
<1>4. CASE Llm!DeleteModel \/ Llm!OllamaStartsOrStops \/ UNCHANGED Llm!vars
  BY <1>0, <1>4, LlmOllama DEF Llm!DeleteModel, Llm!OllamaStartsOrStops, Llm!vars
<1> QED BY <1>1, <1>2, <1>3, <1>4 DEF Llm!Next

LEMMA LlmAlways == Llm!Spec => []LlmInv
<1>1. Llm!Init => LlmInv
  BY LlmInit
<1>2. LlmInv /\ [Llm!Next]_(Llm!vars) => LlmInv'
  BY LlmStep
<1> QED BY <1>1, <1>2, PTL DEF Llm!Spec

(* A fallback is the cheapest candidate that was not refused before:         *)
(* FallbackIsCheapest of LlmGateway.                                         *)
THEOREM LlmFallbackCorrect == Llm!Spec => []Llm!FallbackIsCheapest
<1>1. LlmInv => Llm!FallbackIsCheapest
  BY DEF LlmInv, LlmCall, LlmCheapest, Llm!FallbackIsCheapest
<1> QED BY <1>1, LlmAlways, PTL

(* An answered call has one row, of the model that answered:                 *)
(* ChargedOnce of LlmGateway.                                                *)
THEOREM LlmChargeCorrect == Llm!Spec => []Llm!ChargedOnce
<1>1. ASSUME LlmInv, NEW c \in Completion
      PROVE  /\ Llm!Cardinality(LlmRowsOf(c)) = IF callStage[c] = "answered" /\ c \notin unsaved THEN 1 ELSE 0
             /\ \A i \in LlmRowsOf(c) : costs[i].model = resolved[c] /\ costs[i].is_local = Llm!Local(resolved[c])
  <2>1. LlmCharged(c)
    BY <1>1 DEF LlmInv, LlmCall
  <2>2. \A S : Llm!Cardinality(S) = Cardinality(S)
    BY DEF Llm!Cardinality, Cardinality
  <2>3. CASE callStage[c] = "answered" /\ c \notin unsaved
    BY <2>1, <2>2, <2>3, FS_Singleton DEF LlmCharged
  <2>4. CASE ~(callStage[c] = "answered" /\ c \notin unsaved)
    BY <2>1, <2>2, <2>4, FS_EmptySet DEF LlmCharged
  <2> QED BY <2>1, <2>3, <2>4 DEF LlmCharged
<1>2. LlmInv => Llm!ChargedOnce
  BY <1>1 DEF LlmRowsOf, Llm!ChargedOnce
<1> QED BY <1>2, LlmAlways, PTL

-----------------------------------------------------------------------------
(* Local execution: every entry of the undo stack takes its effect back, and *)
(* is where the audit log says that it is.                                   *)
LaeeFiles == Seq(Letter) \cup {Binary, NoFile}
LaeeFs == [Path -> LaeeFiles]

LEMMA LaeeMin ==
    ASSUME NEW S, S \subseteq Nat, S # {}
    PROVE  Laee!Min(S) \in S /\ \A n \in S : Laee!Min(S) <= n
<1>1. \E m \in S : \A n \in S : m <= n
  BY Smallest
<1> QED BY <1>1 DEF Laee!Min

LEMMA LaeeReplaces ==
  ASSUME NEW t \in Seq(Letter), NEW old, NEW new, old[1] \in Laee!Range(t)
  PROVE  \E i \in DOMAIN t : /\ t[i] = old[1] /\ \A k \in DOMAIN t : k < i => t[k] # old[1]
                             /\ Laee!ReplaceFirst(t, old, new) = [t EXCEPT ![i] = new[1]]
<1> DEFINE S == {k \in 1 .. Len(t) : t[k] = old[1]}
           m == Laee!Min(S)
<1>1. S \subseteq Nat /\ S # {} /\ DOMAIN t = 1 .. Len(t)
  BY DEF Laee!Range
<1>2. m \in S /\ \A n \in S : m <= n
  BY <1>1, LaeeMin
<1>3. Laee!ReplaceFirst(t, old, new) = [t EXCEPT ![IF S # {} THEN m ELSE 0] = new[1]]
  BY DEF Laee!ReplaceFirst, Laee!SelectInSeq
<1> HIDE DEF m
<1>4. Laee!ReplaceFirst(t, old, new) = [t EXCEPT ![m] = new[1]]
  BY <1>1, <1>3
<1>5. m \in DOMAIN t /\ t[m] = old[1]
  BY <1>1, <1>2
<1>6. ASSUME NEW k \in DOMAIN t, k < m PROVE t[k] # old[1]
  <2>1. k \notin S
    <3>1. k \in S => m <= k
      BY <1>2
    <3> QED BY <1>1, <1>5, <1>6, <3>1
  <2> QED BY <1>1, <2>1
<1> QED BY <1>4, <1>5, <1>6

\* Undoing an edit whose new letter does not stand before the old one's place.
LEMMA LaeeEditBack ==
  ASSUME NEW t \in Seq(Letter), NEW old \in Seq(Letter) \ {<<>>}, NEW new \in Seq(Letter) \ {<<>>},
         old[1] \in Laee!Range(t)
  PROVE  /\ Laee!ReplaceFirst(t, old, new) \in Seq(Letter)
         /\ new[1] \in Laee!Range(Laee!ReplaceFirst(t, old, new))
         /\ (\A i \in DOMAIN t : t[i] = new[1] => \E j \in 1 .. i - 1 : t[j] = old[1]) =>
              Laee!ReplaceFirst(Laee!ReplaceFirst(t, old, new), new, old) = t
<1>1. PICK i \in DOMAIN t : /\ t[i] = old[1] /\ \A k \in DOMAIN t : k < i => t[k] # old[1]
                            /\ Laee!ReplaceFirst(t, old, new) = [t EXCEPT ![i] = new[1]]
  BY LaeeReplaces
<1> DEFINE u == Laee!ReplaceFirst(t, old, new)
<1>2. new[1] \in Letter /\ old[1] \in Letter /\ DOMAIN t = 1 .. Len(t) /\ Len(t) \in Nat
  <2>1. Len(new) \in Nat /\ Len(old) \in Nat /\ Len(new) # 0 /\ Len(old) # 0
    BY EmptySeq
  <2>2. 1 \in DOMAIN new /\ 1 \in DOMAIN old
    BY <2>1
  <2> QED BY <2>2
<1>3. u = [t EXCEPT ![i] = new[1]]
  BY <1>1
<1>4. u \in Seq(Letter) /\ DOMAIN u = DOMAIN t /\ u[i] = new[1] /\ \A k \in DOMAIN t : k # i => u[k] = t[k]
  BY <1>2, <1>3
<1> HIDE DEF u
<1>5. new[1] \in Laee!Range(u)
  BY <1>4 DEF Laee!Range
<1>6. ASSUME \A k \in DOMAIN t : t[k] = new[1] => \E j \in 1 .. k - 1 : t[j] = old[1]
      PROVE  Laee!ReplaceFirst(u, new, old) = t
  <2>1. PICK n \in DOMAIN u : /\ u[n] = new[1] /\ \A k \in DOMAIN u : k < n => u[k] # new[1]
                              /\ Laee!ReplaceFirst(u, new, old) = [u EXCEPT ![n] = old[1]]
    BY <1>4, <1>5, LaeeReplaces
  <2>2. ~(n < i)
    <3>1. SUFFICES ASSUME n < i PROVE FALSE
      OBVIOUS
    <3>2. n # i /\ t[n] = new[1]
      BY <1>2, <1>4, <2>1, <3>1
    <3>3. PICK j \in 1 .. n - 1 : t[j] = old[1]
      BY <1>4, <1>6, <2>1, <3>2
    <3>4. j \in DOMAIN t /\ j < i
      BY <1>2, <1>4, <3>1
    <3> QED BY <1>1, <3>3, <3>4
  <2>3. ~(i < n)
    BY <1>4, <2>1
  <2>4. n = i
    BY <1>2, <1>4, <2>2, <2>3
  <2>5. [u EXCEPT ![i] = old[1]] = t
    <3>1. u = [k \in DOMAIN t |-> u[k]] /\ t = [k \in DOMAIN t |-> t[k]]
      BY <1>4
    <3>2. [u EXCEPT ![i] = old[1]] = [k \in DOMAIN t |-> t[k]]
      BY <1>1, <1>4, <3>1
    <3> QED BY <3>1, <3>2
  <2> QED BY <2>1, <2>4, <2>5
<1> QED BY <1>4, <1>5, <1>6 DEF u

LEMMA LaeeTexts ==
  ASSUME NEW c
  PROVE  /\ c \in Seq(Letter) => Laee!Text(c)
         /\ c \in LaeeFiles /\ Laee!Text(c) => c \in Seq(Letter)
BY LocalAssumption DEF LaeeFiles, Laee!Text

\* A tool leaves files that are files.
LEMMA LaeeEffects ==
  ASSUME NEW a, LocalAction(a), NEW f \in LaeeFs
  PROVE  Laee!Effect(a, f) \in LaeeFs
<1>1. CASE ~Laee!Succeeds(a, f)
  BY <1>1 DEF Laee!Effect
<1>2. CASE Laee!Succeeds(a, f) /\ a.tool = "fs_write"
  <2>1. Laee!Effect(a, f) = [f EXCEPT ![a.path] = a.content]
    BY <1>2 DEF Laee!Effect
  <2> QED BY <1>2, <2>1 DEF LocalAction, LaeeFs, LaeeFiles
<1>3. CASE Laee!Succeeds(a, f) /\ a.tool = "fs_edit"
  <2>1. Laee!Effect(a, f) = [f EXCEPT ![a.path] = Laee!ReplaceFirst(f[a.path], a.old, a.new)]
    BY <1>3 DEF Laee!Effect
  <2>2. a.path \in Path /\ a.old \in Seq(Letter) \ {<<>>} /\ a.new \in Seq(Letter) \ {<<>>}
    BY <1>3 DEF LocalAction
  <2>3. Laee!Text(f[a.path]) /\ a.old[1] \in Laee!Range(f[a.path])
    BY <1>3 DEF Laee!Succeeds
  <2>4. f[a.path] \in Seq(Letter)
    BY <2>2, <2>3, LaeeTexts DEF LaeeFs
  <2>5. Laee!ReplaceFirst(f[a.path], a.old, a.new) \in Seq(Letter)
    BY <2>2, <2>3, <2>4, LaeeEditBack
  <2> QED BY <2>1, <2>2, <2>5 DEF LaeeFs, LaeeFiles
<1>4. CASE Laee!Succeeds(a, f) /\ a.tool = "fs_delete"
  <2>1. Laee!Effect(a, f) = [f EXCEPT ![a.path] = NoFile]
    BY <1>4 DEF Laee!Effect
  <2> QED BY <1>4, <2>1 DEF LocalAction, LaeeFs, LaeeFiles
<1>5. CASE Laee!Succeeds(a, f) /\ a.tool = "fs_move"
  <2>1. Laee!Effect(a, f) = [[f EXCEPT ![a.src] = NoFile] EXCEPT ![a.dst] = f[a.src]]
    BY <1>5 DEF Laee!Effect
  <2> QED BY <1>5, <2>1 DEF LocalAction, LaeeFs, LaeeFiles
<1>6. CASE a.tool \notin {"fs_write", "fs_edit", "fs_delete", "fs_move"}
  BY <1>6 DEF Laee!Effect
<1> QED BY <1>1, <1>2, <1>3, <1>4, <1>5, <1>6

\* What is pushed when an action has run.
LaeeEntry(e) ==
    /\ LocalAction(e.of) /\ e.of.tool \in Laee!Undoable
    /\ e.before \in LaeeFs /\ Laee!Succeeds(e.of, e.before)
    /\ e.after = Laee!Effect(e.of, e.before)
    /\ e.undo = Laee!BuildUndo(e.of, e.before)
    /\ e.of.tool = "fs_write" => e.before[e.of.path] # Binary

LEMMA LaeeUndoWrite ==
  ASSUME NEW e, LaeeEntry(e), e.of.tool = "fs_write"
  PROVE  LocalAction(e.undo) /\ Laee!Succeeds(e.undo, e.after) /\ Laee!Effect(e.undo, e.after) = e.before
<1> DEFINE p == e.of.path
           f == e.before
<1>1. p \in Path /\ e.of.content \in Seq(Letter) /\ f \in LaeeFs /\ f[p] # Binary
  BY DEF LaeeEntry, LocalAction
<1>2. e.after = [f EXCEPT ![p] = e.of.content]
  BY DEF LaeeEntry, Laee!Effect
<1>3. e.undo = IF f[p] = NoFile THEN Laee!Delete(p, FALSE) ELSE Laee!Write(p, f[p])
  BY DEF LaeeEntry, Laee!BuildUndo
<1>4. e.after[p] = e.of.content /\ e.of.content # NoFile
  BY <1>1, <1>2, LocalAssumption DEF LaeeFs
<1>5. [e.after EXCEPT ![p] = f[p]] = f
  BY <1>1, <1>2 DEF LaeeFs
<1> HIDE DEF p, f
<1>6. CASE f[p] = NoFile
  <2>1. e.undo.tool = "fs_delete" /\ e.undo.path = p
    BY <1>3, <1>6 DEF Laee!Delete, Laee!Call
  <2>2. Laee!Succeeds(e.undo, e.after)
    BY <1>4, <2>1 DEF Laee!Succeeds
  <2>3. Laee!Effect(e.undo, e.after) = [e.after EXCEPT ![p] = NoFile]
    BY <2>1, <2>2 DEF Laee!Effect
  <2> QED BY <1>1, <1>5, <1>6, <2>1, <2>2, <2>3 DEF LocalAction, f
<1>7. CASE f[p] # NoFile
  <2>1. e.undo.tool = "fs_write" /\ e.undo.path = p /\ e.undo.content = f[p]
    BY <1>3, <1>7 DEF Laee!Write, Laee!Call
  <2>2. Laee!Succeeds(e.undo, e.after)
    BY <2>1 DEF Laee!Succeeds
  <2>3. Laee!Effect(e.undo, e.after) = [e.after EXCEPT ![p] = f[p]]
    BY <2>1, <2>2 DEF Laee!Effect
  <2>4. f[p] \in Seq(Letter)
    BY <1>1, <1>7 DEF LaeeFs, LaeeFiles
  <2> QED BY <1>1, <1>5, <2>1, <2>2, <2>3, <2>4 DEF LocalAction, f
<1> QED BY <1>6, <1>7

LEMMA LaeeUndoEdit ==
  ASSUME NEW e, LaeeEntry(e), e.of.tool = "fs_edit"
  PROVE  /\ LocalAction(e.undo)
         /\ Laee!Invertible(e) => Laee!Succeeds(e.undo, e.after) /\ Laee!Effect(e.undo, e.after) = e.before
<1> DEFINE p == e.of.path
           f == e.before
           t == e.before[e.of.path]
           old == e.of.old
           new == e.of.new
           u == Laee!ReplaceFirst(t, old, new)
<1>1. p \in Path /\ old \in Seq(Letter) \ {<<>>} /\ new \in Seq(Letter) \ {<<>>} /\ f \in LaeeFs
  BY DEF LaeeEntry, LocalAction
<1>2. Laee!Text(t) /\ old[1] \in Laee!Range(t)
  BY DEF LaeeEntry, Laee!Succeeds
<1>3. t \in Seq(Letter)
  BY <1>1, <1>2, LaeeTexts DEF LaeeFs
<1>4. e.after = [f EXCEPT ![p] = u]
  BY DEF LaeeEntry, Laee!Effect
<1>5. e.undo.tool = "fs_edit" /\ e.undo.path = p /\ e.undo.old = new /\ e.undo.new = old
  BY DEF LaeeEntry, Laee!BuildUndo, Laee!Edit, Laee!Call
<1>6. /\ u \in Seq(Letter) /\ new[1] \in Laee!Range(u)
      /\ Laee!Invertible(e) => Laee!ReplaceFirst(u, new, old) = t
  <2>1. Laee!Invertible(e) => Laee!FirstHit(e.of, t)
    BY DEF Laee!Invertible
  <2>2. Laee!FirstHit(e.of, t) => \A i \in DOMAIN t : t[i] = new[1] => \E j \in 1 .. i - 1 : t[j] = old[1]
    BY DEF Laee!FirstHit
  <2> HIDE DEF p, f, t, old, new
  <2>3. /\ u \in Seq(Letter) /\ new[1] \in Laee!Range(u)
        /\ (\A i \in DOMAIN t : t[i] = new[1] => \E j \in 1 .. i - 1 : t[j] = old[1]) =>
             Laee!ReplaceFirst(u, new, old) = t
    BY <1>1, <1>2, <1>3, LaeeEditBack
  <2> QED BY <2>1, <2>2, <2>3
<1> HIDE DEF u
<1>7. e.after[p] = u /\ [e.after EXCEPT ![p] = t] = f
  BY <1>1, <1>4 DEF LaeeFs
<1>8. Laee!Succeeds(e.undo, e.after)
  BY <1>5, <1>6, <1>7, LaeeTexts DEF Laee!Succeeds
<1>9. Laee!Effect(e.undo, e.after) = [e.after EXCEPT ![p] = Laee!ReplaceFirst(u, new, old)]
  BY <1>5, <1>7, <1>8 DEF Laee!Effect
<1>10. LocalAction(e.undo)
  BY <1>1, <1>5 DEF LocalAction
<1> QED BY <1>6, <1>7, <1>8, <1>9, <1>10

LEMMA LaeeUndoMove ==
  ASSUME NEW e, LaeeEntry(e), e.of.tool = "fs_move"
  PROVE  /\ LocalAction(e.undo)
         /\ Laee!Invertible(e) => Laee!Succeeds(e.undo, e.after) /\ Laee!Effect(e.undo, e.after) = e.before
<1> DEFINE s == e.of.src
           d == e.of.dst
           f == e.before
           g == e.after
<1>1. s \in Path /\ d \in Path /\ f \in LaeeFs /\ f[s] # NoFile
  BY DEF LaeeEntry, LocalAction, Laee!Succeeds
<1>2. g = [[f EXCEPT ![s] = NoFile] EXCEPT ![d] = f[s]]
  BY DEF LaeeEntry, Laee!Effect
<1>3. e.undo.tool = "fs_move" /\ e.undo.src = d /\ e.undo.dst = s
  BY DEF LaeeEntry, Laee!BuildUndo, Laee!Move, Laee!Call
<1>4. LocalAction(e.undo)
  BY <1>1, <1>3 DEF LocalAction
<1>5. Laee!Invertible(e) => s = d \/ f[d] = NoFile
  BY DEF Laee!Invertible
<1> HIDE DEF s, d, f, g
<1>6. g[d] = f[s] /\ g \in [Path -> LaeeFiles \cup {NoFile}]
  BY <1>1, <1>2 DEF LaeeFs
<1>7. Laee!Succeeds(e.undo, g)
  BY <1>1, <1>3, <1>6 DEF Laee!Succeeds
<1>8. Laee!Effect(e.undo, g) = [[g EXCEPT ![d] = NoFile] EXCEPT ![s] = g[d]]
  BY <1>3, <1>7 DEF Laee!Effect
<1>9. s = d \/ f[d] = NoFile => [[g EXCEPT ![d] = NoFile] EXCEPT ![s] = g[d]] = f
  BY <1>1, <1>2, <1>6 DEF LaeeFs
<1> QED BY <1>4, <1>5, <1>7, <1>8, <1>9 DEF f, g

LaeeUndos == {Laee!BuildUndo(a, f) : a \in LocalRequests, f \in LaeeFs}
LaeeEntries == [undo : LaeeUndos, of : LocalRequests, before : LaeeFs, after : LaeeFs, logged : Nat]
LaeeTools == {a.tool : a \in LocalRequests} \cup {u.tool : u \in LaeeUndos} \cup {"shell_exec"}
LaeeLog == [tool : LaeeTools, risk : 0 .. 4, outcome : {"denied", "error", "success", "undone"}]
LaeeLimit == Laee!AutoApproveThreshold[mode]

LaeeTypes ==
    /\ mode \in {"full_auto", "confirm_destructive", "confirm_all"} /\ fs \in LaeeFs
    /\ undoStack \in Seq(LaeeEntries) /\ audit \in Seq(LaeeLog) /\ shell \subseteq 0 .. 4

LaeeLogged(i) ==
    /\ undoStack[i].logged \in DOMAIN audit
    /\ audit[undoStack[i].logged].outcome = "success"
    /\ audit[undoStack[i].logged].tool = undoStack[i].of.tool
    /\ i > 1 => undoStack[i - 1].logged < undoStack[i].logged

LaeeStack == \A i \in DOMAIN undoStack : LaeeEntry(undoStack[i]) /\ LaeeLogged(i)

LaeeApproved ==
    /\ \A i \in DOMAIN audit : audit[i].outcome \notin {"denied", "undone"} => audit[i].risk <= LaeeLimit
    /\ \A r \in shell : r <= LaeeLimit

LaeeInv == LaeeTypes /\ LaeeStack /\ LaeeApproved

LEMMA LaeeRisk ==
  ASSUME NEW a
  PROVE  /\ Laee!Assess(a) \in 0 .. 4
         /\ LaeeTypes => LaeeLimit \in 0 .. 4 /\ (~Laee!NeedsApproval(mode, Laee!Assess(a)) => Laee!Assess(a) <= LaeeLimit)
<1> USE DEF Laee!SAFE, Laee!LOW, Laee!MEDIUM, Laee!HIGH, Laee!CRITICAL
<1>1. Laee!BaseRisk(a.tool) \in 0 .. 4
  <2>1. CASE a.tool \in {"fs_read", "fs_glob", "fs_tree", "cron_list"}
    BY <2>1 DEF Laee!BaseRisk
  <2>2. CASE a.tool \in {"shell_background", "cron_once", "cron_cancel", "fs_watch"}
    BY <2>2 DEF Laee!BaseRisk
  <2>3. CASE a.tool \in {"fs_delete", "system_process_kill"}
    BY <2>3 DEF Laee!BaseRisk
  <2>4. CASE a.tool \notin {"fs_read", "fs_glob", "fs_tree", "cron_list", "shell_background", "cron_once",
                            "cron_cancel", "fs_watch", "fs_delete", "system_process_kill"}
    BY <2>4 DEF Laee!BaseRisk
  <2> QED BY <2>1, <2>2, <2>3, <2>4
<1>2. Laee!Assess(a) \in 0 .. 4
  BY <1>1 DEF Laee!Assess
<1>3. LaeeTypes => LaeeLimit \in 0 .. 4
  BY DEF LaeeTypes, LaeeLimit, Laee!AutoApproveThreshold
<1>4. ASSUME LaeeTypes, ~Laee!NeedsApproval(mode, Laee!Assess(a)) PROVE Laee!Assess(a) <= LaeeLimit
  <2>1. ~(Laee!Assess(a) > LaeeLimit)
    BY <1>4 DEF Laee!NeedsApproval, LaeeLimit
  <2> HIDE DEF LaeeLimit
  <2> QED BY <1>2, <1>3, <1>4, <2>1
<1> QED BY <1>2, <1>3, <1>4

LEMMA LaeeInit == ASSUME Laee!Init PROVE LaeeInv
<1>1. LaeeTypes
  <2>1. mode \in {"full_auto", "confirm_destructive", "confirm_all"}
    BY DEF Laee!Init, Laee!AutoApproveThreshold
  <2>2. fs \in LaeeFs
    BY LocalAssumption DEF Laee!Init, LaeeFs, LaeeFiles
  <2> QED BY <2>1, <2>2 DEF Laee!Init, LaeeTypes
<1>2. LaeeStack /\ LaeeApproved
  BY DEF Laee!Init, LaeeStack, LaeeApproved
<1> QED BY <1>1, <1>2 DEF LaeeInv

\* What was logged stays logged.
LEMMA LaeeLogs ==
  ASSUME LaeeInv, NEW x \in LaeeLog, audit' = Append(audit, x), mode' = mode,
         x.outcome \notin {"denied", "undone"} => x.risk <= LaeeLimit
  PROVE  /\ audit' \in Seq(LaeeLog) /\ LaeeLimit' = LaeeLimit
         /\ Len(audit) \in Nat /\ Len(audit) + 1 \in DOMAIN audit' /\ audit'[Len(audit) + 1] = x
         /\ DOMAIN audit = 1 .. Len(audit) /\ DOMAIN audit \subseteq DOMAIN audit'
         /\ \A i \in DOMAIN audit : audit'[i] = audit[i]
         /\ \A i \in DOMAIN audit' : audit'[i].outcome \notin {"denied", "undone"} => audit'[i].risk <= LaeeLimit'
<1>1. audit \in Seq(LaeeLog) /\ LaeeApproved
  BY DEF LaeeInv, LaeeTypes
<1>2. /\ audit' \in Seq(LaeeLog) /\ Len(audit) \in Nat /\ DOMAIN audit = 1 .. Len(audit)
      /\ DOMAIN audit' = DOMAIN audit \cup {Len(audit) + 1} /\ audit'[Len(audit) + 1] = x
      /\ \A i \in DOMAIN audit : audit'[i] = audit[i]
  BY <1>1
<1>3. LaeeLimit' = LaeeLimit
  BY DEF LaeeLimit, Laee!AutoApproveThreshold
<1>4. \A i \in DOMAIN audit' : audit'[i].outcome \notin {"denied", "undone"} => audit'[i].risk <= LaeeLimit'
  BY <1>1, <1>2, <1>3 DEF LaeeApproved
<1> QED BY <1>2, <1>3, <1>4

\* A step that logs, and pushes and pops nothing.
LEMMA LaeeNotes ==
  ASSUME LaeeInv, NEW x \in LaeeLog, audit' = Append(audit, x), UNCHANGED <<mode, undoStack>>,
         x.outcome \notin {"denied", "undone"} => x.risk <= LaeeLimit,
         fs' \in LaeeFs, shell' \subseteq shell
  PROVE  LaeeInv'
<1>0. LaeeTypes /\ LaeeStack /\ LaeeApproved
  BY DEF LaeeInv
<1>1. /\ audit' \in Seq(LaeeLog) /\ LaeeLimit' = LaeeLimit /\ DOMAIN audit \subseteq DOMAIN audit'
      /\ \A i \in DOMAIN audit : audit'[i] = audit[i]
      /\ \A i \in DOMAIN audit' : audit'[i].outcome \notin {"denied", "undone"} => audit'[i].risk <= LaeeLimit'
  BY LaeeLogs
<1>2. LaeeTypes'
  BY <1>0, <1>1 DEF LaeeTypes
<1>3. LaeeApproved'
  BY <1>0, <1>1 DEF LaeeApproved
<1>4. ASSUME NEW i \in DOMAIN undoStack' PROVE LaeeEntry(undoStack[i])' /\ LaeeLogged(i)'
  <2>1. LaeeEntry(undoStack[i]) /\ LaeeLogged(i)
    BY <1>0 DEF LaeeStack
  <2>2. LaeeEntry(undoStack[i])'
    BY <2>1 DEF LaeeEntry
  <2>3. LaeeLogged(i)'
    BY <1>1, <2>1 DEF LaeeLogged
  <2> QED BY <2>2, <2>3
<1> QED BY <1>2, <1>3, <1>4 DEF LaeeInv, LaeeStack

LEMMA LaeeRefuses ==
  ASSUME LaeeInv, NEW a \in LocalRequests, Laee!Deny(a) \/ Laee!RejectUnknown(a) \/ Laee!ExecuteFails(a)
  PROVE  LaeeInv'
<1>1. PICK outcome \in {"denied", "error"} :
        /\ audit' = Append(audit, [tool |-> a.tool, risk |-> Laee!Assess(a), outcome |-> outcome])
        /\ outcome = "denied" \/ Laee!Approved(a)
  BY DEF Laee!Deny, Laee!RejectUnknown, Laee!ExecuteFails, Laee!Log
<1>2. UNCHANGED <<mode, fs, undoStack, shell>>
  BY DEF Laee!Deny, Laee!RejectUnknown, Laee!ExecuteFails
<1> DEFINE x == [tool |-> a.tool, risk |-> Laee!Assess(a), outcome |-> outcome]
<1>3. LaeeTypes /\ fs \in LaeeFs
  BY DEF LaeeInv, LaeeTypes
<1>4. Laee!Assess(a) \in 0 .. 4 /\ (Laee!Approved(a) => Laee!Assess(a) <= LaeeLimit)
  BY <1>3, LaeeRisk DEF Laee!Approved
<1>5. x \in LaeeLog
  BY <1>4 DEF LaeeLog, LaeeTools
<1>6. x.outcome \notin {"denied", "undone"} => x.risk <= LaeeLimit
  BY <1>1, <1>4
<1>7. audit' = Append(audit, x)
  BY <1>1
<1> HIDE DEF x
<1> QED BY <1>2, <1>3, <1>5, <1>6, <1>7, LaeeNotes

LEMMA LaeeExecutes ==
  ASSUME LaeeInv, NEW a \in LocalRequests, Laee!Execute(a)
  PROVE  LaeeInv'
<1> DEFINE x == [tool |-> a.tool, risk |-> Laee!Assess(a), outcome |-> "success"]
           e == [undo |-> Laee!BuildUndo(a, fs), of |-> a, before |-> fs, after |-> fs', logged |-> Len(audit) + 1]
<1>0. LaeeTypes /\ LaeeStack /\ LaeeApproved /\ fs \in LaeeFs /\ LocalAction(a)
  BY LocalAssumption DEF LaeeInv, LaeeTypes
<1>1. /\ Laee!Approved(a) /\ Laee!Succeeds(a, fs) /\ fs' = Laee!Effect(a, fs)
      /\ undoStack' = IF Laee!Recorded(a) THEN Append(undoStack, e) ELSE undoStack
      /\ audit' = Append(audit, x) /\ UNCHANGED <<mode, shell>>
  BY DEF Laee!Execute, Laee!Log
<1>2. /\ Laee!Recorded(a) => a.tool \in Laee!Undoable
      /\ Laee!Recorded(a) /\ a.tool = "fs_write" => fs[a.path] # Binary
  BY DEF Laee!Execute, Laee!CannotSave, Laee!Recorded
<1>3. fs' \in LaeeFs
  BY <1>0, <1>1, LaeeEffects
<1>4. Laee!Assess(a) \in 0 .. 4 /\ Laee!Assess(a) <= LaeeLimit
  BY <1>0, <1>1, LaeeRisk DEF Laee!Approved
<1>5. x \in LaeeLog /\ x.outcome = "success" /\ x.tool = a.tool /\ x.risk <= LaeeLimit
  BY <1>4 DEF LaeeLog, LaeeTools
<1> HIDE DEF x
<1>6. /\ audit' \in Seq(LaeeLog) /\ LaeeLimit' = LaeeLimit
      /\ Len(audit) \in Nat /\ Len(audit) + 1 \in DOMAIN audit' /\ audit'[Len(audit) + 1] = x
      /\ DOMAIN audit = 1 .. Len(audit) /\ DOMAIN audit \subseteq DOMAIN audit'
      /\ \A i \in DOMAIN audit : audit'[i] = audit[i]
      /\ \A i \in DOMAIN audit' : audit'[i].outcome \notin {"denied", "undone"} => audit'[i].risk <= LaeeLimit'
  BY <1>1, <1>5, LaeeLogs
<1>7. CASE ~Laee!Recorded(a)
  BY <1>1, <1>3, <1>5, <1>7, LaeeNotes
<1>8. CASE Laee!Recorded(a)
  <2>1. /\ e.undo = Laee!BuildUndo(a, fs) /\ e.of = a /\ e.before = fs /\ e.after = fs' /\ e.logged = Len(audit) + 1
    OBVIOUS
  <2>2. e \in LaeeEntries
    BY <1>0, <1>3, <1>6 DEF LaeeEntries, LaeeUndos
  <2> HIDE DEF e
  <2>3. LaeeEntry(e)
    BY <1>0, <1>1, <1>2, <1>8, <2>1 DEF LaeeEntry
  <2>4. undoStack \in Seq(LaeeEntries) /\ undoStack' = Append(undoStack, e)
    BY <1>0, <1>1, <1>8 DEF LaeeTypes
  <2>5. /\ undoStack' \in Seq(LaeeEntries) /\ Len(undoStack) \in Nat /\ DOMAIN undoStack = 1 .. Len(undoStack)
        /\ DOMAIN undoStack' = 1 .. Len(undoStack) + 1 /\ undoStack'[Len(undoStack) + 1] = e
        /\ \A i \in 1 .. Len(undoStack) : undoStack'[i] = undoStack[i]
    BY <2>2, <2>4
  <2>6. LaeeTypes' /\ LaeeApproved'
    BY <1>0, <1>1, <1>3, <1>6, <2>5 DEF LaeeTypes, LaeeApproved
  <2>7. ASSUME NEW i \in DOMAIN undoStack' PROVE LaeeEntry(undoStack'[i]) /\ LaeeLogged(i)'
    <3>1. CASE i = Len(undoStack) + 1
      <4>1. LaeeEntry(undoStack'[i])
        BY <2>3, <2>5, <3>1
      <4>2. /\ undoStack'[i].logged = Len(audit) + 1 /\ undoStack'[i].of = a
            /\ audit'[Len(audit) + 1].outcome = "success" /\ audit'[Len(audit) + 1].tool = a.tool
        BY <1>5, <1>6, <2>1, <2>5, <3>1
      <4>3. i > 1 => undoStack'[i - 1].logged < Len(audit) + 1
        <5>1. SUFFICES ASSUME i > 1 PROVE undoStack'[i - 1].logged < Len(audit) + 1
          OBVIOUS
        <5>2. i - 1 \in DOMAIN undoStack /\ undoStack'[i - 1] = undoStack[i - 1]
          BY <2>5, <3>1, <5>1
        <5>3. undoStack[i - 1].logged \in DOMAIN audit
          BY <1>0, <5>2 DEF LaeeStack, LaeeLogged
        <5> QED BY <1>6, <5>2, <5>3
      <4> QED BY <1>6, <4>1, <4>2, <4>3 DEF LaeeLogged
    <3>2. CASE i # Len(undoStack) + 1
      <4>1. i \in 1 .. Len(undoStack) /\ undoStack'[i] = undoStack[i]
        BY <2>5, <3>2
      <4>2. LaeeEntry(undoStack[i]) /\ LaeeLogged(i)
        BY <1>0, <2>5, <4>1 DEF LaeeStack
      <4>3. i > 1 => undoStack'[i - 1] = undoStack[i - 1]
        BY <2>5, <4>1
      <4> QED BY <1>6, <4>1, <4>2, <4>3 DEF LaeeLogged
    <3> QED BY <3>1, <3>2
  <2>8. LaeeStack'
    BY <2>7 DEF LaeeStack, LaeeEntry
  <2> QED BY <2>6, <2>8 DEF LaeeInv
<1> QED BY <1>7, <1>8

LEMMA LaeeUndoFits ==
  ASSUME NEW e, LaeeEntry(e)
  PROVE  /\ LocalAction(e.undo)
         /\ Laee!Invertible(e) => Laee!Succeeds(e.undo, e.after) /\ Laee!Effect(e.undo, e.after) = e.before
<1>1. e.of.tool \in {"fs_write", "fs_edit", "fs_move"}
  BY DEF LaeeEntry, Laee!Undoable
<1> QED BY <1>1, LaeeUndoWrite, LaeeUndoEdit, LaeeUndoMove

LEMMA LaeeUndoes ==
  ASSUME LaeeInv, Laee!UndoLast
  PROVE  LaeeInv'
<1> DEFINE n == Len(undoStack)
           e == undoStack[n]
           u == e.undo
           x == [tool |-> u.tool, risk |-> Laee!Assess(u), outcome |-> "undone"]
<1>0. LaeeTypes /\ LaeeStack /\ LaeeApproved /\ fs \in LaeeFs /\ undoStack \in Seq(LaeeEntries)
  BY DEF LaeeInv, LaeeTypes
<1>1. /\ undoStack # <<>> /\ fs' = Laee!Effect(u, fs) /\ undoStack' = SubSeq(undoStack, 1, n - 1)
      /\ audit' = Append(audit, x) \/ UNCHANGED audit
      /\ UNCHANGED <<mode, shell>>
  BY DEF Laee!UndoLast, Laee!Last, Laee!Front, Laee!Log
<1>2. n \in Nat /\ n >= 1 /\ n \in DOMAIN undoStack /\ DOMAIN undoStack = 1 .. n
  <2>1. n # 0
    BY <1>0, <1>1, EmptySeq
  <2> QED BY <1>0, <2>1
<1>3. e \in LaeeEntries /\ LaeeEntry(e)
  BY <1>0, <1>2 DEF LaeeStack
<1>4. x \in LaeeLog /\ x.outcome = "undone"
  <2>1. u \in LaeeUndos
    BY <1>3 DEF LaeeEntries
  <2>2. u.tool \in LaeeTools /\ Laee!Assess(u) \in 0 .. 4
    BY <2>1, LaeeRisk DEF LaeeTools
  <2> QED BY <2>2 DEF LaeeLog
<1>5. fs' \in LaeeFs
  BY <1>0, <1>1, <1>3, LaeeUndoFits, LaeeEffects
<1> HIDE DEF x, u, e
<1>6. /\ audit' \in Seq(LaeeLog) /\ LaeeLimit' = LaeeLimit /\ DOMAIN audit \subseteq DOMAIN audit'
      /\ \A i \in DOMAIN audit : audit'[i] = audit[i]
      /\ \A i \in DOMAIN audit' : audit'[i].outcome \notin {"denied", "undone"} => audit'[i].risk <= LaeeLimit'
  <2>1. CASE audit' = Append(audit, x)
    BY <1>1, <1>4, <2>1, LaeeLogs
  <2>2. CASE UNCHANGED audit
    BY <1>0, <1>1, <2>2 DEF LaeeTypes, LaeeApproved, LaeeLimit, Laee!AutoApproveThreshold
  <2> QED BY <1>1, <2>1, <2>2
<1> HIDE DEF n
<1>7. /\ undoStack' \in Seq(LaeeEntries) /\ DOMAIN undoStack' = 1 .. n - 1
      /\ \A i \in 1 .. n - 1 : undoStack'[i] = undoStack[i] /\ i \in DOMAIN undoStack
  <2>1. \A i \in 1 .. n - 1 : undoStack[i] \in LaeeEntries /\ i \in DOMAIN undoStack
    BY <1>0, <1>2
  <2>2. undoStack' = [i \in 1 .. n - 1 |-> undoStack[i]]
    BY <1>0, <1>1, <1>2
  <2> QED BY <1>2, <2>1, <2>2
<1>8. LaeeTypes' /\ LaeeApproved'
  BY <1>0, <1>1, <1>5, <1>6, <1>7 DEF LaeeTypes, LaeeApproved
<1>9. ASSUME NEW i \in DOMAIN undoStack' PROVE LaeeEntry(undoStack'[i]) /\ LaeeLogged(i)'
  <2>1. i \in 1 .. n - 1 /\ undoStack'[i] = undoStack[i] /\ LaeeEntry(undoStack[i]) /\ LaeeLogged(i)
    BY <1>0, <1>7 DEF LaeeStack
  <2>2. i > 1 => undoStack'[i - 1] = undoStack[i - 1]
    BY <1>2, <1>7, <2>1
  <2> QED BY <1>6, <2>1, <2>2 DEF LaeeLogged
<1>10. LaeeStack'
  BY <1>9 DEF LaeeStack, LaeeEntry
<1> QED BY <1>8, <1>10 DEF LaeeInv

\* Steps that neither log nor push nor pop.
LEMMA LaeeQuiet ==
  ASSUME LaeeInv, UNCHANGED <<mode, undoStack, audit>>, fs' \in LaeeFs,
         shell' \subseteq 0 .. 4, \A r \in shell' : r <= LaeeLimit
  PROVE  LaeeInv'
<1>0. LaeeTypes /\ LaeeStack /\ LaeeApproved
  BY DEF LaeeInv
<1>1. LaeeTypes'
  BY <1>0 DEF LaeeTypes
<1>2. LaeeApproved'
  <2>1. LaeeLimit' = LaeeLimit
    BY DEF LaeeLimit, Laee!AutoApproveThreshold
  <2> QED BY <1>0, <2>1 DEF LaeeApproved
<1>3. ASSUME NEW i \in DOMAIN undoStack' PROVE LaeeEntry(undoStack[i])' /\ LaeeLogged(i)'
  BY <1>0 DEF LaeeStack, LaeeEntry, LaeeLogged
<1> QED BY <1>1, <1>2, <1>3 DEF LaeeInv, LaeeStack

LEMMA LaeeShell ==
  ASSUME LaeeInv, Laee!StartShell \/ Laee!EndShell \/ Laee!ShellWrites
  PROVE  LaeeInv'
<1>0. LaeeTypes /\ LaeeStack /\ LaeeApproved /\ fs \in LaeeFs /\ shell \subseteq 0 .. 4
  BY DEF LaeeInv, LaeeTypes
<1>1. CASE Laee!StartShell
  <2>1. PICK dangerous \in BOOLEAN :
          LET a == [Laee!Call("shell_exec", Laee!NoPath) EXCEPT !.dangerous = dangerous]
          IN  IF Laee!Approved(a) THEN shell' = {Laee!Assess(a)} /\ UNCHANGED audit
              ELSE Laee!Log("shell_exec", Laee!Assess(a), "denied") /\ UNCHANGED shell
    BY <1>1 DEF Laee!StartShell
  <2> DEFINE a == [Laee!Call("shell_exec", Laee!NoPath) EXCEPT !.dangerous = dangerous]
             x == [tool |-> "shell_exec", risk |-> Laee!Assess(a), outcome |-> "denied"]
  <2>2. UNCHANGED <<mode, undoEnabled, fs, undoStack>>
    BY <1>1 DEF Laee!StartShell
  <2>3. IF Laee!Approved(a) THEN shell' = {Laee!Assess(a)} /\ UNCHANGED audit
        ELSE audit' = Append(audit, x) /\ UNCHANGED shell
    BY <2>1 DEF Laee!Log
  <2> HIDE DEF a
  <2>4. Laee!Assess(a) \in 0 .. 4 /\ (Laee!Approved(a) => Laee!Assess(a) <= LaeeLimit)
    BY <1>0, LaeeRisk DEF Laee!Approved
  <2>5. x \in LaeeLog /\ x.outcome = "denied"
    BY <2>4 DEF LaeeLog, LaeeTools
  <2> HIDE DEF x
  <2>6. CASE Laee!Approved(a)
    BY <1>0, <2>2, <2>3, <2>4, <2>6, LaeeQuiet
  <2>7. CASE ~Laee!Approved(a)
    BY <1>0, <2>2, <2>3, <2>5, <2>7, LaeeNotes
  <2> QED BY <2>6, <2>7
<1>2. CASE Laee!EndShell
  <2>1. PICK outcome \in {"success", "error"}, risk \in shell :
          audit' = Append(audit, [tool |-> "shell_exec", risk |-> risk, outcome |-> outcome])
    BY <1>2 DEF Laee!EndShell, Laee!Log
  <2> DEFINE x == [tool |-> "shell_exec", risk |-> risk, outcome |-> outcome]
  <2>2. x \in LaeeLog /\ x.risk <= LaeeLimit
    BY <1>0 DEF LaeeLog, LaeeTools, LaeeApproved
  <2>3. UNCHANGED <<mode, fs, undoStack>> /\ shell' = {} /\ audit' = Append(audit, x)
    BY <1>2, <2>1 DEF Laee!EndShell
  <2> HIDE DEF x
  <2> QED BY <1>0, <2>2, <2>3, LaeeNotes
<1>3. CASE Laee!ShellWrites
  <2>1. fs' \in LaeeFs
    BY <1>0, <1>3 DEF Laee!ShellWrites, LaeeFs, LaeeFiles
  <2> QED BY <1>0, <1>3, <2>1, LaeeQuiet DEF Laee!ShellWrites, LaeeApproved
<1> QED BY <1>1, <1>2, <1>3

LEMMA LaeeStep == ASSUME LaeeInv, [Laee!Next]_(Laee!vars) PROVE LaeeInv'
<1>1. CASE \E a \in LocalRequests : Laee!Deny(a) \/ Laee!RejectUnknown(a) \/ Laee!ExecuteFails(a) \/ Laee!Execute(a)
  BY <1>1, LaeeRefuses, LaeeExecutes
<1>2. CASE UNCHANGED Laee!vars
  BY <1>2, LaeeQuiet DEF Laee!vars, LaeeInv, LaeeTypes, LaeeApproved
<1> QED BY <1>1, <1>2, LaeeUndoes, LaeeShell DEF Laee!Next

LEMMA LaeeAlways == Laee!Spec => []LaeeInv
<1>1. Laee!Init => LaeeInv
  BY LaeeInit
<1>2. LaeeInv /\ [Laee!Next]_(Laee!vars) => LaeeInv'
  BY LaeeStep
<1> QED BY <1>1, <1>2, PTL DEF Laee!Spec

(* Undoing the last action restores the files it changed, as long as nothing *)
(* else touched them: UndoRestores of LocalExecution.                        *)
THEOREM LocalUndoCorrect == Laee!Spec => []Laee!UndoRestores
<1>1. ASSUME LaeeInv, undoStack # <<>> PROVE LaeeEntry(undoStack[Len(undoStack)])
  <2>1. undoStack \in Seq(LaeeEntries) /\ LaeeStack
    BY <1>1 DEF LaeeInv, LaeeTypes
  <2>2. Len(undoStack) # 0
    BY <1>1, <2>1, EmptySeq
  <2>3. Len(undoStack) \in DOMAIN undoStack
    BY <2>1, <2>2
  <2> QED BY <2>1, <2>3 DEF LaeeStack
<1>2. LaeeInv => Laee!UndoRestores
  BY <1>1, LaeeUndoFits DEF Laee!UndoRestores, Laee!Last
<1> QED BY <1>2, LaeeAlways, PTL

(* What can be undone is what was logged as successful, in the same order:   *)
(* StackIsLogged of LocalExecution.                                          *)
THEOREM LocalStackCorrect == Laee!Spec => []Laee!StackIsLogged
<1>1. LaeeInv => Laee!StackIsLogged
  BY DEF LaeeInv, LaeeStack, LaeeLogged, Laee!StackIsLogged
<1> QED BY <1>1, LaeeAlways, PTL

(* Nothing above the threshold of the mode ran without approval:             *)
(* OnlyApprovedRan of LocalExecution.                                        *)
THEOREM LocalApprovalCorrect == Laee!Spec => []Laee!OnlyApprovedRan
<1>1. LaeeInv => Laee!OnlyApprovedRan
  BY DEF LaeeInv, LaeeApproved, LaeeLimit, Laee!OnlyApprovedRan
<1> QED BY <1>1, LaeeAlways, PTL

-----------------------------------------------------------------------------
(* The five side by side: what a step of the whole does to each.             *)
LEMMA OutsideSteps ==
    ASSUME [OutsideNext]_outsideVars
    PROVE  /\ [Laee!Next]_(Laee!vars) /\ [Llm!Next]_(Llm!vars) /\ [Mcp!Next]_(Mcp!vars)
           /\ [Drivers!Next]_(Drivers!vars) /\ [Watch!Next]_(Watch!vars)
<1>1. CASE ActLocally
  BY <1>1 DEF ActLocally, gatewayVars, serverVars, driverVars, watchVars,
              Llm!vars, Mcp!vars, Drivers!vars, Watch!vars
<1>2. CASE AskModels
  BY <1>2 DEF AskModels, localVars, serverVars, driverVars, watchVars,
              Laee!vars, Mcp!vars, Drivers!vars, Watch!vars
<1>3. CASE UseServers
  BY <1>3 DEF UseServers, localVars, gatewayVars, driverVars, watchVars,
              Laee!vars, Llm!vars, Drivers!vars, Watch!vars
<1>4. CASE RunDrivers
  BY <1>4 DEF RunDrivers, localVars, gatewayVars, serverVars, watchVars,
              Laee!vars, Llm!vars, Mcp!vars, Watch!vars
<1>5. CASE LookOn
  BY <1>5 DEF LookOn, localVars, gatewayVars, serverVars, driverVars,
              Laee!vars, Llm!vars, Mcp!vars, Drivers!vars
<1>6. CASE UNCHANGED outsideVars
  BY <1>6 DEF outsideVars, localVars, gatewayVars, serverVars, driverVars, watchVars,
              Laee!vars, Llm!vars, Mcp!vars, Drivers!vars, Watch!vars
<1> QED BY <1>1, <1>2, <1>3, <1>4, <1>5, <1>6 DEF OutsideNext

(* What the services that act outside promise, each its own, holds of their  *)
(* composition: OutsideSafe of OutsideServices.                              *)
THEOREM OutsideCorrect == OutsideSpec => []OutsideSafe
<1>1. OutsideInit => Laee!Init /\ Llm!Init /\ Mcp!Init /\ Drivers!Init /\ Watch!Init
  BY DEF OutsideInit
<1>2. [OutsideNext]_outsideVars =>
        /\ [Laee!Next]_(Laee!vars) /\ [Llm!Next]_(Llm!vars) /\ [Mcp!Next]_(Mcp!vars)
        /\ [Drivers!Next]_(Drivers!vars) /\ [Watch!Next]_(Watch!vars)
  BY OutsideSteps
<1>3. OutsideSpec => Laee!Spec /\ Llm!Spec /\ Mcp!Spec /\ Drivers!Spec /\ Watch!Spec
  BY <1>1, <1>2, PTL DEF OutsideSpec, Laee!Spec, Llm!Spec, Mcp!Spec, Drivers!Spec, Watch!Spec
<1>4. OutsideSpec => []Laee!Safe
  BY <1>3, LocalUndoCorrect, LocalStackCorrect, LocalApprovalCorrect, PTL DEF Laee!Safe
<1>5. OutsideSpec => []Llm!Safe
  BY <1>3, LlmFallbackCorrect, LlmChargeCorrect, PTL DEF Llm!Safe
<1>6. OutsideSpec => []Mcp!Safe
  BY <1>3, McpSessionsCorrect, McpDiscoveryCorrect, PTL DEF Mcp!Safe
<1>7. OutsideSpec => []Drivers!Safe
  BY <1>3, DriversEndCorrect, DriversSuccessCorrect, DriversModelCorrect, PTL DEF Drivers!Safe
<1>8. OutsideSpec => []Watch!Safe
  BY <1>3, WatchMonitorCorrect, WatchLastCorrect, PTL DEF Watch!Safe
<1> QED BY <1>4, <1>5, <1>6, <1>7, <1>8, PTL DEF OutsideSafe
=============================================================================
