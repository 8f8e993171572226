-------------------------- MODULE SharedState_proofs --------------------------
(***************************************************************************)
(* Theorems about what several actors share: the engines, for any number of *)
(* tasks, nodes and permits and any limits (SharedEngines); the file of a   *)
(* chat, for every set of modes, tools and hook directories and any number  *)
(* of events and restarts (ChatLedger); and the conversations of agents,    *)
(* for every set of engines, agents and collectors and any number of        *)
(* messages (A2AConversation).                                              *)
(***************************************************************************)
EXTENDS SharedEngines, ChatLedger, A2AConversation, FiniteSetTheorems, SequenceTheorems,
        WellFoundedInduction, TLAPS

-----------------------------------------------------------------------------
(* The engines. What they promise, they promise to a task that met no other *)
(* and to a call of the inner engine that ran beside no other; met only     *)
(* grows, so that such a task or call has been alone all the time.          *)

Begun == {"classify", "planned", "batch", "bypass", "synced", "leaving"}
Ran == {"batch", "synced", "leaving", "answered"}

(* Where a task stands says where its own call and those of its nodes can.  *)
StageInv ==
    /\ \A t \in Task :
        /\ call[t].at \notin {"queued", "gate"}
        /\ Active(t) <=> stage[t] = "bypass"
        /\ Active(t) => t \in Bypassed
        /\ call[t].at = "over" => stage[t] = "answered"
    /\ \A t \in Task : \A n \in Nodes(t) :
        /\ call[n].at # "none" => stage[t] \in Ran
        /\ call[n].at \notin {"none", "over"} => stage[t] = "batch"
        /\ stage[t] \in {"synced", "leaving"} => call[n].at = "over"
        /\ stage[t] = "answered" => call[t].at = "over" \/ call[n].at = "over"
    /\ \A e \in Called : Active(e) => inner.task \in Called
    /\ \A e \in Called : call[e].at = "running" => call[e].on \in Called

(* A task that met no other has the fractal engine to itself.               *)
AloneInv ==
    /\ fractal.overrides # 0 => \E u \in Task : stage[u] = "set"
    /\ \A t \in Task \ met :
        /\ InProgress(t) => \A u \in Task \ {t} : ~InProgress(u)
        /\ stage[t] = "set" => fractal.overrides = Limit(t)
        /\ stage[t] \in Begun => fractal.task = t /\ fractal.semaphore = t
        /\ stage[t] \notin {"new", "set"} =>
              permits[t] = IF Limit(t) # 0 THEN Limit(t) ELSE DefaultLimit

(* A call that was beside no other has the inner engine to itself.          *)
SoloInv ==
    \A e \in Called \ met :
        /\ Active(e) => inner.task = e
        /\ inner.task = e => \A x \in Called : Active(x) => x = e
        /\ \A x \in Called : call[x].at = "running" /\ call[x].on = e => x = e
        /\ call[e].at = "running" => call[e].on = e
        /\ call[e].at = "batch" => call[e].ready \subseteq {e}
        /\ sub[e] = "running" => call[e].at = "running"
        /\ call[e].at \in {"return", "gate", "over"} => sub[e] # "pending"

(* What a node was given.                                                   *)
GivenInv ==
    /\ \A n \in Node : call[n].at \in {"gate", "over"} => node[n].of = n \/ n \in met
    /\ \A n \in Node : call[n].at = "over" => node[n].status \in {"success", "failed"}

(* Nobody queues at the semaphore of a task that has not begun.             *)
PermitInv ==
    /\ fractal.semaphore # NoTask => stage[fractal.semaphore] \notin {"new", "set"}
    /\ \A n \in Node : call[n].semaphore # NoTask =>
            stage[call[n].semaphore] \notin {"new", "set"}
    /\ \A s \in Task : Cardinality(Holders(s)) <= permits[s]
    /\ \A t \in Task \ met : \A n \in Nodes(t) : call[n].at # "none" => call[n].semaphore = t

(* The rows of a page beside the nodes.                                     *)
RowInv ==
    /\ \A n \in Node : row[n] = "success" => call[n].at = "over" /\ node[n].status = "success"
    /\ \A t \in Task : \A n \in Nodes(t) :
        stage[t] \in {"new", "set", "classify", "bypass"} \/ call[t].at = "over" => row[n] = "none"
    /\ \A t \in Task \ met : \A n \in Nodes(t) :
        stage[t] \in {"synced", "leaving"} \/ (stage[t] = "answered" /\ call[t].at # "over") =>
            row[n] = node[n].status

(* The inner engine is wired by a bypass, for as long as it lasts, unless   *)
(* two bypasses cross.                                                      *)
Crossed == \E t, u \in met \cap Bypassed : t # u

WireInv ==
    ~Crossed =>
        /\ inner.wired => \E t \in Task : Active(t)
        /\ \A t \in Task : Active(t) => ~had[t]
        /\ \A t, u \in Task : Active(t) /\ Active(u) => t = u
        /\ \A t \in Task \ met : inner.task \in Nodes(t) =>
              ~inner.wired /\ \A u \in Task : ~Active(u)
        /\ \A t \in Task \ met : table \cap Nodes(t) = {}

Inv ==
    /\ TypeOK
    /\ StageInv
    /\ AloneInv
    /\ SoloInv
    /\ GivenInv
    /\ PermitInv
    /\ RowInv
    /\ WireInv
-----------------------------------------------------------------------------
(* Ids.                                                                     *)
LEMMA Ids ==
    ASSUME EnginesAssumption
    PROVE  /\ Task \subseteq Called /\ Node \subseteq Called /\ NoTask \notin Called
           /\ \A t \in Task : \A n \in Nodes(t) : n \in Node /\ Owner(n) = t
           /\ \A n \in Node : n \notin Task /\ Owner(n) \in Task /\ n \in Nodes(Owner(n))
           /\ \A t, u \in Task : \A n \in Nodes(t) : n \in Nodes(u) => t = u
           /\ IsFiniteSet(Called)
<1>1. /\ Task \subseteq Called /\ Node \subseteq Called /\ NoTask \notin Called
      /\ \A t, u \in Task : \A n \in Nodes(t) : n \in Nodes(u) => t = u
      /\ IsFiniteSet(Called)
      BY DEF EnginesAssumption, Called
<1>2. ASSUME NEW n \in Node
      PROVE  n \notin Task /\ Owner(n) \in Task /\ n \in Nodes(Owner(n))
  <2>1. \E t \in Task : n \in Nodes(t)
        BY DEF Node
  <2>2. QED
        BY <2>1 DEF EnginesAssumption, Owner
<1>3. ASSUME NEW t \in Task, NEW n \in Nodes(t) PROVE n \in Node /\ Owner(n) = t
  <2>1. n \in Node
        BY DEF Node
  <2>2. QED
        BY <1>1, <1>2, <2>1
<1>4. QED
      BY <1>1, <1>2, <1>3

(* One call goes to another place; the others stay as they are.             *)
Moves(e, at) ==
    /\ \A x \in Called \ {e} : call'[x] = call[x]
    /\ call'[e].at = at
    /\ call'[e].semaphore = call[e].semaphore

LEMMA GotoFacts ==
    ASSUME TypeOK, NEW e \in Called, NEW at \in Places, Goto(e, at)
    PROVE  /\ Moves(e, at)
           /\ call'[e].ready = call[e].ready /\ call'[e].on = call[e].on
           /\ call' \in [Called -> Call]
<1>1. call \in [Called -> Call] /\ call[e] \in Call
      BY DEF TypeOK
<1>2. call' = [call EXCEPT ![e] = [call[e] EXCEPT !.at = at]]
      BY DEF Goto
<1>3. [call[e] EXCEPT !.at = at] \in Call
      BY <1>1 DEF Call
<1>4. call' \in [Called -> Call] /\ call'[e] = [call[e] EXCEPT !.at = at]
      BY <1>1, <1>2, <1>3
<1>5. QED
      BY <1>1, <1>2, <1>4 DEF Moves, Call

-----------------------------------------------------------------------------
(* What only grows.                                                         *)
LEMMA MeetingFacts ==
    ASSUME NEW others, NEW e, met' = Meeting(others, e)
    PROVE  /\ met \subseteq met'
           /\ others # {} => others \subseteq met' /\ e \in met'
           /\ others \subseteq Called /\ e \in Called /\ met \subseteq Called => met' \subseteq Called
BY DEF Meeting

LEMMA CrossedStays == met \subseteq met' /\ Crossed => Crossed'
BY DEF Crossed

(* A step of a task that leaves the calls and the nodes alone.              *)
LEMMA CallsUntouched ==
    ASSUME Inv, UNCHANGED <<inner, call, sub, node>>, met \subseteq met'
    PROVE  SoloInv' /\ GivenInv'
<1>1. SoloInv'
      BY DEF Inv, SoloInv, Active
<1>2. GivenInv'
      BY DEF Inv, GivenInv
<1>3. QED
      BY <1>1, <1>2

LEMMA WireUntouched ==
    ASSUME Inv, UNCHANGED <<inner, had>>, \A t \in Task : Active(t)' <=> Active(t),
           met \subseteq met', \A t \in Task : table' \cap Nodes(t) \subseteq table
    PROVE  WireInv'
<1>1. Crossed => Crossed'
      BY CrossedStays
<1>2. QED
      BY <1>1 DEF Inv, WireInv

LEMMA SetExecutionOverridesStep ==
    ASSUME EnginesAssumption, Inv, NEW t \in Task, SetExecutionOverrides(t)
    PROVE  Inv'
<1> DEFINE others == {u \in Task : InProgress(u)}
<1>1. /\ stage[t] = "new" /\ stage' = [stage EXCEPT ![t] = "set"]
      /\ fractal' = IF Limit(t) # 0 THEN [fractal EXCEPT !.overrides = Limit(t)] ELSE fractal
      /\ met' = Meeting(others, t)
      /\ UNCHANGED <<permits, inner, had, call, sub, node, row, table>>
      BY DEF SetExecutionOverrides
<1>2. met \subseteq met' /\ (others # {} => others \subseteq met' /\ t \in met') /\ met' \subseteq Called
  <2>1. others \subseteq Called /\ t \in Called /\ met \subseteq Called
        BY Ids DEF Inv, TypeOK
  <2> HIDE DEF others
  <2>2. QED
        BY <1>1, <2>1, MeetingFacts
<1>3. /\ stage \in [Task -> Stages] /\ stage' \in [Task -> Stages] /\ stage'[t] = "set"
      /\ \A u \in Task \ {t} : stage'[u] = stage[u]
      BY <1>1 DEF Inv, TypeOK, Stages
<1>4. fractal'.task = fractal.task /\ fractal'.semaphore = fractal.semaphore
      BY <1>1 DEF Inv, TypeOK
<1>5. TypeOK'
      BY <1>1, <1>2, <1>3 DEF Inv, TypeOK, EnginesAssumption
<1>6. StageInv'
      BY <1>1, <1>3 DEF Inv, StageInv, Active, Ran
<1>7. AloneInv'
  <2>1. fractal'.overrides # 0 => \E u \in Task : stage'[u] = "set"
        BY <1>3
  <2>2. ASSUME NEW v \in Task \ met', v # t
        PROVE  v \notin met /\ ~InProgress(v) /\ stage'[v] = stage[v]
        BY <1>2, <1>3, <2>2
  <2>3. ASSUME t \notin met' PROVE others = {} /\ fractal'.overrides = Limit(t)
    <3>1. others = {}
          BY <1>2, <2>3
    <3>2. fractal.overrides = 0
          BY <3>1 DEF Inv, AloneInv, InProgress
    <3>3. QED
          BY <1>1, <3>1, <3>2 DEF Inv, TypeOK
  <2>4. QED
        BY <1>1, <1>2, <1>3, <2>1, <2>2, <2>3 DEF Inv, AloneInv, InProgress, Begun
<1>8. SoloInv' /\ GivenInv'
      BY <1>1, <1>2, CallsUntouched
<1>9. PermitInv'
  <2>1. \A u \in Task : stage[u] \notin {"new", "set"} => stage'[u] \notin {"new", "set"}
        BY <1>1, <1>3
  <2>2. \A s \in Task : Holders(s)' = Holders(s)
        BY <1>1 DEF Holders
  <2>3. QED
        BY <1>1, <1>2, <1>4, <2>1, <2>2 DEF Inv, PermitInv, TypeOK, Call
<1>10. RowInv'
       BY <1>1, <1>2, <1>3 DEF Inv, RowInv
<1>11. WireInv'
       BY <1>1, <1>2, WireUntouched DEF Active
<1>12. QED
       BY <1>5, <1>6, <1>7, <1>8, <1>9, <1>10, <1>11 DEF Inv

(* A step of a task that has begun: what each of them has to see to.        *)
LEMMA TaskKeeps ==
    ASSUME EnginesAssumption, Inv, NEW t \in Task, InProgress(t), stage[t] # "bypass",
           NEW next \in Stages \ {"new", "set", "bypass"}, stage' = [stage EXCEPT ![t] = next],
           UNCHANGED <<inner, had, call, sub, node, met>>,
           fractal' \in [task : Task \cup {NoTask}, overrides : Nat, semaphore : Task \cup {NoTask}],
           fractal'.overrides \in {0, fractal.overrides},
           stage[t] = "set" => fractal'.overrides = 0,
           fractal'.semaphore \in {NoTask, t, fractal.semaphore},
           t \notin met /\ next # "answered" => fractal'.task = t /\ fractal'.semaphore = t,
           permits' \in [Task -> Nat], \A u \in Task \ {t} : permits'[u] = permits[u],
           stage[t] # "set" => permits' = permits,
           t \notin met => permits'[t] = IF Limit(t) # 0 THEN Limit(t) ELSE DefaultLimit,
           \A n \in Nodes(t) : call[n].at \notin {"none", "over"} => next = "batch",
           \A n \in Nodes(t) : call[n].at # "none" => next \in Ran,
           next \in {"synced", "leaving", "answered"} => \A n \in Nodes(t) : call[n].at = "over",
           row' \in [Node -> Statuses \cup {"none"}],
           \A n \in Node \ Nodes(t) : row'[n] = row[n],
           \A n \in Nodes(t) : row'[n] = "success" => call[n].at = "over" /\ node[n].status = "success",
           next = "classify" => \A n \in Nodes(t) : row'[n] = "none",
           t \notin met /\ next \in {"synced", "leaving", "answered"}
                => \A n \in Nodes(t) : row'[n] = node[n].status,
           table' \subseteq table \cup {t}
    PROVE  Inv'
<1>1. /\ stage \in [Task -> Stages] /\ stage' \in [Task -> Stages] /\ stage'[t] = next
      /\ \A u \in Task \ {t} : stage'[u] = stage[u]
      BY DEF Inv, TypeOK
<1>2. call[t].at # "over" /\ ~Active(t) /\ stage[t] \notin {"new", "answered", "bypass"}
      BY DEF Inv, StageInv, InProgress
<1>3. TypeOK'
      BY <1>1, Ids DEF Inv, TypeOK
<1>4. StageInv'
  <2>1. \A u \in Task \ {t} : \A n \in Nodes(u) : n \notin Nodes(t)
        BY Ids
  <2>2. QED
        BY <1>1, <1>2, <2>1 DEF Inv, StageInv, Active, Ran
<1>5. AloneInv'
  <2>1. fractal'.overrides # 0 => \E u \in Task : stage'[u] = "set"
        BY <1>1 DEF Inv, AloneInv
  <2>2. ASSUME NEW u \in Task \ met, u # t PROVE ~InProgress(u) /\ stage'[u] = stage[u]
        BY <1>1, <2>2 DEF Inv, AloneInv
  <2>3. ASSUME t \notin met PROVE \A u \in Task \ {t} : ~InProgress(u) /\ stage'[u] = stage[u]
        BY <1>1, <2>3 DEF Inv, AloneInv
  <2>4. \A u \in Task \ {t} : InProgress(u)' <=> InProgress(u)
        BY <1>1 DEF InProgress
  <2>5. ASSUME NEW v \in Task \ met'
        PROVE  /\ InProgress(v)' => \A u \in Task \ {v} : ~InProgress(u)'
               /\ stage'[v] = "set" => fractal'.overrides = Limit(v)
               /\ stage'[v] \in Begun => fractal'.task = v /\ fractal'.semaphore = v
               /\ stage'[v] \notin {"new", "set"} =>
                     permits'[v] = IF Limit(v) # 0 THEN Limit(v) ELSE DefaultLimit
    <3>1. CASE v = t
          BY <1>1, <2>3, <2>4, <3>1 DEF Begun
    <3>2. CASE v # t
      <4>1. ~InProgress(v) /\ stage'[v] = stage[v] /\ permits'[v] = permits[v] /\ v \in Task \ met
            BY <2>2, <3>2
      <4>2. QED
            BY <2>4, <3>2, <4>1 DEF Inv, AloneInv, InProgress, Begun
    <3>3. QED
          BY <3>1, <3>2
  <2>6. QED
        BY <2>1, <2>5 DEF AloneInv
<1>6. SoloInv' /\ GivenInv'
      BY CallsUntouched
<1>7. PermitInv'
  <2>1. \A u \in Task : stage[u] \notin {"new", "set"} => stage'[u] \notin {"new", "set"}
        BY <1>1
  <2>2. \A s \in Task : Holders(s)' = Holders(s)
        BY DEF Holders
  <2>3. stage[t] = "set" => Holders(t) = {}
        BY Ids DEF Inv, PermitInv, Holders
  <2>4. \A s \in Task : Cardinality(Holders(s)') <= permits'[s]
    <3>1. stage[t] = "set" => Cardinality(Holders(t)) = 0
          BY <2>3, FS_EmptySet
    <3>2. QED
          BY <2>2, <3>1 DEF Inv, PermitInv
  <2>5. fractal'.semaphore # NoTask => stage'[fractal'.semaphore] \notin {"new", "set"}
        BY <1>1, <2>1 DEF Inv, PermitInv, TypeOK
  <2>6. \A n \in Node : call[n].semaphore \in Task \cup {NoTask}
        BY Ids DEF Inv, TypeOK, Call
  <2>7. QED
        BY <2>1, <2>4, <2>5, <2>6 DEF Inv, PermitInv
<1>8. RowInv'
  <2>1. \A u \in Task \ {t} : \A n \in Nodes(u) : n \in Node /\ row'[n] = row[n]
        BY Ids
  <2>2. \A n \in Node : row'[n] = "success" => call[n].at = "over" /\ node[n].status = "success"
        BY DEF Inv, RowInv
  <2>3. QED
        BY <1>1, <1>2, <2>1, <2>2 DEF Inv, RowInv
<1>9. WireInv'
  <2>1. \A u \in Task : t \notin Nodes(u)
        BY Ids
  <2>2. QED
        BY <2>1, WireUntouched DEF Active
<1>10. QED
       BY <1>3, <1>4, <1>5, <1>6, <1>7, <1>8, <1>9 DEF Inv

LEMMA InitInv == ASSUME EnginesAssumption, Init PROVE Inv
<1>1. /\ stage = [t \in Task |-> "new"] /\ fractal = [task |-> NoTask, overrides |-> 0, semaphore |-> NoTask]
      /\ permits = [t \in Task |-> 0] /\ had = [t \in Task |-> FALSE] /\ table = {} /\ met = {}
      /\ inner = [task |-> NoTask, counts |-> [e \in Called |-> 0], wired |-> FALSE]
      /\ call = [e \in Called |-> [at |-> "none", ready |-> {}, on |-> NoTask, semaphore |-> NoTask]]
      /\ sub = [e \in Called |-> "pending"]
      /\ node = [n \in Node |-> [status |-> "pending", of |-> NoTask]]
      /\ row = [n \in Node |-> "none"]
      BY DEF Init
<1>2. \A e \in Called : call[e].at = "none" /\ call[e].semaphore = NoTask /\ ~Active(e)
      BY <1>1 DEF Active
<1>3. TypeOK
      BY <1>1 DEF TypeOK, Stages, Places, Call, Statuses
<1>4. StageInv
      BY <1>1, <1>2, Ids DEF StageInv
<1>5. AloneInv
      BY <1>1 DEF AloneInv, InProgress, Begun
<1>6. SoloInv /\ GivenInv
      BY <1>1, <1>2, Ids DEF SoloInv, GivenInv
<1>7. PermitInv
  <2>1. \A s \in Task : Holders(s) = {} /\ Cardinality(Holders(s)) = 0
        BY <1>2, Ids, FS_EmptySet DEF Holders
  <2>2. QED
        BY <1>1, <1>2, <2>1, Ids DEF PermitInv
<1>8. RowInv
      BY <1>1, Ids DEF RowInv
<1>9. WireInv
      BY <1>1, <1>2, Ids DEF WireInv
<1>10. QED
       BY <1>3, <1>4, <1>5, <1>6, <1>7, <1>8, <1>9 DEF Inv

LEMMA BeginStep ==
    ASSUME EnginesAssumption, Inv, NEW t \in Task, BeginTask(t)
    PROVE  Inv'
<1> DEFINE permit == IF fractal.overrides # 0 THEN fractal.overrides ELSE DefaultLimit
<1>1. /\ stage[t] = "set" /\ stage' = [stage EXCEPT ![t] = "classify"]
      /\ permits' = [permits EXCEPT ![t] = permit]
      /\ fractal' = [task |-> t, overrides |-> 0, semaphore |-> t]
      /\ UNCHANGED <<inner, had, call, sub, node, row, table, met>>
      BY DEF BeginTask
<1>2. permit \in Nat
      BY DEF Inv, TypeOK, EnginesAssumption
<1>3. t \notin met => permit = IF Limit(t) # 0 THEN Limit(t) ELSE DefaultLimit
      BY <1>1 DEF Inv, AloneInv
<1> HIDE DEF permit
<1>4. permits' \in [Task -> Nat] /\ permits'[t] = permit /\ \A u \in Task \ {t} : permits'[u] = permits[u]
      BY <1>1, <1>2 DEF Inv, TypeOK
<1>5. \A n \in Nodes(t) : call[n].at = "none" /\ row[n] = "none"
      BY <1>1 DEF Inv, StageInv, RowInv, Ran
<1>6. row \in [Node -> Statuses \cup {"none"}]
      BY DEF Inv, TypeOK
<1>7. InProgress(t)
      BY <1>1 DEF InProgress
<1>8. fractal'.overrides = 0 /\ fractal'.task = t /\ fractal'.semaphore = t
      BY <1>1
<1>9. fractal' \in [task : Task \cup {NoTask}, overrides : Nat, semaphore : Task \cup {NoTask}]
      BY <1>1
<1>10. "classify" \in Stages \ {"new", "set", "bypass"}
       BY DEF Stages
<1>11. QED
       BY <1>1, <1>3, <1>4, <1>5, <1>6, <1>7, <1>8, <1>9, <1>10, TaskKeeps

(* What the steps below have in common: permits and fields stay.            *)
LEMMA FractalStays ==
    ASSUME EnginesAssumption, Inv, NEW t \in Task, stage[t] \in Begun,
           UNCHANGED <<fractal, permits>>
    PROVE  /\ InProgress(t) /\ stage[t] # "set"
           /\ fractal' \in [task : Task \cup {NoTask}, overrides : Nat, semaphore : Task \cup {NoTask}]
           /\ t \notin met => fractal'.task = t /\ fractal'.semaphore = t
           /\ permits' \in [Task -> Nat]
           /\ t \notin met => permits'[t] = IF Limit(t) # 0 THEN Limit(t) ELSE DefaultLimit
           /\ row \in [Node -> Statuses \cup {"none"}]
           /\ node \in [Node -> [status : Statuses, of : Called \cup {NoTask}]]
           /\ \A n \in Node : row[n] = "success" => call[n].at = "over" /\ node[n].status = "success"
<1>1. InProgress(t) /\ stage[t] \notin {"new", "set"}
      BY DEF InProgress, Begun
<1>2. QED
      BY <1>1 DEF Inv, TypeOK, AloneInv, RowInv

LEMMA ApproveStep ==
    ASSUME EnginesAssumption, Inv, NEW t \in Task, Approve(t)
    PROVE  Inv'
<1>1. /\ stage[t] = "classify" /\ stage' = [stage EXCEPT ![t] = "planned"]
      /\ row' = [n \in Node |-> IF n \in Nodes(t) THEN "pending" ELSE row[n]]
      /\ UNCHANGED <<fractal, permits, inner, had, call, sub, node, table, met>>
      BY DEF Approve
<1>2. stage[t] \in Begun /\ "planned" \in Stages \ {"new", "set", "bypass"}
      BY <1>1 DEF Begun, Stages
<1>3. \A n \in Nodes(t) : call[n].at = "none"
      BY <1>1 DEF Inv, StageInv, Ran
<1>4. /\ row' \in [Node -> Statuses \cup {"none"}]
      /\ \A n \in Node \ Nodes(t) : row'[n] = row[n]
      /\ \A n \in Nodes(t) : row'[n] = "pending"
      BY <1>1, <1>2, Ids, FractalStays DEF Statuses
<1>5. QED
      BY <1>1, <1>2, <1>3, <1>4, FractalStays, TaskKeeps

LEMMA StartBatchStep ==
    ASSUME EnginesAssumption, Inv, NEW t \in Task, StartBatch(t)
    PROVE  Inv'
<1>1. /\ stage[t] = "planned" /\ stage' = [stage EXCEPT ![t] = "batch"]
      /\ row' = [n \in Node |-> IF n \in Nodes(t) /\ fractal.task = t THEN "running" ELSE row[n]]
      /\ UNCHANGED <<fractal, permits, inner, had, call, sub, node, table, met>>
      BY DEF StartBatch
<1>2. stage[t] \in Begun /\ "batch" \in Stages \ {"new", "set", "bypass"} /\ "batch" \in Ran
      BY <1>1 DEF Begun, Stages, Ran
<1>3. \A n \in Nodes(t) : call[n].at = "none"
      BY <1>1 DEF Inv, StageInv, Ran
<1>4. /\ row' \in [Node -> Statuses \cup {"none"}]
      /\ \A n \in Node \ Nodes(t) : row'[n] = row[n]
      /\ \A n \in Nodes(t) : row'[n] \in {"running", row[n]}
      BY <1>1, <1>2, Ids, FractalStays DEF Statuses
<1>5. \A n \in Nodes(t) : n \in Node
      BY Ids
<1>6. QED
      BY <1>1, <1>2, <1>3, <1>4, <1>5, FractalStays, TaskKeeps

(* The rows of a task are synchronised once its nodes are over.             *)
LEMMA SynchronisedFacts ==
    ASSUME EnginesAssumption, Inv, NEW t \in Task, stage[t] \in Begun,
           \A n \in Nodes(t) : call[n].at = "over"
    PROVE  /\ Synchronised(t) \in [Node -> Statuses \cup {"none"}]
           /\ \A n \in Node \ Nodes(t) : Synchronised(t)[n] = row[n]
           /\ \A n \in Nodes(t) :
                /\ Synchronised(t)[n] = "success" => node[n].status = "success"
                /\ t \notin met => Synchronised(t)[n] = node[n].status
<1>1. /\ row \in [Node -> Statuses \cup {"none"}]
      /\ node \in [Node -> [status : Statuses, of : Called \cup {NoTask}]]
      /\ \A n \in Nodes(t) : n \in Node
      /\ \A n \in Node : row[n] = "success" => node[n].status = "success"
      /\ t \notin met => fractal.task = t
      BY Ids DEF Inv, TypeOK, RowInv, AloneInv
<1>2. \A n \in Node : node[n].status \in Statuses
      BY <1>1
<1>3. QED
      BY <1>1, <1>2 DEF Synchronised

LEMMA BatchOverStep ==
    ASSUME EnginesAssumption, Inv, NEW t \in Task, BatchOver(t)
    PROVE  Inv'
<1>1. /\ stage[t] = "batch" /\ stage' = [stage EXCEPT ![t] = "synced"]
      /\ row' = Synchronised(t) /\ \A n \in Nodes(t) : call[n].at = "over"
      /\ UNCHANGED <<fractal, permits, inner, had, call, sub, node, table, met>>
      BY DEF BatchOver
<1>2. stage[t] \in Begun /\ "synced" \in Stages \ {"new", "set", "bypass"} /\ "synced" \in Ran
      BY <1>1 DEF Begun, Stages, Ran
<1>3. /\ row' \in [Node -> Statuses \cup {"none"}]
      /\ \A n \in Node \ Nodes(t) : row'[n] = row[n]
      /\ \A n \in Nodes(t) : /\ row'[n] = "success" => node[n].status = "success"
                             /\ t \notin met => row'[n] = node[n].status
      BY <1>1, <1>2, SynchronisedFacts
<1>4. QED
      BY <1>1, <1>2, <1>3, FractalStays, TaskKeeps

LEMMA SweepStep ==
    ASSUME EnginesAssumption, Inv, NEW t \in Task, Sweep(t)
    PROVE  Inv'
<1>1. /\ stage[t] = "synced" /\ stage' = [stage EXCEPT ![t] = "leaving"]
      /\ row' = [n \in Node |-> IF n \in Nodes(t) /\ Synchronised(t)[n] \in {"pending", "running"}
                                THEN "failed" ELSE Synchronised(t)[n]]
      /\ UNCHANGED <<fractal, permits, inner, had, call, sub, node, table, met>>
      BY DEF Sweep
<1>2. stage[t] \in Begun /\ "leaving" \in Stages \ {"new", "set", "bypass"} /\ "leaving" \in Ran
      BY <1>1 DEF Begun, Stages, Ran
<1>3. \A n \in Nodes(t) : call[n].at = "over" /\ n \in Node
      BY <1>1, Ids DEF Inv, StageInv
<1>4. \A n \in Nodes(t) : node[n].status \in {"success", "failed"}
      BY <1>3 DEF Inv, GivenInv
<1>5. /\ row' \in [Node -> Statuses \cup {"none"}]
      /\ \A n \in Node \ Nodes(t) : row'[n] = row[n]
      /\ \A n \in Nodes(t) : /\ row'[n] = "success" => node[n].status = "success"
                             /\ t \notin met => row'[n] = node[n].status
      BY <1>1, <1>2, <1>3, <1>4, SynchronisedFacts DEF Statuses
<1>6. /\ stage[t] = "synced" /\ stage' = [stage EXCEPT ![t] = "leaving"]
      /\ UNCHANGED <<fractal, permits, inner, had, call, sub, node, table, met>>
      BY <1>1
<1>7. QED
      BY <1>2, <1>3, <1>5, <1>6, FractalStays, TaskKeeps

LEMMA LeaveStep ==
    ASSUME EnginesAssumption, Inv, NEW t \in Task, LeaveTask(t)
    PROVE  Inv'
<1>1. /\ stage[t] = "leaving" /\ stage' = [stage EXCEPT ![t] = "answered"]
      /\ fractal' = [fractal EXCEPT !.task = NoTask, !.semaphore = NoTask]
      /\ table' = table \cup {t}
      /\ UNCHANGED <<permits, inner, had, call, sub, node, row, met>>
      BY DEF LeaveTask
<1>2. /\ "answered" \in Stages \ {"new", "set", "bypass"} /\ "answered" \in Ran /\ InProgress(t)
      BY <1>1 DEF Stages, Ran, InProgress
<1>3. \A n \in Nodes(t) : call[n].at = "over" /\ n \in Node
      BY <1>1, Ids DEF Inv, StageInv
<1>4. /\ fractal' \in [task : Task \cup {NoTask}, overrides : Nat, semaphore : Task \cup {NoTask}]
      /\ fractal'.overrides = fractal.overrides /\ fractal'.semaphore = NoTask
      BY <1>1 DEF Inv, TypeOK
<1>5. /\ permits \in [Task -> Nat] /\ row \in [Node -> Statuses \cup {"none"}]
      /\ t \notin met => permits[t] = IF Limit(t) # 0 THEN Limit(t) ELSE DefaultLimit
      /\ t \notin met => \A n \in Nodes(t) : row[n] = node[n].status
      /\ \A n \in Node : row[n] = "success" => call[n].at = "over" /\ node[n].status = "success"
      BY <1>1 DEF Inv, TypeOK, AloneInv, RowInv
<1>6. QED
      BY <1>1, <1>2, <1>3, <1>4, <1>5, TaskKeeps

(* A step of a call inside the inner engine, from one of its places to      *)
(* another: all but SoloInv is kept whatever the step does to subtasks.     *)
LEMMA InnerKeeps ==
    ASSUME EnginesAssumption, Inv, NEW e \in Called, NEW at \in Places, Active(e), Moves(e, at),
           at \in {"select", "batch", "running", "route", "return"},
           call' \in [Called -> Call], at = "running" => call'[e].on \in Called,
           UNCHANGED <<stage, fractal, permits, had, node, row, met>>,
           inner' \in [task : Called \cup {NoTask}, counts : [Called -> Nat], wired : BOOLEAN],
           inner'.task = inner.task, inner'.wired = inner.wired,
           sub' \in [Called -> Statuses], table' \in {table, Persisted}, SoloInv'
    PROVE  Inv'
<1>1. /\ \A x \in Called : Active(x)' <=> Active(x)
      /\ \A x \in Called : call'[x].semaphore = call[x].semaphore
      /\ \A x \in Called : \A place \in {"none", "queued", "gate", "over"} :
            call'[x].at = place <=> call[x].at = place
      BY DEF Moves, Active
<1>2. /\ Task \subseteq Called /\ Node \subseteq Called
      /\ \A t \in Task : \A n \in Nodes(t) : n \in Node
      BY Ids
<1>3. TypeOK'
  <2>1. table' \subseteq Called
        BY DEF Inv, TypeOK, Persisted, StageInv
  <2>2. QED
        BY <2>1 DEF Inv, TypeOK
<1>4. StageInv'
  <2>1. \A x \in Called : call'[x].at = "running" => call'[x].on \in Called
        BY DEF Inv, StageInv, Moves
  <2>2. \A x \in Called : Active(x)' => inner'.task \in Called
        BY <1>1 DEF Inv, StageInv
  <2>3. \A t \in Task :
            /\ call'[t].at \notin {"queued", "gate"}
            /\ Active(t)' <=> stage'[t] = "bypass"
            /\ Active(t)' => t \in Bypassed
            /\ call'[t].at = "over" => stage'[t] = "answered"
        BY <1>1, <1>2 DEF Inv, StageInv
  <2>4. \A t \in Task : \A n \in Nodes(t) :
            /\ call'[n].at # "none" => stage'[t] \in Ran
            /\ call'[n].at \notin {"none", "over"} => stage'[t] = "batch"
            /\ stage'[t] \in {"synced", "leaving"} => call'[n].at = "over"
            /\ stage'[t] = "answered" => call'[t].at = "over" \/ call'[n].at = "over"
        BY <1>1, <1>2 DEF Inv, StageInv
  <2>5. QED
        BY <2>1, <2>2, <2>3, <2>4 DEF StageInv
<1>5. AloneInv'
      BY DEF Inv, AloneInv, InProgress
<1>6. GivenInv'
      BY <1>1, <1>2 DEF Inv, GivenInv
<1>7. PermitInv'
  <2>1. \A s \in Task : Holders(s)' = Holders(s)
        BY <1>1, <1>2 DEF Holders
  <2>2. QED
        BY <1>1, <1>2, <2>1 DEF Inv, PermitInv
<1>8. RowInv'
      BY <1>1, <1>2 DEF Inv, RowInv
<1>9. WireInv'
  <2>1. Crossed' <=> Crossed
        BY DEF Crossed
  <2>2. ~Crossed => \A t \in Task \ met : table' \cap Nodes(t) = {}
        BY DEF Inv, WireInv, Persisted
  <2>3. QED
        BY <1>1, <1>2, <2>1, <2>2 DEF Inv, WireInv
<1>10. QED
       BY <1>3, <1>4, <1>5, <1>6, <1>7, <1>8, <1>9 DEF Inv

LEMMA SoloKeeps ==
    ASSUME Inv, NEW e \in Called, NEW at, Active(e), Moves(e, at),
           at \in {"select", "batch", "running", "route", "return"},
           UNCHANGED met, inner'.task = inner.task,
           \A f \in Called \ met :
               /\ at = "running" /\ call'[e].on = f => f = e
               /\ f = e /\ at = "running" => call'[e].on = e
               /\ f = e /\ at = "batch" => call'[e].ready \subseteq {e}
               /\ sub'[f] = "running" => call'[f].at = "running"
               /\ call'[f].at \in {"return", "gate", "over"} => sub'[f] # "pending"
    PROVE  SoloInv'
<1>1. \A x \in Called : Active(x)' <=> Active(x)
      BY DEF Moves, Active
<1>2. ASSUME NEW f \in Called \ met'
      PROVE  /\ Active(f)' => inner'.task = f
             /\ inner'.task = f => \A x \in Called : Active(x)' => x = f
             /\ \A x \in Called : call'[x].at = "running" /\ call'[x].on = f => x = f
             /\ call'[f].at = "running" => call'[f].on = f
             /\ call'[f].at = "batch" => call'[f].ready \subseteq {f}
             /\ sub'[f] = "running" => call'[f].at = "running"
             /\ call'[f].at \in {"return", "gate", "over"} => sub'[f] # "pending"
  <2>1. f \in Called \ met
        BY <1>2
  <2>2. /\ Active(f)' => inner'.task = f
        /\ inner'.task = f => \A x \in Called : Active(x)' => x = f
        BY <1>1, <2>1 DEF Inv, SoloInv
  <2>3. \A x \in Called : call'[x].at = "running" /\ call'[x].on = f => x = f
        BY <2>1 DEF Inv, SoloInv, Moves
  <2>4. /\ call'[f].at = "running" => call'[f].on = f
        /\ call'[f].at = "batch" => call'[f].ready \subseteq {f}
    <3>1. CASE f = e
          BY <2>1, <3>1 DEF Moves
    <3>2. CASE f # e
          BY <2>1, <3>2 DEF Inv, SoloInv, Moves
    <3>3. QED
          BY <3>1, <3>2
  <2>5. QED
        BY <2>1, <2>2, <2>3, <2>4
<1>3. QED
      BY <1>2 DEF SoloInv

LEMMA SelectReadyStep ==
    ASSUME EnginesAssumption, Inv, NEW e \in Called, SelectReady(e)
    PROVE  Inv'
<1> DEFINE ready == {x \in {inner.task} : sub[x] = "pending"}
<1>1. /\ call[e].at = "select"
      /\ call' = [call EXCEPT ![e].at = "batch", ![e].ready = ready]
      /\ UNCHANGED <<stage, fractal, permits, inner, had, sub, node, row, table, met>>
      BY DEF SelectReady
<1>2. Active(e) /\ inner.task \in Called
      BY <1>1 DEF Active, Inv, StageInv
<1>3. ready \in SUBSET (Called \cup {NoTask}) /\ ready \subseteq {inner.task}
      BY <1>2
<1> HIDE DEF ready
<1>4. call \in [Called -> Call] /\ call[e] \in Call
      BY DEF Inv, TypeOK
<1>5. call' = [call EXCEPT ![e] = [call[e] EXCEPT !.at = "batch", !.ready = ready]]
      BY <1>1
<1>6. [call[e] EXCEPT !.at = "batch", !.ready = ready] \in Call
      BY <1>3, <1>4 DEF Call, Places
<1>7. call' \in [Called -> Call] /\ call'[e] = [call[e] EXCEPT !.at = "batch", !.ready = ready]
      BY <1>4, <1>5, <1>6
<1>8. Moves(e, "batch") /\ call'[e].ready = ready
      BY <1>4, <1>5, <1>7 DEF Moves, Call
<1>9. ASSUME NEW f \in Called \ met
      PROVE  /\ f = e => call'[e].ready \subseteq {e}
             /\ sub'[f] = "running" => call'[f].at = "running"
             /\ call'[f].at \in {"return", "gate", "over"} => sub'[f] # "pending"
  <2>1. f = e => inner.task = e
        BY <1>2 DEF Inv, SoloInv
  <2>2. f = e => sub[f] # "running"
        BY <1>1 DEF Inv, SoloInv
  <2>3. f # e => call'[f] = call[f]
        BY <1>8 DEF Moves
  <2>4. CASE f = e
        BY <1>1, <1>3, <1>8, <2>1, <2>2, <2>4 DEF Moves
  <2>5. CASE f # e
        BY <1>1, <2>3, <2>5 DEF Inv, SoloInv
  <2>6. QED
        BY <2>4, <2>5
<1>10. SoloInv'
       BY <1>1, <1>2, <1>8, <1>9, SoloKeeps
<1>11. inner \in [task : Called \cup {NoTask}, counts : [Called -> Nat], wired : BOOLEAN] /\ sub \in [Called -> Statuses]
       BY DEF Inv, TypeOK
<1>12. QED
       BY <1>1, <1>2, <1>7, <1>8, <1>10, <1>11, InnerKeeps DEF Places

LEMMA ExecuteBatchStep ==
    ASSUME EnginesAssumption, Inv, NEW e \in Called, ExecuteBatch(e)
    PROVE  Inv'
<1>1. /\ call[e].at = "batch"
      /\ call' = [call EXCEPT ![e].at = "running", ![e].on = inner.task]
      /\ sub' = [sub EXCEPT ![inner.task] = "running"] /\ table' = Persisted
      /\ UNCHANGED <<stage, fractal, permits, inner, had, node, row, met>>
      BY DEF ExecuteBatch
<1>2. Active(e) /\ inner.task \in Called
      BY <1>1 DEF Active, Inv, StageInv
<1>3. call \in [Called -> Call] /\ call[e] \in Call
      BY DEF Inv, TypeOK
<1>4. call' = [call EXCEPT ![e] = [call[e] EXCEPT !.at = "running", !.on = inner.task]]
      BY <1>1
<1>5. [call[e] EXCEPT !.at = "running", !.on = inner.task] \in Call
      BY <1>2, <1>3 DEF Call, Places
<1>6. call' \in [Called -> Call] /\ call'[e] = [call[e] EXCEPT !.at = "running", !.on = inner.task]
      BY <1>3, <1>4, <1>5
<1>7. Moves(e, "running") /\ call'[e].on = inner.task
      BY <1>3, <1>4, <1>6 DEF Moves, Call
<1>8. inner \in [task : Called \cup {NoTask}, counts : [Called -> Nat], wired : BOOLEAN] /\ sub \in [Called -> Statuses]
      BY DEF Inv, TypeOK
<1>9. sub' \in [Called -> Statuses] /\ sub'[inner.task] = "running"
      /\ \A x \in Called \ {inner.task} : sub'[x] = sub[x]
      BY <1>1, <1>2, <1>8 DEF Statuses
<1>10. ASSUME NEW f \in Called \ met
       PROVE  /\ call'[e].on = f => f = e
              /\ f = e => call'[e].on = e
              /\ sub'[f] = "running" => call'[f].at = "running"
              /\ call'[f].at \in {"return", "gate", "over"} => sub'[f] # "pending"
  <2>1. inner.task = f <=> e = f
        BY <1>2 DEF Inv, SoloInv
  <2>2. CASE f = e
        BY <1>7, <2>1, <2>2 DEF Moves
  <2>3. CASE f # e
    <3>1. call'[f] = call[f] /\ sub'[f] = sub[f]
          BY <1>7, <1>9, <2>1, <2>3 DEF Moves
    <3>2. QED
          BY <1>7, <2>1, <2>3, <3>1 DEF Inv, SoloInv
  <2>4. QED
        BY <2>2, <2>3
<1>11. SoloInv'
       BY <1>1, <1>2, <1>7, <1>10, SoloKeeps
<1>12. QED
       BY <1>1, <1>2, <1>6, <1>7, <1>8, <1>9, <1>11, InnerKeeps DEF Places

LEMMA ExecuteNothingStep ==
    ASSUME EnginesAssumption, Inv, NEW e \in Called, ExecuteNothing(e)
    PROVE  Inv'
<1>1. /\ call[e].at = "batch" /\ Goto(e, "route")
      /\ UNCHANGED <<stage, fractal, permits, inner, had, sub, node, row, table, met>>
      BY DEF ExecuteNothing
<1>2. Active(e) /\ "route" \in Places /\ TypeOK
      BY <1>1 DEF Active, Places, Inv
<1>3. Moves(e, "route") /\ call' \in [Called -> Call]
      BY <1>1, <1>2, GotoFacts
<1>4. ASSUME NEW f \in Called \ met
      PROVE  /\ sub'[f] = "running" => call'[f].at = "running"
             /\ call'[f].at \in {"return", "gate", "over"} => sub'[f] # "pending"
  <2>1. CASE f = e
        BY <1>1, <1>3, <2>1 DEF Inv, SoloInv, Moves
  <2>2. CASE f # e
        BY <1>1, <1>3, <2>2 DEF Inv, SoloInv, Moves
  <2>3. QED
        BY <2>1, <2>2
<1>5. SoloInv'
      BY <1>1, <1>2, <1>3, <1>4, SoloKeeps
<1>6. inner \in [task : Called \cup {NoTask}, counts : [Called -> Nat], wired : BOOLEAN] /\ sub \in [Called -> Statuses]
      BY DEF Inv, TypeOK
<1>7. QED
      BY <1>1, <1>2, <1>3, <1>5, <1>6, InnerKeeps

(* A subtask that was running has an end: its call leaves it to the router. *)
LEMMA Ends ==
    ASSUME EnginesAssumption, Inv, NEW e \in Called, call[e].at = "running", Goto(e, "route"),
           NEW outcome \in Statuses \ {"running"}, sub' = [sub EXCEPT ![call[e].on] = outcome],
           UNCHANGED <<stage, fractal, permits, had, node, row, met>>,
           inner' \in [task : Called \cup {NoTask}, counts : [Called -> Nat], wired : BOOLEAN],
           inner'.task = inner.task, inner'.wired = inner.wired, table' = Persisted
    PROVE  Inv'
<1>1. Active(e) /\ "route" \in Places /\ TypeOK /\ call[e].on \in Called
      BY DEF Active, Places, Inv, StageInv
<1>2. Moves(e, "route") /\ call' \in [Called -> Call]
      BY <1>1, GotoFacts
<1>3. /\ sub' \in [Called -> Statuses] /\ sub'[call[e].on] = outcome
      /\ \A x \in Called \ {call[e].on} : sub'[x] = sub[x]
      BY <1>1 DEF TypeOK
<1>4. ASSUME NEW f \in Called \ met
      PROVE  /\ sub'[f] = "running" => call'[f].at = "running"
             /\ call'[f].at \in {"return", "gate", "over"} => sub'[f] # "pending"
  <2>1. call[e].on = f <=> e = f
        BY DEF Inv, SoloInv
  <2>2. CASE f = e
        BY <1>2, <1>3, <2>1, <2>2 DEF Moves
  <2>3. CASE f # e
    <3>1. call'[f] = call[f] /\ sub'[f] = sub[f]
          BY <1>2, <1>3, <2>1, <2>3 DEF Moves
    <3>2. QED
          BY <3>1 DEF Inv, SoloInv
  <2>4. QED
        BY <2>2, <2>3
<1>5. SoloInv'
      BY <1>1, <1>2, <1>4, SoloKeeps
<1>6. QED
      BY <1>1, <1>2, <1>3, <1>5, InnerKeeps

LEMMA AnsweredStep ==
    ASSUME EnginesAssumption, Inv, NEW e \in Called, Answered(e)
    PROVE  Inv'
<1>1. inner \in [task : Called \cup {NoTask}, counts : [Called -> Nat], wired : BOOLEAN]
      BY DEF Inv, TypeOK
<1>2. QED
      BY <1>1, Ends DEF Answered, Statuses

LEMMA RaisedStep ==
    ASSUME EnginesAssumption, Inv, NEW e \in Called, Raised(e)
    PROVE  Inv'
<1> DEFINE count == inner.counts[call[e].on] + 1
           outcome == IF count < MaxRetries THEN "pending" ELSE "failed"
<1>1. /\ call[e].at = "running" /\ Goto(e, "route")
      /\ inner' = [inner EXCEPT !.counts[call[e].on] = count]
      /\ sub' = [sub EXCEPT ![call[e].on] = outcome] /\ table' = Persisted
      /\ UNCHANGED <<stage, fractal, permits, had, node, row, met>>
      BY DEF Raised
<1>2. /\ inner \in [task : Called \cup {NoTask}, counts : [Called -> Nat], wired : BOOLEAN]
      /\ call[e].on \in Called
      BY <1>1 DEF Inv, TypeOK, StageInv
<1>3. count \in Nat
      BY <1>2
<1>4. outcome \in Statuses \ {"running"}
      BY DEF Statuses
<1> HIDE DEF count, outcome
<1>5. inner' = [inner EXCEPT !.counts = [inner.counts EXCEPT ![call[e].on] = count]]
      BY <1>1, <1>2
<1>6. [inner.counts EXCEPT ![call[e].on] = count] \in [Called -> Nat]
      BY <1>2, <1>3
<1>7. /\ inner' \in [task : Called \cup {NoTask}, counts : [Called -> Nat], wired : BOOLEAN]
      /\ inner'.task = inner.task /\ inner'.wired = inner.wired
      BY <1>2, <1>5, <1>6
<1>8. QED
      BY <1>1, <1>4, <1>7, Ends

LEMMA RouteAfterExecutionStep ==
    ASSUME EnginesAssumption, Inv, NEW e \in Called, RouteAfterExecution(e)
    PROVE  Inv'
<1> DEFINE at == IF sub[inner.task] = "pending" THEN "select" ELSE "return"
<1>1. /\ call[e].at = "route" /\ Goto(e, at)
      /\ UNCHANGED <<stage, fractal, permits, inner, had, sub, node, row, table, met>>
      BY DEF RouteAfterExecution
<1>2. /\ Active(e) /\ at \in Places /\ TypeOK
      /\ at \in {"select", "return"} /\ (at = "return" => sub[inner.task] # "pending")
      BY <1>1 DEF Active, Places, Inv
<1> HIDE DEF at
<1>3. Moves(e, at) /\ call' \in [Called -> Call]
      BY <1>1, <1>2, GotoFacts
<1>4. ASSUME NEW f \in Called \ met
      PROVE  /\ sub'[f] = "running" => call'[f].at = "running"
             /\ call'[f].at \in {"return", "gate", "over"} => sub'[f] # "pending"
  <2>1. CASE f = e
    <3>1. inner.task = e /\ sub[e] # "running"
          BY <1>1, <1>2, <2>1 DEF Inv, SoloInv
    <3>2. QED
          BY <1>1, <1>2, <1>3, <2>1, <3>1 DEF Moves
  <2>2. CASE f # e
        BY <1>1, <1>3, <2>2 DEF Inv, SoloInv, Moves
  <2>3. QED
        BY <2>1, <2>2
<1>5. SoloInv'
      BY <1>1, <1>2, <1>3, <1>4, SoloKeeps
<1>6. inner \in [task : Called \cup {NoTask}, counts : [Called -> Nat], wired : BOOLEAN] /\ sub \in [Called -> Statuses]
      BY DEF Inv, TypeOK
<1>7. QED
      BY <1>1, <1>2, <1>3, <1>5, <1>6, InnerKeeps

(* A step of a node that queues it or takes an answer to it: what each of   *)
(* them has to see to.                                                      *)
LEMMA HoldersFinite ==
    ASSUME EnginesAssumption, NEW s
    PROVE  /\ IsFiniteSet(Holders(s)) /\ Cardinality(Holders(s)) \in Nat
           /\ \A T \in SUBSET Holders(s) : IsFiniteSet(T) /\ Cardinality(T) <= Cardinality(Holders(s))
<1>1. Holders(s) \subseteq Called /\ IsFiniteSet(Called)
      BY Ids DEF Holders
<1>2. QED
      BY <1>1, FS_Subset, FS_CardinalityType

LEMMA NodeKeeps ==
    ASSUME EnginesAssumption, Inv, NEW n \in Node, stage[Owner(n)] = "batch",
           call[n].at # "over",
           call' \in [Called -> Call], \A x \in Called \ {n} : call'[x] = call[x],
           node' \in [Node -> [status : Statuses, of : Called \cup {NoTask}]],
           \A x \in Node \ {n} : node'[x] = node[x],
           UNCHANGED <<stage, fractal, permits, inner, had, sub, row, table, met>>,
           call'[n].at \in {"queued", "gate", "over"},
           call'[n].at # "queued" =>
               /\ call[n].at \notin {"none", "queued"} /\ call'[n].semaphore = call[n].semaphore
               /\ node'[n].of = n \/ n \in met
               /\ n \notin met => sub[n] # "pending",
           call'[n].at = "over" => node'[n].status \in {"success", "failed"},
           call'[n].at = "queued" => call'[n].semaphore = fractal.semaphore,
           n \notin met => sub[n] # "running"
    PROVE  Inv'
<1> DEFINE t == Owner(n)
<1>1. /\ t \in Task /\ n \in Nodes(t) /\ n \notin Task /\ n \in Called /\ stage[t] = "batch"
      /\ Task \subseteq Called /\ Node \subseteq Called
      /\ \A u \in Task \ {t} : n \notin Nodes(u)
      /\ \A u \in Task : \A m \in Nodes(u) : m \in Node
      BY Ids
<1> HIDE DEF t
<1>2. /\ ~Active(n)' /\ \A x \in Called : Active(x)' => Active(x)
      /\ \A u \in Task : call'[u] = call[u] /\ (Active(u)' <=> Active(u))
      BY <1>1 DEF Active
<1>3. TypeOK'
      BY DEF Inv, TypeOK
<1>4. StageInv'
  <2>1. \A u \in Task :
            /\ call'[u].at \notin {"queued", "gate"}
            /\ Active(u)' <=> stage'[u] = "bypass"
            /\ Active(u)' => u \in Bypassed
            /\ call'[u].at = "over" => stage'[u] = "answered"
        BY <1>1, <1>2 DEF Inv, StageInv
  <2>2. ASSUME NEW u \in Task, NEW m \in Nodes(u)
        PROVE  /\ call'[m].at # "none" => stage'[u] \in Ran
               /\ call'[m].at \notin {"none", "over"} => stage'[u] = "batch"
               /\ stage'[u] \in {"synced", "leaving"} => call'[m].at = "over"
               /\ stage'[u] = "answered" => call'[u].at = "over" \/ call'[m].at = "over"
    <3>1. CASE m = n
      <4>1. u = t /\ stage'[u] = "batch" /\ "batch" \in Ran
            BY <1>1, <3>1 DEF Ran
      <4>2. QED
            BY <4>1
    <3>2. CASE m # n
          BY <1>1, <1>2, <3>2 DEF Inv, StageInv
    <3>3. QED
          BY <3>1, <3>2
  <2>3. \A x \in Called : Active(x)' => inner'.task \in Called
        BY <1>2 DEF Inv, StageInv
  <2>4. \A x \in Called : call'[x].at = "running" => call'[x].on \in Called
        BY <1>1 DEF Inv, StageInv
  <2>5. QED
        BY <2>1, <2>2, <2>3, <2>4 DEF StageInv
<1>5. AloneInv'
      BY DEF Inv, AloneInv, InProgress
<1>6. SoloInv'
  <2>1. ASSUME NEW f \in Called \ met'
        PROVE  /\ Active(f)' => inner'.task = f
               /\ inner'.task = f => \A x \in Called : Active(x)' => x = f
               /\ \A x \in Called : call'[x].at = "running" /\ call'[x].on = f => x = f
               /\ call'[f].at = "running" => call'[f].on = f
               /\ call'[f].at = "batch" => call'[f].ready \subseteq {f}
               /\ sub'[f] = "running" => call'[f].at = "running"
               /\ call'[f].at \in {"return", "gate", "over"} => sub'[f] # "pending"
    <3>1. /\ Active(f)' => inner'.task = f
          /\ inner'.task = f => \A x \in Called : Active(x)' => x = f
          BY <1>2 DEF Inv, SoloInv
    <3>2. \A x \in Called : call'[x].at = "running" /\ call'[x].on = f => x = f
          BY <1>1 DEF Inv, SoloInv
    <3>3. CASE f = n
          BY <3>1, <3>2, <3>3
    <3>4. CASE f # n
          BY <3>1, <3>2, <3>4 DEF Inv, SoloInv
    <3>5. QED
          BY <3>3, <3>4
  <2>2. QED
        BY <2>1 DEF SoloInv
<1>7. GivenInv'
      BY <1>1 DEF Inv, GivenInv
<1>8. PermitInv'
  <2>1. \A s \in Task : Holders(s)' \subseteq Holders(s)
        BY <1>1 DEF Holders
  <2>2. \A s \in Task : Cardinality(Holders(s)') <= permits'[s]
    <3>1. ASSUME NEW s \in Task PROVE Cardinality(Holders(s)') <= permits[s]
      <4>1. /\ Cardinality(Holders(s)') <= Cardinality(Holders(s)) /\ IsFiniteSet(Holders(s)')
            /\ Cardinality(Holders(s)) \in Nat
            BY <2>1, HoldersFinite
      <4>2. Cardinality(Holders(s)') \in Nat
            BY <4>1, FS_CardinalityType
      <4>3. Cardinality(Holders(s)) <= permits[s] /\ permits[s] \in Nat
            BY DEF Inv, PermitInv, TypeOK
      <4>4. QED
            BY <4>1, <4>2, <4>3
    <3>2. QED
          BY <3>1
  <2>3. stage[t] \in Begun /\ (t \notin met => fractal.semaphore = t)
        BY <1>1 DEF Begun, Inv, AloneInv
  <2>4. \A m \in Node : call'[m].semaphore # NoTask => stage'[call'[m].semaphore] \notin {"new", "set"}
        BY <1>1 DEF Inv, PermitInv
  <2>5. ASSUME NEW u \in Task \ met', NEW m \in Nodes(u), call'[m].at # "none"
        PROVE  call'[m].semaphore = u
    <3>1. CASE m = n
          BY <1>1, <2>3, <2>5, <3>1 DEF Inv, PermitInv
    <3>2. CASE m # n
          BY <1>1, <2>5, <3>2 DEF Inv, PermitInv
    <3>3. QED
          BY <3>1, <3>2
  <2>6. QED
        BY <2>2, <2>4, <2>5 DEF Inv, PermitInv
<1>9. RowInv'
  <2>1. row[n] # "success"
        BY DEF Inv, RowInv
  <2>2. \A m \in Node : row'[m] = "success" => call'[m].at = "over" /\ node'[m].status = "success"
        BY <1>1, <2>1 DEF Inv, RowInv
  <2>3. \A u \in Task : \A m \in Nodes(u) :
            stage'[u] \in {"new", "set", "classify", "bypass"} \/ call'[u].at = "over" => row'[m] = "none"
        BY <1>2 DEF Inv, RowInv
  <2>4. \A u \in Task \ met' : \A m \in Nodes(u) :
            stage'[u] \in {"synced", "leaving"} \/ (stage'[u] = "answered" /\ call'[u].at # "over") =>
                row'[m] = node'[m].status
    <3>1. \A u \in Task \ {t} : \A m \in Nodes(u) : node'[m] = node[m]
          BY <1>1
    <3>2. QED
          BY <1>1, <1>2, <3>1 DEF Inv, RowInv
  <2>5. QED
        BY <2>2, <2>3, <2>4 DEF RowInv
<1>10. WireInv'
       BY <1>2, WireUntouched
<1>11. QED
       BY <1>3, <1>4, <1>5, <1>6, <1>7, <1>8, <1>9, <1>10 DEF Inv

LEMMA QueueStep ==
    ASSUME EnginesAssumption, Inv, NEW n \in Node, Queue(n)
    PROVE  Inv'
<1> DEFINE s == fractal.semaphore
<1>1. /\ stage[Owner(n)] = "batch" /\ call[n].at = "none"
      /\ call' = [call EXCEPT ![n].at = "queued", ![n].semaphore = s]
      /\ UNCHANGED <<stage, fractal, permits, inner, had, sub, node, row, table, met>>
      BY DEF Queue
<1>2. /\ call \in [Called -> Call] /\ call[n] \in Call /\ n \in Called /\ s \in Task \cup {NoTask}
      /\ node \in [Node -> [status : Statuses, of : Called \cup {NoTask}]]
      BY Ids DEF Inv, TypeOK
<1>3. n \notin met => sub[n] # "running"
      BY <1>1, <1>2 DEF Inv, SoloInv
<1> HIDE DEF s
<1>4. call' = [call EXCEPT ![n] = [call[n] EXCEPT !.at = "queued", !.semaphore = s]]
      BY <1>1
<1>5. [call[n] EXCEPT !.at = "queued", !.semaphore = s] \in Call
      BY <1>2 DEF Call, Places
<1>6. /\ call' \in [Called -> Call] /\ call'[n] = [call[n] EXCEPT !.at = "queued", !.semaphore = s]
      /\ \A x \in Called \ {n} : call'[x] = call[x]
      BY <1>2, <1>4, <1>5
<1>7. call'[n].at = "queued" /\ call'[n].semaphore = s
      BY <1>2, <1>6 DEF Call
<1>8. call'[n].at = "queued" /\ call'[n].semaphore = fractal.semaphore
      BY <1>7 DEF s
<1>9. QED
      BY <1>1, <1>2, <1>3, <1>6, <1>8, NodeKeeps

LEMMA ApplyResultStep ==
    ASSUME EnginesAssumption, Inv, NEW n \in Node, ApplyResult(n)
    PROVE  Inv'
<1> DEFINE at == IF sub[inner.task] = "success" THEN "over" ELSE "gate"
           result == [status |-> sub[inner.task], of |-> inner.task]
<1>1. /\ call[n].at = "return" /\ node' = [node EXCEPT ![n] = result] /\ Goto(n, at)
      /\ UNCHANGED <<stage, fractal, permits, inner, had, sub, row, table, met>>
      BY DEF ApplyResult
<1>2. /\ n \in Called /\ n \in Nodes(Owner(n)) /\ Owner(n) \in Task /\ Active(n)
      BY <1>1, Ids DEF Active
<1>3. inner.task \in Called /\ stage[Owner(n)] = "batch" /\ TypeOK
      BY <1>1, <1>2 DEF Inv, StageInv
<1>4. /\ result \in [status : Statuses, of : Called \cup {NoTask}] /\ at \in {"gate", "over"}
      /\ result.of = inner.task /\ (at = "over" => result.status = "success")
      BY <1>3 DEF TypeOK
<1>5. n \notin met => inner.task = n /\ sub[n] \notin {"pending", "running"}
      BY <1>1, <1>2 DEF Inv, SoloInv
<1> HIDE DEF at, result
<1>6. Moves(n, at) /\ call' \in [Called -> Call]
      BY <1>1, <1>2, <1>3, <1>4, GotoFacts DEF Places
<1>7. /\ node' \in [Node -> [status : Statuses, of : Called \cup {NoTask}]]
      /\ node'[n] = result /\ \A x \in Node \ {n} : node'[x] = node[x]
      BY <1>1, <1>3, <1>4 DEF TypeOK
<1>8. QED
      BY <1>1, <1>3, <1>4, <1>5, <1>6, <1>7, NodeKeeps DEF Moves

LEMMA NodeRaisesStep ==
    ASSUME EnginesAssumption, Inv, NEW n \in Node, NodeRaises(n)
    PROVE  Inv'
<1> DEFINE result == [status |-> "failed", of |-> NoTask]
<1>1. /\ call[n].at = "batch" /\ call[n].ready \notin {{}, {inner.task}}
      /\ node' = [node EXCEPT ![n] = result] /\ Goto(n, "gate")
      /\ UNCHANGED <<stage, fractal, permits, inner, had, sub, row, table, met>>
      BY DEF NodeRaises
<1>2. /\ n \in Called /\ n \in Nodes(Owner(n)) /\ Owner(n) \in Task /\ Active(n)
      BY <1>1, Ids DEF Active
<1>3. stage[Owner(n)] = "batch" /\ TypeOK
      BY <1>1, <1>2 DEF Inv, StageInv
<1>4. n \in met
      BY <1>1, <1>2 DEF Inv, SoloInv
<1>5. result \in [status : Statuses, of : Called \cup {NoTask}]
      BY DEF Statuses
<1> HIDE DEF result
<1>6. Moves(n, "gate") /\ call' \in [Called -> Call]
      BY <1>1, <1>2, <1>3, GotoFacts DEF Places
<1>7. /\ node' \in [Node -> [status : Statuses, of : Called \cup {NoTask}]]
      /\ \A x \in Node \ {n} : node'[x] = node[x]
      BY <1>1, <1>3, <1>5 DEF TypeOK
<1>8. QED
      BY <1>1, <1>3, <1>4, <1>6, <1>7, NodeKeeps DEF Moves

LEMMA GateStep ==
    ASSUME EnginesAssumption, Inv, NEW n \in Node, Gate(n)
    PROVE  Inv'
<1>1. PICK verdict \in {"success", "failed"} : node' = [node EXCEPT ![n].status = verdict]
      BY DEF Gate
<1>2. /\ call[n].at = "gate" /\ Goto(n, "over")
      /\ UNCHANGED <<stage, fractal, permits, inner, had, sub, row, table, met>>
      BY DEF Gate
<1>3. n \in Called /\ n \in Nodes(Owner(n)) /\ Owner(n) \in Task /\ n \in Node
      BY Ids
<1>4. stage[Owner(n)] = "batch" /\ TypeOK
      BY <1>2, <1>3 DEF Inv, StageInv
<1>5. n \notin met => sub[n] \notin {"pending", "running"}
      BY <1>2, <1>3 DEF Inv, SoloInv
<1>6. Moves(n, "over") /\ call' \in [Called -> Call]
      BY <1>2, <1>3, <1>4, GotoFacts DEF Places
<1>7. /\ node \in [Node -> [status : Statuses, of : Called \cup {NoTask}]]
      /\ node[n] \in [status : Statuses, of : Called \cup {NoTask}]
      /\ node[n].of = n \/ n \in met
      BY <1>2, <1>4 DEF TypeOK, Inv, GivenInv
<1>8. node' = [node EXCEPT ![n] = [node[n] EXCEPT !.status = verdict]]
      BY <1>1
<1>9. /\ node' \in [Node -> [status : Statuses, of : Called \cup {NoTask}]]
      /\ node'[n].status = verdict /\ node'[n].of = node[n].of
      /\ \A x \in Node \ {n} : node'[x] = node[x]
      BY <1>7, <1>8 DEF Statuses
<1>10. QED
       BY <1>2, <1>4, <1>5, <1>6, <1>7, <1>9, NodeKeeps DEF Moves

(* A call enters the inner engine.                                          *)
LEMMA Enters ==
    ASSUME EnginesAssumption, Inv, NEW e \in Called, call[e].at \in {"none", "queued"},
           NEW wired \in BOOLEAN, Execute(e, wired), UNCHANGED sub
    PROVE  /\ inner' \in [task : Called \cup {NoTask}, counts : [Called -> Nat], wired : BOOLEAN]
           /\ inner'.task = e /\ inner'.wired = wired
           /\ call' \in [Called -> Call] /\ Moves(e, "select")
           /\ \A x \in Called : Active(x)' <=> Active(x) \/ x = e
           /\ met \subseteq met' /\ met' \subseteq Called
           /\ \A x \in Called : Active(x) => x \in met' /\ e \in met'
           /\ SoloInv'
<1> DEFINE others == {x \in Called : Active(x)}
<1>1. /\ inner' = [task |-> e, counts |-> [x \in Called |-> 0], wired |-> wired]
      /\ Goto(e, "select") /\ met' = Meeting(others, e)
      BY DEF Execute
<1>2. /\ inner' \in [task : Called \cup {NoTask}, counts : [Called -> Nat], wired : BOOLEAN]
      /\ inner'.task = e /\ inner'.wired = wired
      BY <1>1
<1>3. TypeOK /\ "select" \in Places
      BY DEF Inv, Places
<1>4. call' \in [Called -> Call] /\ Moves(e, "select")
      BY <1>1, <1>3, GotoFacts
<1>5. \A x \in Called : Active(x)' <=> Active(x) \/ x = e
      BY <1>4 DEF Moves, Active
<1>6. others \subseteq Called /\ met \subseteq Called
      BY <1>3 DEF TypeOK
<1>7. \A x \in Called : Active(x) => x \in others
      OBVIOUS
<1> HIDE DEF others
<1>8. /\ met \subseteq met' /\ met' \subseteq Called
      /\ others # {} => others \subseteq met' /\ e \in met'
      BY <1>1, <1>6, MeetingFacts
<1>9. \A x \in Called : Active(x) => x \in met' /\ e \in met'
      BY <1>7, <1>8
<1>10. SoloInv'
  <2>1. ASSUME NEW f \in Called \ met'
        PROVE  /\ Active(f)' => inner'.task = f
               /\ inner'.task = f => \A x \in Called : Active(x)' => x = f
               /\ \A x \in Called : call'[x].at = "running" /\ call'[x].on = f => x = f
               /\ call'[f].at = "running" => call'[f].on = f
               /\ call'[f].at = "batch" => call'[f].ready \subseteq {f}
               /\ sub'[f] = "running" => call'[f].at = "running"
               /\ call'[f].at \in {"return", "gate", "over"} => sub'[f] # "pending"
    <3>1. f \in Called \ met
          BY <1>8
    <3>2. /\ Active(f)' => inner'.task = f
          /\ inner'.task = f => \A x \in Called : Active(x)' => x = f
          BY <1>2, <1>5, <1>9
    <3>3. \A x \in Called : call'[x].at = "running" /\ call'[x].on = f => x = f
          BY <1>4, <3>1 DEF Inv, SoloInv, Moves
    <3>4. CASE f = e
      <4>1. sub[f] # "running"
            BY <3>1, <3>4 DEF Inv, SoloInv
      <4>2. QED
            BY <1>4, <3>2, <3>3, <3>4, <4>1 DEF Moves
    <3>5. CASE f # e
          BY <1>4, <3>1, <3>2, <3>3, <3>5 DEF Inv, SoloInv, Moves
    <3>6. QED
          BY <3>4, <3>5
  <2>2. QED
        BY <2>1 DEF SoloInv
<1>11. QED
       BY <1>2, <1>4, <1>5, <1>8, <1>9, <1>10

LEMMA ExecuteTerminalStep ==
    ASSUME EnginesAssumption, Inv, NEW n \in Node, ExecuteTerminal(n)
    PROVE  Inv'
<1> DEFINE t == Owner(n)
           s == call[n].semaphore
<1>1. /\ call[n].at = "queued" /\ (s # NoTask => Cardinality(Holders(s)) < permits[s])
      /\ node' = [node EXCEPT ![n].status = "running"]
      /\ Execute(n, inner.wired)
      /\ UNCHANGED <<stage, fractal, permits, had, sub, row, table>>
      BY DEF ExecuteTerminal
<1>2. /\ t \in Task /\ n \in Nodes(t) /\ n \notin Task /\ n \in Called
      /\ Task \subseteq Called /\ Node \subseteq Called
      /\ \A u \in Task \ {t} : n \notin Nodes(u)
      /\ \A u \in Task : \A m \in Nodes(u) : m \in Node
      BY Ids
<1> HIDE DEF t
<1>3. inner.wired \in BOOLEAN /\ s \in Task \cup {NoTask} /\ stage[t] = "batch"
      BY <1>1, <1>2 DEF Inv, TypeOK, Call, StageInv
<1>4. /\ inner' \in [task : Called \cup {NoTask}, counts : [Called -> Nat], wired : BOOLEAN]
      /\ inner'.task = n /\ inner'.wired = inner.wired
      /\ call' \in [Called -> Call] /\ Moves(n, "select")
      /\ \A x \in Called : Active(x)' <=> Active(x) \/ x = n
      /\ met \subseteq met' /\ met' \subseteq Called
      /\ SoloInv'
      BY <1>1, <1>2, <1>3, Enters
<1>5. \A u \in Task : call'[u] = call[u] /\ (Active(u)' <=> Active(u))
      BY <1>2, <1>4 DEF Moves
<1>6. /\ node' \in [Node -> [status : Statuses, of : Called \cup {NoTask}]]
      /\ \A m \in Node \ {n} : node'[m] = node[m]
  <2>1. node \in [Node -> [status : Statuses, of : Called \cup {NoTask}]]
        BY DEF Inv, TypeOK
  <2>2. node' = [node EXCEPT ![n] = [node[n] EXCEPT !.status = "running"]]
        BY <1>1
  <2>3. [node[n] EXCEPT !.status = "running"] \in [status : Statuses, of : Called \cup {NoTask}]
        BY <2>1 DEF Statuses
  <2>4. QED
        BY <2>1, <2>2, <2>3
<1>7. TypeOK'
      BY <1>1, <1>4, <1>6 DEF Inv, TypeOK
<1>8. StageInv'
  <2>1. \A u \in Task :
            /\ call'[u].at \notin {"queued", "gate"}
            /\ Active(u)' <=> stage'[u] = "bypass"
            /\ Active(u)' => u \in Bypassed
            /\ call'[u].at = "over" => stage'[u] = "answered"
        BY <1>1, <1>5 DEF Inv, StageInv
  <2>2. ASSUME NEW u \in Task, NEW m \in Nodes(u)
        PROVE  /\ call'[m].at # "none" => stage'[u] \in Ran
               /\ call'[m].at \notin {"none", "over"} => stage'[u] = "batch"
               /\ stage'[u] \in {"synced", "leaving"} => call'[m].at = "over"
               /\ stage'[u] = "answered" => call'[u].at = "over" \/ call'[m].at = "over"
    <3>1. CASE m = n
      <4>1. u = t /\ stage'[u] = "batch" /\ "batch" \in Ran
            BY <1>1, <1>2, <1>3, <3>1 DEF Ran
      <4>2. QED
            BY <4>1
    <3>2. CASE m # n
      <4>1. call'[m] = call[m]
            BY <1>2, <1>4, <3>2 DEF Moves
      <4>2. QED
            BY <1>1, <1>5, <4>1 DEF Inv, StageInv
    <3>3. QED
          BY <3>1, <3>2
  <2>3. \A x \in Called : call'[x].at = "running" => call'[x].on \in Called
        BY <1>4 DEF Inv, StageInv, Moves
  <2>4. QED
        BY <1>2, <1>4, <2>1, <2>2, <2>3 DEF StageInv
<1>9. AloneInv'
      BY <1>1, <1>4 DEF Inv, AloneInv, InProgress
<1>10. GivenInv'
  <2>1. \A m \in Node : call'[m].at \in {"gate", "over"} => m # n /\ call[m].at = call'[m].at
        BY <1>2, <1>4 DEF Moves
  <2>2. QED
        BY <1>4, <1>6, <2>1 DEF Inv, GivenInv
<1>11. PermitInv'
  <2>1. \A m \in Called : call'[m].semaphore = call[m].semaphore
        BY <1>4 DEF Moves
  <2>2. ASSUME NEW v \in Task PROVE Cardinality(Holders(v)') <= permits[v]
    <3>1. CASE v = s
      <4>1. Holders(v)' = Holders(v) \cup {n} /\ n \notin Holders(v)
            BY <1>1, <1>2, <1>4, <2>1, <3>1 DEF Holders, Moves
      <4>2. IsFiniteSet(Holders(v)) /\ Cardinality(Holders(v)) \in Nat
            BY HoldersFinite
      <4>3. Cardinality(Holders(v)') = Cardinality(Holders(v)) + 1
            BY <4>1, <4>2, FS_AddElement
      <4>4. Cardinality(Holders(v)) < permits[v] /\ permits[v] \in Nat
            BY <1>1, <1>2, <3>1, Ids DEF Inv, TypeOK
      <4>5. QED
            BY <4>2, <4>3, <4>4
    <3>2. CASE v # s
      <4>1. Holders(v)' = Holders(v)
            BY <1>2, <1>4, <2>1, <3>2 DEF Holders, Moves
      <4>2. QED
            BY <4>1 DEF Inv, PermitInv
    <3>3. QED
          BY <3>1, <3>2
  <2>3. \A m \in Node : call'[m].semaphore # NoTask => stage'[call'[m].semaphore] \notin {"new", "set"}
        BY <1>1, <1>2, <2>1 DEF Inv, PermitInv
  <2>4. \A u \in Task \ met' : \A m \in Nodes(u) : call'[m].at # "none" => call'[m].semaphore = u
    <3>1. \A m \in Called : call'[m].at # "none" => call[m].at # "none"
          BY <1>1, <1>4 DEF Moves
    <3>2. QED
          BY <1>2, <1>4, <2>1, <3>1 DEF Inv, PermitInv
  <2>5. QED
        BY <1>1, <2>2, <2>3, <2>4 DEF Inv, PermitInv
<1>12. RowInv'
  <2>1. row[n] # "success"
        BY <1>1 DEF Inv, RowInv
  <2>2. \A m \in Node : row'[m] = "success" => call'[m].at = "over" /\ node'[m].status = "success"
    <3>1. \A m \in Node \ {n} : call'[m] = call[m]
          BY <1>2, <1>4 DEF Moves
    <3>2. QED
          BY <1>1, <1>6, <2>1, <3>1 DEF Inv, RowInv
  <2>3. \A u \in Task : \A m \in Nodes(u) :
            stage'[u] \in {"new", "set", "classify", "bypass"} \/ call'[u].at = "over" => row'[m] = "none"
        BY <1>1, <1>5 DEF Inv, RowInv
  <2>4. ASSUME NEW u \in Task \ met', NEW m \in Nodes(u),
               stage'[u] \in {"synced", "leaving"} \/ (stage'[u] = "answered" /\ call'[u].at # "over")
        PROVE  row'[m] = node'[m].status
    <3>1. u \in Task \ met /\ u # t /\ stage'[u] = stage[u] /\ call'[u] = call[u]
          BY <1>1, <1>3, <1>4, <1>5, <2>4
    <3>2. m \in Node /\ m # n
          BY <1>2, <3>1
    <3>3. row[m] = node[m].status
          BY <2>4, <3>1 DEF Inv, RowInv
    <3>4. QED
          BY <1>1, <1>6, <3>2, <3>3
  <2>5. QED
        BY <2>2, <2>3, <2>4 DEF RowInv
<1>13. WireInv'
  <2>1. ASSUME ~Crossed' PROVE ~Crossed
        BY <1>4, <2>1, CrossedStays
  <2>2. ASSUME ~Crossed, t \notin met PROVE ~inner.wired /\ \A u \in Task : ~Active(u)
    <3>1. \A u \in Task \ {t} : ~InProgress(u)
          BY <1>2, <1>3, <2>2 DEF Inv, AloneInv, InProgress
    <3>2. \A u \in Task : ~Active(u)
          BY <1>3, <3>1 DEF Inv, StageInv, InProgress
    <3>3. QED
          BY <2>2, <3>2 DEF Inv, WireInv
  <2>3. QED
        BY <1>1, <1>2, <1>4, <1>5, <2>1, <2>2 DEF Inv, WireInv
<1>14. QED
       BY <1>4, <1>7, <1>8, <1>9, <1>10, <1>11, <1>12, <1>13 DEF Inv

LEMMA ExecuteBypassStep ==
    ASSUME EnginesAssumption, Inv, NEW t \in Task, ExecuteBypass(t)
    PROVE  Inv'
<1>1. /\ stage[t] = "classify" /\ t \in Bypassed
      /\ stage' = [stage EXCEPT ![t] = "bypass"] /\ had' = [had EXCEPT ![t] = inner.wired]
      /\ Execute(t, TRUE)
      /\ UNCHANGED <<fractal, permits, sub, node, row, table>>
      BY DEF ExecuteBypass
<1>2. /\ t \in Called /\ t \notin Node /\ \A u \in Task : t \notin Nodes(u)
      /\ Task \subseteq Called /\ Node \subseteq Called
      /\ \A u \in Task : \A m \in Nodes(u) : m \in Node
      BY Ids
<1>3. call[t].at = "none" /\ ~Active(t)
  <2>1. call \in [Called -> Call] /\ call[t].at \in Places
        BY <1>2 DEF Inv, TypeOK, Call
  <2>2. ~Active(t) /\ call[t].at \notin {"queued", "gate", "over"}
        BY <1>1 DEF Inv, StageInv
  <2>3. QED
        BY <2>1, <2>2 DEF Places, Active
<1>4. /\ inner' \in [task : Called \cup {NoTask}, counts : [Called -> Nat], wired : BOOLEAN]
      /\ inner'.task = t /\ inner'.wired = TRUE
      /\ call' \in [Called -> Call] /\ Moves(t, "select")
      /\ \A x \in Called : Active(x)' <=> Active(x) \/ x = t
      /\ met \subseteq met' /\ met' \subseteq Called
      /\ \A x \in Called : Active(x) => x \in met' /\ t \in met'
      /\ SoloInv'
      BY <1>1, <1>2, <1>3, Enters
<1>5. /\ stage \in [Task -> Stages] /\ stage' \in [Task -> Stages] /\ stage'[t] = "bypass"
      /\ \A u \in Task \ {t} : stage'[u] = stage[u]
      /\ had' \in [Task -> BOOLEAN] /\ had'[t] = inner.wired /\ \A u \in Task \ {t} : had'[u] = had[u]
      BY <1>1 DEF Inv, TypeOK, Stages
<1>6. /\ \A x \in Called \ {t} : call'[x] = call[x]
      /\ \A x \in Called : call'[x].semaphore = call[x].semaphore
      /\ call'[t].at = "select"
      BY <1>4 DEF Moves
<1>7. TypeOK'
      BY <1>1, <1>4, <1>5 DEF Inv, TypeOK
<1>8. StageInv'
  <2>1. ASSUME NEW u \in Task
        PROVE  /\ call'[u].at \notin {"queued", "gate"}
               /\ Active(u)' <=> stage'[u] = "bypass"
               /\ Active(u)' => u \in Bypassed
               /\ call'[u].at = "over" => stage'[u] = "answered"
    <3>1. CASE u = t
          BY <1>1, <1>2, <1>4, <1>5, <1>6, <3>1
    <3>2. CASE u # t
          BY <1>2, <1>4, <1>5, <1>6, <3>2 DEF Inv, StageInv
    <3>3. QED
          BY <3>1, <3>2
  <2>2. ASSUME NEW u \in Task, NEW m \in Nodes(u)
        PROVE  /\ call'[m].at # "none" => stage'[u] \in Ran
               /\ call'[m].at \notin {"none", "over"} => stage'[u] = "batch"
               /\ stage'[u] \in {"synced", "leaving"} => call'[m].at = "over"
               /\ stage'[u] = "answered" => call'[u].at = "over" \/ call'[m].at = "over"
    <3>1. call'[m] = call[m]
          BY <1>2, <1>6
    <3>2. CASE u = t
          BY <1>1, <1>5, <3>1, <3>2 DEF Inv, StageInv, Ran
    <3>3. CASE u # t
          BY <1>2, <1>5, <1>6, <3>1, <3>3 DEF Inv, StageInv
    <3>4. QED
          BY <3>2, <3>3
  <2>3. \A x \in Called : call'[x].at = "running" => call'[x].on \in Called
        BY <1>6 DEF Inv, StageInv
  <2>4. QED
        BY <1>2, <1>4, <2>1, <2>2, <2>3 DEF StageInv
<1>9. AloneInv'
  <2>1. \A u \in Task : /\ InProgress(u)' <=> InProgress(u)
                        /\ stage'[u] = "set" <=> stage[u] = "set"
                        /\ stage'[u] \in Begun <=> stage[u] \in Begun
                        /\ stage'[u] \in {"new", "set"} <=> stage[u] \in {"new", "set"}
        BY <1>1, <1>5 DEF InProgress, Begun
  <2>2. QED
        BY <1>1, <1>4, <2>1 DEF Inv, AloneInv
<1>10. GivenInv'
       BY <1>1, <1>2, <1>4, <1>6 DEF Inv, GivenInv
<1>11. PermitInv'
  <2>1. \A s \in Task : Holders(s)' = Holders(s)
        BY <1>2, <1>6 DEF Holders
  <2>2. \A u \in Task : stage[u] \notin {"new", "set"} => stage'[u] \notin {"new", "set"}
        BY <1>1, <1>5
  <2>3. \A m \in Node : call[m].semaphore \in Task \cup {NoTask}
        BY <1>2 DEF Inv, TypeOK, Call
  <2>4. fractal.semaphore \in Task \cup {NoTask}
        BY DEF Inv, TypeOK
  <2>5. QED
        BY <1>1, <1>2, <1>4, <1>6, <2>1, <2>2, <2>3, <2>4 DEF Inv, PermitInv
<1>12. RowInv'
  <2>1. \A m \in Node : row'[m] = "success" => call'[m].at = "over" /\ node'[m].status = "success"
        BY <1>1, <1>2, <1>6 DEF Inv, RowInv
  <2>2. ASSUME NEW u \in Task, NEW m \in Nodes(u)
        PROVE  /\ stage'[u] \in {"new", "set", "classify", "bypass"} \/ call'[u].at = "over" => row'[m] = "none"
               /\ u \notin met' =>
                    (stage'[u] \in {"synced", "leaving"} \/ (stage'[u] = "answered" /\ call'[u].at # "over") =>
                        row'[m] = node'[m].status)
    <3>1. CASE u = t
          BY <1>1, <1>5, <1>6, <3>1 DEF Inv, RowInv
    <3>2. CASE u # t
          BY <1>1, <1>2, <1>4, <1>5, <1>6, <3>2 DEF Inv, RowInv
    <3>3. QED
          BY <3>1, <3>2
  <2>3. QED
        BY <2>1, <2>2 DEF RowInv
<1>13. WireInv'
  <2> SUFFICES ASSUME ~Crossed' PROVE WireInv'
      BY DEF WireInv
  <2>1. ~Crossed
        BY <1>4, CrossedStays
  <2>2. \A u \in Task : ~Active(u)
    <3>1. SUFFICES ASSUME NEW u \in Task, Active(u) PROVE FALSE
          OBVIOUS
    <3>2. u # t /\ u \in Bypassed /\ u \in met' /\ t \in met'
          BY <1>2, <1>3, <1>4, <3>1 DEF Inv, StageInv
    <3>3. QED
          BY <1>1, <3>2 DEF Crossed
  <2>3. ~inner.wired
        BY <2>1, <2>2 DEF Inv, WireInv
  <2>4. \A u \in Task : Active(u)' <=> u = t
        BY <1>2, <1>4, <2>2
  <2>5. \A u \in Task \ met' : table' \cap Nodes(u) = {}
        BY <1>1, <1>4, <2>1 DEF Inv, WireInv
  <2>6. QED
        BY <1>2, <1>4, <1>5, <2>3, <2>4, <2>5 DEF WireInv
<1>14. QED
       BY <1>4, <1>7, <1>8, <1>9, <1>10, <1>11, <1>12, <1>13 DEF Inv

(* A bypass is over, with an answer or an exception.                        *)
LEMMA BypassKeeps ==
    ASSUME EnginesAssumption, Inv, NEW t \in Task, Active(t), call[t].at # "running", LeaveBypass(t),
           inner' = [inner EXCEPT !.wired = had[t]],
           sub' \in [Called -> Statuses], \A x \in Called \ {t} : sub'[x] = sub[x],
           t \notin met => sub'[t] \notin {"pending", "running"},
           table' \subseteq table \cup {t, inner.task},
           UNCHANGED <<permits, had, node, row, met>>
    PROVE  Inv'
<1>1. /\ t \in Called /\ t \notin Node /\ \A u \in Task : t \notin Nodes(u)
      /\ Task \subseteq Called /\ Node \subseteq Called
      /\ \A u \in Task : \A m \in Nodes(u) : m \in Node
      BY Ids
<1>2. /\ stage[t] = "bypass" /\ inner.task \in Called /\ t \in Bypassed /\ TypeOK
      BY <1>1 DEF Inv, StageInv
<1>3. Moves(t, "over") /\ call' \in [Called -> Call]
      BY <1>1, <1>2, GotoFacts DEF LeaveBypass, Places
<1>4. /\ \A x \in Called \ {t} : call'[x] = call[x]
      /\ \A x \in Called : call'[x].semaphore = call[x].semaphore
      /\ call'[t].at = "over"
      BY <1>3 DEF Moves
<1>5. /\ stage \in [Task -> Stages] /\ stage' \in [Task -> Stages] /\ stage'[t] = "answered"
      /\ \A u \in Task \ {t} : stage'[u] = stage[u]
      BY <1>2 DEF LeaveBypass, TypeOK, Stages
<1>6. /\ fractal' \in [task : Task \cup {NoTask}, overrides : Nat, semaphore : Task \cup {NoTask}]
      /\ fractal'.task = NoTask /\ fractal'.overrides = fractal.overrides
      /\ fractal'.semaphore = fractal.semaphore /\ fractal.semaphore \in Task \cup {NoTask}
      BY <1>2 DEF LeaveBypass, TypeOK
<1>7. /\ inner' \in [task : Called \cup {NoTask}, counts : [Called -> Nat], wired : BOOLEAN]
      /\ inner'.task = inner.task /\ inner'.wired = had[t]
      BY <1>2 DEF TypeOK
<1>8. ~Active(t)' /\ \A x \in Called \ {t} : Active(x)' <=> Active(x)
      BY <1>4 DEF Active
<1>9. TypeOK'
      BY <1>1, <1>2, <1>3, <1>5, <1>6, <1>7 DEF TypeOK
<1>10. StageInv'
  <2>1. ASSUME NEW u \in Task
        PROVE  /\ call'[u].at \notin {"queued", "gate"}
               /\ Active(u)' <=> stage'[u] = "bypass"
               /\ Active(u)' => u \in Bypassed
               /\ call'[u].at = "over" => stage'[u] = "answered"
    <3>1. CASE u = t
          BY <1>4, <1>5, <1>8, <3>1
    <3>2. CASE u # t
          BY <1>1, <1>4, <1>5, <1>8, <3>2 DEF Inv, StageInv
    <3>3. QED
          BY <3>1, <3>2
  <2>2. ASSUME NEW u \in Task, NEW m \in Nodes(u)
        PROVE  /\ call'[m].at # "none" => stage'[u] \in Ran
               /\ call'[m].at \notin {"none", "over"} => stage'[u] = "batch"
               /\ stage'[u] \in {"synced", "leaving"} => call'[m].at = "over"
               /\ stage'[u] = "answered" => call'[u].at = "over" \/ call'[m].at = "over"
    <3>1. call'[m] = call[m]
          BY <1>1, <1>4
    <3>2. CASE u = t
          BY <1>2, <1>4, <1>5, <3>1, <3>2 DEF Inv, StageInv, Ran
    <3>3. CASE u # t
          BY <1>1, <1>4, <1>5, <3>1, <3>3 DEF Inv, StageInv
    <3>4. QED
          BY <3>2, <3>3
  <2>3. \A x \in Called : call'[x].at = "running" => call'[x].on \in Called
        BY <1>4 DEF Inv, StageInv
  <2>4. \A x \in Called : Active(x)' => inner'.task \in Called
        BY <1>2, <1>7
  <2>5. QED
        BY <2>1, <2>2, <2>3, <2>4 DEF StageInv
<1>11. AloneInv'
  <2>1. fractal'.overrides # 0 => \E u \in Task : stage'[u] = "set"
        BY <1>2, <1>5, <1>6 DEF Inv, AloneInv
  <2>2. ~InProgress(t)' /\ \A u \in Task \ {t} : InProgress(u)' <=> InProgress(u)
        BY <1>5 DEF InProgress
  <2>3. ASSUME NEW u \in Task \ met, u # t PROVE ~InProgress(u)
        BY <1>2, <2>3 DEF Inv, AloneInv, InProgress
  <2>4. ASSUME NEW v \in Task \ met'
        PROVE  /\ InProgress(v)' => \A u \in Task \ {v} : ~InProgress(u)'
               /\ stage'[v] = "set" => fractal'.overrides = Limit(v)
               /\ stage'[v] \in Begun => fractal'.task = v /\ fractal'.semaphore = v
               /\ stage'[v] \notin {"new", "set"} =>
                     permits'[v] = IF Limit(v) # 0 THEN Limit(v) ELSE DefaultLimit
    <3>1. CASE v = t
          BY <1>2, <1>5, <2>2, <3>1 DEF Inv, AloneInv, Begun
    <3>2. CASE v # t
      <4>1. ~InProgress(v) /\ ~InProgress(v)' /\ stage'[v] = stage[v]
            BY <1>5, <2>2, <2>3, <3>2
      <4>2. QED
            BY <4>1 DEF Inv, AloneInv, InProgress, Begun
    <3>3. QED
          BY <3>1, <3>2
  <2>5. QED
        BY <2>1, <2>4 DEF AloneInv
<1>12. SoloInv'
  <2>1. ASSUME NEW f \in Called \ met'
        PROVE  /\ Active(f)' => inner'.task = f
               /\ inner'.task = f => \A x \in Called : Active(x)' => x = f
               /\ \A x \in Called : call'[x].at = "running" /\ call'[x].on = f => x = f
               /\ call'[f].at = "running" => call'[f].on = f
               /\ call'[f].at = "batch" => call'[f].ready \subseteq {f}
               /\ sub'[f] = "running" => call'[f].at = "running"
               /\ call'[f].at \in {"return", "gate", "over"} => sub'[f] # "pending"
    <3>1. /\ Active(f)' => inner'.task = f
          /\ inner'.task = f => \A x \in Called : Active(x)' => x = f
          BY <1>7, <1>8 DEF Inv, SoloInv
    <3>2. \A x \in Called : call'[x].at = "running" /\ call'[x].on = f => x = f
          BY <1>4 DEF Inv, SoloInv
    <3>3. CASE f = t
          BY <1>4, <3>1, <3>2, <3>3
    <3>4. CASE f # t
          BY <1>4, <3>1, <3>2, <3>4 DEF Inv, SoloInv
    <3>5. QED
          BY <3>3, <3>4
  <2>2. QED
        BY <2>1 DEF SoloInv
<1>13. GivenInv'
       BY <1>1, <1>4 DEF Inv, GivenInv
<1>14. PermitInv'
  <2>1. \A s \in Task : Holders(s)' = Holders(s)
        BY <1>1, <1>4 DEF Holders
  <2>2. \A u \in Task : stage[u] \notin {"new", "set"} => stage'[u] \notin {"new", "set"}
        BY <1>5
  <2>3. \A m \in Node : call[m].semaphore \in Task \cup {NoTask}
        BY <1>1, <1>2 DEF TypeOK, Call
  <2>4. QED
        BY <1>1, <1>4, <1>6, <2>1, <2>2, <2>3 DEF Inv, PermitInv
<1>15. RowInv'
  <2>1. \A m \in Node : row'[m] = "success" => call'[m].at = "over" /\ node'[m].status = "success"
        BY <1>1, <1>4 DEF Inv, RowInv
  <2>2. ASSUME NEW u \in Task, NEW m \in Nodes(u)
        PROVE  /\ stage'[u] \in {"new", "set", "classify", "bypass"} \/ call'[u].at = "over" => row'[m] = "none"
               /\ u \notin met' =>
                    (stage'[u] \in {"synced", "leaving"} \/ (stage'[u] = "answered" /\ call'[u].at # "over") =>
                        row'[m] = node'[m].status)
    <3>1. CASE u = t
          BY <1>2, <1>4, <1>5, <3>1 DEF Inv, RowInv
    <3>2. CASE u # t
          BY <1>1, <1>4, <1>5, <3>2 DEF Inv, RowInv
    <3>3. QED
          BY <3>1, <3>2
  <2>3. QED
        BY <2>1, <2>2 DEF RowInv
<1>16. WireInv'
  <2> SUFFICES ASSUME ~Crossed' PROVE WireInv'
      BY DEF WireInv
  <2>1. ~Crossed
        BY CrossedStays
  <2>2. ~had[t] /\ \A u \in Task : Active(u) => u = t
        BY <2>1 DEF Inv, WireInv
  <2>3. \A u \in Task : ~Active(u)'
        BY <1>1, <1>8, <2>2
  <2>4. \A u \in Task \ met : inner.task \notin Nodes(u) /\ table \cap Nodes(u) = {}
        BY <2>1 DEF Inv, WireInv
  <2>5. \A u \in Task \ met' : table' \cap Nodes(u) = {}
        BY <1>1, <2>4
  <2>6. QED
        BY <1>7, <2>2, <2>3, <2>5 DEF WireInv
<1>17. QED
       BY <1>9, <1>10, <1>11, <1>12, <1>13, <1>14, <1>15, <1>16 DEF Inv

LEMMA BypassReturnsStep ==
    ASSUME EnginesAssumption, Inv, NEW t \in Task, BypassReturns(t)
    PROVE  Inv'
<1>1. Active(t) /\ t \in Called
      BY Ids DEF BypassReturns, Active
<1>2. t \notin met => sub[t] \notin {"pending", "running"}
      BY <1>1 DEF BypassReturns, Inv, SoloInv
<1>3. sub \in [Called -> Statuses]
      BY DEF Inv, TypeOK
<1>4. QED
      BY <1>1, <1>2, <1>3, BypassKeeps DEF BypassReturns

LEMMA BypassRaisesStep ==
    ASSUME EnginesAssumption, Inv, NEW t \in Task, BypassRaises(t)
    PROVE  Inv'
<1>1. Active(t) /\ t \in Called
      BY Ids DEF BypassRaises, Active
<1>2. sub \in [Called -> Statuses]
      BY DEF Inv, TypeOK
<1>3. /\ sub' \in [Called -> Statuses] /\ sub'[t] = "failed"
      /\ \A x \in Called \ {t} : sub'[x] = sub[x]
      BY <1>1, <1>2 DEF BypassRaises, Statuses
<1>4. QED
      BY <1>1, <1>3, BypassKeeps DEF BypassRaises

-----------------------------------------------------------------------------
LEMMA StepInv == ASSUME EnginesAssumption, Inv, [Next]_vars PROVE Inv'
<1>1. ASSUME NEW e \in Called, CallStep(e) PROVE Inv'
      BY <1>1, SelectReadyStep, ExecuteBatchStep, ExecuteNothingStep, AnsweredStep, RaisedStep,
         RouteAfterExecutionStep DEF CallStep
<1>2. ASSUME NEW t \in Task, TaskStep(t) PROVE Inv'
      BY <1>1, <1>2, Ids, BeginStep, ApproveStep, StartBatchStep, ExecuteBypassStep,
         BypassReturnsStep, BypassRaisesStep, BatchOverStep, SweepStep, LeaveStep DEF TaskStep
<1>3. ASSUME NEW n \in Node, NodeStep(n) PROVE Inv'
      BY <1>1, <1>3, Ids, QueueStep, ExecuteTerminalStep, ApplyResultStep, NodeRaisesStep,
         GateStep DEF NodeStep
<1>4. CASE UNCHANGED vars
  <2>1. \A s \in Task : Holders(s)' = Holders(s)
        BY <1>4 DEF vars, Holders
  <2>2. TypeOK' /\ StageInv' /\ AloneInv' /\ SoloInv' /\ GivenInv'
        BY <1>4 DEF vars, Inv, TypeOK, StageInv, AloneInv, SoloInv, GivenInv, Active, InProgress
  <2>3. PermitInv'
        BY <1>4, <2>1 DEF vars, Inv, PermitInv
  <2>4. RowInv' /\ WireInv'
        BY <1>4 DEF vars, Inv, RowInv, WireInv, Active, Crossed
  <2>5. QED
        BY <2>2, <2>3, <2>4 DEF Inv
<1>5. QED
      BY <1>2, <1>3, <1>4, SetExecutionOverridesStep DEF Next, Progress

(* What the invariant says of a task that met no other.                     *)
LEMMA LimitKept ==
    ASSUME EnginesAssumption, Inv, NEW t \in Task \ met
    PROVE  Cardinality({n \in Nodes(t) : call[n].at \notin {"none", "queued", "over"}})
               <= IF Limit(t) # 0 THEN Limit(t) ELSE DefaultLimit
<1> DEFINE Busy == {n \in Nodes(t) : call[n].at \notin {"none", "queued", "over"}}
           limit == IF Limit(t) # 0 THEN Limit(t) ELSE DefaultLimit
<1>1. limit \in Nat
      BY DEF EnginesAssumption
<1>2. Busy \subseteq Holders(t)
      BY Ids DEF Inv, PermitInv, Holders
<1>3. CASE stage[t] \in {"new", "set"}
  <2>1. Busy = {}
        BY <1>3 DEF Inv, StageInv, Ran
  <2>2. Cardinality(Busy) = 0
        BY <2>1, FS_EmptySet
  <2>3. QED
        BY <1>1, <2>2
<1>4. CASE stage[t] \notin {"new", "set"}
  <2>1. permits[t] = limit /\ Cardinality(Holders(t)) <= permits[t]
        BY <1>4 DEF Inv, AloneInv, PermitInv
  <2>2. /\ Cardinality(Busy) <= Cardinality(Holders(t)) /\ IsFiniteSet(Busy)
        /\ Cardinality(Holders(t)) \in Nat
        BY <1>2, HoldersFinite
  <2>3. Cardinality(Busy) \in Nat
        BY <2>2, FS_CardinalityType
  <2>4. QED
        BY <1>1, <2>1, <2>2, <2>3
<1>5. QED
      BY <1>3, <1>4

LEMMA AnsweredRows ==
    ASSUME EnginesAssumption, Inv, NEW t \in Task \ met, stage[t] = "answered"
    PROVE  /\ \A n \in Nodes(t) : row[n] \in {"none", node[n].status} \ {"pending", "running"}
           /\ call[t].at = "over" => sub[t] \in {"success", "failed"}
<1>1. ASSUME NEW n \in Nodes(t)
      PROVE  row[n] \in {"none", node[n].status} \ {"pending", "running"}
  <2>1. CASE call[t].at = "over"
        BY <2>1 DEF Inv, RowInv
  <2>2. CASE call[t].at # "over"
    <3>1. row[n] = node[n].status /\ call[n].at = "over" /\ n \in Node
          BY <2>2, Ids DEF Inv, RowInv, StageInv
    <3>2. node[n].status \in {"success", "failed"}
          BY <3>1 DEF Inv, GivenInv
    <3>3. QED
          BY <3>1, <3>2
  <2>3. QED
        BY <2>1, <2>2
<1>2. ASSUME call[t].at = "over" PROVE sub[t] \in {"success", "failed"}
  <2>1. t \in Called \ met /\ sub[t] \in Statuses
        BY Ids DEF Inv, TypeOK
  <2>2. sub[t] \notin {"pending", "running"}
        BY <1>2, <2>1 DEF Inv, SoloInv
  <2>3. QED
        BY <2>1, <2>2 DEF Statuses
<1>3. QED
      BY <1>1, <1>2

LEMMA FewHaveNotCrossed ==
    ASSUME EnginesAssumption, Inv, Cardinality(met \cap Bypassed) < 2
    PROVE  ~Crossed
<1> DEFINE Both == met \cap Bypassed
<1>1. SUFFICES ASSUME NEW t \in Both, NEW u \in Both, t # u PROVE FALSE
      BY DEF Crossed
<1>2. Both \subseteq Called /\ IsFiniteSet(Called)
      BY Ids DEF Inv, TypeOK
<1>3. IsFiniteSet(Both)
      BY <1>2, FS_Subset
<1>4. {t, u} \subseteq Both
      OBVIOUS
<1>5. Cardinality(Both) \in Nat
      BY <1>3, FS_CardinalityType
<1>6. Cardinality({t, u}) = 2
  <2>1. IsFiniteSet({t}) /\ Cardinality({t}) = 1
        BY FS_Singleton
  <2>2. u \notin {t} /\ {t} \cup {u} = {t, u}
        BY <1>1
  <2>3. Cardinality({t} \cup {u}) = Cardinality({t}) + 1
        BY <2>1, <2>2, FS_AddElement
  <2>4. Cardinality({t} \cup {u}) = 2
        BY <2>1, <2>3
  <2>5. QED
        BY <2>2, <2>4
<1>7. Cardinality({t, u}) <= Cardinality(Both)
      BY <1>3, <1>4, FS_Subset
<1>8. QED
      BY <1>5, <1>6, <1>7

LEMMA InvSafe ==
    ASSUME EnginesAssumption, Inv
    PROVE  NothingLeaks /\ OthersOnlyWhenMet /\ RowsNotFlattered
<1>1. NothingLeaks
  <2>1. ASSUME NEW t \in Task \ met
        PROVE  stage[t] \notin {"new", "set"} =>
                   permits[t] = IF Limit(t) # 0 THEN Limit(t) ELSE DefaultLimit
        BY DEF Inv, AloneInv
  <2>2. ASSUME NEW t \in Task \ met, Cardinality(met \cap Bypassed) < 2
        PROVE  table \cap Nodes(t) = {}
        BY <2>2, FewHaveNotCrossed DEF Inv, WireInv
  <2>3. ASSUME NEW t \in Task \ met
        PROVE  LET limit == IF Limit(t) # 0 THEN Limit(t) ELSE DefaultLimit
               IN  /\ stage[t] \notin {"new", "set"} => permits[t] = limit
                   /\ Cardinality({n \in Nodes(t) : call[n].at \notin {"none", "queued", "over"}}) <= limit
    <3>1. Cardinality({n \in Nodes(t) : call[n].at \notin {"none", "queued", "over"}})
              <= IF Limit(t) # 0 THEN Limit(t) ELSE DefaultLimit
          BY LimitKept
    <3>2. QED
          BY <2>1, <3>1
  <2>4. QED
        BY <2>2, <2>3, AnsweredRows DEF NothingLeaks
<1>2. OthersOnlyWhenMet
      BY DEF Inv, GivenInv, OthersOnlyWhenMet
<1>3. RowsNotFlattered
      BY DEF Inv, RowInv, RowsNotFlattered
<1>4. QED
      BY <1>1, <1>2, <1>3

-----------------------------------------------------------------------------
(* The inductive invariant.                                                 *)
THEOREM InvAlways == EnginesAssumption => (Spec => []Inv)
<1> SUFFICES ASSUME EnginesAssumption PROVE Spec => []Inv
    OBVIOUS
<1>1. Init => Inv
      BY InitInv
<1>2. Inv /\ [Next]_vars => Inv'
      BY StepInv
<1>3. QED
      BY <1>1, <1>2, PTL DEF Spec

(* What the two engines keep on themselves and for each task has its type.  *)
THEOREM EnginesTypeCorrect == EnginesAssumption => (Spec => []TypeOK)
<1> SUFFICES ASSUME EnginesAssumption PROVE Spec => []TypeOK
    OBVIOUS
<1>1. Inv => TypeOK
      BY DEF Inv
<1>2. QED
      BY <1>1, InvAlways, PTL

(* A task that met no other keeps to its own limit and is left with the     *)
(* rows of its own nodes, whatever other tasks did before and do after it.  *)
THEOREM NothingLeaksBetweenTasks == EnginesAssumption => (Spec => []NothingLeaks)
<1> SUFFICES ASSUME EnginesAssumption PROVE Spec => []NothingLeaks
    OBVIOUS
<1>1. Inv => NothingLeaks
      BY InvSafe
<1>2. QED
      BY <1>1, InvAlways, PTL

(* A node is given the result of another call only when two calls of the    *)
(* inner engine crossed: the engine keeps apart what does not run at once.  *)
THEOREM ResultsCrossOnlyWhenCallsDo == EnginesAssumption => (Spec => []OthersOnlyWhenMet)
<1> SUFFICES ASSUME EnginesAssumption PROVE Spec => []OthersOnlyWhenMet
    OBVIOUS
<1>1. Inv => OthersOnlyWhenMet
      BY InvSafe
<1>2. QED
      BY <1>1, InvAlways, PTL

(* However many tasks cross, no row shows a success its node has not had.   *)
THEOREM RowsShowNoFalseSuccess == EnginesAssumption => (Spec => []RowsNotFlattered)
<1> SUFFICES ASSUME EnginesAssumption PROVE Spec => []RowsNotFlattered
    OBVIOUS
<1>1. Inv => RowsNotFlattered
      BY InvSafe
<1>2. QED
      BY <1>1, InvAlways, PTL

(* The three together are what the run checks of each instance.             *)
THEOREM SafeAlways == EnginesAssumption => (Spec => []Safe)
<1> SUFFICES ASSUME EnginesAssumption PROVE Spec => []Safe
    OBVIOUS
<1>1. Inv => Safe
      BY InvSafe DEF Safe
<1>2. QED
      BY <1>1, InvAlways, PTL
-----------------------------------------------------------------------------
(* A chat. What a crash leaves is a prefix of what the operation would have *)
(* written, so the invariant speaks of the file together with the events    *)
(* that are recorded and not appended yet: NumberInv of their numbers,      *)
(* CouncilInv of their order, PermittedInv of the tools still to be run.       *)
Permitted(m) == IF m = "read-only" THEN Tool \cap ReadOnlyTools ELSE Tool

(* A process continues the session of the file, in the mode it began in.    *)
PermittedInv ==
    /\ ledger # <<>> => ledger[1].type = "session_started"
    /\ session = NoSession <=> draft = NoSession
    /\ Process => /\ ledger # <<>>
                  /\ session.mode = ledger[1].mode /\ draft.mode = ledger[1].mode
                  /\ todo \in Seq(Step(Permitted(ledger[1].mode)))
    /\ \A run \in toolsRun : run.mode = "read-only" => run.tool \in ReadOnlyTools

(* The last thing an operation does is to save or to leave.                 *)
Closes(operation) ==
    operation # <<>> => operation[Len(operation)].do \in {"save", "leave"}

NumberInv ==
    /\ \A i \in DOMAIN ledger : ledger[i].seq = i - 1
    /\ \A i \in DOMAIN buffer : buffer[i].seq = Len(ledger) + i - 1
    /\ Closes(todo)
    /\ Process => draft.next = Len(ledger) + Len(buffer)
    /\ todo = <<>> => buffer = <<>> /\ session = draft
    /\ ~Process => todo = <<>>

(* An answer that a council gave follows its decision, be it in the file or *)
(* among the events on their way.                                           *)
Answers(event) == event.type = "assistant_message" /\ event.tag # "nobody"
Decides(event, tag) == event.type = "council_decision" /\ event.tag = tag

CouncilInv ==
    /\ \A i \in DOMAIN ledger : Answers(ledger[i]) =>
            i > 1 /\ Decides(ledger[i - 1], ledger[i].tag)
    /\ \A i \in DOMAIN buffer : Answers(buffer[i]) =>
            IF i > 1 THEN Decides(buffer[i - 1], buffer[i].tag)
            ELSE ledger # <<>> /\ Decides(ledger[Len(ledger)], buffer[i].tag)

ChatInv == ChatTypeOK /\ PermittedInv /\ NumberInv /\ CouncilInv

-----------------------------------------------------------------------------
(* Operations.                                                              *)
LEMMA StepFacts ==
    ASSUME NEW tools, NEW s \in Step(tools)
    PROVE  /\ s.do = "record" => s.types \in Seq(ChatEventType)
           /\ s.do = "tool" => s.tool \in tools
           /\ s.do = "status" => s.status \in Status
BY DEF Step

LEMMA Pieces ==
    ASSUME NEW tools
    PROVE  /\ \A types \in Seq(ChatEventType) : Record(types) \in Step(tools)
           /\ {Deliberate, ListEngines, Save, Leave} \subseteq Step(tools)
           /\ \A tool \in tools : RunTool(tool) \in Step(tools)
           /\ \A type \in {"pre_tool", "post_tool"} : PlanHooks(type) \in Step(tools)
           /\ \A s \in Status : Become(s) \in Step(tools)
           /\ Save.do = "save" /\ Leave.do = "leave"
BY DEF Step, Record, Deliberate, ListEngines, Save, Leave, RunTool, PlanHooks, Become

Operation(operation, tools) == operation \in Seq(Step(tools)) /\ Closes(operation)

LEMMA Joined ==
    ASSUME NEW tools, NEW a \in Seq(Step(tools)), NEW b, Operation(b, tools),
           b # <<>> \/ Closes(a)
    PROVE  Operation(a \o b, tools)
<1>1. b \in Seq(Step(tools)) /\ Closes(b)
      BY DEF Operation
<1>2. CASE b = <<>>
  <2>1. a \o b = a
        BY <1>2
  <2>2. QED
        BY <1>2, <2>1 DEF Operation
<1>3. CASE b # <<>>
  <2>1. /\ a \o b \in Seq(Step(tools)) /\ Len(a \o b) = Len(a) + Len(b) /\ Len(b) > 0
        /\ (a \o b)[Len(a) + Len(b)] = b[Len(b)]
        BY <1>1, <1>3
  <2>2. QED
        BY <1>1, <1>3, <2>1 DEF Operation, Closes
<1>4. QED
      BY <1>2, <1>3

LEMMA Fixed ==
    ASSUME NEW tools
    PROVE  /\ Operation(DiscoverContext, tools) /\ DiscoverContext # <<>>
           /\ Operation(SendMessage, tools)
           /\ Operation(Quit, tools)
           /\ Operation(RequestApproval, tools)
           /\ \A engines \in BOOLEAN : Operation(SlashCommand(engines), tools)
<1>0. {<<"context_indexed">>, <<"user_message">>, <<"slash_command">>, <<"approval_requested">>,
       <<"assistant_message">>, <<"slash_command", "session_ended">>} \subseteq Seq(ChatEventType)
      BY DEF ChatEventType
<1>1. /\ Record(<<"context_indexed">>) \in Step(tools) /\ Record(<<"user_message">>) \in Step(tools)
      /\ Record(<<"slash_command">>) \in Step(tools)
      /\ Record(<<"slash_command", "session_ended">>) \in Step(tools)
      /\ Record(<<"approval_requested">>) \in Step(tools)
      /\ Record(<<"assistant_message">>) \in Step(tools)
      BY <1>0, Pieces
<1>2. /\ {Deliberate, ListEngines, Save, Leave} \subseteq Step(tools)
      /\ Become("ended") \in Step(tools) /\ Become("waiting_for_approval") \in Step(tools)
      /\ Save.do = "save" /\ Leave.do = "leave"
      BY Pieces DEF Status
<1>3. Operation(DiscoverContext, tools) /\ DiscoverContext # <<>>
      BY <1>1, <1>2 DEF Operation, Closes, DiscoverContext
<1>4. Operation(SendMessage, tools)
      BY <1>1, <1>2 DEF Operation, Closes, SendMessage
<1>5. Operation(Quit, tools)
      BY <1>1, <1>2 DEF Operation, Closes, Quit
<1>6. Operation(RequestApproval, tools)
      BY <1>1, <1>2 DEF Operation, Closes, RequestApproval
<1>7. ASSUME NEW engines \in BOOLEAN PROVE Operation(SlashCommand(engines), tools)
  <2> DEFINE start == <<Record(<<"slash_command">>)>>
             ask == IF engines THEN <<ListEngines>> ELSE <<>>
             finish == <<Record(<<"assistant_message">>), Save>>
  <2>1. start \in Seq(Step(tools)) /\ ask \in Seq(Step(tools))
        BY <1>1, <1>2
  <2>2. Operation(finish, tools) /\ finish # <<>>
        BY <1>1, <1>2 DEF Operation, Closes
  <2>3. start \o ask \in Seq(Step(tools))
        BY <2>1
  <2>4. SlashCommand(engines) = (start \o ask) \o finish
        BY DEF SlashCommand
  <2> HIDE DEF start, ask, finish
  <2>5. QED
        BY <2>2, <2>3, <2>4, Joined
<1>8. QED
      BY <1>3, <1>4, <1>5, <1>6, <1>7

LEMMA ToolOperation ==
    ASSUME NEW tools, NEW tool \in tools, NEW hooks \in BOOLEAN, NEW diff \in BOOLEAN,
           NEW verify \in BOOLEAN
    PROVE  Operation(ExecuteTool(tool, hooks, diff, verify), tools)
<1> DEFINE before == IF hooks THEN <<PlanHooks("pre_tool"), Save>> ELSE <<>>
           propose == IF diff THEN <<Record(<<"diff_proposed">>)>> ELSE <<>>
           run == <<Record(<<"tool_call_requested">>), RunTool(tool), Record(<<"tool_call_completed">>)>>
           check == IF verify THEN <<Record(<<"verification_result">>)>> ELSE <<>>
           save == <<Save>>
           after == IF hooks THEN <<PlanHooks("post_tool"), Save>> ELSE <<>>
<1>0. {<<"diff_proposed">>, <<"tool_call_requested">>, <<"tool_call_completed">>,
       <<"verification_result">>} \subseteq Seq(ChatEventType)
      BY DEF ChatEventType
<1>1. /\ Record(<<"diff_proposed">>) \in Step(tools) /\ Record(<<"tool_call_requested">>) \in Step(tools)
      /\ Record(<<"tool_call_completed">>) \in Step(tools)
      /\ Record(<<"verification_result">>) \in Step(tools)
      BY <1>0, Pieces
<1>2. /\ RunTool(tool) \in Step(tools) /\ Save \in Step(tools) /\ Save.do = "save"
      /\ PlanHooks("pre_tool") \in Step(tools) /\ PlanHooks("post_tool") \in Step(tools)
      BY Pieces
<1>3. /\ before \in Seq(Step(tools)) /\ propose \in Seq(Step(tools))
      /\ run \in Seq(Step(tools)) /\ check \in Seq(Step(tools)) /\ save \in Seq(Step(tools))
      BY <1>1, <1>2
<1>4. Operation(save, tools) /\ save # <<>>
      BY <1>2 DEF Operation, Closes
<1>5. Operation(after, tools)
      BY <1>2 DEF Operation, Closes
<1>6. ExecuteTool(tool, hooks, diff, verify)
        = ((((before \o propose) \o run) \o check) \o save) \o after
      BY DEF ExecuteTool
<1> HIDE DEF before, propose, run, check, save, after
<1>7. ((before \o propose) \o run) \o check \in Seq(Step(tools))
      BY <1>3
<1>8. Operation((((before \o propose) \o run) \o check) \o save, tools)
      BY <1>4, <1>7, Joined
<1>9. QED
      BY <1>5, <1>6, <1>8, Joined DEF Operation

-----------------------------------------------------------------------------
(* Events that are recorded, and the rest of the operation.                 *)
LEMMA ChatTypeFacts ==
    ASSUME ChatTypeOK
    PROVE  /\ ledger \in Seq(Event) /\ buffer \in Seq(Event)
           /\ Process => session \in Session
           /\ draft # NoSession => draft \in Session
           /\ NoSession \notin Session
BY ChatAssumption DEF ChatTypeOK, Process, Session, NoSession

LEMMA NumberFacts ==
    ASSUME NEW types \in Seq(ChatEventType), NEW s \in Session,
           NEW tag \in {"nobody", "leader", "planner"}
    PROVE  /\ Number(types, s, tag) \in Seq(Event) /\ Len(Number(types, s, tag)) = Len(types)
           /\ \A i \in 1..Len(types) : /\ Number(types, s, tag)[i].seq = s.next + i - 1
                                       /\ Number(types, s, tag)[i].type = types[i]
                                       /\ Number(types, s, tag)[i].mode = s.mode
                                       /\ Number(types, s, tag)[i].tag = tag
<1> DEFINE e(i) == [seq |-> s.next + i - 1, type |-> types[i], mode |-> s.mode, tag |-> tag]
<1>1. DOMAIN types = 1..Len(types) /\ Len(types) \in Nat
      OBVIOUS
<1>2. s.next \in Nat /\ s.mode \in Mode
      BY DEF Session
<1>3. ASSUME NEW i \in 1..Len(types) PROVE e(i) \in Event
  <2>1. types[i] \in ChatEventType /\ s.next + i - 1 \in Nat
        BY <1>1, <1>2
  <2>2. QED
        BY <1>2, <2>1 DEF Event
<1>4. Number(types, s, tag) = [i \in 1..Len(types) |-> e(i)]
      BY <1>1 DEF Number
<1>5. \A i \in 1..Len(types) : /\ e(i).seq = s.next + i - 1
                               /\ e(i).type = types[i] /\ e(i).mode = s.mode /\ e(i).tag = tag
      OBVIOUS
<1> HIDE DEF e
<1>6. /\ Number(types, s, tag) \in Seq(Event) /\ Len(Number(types, s, tag)) = Len(types)
      /\ \A i \in 1..Len(types) : Number(types, s, tag)[i] = e(i)
      BY <1>1, <1>3, <1>4
<1>7. QED
      BY <1>5, <1>6

LEMMA Recorded ==
    ASSUME ChatInv, Process, NEW types \in Seq(ChatEventType),
           NEW tag \in {"nobody", "leader", "planner"}, RecordEvents(types, tag)
    PROVE  /\ buffer' \in Seq(Event) /\ Len(buffer') = Len(buffer) + Len(types)
           /\ draft' \in Session
           /\ draft'.mode = draft.mode /\ draft'.next = draft.next + Len(types)
           /\ \A i \in 1..Len(buffer) : buffer'[i] = buffer[i]
           /\ \A i \in 1..Len(types) :
                    /\ buffer'[Len(buffer) + i].seq = draft.next + i - 1
                    /\ buffer'[Len(buffer) + i].type = types[i]
                    /\ buffer'[Len(buffer) + i].tag = tag
<1>1. draft \in Session /\ buffer \in Seq(Event)
      BY ChatTypeFacts DEF ChatInv, PermittedInv, Process
<1> DEFINE more == Number(types, draft, tag)
<1>2. /\ more \in Seq(Event) /\ Len(more) = Len(types)
      /\ \A i \in 1..Len(types) : /\ more[i].seq = draft.next + i - 1
                                  /\ more[i].type = types[i] /\ more[i].tag = tag
      BY <1>1, NumberFacts
<1>3. buffer' = buffer \o more
      BY DEF RecordEvents
<1> HIDE DEF more
<1>4. /\ buffer' \in Seq(Event) /\ Len(buffer') = Len(buffer) + Len(types)
      /\ \A i \in 1..Len(buffer) : buffer'[i] = buffer[i]
  <2>1. \A i \in 1..Len(buffer) : (buffer \o more)[i] = buffer[i]
        BY <1>1, <1>2
  <2>2. buffer \o more \in Seq(Event) /\ Len(buffer \o more) = Len(buffer) + Len(more)
        BY <1>1, <1>2, ConcatProperties
  <2>3. QED
        BY <1>2, <1>3, <2>1, <2>2
<1>5. ASSUME NEW i \in 1..Len(types) PROVE buffer'[Len(buffer) + i] = more[i]
      BY <1>1, <1>2, <1>3
<1>6. draft'.mode = draft.mode /\ draft'.next = draft.next + Len(types) /\ draft' \in Session
  <2>1. draft' = [draft EXCEPT !.next = @ + Len(types)]
        BY DEF RecordEvents
  <2>2. draft.next + Len(types) \in Nat
        BY <1>1 DEF Session
  <2>3. QED
        BY <1>1, <2>1, <2>2 DEF Session
<1>7. QED
      BY <1>2, <1>4, <1>5, <1>6

(* Any step of the operation but a save leaves something to do.             *)
LEMMA Rest ==
    ASSUME ChatInv, todo # <<>>
    PROVE  /\ Process /\ todo \in Seq(Step(Permitted(ledger[1].mode)))
           /\ Head(todo) \in Step(Permitted(ledger[1].mode))
           /\ Tail(todo) \in Seq(Step(Permitted(ledger[1].mode)))
           /\ Closes(Tail(todo))
           /\ Head(todo).do \notin {"save", "leave"} => Tail(todo) # <<>>
<1>1. Process /\ Closes(todo)
      BY DEF ChatInv, NumberInv
<1>2. todo \in Seq(Step(Permitted(ledger[1].mode)))
      BY <1>1 DEF ChatInv, PermittedInv
<1>3. /\ Head(todo) = todo[1] /\ Len(todo) \in Nat \ {0} /\ Len(Tail(todo)) = Len(todo) - 1
      /\ Tail(todo) \in Seq(Step(Permitted(ledger[1].mode)))
      /\ \A i \in 1..(Len(todo) - 1) : Tail(todo)[i] = todo[i + 1]
      BY <1>2
<1>4. Tail(todo) # <<>> => Tail(todo)[Len(Tail(todo))] = todo[Len(todo)]
      BY <1>3
<1>5. Tail(todo) = <<>> => Head(todo) = todo[Len(todo)]
  <2>1. Len(<<>>) = 0
        OBVIOUS
  <2>2. Tail(todo) = <<>> => Len(Tail(todo)) = 0
        BY <2>1
  <2>3. QED
        BY <1>3, <2>2
<1>6. QED
      BY <1>1, <1>2, <1>3, <1>4, <1>5 DEF Closes

LEMMA AllTools ==
    ASSUME NEW m PROVE Seq(Step(Permitted(m))) \subseteq Seq(Step(Tool))
<1>1. Permitted(m) \subseteq Tool
      BY DEF Permitted
<1>2. Step(Permitted(m)) \subseteq Step(Tool)
      BY <1>1 DEF Step
<1>3. QED
      BY <1>2, SeqMonotonic

-----------------------------------------------------------------------------
(* The steps.                                                               *)
LEMMA ChatInitInv == ChatInit => ChatInv
<1> SUFFICES ASSUME ChatInit PROVE ChatInv
    OBVIOUS
<1>1. <<>> \in Seq(Event) /\ <<>> \in Seq(Step(Tool)) /\ DOMAIN <<>> = {}
      OBVIOUS
<1>2. ChatTypeOK
      BY <1>1, ChatAssumption DEF ChatInit, ChatTypeOK
<1>3. QED
      BY <1>1, <1>2 DEF ChatInit, ChatInv, PermittedInv, NumberInv, CouncilInv, Closes, Process

LEMMA RebuiltFacts ==
    ASSUME ChatInv, ledger # <<>>
    PROVE  Rebuilt \in Session /\ Rebuilt.next = Len(ledger) /\ Rebuilt.mode = ledger[1].mode
<1> DEFINE numbers == {ledger[i].seq : i \in DOMAIN ledger}
           n == Len(ledger)
<1>1. ledger \in Seq(Event) /\ DOMAIN ledger = 1..n /\ n \in Nat /\ n # 0
      BY ChatTypeFacts DEF ChatInv
<1>2. ledger[1].type = "session_started" /\ ledger[1].mode \in Mode
  <2>1. ledger[1] \in Event
        BY <1>1
  <2>2. QED
        BY <2>1 DEF ChatInv, PermittedInv, Event
<1>3. numbers = 0..(n - 1)
  <2>1. \A i \in 1..n : ledger[i].seq = i - 1
        BY <1>1 DEF ChatInv, NumberInv
  <2>2. ASSUME NEW k \in 0..(n - 1) PROVE k \in numbers
    <3>1. k + 1 \in 1..n /\ (k + 1) - 1 = k
          BY <1>1
    <3>2. ledger[k + 1].seq = k
          BY <2>1, <3>1
    <3>3. QED
          BY <1>1, <3>1, <3>2
  <2>3. ASSUME NEW i \in 1..n PROVE ledger[i].seq \in 0..(n - 1)
        BY <1>1, <2>1
  <2>4. QED
        BY <1>1, <2>2, <2>3
<1> HIDE DEF numbers, n
<1>4. Max(numbers) = n - 1
  <2>1. n - 1 \in numbers /\ \A y \in numbers : n - 1 >= y
        BY <1>1, <1>3
  <2>2. \A x \in numbers : (\A y \in numbers : x >= y) => x = n - 1
        BY <1>1, <1>3, <2>1
  <2>3. QED
        BY <2>1, <2>2 DEF Max
<1>5. NextNumber = n
      BY <1>1, <1>4 DEF NextNumber, numbers
<1>6. QED
      BY <1>1, <1>2, <1>5 DEF Rebuilt, Session, Status, n

LEMMA StartStep ==
    ASSUME ChatInv, NEW m \in Mode, Start(m)
    PROVE  ChatInv'
<1> DEFINE zero == [session' EXCEPT !.next = 0]
           types == <<"session_started">>
<1>1. /\ session' \in Session /\ session'.mode = m /\ session'.next = 1
      /\ zero \in Session /\ zero.next = 0 /\ zero.mode = m
      BY DEF Start, Session, Status
<1>2. types \in Seq(ChatEventType) /\ Len(types) = 1 /\ types[1] = "session_started"
      BY DEF ChatEventType
<1>3. ledger' = Number(types, zero, "nobody")
      BY DEF Start
<1> HIDE DEF zero, types
<1>4. /\ ledger' \in Seq(Event) /\ Len(ledger') = 1
      /\ ledger'[1].seq = 0 + 1 - 1 /\ ledger'[1].type = "session_started" /\ ledger'[1].mode = m
  <2>1. 1 \in 1..Len(types)
        BY <1>2
  <2>2. QED
        BY <1>1, <1>2, <1>3, <2>1, NumberFacts
<1>5. DOMAIN ledger' = {1} /\ ledger' # <<>>
  <2>1. DOMAIN ledger' = 1..1
        BY <1>4
  <2>2. 1..1 = {1} /\ Len(<<>>) = 0
        OBVIOUS
  <2>3. ledger' = <<>> => Len(ledger') = 0
        BY <2>2
  <2>4. QED
        BY <1>4, <2>1, <2>2, <2>3
<1>6. /\ buffer = <<>> /\ buffer' = <<>> /\ DOMAIN buffer' = {} /\ Len(buffer') = 0
      /\ draft' = session' /\ todo' = DiscoverContext
      BY DEF Start, ChatInv, NumberInv
<1>7. /\ todo' \in Seq(Step(Permitted(ledger'[1].mode))) /\ todo' \in Seq(Step(Tool))
      /\ Closes(todo') /\ todo' # <<>>
      BY <1>6, Fixed DEF Operation
<1>8. session' # NoSession
      BY <1>1 DEF Session, NoSession, Status
<1>9. ChatTypeOK'
      BY <1>1, <1>4, <1>6, <1>7 DEF Start, ChatInv, ChatTypeOK
<1>10. PermittedInv'
       BY <1>1, <1>4, <1>5, <1>6, <1>7, <1>8 DEF PermittedInv, Process, ChatInv, Start
<1>11. NumberInv'
       BY <1>1, <1>4, <1>5, <1>6, <1>7, <1>8 DEF NumberInv, Process, Closes
<1>12. CouncilInv'
       BY <1>4, <1>5, <1>6 DEF CouncilInv, Answers
<1>13. QED
       BY <1>9, <1>10, <1>11, <1>12 DEF ChatInv

LEMMA ResumeStep ==
    ASSUME ChatInv, Resume
    PROVE  ChatInv'
<1>1. /\ ledger # <<>> /\ ledger' = ledger /\ session' = Rebuilt /\ draft' = session'
      /\ todo' = DiscoverContext /\ buffer' = buffer /\ buffer = <<>> /\ toolsRun' = toolsRun
      BY DEF Resume, ChatInv, NumberInv
<1>2. /\ session' \in Session /\ session'.next = Len(ledger) /\ session'.mode = ledger[1].mode
      BY <1>1, RebuiltFacts
<1>3. /\ todo' \in Seq(Step(Permitted(ledger[1].mode))) /\ todo' \in Seq(Step(Tool))
      /\ Closes(todo') /\ todo' # <<>>
      BY <1>1, Fixed DEF Operation
<1>4. session' # NoSession
      BY <1>2 DEF Session, NoSession, Status
<1>5. Len(buffer) = 0 /\ DOMAIN buffer = {} /\ Len(ledger) \in Nat
      BY <1>1, ChatTypeFacts DEF ChatInv
<1>6. ChatTypeOK'
      BY <1>1, <1>2, <1>3, ChatAssumption DEF Resume, ChatInv, ChatTypeOK
<1>7. PermittedInv'
      BY <1>1, <1>2, <1>3, <1>4 DEF PermittedInv, Process, ChatInv
<1>8. NumberInv'
      BY <1>1, <1>2, <1>3, <1>4, <1>5 DEF NumberInv, Process, Closes, ChatInv
<1>9. CouncilInv'
      BY <1>1 DEF CouncilInv, Answers, Decides, ChatInv
<1>10. QED
       BY <1>6, <1>7, <1>8, <1>9 DEF ChatInv

LEMMA OperationBegins ==
    ASSUME ChatInv, NEW operation, Operation(operation, Permitted(ledger[1].mode)), Begin(operation)
    PROVE  ChatInv'
<1>1. /\ Process /\ todo = <<>> /\ todo' = operation /\ draft' = session
      /\ UNCHANGED <<ledger, session, buffer, restarts, toolsRun>>
      BY DEF Begin, AtPrompt
<1>2. buffer = <<>> /\ session = draft
      BY <1>1 DEF ChatInv, NumberInv
<1>3. /\ todo' \in Seq(Step(Permitted(ledger[1].mode))) /\ todo' \in Seq(Step(Tool)) /\ Closes(todo')
      BY <1>1, AllTools DEF Operation
<1>4. ChatTypeOK'
      BY <1>1, <1>2, <1>3 DEF ChatInv, ChatTypeOK
<1>5. PermittedInv'
      BY <1>1, <1>2, <1>3 DEF PermittedInv, Process, ChatInv
<1>6. NumberInv'
      BY <1>1, <1>2, <1>3 DEF NumberInv, Process, Closes, ChatInv
<1>7. CouncilInv'
      BY <1>1 DEF CouncilInv, Answers, Decides, ChatInv
<1>8. QED
      BY <1>4, <1>5, <1>6, <1>7 DEF ChatInv
(* Events are recorded, the numbers after those before; a council's answer  *)
(* comes with its decision.                                                 *)
LEMMA RecordStep ==
    ASSUME ChatInv, todo # <<>>, Head(todo).do \notin {"save", "leave"},
           NEW types \in Seq(ChatEventType), NEW tag \in {"nobody", "leader", "planner"},
           RecordEvents(types, tag), todo' = Tail(todo),
           UNCHANGED <<ledger, session, restarts, toolsRun>>,
           \A i \in 1..Len(types) : types[i] = "assistant_message" /\ tag # "nobody" =>
                i > 1 /\ types[i - 1] = "council_decision"
    PROVE  ChatInv'
<1>1. /\ Process /\ todo' \in Seq(Step(Permitted(ledger[1].mode)))
      /\ todo' \in Seq(Step(Tool)) /\ Closes(todo') /\ todo' # <<>>
      BY Rest, AllTools
<1>2. /\ buffer' \in Seq(Event) /\ Len(buffer') = Len(buffer) + Len(types)
      /\ draft' \in Session
      /\ draft'.mode = draft.mode /\ draft'.next = draft.next + Len(types)
      /\ \A i \in 1..Len(buffer) : buffer'[i] = buffer[i]
      /\ \A i \in 1..Len(types) :
              /\ buffer'[Len(buffer) + i].seq = draft.next + i - 1
              /\ buffer'[Len(buffer) + i].type = types[i]
              /\ buffer'[Len(buffer) + i].tag = tag
      BY <1>1, Recorded
<1>3. /\ Len(types) \in Nat /\ DOMAIN buffer = 1..Len(buffer) /\ Len(buffer) \in Nat
      /\ Len(ledger) \in Nat /\ DOMAIN buffer' = 1..(Len(buffer) + Len(types))
      BY <1>2, ChatTypeFacts DEF ChatInv
<1>4. draft.next = Len(ledger) + Len(buffer)
      BY <1>1 DEF ChatInv, NumberInv
<1>5. ASSUME NEW i \in DOMAIN buffer', i \notin DOMAIN buffer
      PROVE  /\ i - Len(buffer) \in 1..Len(types) /\ i = Len(buffer) + (i - Len(buffer))
             /\ buffer'[i].seq = Len(ledger) + i - 1
             /\ buffer'[i].type = types[i - Len(buffer)] /\ buffer'[i].tag = tag
  <2>1. i - Len(buffer) \in 1..Len(types) /\ i = Len(buffer) + (i - Len(buffer))
        BY <1>3, <1>5
  <2>2. /\ buffer'[i].seq = draft.next + (i - Len(buffer)) - 1
        /\ buffer'[i].type = types[i - Len(buffer)] /\ buffer'[i].tag = tag
        BY <1>2, <2>1
  <2>3. i \in Nat
        BY <1>3
  <2>4. QED
        BY <1>3, <1>4, <2>1, <2>2, <2>3
<1>6. draft' # NoSession
      BY <1>2 DEF Session, NoSession, Status
<1>7. ChatTypeOK'
      BY <1>1, <1>2 DEF ChatInv, ChatTypeOK
<1>8. PermittedInv'
      BY <1>1, <1>2, <1>6 DEF PermittedInv, Process, ChatInv
<1>9. \A i \in DOMAIN buffer' : buffer'[i].seq = Len(ledger) + i - 1
      BY <1>2, <1>3, <1>5 DEF ChatInv, NumberInv
<1>10. draft'.next = Len(ledger) + Len(buffer')
       BY <1>2, <1>3, <1>4
<1>11. NumberInv'
       BY <1>1, <1>9, <1>10 DEF NumberInv, Closes, Process, ChatInv
<1>12. ASSUME NEW i \in DOMAIN buffer', Answers(buffer'[i])
       PROVE  IF i > 1 THEN Decides(buffer'[i - 1], buffer'[i].tag)
              ELSE ledger # <<>> /\ Decides(ledger[Len(ledger)], buffer'[i].tag)
  <2>1. CASE i \in DOMAIN buffer
    <3>1. buffer'[i] = buffer[i]
          BY <1>2, <1>3, <2>1
    <3>2. CASE i > 1
      <4>1. i - 1 \in 1..Len(buffer)
            BY <1>3, <2>1, <3>2
      <4>2. QED
            BY <1>2, <1>12, <2>1, <3>1, <3>2, <4>1 DEF ChatInv, CouncilInv
    <3>3. CASE ~(i > 1)
          BY <1>12, <2>1, <3>1, <3>3 DEF ChatInv, CouncilInv
    <3>4. QED
          BY <3>2, <3>3
  <2>2. CASE i \notin DOMAIN buffer
    <3>1. PICK k \in 1..Len(types) :
                i = Len(buffer) + k /\ buffer'[i].type = types[k] /\ buffer'[i].tag = tag
          BY <1>5, <2>2
    <3>2. k > 1 /\ types[k - 1] = "council_decision"
          BY <1>12, <3>1 DEF Answers
    <3>3. k - 1 \in 1..Len(types) /\ Len(buffer) + (k - 1) = i - 1 /\ i > 1
          BY <1>3, <3>1, <3>2
    <3>4. buffer'[i - 1].type = types[k - 1] /\ buffer'[i - 1].tag = tag
          BY <1>2, <3>3
    <3>5. QED
          BY <3>1, <3>2, <3>3, <3>4 DEF Decides
  <2>3. QED
        BY <2>1, <2>2
<1>13. CouncilInv'
       BY <1>12 DEF CouncilInv, ChatInv
<1>14. QED
       BY <1>7, <1>8, <1>11, <1>13 DEF ChatInv
LEMMA DoRecordStep == ChatInv /\ DoRecord => ChatInv'
<1> SUFFICES ASSUME ChatInv, DoRecord PROVE ChatInv'
    OBVIOUS
<1>1. todo # <<>> /\ Head(todo).do = "record"
      BY DEF DoRecord, Doing
<1>2. Head(todo).types \in Seq(ChatEventType)
      BY <1>1, Rest, StepFacts
<1>3. QED
      BY <1>1, <1>2, RecordStep DEF DoRecord

LEMMA DoDeliberateStep == ChatInv /\ DoDeliberate => ChatInv'
<1> SUFFICES ASSUME ChatInv, DoDeliberate PROVE ChatInv'
    OBVIOUS
<1> DEFINE types == <<"council_argument", "council_argument", "council_argument",
                      "council_decision", "assistant_message">>
<1>1. todo # <<>> /\ Head(todo).do = "deliberate"
      BY DEF DoDeliberate, Doing
<1>2. types \in Seq(ChatEventType)
      BY DEF ChatEventType
<1>3. \A i \in 1..Len(types) : types[i] = "assistant_message" => i > 1 /\ types[i - 1] = "council_decision"
  <2>1. ASSUME NEW i \in 1..Len(types), types[i] = "assistant_message" PROVE i = 5
        BY <2>1
  <2>2. types[4] = "council_decision" /\ 5 - 1 = 4 /\ 5 > 1
        OBVIOUS
  <2>3. QED
        BY <2>1, <2>2
<1>4. PICK role \in {"leader", "planner"} : RecordEvents(types, role)
      BY DEF DoDeliberate
<1>5. todo' = Tail(todo) /\ UNCHANGED <<ledger, session, restarts, toolsRun>>
      BY DEF DoDeliberate
<1> HIDE DEF types
<1>6. QED
      BY <1>1, <1>2, <1>3, <1>4, <1>5, RecordStep

LEMMA HookEvents ==
    ASSUME NEW dir \in HookDirs, NEW type, NEW events,
           events = [i \in DOMAIN HooksFor(dir, type) |->
                        IF HooksFor(dir, type)[i].enabled
                        THEN "hook_execution_planned" ELSE "hook_execution_skipped"]
    PROVE  events \in Seq(ChatEventType)
<1> DEFINE S == {i \in DOMAIN dir : \E h \in DefinitionFor(dir[i]) : h.hook_type = type}
           n == Cardinality(S)
<1>1. n \in Nat
  <2>1. dir \in Seq(HookFile)
        BY ChatAssumption
  <2>2. DOMAIN dir = 1..Len(dir) /\ Len(dir) \in Nat
        BY <2>1
  <2>3. IsFiniteSet(DOMAIN dir)
        BY <2>2, FS_Interval
  <2>4. S \in SUBSET (DOMAIN dir)
        OBVIOUS
  <2>5. QED
        BY <2>3, <2>4, FS_Subset, FS_CardinalityType
<1>2. DOMAIN HooksFor(dir, type) = 1..n
      BY DEF HooksFor, Kept
<1> HIDE DEF n
<1>3. DOMAIN events = 1..n /\ \A i \in 1..n : events[i] \in ChatEventType
      BY <1>2 DEF ChatEventType
<1>4. events = [i \in 1..n |-> events[i]]
      BY <1>2
<1>5. QED
      BY <1>1, <1>3, <1>4

LEMMA DoHooksStep == ChatInv /\ DoHooks => ChatInv'
<1> SUFFICES ASSUME ChatInv, DoHooks PROVE ChatInv'
    OBVIOUS
<1>1. todo # <<>> /\ Head(todo).do = "hooks"
      BY DEF DoHooks, Doing
<1>2. PICK dir \in HookDirs :
        RecordEvents([i \in DOMAIN HooksFor(dir, Head(todo).type) |->
                        IF HooksFor(dir, Head(todo).type)[i].enabled
                        THEN "hook_execution_planned" ELSE "hook_execution_skipped"], "nobody")
      BY DEF DoHooks
<1>3. PICK events :
        /\ events = [i \in DOMAIN HooksFor(dir, Head(todo).type) |->
                        IF HooksFor(dir, Head(todo).type)[i].enabled
                        THEN "hook_execution_planned" ELSE "hook_execution_skipped"]
        /\ RecordEvents(events, "nobody")
      BY <1>2
<1>4. events \in Seq(ChatEventType)
      BY <1>3, HookEvents
<1>5. QED
      BY <1>1, <1>3, <1>4, RecordStep DEF DoHooks

(* A step that records nothing.                                             *)
LEMMA ChatQuietStep ==
    ASSUME ChatInv, todo # <<>>, Head(todo).do \notin {"save", "leave"}, todo' = Tail(todo),
           draft' \in Session, draft'.mode = draft.mode, draft'.next = draft.next,
           toolsRun' \subseteq [mode : Mode, tool : Tool],
           \A run \in toolsRun' : run.mode = "read-only" => run.tool \in ReadOnlyTools,
           UNCHANGED <<ledger, session, buffer, restarts>>
    PROVE  ChatInv'
<1>1. /\ Process /\ todo' \in Seq(Step(Permitted(ledger[1].mode)))
      /\ todo' \in Seq(Step(Tool)) /\ Closes(todo') /\ todo' # <<>>
      BY Rest, AllTools
<1>2. draft' # NoSession
      BY DEF Session, NoSession, Status
<1>3. ChatTypeOK'
      BY <1>1 DEF ChatInv, ChatTypeOK
<1>4. PermittedInv'
      BY <1>1, <1>2 DEF PermittedInv, Process, ChatInv
<1>5. NumberInv'
      BY <1>1 DEF NumberInv, Process, Closes, ChatInv
<1>6. CouncilInv'
      BY DEF CouncilInv, Answers, Decides, ChatInv
<1>7. QED
      BY <1>3, <1>4, <1>5, <1>6 DEF ChatInv

LEMMA DoStatusStep == ChatInv /\ DoStatus => ChatInv'
<1> SUFFICES ASSUME ChatInv, DoStatus PROVE ChatInv'
    OBVIOUS
<1>1. todo # <<>> /\ Head(todo).do = "status"
      BY DEF DoStatus, Doing
<1>2. draft \in Session /\ Head(todo).status \in Status
      BY <1>1, Rest, StepFacts, ChatTypeFacts DEF ChatInv, PermittedInv, Process
<1>3. draft' \in Session /\ draft'.mode = draft.mode /\ draft'.next = draft.next
      BY <1>2 DEF DoStatus, Session
<1>4. toolsRun' = toolsRun /\ toolsRun \subseteq [mode : Mode, tool : Tool]
      BY DEF DoStatus, ChatInv, ChatTypeOK
<1>5. QED
      BY <1>1, <1>3, <1>4, ChatQuietStep DEF DoStatus, ChatInv, PermittedInv

LEMMA DoAwaitStep == ChatInv /\ DoAwait => ChatInv'
<1> SUFFICES ASSUME ChatInv, DoAwait PROVE ChatInv'
    OBVIOUS
<1>1. todo # <<>> /\ Head(todo).do = "await"
      BY DEF DoAwait, Doing
<1>2. draft' = draft /\ draft \in Session
      BY <1>1, Rest, ChatTypeFacts DEF DoAwait, ChatInv, PermittedInv, Process
<1>3. toolsRun' = toolsRun /\ toolsRun \subseteq [mode : Mode, tool : Tool]
      BY DEF DoAwait, ChatInv, ChatTypeOK
<1>4. QED
      BY <1>1, <1>2, <1>3, ChatQuietStep DEF DoAwait, ChatInv, PermittedInv

LEMMA DoToolStep == ChatInv /\ DoTool => ChatInv'
<1> SUFFICES ASSUME ChatInv, DoTool PROVE ChatInv'
    OBVIOUS
<1>1. todo # <<>> /\ Head(todo).do = "tool"
      BY DEF DoTool, Doing
<1>2. draft' = draft /\ draft \in Session
      BY <1>1, Rest, ChatTypeFacts DEF DoTool, ChatInv, PermittedInv, Process
<1> DEFINE m == ledger[1].mode
           t == Head(todo).tool
<1>3. m \in Mode /\ t \in Permitted(m)
  <2>1. ledger \in Seq(Event) /\ ledger # <<>>
        BY <1>1, Rest, ChatTypeFacts DEF ChatInv, PermittedInv
  <2>2. ledger[1] \in Event
        BY <2>1
  <2>3. QED
        BY <1>1, <2>2, Rest, StepFacts DEF Event
<1>4. toolsRun' = toolsRun \cup {[mode |-> m, tool |-> t]}
      BY DEF DoTool
<1> HIDE DEF m, t
<1>5. /\ t \in Tool
      /\ m = "read-only" => t \in ReadOnlyTools
      BY <1>3 DEF Permitted
<1>6. toolsRun' \subseteq [mode : Mode, tool : Tool]
      BY <1>3, <1>4, <1>5 DEF ChatInv, ChatTypeOK
<1>7. \A run \in toolsRun' : run.mode = "read-only" => run.tool \in ReadOnlyTools
      BY <1>4, <1>5 DEF ChatInv, PermittedInv
<1>8. QED
      BY <1>1, <1>2, <1>6, <1>7, ChatQuietStep DEF DoTool
(* One event of the buffer comes into the file.                             *)
LEMMA ChatAppended ==
    ASSUME ChatInv, buffer # <<>>, ledger' = Append(ledger, Head(buffer)), buffer' = Tail(buffer)
    PROVE  /\ ledger' \in Seq(Event) /\ buffer' \in Seq(Event)
           /\ Len(ledger') + Len(buffer') = Len(ledger) + Len(buffer)
           /\ Len(buffer) = 1 => buffer' = <<>>
           /\ ledger # <<>> => ledger'[1] = ledger[1]
           /\ \A i \in DOMAIN ledger' : ledger'[i].seq = i - 1
           /\ \A i \in DOMAIN buffer' : buffer'[i].seq = Len(ledger') + i - 1
           /\ CouncilInv'
<1>1. /\ ledger \in Seq(Event) /\ DOMAIN ledger = 1..Len(ledger) /\ Len(ledger) \in Nat
      /\ buffer \in Seq(Event) /\ DOMAIN buffer = 1..Len(buffer) /\ Len(buffer) \in Nat \ {0}
      /\ Head(buffer) \in Event /\ Head(buffer) = buffer[1]
      BY ChatTypeFacts DEF ChatInv
<1>2. /\ ledger' \in Seq(Event) /\ Len(ledger') = Len(ledger) + 1
      /\ DOMAIN ledger' = 1..(Len(ledger) + 1)
      /\ \A i \in 1..Len(ledger) : ledger'[i] = ledger[i]
      /\ ledger'[Len(ledger) + 1] = buffer[1]
      BY <1>1
<1>3. /\ buffer' \in Seq(Event) /\ Len(buffer') = Len(buffer) - 1
      /\ DOMAIN buffer' = 1..(Len(buffer) - 1)
      /\ \A i \in 1..(Len(buffer) - 1) : buffer'[i] = buffer[i + 1]
      BY <1>1
<1>4. Len(buffer) = 1 => buffer' = <<>>
      BY <1>3
<1>5. ledger # <<>> => ledger'[1] = ledger[1]
      BY <1>1, <1>2
<1>6. /\ \A i \in 1..Len(ledger) : ledger[i].seq = i - 1
      /\ \A i \in 1..Len(buffer) : buffer[i].seq = Len(ledger) + i - 1
      BY <1>1 DEF ChatInv, NumberInv
<1>7. ASSUME NEW i \in DOMAIN ledger' PROVE ledger'[i].seq = i - 1
  <2>1. CASE i \in 1..Len(ledger)
        BY <1>2, <1>6, <2>1
  <2>2. CASE i = Len(ledger) + 1
    <3>1. buffer[1].seq = Len(ledger) + 1 - 1
          BY <1>1, <1>6
    <3>2. QED
          BY <1>1, <1>2, <2>2, <3>1
  <2>3. QED
        BY <1>1, <1>2, <2>1, <2>2
<1>8. ASSUME NEW i \in DOMAIN buffer' PROVE buffer'[i].seq = Len(ledger') + i - 1
  <2>1. i \in 1..(Len(buffer) - 1) /\ i + 1 \in 1..Len(buffer)
        BY <1>1, <1>3
  <2>2. buffer[i + 1].seq = Len(ledger) + (i + 1) - 1
        BY <1>6, <2>1
  <2>3. QED
        BY <1>1, <1>2, <1>3, <2>1, <2>2
<1>9. ASSUME NEW i \in DOMAIN ledger', Answers(ledger'[i])
      PROVE  i > 1 /\ Decides(ledger'[i - 1], ledger'[i].tag)
  <2>1. CASE i \in 1..Len(ledger)
    <3>1. Answers(ledger[i]) /\ ledger'[i] = ledger[i]
          BY <1>2, <1>9, <2>1
    <3>2. i > 1 /\ Decides(ledger[i - 1], ledger[i].tag)
          BY <1>1, <2>1, <3>1 DEF ChatInv, CouncilInv
    <3>3. i - 1 \in 1..Len(ledger)
          BY <1>1, <2>1, <3>2
    <3>4. QED
          BY <1>2, <3>1, <3>2, <3>3
  <2>2. CASE i = Len(ledger) + 1
    <3>1. Answers(buffer[1]) /\ ledger'[i] = buffer[1] /\ 1 \in DOMAIN buffer
          BY <1>1, <1>2, <1>9, <2>2
    <3>2. ledger # <<>> /\ Decides(ledger[Len(ledger)], buffer[1].tag)
          BY <3>1 DEF ChatInv, CouncilInv
    <3>3. Len(ledger) \in 1..Len(ledger) /\ i - 1 = Len(ledger) /\ i > 1
          BY <1>1, <2>2, <3>2
    <3>4. QED
          BY <1>2, <3>1, <3>2, <3>3
  <2>3. QED
        BY <1>1, <1>2, <2>1, <2>2
<1>10. ASSUME NEW i \in DOMAIN buffer', Answers(buffer'[i])
       PROVE  IF i > 1 THEN Decides(buffer'[i - 1], buffer'[i].tag)
              ELSE ledger' # <<>> /\ Decides(ledger'[Len(ledger')], buffer'[i].tag)
  <2>1. i \in 1..(Len(buffer) - 1) /\ i + 1 \in DOMAIN buffer /\ i + 1 > 1 /\ (i + 1) - 1 = i
        BY <1>1, <1>3
  <2>2. buffer'[i] = buffer[i + 1] /\ Decides(buffer[i], buffer[i + 1].tag)
        BY <1>3, <1>10, <2>1 DEF ChatInv, CouncilInv
  <2>3. CASE i > 1
    <3>1. i - 1 \in 1..(Len(buffer) - 1) /\ (i - 1) + 1 = i
          BY <1>1, <2>1, <2>3
    <3>2. buffer'[i - 1] = buffer[i]
          BY <1>3, <3>1
    <3>3. QED
          BY <2>2, <2>3, <3>2
  <2>4. CASE ~(i > 1)
    <3>1. i = 1
          BY <2>1, <2>4
    <3>2. ledger' # <<>> /\ ledger'[Len(ledger')] = buffer[1]
          BY <1>1, <1>2
    <3>3. QED
          BY <2>2, <2>4, <3>1, <3>2
  <2>5. QED
        BY <2>3, <2>4
<1>11. CouncilInv'
       BY <1>9, <1>10 DEF CouncilInv
<1>12. Len(ledger') + Len(buffer') = Len(ledger) + Len(buffer)
       BY <1>1, <1>2, <1>3
<1>13. QED
       BY <1>2, <1>3, <1>4, <1>5, <1>7, <1>8, <1>11, <1>12

LEMMA DoSaveStep == ChatInv /\ DoSave => ChatInv'
<1> SUFFICES ASSUME ChatInv, DoSave PROVE ChatInv'
    OBVIOUS
<1>1. /\ todo # <<>> /\ UNCHANGED <<draft, restarts, toolsRun>>
      /\ session' = IF todo' = <<>> THEN draft ELSE session
      BY DEF DoSave, Doing
<1>2. /\ Process /\ todo \in Seq(Step(Permitted(ledger[1].mode))) /\ Closes(todo)
      /\ Tail(todo) \in Seq(Step(Permitted(ledger[1].mode))) /\ Closes(Tail(todo))
      BY <1>1, Rest DEF ChatInv, NumberInv
<1>3. /\ ledger # <<>> /\ draft \in Session /\ draft # NoSession /\ session \in Session
      /\ session.mode = ledger[1].mode /\ draft.mode = ledger[1].mode
      /\ draft.next = Len(ledger) + Len(buffer)
      BY <1>2, ChatTypeFacts DEF ChatInv, PermittedInv, NumberInv, Process
<1>4. /\ ledger' \in Seq(Event) /\ buffer' \in Seq(Event)
      /\ Len(ledger') + Len(buffer') = Len(ledger) + Len(buffer)
      /\ ledger' # <<>> /\ ledger'[1] = ledger[1]
      /\ \A i \in DOMAIN ledger' : ledger'[i].seq = i - 1
      /\ \A i \in DOMAIN buffer' : buffer'[i].seq = Len(ledger') + i - 1
      /\ CouncilInv'
      /\ todo' \in {todo, Tail(todo)}
      /\ todo' = <<>> => buffer' = <<>>
  <2>1. CASE buffer = <<>>
    <3>1. ledger' = ledger /\ buffer' = buffer /\ todo' = Tail(todo)
          BY <2>1 DEF DoSave
    <3>2. CouncilInv'
          BY <3>1 DEF ChatInv, CouncilInv, Answers, Decides
    <3>3. QED
          BY <1>3, <2>1, <3>1, <3>2, ChatTypeFacts DEF ChatInv, NumberInv
  <2>2. CASE buffer # <<>>
    <3>1. /\ ledger' = Append(ledger, Head(buffer)) /\ buffer' = Tail(buffer)
          /\ todo' = IF Len(buffer) = 1 THEN Tail(todo) ELSE todo
          BY <2>2 DEF DoSave
    <3>2. ledger' # <<>>
          BY <3>1, ChatTypeFacts DEF ChatInv
    <3>3. QED
          BY <1>1, <1>3, <2>2, <3>1, <3>2, ChatAppended
  <2>3. QED
        BY <2>1, <2>2
<1>5. /\ todo' \in Seq(Step(Permitted(ledger'[1].mode))) /\ todo' \in Seq(Step(Tool))
      /\ Closes(todo')
      BY <1>2, <1>4, AllTools
<1>6. /\ session' \in Session /\ session' # NoSession /\ session'.mode = ledger'[1].mode
      /\ todo' = <<>> => session' = draft'
      BY <1>1, <1>2, <1>3, <1>4 DEF Process
<1>7. ChatTypeOK'
      BY <1>1, <1>3, <1>4, <1>5, <1>6 DEF ChatInv, ChatTypeOK
<1>8. PermittedInv'
      BY <1>1, <1>3, <1>4, <1>5, <1>6 DEF PermittedInv, Process, ChatInv
<1>9. NumberInv'
      BY <1>1, <1>3, <1>4, <1>5, <1>6 DEF NumberInv, Process, Closes
<1>10. QED
       BY <1>4, <1>7, <1>8, <1>9 DEF ChatInv

LEMMA StopStep == ChatInv /\ Stop => ChatInv'
<1> SUFFICES ASSUME ChatInv, Stop PROVE ChatInv'
    OBVIOUS
<1>1. <<>> \in Seq(Event) /\ <<>> \in Seq(Step(Tool)) /\ DOMAIN <<>> = {}
      OBVIOUS
<1>2. ChatTypeOK'
      BY <1>1 DEF Stop, ChatInv, ChatTypeOK
<1>3. QED
      BY <1>1, <1>2 DEF Stop, ChatInv, PermittedInv, NumberInv, CouncilInv, Closes, Process, Answers, Decides

LEMMA SummarizeStep == ChatInv /\ Summarize => ChatInv'
<1> SUFFICES ASSUME ChatInv, Summarize PROVE ChatInv'
    OBVIOUS
<1> DEFINE event == [seq |-> Rebuilt.next, type |-> "session_summary", mode |-> Rebuilt.mode,
                     tag |-> "nobody"]
<1>1. /\ ledger # <<>> /\ ~Process /\ ledger' = Append(ledger, event)
      /\ UNCHANGED <<session, draft, buffer, todo, restarts, toolsRun>>
      BY DEF Summarize
<1>2. Rebuilt \in Session /\ Rebuilt.next = Len(ledger)
      BY <1>1, RebuiltFacts
<1>3. event \in Event /\ event.seq = Len(ledger) /\ ~Answers(event)
      BY <1>2 DEF Event, Session, ChatEventType, Answers
<1> HIDE DEF event
<1>4. ledger \in Seq(Event) /\ Len(ledger) \in Nat \ {0} /\ DOMAIN ledger = 1..Len(ledger)
      BY <1>1, ChatTypeFacts DEF ChatInv
<1>5. /\ ledger' \in Seq(Event) /\ DOMAIN ledger' = 1..(Len(ledger) + 1)
      /\ \A i \in 1..Len(ledger) : ledger'[i] = ledger[i]
      /\ ledger'[Len(ledger) + 1] = event
      BY <1>1, <1>3, <1>4
<1>6. buffer = <<>> /\ DOMAIN buffer = {} /\ todo = <<>> /\ session = NoSession
      BY <1>1 DEF ChatInv, NumberInv, Process
<1>7. ledger' # <<>> /\ ledger'[1] = ledger[1]
      BY <1>1, <1>3, <1>4, <1>5
<1>8. ChatTypeOK'
      BY <1>1, <1>5 DEF ChatInv, ChatTypeOK
<1>9. PermittedInv'
      BY <1>1, <1>6, <1>7 DEF PermittedInv, Process, ChatInv
<1>10. \A i \in DOMAIN ledger' : ledger'[i].seq = i - 1
  <2>1. \A i \in 1..Len(ledger) : ledger'[i].seq = i - 1
        BY <1>4, <1>5 DEF ChatInv, NumberInv
  <2>2. ledger'[Len(ledger) + 1].seq = (Len(ledger) + 1) - 1
        BY <1>3, <1>4, <1>5
  <2>3. QED
        BY <1>4, <1>5, <2>1, <2>2
<1>11. NumberInv'
       BY <1>1, <1>6, <1>10 DEF NumberInv, Process, Closes, ChatInv
<1>12. ASSUME NEW i \in DOMAIN ledger', Answers(ledger'[i])
       PROVE  i > 1 /\ Decides(ledger'[i - 1], ledger'[i].tag)
  <2>1. i \in 1..Len(ledger) /\ ledger'[i] = ledger[i]
        BY <1>3, <1>4, <1>5, <1>12
  <2>2. i > 1 /\ Decides(ledger[i - 1], ledger[i].tag)
        BY <1>4, <1>12, <2>1 DEF ChatInv, CouncilInv
  <2>3. i - 1 \in 1..Len(ledger)
        BY <1>4, <2>1, <2>2
  <2>4. QED
        BY <1>5, <2>1, <2>2, <2>3
<1>13. CouncilInv'
       BY <1>1, <1>6, <1>12 DEF CouncilInv
<1>14. QED
       BY <1>8, <1>9, <1>11, <1>13 DEF ChatInv
LEMMA OperationStep == ChatInv /\ (Talk \/ Command \/ AskApproval \/ UseTool) => ChatInv'
<1> SUFFICES ASSUME ChatInv, Talk \/ Command \/ AskApproval \/ UseTool PROVE ChatInv'
    OBVIOUS
<1>1. CASE Talk
      BY <1>1, Fixed, OperationBegins DEF Talk
<1>2. CASE Command
  <2>1. CASE Begin(Quit)
        BY <2>1, Fixed, OperationBegins
  <2>2. ASSUME NEW engines \in BOOLEAN, Begin(SlashCommand(engines)) PROVE ChatInv'
        BY <2>2, Fixed, OperationBegins
  <2>3. QED
        BY <1>2, <2>1, <2>2 DEF Command
<1>3. CASE AskApproval
      BY <1>3, Fixed, OperationBegins DEF AskApproval
<1>4. CASE UseTool
  <2>1. PICK tool \in Tool, risky \in BOOLEAN, hooks \in BOOLEAN, diff \in BOOLEAN,
             verify \in BOOLEAN :
                /\ ~BlockedByReadOnly(session, tool, risky)
                /\ Begin(ExecuteTool(tool, hooks, diff, verify))
        BY <1>4 DEF UseTool
  <2>2. session.mode = ledger[1].mode
        BY <2>1 DEF Begin, AtPrompt, ChatInv, PermittedInv
  <2>3. tool \in Permitted(ledger[1].mode)
        BY <2>1, <2>2 DEF BlockedByReadOnly, Permitted
  <2>4. QED
        BY <2>1, <2>3, ToolOperation, OperationBegins
<1>5. QED
      BY <1>1, <1>2, <1>3, <1>4

LEMMA ChatStepInv == ChatInv /\ [ChatNext]_chatVars => ChatInv'
<1> SUFFICES ASSUME ChatInv, [ChatNext]_chatVars PROVE ChatInv'
    OBVIOUS
<1>1. CASE UNCHANGED chatVars
      BY <1>1 DEF chatVars, ChatInv, ChatTypeOK, PermittedInv, NumberInv, CouncilInv, Process, Closes,
                  Answers, Decides
<1>2. ASSUME NEW m \in Mode, Start(m) PROVE ChatInv'
      BY <1>2, StartStep
<1>3. QED
      BY <1>1, <1>2, ResumeStep, OperationStep, DoRecordStep, DoStatusStep, DoDeliberateStep,
         DoAwaitStep, DoToolStep, DoHooksStep, DoSaveStep, StopStep, SummarizeStep DEF ChatNext

(* The inductive invariant holds of every reachable state.                  *)
THEOREM ChatInvCorrect == ChatSpec => []ChatInv
BY ChatInitInv, ChatStepInv, PTL DEF ChatSpec

(* Every reachable state is well typed: no operation is made of anything    *)
(* but the steps the use cases have.                                        *)
THEOREM ChatTypeCorrect == ChatSpec => []ChatTypeOK
<1>1. ChatInv => ChatTypeOK
      BY DEF ChatInv
<1>2. QED
      BY <1>1, ChatInvCorrect, PTL

(* Wherever a process dies and whoever continues, summaries included: the   *)
(* file's numbers have neither gap nor repetition, and the session that the *)
(* user talks to goes on with the next; an answer of a council follows its  *)
(* decision wherever the file was cut off (append_event, send_chat_message, *)
(* resume_chat_session).                                                    *)
THEOREM FileReplays == ChatSpec => []LedgerReplays
<1>1. ASSUME ChatInv PROVE LedgerReplays
  <2>1. \A i \in DOMAIN ledger : ledger[i].seq = i - 1
        BY <1>1 DEF ChatInv, NumberInv
  <2>2. ASSUME AtPrompt PROVE session.next = Len(ledger)
    <3>1. Process /\ buffer = <<>> /\ session = draft /\ Len(<<>>) = 0
          BY <1>1, <2>2 DEF AtPrompt, ChatInv, NumberInv
    <3>2. draft.next = Len(ledger) + 0
          BY <1>1, <3>1 DEF ChatInv, NumberInv
    <3>3. Len(ledger) \in Nat
          BY <1>1, ChatTypeFacts DEF ChatInv
    <3>4. QED
          BY <3>1, <3>2, <3>3
  <2>3. QED
        BY <1>1, <2>1, <2>2 DEF ChatInv, CouncilInv, Answers, Decides, LedgerReplays
<1>2. QED
      BY <1>1, ChatInvCorrect, PTL

(* A session that was started read-only runs no tool that changes anything, *)
(* through every restart (_blocked_by_read_only, resume_chat_session).      *)
THEOREM ReadOnlyHolds == ChatSpec => []ReadOnlyNeverWrites
<1>1. ChatInv => ReadOnlyNeverWrites
      BY DEF ChatInv, PermittedInv, ReadOnlyNeverWrites
<1>2. QED
      BY <1>1, ChatInvCorrect, PTL

(* A hook file that passes validation defines a hook, and one that does not *)
(* defines none: a directory that validates loses nothing when its hooks    *)
(* are looked up (_validate_file, _definition_for).                         *)
THEOREM NoHookIsLost == \A f \in HookFile : ValidateFile(f) # "FAIL" <=> DefinitionFor(f) # {}
BY DEF HookFile, ValidateFile, DefinitionFor
-----------------------------------------------------------------------------
(* A conversation. Messages are numbered by the broker's log (LogInv), so   *)
(* that whatever an engine has been given so far came before the next       *)
(* message (DeliveryInv); an answer that once completed a conversation is   *)
(* never taken back, and the message that asked first stays the first       *)
(* (AnsweredInv).                                                           *)
LogInv == \A i \in DOMAIN log : log[i].id = i - 1

DeliveryInv ==
    \A e \in Engine : \A i \in DOMAIN Delivered(e) : Delivered(e)[i].id < Len(log)

AnsweredInv == status = "resolved" => HasAllResponses

TalkInv ==
    /\ ConversationTypeOK
    /\ ConversationIsTheLog
    /\ LogInv
    /\ DeliveryInv
    /\ DirectlyDelivered
    /\ AnsweredInv

-----------------------------------------------------------------------------
(* Any nonempty set of naturals has a smallest element.                     *)
LEMMA Smallest ==
    ASSUME NEW S, S \subseteq Nat, S # {}
    PROVE  \E m \in S : \A n \in S : m <= n
<1>1. \A R, D, T : IsWellFoundedOn(R, D) /\ T \subseteq D /\ T # {} =>
            \E x \in T : \A y \in T : ~(<<y, x>> \in R)
      BY WFMin, Zenon
<1>2. PICK m \in S : \A n \in S : ~(<<n, m>> \in OpToRel(<, Nat))
      BY <1>1, NatLessThanWellFounded, Zenon
<1>3. \A n \in S : ~(n < m)
      BY <1>2 DEF OpToRel
<1>4. QED
      BY <1>3

LEMMA MinFacts ==
    ASSUME NEW S, S \subseteq Nat, S # {}
    PROVE  Min(S) \in S /\ \A n \in S : Min(S) <= n
<1>1. \E m \in S : \A n \in S : m <= n
      BY Smallest
<1>2. QED
      BY <1>1 DEF Min

LEMMA TalkTypeFacts ==
    ASSUME ConversationTypeOK
    PROVE  /\ messages \in Seq(Msg) /\ log \in Seq(Msg)
           /\ DOMAIN messages = 1..Len(messages) /\ Len(messages) \in Nat
           /\ DOMAIN log = 1..Len(log) /\ Len(log) \in Nat
           /\ Requests \subseteq Nat /\ Requests \subseteq DOMAIN messages
           /\ \A e \in Engine : Inbox(e) \in Seq(Msg) /\ received[e] \in Seq(Msg)
           /\ \A e \in Engine : Delivered(e) \in Seq(Msg)
<1>1. messages \in Seq(Msg) /\ log \in Seq(Msg)
      BY DEF ConversationTypeOK
<1>2. /\ DOMAIN messages = 1..Len(messages) /\ Len(messages) \in Nat
      /\ DOMAIN log = 1..Len(log) /\ Len(log) \in Nat
      BY <1>1
<1>3. Requests \subseteq Nat /\ Requests \subseteq DOMAIN messages
      BY <1>2 DEF Requests
<1>4. ASSUME NEW e \in Engine
      PROVE  Inbox(e) \in Seq(Msg) /\ received[e] \in Seq(Msg) /\ Delivered(e) \in Seq(Msg)
  <2>1. Inbox(e) \in Seq(Msg) /\ received[e] \in Seq(Msg)
        BY DEF ConversationTypeOK, Inbox
  <2>2. QED
        BY <2>1, ConcatProperties DEF Delivered
<1>5. QED
      BY <1>1, <1>2, <1>3, <1>4

(* The router answers with an engine that may receive, or with none.        *)
LEMMA ReceiverFacts ==
    ASSUME NEW action, NEW candidates \in Seq(Agents), NEW exclude
    PROVE  /\ SelectReceiver(action, candidates, exclude) \in Engine \cup {NoEngine}
           /\ SelectReceiver(action, candidates, exclude) # NoEngine
                => SelectReceiver(action, candidates, exclude) # exclude
<1> DEFINE others == {i \in DOMAIN candidates : candidates[i].engine # exclude}
           capable == {i \in others : WantedCapability(action) \in candidates[i].capabilities}
           chosen == Min(IF capable = {} THEN others ELSE capable)
<1>1. CASE others = {}
      BY <1>1 DEF SelectReceiver
<1>2. CASE others # {}
  <2>1. others \subseteq Nat /\ capable \subseteq others
        OBVIOUS
  <2>2. chosen \in others
    <3>1. CASE capable = {}
          BY <1>2, <2>1, <3>1, MinFacts
    <3>2. CASE capable # {}
          BY <2>1, <3>2, MinFacts
    <3>3. QED
          BY <3>1, <3>2
  <2>3. candidates[chosen] \in Agents /\ candidates[chosen].engine # exclude
        BY <2>2
  <2>4. SelectReceiver(action, candidates, exclude) = candidates[chosen].engine
        BY <1>2 DEF SelectReceiver
  <2>5. QED
        BY <2>3, <2>4, ConversationAssumption
<1>3. QED
      BY <1>1, <1>2

-----------------------------------------------------------------------------
(* Delivery.                                                                *)
LEMMA TalkAppended ==
    ASSUME NEW s \in Seq(Msg), NEW m \in Msg
    PROVE  /\ Append(s, m) \in Seq(Msg) /\ Len(Append(s, m)) = Len(s) + 1
           /\ DOMAIN Append(s, m) = 1..(Len(s) + 1) /\ DOMAIN s = 1..Len(s) /\ Len(s) \in Nat
           /\ \A i \in 1..Len(s) : Append(s, m)[i] = s[i]
           /\ Append(s, m)[Len(s) + 1] = m
           /\ Range(Append(s, m)) = Range(s) \cup {m}
<1>1. /\ Append(s, m) \in Seq(Msg) /\ Len(Append(s, m)) = Len(s) + 1
      /\ DOMAIN Append(s, m) = 1..(Len(s) + 1) /\ DOMAIN s = 1..Len(s) /\ Len(s) \in Nat
      /\ \A i \in 1..Len(s) : Append(s, m)[i] = s[i]
      /\ Append(s, m)[Len(s) + 1] = m
      OBVIOUS
<1>2. 1..(Len(s) + 1) = (1..Len(s)) \cup {Len(s) + 1}
      BY <1>1
<1>3. QED
      BY <1>1, <1>2 DEF Range

LEMMA Moved ==
    ASSUME NEW r \in Seq(Msg), NEW q \in Seq(Msg)
    PROVE  /\ \A m \in Msg : r \o Append(q, m) = Append(r \o q, m)
           /\ q # <<>> => Append(r, Head(q)) \o Tail(q) = r \o q
<1>0. r \o q \in Seq(Msg)
      BY ConcatProperties
<1>1. ASSUME NEW m \in Msg PROVE r \o Append(q, m) = Append(r \o q, m)
  <2>1. Append(q, m) \in Seq(Msg) /\ Append(r \o q, m) \in Seq(Msg)
        BY <1>0
  <2>2. r \o Append(q, m) \in Seq(Msg)
        BY <2>1, ConcatProperties
  <2>3. /\ Len(r \o Append(q, m)) = Len(Append(r \o q, m))
        /\ \A i \in 1..Len(r \o Append(q, m)) : (r \o Append(q, m))[i] = Append(r \o q, m)[i]
        BY <1>0, <2>1
  <2>4. QED
        BY <2>1, <2>2, <2>3, SeqEqual
<1>2. ASSUME q # <<>> PROVE Append(r, Head(q)) \o Tail(q) = r \o q
  <2>1. Append(r, Head(q)) \in Seq(Msg) /\ Tail(q) \in Seq(Msg)
        BY <1>2
  <2>2. Append(r, Head(q)) \o Tail(q) \in Seq(Msg)
        BY <2>1, ConcatProperties
  <2>3. /\ Len(Append(r, Head(q)) \o Tail(q)) = Len(r \o q)
        /\ \A i \in 1..Len(r \o q) : (Append(r, Head(q)) \o Tail(q))[i] = (r \o q)[i]
        BY <1>2
  <2>4. QED
        BY <1>0, <2>2, <2>3, SeqEqual
<1>3. QED
      BY <1>1, <1>2

(* An engine is given the message if it is for it, may be if it is for all, *)
(* and not if it is for another.                                            *)
LEMMA Delivery ==
    ASSUME ConversationTypeOK, NEW m \in Msg, Deliver(m), NEW e \in Engine
    PROVE  /\ m.receiver = e => Delivered(e)' = Append(Delivered(e), m)
           /\ m.receiver # NoEngine /\ m.receiver # e => Delivered(e)' = Delivered(e)
           /\ Delivered(e)' = Delivered(e) \/ Delivered(e)' = Append(Delivered(e), m)
<1>1. /\ received[e] \in Seq(Msg) /\ Inbox(e) \in Seq(Msg) /\ received' = received
      /\ inbox' = IF m.receiver = NoEngine THEN [x \in DOMAIN inbox |-> Append(inbox[x], m)]
                  ELSE PutInto(m.receiver, m)
      BY TalkTypeFacts DEF Deliver
<1>2. received[e] \o Append(Inbox(e), m) = Append(received[e] \o Inbox(e), m)
      BY <1>1, Moved
<1>3. CASE m.receiver = e
  <2>1. Inbox(e)' = Append(Inbox(e), m)
        BY <1>1, <1>3, ConversationAssumption DEF PutInto, Inbox
  <2>2. QED
        BY <1>1, <1>2, <1>3, <2>1 DEF Delivered
<1>4. CASE m.receiver = NoEngine
  <2>1. Inbox(e)' = Inbox(e) \/ Inbox(e)' = Append(Inbox(e), m)
        BY <1>1, <1>4 DEF Inbox
  <2>2. QED
        BY <1>1, <1>2, <1>4, <2>1, ConversationAssumption DEF Delivered
<1>5. CASE m.receiver # NoEngine /\ m.receiver # e
  <2>1. Inbox(e)' = Inbox(e)
        BY <1>1, <1>5 DEF PutInto, Inbox
  <2>2. QED
        BY <1>1, <1>5, <2>1 DEF Delivered
<1>6. QED
      BY <1>3, <1>4, <1>5

(* A message more takes no answer back, and asks nothing before the first.  *)
LEMMA StillAnswered ==
    ASSUME ConversationTypeOK, NEW m \in Msg, messages' = Append(messages, m), participants' = participants,
           HasAllResponses
    PROVE  HasAllResponses'
<1>1. /\ DOMAIN messages = 1..Len(messages) /\ Len(messages) \in Nat
      /\ DOMAIN messages' = 1..(Len(messages) + 1)
      /\ \A i \in 1..Len(messages) : messages'[i] = messages[i]
      BY TalkAppended, TalkTypeFacts
<1>2. Requests \subseteq Requests' /\ Responders \subseteq Responders'
      BY <1>1 DEF Requests, Responders
<1>3. /\ Requests # {} /\ Requests \subseteq Nat /\ Requests \subseteq 1..Len(messages)
      /\ Requests' # {} /\ Requests' \subseteq Nat
  <2>1. Requests # {} /\ Requests \subseteq Nat /\ Requests \subseteq 1..Len(messages)
        BY <1>1, TalkTypeFacts DEF HasAllResponses
  <2>2. Requests' \subseteq Nat
        BY <1>1 DEF Requests
  <2>3. QED
        BY <1>2, <2>1, <2>2
<1>4. /\ Min(Requests) \in Requests /\ \A n \in Requests : Min(Requests) <= n
      /\ Min(Requests') \in Requests' /\ \A n \in Requests' : Min(Requests') <= n
      BY <1>3, MinFacts
<1>5. Min(Requests') <= Min(Requests) /\ Min(Requests') \in Nat /\ Min(Requests) \in Nat
      BY <1>2, <1>3, <1>4
<1>6. Min(Requests') \in 1..Len(messages)
  <2>1. Min(Requests) <= Len(messages) /\ Requests' \subseteq DOMAIN messages'
        BY <1>1, <1>3, <1>4 DEF Requests
  <2>2. Min(Requests') \in 1..(Len(messages) + 1)
        BY <1>1, <1>4, <2>1
  <2>3. QED
        BY <1>1, <1>5, <2>1, <2>2
<1>7. Min(Requests') \in Requests
  <2>1. \A i \in 1..Len(messages) : i \in Requests' => i \in Requests
        BY <1>1 DEF Requests
  <2>2. QED
        BY <1>4, <1>6, <2>1
<1>8. Min(Requests') = Min(Requests)
      BY <1>4, <1>5, <1>7
<1>9. Initiator' = Initiator
      BY <1>1, <1>6, <1>8 DEF Initiator
<1>10. QED
       BY <1>2, <1>3, <1>9 DEF HasAllResponses

LEMMA DeliverStep ==
    ASSUME TalkInv, NEW m \in Msg, m.id = Len(log), Deliver(m)
    PROVE  TalkInv'
<1>1. ConversationTypeOK /\ UNCHANGED <<participants, status, expired, received, agents>>
      BY DEF TalkInv, Deliver
<1>2. /\ log \in Seq(Msg) /\ messages = log
      /\ messages' = Append(messages, m) /\ log' = Append(log, m)
      /\ log' \in Seq(Msg) /\ Len(log') = Len(log) + 1 /\ Len(log) \in Nat
      /\ DOMAIN log = 1..Len(log) /\ DOMAIN log' = 1..(Len(log) + 1)
      /\ \A i \in 1..Len(log) : log'[i] = log[i]
      /\ log'[Len(log) + 1] = m /\ Range(log') = Range(log) \cup {m}
      BY <1>1, TalkAppended, TalkTypeFacts DEF TalkInv, ConversationIsTheLog, Deliver
<1>3. ConversationTypeOK'
  <2>1. m.receiver \in Engine \cup {NoEngine}
        BY DEF Msg
  <2>2. /\ DOMAIN inbox' \subseteq Engine /\ inbox' \in [DOMAIN inbox' -> Seq(Msg)]
    <3>1. /\ DOMAIN inbox \subseteq Engine
          /\ \A x \in DOMAIN inbox : inbox[x] \in Seq(Msg) /\ Append(inbox[x], m) \in Seq(Msg)
          BY <1>1 DEF ConversationTypeOK
    <3>2. CASE m.receiver = NoEngine
      <4>1. inbox' = [x \in DOMAIN inbox |-> Append(inbox[x], m)]
            BY <3>2 DEF Deliver
      <4>2. QED
            BY <3>1, <4>1
    <3>3. CASE m.receiver # NoEngine
      <4>1. inbox' = PutInto(m.receiver, m) /\ m.receiver \in Engine
            BY <2>1, <3>3 DEF Deliver
      <4>2. Append(Inbox(m.receiver), m) \in Seq(Msg)
            BY <1>1, <4>1, TalkTypeFacts
      <4>3. QED
            BY <3>1, <4>1, <4>2 DEF PutInto
    <3>4. QED
          BY <3>2, <3>3
  <2>3. collecting' \in [Collector -> {"idle", "waiting", "due"}]
        BY <1>1 DEF ConversationTypeOK, Deliver
  <2>4. QED
        BY <1>1, <1>2, <2>2, <2>3 DEF ConversationTypeOK, Deliver
<1>4. ConversationIsTheLog'
      BY <1>2 DEF ConversationIsTheLog
<1>5. LogInv'
  <2>1. ASSUME NEW i \in 1..(Len(log) + 1) PROVE log'[i].id = i - 1
    <3>1. CASE i \in 1..Len(log)
          BY <1>2, <3>1 DEF TalkInv, LogInv
    <3>2. CASE i = Len(log) + 1
          BY <1>2, <3>2
    <3>3. QED
          BY <1>2, <3>1, <3>2
  <2>2. QED
        BY <1>2, <2>1 DEF LogInv
<1>6. ASSUME NEW e \in Engine
      PROVE  /\ \A i \in DOMAIN Delivered(e)' : Delivered(e)'[i].id < Len(log')
             /\ \A i, j \in DOMAIN Delivered(e)' :
                    i < j => Delivered(e)'[i].id < Delivered(e)'[j].id
             /\ {x \in Range(Delivered(e)') : x.receiver # NoEngine}
                    = {x \in Range(log') : x.receiver = e}
  <2> DEFINE d == Delivered(e)
  <2>1. /\ d \in Seq(Msg) /\ DOMAIN d = 1..Len(d) /\ Len(d) \in Nat
        /\ DOMAIN Append(d, m) = 1..(Len(d) + 1)
        /\ \A i \in 1..Len(d) : Append(d, m)[i] = d[i]
        /\ Append(d, m)[Len(d) + 1] = m /\ Range(Append(d, m)) = Range(d) \cup {m}
        BY <1>1, TalkAppended, TalkTypeFacts
  <2>2. /\ m.receiver = e => d' = Append(d, m)
        /\ m.receiver # NoEngine /\ m.receiver # e => d' = d
        /\ d' = d \/ d' = Append(d, m)
        BY <1>1, Delivery
  <2>3. /\ \A i \in 1..Len(d) : d[i].id < Len(log)
        /\ \A i, j \in 1..Len(d) : i < j => d[i].id < d[j].id
        /\ {x \in Range(d) : x.receiver # NoEngine} = {x \in Range(log) : x.receiver = e}
        BY <2>1 DEF TalkInv, DeliveryInv, DirectlyDelivered
  <2>4. \A i \in 1..Len(d) : d[i].id \in Nat
    <3>1. \A x \in Msg : x.id \in Nat
          BY DEF Msg
    <3>2. \A i \in 1..Len(d) : d[i] \in Msg
          BY <2>1
    <3>3. QED
          BY <3>1, <3>2
  <2>5. e # NoEngine
        BY ConversationAssumption
  <2> HIDE DEF d
  <2>6. CASE d' = d
    <3>1. m.receiver # e
      <4>1. SUFFICES ASSUME m.receiver = e PROVE FALSE
            OBVIOUS
      <4>2. Len(Append(d, m)) = Len(d) + 1
            BY <2>1
      <4>3. QED
            BY <2>1, <2>2, <2>6, <4>1, <4>2
    <3>2. {x \in Range(log') : x.receiver = e} = {x \in Range(log) : x.receiver = e}
          BY <1>2, <3>1
    <3>3. QED
          BY <1>2, <2>1, <2>3, <2>4, <2>6, <3>2 DEF d
  <2>7. CASE d' = Append(d, m)
    <3>1. m.receiver \in {e, NoEngine}
      <4>1. SUFFICES ASSUME m.receiver \notin {e, NoEngine} PROVE FALSE
            OBVIOUS
      <4>2. Len(Append(d, m)) = Len(d) + 1 /\ d' = d
            BY <2>1, <2>2, <4>1
      <4>3. QED
            BY <2>1, <2>7, <4>2
    <3>2. {x \in Range(d') : x.receiver # NoEngine} = {x \in Range(log') : x.receiver = e}
          BY <1>2, <2>1, <2>3, <2>5, <2>7, <3>1
    <3>3. ASSUME NEW i \in 1..(Len(d) + 1) PROVE d'[i].id < Len(log')
      <4>1. CASE i \in 1..Len(d)
            BY <1>2, <2>1, <2>3, <2>4, <2>7, <4>1
      <4>2. CASE i = Len(d) + 1
            BY <1>2, <2>1, <2>7, <4>2
      <4>3. QED
            BY <2>1, <4>1, <4>2
    <3>4. ASSUME NEW i \in 1..(Len(d) + 1), NEW j \in 1..(Len(d) + 1), i < j
          PROVE  d'[i].id < d'[j].id
      <4>1. i \in 1..Len(d) /\ d'[i] = d[i]
            BY <2>1, <2>7, <3>4
      <4>2. CASE j \in 1..Len(d)
            BY <2>1, <2>3, <2>7, <3>4, <4>1, <4>2
      <4>3. CASE j = Len(d) + 1
            BY <2>1, <2>3, <2>7, <4>1, <4>3
      <4>4. QED
            BY <2>1, <4>2, <4>3
    <3>5. QED
          BY <2>1, <2>7, <3>2, <3>3, <3>4 DEF d
  <2>8. QED
        BY <2>2, <2>6, <2>7
<1>7. DeliveryInv'
      BY <1>6 DEF DeliveryInv
<1>8. DirectlyDelivered'
      BY <1>6 DEF DirectlyDelivered
<1>9. AnsweredInv'
      BY <1>1, <1>2, StillAnswered DEF TalkInv, AnsweredInv
<1>10. QED
       BY <1>3, <1>4, <1>5, <1>7, <1>8, <1>9 DEF TalkInv

-----------------------------------------------------------------------------
(* The steps.                                                               *)
LEMMA TalkInitInv == ConversationInit => TalkInv
<1> SUFFICES ASSUME ConversationInit PROVE TalkInv
    OBVIOUS
<1>1. <<>> \in Seq(Msg) /\ <<>> \in Seq(Agents) /\ DOMAIN <<>> = {}
      OBVIOUS
<1>2. DOMAIN inbox = {} /\ inbox \in [{} -> Seq(Msg)]
      BY DEF ConversationInit
<1>3. ConversationTypeOK
  <2>1. participants \in Seq(Engine)
        BY ConversationAssumption DEF ConversationInit
  <2>2. QED
        BY <1>1, <1>2, <2>1 DEF ConversationInit, ConversationTypeOK
<1>4. ASSUME NEW e \in Engine PROVE Delivered(e) = <<>>
  <2>1. received[e] = <<>> /\ Inbox(e) = <<>>
        BY <1>2 DEF ConversationInit, Inbox
  <2>2. QED
        BY <2>1 DEF Delivered
<1>5. DeliveryInv
      BY <1>1, <1>4 DEF DeliveryInv
<1>6. DirectlyDelivered
  <2>1. Range(<<>>) = {} /\ log = <<>>
        BY <1>1 DEF Range, ConversationInit
  <2>2. QED
        BY <1>1, <1>4, <2>1 DEF DirectlyDelivered
<1>7. QED
      BY <1>1, <1>3, <1>5, <1>6 DEF ConversationInit, TalkInv, ConversationIsTheLog, LogInv, AnsweredInv

LEMMA SendMessageStep == TalkInv /\ SendA2AMessage => TalkInv'
<1> SUFFICES ASSUME TalkInv, SendA2AMessage PROVE TalkInv'
    OBVIOUS
<1>1. PICK sender \in Engine, action \in Action, given \in Engine \cup {NoEngine} :
        Deliver(A2AMessage("request", sender,
                        IF given # NoEngine THEN given ELSE SelectReceiver(action, agents, sender)))
      BY DEF SendA2AMessage
<1> DEFINE receiver == IF given # NoEngine THEN given ELSE SelectReceiver(action, agents, sender)
           m == A2AMessage("request", sender, receiver)
<1>2. Len(log) \in Nat /\ agents \in Seq(Agents)
      BY TalkTypeFacts DEF TalkInv, ConversationTypeOK
<1>3. receiver \in Engine \cup {NoEngine}
      BY <1>2, ReceiverFacts
<1> HIDE DEF receiver
<1>4. m \in Msg /\ m.id = Len(log)
      BY <1>2, <1>3 DEF A2AMessage, Msg
<1>5. Deliver(m)
      BY <1>1 DEF receiver
<1> HIDE DEF m
<1>6. QED
      BY <1>4, <1>5, DeliverStep

LEMMA ReplyMessageStep == TalkInv /\ ReplyA2AMessage => TalkInv'
<1> SUFFICES ASSUME TalkInv, ReplyA2AMessage PROVE TalkInv'
    OBVIOUS
<1>1. PICK sender \in Engine, i \in DOMAIN messages :
        Deliver(A2AMessage("response", sender, messages[i].sender))
      BY DEF ReplyA2AMessage
<1> DEFINE m == A2AMessage("response", sender, messages[i].sender)
<1>2. Len(log) \in Nat /\ messages[i] \in Msg
      BY TalkTypeFacts DEF TalkInv
<1>3. m \in Msg /\ m.id = Len(log)
      BY <1>2 DEF A2AMessage, Msg
<1>4. Deliver(m)
      BY <1>1
<1> HIDE DEF m
<1>5. QED
      BY <1>3, <1>4, DeliverStep

(* Steps that touch neither the messages nor what is delivered.             *)
LEMMA TalkQuietStep ==
    ASSUME TalkInv, ConversationTypeOK', UNCHANGED <<participants, status, messages, log>>,
           \A e \in Engine : Delivered(e)' = Delivered(e)
    PROVE  TalkInv'
<1>1. ConversationIsTheLog' /\ LogInv'
      BY DEF TalkInv, ConversationIsTheLog, LogInv
<1>2. DeliveryInv'
      BY DEF TalkInv, DeliveryInv
<1>3. DirectlyDelivered'
      BY DEF TalkInv, DirectlyDelivered
<1>4. AnsweredInv'
      BY DEF TalkInv, AnsweredInv, HasAllResponses, Requests, Responders, Initiator
<1>5. QED
      BY <1>1, <1>2, <1>3, <1>4 DEF TalkInv

LEMMA StillDelivered ==
    ASSUME UNCHANGED <<inbox, received>>
    PROVE  \A e \in Engine : Delivered(e)' = Delivered(e)
BY DEF Delivered, Inbox

LEMMA CollectorStep ==
    ASSUME TalkInv, NEW c \in Collector, StartCollecting(c) \/ GiveUpWaiting(c)
    PROVE  TalkInv'
<1>1. /\ UNCHANGED <<conversation, broker, agents>>
      /\ collecting' \in [Collector -> {"idle", "waiting", "due"}]
  <2>1. collecting \in [Collector -> {"idle", "waiting", "due"}]
        BY DEF TalkInv, ConversationTypeOK
  <2>2. CASE StartCollecting(c)
        BY <2>1, <2>2 DEF StartCollecting
  <2>3. CASE GiveUpWaiting(c)
        BY <2>1, <2>3 DEF GiveUpWaiting
  <2>4. QED
        BY <2>2, <2>3
<1>2. ConversationTypeOK'
      BY <1>1 DEF TalkInv, ConversationTypeOK, conversation, broker
<1>3. QED
      BY <1>1, <1>2, TalkQuietStep, StillDelivered DEF conversation, broker

(* Collecting adds nothing: every reply of the log is known already.        *)
LEMMA FinishCollectingStep ==
    ASSUME TalkInv, NEW c \in Collector, FinishCollecting(c)
    PROVE  TalkInv'
<1> DEFINE fresh == {i \in DOMAIN log : Fresh(log[i])}
<1>1. fresh = {}
      BY DEF TalkInv, ConversationIsTheLog, Fresh, Range
<1>2. Kept(log, {}) = <<>>
  <2>1. Cardinality({}) = 0 /\ 1..0 = {}
        BY FS_EmptySet
  <2>2. QED
        BY <2>1 DEF Kept
<1>3. messages' = messages
  <2>1. messages' = messages \o <<>> /\ messages \in Seq(Msg)
        BY <1>1, <1>2, TalkTypeFacts DEF FinishCollecting, TalkInv
  <2>2. QED
        BY <2>1, ConcatEmptySeq
<1>4. /\ UNCHANGED <<participants, status, expired, broker, agents>>
      /\ collecting' \in [Collector -> {"idle", "waiting", "due"}]
      BY DEF FinishCollecting, TalkInv, ConversationTypeOK
<1>5. ConversationTypeOK'
      BY <1>3, <1>4 DEF TalkInv, ConversationTypeOK, broker
<1>6. QED
      BY <1>3, <1>4, <1>5, TalkQuietStep, StillDelivered DEF broker

LEMMA CheckConversationStep == TalkInv /\ CheckConversation => TalkInv'
<1> SUFFICES ASSUME TalkInv, CheckConversation PROVE TalkInv'
    OBVIOUS
<1>1. /\ UNCHANGED <<participants, messages, expired, broker, agents, collecting>>
      /\ status' \in {"open", "timeout", "resolved"}
      /\ status' = "resolved" => status = "resolved" \/ HasAllResponses
      BY DEF CheckConversation, TalkInv, ConversationTypeOK
<1>2. ConversationTypeOK'
      BY <1>1 DEF TalkInv, ConversationTypeOK, broker
<1>3. AnsweredInv'
      BY <1>1 DEF TalkInv, AnsweredInv, HasAllResponses, Requests, Responders, Initiator
<1>4. \A e \in Engine : Delivered(e)' = Delivered(e)
      BY <1>1, StillDelivered DEF broker
<1>5. ConversationIsTheLog' /\ LogInv' /\ DeliveryInv'
      BY <1>1, <1>4 DEF TalkInv, ConversationIsTheLog, LogInv, DeliveryInv, broker
<1>6. DirectlyDelivered'
      BY <1>1, <1>4 DEF TalkInv, DirectlyDelivered, broker
<1>7. QED
      BY <1>2, <1>3, <1>5, <1>6 DEF TalkInv

LEMMA ReceiveStep ==
    ASSUME TalkInv, NEW e \in Engine, Receive(e)
    PROVE  TalkInv'
<1>1. /\ ConversationTypeOK /\ UNCHANGED <<conversation, log, announced, agents, collecting>>
      /\ Inbox(e) \in Seq(Msg) /\ received[e] \in Seq(Msg)
      BY TalkTypeFacts DEF Receive, TalkInv
<1>2. CASE Inbox(e) = <<>>
  <2>1. inbox' = [x \in DOMAIN inbox \cup {e} |-> Inbox(x)] /\ received' = received
        BY <1>2 DEF Receive
  <2>2. ConversationTypeOK'
    <3>1. \A x \in DOMAIN inbox \cup {e} : x \in Engine /\ Inbox(x) \in Seq(Msg)
          BY <1>1, TalkTypeFacts DEF ConversationTypeOK
    <3>2. DOMAIN inbox' \subseteq Engine /\ inbox' \in [DOMAIN inbox' -> Seq(Msg)]
          BY <2>1, <3>1
    <3>3. QED
          BY <1>1, <2>1, <3>2 DEF ConversationTypeOK, conversation
  <2>3. ASSUME NEW x \in Engine PROVE Delivered(x)' = Delivered(x)
    <3>1. Inbox(x)' = Inbox(x)
          BY <1>2, <2>1 DEF Inbox
    <3>2. QED
          BY <2>1, <3>1 DEF Delivered
  <2>4. QED
        BY <1>1, <2>2, <2>3, TalkQuietStep DEF conversation
<1>3. CASE Inbox(e) # <<>>
  <2>1. /\ inbox' = [inbox EXCEPT ![e] = Tail(inbox[e])]
        /\ received' = [received EXCEPT ![e] = Append(received[e], Head(inbox[e]))]
        BY <1>3 DEF Receive
  <2>2. e \in DOMAIN inbox /\ Inbox(e) = inbox[e]
        BY <1>3 DEF Inbox
  <2>3. /\ Tail(inbox[e]) \in Seq(Msg) /\ Head(inbox[e]) \in Msg
        /\ Append(received[e], Head(inbox[e])) \in Seq(Msg)
        BY <1>1, <1>3, <2>2
  <2>4. DOMAIN inbox' = DOMAIN inbox /\ DOMAIN received = Engine
        BY <1>1, <2>1 DEF ConversationTypeOK
  <2>5. ConversationTypeOK'
    <3>1. inbox' \in [DOMAIN inbox' -> Seq(Msg)] /\ received' \in [Engine -> Seq(Msg)]
          BY <1>1, <2>1, <2>3 DEF ConversationTypeOK
    <3>2. QED
          BY <1>1, <2>4, <3>1 DEF ConversationTypeOK, conversation
  <2>6. ASSUME NEW x \in Engine PROVE Delivered(x)' = Delivered(x)
    <3>1. CASE x = e
      <4>1. Inbox(e)' = Tail(inbox[e]) /\ received'[e] = Append(received[e], Head(inbox[e]))
            BY <2>1, <2>2, <2>4 DEF Inbox
      <4>2. QED
            BY <1>1, <1>3, <2>2, <3>1, <4>1, Moved DEF Delivered
    <3>2. CASE x # e
      <4>1. Inbox(x)' = Inbox(x) /\ received'[x] = received[x]
            BY <2>1, <2>4, <3>2 DEF Inbox
      <4>2. QED
            BY <4>1 DEF Delivered
    <3>3. QED
          BY <3>1, <3>2
  <2>7. QED
        BY <1>1, <2>5, <2>6, TalkQuietStep DEF conversation
<1>4. QED
      BY <1>2, <1>3

LEMMA RegistryStep == TalkInv /\ (RegisterAgent \/ DeregisterAgent) => TalkInv'
<1> SUFFICES ASSUME TalkInv, RegisterAgent \/ DeregisterAgent PROVE TalkInv'
    OBVIOUS
<1>1. agents \in Seq(Agents)
      BY DEF TalkInv, ConversationTypeOK
<1>2. UNCHANGED <<conversation, broker, collecting>>
      BY DEF RegisterAgent, DeregisterAgent
<1>3. agents' \in Seq(Agents)
  <2>1. CASE RegisterAgent
        BY <1>1, <2>1 DEF RegisterAgent
  <2>2. CASE DeregisterAgent
    <3>1. PICK i \in DOMAIN agents : agents' = RemoveAt(agents, i)
          BY <2>2 DEF DeregisterAgent
    <3>2. SubSeq(agents, 1, i - 1) \in Seq(Agents) /\ SubSeq(agents, i + 1, Len(agents)) \in Seq(Agents)
          BY <1>1, <3>1
    <3>3. QED
          BY <3>1, <3>2, ConcatProperties DEF RemoveAt
  <2>3. QED
        BY <2>1, <2>2
<1>4. ConversationTypeOK'
      BY <1>2, <1>3 DEF TalkInv, ConversationTypeOK, conversation, broker
<1>5. QED
      BY <1>2, <1>4, TalkQuietStep, StillDelivered DEF conversation, broker

LEMMA ExpireStep == TalkInv /\ Expire => TalkInv'
<1> SUFFICES ASSUME TalkInv, Expire PROVE TalkInv'
    OBVIOUS
<1>1. ConversationTypeOK'
      BY DEF Expire, TalkInv, ConversationTypeOK, broker
<1>2. QED
      BY <1>1, TalkQuietStep, StillDelivered DEF Expire, broker

LEMMA TalkStepInv == TalkInv /\ [ConversationNext]_conversationVars => TalkInv'
<1> SUFFICES ASSUME TalkInv, [ConversationNext]_conversationVars PROVE TalkInv'
    OBVIOUS
<1>1. CASE UNCHANGED conversationVars
  <2>1. ConversationTypeOK'
        BY <1>1 DEF conversationVars, TalkInv, ConversationTypeOK
  <2>2. QED
        BY <1>1, <2>1, TalkQuietStep, StillDelivered DEF conversationVars
<1>2. ASSUME NEW c \in Collector, StartCollecting(c) \/ GiveUpWaiting(c) \/ FinishCollecting(c)
      PROVE  TalkInv'
      BY <1>2, CollectorStep, FinishCollectingStep
<1>3. ASSUME NEW e \in Engine, Receive(e) PROVE TalkInv'
      BY <1>3, ReceiveStep
<1>4. QED
      BY <1>1, <1>2, <1>3, SendMessageStep, ReplyMessageStep, CheckConversationStep, ExpireStep,
         RegistryStep DEF ConversationNext

(* The inductive invariant holds of every reachable state.                  *)
THEOREM TalkInvCorrect == ConversationSpec => []TalkInv
BY TalkInitInv, TalkStepInv, PTL DEF ConversationSpec

(* However many collectors poll a conversation while it is written to, it   *)
(* holds what the broker took, each message once and in its order           *)
(* (collect_replies).                                                       *)
THEOREM LogIsKept == ConversationSpec => []ConversationIsTheLog
<1>1. TalkInv => ConversationIsTheLog
      BY DEF TalkInv
<1>2. QED
      BY <1>1, TalkInvCorrect, PTL

(* An engine is given every message sent to it, once, in order, and none    *)
(* that was sent to another (send, receive of the broker).                  *)
THEOREM MessagesArrive == ConversationSpec => []DirectlyDelivered
<1>1. TalkInv => DirectlyDelivered
      BY DEF TalkInv
<1>2. QED
      BY <1>1, TalkInvCorrect, PTL

(* A conversation that is resolved was answered by all it waited for, and   *)
(* its summary has nobody pending (has_all_responses,                       *)
(* get_pending_participants).                                               *)
THEOREM ResolvedIsAnswered == ConversationSpec => []ResolvedMeansAnswered
<1>1. Requests # {} => (HasAllResponses <=> PendingParticipants = {})
      BY DEF HasAllResponses, PendingParticipants
<1>2. HasAllResponses => Requests # {}
      BY DEF HasAllResponses
<1>3. TalkInv => ResolvedMeansAnswered
      BY <1>1, <1>2 DEF TalkInv, AnsweredInv, ResolvedMeansAnswered
<1>4. QED
      BY <1>3, TalkInvCorrect, PTL
=============================================================================
