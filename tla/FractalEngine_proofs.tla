------------------------ MODULE FractalEngine_proofs ------------------------
(***************************************************************************)
(* Theorems about FractalEngine, for every tree of nodes and every setting  *)
(* of depth, retries, reflection rounds and permits.                        *)
(*                                                                          *)
(* FrameInv and NodeInv say how the running coroutines hang together: who   *)
(* waits for whom.  Both speak of a node and its own plan only; that the    *)
(* whole line of plans above a node is waiting too follows by looking at    *)
(* the smallest node for which it would fail, for a parent's number is      *)
(* smaller than its child's.  RowInv relates the SubTasks to them.          *)
(***************************************************************************)
EXTENDS FractalEngine, FiniteSetTheorems, TLAPS

Unsettled(n) == at[n] \notin {"idle", "done", "raised"}

(* A plan holds nodes of its own, and waits in its loop for nothing else.   *)
FrameOK(p) ==
    /\ frame[p].pending \cup frame[p].batch \subseteq Members(p) \ Conditional
    /\ frame[p].completed \subseteq Members(p)
    /\ frame[p].pending \cap frame[p].batch = {}
    /\ frame[p].at # "head" => frame[p].pending = {}
    /\ frame[p].at \notin {"batch", "post", "fallback"} => frame[p].batch = {}
    /\ frame[p].at = "reflect" => p = 0 /\ rounds < MaxRounds
    /\ p = 0 => (frame[p].at # "closed" <=> phase = "executing")
    /\ p # 0 => (frame[p].at # "closed" <=> at[p] = "children")
    /\ frame[p].at = "fallback" => frame[p].batch # {} /\ at[Current(p)] = "raised"
    /\ \A n \in frame[p].batch : at[n] # "idle" /\ (frame[p].at # "batch" => Settled(n))

FrameInv == \A p \in Plan : FrameOK(p)

(* Whoever is there is waited for, and a step has one fallback at a time.   *)
NodeOK(n) ==
    /\ at[n] \in {"planning", "children"} => n \in Plan
    /\ at[n] # "idle" =>
          /\ Parent[n] \in Plan
          /\ n \in Conditional => /\ frame[Parent[n]].at = "fallback"
                                  /\ Current(Parent[n]) = Fallback[n]
          /\ n \notin Conditional => n \in frame[Parent[n]].batch
    /\ at[n] = "raised" => status[n] = "FAILED"
    /\ at[n] = "done" => status[n] \in {"SUCCESS", "FAILED"}

NodeInv ==
    /\ \A n \in Node : NodeOK(n)
    /\ \A c, d \in Conditional :
            at[c] # "idle" /\ at[d] # "idle" /\ Parent[c] = Parent[d] => c = d

(* The row of a step that its fallback replaces is gone; every other node   *)
(* of a running plan has one, and a completed one shows its outcome.        *)
Replaced(p, n) == frame[p].at = "fallback" /\ n = Current(p)

OutcomeShown(p, n) ==
    /\ at[n] = "idle" /\ rows[n] # <<>> /\ rows[n][1] = status[n]
    /\ status[n] \in {"SUCCESS", "FAILED"}
    /\ n \notin frame[p].pending \cup frame[p].batch
    /\ n \in Conditional => Fallback[n] \notin frame[p].pending \cup frame[p].batch

RowOK(p) ==
    frame[p].at # "closed" =>
        /\ \A n \in frame[p].pending \cup frame[p].batch : rows[n] = <<>> <=> Replaced(p, n)
        /\ \A n \in frame[p].completed : OutcomeShown(p, n)
        /\ p = 0 => \A n \in Members(0) : rows[n] # <<>> =>
                at[n] # "idle" \/ n \in frame[0].pending \cup frame[0].completed

RowLive(n) ==
    /\ n \in Conditional /\ at[n] # "idle" => rows[n] # <<>>
    /\ rows[n] # <<>> /\ rows[n][1] = "RUNNING" => at[n] # "idle"

RowInv ==
    /\ \A p \in Plan : RowOK(p)
    /\ \A n \in Node : RowLive(n)
    /\ phase = "planning" => \A n \in Node : rows[n] = <<>>
    /\ RowsSettled
    /\ VerdictMatchesRows

HolderInv == Permits = 0 \/ Cardinality(Holders) <= Permits

Scaffold == TypeOK /\ FrameInv /\ NodeInv

-----------------------------------------------------------------------------
(* Numbers and nodes.                                                       *)
LEMMA Smallest ==
    ASSUME NEW S, S \subseteq Nat, S # {}
    PROVE  \E m \in S : \A n \in S : m <= n
<1>1. \A R, D, T : IsWellFoundedOn(R, D) /\ T \subseteq D /\ T # {} =>
            \E x \in T : \A y \in T : ~(<<y, x>> \in R)
      BY WFMin, Zenon
<1>2. PICK m \in S : \A n \in S : ~(<<n, m>> \in OpToRel(<, Nat))
      BY <1>1, NatLessThanWellFounded, Zenon
<1>3. \A n \in S : ~(n < m)
      BY <1>2 DEF OpToRel
<1>4. QED
      BY <1>3

LEMMA NodeFacts ==
    /\ 0 \in Plan /\ Plan \subseteq Node \cup {0} /\ 0 \notin Node
    /\ Node \subseteq Nat /\ Conditional \subseteq Node
    /\ \A n \in Node : n \in Nat /\ Parent[n] \in Node \cup {0} /\ Parent[n] < n
    /\ \A n \in Node : Expands(n) <=> n \in Plan
    /\ \A c \in Conditional : Fallback[c] \in Planned /\ Parent[Fallback[c]] = Parent[c]
    /\ \A p, n : n \in Members(p) <=> n \in Node /\ Parent[n] = p
    /\ Planned \subseteq Node \ Conditional /\ Planned \cap Suggested = {}
    /\ Suggested \subseteq Members(0) \ Conditional
BY TreeAssumption DEF Plan, Members, Planned, Conditional

LEMMA TreeFacts ==
    /\ 0 \notin Node /\ Node \subseteq Nat /\ Conditional \subseteq Node
    /\ \A n \in Node : /\ n \in Nat /\ Parent[n] \in Nat /\ Parent[n] < n
                       /\ Parent[n] \in Node \cup {0}
<1>1. /\ 0 \notin Node /\ Node \subseteq Nat /\ Conditional \subseteq Node
      /\ \A n \in Node : Parent[n] \in Node \cup {0} /\ Parent[n] < n
      BY NodeFacts
<1>2. ASSUME NEW n \in Node
      PROVE  Parent[n] \in Nat
  <2>1. CASE Parent[n] = 0
        BY <2>1
  <2>2. CASE Parent[n] \in Node
        BY <1>1, <2>2
  <2>3. QED
        BY <1>1, <2>1, <2>2
<1>3. \A n \in Node : n \in Nat
      BY <1>1
<1>4. QED
      BY <1>1, <1>2, <1>3

LEMMA CurrentFacts ==
    ASSUME NEW S, S \subseteq Node, S # {}
    PROVE  Min(S) \in S
<1>1. \E m \in S : \A n \in S : m =< n
      BY Smallest, NodeFacts
<1>2. QED
      BY <1>1 DEF Min

(* Rows of SubTasks.                                                        *)
LEMMA FirstFacts ==
    ASSUME NEW r \in Seq(Status), NEW st \in Status
    PROVE  /\ First(r, st) \in Seq(Status)
           /\ First(r, st) = <<>> <=> r = <<>>
           /\ r # <<>> => First(r, st)[1] = st
BY DEF First

LEMMA ShownFacts ==
    ASSUME NEW R \in [Node -> Seq(Status)], NEW nodes, NEW st,
           \A n \in Node \cap nodes : st[n] \in Status
    PROVE  /\ Shown(R, nodes, st) \in [Node -> Seq(Status)]
           /\ \A n \in Node : Shown(R, nodes, st)[n] = <<>> <=> R[n] = <<>>
           /\ \A n \in Node \ nodes : Shown(R, nodes, st)[n] = R[n]
           /\ \A n \in Node \cap nodes : R[n] # <<>> => Shown(R, nodes, st)[n][1] = st[n]
<1>1. \A n \in Node \cap nodes : /\ First(R[n], st[n]) \in Seq(Status)
                                 /\ First(R[n], st[n]) = <<>> <=> R[n] = <<>>
                                 /\ R[n] # <<>> => First(R[n], st[n])[1] = st[n]
      BY FirstFacts
<1>2. QED
      BY <1>1 DEF Shown

LEMMA ListedFacts ==
    ASSUME NEW R \in [Node -> Seq(Status)], NEW nodes
    PROVE  /\ Listed(R, nodes) \in [Node -> Seq(Status)]
           /\ \A n \in Node \ nodes : Listed(R, nodes)[n] = R[n]
           /\ \A n \in Node \cap nodes :
                /\ Listed(R, nodes)[n] # <<>>
                /\ Listed(R, nodes)[n][1] =
                      IF R[n] = <<>> THEN "PENDING" ELSE R[n][1]
<1>1. "PENDING" \in Status
      BY DEF Status
<1>2. ASSUME NEW r \in Seq(Status)
      PROVE  /\ Append(r, "PENDING") \in Seq(Status) /\ Append(r, "PENDING") # <<>>
             /\ Append(r, "PENDING")[1] = IF r = <<>> THEN "PENDING" ELSE r[1]
  <2>1. Append(r, "PENDING") \in Seq(Status) /\ Len(Append(r, "PENDING")) = Len(r) + 1
        BY <1>1
  <2>2. CASE r = <<>>
        BY <2>1, <2>2
  <2>3. CASE r # <<>>
        BY <2>1, <2>3
  <2>4. QED
        BY <2>2, <2>3
<1>3. QED
      BY <1>2 DEF Listed

LEMMA SweptFacts ==
    ASSUME NEW R \in [Node -> Seq(Status)]
    PROVE  /\ Swept(R) \in [Node -> Seq(Status)]
           /\ \A n \in Node : Swept(R)[n] = <<>> <=> R[n] = <<>>
           /\ \A n \in Node : \A i \in DOMAIN Swept(R)[n] :
                /\ i \in DOMAIN R[n] /\ Swept(R)[n][i] \notin {"PENDING", "RUNNING"}
                /\ R[n][i] \notin {"PENDING", "RUNNING"} => Swept(R)[n][i] = R[n][i]
           /\ \A n \in Node : R[n] # <<>> => 1 \in DOMAIN Swept(R)[n]
<1>1. ASSUME NEW n \in Node
      PROVE  LET s == [i \in DOMAIN R[n] |->
                          IF R[n][i] \in {"PENDING", "RUNNING"} THEN "FAILED" ELSE R[n][i]]
             IN  /\ s \in Seq(Status)
                 /\ s = <<>> <=> R[n] = <<>>
                 /\ DOMAIN s = DOMAIN R[n]
                 /\ R[n] # <<>> => 1 \in DOMAIN s
  <2>1. R[n] \in Seq(Status) /\ DOMAIN R[n] = 1..Len(R[n]) /\ Len(R[n]) \in Nat
        OBVIOUS
  <2>2. \A i \in 1..Len(R[n]) : R[n][i] \in Status
        BY <2>1
  <2> DEFINE s == [i \in 1..Len(R[n]) |->
                     IF R[n][i] \in {"PENDING", "RUNNING"} THEN "FAILED" ELSE R[n][i]]
  <2>3. s \in [1..Len(R[n]) -> Status]
        BY <2>2 DEF Status
  <2>4. s \in Seq(Status) /\ Len(s) = Len(R[n])
        BY <2>1, <2>3
  <2>5. ASSUME NEW q \in Seq(Status) PROVE q = <<>> <=> Len(q) = 0
        OBVIOUS
  <2>6. s = <<>> <=> R[n] = <<>>
        BY <2>1, <2>4, <2>5
  <2>7. DOMAIN s = DOMAIN R[n]
        BY <2>1
  <2>8. R[n] # <<>> => 1 \in DOMAIN s
        BY <2>1, <2>5, <2>7
  <2>9. s = [i \in DOMAIN R[n] |->
               IF R[n][i] \in {"PENDING", "RUNNING"} THEN "FAILED" ELSE R[n][i]]
        BY <2>1
  <2>10. QED
        BY <2>4, <2>6, <2>7, <2>8, <2>9, Zenon
<1>2. Swept(R) \in [Node -> Seq(Status)]
      BY <1>1 DEF Swept
<1>3. ASSUME NEW n \in Node
      PROVE  /\ Swept(R)[n] = [i \in DOMAIN R[n] |->
                    IF R[n][i] \in {"PENDING", "RUNNING"} THEN "FAILED" ELSE R[n][i]]
             /\ Swept(R)[n] = <<>> <=> R[n] = <<>>
             /\ DOMAIN Swept(R)[n] = DOMAIN R[n]
             /\ R[n] # <<>> => 1 \in DOMAIN Swept(R)[n]
  <2>1. Swept(R)[n] = [i \in DOMAIN R[n] |->
                    IF R[n][i] \in {"PENDING", "RUNNING"} THEN "FAILED" ELSE R[n][i]]
        BY DEF Swept
  <2>2. QED
        BY <2>1, <1>1, Zenon
<1>4. QED
      BY <1>2, <1>3

-----------------------------------------------------------------------------
(* The structure.                                                           *)
LEMMA WaitedFor ==
    ASSUME Scaffold, NEW n \in Node, at[n] # "idle"
    PROVE  /\ Parent[n] \in Plan
           /\ frame[Parent[n]].at \in {"batch", "post", "fallback"}
           /\ n \in Conditional => frame[Parent[n]].at = "fallback"
           /\ Unsettled(n) /\ n \notin Conditional => frame[Parent[n]].at = "batch"
           /\ Parent[n] # 0 => Parent[n] \in Node /\ at[Parent[n]] = "children"
           /\ Parent[n] = 0 => phase = "executing"
<1>1. /\ Parent[n] \in Plan
      /\ n \in Conditional => frame[Parent[n]].at = "fallback"
      /\ n \notin Conditional => n \in frame[Parent[n]].batch
      BY DEF Scaffold, NodeInv, NodeOK
<1>2. n \notin Conditional => frame[Parent[n]].at \in {"batch", "post", "fallback"}
      BY <1>1 DEF Scaffold, FrameInv, FrameOK
<1>3. Unsettled(n) /\ n \notin Conditional => frame[Parent[n]].at = "batch"
      BY <1>1 DEF Scaffold, FrameInv, FrameOK, Unsettled, Settled
<1>4. /\ Parent[n] # 0 => at[Parent[n]] = "children"
      /\ Parent[n] = 0 => phase = "executing"
  <2>1. frame[Parent[n]].at # "closed"
        BY <1>1, <1>2
  <2>2. QED
        BY <1>1, <2>1 DEF Scaffold, FrameInv, FrameOK
<1>5. QED
      BY <1>1, <1>2, <1>3, <1>4, NodeFacts

LEMMA Quiet ==
    ASSUME Scaffold, phase # "executing"
    PROVE  /\ \A n \in Node : at[n] = "idle"
           /\ \A p \in Plan : frame[p].at = "closed"
<1> DEFINE L == {n \in Node : at[n] # "idle"}
<1>1. L = {}
  <2> SUFFICES ASSUME L # {} PROVE FALSE
      OBVIOUS
  <2>1. PICK m \in L : \A n \in L : m <= n
        BY Smallest, NodeFacts
  <2>2. Parent[m] # 0 /\ at[Parent[m]] = "children" /\ Parent[m] \in Node
        BY <2>1, WaitedFor
  <2>3. Parent[m] \in L
        BY <2>2
  <2>4. m \in Nat /\ Parent[m] \in Nat /\ Parent[m] < m
        BY <2>1, <2>2, NodeFacts
  <2>5. m <= Parent[m]
        BY <2>1, <2>3
  <2>6. QED
        BY <2>4, <2>5
<1>2. QED
      BY <1>1, NodeFacts DEF Scaffold, FrameInv, FrameOK

LEMMA Structure == Scaffold => StructuredConcurrency
<1> SUFFICES ASSUME Scaffold, NEW n \in Node, at[n] \notin {"idle", "done", "raised"}
             PROVE  LET p == Parent[n] IN
                      /\ phase = "executing"
                      /\ frame[p].at = IF n \in Conditional THEN "fallback" ELSE "batch"
                      /\ p # 0 => at[p] = "children"
    BY DEF StructuredConcurrency
<1>1. phase = "executing"
      BY Quiet
<1>2. QED
      BY <1>1, WaitedFor DEF Unsettled

LEMMA InitScaffold == Init => Scaffold
<1> SUFFICES ASSUME Init PROVE Scaffold
    OBVIOUS
<1>1. TypeOK
  <2>1. Closed \in Frame
        BY DEF Closed, Frame
  <2>2. <<>> \in Seq(Status) /\ "PENDING" \in Status /\ "idle" \in Stage
        BY DEF Status, Stage
  <2>3. 0 \in 0..MaxRounds /\ 0 \in 0..MaxRetries
        BY LimitAssumption
  <2>4. /\ status \in [Node -> Status] /\ at \in [Node -> Stage]
        /\ tries \in [Node -> 0..MaxRetries]
        /\ frame \in [Plan -> Frame] /\ rows \in [Node -> Seq(Status)]
        BY <2>1, <2>2, <2>3 DEF Init
  <2>5. QED
        BY <2>3, <2>4 DEF Init, TypeOK
<1>2. FrameInv
      BY NodeFacts DEF Init, FrameInv, FrameOK, Closed
<1>3. NodeInv
      BY NodeFacts DEF Init, NodeInv, NodeOK
<1>4. QED
      BY <1>1, <1>2, <1>3 DEF Scaffold

LEMMA FrameIs ==
    ASSUME TypeOK, NEW p \in Plan, NEW f \in Frame, frame' = [frame EXCEPT ![p] = f]
    PROVE  /\ frame' \in [Plan -> Frame] /\ frame'[p] = f
           /\ \A q \in Plan \ {p} : frame'[q] = frame[q]
BY DEF TypeOK

LEMMA OpenedFacts ==
    ASSUME NEW S \in SUBSET Node
    PROVE  /\ Opened(S) \in Frame /\ Opened(S).at = "head" /\ Opened(S).pending = S
           /\ Opened(S).batch = {} /\ Opened(S).completed = {}
BY DEF Opened, Closed, Frame

LEMMA ClosedFacts ==
    /\ Closed \in Frame /\ Closed.at = "closed" /\ Closed.pending = {}
    /\ Closed.batch = {} /\ Closed.completed = {}
BY DEF Closed, Frame

(* What an action leaves alone stays as it was.                             *)
LEMMA FrameKept ==
    ASSUME Scaffold, NEW q \in Plan, frame'[q] = frame[q],
           q = 0 => phase' = phase /\ rounds' = rounds,
           q # 0 => (at[q] = "children" <=> at'[q] = "children"),
           \A m \in frame[q].batch : at'[m] = at[m] \/ (/\ frame[q].at = "batch"
                                                         /\ at'[m] # "idle")
    PROVE  FrameOK(q)'
<1>1. FrameOK(q)
      BY DEF Scaffold, FrameInv
<1>2. frame[q].at = "fallback" => Current(q) \in frame[q].batch
      BY <1>1, CurrentFacts, NodeFacts DEF FrameOK, Current
<1>3. Current(q)' = Current(q)
      BY DEF Current
<1>4. frame[q].at = "fallback" => at'[Current(q)] = at[Current(q)]
      BY <1>2
<1>5. QED
      BY <1>1, <1>3, <1>4, NodeFacts DEF FrameOK, Settled

LEMMA NodeKept ==
    ASSUME Scaffold, NEW n \in Node, at'[n] = at[n],
           at[n] = "idle" \/ (frame'[Parent[n]] = frame[Parent[n]] /\ status'[n] = status[n])
    PROVE  NodeOK(n)'
BY DEF Scaffold, NodeInv, NodeOK, Current

(* A coroutine gets from one await to the next.                             *)
LEMMA NodeMoves ==
    ASSUME Scaffold, NEW n \in Node, at[n] \in {"queued", "inner", "planning", "gate"},
           NEW s \in Stage \ {"idle", "children"}, s = "planning" => Expands(n),
           NEW st \in Status, s = "raised" => st = "FAILED",
           s = "done" => st \in {"SUCCESS", "FAILED"},
           at' = [at EXCEPT ![n] = s], status' = [status EXCEPT ![n] = st],
           tries' \in [Node -> 0..MaxRetries],
           UNCHANGED <<phase, task, late, rounds, frame, rows>>
    PROVE  Scaffold'
<1>1. TypeOK'
      BY DEF Scaffold, TypeOK
<1>2. ASSUME NEW q \in Plan PROVE FrameOK(q)'
  <2>1. FrameOK(q) /\ at \in [Node -> Stage]
        BY DEF Scaffold, FrameInv, TypeOK
  <2>2. \A m \in frame[q].batch : at'[m] = at[m] \/ (frame[q].at = "batch" /\ at'[m] # "idle")
        BY <2>1, NodeFacts DEF FrameOK, Settled
  <2>3. QED
        BY <2>1, <2>2, FrameKept, NodeFacts
<1>3. NodeInv'
      BY NodeFacts DEF Scaffold, TypeOK, NodeInv, NodeOK, Current
<1>4. QED
      BY <1>1, <1>2, <1>3 DEF Scaffold, FrameInv

LEMMA NodeScaffold ==
    ASSUME Scaffold, NEW n \in Node, NodeStep(n)
    PROVE  Scaffold'
<1> USE DEF Stage, Status
<1>1. tries \in [Node -> 0..MaxRetries] /\ at \in [Node -> Stage] /\ status \in [Node -> Status]
      BY DEF Scaffold, TypeOK
<1>2. CASE Acquire(n)
      BY <1>1, <1>2, NodeMoves DEF Acquire, Enter
<1>3. CASE InnerReturned(n)
  <2>1. PICK st \in {"SUCCESS", "DEGRADED", "FAILED"}, text \in BOOLEAN :
            /\ status' = [status EXCEPT ![n] = st]
            /\ at' = [at EXCEPT ![n] =
                    IF SkipGate2 /\ st = "SUCCESS" /\ text THEN "done" ELSE "gate"]
        BY <1>3 DEF InnerReturned
  <2>2. QED
        BY <1>1, <1>3, <2>1, NodeMoves DEF InnerReturned
<1>4. CASE Expand(n)
  <2>1. PICK kept \in SUBSET (Members(n) \cap Planned) : frame' = [frame EXCEPT ![n] = Opened(kept)]
                                           /\ rows' = Listed(rows, kept)
        BY <1>4 DEF Expand
  <2>2. /\ at[n] = "planning" /\ n \in Plan /\ frame[n].at = "closed" /\ n # 0
        /\ at' = [at EXCEPT ![n] = "children"]
        /\ status' = [m \in Node |-> IF m \in Members(n) THEN "PENDING" ELSE status[m]]
        /\ tries' = [m \in Node |-> IF m \in Members(n) THEN 0 ELSE tries[m]]
        /\ UNCHANGED <<phase, task, late, rounds>>
        BY <1>4, NodeFacts DEF Expand, Scaffold, FrameInv, FrameOK, NodeInv, NodeOK
  <2>3. kept \in SUBSET Node /\ kept \subseteq Members(n) \ Conditional
        BY NodeFacts
  <2>4. /\ frame' \in [Plan -> Frame]
        /\ frame'[n].at = "head" /\ frame'[n].pending = kept
        /\ frame'[n].batch = {} /\ frame'[n].completed = {}
        /\ \A q \in Plan \ {n} : frame'[q] = frame[q]
        BY <2>1, <2>2, <2>3, FrameIs, OpenedFacts DEF Scaffold
  <2>5. \A m \in Node : Parent[m] = n => at[m] = "idle"
        BY <2>2, WaitedFor
  <2>6. TypeOK'
    <3>1. rows' \in [Node -> Seq(Status)]
          BY <2>1, ListedFacts DEF Scaffold, TypeOK
    <3>2. 0 \in 0..MaxRetries
          BY LimitAssumption
    <3>3. tries' \in [Node -> 0..MaxRetries]
          BY <1>1, <2>2, <3>2
    <3>4. QED
          BY <1>1, <2>2, <2>4, <3>1, <3>3 DEF Scaffold, TypeOK
  <2>7. FrameInv'
    <3>1. FrameOK(n)'
          BY <1>1, <2>2, <2>3, <2>4 DEF FrameOK
    <3>2. ASSUME NEW q \in Plan \ {n} PROVE FrameOK(q)'
      <4>1. FrameOK(q)
            BY DEF Scaffold, FrameInv
      <4>2. \A m \in frame[q].batch : m \in Node /\ (at'[m] = at[m] \/ (frame[q].at = "batch" /\ at'[m] # "idle"))
            BY <1>1, <2>2, <4>1, NodeFacts DEF FrameOK, Settled
      <4>3. QED
            BY <1>1, <2>2, <2>4, <4>1, <4>2, FrameKept, NodeFacts
    <3>3. QED
          BY <3>1, <3>2 DEF FrameInv
  <2>8. NodeInv'
    <3>1. NodeOK(n)'
      <4>1. NodeOK(n)
            BY DEF Scaffold, NodeInv
      <4>2. at'[n] = "children" /\ Parent[n] \in Plan \ {n}
            BY <1>1, <2>2, <4>1, NodeFacts DEF NodeOK
      <4>3. frame'[Parent[n]] = frame[Parent[n]]
            BY <2>4, <4>2
      <4>4. QED
            BY <2>2, <4>1, <4>2, <4>3 DEF NodeOK, Current
    <3>2. ASSUME NEW m \in Node \ {n} PROVE NodeOK(m)'
      <4>1. at'[m] = at[m]
            BY <1>1, <2>2
      <4>2. at[m] # "idle" => Parent[m] \in Plan \ {n} /\ m \notin Members(n)
            BY <2>5, NodeFacts DEF Scaffold, NodeInv, NodeOK
      <4>3. QED
            BY <2>2, <2>4, <4>1, <4>2, NodeKept
    <3>3. QED
          BY <1>1, <2>2, <3>1, <3>2, NodeFacts DEF Scaffold, NodeInv
  <2>9. QED
        BY <2>6, <2>7, <2>8 DEF Scaffold
<1>5. CASE ExpandRejected(n)
      BY <1>1, <1>5, NodeMoves DEF ExpandRejected
<1>6. CASE GateOK(n)
      BY <1>1, <1>6, NodeMoves DEF GateOK
<1>7. CASE GateRetry(n)
  <2>1. tries' \in [Node -> 0..MaxRetries]
        BY <1>1, <1>7, LimitAssumption DEF GateRetry
  <2>2. QED
        BY <1>1, <1>7, <2>1, NodeMoves DEF GateRetry, Enter
<1>8. CASE GateReplan(n)
      BY <1>1, <1>8, NodeMoves DEF GateReplan
<1>9. QED
      BY <1>2, <1>3, <1>4, <1>5, <1>6, <1>7, <1>8 DEF NodeStep

(* A plan takes its turn: nothing changes outside of it.                    *)
LEMMA PlanMoves ==
    ASSUME Scaffold, TypeOK', NEW p \in Plan,
           \A q \in Plan \ {p} : frame'[q] = frame[q],
           p # 0 => phase' = phase /\ rounds' = rounds,
           \A n \in Node \ Members(p) : at'[n] = at[n] /\ status'[n] = status[n],
           \A n \in Members(p) : at'[n] = at[n] \/ (at[n] # "children" /\ at'[n] # "children"),
           FrameOK(p)',
           \A n \in Members(p) : NodeOK(n)',
           \A c, d \in Conditional \cap Members(p) :
                at'[c] # "idle" /\ at'[d] # "idle" => c = d
    PROVE  Scaffold'
<1>1. ASSUME NEW q \in Plan \ {p} PROVE FrameOK(q)'
  <2>1. FrameOK(q)
        BY DEF Scaffold, FrameInv
  <2>2. \A m \in frame[q].batch : at'[m] = at[m]
    <3>1. \A m \in frame[q].batch : m \in Node /\ Parent[m] = q /\ q # p
          BY <2>1 DEF FrameOK, Members
    <3>2. \A m \in frame[q].batch : m \in Node \ Members(p)
          BY <3>1 DEF Members
    <3>3. QED
          BY <3>2
  <2>3. q # 0 => (at[q] = "children" <=> at'[q] = "children")
        BY NodeFacts
  <2>4. QED
        BY <2>2, <2>3, FrameKept
<1>2. ASSUME NEW n \in Node \ Members(p) PROVE NodeOK(n)'
  <2>1. at[n] # "idle" => Parent[n] \in Plan \ {p}
        BY NodeFacts DEF Scaffold, NodeInv, NodeOK
  <2>2. QED
        BY <2>1, NodeKept
<1>3. NodeInv'
  <2>1. ASSUME NEW c \in Conditional, NEW d \in Conditional,
               at'[c] # "idle", at'[d] # "idle", Parent[c] = Parent[d]
        PROVE  c = d
    <3>0. c \in Node /\ d \in Node
          BY NodeFacts
    <3>1. CASE c \in Members(p)
          BY <2>1, <3>0, <3>1 DEF Members
    <3>2. CASE c \notin Members(p)
      <4>1. d \notin Members(p)
            BY <2>1, <3>0, <3>2 DEF Members
      <4>2. QED
            BY <2>1, <3>0, <3>2, <4>1 DEF Scaffold, NodeInv
    <3>3. QED
          BY <3>1, <3>2
  <2>2. QED
        BY <1>2, <2>1, NodeFacts DEF NodeInv
<1>4. QED
      BY <1>1, <1>3 DEF Scaffold, FrameInv

(* The plan in which a node is current, and the node.                       *)
LEMMA InPost ==
    ASSUME Scaffold, NEW p \in Plan, frame[p].at \in {"post", "fallback"}, frame[p].batch # {}
    PROVE  /\ Current(p) \in frame[p].batch /\ Current(p) \in Members(p) \ Conditional
           /\ at[Current(p)] \in {"done", "raised"}
           /\ frame[p].pending = {}
<1>1. FrameOK(p)
      BY DEF Scaffold, FrameInv
<1>2. Current(p) \in frame[p].batch
      BY <1>1, CurrentFacts, NodeFacts DEF FrameOK, Current
<1>3. QED
      BY <1>1, <1>2 DEF FrameOK, Settled

(* Only a fallback that runs makes a conditional node anything but idle.    *)
LEMMA FallbackIdle ==
    ASSUME Scaffold, NEW p \in Plan, frame[p].at # "fallback",
           NEW c \in Conditional, c \in Members(p)
    PROVE  at[c] = "idle"
<1>1. c \in Node /\ Parent[c] = p
      BY DEF Members
<1>2. QED
      BY <1>1 DEF Scaffold, NodeInv, NodeOK

LEMMA LaunchScaffold ==
    ASSUME Scaffold, NEW p \in Plan, Launch(p)
    PROVE  Scaffold'
<1> DEFINE nodes == frame[p].pending
<1>1. /\ frame[p].at = "head" /\ nodes # {}
      /\ frame' = [frame EXCEPT ![p] = [@ EXCEPT !.at = "batch", !.pending = {}, !.batch = nodes]]
      /\ rows' = Shown(rows, nodes, [n \in Node |-> "RUNNING"])
      /\ at' = [n \in Node |-> IF n \in nodes THEN "queued" ELSE at[n]]
      /\ UNCHANGED <<phase, task, late, rounds, status, tries>>
      BY DEF Launch
<1>2. /\ frame \in [Plan -> Frame] /\ frame[p] \in Frame /\ at \in [Node -> Stage]
      /\ rows \in [Node -> Seq(Status)] /\ FrameOK(p)
      BY DEF Scaffold, TypeOK, FrameInv
<1>3. /\ frame' \in [Plan -> Frame] /\ \A q \in Plan \ {p} : frame'[q] = frame[q]
      /\ frame'[p].at = "batch" /\ frame'[p].pending = {} /\ frame'[p].batch = nodes
      /\ frame'[p].completed = frame[p].completed
  <2> DEFINE g == [frame[p] EXCEPT !.at = "batch", !.pending = {}, !.batch = nodes]
  <2>1. g \in Frame /\ g.at = "batch" /\ g.pending = {} /\ g.batch = nodes
        /\ g.completed = frame[p].completed
        BY <1>2 DEF Frame
  <2>2. frame' = [frame EXCEPT ![p] = g]
        BY <1>1
  <2>3. QED
        BY <2>1, <2>2, FrameIs DEF Scaffold
<1>4. nodes \subseteq Members(p) \ Conditional /\ nodes \subseteq Node
      BY <1>2, NodeFacts DEF FrameOK
<1>5. \A n \in Members(p) : at[n] = "idle"
      BY <1>1, WaitedFor, NodeFacts
<1>6. TypeOK'
  <2>1. rows' \in [Node -> Seq(Status)]
        BY <1>1, <1>2, ShownFacts DEF Status
  <2>2. at' \in [Node -> Stage]
        BY <1>1, <1>2 DEF Stage
  <2>3. QED
        BY <1>1, <1>3, <2>1, <2>2 DEF Scaffold, TypeOK
<1>7. FrameOK(p)'
  <2>1. p # 0 => at'[p] = at[p]
        BY <1>1, <1>4, NodeFacts DEF Members
  <2>2. \A n \in nodes : at'[n] = "queued"
        BY <1>1, <1>4
  <2>3. QED
        BY <1>1, <1>2, <1>3, <1>4, <2>1, <2>2 DEF FrameOK
<1>8. ASSUME NEW n \in Members(p) PROVE NodeOK(n)'
      BY <1>1, <1>3, <1>4, <1>5, NodeFacts DEF NodeOK
<1>9. \A c \in Conditional \cap Members(p) : at'[c] = "idle"
      BY <1>1, <1>4, <1>5, NodeFacts
<1>10. QED
      BY <1>1, <1>3, <1>4, <1>5, <1>6, <1>7, <1>8, <1>9, PlanMoves, NodeFacts

(* Steps that change nothing but where a plan stands.                       *)
LEMMA FrameMoves ==
    ASSUME Scaffold, NEW p \in Plan, NEW a \in {"head", "post", "reflect"},
           frame[p].at \in {"batch", "post", "reflect"},
           frame' = [frame EXCEPT ![p].at = a],
           a = "post" => \A n \in frame[p].batch : Settled(n),
           a # "post" => frame[p].batch = {},
           a = "reflect" => p = 0 /\ rounds < MaxRounds,
           UNCHANGED <<phase, task, late, rounds, status, tries, at, rows>>
    PROVE  Scaffold'
<1>2. /\ frame \in [Plan -> Frame] /\ frame[p] \in Frame /\ FrameOK(p)
      BY DEF Scaffold, TypeOK, FrameInv
<1>3. /\ frame' \in [Plan -> Frame] /\ \A q \in Plan \ {p} : frame'[q] = frame[q]
      /\ frame'[p].at = a /\ frame'[p].pending = frame[p].pending
      /\ frame'[p].batch = frame[p].batch /\ frame'[p].completed = frame[p].completed
  <2> DEFINE g == [frame[p] EXCEPT !.at = a]
  <2>1. g \in Frame /\ g.at = a /\ g.pending = frame[p].pending
        /\ g.batch = frame[p].batch /\ g.completed = frame[p].completed
        BY <1>2 DEF Frame
  <2>2. frame' = [frame EXCEPT ![p] = g]
        OBVIOUS
  <2>3. QED
        BY <2>1, <2>2, FrameIs DEF Scaffold
<1>4. TypeOK'
      BY <1>3 DEF Scaffold, TypeOK
<1>5. FrameOK(p)'
      BY <1>2, <1>3, NodeFacts DEF FrameOK, Settled
<1>6. ASSUME NEW n \in Members(p) PROVE NodeOK(n)'
  <2>1. NodeOK(n) /\ n \in Node /\ Parent[n] = p
        BY NodeFacts DEF Scaffold, NodeInv
  <2>2. at[n] # "idle" => n \notin Conditional
        BY <2>1 DEF NodeOK
  <2>3. QED
        BY <1>3, <2>1, <2>2 DEF NodeOK
<1>7. QED
      BY <1>3, <1>4, <1>5, <1>6, PlanMoves, NodeFacts DEF Scaffold, NodeInv

LEMMA CountFacts ==
    ASSUME Scaffold, NEW p \in Plan, NEW n \in Node, Count(p, n)
    PROVE  /\ frame' \in [Plan -> Frame] /\ \A q \in Plan \ {p} : frame'[q] = frame[q]
           /\ frame'[p].at = "post" /\ frame'[p].pending = frame[p].pending
           /\ frame'[p].batch = frame[p].batch \ {Current(p)}
           /\ frame'[p].completed = frame[p].completed \cup {n}
<1> DEFINE cur == Current(p)
           g == [frame[p] EXCEPT !.at = "post", !.batch = frame[p].batch \ {cur},
                                 !.completed = frame[p].completed \cup {n}]
<1>1. frame[p] \in Frame
      BY DEF Scaffold, TypeOK
<1>2. frame' = [frame EXCEPT ![p] = g]
      BY DEF Count
<1> HIDE DEF cur
<1>3. /\ g \in Frame /\ g.at = "post" /\ g.pending = frame[p].pending
      /\ g.batch = frame[p].batch \ {cur}
      /\ g.completed = frame[p].completed \cup {n}
      BY <1>1 DEF Frame
<1>4. /\ frame' \in [Plan -> Frame] /\ frame'[p] = g
      /\ \A q \in Plan \ {p} : frame'[q] = frame[q]
      BY <1>2, <1>3, FrameIs DEF Scaffold
<1>5. QED
      BY <1>3, <1>4 DEF cur

LEMMA TakeScaffold ==
    ASSUME Scaffold, NEW p \in Plan, TakeResult(p)
    PROVE  Scaffold'
<1> DEFINE n == Current(p)
<1>1. /\ frame[p].at = "post" /\ frame[p].batch # {} /\ Count(p, n)
      /\ at' = [at EXCEPT ![n] = "idle"] /\ rows' = Shown(rows, {n}, status)
      /\ UNCHANGED <<phase, task, late, rounds, status, tries>>
      BY DEF TakeResult
<1>2. /\ at \in [Node -> Stage] /\ rows \in [Node -> Seq(Status)] /\ FrameOK(p)
      /\ status \in [Node -> Status]
      BY DEF Scaffold, TypeOK, FrameInv
<1>3. /\ n \in frame[p].batch /\ n \in Members(p) \ Conditional /\ n \in Node /\ Parent[n] = p
      /\ at[n] \in {"done", "raised"} /\ frame[p].pending = {}
      BY <1>1, InPost DEF Members
<1> HIDE DEF n
<1>4. /\ frame' \in [Plan -> Frame] /\ \A q \in Plan \ {p} : frame'[q] = frame[q]
      /\ frame'[p].at = "post" /\ frame'[p].pending = {}
      /\ frame'[p].batch = frame[p].batch \ {n}
      /\ frame'[p].completed = frame[p].completed \cup {n}
      BY <1>1, <1>3, CountFacts DEF n
<1>5. \A m \in Node : at'[m] = IF m = n THEN "idle" ELSE at[m]
      BY <1>1, <1>2, <1>3
<1>6. TypeOK'
  <2>1. rows' \in [Node -> Seq(Status)]
        BY <1>1, <1>2, ShownFacts
  <2>2. at' \in [Node -> Stage]
        BY <1>1, <1>2, <1>3 DEF Stage
  <2>3. QED
        BY <1>1, <1>4, <2>1, <2>2 DEF Scaffold, TypeOK
<1>7. FrameOK(p)'
  <2>1. p # 0 => p \in Node /\ at'[p] = at[p]
        BY <1>3, <1>5, NodeFacts
  <2>2. \A m \in frame[p].batch \ {n} : m \in Node /\ at'[m] = at[m]
        BY <1>2, <1>5 DEF FrameOK, Members
  <2>3. QED
        BY <1>1, <1>2, <1>3, <1>4, <2>1, <2>2 DEF FrameOK, Settled
<1>8. ASSUME NEW m \in Members(p) PROVE NodeOK(m)'
  <2>1. NodeOK(m) /\ m \in Node /\ Parent[m] = p
        BY DEF Scaffold, NodeInv, Members
  <2>2. m \in Conditional => at[m] = "idle"
        BY <1>1, FallbackIdle
  <2>3. QED
        BY <1>1, <1>4, <1>5, <2>1, <2>2 DEF NodeOK
<1>9. \A c \in Conditional \cap Members(p) : at'[c] = "idle"
      BY <1>1, <1>5, FallbackIdle DEF Members
<1>10. \A m \in Members(p) : at'[m] = at[m] \/ (at[m] # "children" /\ at'[m] # "children")
      BY <1>3, <1>5 DEF Members
<1>11. \A m \in Node \ Members(p) : at'[m] = at[m] /\ status'[m] = status[m]
      BY <1>1, <1>3, <1>5
<1>12. QED
      BY <1>1, <1>4, <1>6, <1>7, <1>8, <1>9, <1>10, <1>11, PlanMoves

LEMMA StartScaffold ==
    ASSUME Scaffold, NEW p \in Plan, StartFallback(p)
    PROVE  Scaffold'
<1> DEFINE n == Current(p)
<1>1. PICK c \in FallbackFor(n) : rows' = Listed([rows EXCEPT ![n] = <<>>], {c}) /\ Enter(c, status)
      BY DEF StartFallback
<1>2. /\ frame[p].at = "post" /\ frame[p].batch # {} /\ at[n] = "raised"
      /\ frame' = [frame EXCEPT ![p].at = "fallback"]
      /\ UNCHANGED <<phase, task, late, rounds, tries>>
      BY DEF StartFallback
<1>3. /\ at \in [Node -> Stage] /\ rows \in [Node -> Seq(Status)] /\ FrameOK(p)
      /\ status \in [Node -> Status] /\ frame[p] \in Frame
      BY DEF Scaffold, TypeOK, FrameInv
<1>4. /\ n \in frame[p].batch /\ n \in Members(p) \ Conditional /\ n \in Node /\ Parent[n] = p
      /\ frame[p].pending = {}
      BY <1>2, InPost DEF Members
<1>5. c \in Conditional /\ Fallback[c] = n /\ c \in Node /\ Parent[c] = p /\ c \in Members(p)
      BY <1>1, <1>4, NodeFacts DEF FallbackFor, Members
<1>6. /\ frame' \in [Plan -> Frame] /\ \A q \in Plan \ {p} : frame'[q] = frame[q]
      /\ frame'[p].at = "fallback" /\ frame'[p].pending = {}
      /\ frame'[p].batch = frame[p].batch /\ frame'[p].completed = frame[p].completed
  <2> DEFINE g == [frame[p] EXCEPT !.at = "fallback"]
  <2>1. /\ g \in Frame /\ g.at = "fallback" /\ g.pending = frame[p].pending
        /\ g.batch = frame[p].batch /\ g.completed = frame[p].completed
        BY <1>3 DEF Frame
  <2>2. frame' = [frame EXCEPT ![p] = g]
        BY <1>2
  <2>3. QED
        BY <1>4, <2>1, <2>2, FrameIs DEF Scaffold
<1>7. Current(p)' = n
      BY <1>6 DEF Current
<1> HIDE DEF n
<1>8. PICK s \in {"done", "inner", "planning"}, st \in {"FAILED", "RUNNING"} :
        /\ at' = [at EXCEPT ![c] = s] /\ status' = [status EXCEPT ![c] = st]
        /\ s = "planning" => c \in Plan
        /\ s = "done" => st = "FAILED"
      BY <1>1, <1>5, NodeFacts DEF Enter
<1>9. /\ \A m \in Node : at'[m] = IF m = c THEN s ELSE at[m]
      /\ \A m \in Node : status'[m] = IF m = c THEN st ELSE status[m]
      BY <1>3, <1>5, <1>8
<1>10. at[c] = "idle" /\ c # n
      BY <1>2, <1>4, <1>5, FallbackIdle
<1>11. TypeOK'
  <2>1. [rows EXCEPT ![n] = <<>>] \in [Node -> Seq(Status)]
        BY <1>3, <1>4
  <2>2. rows' \in [Node -> Seq(Status)]
        BY <1>1, <2>1, ListedFacts DEF n
  <2>3. at' \in [Node -> Stage] /\ status' \in [Node -> Status]
        BY <1>3, <1>5, <1>8 DEF Stage, Status
  <2>4. QED
        BY <1>2, <1>6, <2>2, <2>3 DEF Scaffold, TypeOK
<1>12. FrameOK(p)'
  <2>1. p # 0 => p \in Node /\ at'[p] = at[p]
        BY <1>5, <1>9, NodeFacts
  <2>2. \A m \in frame[p].batch : m \in Node /\ at'[m] = at[m]
        BY <1>3, <1>5, <1>9 DEF FrameOK, Members
  <2>3. QED
        BY <1>2, <1>3, <1>4, <1>6, <1>7, <2>1, <2>2 DEF FrameOK, Settled
<1>13. ASSUME NEW m \in Members(p) PROVE NodeOK(m)'
  <2>1. NodeOK(m) /\ m \in Node /\ Parent[m] = p
        BY DEF Scaffold, NodeInv, Members
  <2>2. m \in Conditional => at[m] = "idle"
        BY <1>2, FallbackIdle
  <2>3. CASE m = c
        BY <1>5, <1>6, <1>7, <1>8, <1>9, <2>1, <2>3 DEF NodeOK
  <2>4. CASE m # c
        BY <1>6, <1>9, <2>1, <2>2, <2>4 DEF NodeOK
  <2>5. QED
        BY <2>3, <2>4
<1>14. \A d \in Conditional \cap Members(p) : at'[d] # "idle" => d = c
      BY <1>2, <1>9, FallbackIdle DEF Members
<1>15. \A m \in Members(p) : at'[m] = at[m] \/ (at[m] # "children" /\ at'[m] # "children")
      BY <1>8, <1>9, <1>10 DEF Members
<1>16. \A m \in Node \ Members(p) : at'[m] = at[m] /\ status'[m] = status[m]
      BY <1>5, <1>9
<1>17. QED
      BY <1>2, <1>6, <1>11, <1>12, <1>13, <1>14, <1>15, <1>16, PlanMoves

LEMMA ReturnScaffold ==
    ASSUME Scaffold, NEW p \in Plan, FallbackReturned(p)
    PROVE  Scaffold'
<1> DEFINE n == Current(p)
<1>1. PICK c \in FallbackFor(n) :
        /\ Settled(c) /\ Count(p, c) /\ rows' = Shown(rows, {c}, status)
        /\ at' = [at EXCEPT ![c] = "idle", ![n] = "idle"]
      BY DEF FallbackReturned
<1>2. /\ frame[p].at = "fallback"
      /\ UNCHANGED <<phase, task, late, rounds, status, tries>>
      BY DEF FallbackReturned
<1>3. /\ at \in [Node -> Stage] /\ rows \in [Node -> Seq(Status)] /\ FrameOK(p)
      /\ status \in [Node -> Status] /\ frame[p] \in Frame
      BY DEF Scaffold, TypeOK, FrameInv
<1>4. /\ n \in frame[p].batch /\ n \in Members(p) \ Conditional /\ n \in Node /\ Parent[n] = p
      /\ frame[p].pending = {} /\ at[n] \in {"done", "raised"}
      BY <1>2, <1>3, InPost DEF Members, FrameOK
<1>5. c \in Conditional /\ Fallback[c] = n /\ c \in Node /\ Parent[c] = p /\ c \in Members(p)
      BY <1>1, <1>4, NodeFacts DEF FallbackFor, Members
<1>6. /\ frame' \in [Plan -> Frame] /\ \A q \in Plan \ {p} : frame'[q] = frame[q]
      /\ frame'[p].at = "post" /\ frame'[p].pending = {}
      /\ frame'[p].batch = frame[p].batch \ {n}
      /\ frame'[p].completed = frame[p].completed \cup {c}
      BY <1>1, <1>4, <1>5, CountFacts
<1> HIDE DEF n
<1>7. \A m \in Node : at'[m] = IF m \in {c, n} THEN "idle" ELSE at[m]
      BY <1>1, <1>3, <1>4, <1>5
<1>8. TypeOK'
  <2>1. rows' \in [Node -> Seq(Status)]
        BY <1>1, <1>3, ShownFacts
  <2>2. at' \in [Node -> Stage]
        BY <1>1, <1>3, <1>4, <1>5 DEF Stage
  <2>3. QED
        BY <1>2, <1>6, <2>1, <2>2 DEF Scaffold, TypeOK
<1>9. \A d \in Conditional \cap Members(p) : at'[d] = "idle"
  <2>1. at[c] # "idle"
        BY <1>1 DEF Settled
  <2>2. ASSUME NEW d \in Conditional \cap Members(p), at[d] # "idle" PROVE d = c
        BY <1>5, <2>1, <2>2 DEF Scaffold, NodeInv, Members
  <2>3. QED
        BY <1>7, <2>2 DEF Members
<1>10. FrameOK(p)'
  <2>1. p # 0 => p \in Node /\ at'[p] = at[p]
        BY <1>4, <1>5, <1>7, NodeFacts
  <2>2. \A m \in frame[p].batch \ {n} : m \in Node /\ at'[m] = at[m]
        BY <1>3, <1>5, <1>7 DEF FrameOK, Members
  <2>3. QED
        BY <1>2, <1>3, <1>4, <1>5, <1>6, <2>1, <2>2 DEF FrameOK, Settled
<1>11. ASSUME NEW m \in Members(p) PROVE NodeOK(m)'
  <2>1. NodeOK(m) /\ m \in Node /\ Parent[m] = p
        BY DEF Scaffold, NodeInv, Members
  <2>2. m \in Conditional => at'[m] = "idle"
        BY <1>9
  <2>3. QED
        BY <1>2, <1>6, <1>7, <2>1, <2>2 DEF NodeOK
<1>12. \A m \in Members(p) : at'[m] = at[m] \/ (at[m] # "children" /\ at'[m] # "children")
  <2>1. at[c] # "children" /\ at[n] # "children"
        BY <1>1, <1>4 DEF Settled
  <2>2. QED
        BY <1>7, <2>1 DEF Members
<1>13. \A m \in Node \ Members(p) : at'[m] = at[m] /\ status'[m] = status[m]
      BY <1>2, <1>4, <1>5, <1>7
<1>14. QED
      BY <1>2, <1>6, <1>8, <1>9, <1>10, <1>11, <1>12, <1>13, PlanMoves

(* A plan that ends hands its node over to Gate 2.                          *)
LEMMA EndScaffold ==
    ASSUME Scaffold, NEW p \in Plan, EndOfPlan(p)
    PROVE  Scaffold'
<1>1. /\ frame[p].at = "head" /\ p # 0
      /\ status' = [Abandoned(p) EXCEPT ![p] = IF AllOK(p) THEN "SUCCESS" ELSE "FAILED"]
      /\ rows' = Shown(rows, frame[p].pending, Abandoned(p))
      /\ frame' = [frame EXCEPT ![p] = Closed]
      /\ at' = [at EXCEPT ![p] = "gate"]
      /\ UNCHANGED <<phase, task, late, rounds, tries>>
      BY DEF EndOfPlan
<1>2. /\ at \in [Node -> Stage] /\ rows \in [Node -> Seq(Status)] /\ FrameOK(p)
      /\ status \in [Node -> Status] /\ p \in Node /\ Parent[p] # p
      BY <1>1, NodeFacts DEF Scaffold, TypeOK, FrameInv
<1>3. /\ frame' \in [Plan -> Frame] /\ \A q \in Plan \ {p} : frame'[q] = frame[q]
      /\ frame'[p] = Closed
      BY <1>1, FrameIs, ClosedFacts DEF Scaffold
<1>4. \A m \in Node : Parent[m] = p => at[m] = "idle"
      BY <1>1, WaitedFor
<1>5. at[p] = "children"
      BY <1>1, <1>2 DEF FrameOK
<1>6. \A m \in Node : at'[m] = IF m = p THEN "gate" ELSE at[m]
      BY <1>1, <1>2
<1>7. Abandoned(p) \in [Node -> Status]
      BY <1>2 DEF Abandoned, Status
<1>8. TypeOK'
  <2>1. rows' \in [Node -> Seq(Status)]
        BY <1>1, <1>2, <1>7, ShownFacts
  <2>2. at' \in [Node -> Stage]
        BY <1>1, <1>2 DEF Stage
  <2>3. status' \in [Node -> Status]
        BY <1>1, <1>2, <1>7 DEF Status
  <2>4. QED
        BY <1>1, <1>3, <2>1, <2>2, <2>3 DEF Scaffold, TypeOK
<1>9. FrameOK(p)'
      BY <1>1, <1>2, <1>3, <1>6, ClosedFacts DEF FrameOK
<1>10. ASSUME NEW q \in Plan \ {p} PROVE FrameOK(q)'
  <2>1. FrameOK(q)
        BY DEF Scaffold, FrameInv
  <2>2. \A m \in frame[q].batch : at'[m] = at[m] \/ (frame[q].at = "batch" /\ at'[m] # "idle")
        BY <1>5, <1>6, <2>1 DEF FrameOK, Members, Settled
  <2>3. q # 0 => (at[q] = "children" <=> at'[q] = "children")
        BY <1>6, NodeFacts
  <2>4. QED
        BY <1>1, <1>3, <2>2, <2>3, FrameKept
<1>11. \A m \in Node : m # p /\ m \notin frame[p].pending => status'[m] = status[m]
  <2>1. \A m \in Node : m # p => status'[m] = Abandoned(p)[m]
        BY <1>1, <1>7
  <2>2. QED
        BY <2>1 DEF Abandoned
<1>12. ASSUME NEW m \in Node PROVE NodeOK(m)'
  <2>1. NodeOK(m)
        BY DEF Scaffold, NodeInv
  <2>2. at[m] # "idle" => Parent[m] \in Plan \ {p}
        BY <1>4, <2>1 DEF NodeOK
  <2>3. CASE m = p
    <3>1. frame'[Parent[p]] = frame[Parent[p]] /\ at'[p] = "gate" /\ at[p] # "idle"
          BY <1>3, <1>5, <1>6, <2>2, <2>3
    <3>2. QED
          BY <2>1, <2>3, <3>1 DEF NodeOK, Current
  <2>4. CASE m # p
    <3>1. at[m] # "idle" => m \notin frame[p].pending
          BY <1>2, <2>2 DEF FrameOK, Members
    <3>2. QED
          BY <1>3, <1>6, <1>11, <2>2, <2>4, <3>1, NodeKept
  <2>5. QED
        BY <2>3, <2>4
<1>13. \A c \in Node : at'[c] # "idle" => at[c] # "idle"
      BY <1>5, <1>6
<1>14. NodeInv'
      BY <1>12, <1>13, NodeFacts DEF Scaffold, NodeInv
<1>15. QED
      BY <1>8, <1>9, <1>10, <1>14 DEF Scaffold, FrameInv

LEMMA PlanScaffold ==
    ASSUME Scaffold, NEW p \in Plan, PlanStep(p)
    PROVE  Scaffold'
<1>1. CASE Gathered(p)
      BY <1>1, FrameMoves DEF Gathered
<1>2. CASE BatchSettled(p)
  <2>1. PICK a \in {"head", "reflect"} :
            frame' = [frame EXCEPT ![p].at = a] /\ (a = "reflect" => MayReflect(p))
        BY <1>2 DEF BatchSettled
  <2>2. a = "reflect" => p = 0 /\ rounds < MaxRounds
        BY <2>1 DEF MayReflect
  <2>3. QED
        BY <1>2, <2>1, <2>2, FrameMoves DEF BatchSettled
<1>3. QED
      BY <1>1, <1>2, LaunchScaffold, EndScaffold, TakeScaffold, StartScaffold, ReturnScaffold
      DEF PlanStep

(* The plan of the task is opened, extended and closed.                     *)
LEMMA RootMoves ==
    ASSUME Scaffold, TypeOK', NEW f \in Frame, frame' = [frame EXCEPT ![0] = f],
           \A n \in Node : Parent[n] = 0 => at[n] = "idle",
           at' = at, \A n \in Node : n \notin Members(0) => status'[n] = status[n],
           f.at \in {"head", "closed"}, f.at = "closed" => f.pending = {},
           f.pending \subseteq Members(0) \ Conditional, f.batch = {},
           f.completed \subseteq Members(0),
           f.at # "closed" <=> phase' = "executing"
    PROVE  Scaffold'
<1>1. /\ frame' \in [Plan -> Frame] /\ \A q \in Plan \ {0} : frame'[q] = frame[q]
      /\ frame'[0] = f /\ 0 \in Plan
      BY FrameIs, NodeFacts DEF Scaffold
<1>2. FrameOK(0)'
      BY <1>1 DEF FrameOK
<1>3. ASSUME NEW n \in Members(0) PROVE NodeOK(n)'
      BY DEF NodeOK, Members
<1>4. \A c \in Conditional \cap Members(0) : at'[c] = "idle"
      BY DEF Members
<1>5. QED
      BY <1>1, <1>2, <1>3, <1>4, PlanMoves

LEMMA ApproveScaffold ==
    ASSUME Scaffold, Approve
    PROVE  Scaffold'
<1>1. PICK kept \in SUBSET (Members(0) \cap Planned) :
            frame' = [frame EXCEPT ![0] = Opened(kept)] /\ rows' = Listed(rows, kept)
      BY DEF Approve
<1>2. phase = "planning" /\ phase' = "executing" /\ UNCHANGED <<task, late, rounds, status, tries, at>>
      BY DEF Approve
<1>3. kept \in SUBSET Node /\ kept \subseteq Members(0) \ Conditional
      BY NodeFacts
<1>4. /\ Opened(kept) \in Frame /\ Opened(kept).at = "head" /\ Opened(kept).pending = kept
      /\ Opened(kept).batch = {} /\ Opened(kept).completed = {}
      BY <1>3, OpenedFacts
<1>5. \A n \in Node : at[n] = "idle"
      BY <1>2, Quiet
<1>6. TypeOK'
  <2>1. rows' \in [Node -> Seq(Status)]
        BY <1>1, ListedFacts DEF Scaffold, TypeOK
  <2>2. frame' \in [Plan -> Frame]
        BY <1>1, <1>4, FrameIs, NodeFacts DEF Scaffold
  <2>3. QED
        BY <1>2, <2>1, <2>2 DEF Scaffold, TypeOK
<1>7. QED
      BY <1>1, <1>2, <1>3, <1>4, <1>5, <1>6, RootMoves

LEMMA EndTaskScaffold ==
    ASSUME Scaffold, EndOfTask
    PROVE  Scaffold'
<1>1. /\ frame[0].at = "head" /\ status' = Abandoned(0)
      /\ rows' = Swept(Shown(rows, frame[0].pending, Abandoned(0)))
      /\ frame' = [frame EXCEPT ![0] = Closed] /\ task' \in {"SUCCESS", "FAILED"}
      /\ phase' = "ended" /\ UNCHANGED <<late, rounds, tries, at>>
      BY DEF EndOfTask
<1>2. /\ rows \in [Node -> Seq(Status)] /\ status \in [Node -> Status] /\ FrameOK(0)
      BY NodeFacts DEF Scaffold, TypeOK, FrameInv
<1>3. Abandoned(0) \in [Node -> Status]
      BY <1>2 DEF Abandoned, Status
<1>4. TypeOK'
  <2>1. Shown(rows, frame[0].pending, Abandoned(0)) \in [Node -> Seq(Status)]
        BY <1>2, <1>3, ShownFacts
  <2>2. rows' \in [Node -> Seq(Status)]
        BY <1>1, <2>1, SweptFacts
  <2>3. frame' \in [Plan -> Frame]
        BY <1>1, ClosedFacts, FrameIs, NodeFacts DEF Scaffold
  <2>4. QED
        BY <1>1, <1>3, <2>2, <2>3 DEF Scaffold, TypeOK
<1>5. \A n \in Node : Parent[n] = 0 => at[n] = "idle"
      BY <1>1, WaitedFor
<1>6. \A n \in Node : n \notin Members(0) => status'[n] = status[n]
      BY <1>1, <1>2 DEF Abandoned, FrameOK
<1>7. QED
      BY <1>1, <1>4, <1>5, <1>6, ClosedFacts, RootMoves

LEMMA SpawnScaffold ==
    ASSUME Scaffold, Spawn
    PROVE  Scaffold'
<1>1. PICK new \in SUBSET (Suggested \ frame[0].completed) :
        /\ frame' = [frame EXCEPT ![0] = [@ EXCEPT !.at = "head", !.pending = new]]
        /\ rows' = Listed(rows, new)
      BY DEF Spawn
<1>2. /\ frame[0].at = "reflect" /\ rounds' = rounds + 1
      /\ UNCHANGED <<phase, task, late, status, tries, at>>
      BY DEF Spawn
<1>3. /\ FrameOK(0) /\ frame[0] \in Frame /\ rounds \in 0..MaxRounds /\ MaxRounds \in Nat
      BY NodeFacts, LimitAssumption DEF Scaffold, TypeOK, FrameInv
<1>4. new \in SUBSET Node /\ new \subseteq Members(0) \ Conditional
      BY NodeFacts
<1> DEFINE f == [frame[0] EXCEPT !.at = "head", !.pending = new]
<1>5. /\ f \in Frame /\ f.at = "head" /\ f.pending = new /\ f.batch = {}
      /\ f.completed = frame[0].completed
      BY <1>2, <1>3, <1>4 DEF Frame, FrameOK
<1>6. frame' = [frame EXCEPT ![0] = f]
      BY <1>1
<1> HIDE DEF f
<1>7. TypeOK'
  <2>1. rows' \in [Node -> Seq(Status)]
        BY <1>1, ListedFacts DEF Scaffold, TypeOK
  <2>2. frame' \in [Plan -> Frame]
        BY <1>5, <1>6, FrameIs, NodeFacts DEF Scaffold
  <2>3. rounds' \in 0..MaxRounds
    <3>1. rounds < MaxRounds
          BY <1>2, <1>3 DEF FrameOK
    <3>2. QED
          BY <1>2, <1>3, <3>1
  <2>4. QED
        BY <1>2, <2>1, <2>2, <2>3 DEF Scaffold, TypeOK
<1>8. \A n \in Node : Parent[n] = 0 => at[n] = "idle"
      BY <1>2, WaitedFor
<1>9. phase = "executing" /\ f.completed \subseteq Members(0)
      BY <1>2, <1>3, <1>5 DEF FrameOK
<1>10. QED
      BY <1>2, <1>4, <1>5, <1>6, <1>7, <1>8, <1>9, RootMoves

LEMMA TimeoutScaffold ==
    ASSUME Scaffold, HardTimeout
    PROVE  Scaffold'
<1>1. /\ phase' = "timedout" /\ task' = "FAILED" /\ rows' = Swept(rows)
      /\ at' = [n \in Node |-> "idle"] /\ frame' = [p \in Plan |-> Closed]
      /\ UNCHANGED <<late, rounds, status, tries>>
      BY DEF HardTimeout
<1>2. TypeOK'
  <2>1. rows' \in [Node -> Seq(Status)]
        BY <1>1, SweptFacts DEF Scaffold, TypeOK
  <2>2. at' \in [Node -> Stage] /\ frame' \in [Plan -> Frame]
        BY <1>1, ClosedFacts DEF Stage
  <2>3. QED
        BY <1>1, <2>1, <2>2 DEF Scaffold, TypeOK
<1>3. ASSUME NEW p \in Plan PROVE FrameOK(p)'
  <2>1. frame'[p] = Closed /\ (p # 0 => at'[p] = "idle")
        BY <1>1, NodeFacts
  <2>2. QED
        BY <1>1, <2>1, ClosedFacts DEF FrameOK
<1>4. NodeInv'
      BY <1>1, NodeFacts DEF NodeInv, NodeOK
<1>5. QED
      BY <1>2, <1>3, <1>4 DEF Scaffold, FrameInv

(* Steps that leave the coroutines alone.                                   *)
LEMMA OutsideScaffold ==
    ASSUME Scaffold, Reject \/ Expire \/ UNCHANGED vars
    PROVE  Scaffold'
<1>1. /\ UNCHANGED <<rounds, status, tries, at, frame, rows>>
      /\ (phase = "executing" <=> phase' = "executing")
      BY DEF Reject, Expire, vars
<1>2. TypeOK'
      BY <1>1 DEF Scaffold, TypeOK, Reject, Expire, vars
<1>3. FrameInv'
      BY <1>1 DEF Scaffold, FrameInv, FrameOK, Current, Settled
<1>4. NodeInv'
      BY <1>1 DEF Scaffold, NodeInv, NodeOK, Current
<1>5. QED
      BY <1>2, <1>3, <1>4 DEF Scaffold

LEMMA ScaffoldStep == Scaffold /\ [Next]_vars => Scaffold'
<1> SUFFICES ASSUME Scaffold, [Next]_vars PROVE Scaffold'
    OBVIOUS
<1>1. CASE Satisfied
  <2>1. frame[0].batch = {} /\ 0 \in Plan
        BY <1>1, NodeFacts DEF Satisfied, Scaffold, FrameInv, FrameOK
  <2>2. QED
        BY <1>1, <2>1, FrameMoves DEF Satisfied
<1>2. QED
      BY <1>1, NodeScaffold, PlanScaffold, ApproveScaffold, EndTaskScaffold, SpawnScaffold,
         TimeoutScaffold, OutsideScaffold DEF Next, EngineStep, RootStep

LEMMA ScaffoldCorrect == Spec => []Scaffold
BY InitScaffold, ScaffoldStep, PTL DEF Spec

(* Every variable has its type: no step is tried and no reflection made     *)
(* more often than the settings allow.                                      *)
THEOREM TypeCorrect == Spec => []TypeOK
<1>1. Scaffold => TypeOK
      BY DEF Scaffold
<1>2. QED
      BY <1>1, ScaffoldCorrect, PTL

(* No coroutine outlives the plan that launched it, at whatever depth.      *)
THEOREM ConcurrencyIsStructured == Spec => []StructuredConcurrency
BY ScaffoldCorrect, Structure, PTL

-----------------------------------------------------------------------------
(* The rows.                                                                *)
LEMMA InitRows == Init => RowInv
BY NodeFacts DEF Init, RowInv, RowOK, OutcomeShown, RowLive, RowsSettled, VerdictMatchesRows, Closed

(* A node about which the rows have nothing new to tell.                    *)
Kept(n) ==
    /\ rows'[n] = <<>> <=> rows[n] = <<>>
    /\ rows[n] # <<>> => rows'[n][1] = rows[n][1]
    /\ at'[n] = "idle" <=> at[n] = "idle"
    /\ at[n] = "idle" => status'[n] = status[n]

LEMMA RowKept ==
    ASSUME Scaffold, NEW q \in Plan, RowOK(q), frame'[q] = frame[q],
           \A m \in Members(q) : Kept(m)
    PROVE  RowOK(q)'
<1>1. FrameOK(q)
      BY DEF Scaffold, FrameInv
<1>2. \A m : m \in frame[q].pending \cup frame[q].batch \cup frame[q].completed => Kept(m)
      BY <1>1 DEF FrameOK
<1>3. \A m : Replaced(q, m)' <=> Replaced(q, m)
      BY DEF Replaced, Current
<1>4. QED
      BY <1>2, <1>3 DEF RowOK, OutcomeShown, Kept

LEMMA PlanRows ==
    ASSUME Scaffold, RowInv, NEW p \in Plan, phase' = "executing",
           \A q \in Plan \ {p} : frame'[q] = frame[q],
           \A n \in Node \ Members(p) : Kept(n),
           RowOK(p)', \A n \in Members(p) : RowLive(n)'
    PROVE  RowInv'
<1>1. ASSUME NEW q \in Plan \ {p} PROVE RowOK(q)'
  <2>1. \A m \in Members(q) : Kept(m)
        BY DEF Members
  <2>2. RowOK(q)
        BY DEF RowInv
  <2>3. QED
        BY <2>1, <2>2, RowKept
<1>2. ASSUME NEW n \in Node \ Members(p) PROVE RowLive(n)'
      BY DEF RowInv, RowLive, Kept
<1>3. (phase' = "planning" => \A n \in Node : rows'[n] = <<>>) /\ RowsSettled' /\ VerdictMatchesRows'
      BY DEF RowsSettled, VerdictMatchesRows
<1>4. QED
      BY <1>1, <1>2, <1>3 DEF RowInv

LEMMA NodeMovesRows ==
    ASSUME Scaffold, RowInv, NEW n \in Node, at[n] # "idle", at'[n] # "idle",
           \A m \in Node \ {n} : at'[m] = at[m] /\ status'[m] = status[m],
           UNCHANGED <<phase, frame, rows>>
    PROVE  RowInv'
<1>1. \A m \in Node : Kept(m)
      BY DEF Kept
<1>2. phase = "executing" /\ 0 \in Plan
      BY Quiet, NodeFacts
<1>3. RowOK(0)'
      BY <1>1, <1>2, RowKept DEF RowInv, Members
<1>4. \A m \in Members(0) : RowLive(m)'
      BY <1>1 DEF RowInv, RowLive, Kept, Members
<1>5. QED
      BY <1>1, <1>2, <1>3, <1>4, PlanRows

LEMMA ExpandRows ==
    ASSUME Scaffold, RowInv, NEW n \in Node, Expand(n)
    PROVE  RowInv'
<1>1. PICK kept \in SUBSET (Members(n) \cap Planned) : frame' = [frame EXCEPT ![n] = Opened(kept)]
                                         /\ rows' = Listed(rows, kept)
      BY DEF Expand
<1>2. /\ at[n] = "planning" /\ n \in Plan /\ frame[n].at = "closed" /\ n # 0
      /\ at' = [at EXCEPT ![n] = "children"]
      /\ status' = [m \in Node |-> IF m \in Members(n) THEN "PENDING" ELSE status[m]]
      /\ UNCHANGED phase
      BY NodeFacts DEF Expand, Scaffold, FrameInv, FrameOK, NodeInv, NodeOK
<1>3. /\ at \in [Node -> Stage] /\ rows \in [Node -> Seq(Status)] /\ n \notin Members(n)
      /\ kept \in SUBSET Node /\ kept \subseteq Members(n)
      BY NodeFacts DEF Scaffold, TypeOK, Members
<1>4. /\ frame'[n].at = "head" /\ frame'[n].pending = kept
      /\ frame'[n].batch = {} /\ frame'[n].completed = {}
      /\ \A q \in Plan \ {n} : frame'[q] = frame[q]
      BY <1>1, <1>2, <1>3, FrameIs, OpenedFacts DEF Scaffold
<1>5. \A m \in Members(n) : at[m] = "idle" /\ at'[m] = "idle"
      BY <1>2, <1>3, WaitedFor DEF Members
<1>6. phase = "executing"
      BY <1>2, Quiet
<1>7. /\ \A m \in Node \ kept : rows'[m] = rows[m]
      /\ \A m \in kept : rows'[m] # <<>> /\ rows'[m][1] = IF rows[m] = <<>> THEN "PENDING" ELSE rows[m][1]
      BY <1>1, <1>3, ListedFacts
<1>8. \A m \in Node \ Members(n) : Kept(m)
      BY <1>2, <1>3, <1>7 DEF Kept
<1>9. RowOK(n)'
      BY <1>2, <1>4, <1>7 DEF RowOK, OutcomeShown, Replaced
<1>10. \A m \in Members(n) : RowLive(m)'
  <2>1. \A m \in Members(n) : RowLive(m) /\ m \in Node
        BY DEF RowInv, Members
  <2>2. QED
        BY <1>5, <1>7, <2>1 DEF RowLive
<1>11. QED
      BY <1>2, <1>4, <1>6, <1>8, <1>9, <1>10, PlanRows

LEMMA NodeRows ==
    ASSUME Scaffold, RowInv, NEW n \in Node, NodeStep(n)
    PROVE  RowInv'
<1>1. at \in [Node -> Stage] /\ status \in [Node -> Status]
      BY DEF Scaffold, TypeOK
<1>2. CASE Acquire(n)
      BY <1>1, <1>2, NodeMovesRows DEF Acquire, Enter
<1>3. CASE InnerReturned(n)
  <2>1. PICK st \in {"SUCCESS", "DEGRADED", "FAILED"}, text \in BOOLEAN :
            /\ status' = [status EXCEPT ![n] = st]
            /\ at' = [at EXCEPT ![n] =
                    IF SkipGate2 /\ st = "SUCCESS" /\ text THEN "done" ELSE "gate"]
        BY <1>3 DEF InnerReturned
  <2>2. QED
        BY <1>1, <1>3, <2>1, NodeMovesRows DEF InnerReturned
<1>4. CASE ExpandRejected(n)
      BY <1>1, <1>4, NodeMovesRows DEF ExpandRejected
<1>5. CASE GateOK(n)
      BY <1>1, <1>5, NodeMovesRows DEF GateOK
<1>6. CASE GateRetry(n)
      BY <1>1, <1>6, NodeMovesRows DEF GateRetry, Enter
<1>7. CASE GateReplan(n)
      BY <1>1, <1>7, NodeMovesRows DEF GateReplan
<1>8. QED
      BY <1>2, <1>3, <1>4, <1>5, <1>6, <1>7, ExpandRows DEF NodeStep

LEMMA LaunchRows ==
    ASSUME Scaffold, RowInv, NEW p \in Plan, Launch(p)
    PROVE  RowInv'
<1> DEFINE nodes == frame[p].pending
<1>1. /\ frame[p].at = "head"
      /\ frame' = [frame EXCEPT ![p] = [@ EXCEPT !.at = "batch", !.pending = {}, !.batch = nodes]]
      /\ rows' = Shown(rows, nodes, [n \in Node |-> "RUNNING"])
      /\ at' = [n \in Node |-> IF n \in nodes THEN "queued" ELSE at[n]]
      /\ UNCHANGED <<phase, status>>
      BY DEF Launch
<1>2. /\ frame[p] \in Frame /\ at \in [Node -> Stage] /\ rows \in [Node -> Seq(Status)]
      /\ FrameOK(p) /\ RowOK(p) /\ frame[p].batch = {}
      BY <1>1 DEF Scaffold, TypeOK, FrameInv, FrameOK, RowInv
<1>3. /\ \A q \in Plan \ {p} : frame'[q] = frame[q]
      /\ frame'[p].at = "batch" /\ frame'[p].pending = {} /\ frame'[p].batch = nodes
      /\ frame'[p].completed = frame[p].completed
  <2> DEFINE g == [frame[p] EXCEPT !.at = "batch", !.pending = {}, !.batch = nodes]
  <2>1. g \in Frame /\ g.at = "batch" /\ g.pending = {} /\ g.batch = nodes
        /\ g.completed = frame[p].completed
        BY <1>2 DEF Frame
  <2>2. frame' = [frame EXCEPT ![p] = g]
        BY <1>1
  <2>3. QED
        BY <2>1, <2>2, FrameIs DEF Scaffold
<1>4. nodes \subseteq Members(p) \ Conditional /\ nodes \subseteq Node
      BY <1>2, NodeFacts DEF FrameOK
<1> DEFINE run == [n \in Node |-> "RUNNING"]
<1>5. /\ \A n \in Node : rows'[n] = <<>> <=> rows[n] = <<>>
      /\ \A n \in Node \ nodes : rows'[n] = rows[n] /\ at'[n] = at[n]
  <2>0. rows \in [Node -> Seq(Status)]
        BY <1>2
  <2>1. \A n \in Node \cap nodes : run[n] \in Status
        BY DEF Status
  <2>2. /\ \A n \in Node : Shown(rows, nodes, run)[n] = <<>> <=> rows[n] = <<>>
        /\ \A n \in Node \ nodes : Shown(rows, nodes, run)[n] = rows[n]
        BY <2>0, <2>1, ShownFacts
  <2>3. QED
        BY <1>1, <1>2, <2>2
<1>6. \A n \in nodes : at'[n] = "queued" /\ (rows'[n] = <<>> <=> rows[n] = <<>>)
      BY <1>1, <1>4, <1>5
<1>7. phase' = "executing"
      BY <1>1, Quiet
<1>8. \A n \in Node \ Members(p) : Kept(n)
      BY <1>1, <1>4, <1>5 DEF Kept
<1>9. RowOK(p)'
  <2>1. \A n \in frame[p].completed : n \in Node \ nodes
        BY <1>1, <1>2 DEF RowOK, OutcomeShown, FrameOK, Members
  <2>2. \A n \in nodes : rows'[n] # <<>>
        BY <1>1, <1>2, <1>6 DEF RowOK, OutcomeShown, Replaced
  <2>3. QED
        BY <1>1, <1>2, <1>3, <1>5, <1>6, <2>1, <2>2 DEF RowOK, OutcomeShown, Replaced, Members
<1>10. \A n \in Members(p) : RowLive(n)'
      BY <1>4, <1>5, <1>6 DEF RowInv, RowLive, Members
<1>11. QED
      BY <1>3, <1>7, <1>8, <1>9, <1>10, PlanRows

LEMMA FrameMovesRows ==
    ASSUME Scaffold, RowInv, NEW p \in Plan, NEW a \in {"head", "post", "reflect"},
           frame[p].at \in {"batch", "post", "reflect"},
           frame' = [frame EXCEPT ![p].at = a],
           UNCHANGED <<phase, status, at, rows>>
    PROVE  RowInv'
<1>1. frame[p] \in Frame
      BY DEF Scaffold, TypeOK
<1>2. /\ \A q \in Plan \ {p} : frame'[q] = frame[q]
      /\ frame'[p].at = a /\ frame'[p].pending = frame[p].pending
      /\ frame'[p].batch = frame[p].batch /\ frame'[p].completed = frame[p].completed
  <2> DEFINE g == [frame[p] EXCEPT !.at = a]
  <2>1. /\ g \in Frame /\ g.at = a /\ g.pending = frame[p].pending
        /\ g.batch = frame[p].batch /\ g.completed = frame[p].completed
        BY <1>1 DEF Frame
  <2>2. frame' = [frame EXCEPT ![p] = g]
        OBVIOUS
  <2>3. QED
        BY <2>1, <2>2, FrameIs DEF Scaffold
<1>3. RowOK(p)'
      BY <1>2 DEF RowInv, RowOK, OutcomeShown, Replaced
<1>4. \A n \in Members(p) : RowLive(n)'
      BY DEF RowInv, RowLive, Members
<1>5. \A n \in Node \ Members(p) : Kept(n)
      BY DEF Kept
<1>6. phase' = "executing"
      BY Quiet
<1>7. QED
      BY <1>2, <1>3, <1>4, <1>5, <1>6, PlanRows

LEMMA TakeRows ==
    ASSUME Scaffold, RowInv, NEW p \in Plan, TakeResult(p)
    PROVE  RowInv'
<1> DEFINE n == Current(p)
<1>1. /\ frame[p].at = "post" /\ frame[p].batch # {} /\ Count(p, n)
      /\ at' = [at EXCEPT ![n] = "idle"] /\ rows' = Shown(rows, {n}, status)
      /\ UNCHANGED <<phase, status>>
      BY DEF TakeResult
<1>2. /\ at \in [Node -> Stage] /\ rows \in [Node -> Seq(Status)] /\ FrameOK(p)
      /\ status \in [Node -> Status] /\ RowOK(p)
      BY DEF Scaffold, TypeOK, FrameInv, RowInv
<1>3. /\ n \in frame[p].batch /\ n \in Members(p) \ Conditional /\ n \in Node
      /\ at[n] \in {"done", "raised"} /\ frame[p].pending = {}
      BY <1>1, InPost DEF Members
<1>4. status[n] \in {"SUCCESS", "FAILED"}
      BY <1>3 DEF Scaffold, NodeInv, NodeOK
<1>5. rows[n] # <<>>
      BY <1>1, <1>2, <1>3 DEF RowOK, OutcomeShown, Replaced
<1> HIDE DEF n
<1>6. /\ \A q \in Plan \ {p} : frame'[q] = frame[q]
      /\ frame'[p].at = "post" /\ frame'[p].pending = {}
      /\ frame'[p].batch = frame[p].batch \ {n}
      /\ frame'[p].completed = frame[p].completed \cup {n}
      BY <1>1, <1>3, CountFacts DEF n
<1>7. /\ at'[n] = "idle" /\ rows'[n] # <<>> /\ rows'[n][1] = status[n]
      /\ \A m \in Node \ {n} : at'[m] = at[m] /\ rows'[m] = rows[m]
  <2>1. at'[n] = "idle" /\ \A m \in Node \ {n} : at'[m] = at[m]
        BY <1>1, <1>2, <1>3
  <2>0. rows \in [Node -> Seq(Status)]
        BY <1>2
  <2>2. \A m \in Node \cap {n} : status[m] \in Status
        BY <1>2
  <2>3. /\ \A m \in Node : Shown(rows, {n}, status)[m] = <<>> <=> rows[m] = <<>>
        /\ \A m \in Node \ {n} : Shown(rows, {n}, status)[m] = rows[m]
        /\ \A m \in Node \cap {n} : rows[m] # <<>> =>
                Shown(rows, {n}, status)[m][1] = status[m]
        BY <2>0, <2>2, ShownFacts
  <2>4. QED
        BY <1>1, <1>3, <1>5, <2>1, <2>3
<1>8. phase' = "executing"
      BY <1>1, Quiet
<1>9. \A m \in Node \ Members(p) : Kept(m)
      BY <1>1, <1>3, <1>7 DEF Kept
<1>10. RowOK(p)'
  <2>1. \A m \in frame[p].completed : m \in Node \ {n}
        BY <1>1, <1>2, <1>3 DEF RowOK, OutcomeShown, FrameOK, Members
  <2>2. \A m \in frame[p].batch : m \in Node
        BY <1>2 DEF FrameOK, Members
  <2>3. \A m \in frame'[p].pending \cup frame'[p].batch : rows'[m] # <<>>
    <3>1. ASSUME NEW m \in frame[p].batch \ {n} PROVE rows'[m] # <<>>
      <4>1. rows[m] # <<>>
            BY <1>1, <1>2 DEF RowOK, OutcomeShown, Replaced
      <4>2. QED
            BY <1>7, <2>2, <4>1
    <3>2. QED
          BY <1>6, <3>1
  <2>4. ASSUME NEW m \in frame'[p].completed
        PROVE  OutcomeShown(p, m)'
    <3>1. CASE m = n
          BY <1>1, <1>3, <1>4, <1>6, <1>7, <3>1 DEF OutcomeShown
    <3>2. CASE m \in frame[p].completed
      <4>1. OutcomeShown(p, m) /\ Kept(m)
            BY <1>1, <1>2, <1>7, <2>1, <3>2 DEF RowOK, OutcomeShown, Kept
      <4>2. QED
            BY <1>3, <1>6, <4>1 DEF OutcomeShown, Kept
    <3>3. QED
          BY <1>6, <3>1, <3>2
  <2>5. p = 0 => \A m \in Members(0) : rows'[m] # <<>> =>
                    at'[m] # "idle" \/ m \in frame'[0].pending \cup frame'[0].completed
    <3>1. ASSUME p = 0, NEW m \in Members(0), m # n, rows'[m] # <<>>, at'[m] = "idle"
          PROVE  m \in frame'[0].completed
      <4>1. rows[m] # <<>> /\ at[m] = "idle"
            BY <1>7, <3>1 DEF Members
      <4>2. m \in frame[0].completed
            BY <1>1, <1>2, <1>3, <3>1, <4>1 DEF RowOK, OutcomeShown
      <4>3. QED
            BY <1>6, <3>1, <4>2
    <3>2. QED
          BY <1>6, <3>1
  <2>6. QED
        BY <1>6, <2>3, <2>4, <2>5 DEF RowOK, OutcomeShown, Replaced
<1>11. \A m \in Members(p) : RowLive(m)'
  <2>1. \A m \in Members(p) : RowLive(m) /\ m \in Node
        BY DEF RowInv, Members
  <2>2. QED
        BY <1>3, <1>4, <1>7, <2>1 DEF RowLive
<1>12. QED
      BY <1>6, <1>8, <1>9, <1>10, <1>11, PlanRows

LEMMA StartRows ==
    ASSUME Scaffold, RowInv, NEW p \in Plan, StartFallback(p)
    PROVE  RowInv'
<1> DEFINE n == Current(p)
<1>1. PICK c \in FallbackFor(n) : rows' = Listed([rows EXCEPT ![n] = <<>>], {c}) /\ Enter(c, status)
      BY DEF StartFallback
<1>2. /\ frame[p].at = "post" /\ frame[p].batch # {} /\ at[n] = "raised"
      /\ frame' = [frame EXCEPT ![p].at = "fallback"] /\ UNCHANGED phase
      BY DEF StartFallback
<1>3. /\ at \in [Node -> Stage] /\ rows \in [Node -> Seq(Status)] /\ FrameOK(p)
      /\ status \in [Node -> Status] /\ frame[p] \in Frame /\ RowOK(p)
      BY DEF Scaffold, TypeOK, FrameInv, RowInv
<1>4. /\ n \in frame[p].batch /\ n \in Members(p) \ Conditional /\ n \in Node /\ Parent[n] = p
      /\ frame[p].pending = {}
      BY <1>2, InPost DEF Members
<1>5. c \in Conditional /\ Fallback[c] = n /\ c \in Node /\ Parent[c] = p /\ c \in Members(p)
      BY <1>1, <1>4, NodeFacts DEF FallbackFor, Members
<1>6. /\ \A q \in Plan \ {p} : frame'[q] = frame[q]
      /\ frame'[p].at = "fallback" /\ frame'[p].pending = {}
      /\ frame'[p].batch = frame[p].batch /\ frame'[p].completed = frame[p].completed
  <2> DEFINE g == [frame[p] EXCEPT !.at = "fallback"]
  <2>1. /\ g \in Frame /\ g.at = "fallback" /\ g.pending = frame[p].pending
        /\ g.batch = frame[p].batch /\ g.completed = frame[p].completed
        BY <1>3 DEF Frame
  <2>2. frame' = [frame EXCEPT ![p] = g]
        BY <1>2
  <2>3. QED
        BY <1>4, <2>1, <2>2, FrameIs DEF Scaffold
<1>7. \A m : Replaced(p, m)' <=> m = n
      BY <1>6 DEF Current, Replaced
<1> HIDE DEF n
<1>8. /\ at'[c] # "idle" /\ at[c] = "idle"
      /\ \A m \in Node \ {c} : at'[m] = at[m] /\ status'[m] = status[m]
      BY <1>1, <1>2, <1>3, <1>5, FallbackIdle DEF Enter
<1>9. c # n /\ at[n] # "idle"
      BY <1>2, <1>4, <1>5
<1>10. /\ rows'[n] = <<>> /\ rows'[c] # <<>>
       /\ \A m \in Node \ {n, c} : rows'[m] = rows[m]
  <2> DEFINE R == [rows EXCEPT ![n] = <<>>]
  <2>1. R \in [Node -> Seq(Status)] /\ R[n] = <<>> /\ \A m \in Node \ {n} : R[m] = rows[m]
        BY <1>3, <1>4
  <2>2. rows' = Listed(R, {c})
        BY <1>1 DEF n
  <2> HIDE DEF R
  <2>3. /\ \A m \in Node \ {c} : Listed(R, {c})[m] = R[m]
        /\ \A m \in Node \cap {c} : Listed(R, {c})[m] # <<>>
    <3>1. R \in [Node -> Seq(Status)]
          BY <2>1
    <3>2. QED
          BY <3>1, ListedFacts
  <2>4. QED
        BY <1>4, <1>5, <1>9, <2>1, <2>2, <2>3
<1>11. phase' = "executing"
      BY <1>2, Quiet
<1>12. \A m \in Node \ Members(p) : Kept(m)
      BY <1>4, <1>5, <1>8, <1>10 DEF Kept
<1>13. RowOK(p)'
  <2>1. ASSUME NEW m \in frame[p].batch PROVE rows'[m] = <<>> <=> m = n
    <3>1. m \in Node /\ m # c /\ rows[m] # <<>>
          BY <1>2, <1>3, <1>5 DEF FrameOK, RowOK, Replaced, Members
    <3>2. QED
          BY <1>10, <3>1
  <2>2. ASSUME NEW m \in frame[p].completed PROVE OutcomeShown(p, m)'
    <3>1. OutcomeShown(p, m) /\ m \in Node
          BY <1>2, <1>3 DEF FrameOK, RowOK, Members
    <3>2. m # n /\ m # c
          BY <1>4, <1>5, <3>1 DEF OutcomeShown
    <3>3. Kept(m)
          BY <1>8, <1>10, <3>1, <3>2 DEF Kept
    <3>4. QED
          BY <1>4, <1>6, <3>1, <3>3 DEF OutcomeShown, Kept
  <2>3. ASSUME p = 0, NEW m \in Members(0), rows'[m] # <<>>, at'[m] = "idle"
        PROVE  m \in frame'[0].completed
    <3>1. m \in Node \ {n, c}
          BY <1>8, <1>10, <2>3 DEF Members
    <3>2. rows[m] # <<>> /\ at[m] = "idle"
          BY <1>8, <1>10, <2>3, <3>1
    <3>3. m \in frame[0].completed
          BY <1>2, <1>3, <1>4, <2>3, <3>2 DEF RowOK
    <3>4. QED
          BY <1>6, <2>3, <3>3
  <2>4. QED
        BY <1>6, <1>7, <2>1, <2>2, <2>3 DEF RowOK
<1>14. \A m \in Members(p) : RowLive(m)'
  <2>1. \A m \in Members(p) : RowLive(m) /\ m \in Node
        BY DEF RowInv, Members
  <2>2. QED
        BY <1>4, <1>8, <1>9, <1>10, <2>1 DEF RowLive
<1>15. QED
      BY <1>6, <1>11, <1>12, <1>13, <1>14, PlanRows

LEMMA ReturnRows ==
    ASSUME Scaffold, RowInv, NEW p \in Plan, FallbackReturned(p)
    PROVE  RowInv'
<1> DEFINE n == Current(p)
<1>1. PICK c \in FallbackFor(n) :
        /\ Settled(c) /\ Count(p, c) /\ rows' = Shown(rows, {c}, status)
        /\ at' = [at EXCEPT ![c] = "idle", ![n] = "idle"]
      BY DEF FallbackReturned
<1>2. frame[p].at = "fallback" /\ UNCHANGED <<phase, status>>
      BY DEF FallbackReturned
<1>3. /\ at \in [Node -> Stage] /\ rows \in [Node -> Seq(Status)] /\ FrameOK(p)
      /\ status \in [Node -> Status] /\ RowOK(p)
      BY DEF Scaffold, TypeOK, FrameInv, RowInv
<1>4. /\ n \in frame[p].batch /\ n \in Members(p) \ Conditional /\ n \in Node /\ Parent[n] = p
      /\ frame[p].pending = {}
      BY <1>2, <1>3, InPost DEF Members, FrameOK
<1>5. c \in Conditional /\ Fallback[c] = n /\ c \in Node /\ Parent[c] = p /\ c \in Members(p)
      BY <1>1, <1>4, NodeFacts DEF FallbackFor, Members
<1>6. /\ \A q \in Plan \ {p} : frame'[q] = frame[q]
      /\ frame'[p].at = "post" /\ frame'[p].pending = {}
      /\ frame'[p].batch = frame[p].batch \ {n}
      /\ frame'[p].completed = frame[p].completed \cup {c}
      BY <1>1, <1>4, <1>5, CountFacts
<1>7. \A m : Replaced(p, m) <=> m = n
      BY <1>2 DEF Replaced
<1> HIDE DEF n
<1>8. \A m \in Node : at'[m] = IF m \in {c, n} THEN "idle" ELSE at[m]
      BY <1>1, <1>3, <1>4, <1>5
<1>9. /\ at[c] # "idle" /\ rows[c] # <<>> /\ status[c] \in {"SUCCESS", "FAILED"}
      /\ c # n /\ rows[n] = <<>>
  <2>1. at[c] \in {"done", "raised"}
        BY <1>1 DEF Settled
  <2>2. RowLive(c) /\ NodeOK(c)
        BY <1>5 DEF RowInv, Scaffold, NodeInv
  <2>3. rows[n] = <<>>
        BY <1>2, <1>3, <1>4, <1>7 DEF RowOK
  <2>4. QED
        BY <1>5, <2>1, <2>2, <2>3 DEF RowLive, NodeOK
<1>10. /\ rows'[c] # <<>> /\ rows'[c][1] = status[c]
       /\ \A m \in Node \ {c} : rows'[m] = rows[m]
  <2>1. rows \in [Node -> Seq(Status)]
        BY <1>3
  <2>2. \A m \in Node \cap {c} : status[m] \in Status
        BY <1>3
  <2>3. /\ \A m \in Node : Shown(rows, {c}, status)[m] = <<>> <=> rows[m] = <<>>
        /\ \A m \in Node \ {c} : Shown(rows, {c}, status)[m] = rows[m]
        /\ \A m \in Node \cap {c} : rows[m] # <<>> =>
                Shown(rows, {c}, status)[m][1] = status[m]
        BY <2>1, <2>2, ShownFacts
  <2>4. QED
        BY <1>1, <1>5, <1>9, <2>3
<1>11. phase' = "executing"
      BY <1>2, Quiet
<1>12. \A m \in Node \ Members(p) : Kept(m)
      BY <1>2, <1>4, <1>5, <1>8, <1>10 DEF Kept
<1>13. RowOK(p)'
  <2>1. ASSUME NEW m \in frame[p].batch \ {n} PROVE rows'[m] # <<>>
    <3>1. m \in Node /\ m # c /\ rows[m] # <<>>
          BY <1>2, <1>3, <1>5, <1>7 DEF FrameOK, RowOK, Members
    <3>2. QED
          BY <1>10, <3>1
  <2>2. OutcomeShown(p, c)'
        BY <1>2, <1>3, <1>5, <1>6, <1>8, <1>9, <1>10 DEF OutcomeShown, FrameOK
  <2>3. ASSUME NEW m \in frame[p].completed, m # c PROVE OutcomeShown(p, m)'
    <3>1. OutcomeShown(p, m) /\ m \in Node
          BY <1>2, <1>3 DEF FrameOK, RowOK, Members
    <3>2. m # n
          BY <1>4, <3>1 DEF OutcomeShown
    <3>3. Kept(m)
          BY <1>2, <1>8, <1>10, <2>3, <3>1, <3>2 DEF Kept
    <3>4. QED
          BY <1>4, <1>6, <3>1, <3>3 DEF OutcomeShown, Kept
  <2>4. ASSUME p = 0, NEW m \in Members(0), rows'[m] # <<>>, at'[m] = "idle"
        PROVE  m \in frame'[0].completed
    <3>1. CASE m = c
          BY <1>6, <2>4, <3>1
    <3>2. CASE m # c
      <4>1. m \in Node \ {n, c} /\ rows[m] # <<>> /\ at[m] = "idle"
            BY <1>8, <1>9, <1>10, <2>4, <3>2 DEF Members
      <4>2. m \in frame[0].completed
            BY <1>2, <1>3, <1>4, <2>4, <4>1 DEF RowOK
      <4>3. QED
            BY <1>6, <2>4, <4>2
    <3>3. QED
          BY <3>1, <3>2
  <2>5. QED
        BY <1>6, <2>1, <2>2, <2>3, <2>4 DEF RowOK, Replaced
<1>14. \A m \in Members(p) : RowLive(m)'
  <2>1. \A m \in Members(p) : RowLive(m) /\ m \in Node
        BY DEF RowInv, Members
  <2>2. QED
        BY <1>4, <1>8, <1>9, <1>10, <2>1 DEF RowLive
<1>15. QED
      BY <1>6, <1>11, <1>12, <1>13, <1>14, PlanRows

LEMMA EndRows ==
    ASSUME Scaffold, RowInv, NEW p \in Plan, EndOfPlan(p)
    PROVE  RowInv'
<1>1. /\ frame[p].at = "head" /\ p # 0
      /\ status' = [Abandoned(p) EXCEPT ![p] = IF AllOK(p) THEN "SUCCESS" ELSE "FAILED"]
      /\ rows' = Shown(rows, frame[p].pending, Abandoned(p))
      /\ frame' = [frame EXCEPT ![p] = Closed]
      /\ at' = [at EXCEPT ![p] = "gate"] /\ UNCHANGED phase
      BY DEF EndOfPlan
<1>2. /\ at \in [Node -> Stage] /\ FrameOK(p) /\ p \in Node \ Members(p)
      /\ status \in [Node -> Status]
      BY <1>1, NodeFacts DEF Scaffold, TypeOK, FrameInv, Members
<1>3. /\ \A q \in Plan \ {p} : frame'[q] = frame[q]
      /\ frame'[p].at = "closed"
      BY <1>1, FrameIs, ClosedFacts DEF Scaffold
<1>4. at[p] = "children" /\ frame[p].pending \subseteq Members(p)
      BY <1>1, <1>2 DEF FrameOK
<1>5. \A m \in Node : at'[m] = IF m = p THEN "gate" ELSE at[m]
      BY <1>1, <1>2
<1>6. Abandoned(p) \in [Node -> Status]
      BY <1>2 DEF Abandoned, Status
<1>7. \A m \in Node : m # p /\ m \notin frame[p].pending => status'[m] = status[m]
  <2>1. \A m \in Node : m # p => status'[m] = Abandoned(p)[m]
        BY <1>1, <1>6
  <2>2. QED
        BY <2>1 DEF Abandoned
<1>8. /\ \A m \in Node \ frame[p].pending : rows'[m] = rows[m]
      /\ \A m \in Node \cap frame[p].pending : rows[m] # <<>> => rows'[m][1] = "FAILED"
      /\ \A m \in Node : rows'[m] = <<>> <=> rows[m] = <<>>
  <2>1. rows \in [Node -> Seq(Status)]
        BY DEF Scaffold, TypeOK
  <2>2. \A m \in Node \cap frame[p].pending : Abandoned(p)[m] \in Status
        BY <1>6
  <2>3. \A m \in Node \cap frame[p].pending : Abandoned(p)[m] = "FAILED"
        BY DEF Abandoned
  <2> DEFINE shown == Shown(rows, frame[p].pending, Abandoned(p))
  <2>4. /\ \A m \in Node : shown[m] = <<>> <=> rows[m] = <<>>
        /\ \A m \in Node \ frame[p].pending : shown[m] = rows[m]
        /\ \A m \in Node \cap frame[p].pending : rows[m] # <<>> => shown[m][1] = Abandoned(p)[m]
        BY <2>1, <2>2, ShownFacts
  <2>5. rows' = shown
        BY <1>1
  <2> HIDE DEF shown
  <2>6. QED
        BY <2>3, <2>4, <2>5
<1>9. phase' = "executing"
      BY <1>1, Quiet
<1>10. \A m \in Node \ Members(p) : Kept(m)
      BY <1>4, <1>5, <1>7, <1>8 DEF Kept
<1>11. \A m \in Members(p) : RowLive(m)'
  <2>1. \A m \in Members(p) : RowLive(m) /\ m \in Node \ {p}
        BY <1>2 DEF RowInv, Members
  <2>2. QED
        BY <1>5, <1>8, <2>1 DEF RowLive
<1>12. QED
      BY <1>3, <1>9, <1>10, <1>11, PlanRows DEF RowOK

LEMMA PlanStepRows ==
    ASSUME Scaffold, RowInv, NEW p \in Plan, PlanStep(p)
    PROVE  RowInv'
<1>1. CASE Gathered(p)
      BY <1>1, FrameMovesRows DEF Gathered
<1>2. CASE BatchSettled(p)
      BY <1>2, FrameMovesRows DEF BatchSettled
<1>3. QED
      BY <1>1, <1>2, LaunchRows, EndRows, TakeRows, StartRows, ReturnRows DEF PlanStep

LEMMA ApproveRows ==
    ASSUME Scaffold, RowInv, Approve
    PROVE  RowInv'
<1>1. PICK kept \in SUBSET (Members(0) \cap Planned) :
            frame' = [frame EXCEPT ![0] = Opened(kept)] /\ rows' = Listed(rows, kept)
      BY DEF Approve
<1>2. phase = "planning" /\ phase' = "executing" /\ UNCHANGED <<status, at>>
      BY DEF Approve
<1>3. kept \in SUBSET Node /\ kept \subseteq Members(0) /\ 0 \in Plan
      BY NodeFacts
<1>4. /\ frame'[0].at = "head" /\ frame'[0].pending = kept
      /\ frame'[0].batch = {} /\ frame'[0].completed = {}
      /\ \A q \in Plan \ {0} : frame'[q] = frame[q]
      BY <1>1, <1>3, FrameIs, OpenedFacts DEF Scaffold
<1>5. \A m \in Node : at[m] = "idle" /\ rows[m] = <<>>
      BY <1>2, Quiet DEF RowInv
<1>6. /\ \A m \in Node \ kept : rows'[m] = rows[m]
      /\ \A m \in Node \cap kept : rows'[m] # <<>> /\ rows'[m][1] = "PENDING"
  <2>1. rows \in [Node -> Seq(Status)]
        BY DEF Scaffold, TypeOK
  <2>2. /\ \A m \in Node \ kept : Listed(rows, kept)[m] = rows[m]
        /\ \A m \in Node \cap kept : /\ Listed(rows, kept)[m] # <<>>
                                     /\ Listed(rows, kept)[m][1] =
                                          IF rows[m] = <<>> THEN "PENDING" ELSE rows[m][1]
        BY <2>1, ListedFacts
  <2>3. QED
        BY <1>1, <1>5, <2>2
<1>7. \A m \in Node \ Members(0) : Kept(m)
      BY <1>2, <1>3, <1>6 DEF Kept
<1>8. RowOK(0)'
      BY <1>3, <1>4, <1>5, <1>6 DEF RowOK, Replaced, Members
<1>9. \A m \in Members(0) : RowLive(m)'
      BY <1>2, <1>5, <1>6 DEF RowLive, Members
<1>10. QED
      BY <1>2, <1>3, <1>4, <1>7, <1>8, <1>9, PlanRows

LEMMA SpawnRows ==
    ASSUME Scaffold, RowInv, Spawn
    PROVE  RowInv'
<1>1. PICK new \in SUBSET (Suggested \ frame[0].completed) :
        /\ frame' = [frame EXCEPT ![0] = [@ EXCEPT !.at = "head", !.pending = new]]
        /\ rows' = Listed(rows, new)
      BY DEF Spawn
<1>2. frame[0].at = "reflect" /\ UNCHANGED <<phase, status, at>>
      BY DEF Spawn
<1>3. /\ FrameOK(0) /\ frame[0] \in Frame /\ RowOK(0) /\ 0 \in Plan
      /\ frame[0].pending = {} /\ frame[0].batch = {}
      BY <1>2, NodeFacts DEF Scaffold, TypeOK, FrameInv, FrameOK, RowInv
<1>4. new \in SUBSET Node /\ new \subseteq Members(0)
      BY NodeFacts
<1> DEFINE f == [frame[0] EXCEPT !.at = "head", !.pending = new]
<1>5. /\ f \in Frame /\ f.at = "head" /\ f.pending = new /\ f.batch = {}
      /\ f.completed = frame[0].completed
      BY <1>3, <1>4 DEF Frame
<1>6. frame' = [frame EXCEPT ![0] = f]
      BY <1>1
<1> HIDE DEF f
<1>7. /\ frame'[0].at = "head" /\ frame'[0].pending = new /\ frame'[0].batch = {}
      /\ frame'[0].completed = frame[0].completed
      /\ \A q \in Plan \ {0} : frame'[q] = frame[q]
      BY <1>3, <1>5, <1>6, FrameIs DEF Scaffold
<1>8. /\ \A m \in Node \ new : rows'[m] = rows[m]
      /\ \A m \in Node \cap new : /\ rows'[m] # <<>>
                                  /\ rows'[m][1] = IF rows[m] = <<>> THEN "PENDING" ELSE rows[m][1]
  <2>1. rows \in [Node -> Seq(Status)]
        BY DEF Scaffold, TypeOK
  <2>2. QED
        BY <1>1, <2>1, ListedFacts
<1>9. phase' = "executing"
      BY <1>2, <1>3 DEF FrameOK
<1>10. \A m \in Node \ Members(0) : Kept(m)
      BY <1>2, <1>4, <1>8 DEF Kept
<1>11. \A m \in Members(0) : at[m] = "idle"
      BY <1>2, WaitedFor DEF Members
<1>12. RowOK(0)'
  <2>1. ASSUME NEW m \in frame[0].completed PROVE OutcomeShown(0, m)'
    <3>1. OutcomeShown(0, m) /\ m \in Node \ new
          BY <1>1, <1>2, <1>3 DEF RowOK, FrameOK, Members
    <3>2. m \in Conditional => Fallback[m] \notin new
          BY <1>1, NodeFacts
    <3>3. QED
          BY <1>1, <1>2, <1>7, <1>8, <3>1, <3>2 DEF OutcomeShown
  <2>2. ASSUME NEW m \in Members(0), rows'[m] # <<>>
        PROVE  m \in frame'[0].pending \cup frame'[0].completed
        BY <1>2, <1>3, <1>7, <1>8, <1>11, <2>2 DEF RowOK, Members
  <2>3. QED
        BY <1>4, <1>7, <1>8, <2>1, <2>2 DEF RowOK, Replaced
<1>13. \A m \in Members(0) : RowLive(m)'
  <2>1. \A m \in Members(0) : RowLive(m) /\ m \in Node
        BY DEF RowInv, Members
  <2>2. QED
        BY <1>2, <1>8, <1>11, <2>1 DEF RowLive
<1>14. QED
      BY <1>3, <1>7, <1>9, <1>10, <1>12, <1>13, PlanRows

(* The end: the last rows are swept, and they support the verdict.          *)
LEMMA EndTaskRows ==
    ASSUME Scaffold, RowInv, EndOfTask
    PROVE  RowInv'
<1> DEFINE shown == Shown(rows, frame[0].pending, Abandoned(0))
<1>1. /\ frame[0].at = "head" /\ status' = Abandoned(0) /\ rows' = Swept(shown)
      /\ task' = IF AllOK(0) THEN "SUCCESS" ELSE "FAILED"
      /\ phase' = "ended"
      BY DEF EndOfTask
<1>2. /\ status \in [Node -> Status] /\ FrameOK(0) /\ RowOK(0) /\ 0 \in Plan
      /\ frame[0].batch = {}
      BY <1>1, NodeFacts DEF Scaffold, TypeOK, FrameInv, FrameOK, RowInv
<1>3. /\ \A n \in frame[0].pending : n \in Node /\ rows[n] # <<>>
      /\ \A n \in frame[0].completed :
            n \in Node \ frame[0].pending /\ OutcomeShown(0, n)
      BY <1>1, <1>2 DEF RowOK, OutcomeShown, FrameOK, Replaced, Members
<1>4. /\ shown \in [Node -> Seq(Status)]
      /\ \A n \in Node : shown[n] = <<>> <=> rows[n] = <<>>
      /\ \A n \in Node \ frame[0].pending : shown[n] = rows[n]
      /\ \A n \in frame[0].pending : shown[n][1] = "FAILED"
  <2>1. rows \in [Node -> Seq(Status)]
        BY DEF Scaffold, TypeOK
  <2>2. \A n \in Node \cap frame[0].pending : Abandoned(0)[n] \in Status
        BY <1>2 DEF Abandoned, Status
  <2>3. \A n \in Node \cap frame[0].pending : Abandoned(0)[n] = "FAILED"
        BY DEF Abandoned
  <2>4. /\ shown \in [Node -> Seq(Status)]
        /\ \A n \in Node : shown[n] = <<>> <=> rows[n] = <<>>
        /\ \A n \in Node \ frame[0].pending : shown[n] = rows[n]
        /\ \A n \in Node \cap frame[0].pending : rows[n] # <<>> => shown[n][1] = Abandoned(0)[n]
        BY <2>1, <2>2, ShownFacts
  <2>5. QED
        BY <1>3, <2>3, <2>4
<1> HIDE DEF shown
<1>5. /\ \A n \in Node : rows'[n] = <<>> <=> rows[n] = <<>>
      /\ \A n \in Node : \A i \in DOMAIN rows'[n] :
            /\ rows'[n][i] \notin {"PENDING", "RUNNING"}
            /\ shown[n][i] \notin {"PENDING", "RUNNING"} => rows'[n][i] = shown[n][i]
      /\ \A n \in Node : rows[n] # <<>> => 1 \in DOMAIN rows'[n]
  <2>1. shown \in [Node -> Seq(Status)]
        BY <1>4
  <2>2. /\ \A n \in Node : Swept(shown)[n] = <<>> <=> shown[n] = <<>>
        /\ \A n \in Node : \A i \in DOMAIN Swept(shown)[n] :
              /\ Swept(shown)[n][i] \notin {"PENDING", "RUNNING"}
              /\ shown[n][i] \notin {"PENDING", "RUNNING"} => Swept(shown)[n][i] = shown[n][i]
        /\ \A n \in Node : shown[n] # <<>> => 1 \in DOMAIN Swept(shown)[n]
        BY <2>1, SweptFacts
  <2>3. QED
        BY <1>1, <1>4, <2>2
<1>6. /\ \A n \in Node : at'[n] = "idle"
      /\ \A p \in Plan : frame'[p].at = "closed"
  <2>1. Scaffold' /\ phase' # "executing"
        BY <1>1, EndTaskScaffold
  <2>2. (Scaffold /\ phase # "executing" => /\ \A n \in Node : at[n] = "idle"
                                            /\ \A p \in Plan : frame[p].at = "closed")'
        BY Quiet, PTL
  <2>3. QED
        BY <2>1, <2>2
<1>7. \A n \in Node : RowLive(n)'
      BY <1>5, <1>6 DEF RowLive
<1>8. RowsSettled'
      BY <1>5 DEF RowsSettled
<1>9. VerdictMatchesRows'
  <2>1. ASSUME AllOK(0), NEW n \in Members(0), rows'[n] # <<>>
        PROVE  OK(n)' /\ rows'[n][1] = status'[n]
    <3>1. n \in Node /\ rows[n] # <<>> /\ at[n] = "idle" /\ frame[0].pending = {}
          BY <1>1, <1>5, <2>1, WaitedFor DEF Members, AllOK
    <3>2. n \in frame[0].completed
          BY <1>1, <1>2, <2>1, <3>1 DEF RowOK
    <3>3. rows[n][1] = status[n] /\ status[n] \in {"SUCCESS", "DEGRADED"}
          BY <1>3, <2>1, <3>2 DEF OutcomeShown, AllOK, OK
    <3>4. rows'[n][1] = rows[n][1]
          BY <1>4, <1>5, <3>1, <3>3
    <3>5. status'[n] = status[n]
          BY <1>1, <3>1 DEF Abandoned
    <3>6. QED
          BY <3>3, <3>4, <3>5 DEF OK
  <2>2. ASSUME ~AllOK(0)
        PROVE  \E n \in Node : \E i \in DOMAIN rows'[n] : rows'[n][i] = "FAILED"
    <3>1. PICK n \in Node : rows[n] # <<>> /\ shown[n][1] = "FAILED"
      <4>1. CASE frame[0].pending # {}
            BY <1>3, <1>4, <4>1
      <4>2. CASE frame[0].pending = {}
        <5>1. PICK n \in frame[0].completed : ~OK(n)
              BY <2>2, <4>2 DEF AllOK
        <5>2. n \in Node /\ rows[n] # <<>> /\ rows[n][1] = "FAILED"
              BY <1>3, <5>1 DEF OutcomeShown, OK
        <5>3. QED
              BY <1>4, <4>2, <5>2
      <4>3. QED
            BY <4>1, <4>2
    <3>2. 1 \in DOMAIN rows'[n] /\ rows'[n][1] = "FAILED"
          BY <1>5, <3>1
    <3>3. QED
          BY <3>2
  <2>3. QED
        BY <1>1, <2>1, <2>2 DEF VerdictMatchesRows
<1>10. QED
      BY <1>1, <1>6, <1>7, <1>8, <1>9 DEF RowInv, RowOK

LEMMA TimeoutRows ==
    ASSUME Scaffold, RowInv, HardTimeout
    PROVE  RowInv'
<1>1. /\ phase' = "timedout" /\ rows' = Swept(rows)
      /\ at' = [n \in Node |-> "idle"] /\ frame' = [p \in Plan |-> Closed]
      BY DEF HardTimeout
<1>2. /\ \A n \in Node : \A i \in DOMAIN rows'[n] : rows'[n][i] \notin {"PENDING", "RUNNING"}
      /\ \A n \in Node : rows'[n] # <<>> => 1 \in DOMAIN rows'[n]
  <2>1. rows \in [Node -> Seq(Status)]
        BY DEF Scaffold, TypeOK
  <2>2. /\ \A n \in Node : Swept(rows)[n] = <<>> <=> rows[n] = <<>>
        /\ \A n \in Node : \A i \in DOMAIN Swept(rows)[n] :
                Swept(rows)[n][i] \notin {"PENDING", "RUNNING"}
        /\ \A n \in Node : rows[n] # <<>> => 1 \in DOMAIN Swept(rows)[n]
        BY <2>1, SweptFacts
  <2>3. QED
        BY <1>1, <2>2
<1>3. \A p \in Plan : frame'[p].at = "closed"
      BY <1>1, ClosedFacts
<1>4. QED
      BY <1>1, <1>2, <1>3 DEF RowInv, RowOK, RowLive, RowsSettled, VerdictMatchesRows

LEMMA OutsideRows ==
    ASSUME Scaffold, RowInv, Reject \/ Expire \/ UNCHANGED vars
    PROVE  RowInv'
<1>1. /\ UNCHANGED <<status, at, frame, rows>>
      /\ phase' = "rejected" \/ (phase' = phase /\ task' = task)
      BY DEF Reject, Expire, vars
<1>2. \A p \in Plan : RowOK(p)'
      BY <1>1 DEF RowInv, RowOK, OutcomeShown, Replaced, Current
<1>3. \A n \in Node : RowLive(n)'
      BY <1>1 DEF RowInv, RowLive
<1>4. QED
      BY <1>1, <1>2, <1>3 DEF RowInv, RowsSettled, VerdictMatchesRows, OK

LEMMA RowStep == Scaffold /\ RowInv /\ [Next]_vars => RowInv'
<1> SUFFICES ASSUME Scaffold, RowInv, [Next]_vars PROVE RowInv'
    OBVIOUS
<1>1. CASE Satisfied
      BY <1>1, NodeFacts, FrameMovesRows DEF Satisfied
<1>2. QED
      BY <1>1, NodeRows, PlanStepRows, ApproveRows, EndTaskRows, SpawnRows, TimeoutRows,
         OutsideRows DEF Next, EngineStep, RootStep

LEMMA RowsCorrect == Spec => []RowInv
BY InitRows, ScaffoldCorrect, RowStep, PTL DEF Spec

(* What a page shows as running is running.                                 *)
THEOREM RunningIsRunning == Spec => []RunningRowIsLive
<1>1. RowInv => RunningRowIsLive
      BY DEF RowInv, RowLive, RunningRowIsLive
<1>2. QED
      BY <1>1, RowsCorrect, PTL

(* After the end, by whatever way, no row is left unfinished.               *)
THEOREM RowsGetSettled == Spec => []RowsSettled
<1>1. RowInv => RowsSettled
      BY DEF RowInv
<1>2. QED
      BY <1>1, RowsCorrect, PTL

(* The rows of a normal end support the engine's verdict.                   *)
THEOREM VerdictIsSupported == Spec => []VerdictMatchesRows
<1>1. RowInv => VerdictMatchesRows
      BY DEF RowInv
<1>2. QED
      BY <1>1, RowsCorrect, PTL

-----------------------------------------------------------------------------
(* Once the time is up.                                                     *)
LateStart ==
    late => /\ \A n \in Node : at'[n] \in {"queued", "inner", "planning"} => at'[n] = at[n]
            /\ frame[0].at = "post" => frame'[0].at # "reflect"

LEMMA NodeLate ==
    ASSUME Scaffold, NEW n \in Node, NodeStep(n)
    PROVE  LateStart
<1>1. at \in [Node -> Stage]
      BY DEF Scaffold, TypeOK
<1>2. CASE Acquire(n)
      BY <1>1, <1>2 DEF Acquire, Enter, LateStart
<1>3. CASE InnerReturned(n)
  <2>1. PICK s \in {"done", "gate"} : at' = [at EXCEPT ![n] = s]
        BY <1>3 DEF InnerReturned
  <2>2. QED
        BY <1>1, <1>3, <2>1 DEF InnerReturned, LateStart
<1>4. CASE Expand(n)
  <2>1. n \in Plan /\ n # 0 /\ 0 \in Plan
        BY <1>4, NodeFacts DEF Expand, Scaffold, NodeInv, NodeOK
  <2>2. frame'[0].at = frame[0].at
        BY <1>4, <2>1 DEF Expand, Scaffold, TypeOK
  <2>3. QED
        BY <1>1, <1>4, <2>2 DEF Expand, LateStart
<1>5. CASE ExpandRejected(n)
      BY <1>1, <1>5 DEF ExpandRejected, LateStart
<1>6. CASE GateOK(n)
      BY <1>1, <1>6 DEF GateOK, LateStart
<1>7. CASE GateRetry(n)
      BY <1>1, <1>7 DEF GateRetry, Enter, LateStart
<1>8. CASE GateReplan(n)
      BY <1>1, <1>8 DEF GateReplan, LateStart
<1>9. QED
      BY <1>2, <1>3, <1>4, <1>5, <1>6, <1>7, <1>8 DEF NodeStep

LEMMA PlanLate ==
    ASSUME Scaffold, NEW p \in Plan, PlanStep(p)
    PROVE  LateStart
<1>1. /\ at \in [Node -> Stage] /\ frame \in [Plan -> Frame] /\ 0 \in Plan
      /\ frame[p] \in Frame
      BY NodeFacts DEF Scaffold, TypeOK
<1>2. CASE Launch(p)
      BY <1>2 DEF Launch, LateStart
<1>3. CASE EndOfPlan(p)
  <2>1. frame'[0] = frame[0] /\ at' = [at EXCEPT ![p] = "gate"]
        BY <1>1, <1>3 DEF EndOfPlan
  <2>2. QED
        BY <1>1, <2>1 DEF LateStart
<1>4. CASE Gathered(p)
  <2>1. frame'[0].at # "reflect" \/ frame'[0] = frame[0]
        BY <1>1, <1>4 DEF Gathered
  <2>2. QED
        BY <1>4, <2>1 DEF Gathered, LateStart
<1>5. CASE BatchSettled(p)
  <2>1. late => frame'[0].at # "reflect" \/ frame'[0] = frame[0]
    <3> SUFFICES ASSUME late
                 PROVE  frame'[0].at # "reflect" \/ frame'[0] = frame[0]
        OBVIOUS
    <3>1. ~MayReflect(p)
          BY DEF MayReflect
    <3>2. frame' = [frame EXCEPT ![p].at = "head"]
          BY <1>5, <3>1 DEF BatchSettled
    <3>3. QED
          BY <1>1, <3>2
  <2>2. QED
        BY <1>5, <2>1 DEF BatchSettled, LateStart
<1>6. CASE TakeResult(p)
  <2>1. /\ at' = [at EXCEPT ![Current(p)] = "idle"]
        /\ Current(p) \in Node /\ Count(p, Current(p))
        BY <1>6, InPost DEF TakeResult, Members
  <2>2. frame'[0].at # "reflect" \/ frame'[0] = frame[0]
        BY <1>1, <2>1, CountFacts
  <2>3. QED
        BY <1>1, <2>1, <2>2 DEF LateStart
<1>7. CASE StartFallback(p)
  <2>1. PICK c \in Conditional : Enter(c, status) /\ frame' = [frame EXCEPT ![p].at = "fallback"]
        BY <1>7 DEF StartFallback, FallbackFor
  <2>2. frame'[0].at # "reflect" \/ frame'[0] = frame[0]
        BY <1>1, <2>1
  <2>3. late => at' = [at EXCEPT ![c] = "done"]
        BY <2>1 DEF Enter
  <2>4. QED
        BY <1>1, <2>2, <2>3 DEF LateStart
<1>8. CASE FallbackReturned(p)
  <2>1. PICK c \in Conditional : /\ Count(p, c)
                                 /\ at' = [at EXCEPT ![c] = "idle", ![Current(p)] = "idle"]
        BY <1>8 DEF FallbackReturned, FallbackFor
  <2>2. frame'[0].at # "reflect" \/ frame'[0] = frame[0]
        BY <1>1, <2>1, CountFacts, NodeFacts
  <2>3. QED
        BY <1>1, <2>1, <2>2 DEF LateStart
<1>9. QED
      BY <1>2, <1>3, <1>4, <1>5, <1>6, <1>7, <1>8 DEF PlanStep

LEMMA LateStep == Scaffold /\ Next => LateStart
<1> SUFFICES ASSUME Scaffold, Next PROVE LateStart
    OBVIOUS
<1>1. 0 \in Plan /\ frame \in [Plan -> Frame]
      BY NodeFacts DEF Scaffold, TypeOK
<1>2. CASE RootStep
  <2>1. at' = at /\ (frame[0].at # "post" \/ frame' = frame)
        BY <1>1, <1>2 DEF RootStep, Approve, Reject, EndOfTask, Satisfied, Spawn, Scaffold, FrameInv,
           FrameOK
  <2>2. QED
        BY <2>1 DEF LateStart
<1>3. CASE Expire \/ HardTimeout
  <2>1. CASE Expire
        BY <2>1 DEF Expire, LateStart
  <2>2. CASE HardTimeout
        BY <1>1, <2>2, ClosedFacts DEF HardTimeout, LateStart
  <2>3. QED
        BY <1>3, <2>1, <2>2
<1>4. QED
      BY <1>2, <1>3, NodeLate, PlanLate DEF Next, EngineStep

(* Nothing is started, started again or reflected upon late.                *)
THEOREM LateIsLate == Spec => NothingStartsLate
<1>1. Scaffold /\ [Next]_vars => [LateStart]_vars
      BY LateStep
<1>2. Spec => [][LateStart]_vars
      BY <1>1, ScaffoldCorrect, PTL DEF Spec
<1>3. QED
      BY <1>2 DEF NothingStartsLate, LateStart

-----------------------------------------------------------------------------
(* The permits.  A fallback runs without one; it runs under the permit that *)
(* somebody above it holds and does not use.                                *)
(*                                                                          *)
(* n comes after a in a line of conditional nodes, each a node of the plan  *)
(* of the one before.                                                       *)
Backs(a, n) ==
    \A S \in SUBSET (Node \cup {0}) :
        a \in S /\ (\A d \in Conditional : Parent[d] \in S => d \in S) => n \in S

LEMMA BackedByParent ==
    ASSUME NEW a, NEW d \in Conditional, Backs(a, Parent[d])
    PROVE  Backs(a, d)
BY DEF Backs

LEMMA BackedAbove ==
    ASSUME NEW a \in Node \cup {0}, NEW n, Backs(a, n)
    PROVE  n = a \/ (n \in Conditional /\ Backs(a, Parent[n]))
<1> DEFINE S == {m \in Node \cup {0} : m = a \/ (m \in Conditional /\ Backs(a, Parent[m]))}
<1>1. Backs(a, a)
      BY DEF Backs
<1>2. ASSUME NEW d \in Conditional, Parent[d] \in S PROVE d \in S
  <2>1. Backs(a, Parent[d])
        BY <1>1, <1>2, BackedByParent
  <2>2. QED
        BY <2>1, TreeFacts
<1>3. S \in SUBSET (Node \cup {0}) /\ a \in S
      OBVIOUS
<1>4. n \in S
      BY <1>2, <1>3 DEF Backs
<1>5. QED
      BY <1>4

(* In a set of nodes that hang together below a, no two of one plan, every  *)
(* node but the largest is the parent of another.                           *)
LEMMA Line ==
    ASSUME NEW T, T \subseteq Node, NEW a, a \notin T,
           \A x \in T : Parent[x] = a \/ Parent[x] \in T,
           \A x, y \in T : Parent[x] = Parent[y] => x = y,
           NEW x \in T, NEW y \in T, x < y
    PROVE  \E z \in T : Parent[z] = x
<1>1. \A n \in T : n \in Nat /\ Parent[n] < n
      BY TreeFacts
<1>2. ASSUME NEW m \in T, Parent[m] = a PROVE \A n \in T : m <= n
  <2>1. PICK n \in T : \A k \in T : n <= k
        BY <1>1, Smallest
  <2>2. Parent[n] \notin T
        BY <1>1, <2>1
  <2>3. QED
        BY <1>2, <2>1, <2>2
<1>3. ASSUME NEW v \in T, NEW u \in T, u < v PROVE Parent[v] \in T
      BY <1>1, <1>2, <1>3
<1> DEFINE Bad == {v \in T : \E u \in T : u < v /\ Parent[v] < u}
<1>4. Bad = {}
  <2> SUFFICES ASSUME Bad # {} PROVE FALSE
      OBVIOUS
  <2>1. PICK v \in Bad : \A w \in Bad : v <= w
        BY <1>1, Smallest
  <2>2. PICK u \in T : u < v /\ Parent[v] < u
        BY <2>1
  <2> DEFINE q == Parent[v]
             Above == {z \in T : q < z}
  <2>3. q \in T /\ v \in T
        BY <1>3, <2>1, <2>2
  <2>4. PICK z \in Above : \A w \in Above : z <= w
    <3>1. Above \subseteq Nat /\ Above # {}
          BY <1>1, <2>2
    <3>2. QED
          BY <3>1, Smallest
  <2>5. z \in T /\ q < z /\ z <= u
        BY <2>2, <2>4
  <2>6. Parent[z] \in T /\ Parent[z] < z
        BY <1>1, <1>3, <2>3, <2>5
  <2>7. ~(q < Parent[z])
        BY <1>1, <2>4, <2>6
  <2>8. Parent[z] # q
        BY <1>1, <2>2, <2>3, <2>5
  <2>9. Parent[z] < q
        BY <1>1, <2>3, <2>6, <2>7, <2>8
  <2>10. z \in Bad
        BY <2>3, <2>5, <2>9
  <2>11. QED
        BY <1>1, <2>1, <2>2, <2>3, <2>5, <2>10
<1>5. PICK z \in {w \in T : x < w} : \A w \in {w \in T : x < w} : z <= w
      BY <1>1, Smallest
<1>6. Parent[z] \in T /\ Parent[z] < z
      BY <1>1, <1>3, <1>5
<1>7. ~(x < Parent[z])
      BY <1>1, <1>5, <1>6
<1>8. ~(Parent[z] < x)
      BY <1>4, <1>5
<1>9. Parent[z] = x
      BY <1>1, <1>6, <1>7, <1>8
<1>10. QED
      BY <1>5, <1>9

(* The conditional nodes that run in a line below a.                        *)
Behind(a) == {c \in Conditional : Unsettled(c) /\ Backs(a, c)}

Working == {n \in Node : at[n] \in {"inner", "planning", "gate"}}

LEMMA BehindFacts ==
    ASSUME Scaffold, NEW a \in (Node \ Conditional) \cup {0}
    PROVE  /\ Behind(a) \subseteq Node /\ a \notin Behind(a)
           /\ \A x \in Behind(a) : /\ Parent[x] = a \/ Parent[x] \in Behind(a)
                                   /\ Parent[x] # 0 => at[Parent[x]] = "children"
                                   /\ frame[Parent[x]].at = "fallback"
           /\ \A x, y \in Behind(a) : Parent[x] = Parent[y] => x = y
           /\ \A x, y \in Behind(a) : x < y => at[x] = "children"
<1>1. Behind(a) \subseteq Node /\ a \notin Behind(a)
  <2>1. Behind(a) \subseteq Conditional
        BY DEF Behind
  <2>2. QED
        BY <2>1, TreeFacts
<1>2. ASSUME NEW x \in Behind(a)
      PROVE  /\ Parent[x] = a \/ Parent[x] \in Behind(a)
             /\ Parent[x] # 0 => at[Parent[x]] = "children"
             /\ frame[Parent[x]].at = "fallback"
  <2>1. x \in Node /\ x \in Conditional /\ at[x] # "idle" /\ Backs(a, x) /\ x # a
        BY <1>1 DEF Behind, Unsettled
  <2>2. Backs(a, Parent[x])
        BY <2>1, BackedAbove
  <2>3. Parent[x] = a \/ Parent[x] \in Conditional
        BY <2>2, BackedAbove
  <2>4. /\ frame[Parent[x]].at = "fallback"
        /\ Parent[x] # 0 => at[Parent[x]] = "children"
        BY <2>1, WaitedFor
  <2>5. QED
        BY <2>2, <2>3, <2>4, TreeFacts DEF Behind, Unsettled
<1>3. ASSUME NEW x \in Behind(a), NEW y \in Behind(a), Parent[x] = Parent[y] PROVE x = y
  <2>1. x \in Conditional /\ y \in Conditional /\ at[x] # "idle" /\ at[y] # "idle"
        BY DEF Behind, Unsettled
  <2>2. QED
        BY <1>3, <2>1 DEF Scaffold, NodeInv
<1>4. ASSUME NEW x \in Behind(a), NEW y \in Behind(a), x < y PROVE at[x] = "children"
  <2>1. PICK z \in Behind(a) : Parent[z] = x
        BY <1>1, <1>2, <1>3, <1>4, Line
  <2>2. QED
        BY <1>1, <1>2, <2>1, TreeFacts
<1>5. QED
      BY <1>1, <1>2, <1>3, <1>4

(* Every fallback at work is behind somebody who waits for it.              *)
LEMMA Backed ==
    ASSUME Scaffold, NEW c \in Conditional, Unsettled(c)
    PROVE  \E a \in (Node \ Conditional) \cup {0} :
                Backs(a, c) /\ (a # 0 => at[a] = "children")
<1> DEFINE Has(d) == \E a \in (Node \ Conditional) \cup {0} :
                        Backs(a, d) /\ (a # 0 => at[a] = "children")
           Bad == {d \in Conditional : Unsettled(d) /\ ~Has(d)}
<1>1. Bad = {}
  <2> SUFFICES ASSUME Bad # {} PROVE FALSE
      OBVIOUS
  <2>1. PICK d \in Bad : \A e \in Bad : d <= e
        BY Smallest, TreeFacts
  <2>2. /\ d \in Node /\ d \in Nat /\ Parent[d] < d /\ Parent[d] \in Node \cup {0}
        /\ Parent[d] # 0 => at[Parent[d]] = "children"
        BY <2>1, TreeFacts, WaitedFor DEF Unsettled
  <2>3. CASE Parent[d] \in Conditional
    <3>1. Unsettled(Parent[d]) /\ Parent[d] \in Nat /\ Parent[d] # 0
          BY <2>2, <2>3, TreeFacts DEF Unsettled
    <3>2. Has(Parent[d])
      <4>1. ~(d <= Parent[d])
            BY <2>2, <3>1
      <4>2. Parent[d] \notin Bad
            BY <2>1, <4>1
      <4>3. QED
            BY <2>3, <3>1, <4>2
    <3>3. Has(d)
          BY <2>1, <3>2, BackedByParent
    <3>4. QED
          BY <2>1, <3>3
  <2>4. CASE Parent[d] \notin Conditional
    <3>1. Backs(Parent[d], Parent[d])
          BY DEF Backs
    <3>2. Has(d)
          BY <2>1, <2>2, <2>4, <3>1, BackedByParent
    <3>3. QED
          BY <2>1, <3>2
  <2>5. QED
        BY <2>3, <2>4
<1>2. QED
      BY <1>1

(* A fallback on the top level, or below nothing but fallbacks, works alone.*)
LEMMA WorksAlone ==
    ASSUME Scaffold, NEW c \in Behind(0), c \in Working
    PROVE  Working = {c}
<1>1. at[c] # "children"
      BY DEF Working
<1> DEFINE T == Behind(0)
           Bad == {n \in Node : Unsettled(n) /\ n \notin T}
<1>2. /\ T \subseteq Node /\ 0 \notin T
      /\ \A x \in T : /\ Parent[x] = 0 \/ Parent[x] \in T
                      /\ Parent[x] # 0 => at[Parent[x]] = "children"
                      /\ frame[Parent[x]].at = "fallback"
      /\ \A x, y \in T : Parent[x] = Parent[y] => x = y
      /\ \A x, y \in T : x < y => at[x] = "children"
      BY BehindFacts
<1>3. \A n \in T : n \in Conditional /\ Unsettled(n)
      BY DEF Behind
<1>4. Bad = {}
  <2> SUFFICES ASSUME Bad # {} PROVE FALSE
      OBVIOUS
  <2>1. PICK n \in Bad : \A m \in Bad : n <= m
        BY Smallest, TreeFacts
  <2>2. /\ n \in Node /\ n \in Nat /\ Unsettled(n) /\ n \notin T
        /\ Parent[n] < n /\ Parent[n] \in Node \cup {0}
        BY <2>1, TreeFacts
  <2>3. /\ n \notin Conditional => frame[Parent[n]].at = "batch"
        /\ Parent[n] # 0 => at[Parent[n]] = "children"
        BY <2>2, WaitedFor DEF Unsettled
  <2>4. Parent[n] = 0 \/ Parent[n] \in T
    <3>1. ASSUME Parent[n] # 0 PROVE Parent[n] \in T
      <4>1. Unsettled(Parent[n]) /\ Parent[n] \in Node /\ Parent[n] \in Nat
            BY <2>2, <2>3, <3>1, TreeFacts DEF Unsettled
      <4>2. ~(n <= Parent[n])
            BY <2>2, <4>1
      <4>3. Parent[n] \notin Bad
            BY <2>1, <4>2
      <4>4. QED
            BY <4>1, <4>3
    <3>2. QED
          BY <3>1
  <2>5. n \notin Conditional
    <3>1. Backs(0, Parent[n])
          BY <2>4 DEF Backs, Behind
    <3>2. QED
          BY <2>2, <3>1, BackedByParent DEF Behind
  <2>6. PICK z \in T : Parent[z] = Parent[n]
    <3>1. CASE Parent[n] = 0
      <4>1. PICK z \in T : \A k \in T : z <= k
            BY <1>2, Smallest, TreeFacts
      <4>2. z \in Nat /\ Parent[z] \in Nat /\ Parent[z] < z
            BY <1>2, <4>1, TreeFacts
      <4>3. Parent[z] = 0
            BY <1>2, <4>1, <4>2
      <4>4. QED
            BY <3>1, <4>1, <4>3
    <3>2. CASE Parent[n] \in T
      <4>1. Parent[n] \in Nat /\ c \in Nat /\ Parent[n] # 0
            BY <1>2, <3>2, TreeFacts
      <4>2. Parent[n] < c
            BY <1>1, <1>2, <2>3, <3>2, <4>1
      <4>3. QED
            BY <1>2, <3>2, <4>2, Line
    <3>3. QED
          BY <2>4, <3>1, <3>2
  <2>7. QED
        BY <1>2, <2>3, <2>5, <2>6
<1>5. ASSUME NEW n \in Working PROVE n = c
  <2>1. n \in T /\ at[n] # "children" /\ n \in Nat /\ c \in Nat
        BY <1>2, <1>4, TreeFacts DEF Working, Unsettled
  <2>2. QED
        BY <1>1, <1>2, <2>1
<1>6. QED
      BY <1>5

(* So those at work are not more than those that hold a permit.             *)
LEMMA WorkIsPermitted ==
    ASSUME Scaffold, HolderInv
    PROVE  ThrottleRespected
<1> SUFFICES ASSUME Permits # 0
             PROVE  Cardinality(Working) <= Permits
    BY DEF ThrottleRespected, Working
<1>1. /\ Permits \in Nat /\ Cardinality(Holders) <= Permits
      /\ IsFiniteSet(Node)
      BY LimitAssumption, TreeAssumption DEF HolderInv
<1>2. CASE \E c \in Behind(0) : c \in Working
  <2>1. PICK c \in Behind(0) : Working = {c}
        BY <1>2, WorksAlone
  <2>2. Cardinality(Working) = 1
        BY <2>1, FS_Singleton
  <2>3. QED
        BY <1>1, <2>2
<1>3. CASE ~(\E c \in Behind(0) : c \in Working)
  <2> DEFINE Lends(a, c) == a \in Node \ Conditional /\ Backs(a, c) /\ at[a] = "children"
             f == [n \in Working |-> IF n \in Conditional
                                     THEN CHOOSE a \in Node : Lends(a, n) ELSE n]
  <2>1. ASSUME NEW c \in Working, c \in Conditional
        PROVE  f[c] \in Node /\ Lends(f[c], c) /\ c \in Behind(f[c])
    <3>1. Unsettled(c)
          BY DEF Working, Unsettled
    <3>2. PICK a \in (Node \ Conditional) \cup {0} :
                Backs(a, c) /\ (a # 0 => at[a] = "children")
          BY <2>1, <3>1, Backed
    <3>3. a # 0
          BY <1>3, <2>1, <3>1, <3>2 DEF Behind
    <3>4. \E b \in Node : Lends(b, c)
          BY <3>2, <3>3
    <3>5. f[c] = CHOOSE b \in Node : Lends(b, c)
          BY <2>1
    <3>6. f[c] \in Node /\ Lends(f[c], c)
          BY <3>4, <3>5
    <3>7. QED
          BY <2>1, <3>1, <3>6 DEF Behind
  <2>2. ASSUME NEW n \in Working, n \notin Conditional
        PROVE  f[n] = n /\ n \in Node /\ at[n] \in {"inner", "planning", "gate"}
        BY <2>2 DEF Working
  <2>3. f \in [Working -> Holders]
    <3>1. ASSUME NEW n \in Working PROVE f[n] \in Holders
      <4>1. CASE n \in Conditional
            BY <2>1, <4>1 DEF Holders
      <4>2. CASE n \notin Conditional
            BY <2>2, <4>2 DEF Holders
      <4>3. QED
            BY <4>1, <4>2
    <3> HIDE DEF Lends
    <3>2. QED
          BY <3>1
  <2> HIDE DEF f
  <2>4. ASSUME NEW m \in Working, NEW n \in Working, f[m] = f[n] PROVE m = n
    <3>1. /\ m \in Node /\ n \in Node /\ m \in Nat /\ n \in Nat
          /\ at[m] # "children" /\ at[n] # "children"
          BY TreeFacts DEF Working
    <3>2. CASE m \in Conditional /\ n \in Conditional
      <4>1. /\ m \in Behind(f[m]) /\ n \in Behind(f[m])
            /\ f[m] \in (Node \ Conditional) \cup {0}
            BY <2>1, <2>4, <3>2
      <4>2. ~(m < n) /\ ~(n < m)
            BY <3>1, <4>1, BehindFacts
      <4>3. QED
            BY <3>1, <4>2
    <3>3. CASE m \in Conditional /\ n \notin Conditional
          BY <2>1, <2>2, <2>4, <3>1, <3>3
    <3>4. CASE m \notin Conditional /\ n \in Conditional
          BY <2>1, <2>2, <2>4, <3>1, <3>4
    <3>5. CASE m \notin Conditional /\ n \notin Conditional
          BY <2>2, <2>4, <3>5
    <3>6. QED
          BY <3>2, <3>3, <3>4, <3>5
  <2>5. f \in Injection(Working, Holders)
        BY <2>3, <2>4 DEF Injection, IsInjective
  <2>6. IsFiniteSet(Holders)
        BY <1>1, FS_Subset DEF Holders
  <2>7. Cardinality(Working) <= Cardinality(Holders)
        BY <2>5, <2>6, FS_Injection
  <2>8. Cardinality(Working) \in Nat /\ Cardinality(Holders) \in Nat
        BY <2>5, <2>6, FS_Injection, FS_CardinalityType
  <2>9. QED
        BY <1>1, <2>7, <2>8
<1>4. QED
      BY <1>2, <1>3

(* A permit is taken in Acquire and nowhere else.                           *)
LEMMA HolderStep == Scaffold /\ HolderInv /\ [Next]_vars => HolderInv'
<1> SUFFICES ASSUME Scaffold, HolderInv, [Next]_vars PROVE HolderInv'
    OBVIOUS
<1> USE DEF Stage
<1>1. /\ at \in [Node -> Stage] /\ IsFiniteSet(Node) /\ Permits \in Nat
      BY TreeAssumption, LimitAssumption DEF Scaffold, TypeOK
<1>2. IsFiniteSet(Holders) /\ Cardinality(Holders) \in Nat
  <2>1. IsFiniteSet(Holders)
        BY <1>1, FS_Subset DEF Holders
  <2>2. QED
        BY <2>1, FS_CardinalityType
<1>3. ASSUME Holders' \subseteq Holders PROVE HolderInv'
  <2>1. Cardinality(Holders') <= Cardinality(Holders) /\ IsFiniteSet(Holders')
        BY <1>2, <1>3, FS_Subset
  <2>2. Cardinality(Holders') \in Nat
        BY <2>1, FS_CardinalityType
  <2>3. QED
        BY <1>1, <1>2, <2>1, <2>2 DEF HolderInv
<1>4. ASSUME NEW n \in Node, NodeStep(n) PROVE HolderInv'
  <2>1. CASE Acquire(n)
    <3>1. Permits = 0 \/ Cardinality(Holders) < Permits
          BY <2>1 DEF Acquire
    <3>2. Holders' \subseteq Holders \cup {n}
          BY <1>1, <2>1 DEF Acquire, Enter, Holders
    <3>3. /\ IsFiniteSet(Holders \cup {n})
          /\ Cardinality(Holders \cup {n}) <= Cardinality(Holders) + 1
          /\ Cardinality(Holders \cup {n}) \in Nat
          BY <1>2, FS_AddElement, FS_CardinalityType
    <3>4. /\ Cardinality(Holders') <= Cardinality(Holders \cup {n})
          /\ Cardinality(Holders') \in Nat
          BY <3>2, <3>3, FS_Subset, FS_CardinalityType
    <3>5. QED
          BY <1>1, <1>2, <3>1, <3>3, <3>4 DEF HolderInv
  <2>2. ASSUME at[n] \in {"inner", "planning", "gate"}, NEW s \in Stage, at' = [at EXCEPT ![n] = s]
        PROVE  HolderInv'
        BY <1>1, <1>3, <2>2 DEF Holders
  <2>3. CASE InnerReturned(n)
    <3>1. PICK s \in {"done", "gate"} : at' = [at EXCEPT ![n] = s]
          BY <2>3 DEF InnerReturned
    <3>2. QED
          BY <2>2, <2>3, <3>1 DEF InnerReturned
  <2>4. CASE Expand(n) \/ ExpandRejected(n) \/ GateOK(n) \/ GateReplan(n)
        BY <2>2, <2>4 DEF Expand, ExpandRejected, GateOK, GateReplan
  <2>5. CASE GateRetry(n)
        BY <2>2, <2>5 DEF GateRetry, Enter
  <2>6. QED
        BY <1>4, <2>1, <2>3, <2>4, <2>5 DEF NodeStep
<1>5. ASSUME NEW p \in Plan, PlanStep(p) PROVE HolderInv'
  <2>1. ASSUME \A n \in Node \ Conditional :
                  at'[n] \in {"inner", "planning", "children", "gate"} =>
                      at[n] \in {"inner", "planning", "children", "gate"}
        PROVE  HolderInv'
        BY <1>3, <2>1 DEF Holders
  <2>2. CASE Launch(p)
        BY <1>1, <2>1, <2>2 DEF Launch
  <2>3. CASE EndOfPlan(p)
    <3>1. p \in Node /\ at[p] = "children"
          BY <2>3, NodeFacts DEF EndOfPlan, Scaffold, FrameInv, FrameOK
    <3>2. QED
          BY <1>1, <2>1, <2>3, <3>1 DEF EndOfPlan
  <2>4. CASE Gathered(p) \/ BatchSettled(p)
        BY <2>1, <2>4 DEF Gathered, BatchSettled
  <2>5. CASE TakeResult(p)
        BY <1>1, <2>1, <2>5 DEF TakeResult
  <2>6. CASE StartFallback(p)
        BY <1>1, <2>1, <2>6 DEF StartFallback, FallbackFor, Enter
  <2>7. CASE FallbackReturned(p)
        BY <1>1, <2>1, <2>7 DEF FallbackReturned
  <2>8. QED
        BY <1>5, <2>2, <2>3, <2>4, <2>5, <2>6, <2>7 DEF PlanStep
<1>6. CASE RootStep \/ Expire \/ UNCHANGED vars
  <2>1. at' = at
        BY <1>6 DEF RootStep, Approve, Reject, EndOfTask, Satisfied, Spawn, Expire, vars
  <2>2. QED
        BY <1>3, <2>1 DEF Holders
<1>7. CASE HardTimeout
      BY <1>3, <1>7 DEF HardTimeout, Holders
<1>8. QED
      BY <1>4, <1>5, <1>6, <1>7 DEF Next, EngineStep

LEMMA InitHolders == Init => HolderInv
<1> SUFFICES ASSUME Init PROVE HolderInv
    OBVIOUS
<1>1. Holders = {}
      BY DEF Init, Holders
<1>2. QED
      BY <1>1, FS_EmptySet, LimitAssumption DEF HolderInv

(* However deep the recursion and whichever fallbacks run, the calls under  *)
(* way are never more than max_concurrent_nodes.                            *)
THEOREM ThrottleHolds == Spec => []ThrottleRespected
<1>1. Spec => []HolderInv
      BY InitHolders, ScaffoldCorrect, HolderStep, PTL DEF Spec
<1>2. QED
      BY <1>1, ScaffoldCorrect, WorkIsPermitted, PTL

=============================================================================
