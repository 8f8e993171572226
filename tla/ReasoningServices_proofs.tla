----------------------- MODULE ReasoningServices_proofs -----------------------
(* Theorems about the services that a model's answers steer, for every set of *)
(* answers, goals and tasks and any number of iterations, rounds and plans:   *)
(* each by itself, and then side by side.                                     *)
EXTENDS Selections, ReasoningServices, FiniteSetTheorems, SequenceTheorems, WellFoundedInduction, TLAPS

(* Any nonempty set of naturals has a smallest element.                     *)
LEMMA Smallest ==
    ASSUME NEW S, S \subseteq Nat, S # {}
    PROVE  \E m \in S : \A n \in S : m <= n
<1>1. \A R, D, T : IsWellFoundedOn(R, D) /\ T \subseteq D /\ T # {} =>
            \E x \in T : \A y \in T : ~(<<y, x>> \in R)
      BY WFMin, Zenon
<1>2. PICK m \in S : \A n \in S : ~(<<n, m>> \in OpToRel(<, Nat))
      BY <1>1, NatLessThanWellFounded, Zenon
<1>3. \A n \in S : ~(n < m)
      BY <1>2 DEF OpToRel
<1>4. QED
      BY <1>3

-----------------------------------------------------------------------------
(* The k-th of a finite set of numbers is the one with k - 1 before it; so   *)
(* what is kept of a sequence are the elements at the positions.             *)
LEMMA Ranked ==
    ASSUME NEW S, S \subseteq Nat, IsFiniteSet(S)
    PROVE  /\ \A i \in S : Cardinality(Before(S, i)) \in 0..(Cardinality(S) - 1)
           /\ \A k \in 1..Cardinality(S) : \E i \in S : Cardinality(Before(S, i)) = k - 1
           /\ \A i, j \in S : Cardinality(Before(S, i)) = Cardinality(Before(S, j)) => i = j
<1> DEFINE n == Cardinality(S)
           r == [i \in S |-> Cardinality(Before(S, i))]
<1>1. n \in Nat
      BY FS_CardinalityType
<1>2. ASSUME NEW i \in S
      PROVE  /\ IsFiniteSet(Before(S, i))
             /\ Cardinality(Before(S, i)) \in 0..(n - 1)
  <2>1. /\ IsFiniteSet(S \ {i}) /\ Cardinality(S \ {i}) = n - 1
        BY FS_RemoveElement
  <2>2. Before(S, i) \in SUBSET (S \ {i})
        BY DEF Before
  <2>3. /\ IsFiniteSet(Before(S, i)) /\ Cardinality(Before(S, i)) <= Cardinality(S \ {i})
        BY <2>1, <2>2, FS_Subset
  <2>4. Cardinality(Before(S, i)) \in Nat
        BY <2>3, FS_CardinalityType
  <2>5. QED
        BY <1>1, <2>1, <2>3, <2>4
<1>3. ASSUME NEW i \in S, NEW j \in S, i < j
      PROVE  Cardinality(Before(S, i)) # Cardinality(Before(S, j))
  <2>1. Before(S, i) \in SUBSET Before(S, j)
    <3>1. ASSUME NEW k \in Before(S, i) PROVE k \in S /\ k < j
      <4>1. k \in S /\ k \in Nat /\ i \in Nat /\ j \in Nat /\ k < i
            BY DEF Before
      <4>2. QED
            BY <1>3, <4>1
    <3>2. QED
          BY <3>1 DEF Before
  <2>2. i \in Before(S, j) /\ i \notin Before(S, i)
        BY <1>3 DEF Before
  <2>3. Cardinality(Before(S, i)) = Cardinality(Before(S, j)) => Before(S, j) = Before(S, i)
        BY <1>2, <2>1, FS_Subset
  <2>4. QED
        BY <2>2, <2>3
<1>4. \A i, j \in S : Cardinality(Before(S, i)) = Cardinality(Before(S, j)) => i = j
      BY <1>3
<1>5. r \in Injection(S, 0..(n - 1))
      BY <1>2, <1>4 DEF Injection, IsInjective
<1>6. /\ IsFiniteSet(0..(n - 1)) /\ Cardinality(0..(n - 1)) = n
  <2>1. 0 \in Int /\ n - 1 \in Int
        BY <1>1
  <2>2. /\ IsFiniteSet(0..(n - 1))
        /\ Cardinality(0..(n - 1)) = IF 0 > n - 1 THEN 0 ELSE (n - 1) - 0 + 1
        BY <2>1, FS_Interval
  <2>3. QED
        BY <1>1, <2>2
<1>7. r \in Surjection(S, 0..(n - 1))
      BY <1>5, <1>6, FS_Injection
<1>8. \A k \in 0..(n - 1) : \E i \in S : Cardinality(Before(S, i)) = k
  <2>1. \A k \in 0..(n - 1) : \E i \in S : r[i] = k
        BY <1>7 DEF Surjection
  <2>2. QED
        BY <2>1
<1>9. \A k \in 1..n : k - 1 \in 0..(n - 1)
      BY <1>1
<1>10. QED
      BY <1>2, <1>4, <1>8, <1>9

LEMMA KeptAre ==
    ASSUME NEW E, NEW ch \in Seq(E), NEW S, S \subseteq DOMAIN ch
    PROVE  /\ Kept(ch, S) \in Seq(E)
           /\ Len(Kept(ch, S)) = Cardinality(S) /\ Cardinality(S) \in Nat
           /\ \A k \in DOMAIN Kept(ch, S) : \E i \in S : Kept(ch, S)[k] = ch[i]
           /\ \A i \in S : \E k \in DOMAIN Kept(ch, S) : Kept(ch, S)[k] = ch[i]
<1> DEFINE n == Cardinality(S)
           pick(k) == CHOOSE i \in Place(S, k) : TRUE
<1>1. DOMAIN ch = 1..Len(ch) /\ Len(ch) \in Nat
      OBVIOUS
<1>2. IsFiniteSet(S) /\ S \subseteq Nat /\ n \in Nat
  <2>1. IsFiniteSet(1..Len(ch))
        BY <1>1, FS_Interval
  <2>2. IsFiniteSet(S)
        BY <1>1, <2>1, FS_Subset
  <2>3. QED
        BY <1>1, <2>2, FS_CardinalityType
<1>3. \A k \in 1..n : pick(k) \in S /\ Cardinality(Before(S, pick(k))) = k - 1
  <2>1. ASSUME NEW k \in 1..n PROVE Place(S, k) # {}
        BY <1>2, Ranked DEF Place
  <2>2. \A k \in 1..n : pick(k) \in Place(S, k)
        BY <2>1
  <2>3. QED
        BY <2>2 DEF Place
<1>4. /\ \A i \in S : Cardinality(Before(S, i)) \in 0..(n - 1)
      /\ \A i, j \in S : Cardinality(Before(S, i)) = Cardinality(Before(S, j)) => i = j
      BY <1>2, Ranked
<1>5. ASSUME NEW i \in S PROVE \E k \in 1..n : pick(k) = i
  <2> DEFINE k == Cardinality(Before(S, i)) + 1
  <2>1. k \in 1..n /\ k - 1 = Cardinality(Before(S, i))
        BY <1>2, <1>4
  <2>2. pick(k) \in S /\ Cardinality(Before(S, pick(k))) = Cardinality(Before(S, i))
        BY <1>3, <2>1
  <2>3. pick(k) = i
        BY <1>4, <2>2
  <2>4. QED
        BY <2>1, <2>3
<1> DEFINE kept == Kept(ch, S)
<1>6. kept = [k \in 1..n |-> ch[pick(k)]]
      BY DEF Kept
<1> HIDE DEF pick
<1>7. \A k \in 1..n : ch[pick(k)] \in E
      BY <1>1, <1>3
<1>8. /\ kept \in Seq(E) /\ Len(kept) = n /\ DOMAIN kept = 1..n
      /\ \A k \in 1..n : kept[k] = ch[pick(k)]
      BY <1>2, <1>6, <1>7
<1> HIDE DEF kept
<1>9. QED
      BY <1>2, <1>3, <1>5, <1>8 DEF kept

LEMMA Appended ==
    ASSUME NEW E, NEW s \in Seq(E), NEW e \in E
    PROVE  /\ Append(s, e) \in Seq(E) /\ Len(Append(s, e)) = Len(s) + 1 /\ Len(s) \in Nat
           /\ DOMAIN Append(s, e) = 1..Len(s) + 1 /\ DOMAIN s = 1..Len(s)
           /\ \A i \in 1..Len(s) : Append(s, e)[i] = s[i]
           /\ Append(s, e)[Len(s) + 1] = e
OBVIOUS


LEMMA Concatenated ==
    ASSUME NEW E, NEW s \in Seq(E), NEW u \in Seq(E)
    PROVE  /\ s \o u \in Seq(E) /\ Len(s \o u) = Len(s) + Len(u) /\ Len(s) \in Nat /\ Len(u) \in Nat
           /\ DOMAIN (s \o u) = 1..Len(s) + Len(u) /\ DOMAIN s = 1..Len(s) /\ DOMAIN u = 1..Len(u)
           /\ \A i \in 1..Len(s) : (s \o u)[i] = s[i]
           /\ \A i \in 1..Len(u) : (s \o u)[Len(s) + i] = u[i]
OBVIOUS

LEMMA Same ==
    ASSUME NEW E, NEW s \in Seq(E), NEW u \in Seq(E), DOMAIN s = DOMAIN u,
           \A i \in DOMAIN s : s[i] = u[i]
    PROVE  s = u
<1>1. s = [i \in DOMAIN s |-> s[i]] /\ u = [i \in DOMAIN u |-> u[i]]
      OBVIOUS
<1>2. QED
      BY <1>1

(* A sequence of two with one element before it and one after it.           *)
LEMMA Between ==
    ASSUME NEW E, NEW s \in Seq(E), NEW a \in E, NEW b \in E, NEW t \in Seq(E)
    PROVE  Len(s) = 2 /\ DOMAIN t = 1..4 /\ t[1] = a /\ t[2] = s[1] /\ t[3] = s[2] /\ t[4] = b
               => t = <<a>> \o s \o <<b>>
<1> DEFINE f == <<a>>
           l == <<b>>
           m == f \o s
           w == m \o l
<1>0. f \in Seq(E) /\ l \in Seq(E)
      OBVIOUS
<1>1. Len(f) = 1 /\ f[1] = a /\ Len(l) = 1 /\ l[1] = b
      OBVIOUS
<1> HIDE DEF f, l
<1>2. /\ m \in Seq(E) /\ Len(m) = Len(f) + Len(s)
      /\ \A i \in 1..Len(f) : m[i] = f[i]
      /\ \A i \in 1..Len(s) : m[Len(f) + i] = s[i]
      BY <1>0, Concatenated
<1>a. m \in Seq(E)
      BY <1>2
<1> HIDE DEF m
<1>3. /\ w \in Seq(E) /\ DOMAIN w = 1..Len(m) + Len(l)
      /\ \A i \in 1..Len(m) : w[i] = m[i]
      /\ \A i \in 1..Len(l) : w[Len(m) + i] = l[i]
      BY <1>0, <1>a, Concatenated
<1> HIDE DEF w
<1>4. SUFFICES ASSUME Len(s) = 2, DOMAIN t = 1..4,
                      t[1] = a, t[2] = s[1], t[3] = s[2], t[4] = b
               PROVE  t = w
      BY DEF w, m, f, l
<1>5. Len(m) = 3 /\ m[1] = a /\ m[2] = s[1] /\ m[3] = s[2]
  <2>1. Len(f) + Len(s) = 3 /\ 1 \in 1..Len(f) /\ 1 \in 1..Len(s) /\ 2 \in 1..Len(s)
        /\ Len(f) + 1 = 2 /\ Len(f) + 2 = 3
        BY <1>1, <1>4
  <2>2. QED
        BY <1>1, <1>2, <2>1
<1>6. DOMAIN w = 1..4 /\ w[1] = a /\ w[2] = s[1] /\ w[3] = s[2] /\ w[4] = b
  <2>1. Len(m) + Len(l) = 4 /\ 1 \in 1..Len(m) /\ 2 \in 1..Len(m) /\ 3 \in 1..Len(m)
        /\ 1 \in 1..Len(l) /\ Len(m) + 1 = 4
        BY <1>1, <1>5
  <2>2. QED
        BY <1>1, <1>3, <1>5, <2>1
<1>7. \A i \in 1..4 : i = 1 \/ i = 2 \/ i = 3 \/ i = 4
      OBVIOUS
<1>8. DOMAIN t = DOMAIN w /\ \A i \in DOMAIN t : t[i] = w[i]
      BY <1>4, <1>6, <1>7
<1>9. w \in Seq(E)
      BY <1>3
<1>10. QED
      BY <1>8, <1>9, Same

-----------------------------------------------------------------------------
(* The council's debate.                                                     *)
DebEvent == [kind : {"started", "abandoned", "argument", "resolved"},
             about : Names \cup {"none", "error", "timeout"}]
DebTypes ==
    /\ debating \in {"new", "arguing", "judging", "resolved", "over"}
    /\ arguments \in Seq(Names) /\ debateEvents \in Seq(DebEvent)
    /\ \A i \in DOMAIN arguments : arguments[i] = Debaters[i]
    /\ debating # "new" => Len(Debaters) = 2

DebStarted == Len(debateEvents) = 1 /\ debateEvents[1].about = "none"

\* What has been published when a decision is told.
DebTelling ==
    /\ Len(arguments) = 2 /\ Len(debateEvents) \in 1..3
    /\ debateEvents[1].about = "none"
    /\ \A i \in DOMAIN debateEvents : i > 1 => debateEvents[i].about = Debaters[i - 1]
    /\ \E i \in DOMAIN Debaters : decision = Debaters[i]

DebInv ==
    /\ DebTypes
    /\ debating = "new" => arguments = <<>> /\ decision = "none" /\ debateEvents = <<>>
    /\ debating = "arguing" => DebStarted /\ Len(arguments) < 2 /\ decision = "none"
    /\ debating = "judging" => DebStarted /\ Len(arguments) = 2 /\ decision = "none"
    /\ debating = "resolved" => DebTelling
    /\ Debate!DebateIsTold

LEMMA DebKept == \A ch, S : Debate!Kept(ch, S) = Kept(ch, S)
BY DEF Debate!Kept, Kept, Debate!Place, Place, Debate!Before, Before, Debate!Cardinality, Cardinality

LEMMA KeptFrom ==
    ASSUME NEW E, NEW ch \in Seq(E), NEW S, S \subseteq DOMAIN ch
    PROVE  /\ Kept(ch, S) \in Seq(E)
           /\ \A k \in DOMAIN Kept(ch, S) : \E i \in DOMAIN ch : Kept(ch, S)[k] = ch[i]
<1>1. \A k \in DOMAIN Kept(ch, S) : \E i \in S : Kept(ch, S)[k] = ch[i]
      BY KeptAre
<1>2. Kept(ch, S) \in Seq(E)
      BY KeptAre
<1>3. QED
      BY <1>1, <1>2

LEMMA DebMatch ==
    ASSUME NEW name, Debate!MatchEngine(name) # "none"
    PROVE  \E i \in DOMAIN Debaters : Debate!MatchEngine(name) = Debaters[i]
<1> DEFINE S == {i \in DOMAIN Debaters : Debaters[i] = name}
           T == {i \in DOMAIN Debaters : Debaters[i] \in Mentions[name]}
           exact == Kept(Debaters, S)
           mentioned == Kept(Debaters, T)
<1>0. S \subseteq DOMAIN Debaters /\ T \subseteq DOMAIN Debaters
      OBVIOUS
<1>a. Debate!MatchEngine(name) = IF exact # <<>> THEN Head(exact) ELSE IF mentioned # <<>> THEN Head(mentioned) ELSE "none"
      BY DebKept DEF Debate!MatchEngine, Debate!None
<1> HIDE DEF S, T
<1>1. /\ exact \in Seq(Names) /\ \A k \in DOMAIN exact : \E i \in DOMAIN Debaters : exact[k] = Debaters[i]
      /\ mentioned \in Seq(Names) /\ \A k \in DOMAIN mentioned : \E i \in DOMAIN Debaters : mentioned[k] = Debaters[i]
      BY <1>0, KeptFrom, DebateAssumption
<1> HIDE DEF exact, mentioned
<1>2. \A s \in Seq(Names) : s # <<>> => 1 \in DOMAIN s /\ Head(s) = s[1]
      OBVIOUS
<1>3. QED
      BY <1>1, <1>2, <1>a

LEMMA DebInit == ASSUME Debate!Init PROVE DebInv
BY DEF Debate!Init, Debate!None, DebInv, DebTypes, Debate!DebateIsTold

DebVars == <<debating, arguments, decision, debateEvents>>

LEMMA DebAbandon == ASSUME DebInv, NEW why \in {"error", "timeout"}, Debate!Abandon(why) PROVE DebInv'
<1>1. /\ debating \in {"arguing", "judging"} /\ debating' = "over"
      /\ debateEvents' = Append(debateEvents, [kind |-> "abandoned", about |-> why])
      /\ arguments' = arguments /\ decision' = decision
      BY DEF Debate!Abandon, Debate!Publish
<1>2. DebTypes /\ DebStarted /\ decision = "none"
      BY <1>1 DEF DebInv
<1>3. /\ debateEvents' \in Seq(DebEvent) /\ Len(debateEvents') = 2
      /\ debateEvents'[2].kind = "abandoned"
  <2> DEFINE e == [kind |-> "abandoned", about |-> why]
  <2>1. e \in DebEvent /\ debateEvents' = Append(debateEvents, e)
        BY <1>1 DEF DebEvent
  <2>a. e.kind = "abandoned"
        OBVIOUS
  <2>2. debateEvents \in Seq(DebEvent) /\ Len(debateEvents) = 1
        BY <1>2 DEF DebTypes, DebStarted
  <2> HIDE DEF e
  <2>3. debateEvents' \in Seq(DebEvent) /\ Len(debateEvents') = 2 /\ debateEvents'[2] = e
        BY <2>1, <2>2
  <2>4. QED
        BY <2>a, <2>3
<1>4. DebTypes'
      BY <1>1, <1>2, <1>3 DEF DebTypes
<1>5. QED
      BY <1>1, <1>2, <1>3, <1>4 DEF DebInv, Debate!DebateIsTold, Debate!None

LEMMA DebStep == ASSUME DebInv, Debate!Next PROVE DebInv'
<1>1. DebTypes
      BY DEF DebInv
<1>2. CASE Debate!StartDebate
  <2>1. /\ debating = "new" /\ debating' = "arguing" /\ Len(Debaters) = 2
        /\ debateEvents' = Append(debateEvents, [kind |-> "started", about |-> "none"])
        /\ arguments' = arguments /\ decision' = decision
        BY <1>2 DEF Debate!StartDebate, Debate!Publish, Debate!None
  <2>2. arguments = <<>> /\ decision = "none" /\ debateEvents = <<>>
        BY <2>1 DEF DebInv
  <2>3. DebTypes' /\ DebStarted'
    <3>1. [kind |-> "started", about |-> "none"] \in DebEvent
          BY DEF DebEvent
    <3>2. /\ debateEvents' \in Seq(DebEvent) /\ Len(debateEvents') = 1
          /\ debateEvents'[1].about = "none"
          BY <2>1, <2>2, <3>1
    <3>3. QED
          BY <1>1, <2>1, <2>2, <3>2 DEF DebTypes, DebStarted
  <2>4. QED
        BY <2>1, <2>2, <2>3 DEF DebInv, Debate!DebateIsTold
<1>3. CASE Debate!GenerateArgument
  <2>1. CASE Debate!Abandon("error")
        BY <2>1, DebAbandon
  <2>2. CASE ~Debate!Abandon("error")
    <3>1. /\ debating = "arguing"
          /\ arguments' = Append(arguments, Debaters[Len(arguments) + 1])
          /\ debating' = IF Len(arguments') = 2 THEN "judging" ELSE "arguing"
          /\ decision' = decision /\ debateEvents' = debateEvents
          BY <1>3, <2>2 DEF Debate!GenerateArgument
    <3>2. DebStarted /\ Len(arguments) < 2 /\ decision = "none" /\ Len(Debaters) = 2
          BY <1>1, <3>1 DEF DebInv, DebTypes
    <3>a. arguments \in Seq(Names) /\ Debaters \in Seq(Names)
          BY <1>1, DebateAssumption DEF DebTypes
    <3>b. Len(arguments) + 1 \in DOMAIN Debaters
          BY <3>a, <3>2
    <3>3. Len(arguments) + 1 \in DOMAIN Debaters /\ Debaters[Len(arguments) + 1] \in Names
          BY <3>a, <3>b
    <3>4. /\ arguments' \in Seq(Names) /\ Len(arguments') = Len(arguments) + 1
          /\ \A i \in DOMAIN arguments' : arguments'[i] = Debaters[i]
          BY <1>1, <3>1, <3>3 DEF DebTypes
    <3>5. DebTypes' /\ DebStarted' /\ Len(arguments') <= 2
          BY <1>1, <3>1, <3>2, <3>4 DEF DebTypes, DebStarted
    <3>6. QED
          BY <3>1, <3>2, <3>4, <3>5 DEF DebInv, DebTypes, Debate!DebateIsTold
  <2>3. QED
        BY <2>1, <2>2
<1>4. CASE Debate!Resolve
  <2>1. CASE Debate!Abandon("error")
        BY <2>1, DebAbandon
  <2>2. CASE ~Debate!Abandon("error")
    <3>1. PICK name \in Names : /\ decision' = Debate!MatchEngine(name)
                                /\ Debate!MatchEngine(name) # "none"
          BY <1>4, <2>2 DEF Debate!Resolve, Debate!None
    <3>2. /\ debating = "judging" /\ debating' = "resolved"
          /\ arguments' = arguments /\ debateEvents' = debateEvents
          BY <1>4, <2>2 DEF Debate!Resolve
    <3>3. \E i \in DOMAIN Debaters : decision' = Debaters[i]
          BY <3>1, DebMatch
    <3>4. DebStarted /\ Len(arguments) = 2
          BY <3>2 DEF DebInv
    <3>5. DebTypes' /\ DebTelling'
          BY <1>1, <3>2, <3>3, <3>4 DEF DebTypes, DebTelling, DebStarted
    <3>6. QED
          BY <3>2, <3>5 DEF DebInv, Debate!DebateIsTold
  <2>3. QED
        BY <2>1, <2>2
<1>5. CASE Debate!Abandon("timeout")
      BY <1>5, DebAbandon
<1>6. CASE Debate!PublishArgument
  <2>1. /\ debating = "resolved" /\ Len(debateEvents) <= Len(arguments) /\ debating' = debating
        /\ debateEvents' = Append(debateEvents, [kind |-> "argument", about |-> arguments[Len(debateEvents)]])
        /\ arguments' = arguments /\ decision' = decision
        BY <1>6 DEF Debate!PublishArgument, Debate!Publish
  <2>2. DebTelling
        BY <2>1 DEF DebInv
  <2>3. Len(debateEvents) \in DOMAIN arguments
        BY <1>1, <2>1, <2>2 DEF DebTelling, DebTypes
  <2>4. arguments[Len(debateEvents)] = Debaters[Len(debateEvents)] /\ arguments[Len(debateEvents)] \in Names
        BY <1>1, <2>3 DEF DebTypes
  <2> DEFINE e == [kind |-> "argument", about |-> arguments[Len(debateEvents)]]
  <2>5. /\ debateEvents \in Seq(DebEvent) /\ e \in DebEvent /\ debateEvents' = Append(debateEvents, e)
        /\ e.about = Debaters[Len(debateEvents)]
        BY <1>1, <2>1, <2>4 DEF DebEvent, DebTypes
  <2> HIDE DEF e
  <2>6. /\ debateEvents' \in Seq(DebEvent) /\ Len(debateEvents') = Len(debateEvents) + 1
        /\ Len(debateEvents) \in 1..2
        /\ DOMAIN debateEvents' = 1..Len(debateEvents) + 1 /\ DOMAIN debateEvents = 1..Len(debateEvents)
        /\ \A i \in 1..Len(debateEvents) : debateEvents'[i] = debateEvents[i]
        /\ debateEvents'[Len(debateEvents) + 1].about = Debaters[Len(debateEvents)]
        BY <2>1, <2>2, <2>5, Appended DEF DebTelling
  <2>7. \A i \in DOMAIN debateEvents' : i > 1 => debateEvents'[i].about = Debaters[i - 1]
        BY <2>2, <2>6 DEF DebTelling
  <2>8. DebTypes' /\ DebTelling'
        BY <1>1, <2>1, <2>2, <2>6, <2>7 DEF DebTelling, DebTypes
  <2>9. QED
        BY <2>1, <2>8 DEF DebInv, Debate!DebateIsTold
<1>7. CASE Debate!PublishDecision
  <2>1. /\ debating = "resolved" /\ Len(debateEvents) > Len(arguments) /\ debating' = "over"
        /\ debateEvents' = Append(debateEvents, [kind |-> "resolved", about |-> decision])
        /\ arguments' = arguments /\ decision' = decision
        BY <1>7 DEF Debate!PublishDecision, Debate!Publish
  <2>2. DebTelling
        BY <2>1 DEF DebInv
  <2>3. Len(debateEvents) = 3 /\ Len(Debaters) = 2 /\ decision \in Names
    <3>1. Len(debateEvents) = 3 /\ Len(Debaters) = 2
          BY <1>1, <2>1, <2>2 DEF DebTelling, DebTypes
    <3>2. (\E i \in DOMAIN Debaters : decision = Debaters[i]) /\ Debaters \in Seq(Names)
          BY <2>2, DebateAssumption DEF DebTelling
    <3>3. QED
          BY <3>1, <3>2
  <2> DEFINE e == [kind |-> "resolved", about |-> decision]
  <2>a. debateEvents \in Seq(DebEvent) /\ e \in DebEvent /\ debateEvents' = Append(debateEvents, e)
        BY <1>1, <2>1, <2>3 DEF DebEvent, DebTypes
  <2>c. e.about = decision
        OBVIOUS
  <2> HIDE DEF e
  <2>d. /\ debateEvents' \in Seq(DebEvent) /\ Len(debateEvents') = Len(debateEvents) + 1
        /\ DOMAIN debateEvents' = 1..Len(debateEvents) + 1 /\ DOMAIN debateEvents = 1..Len(debateEvents)
        /\ \A i \in 1..Len(debateEvents) : debateEvents'[i] = debateEvents[i]
        /\ debateEvents'[Len(debateEvents) + 1] = e
        BY <2>a, Appended
  <2>b. /\ debateEvents' \in Seq(DebEvent) /\ Len(debateEvents') = 4
        /\ DOMAIN debateEvents' = 1..4 /\ DOMAIN debateEvents = 1..3
        /\ \A i \in 1..3 : debateEvents'[i] = debateEvents[i]
        /\ debateEvents'[4].about = decision
        BY <2>3, <2>c, <2>d
  <2>4. DebTypes'
        BY <1>1, <2>1, <2>b DEF DebTypes
  <2>5. /\ debateEvents'[1].about = "none"
        /\ debateEvents'[2].about = Debaters[1] /\ debateEvents'[3].about = Debaters[2]
        BY <2>2, <2>b DEF DebTelling
  <2>6. [i \in DOMAIN debateEvents' |-> debateEvents'[i].about] = <<"none">> \o Debaters \o <<decision>>
    <3>a. Debaters \in Seq(Names) /\ DOMAIN Debaters = 1..2
          BY <2>3, DebateAssumption
    <3> DEFINE told == [i \in DOMAIN debateEvents' |-> debateEvents'[i].about]
               All == Names \cup {"none"}
    <3>1. Debaters \in Seq(All) /\ Len(Debaters) = 2 /\ "none" \in All /\ decision \in All
          BY <2>3, <3>a
    <3>2. /\ told[1] = "none" /\ told[2] = Debaters[1] /\ told[3] = Debaters[2] /\ told[4] = decision
          /\ DOMAIN told = 1..4
          BY <2>5, <2>b
    <3>3. \A i \in 1..4 : told[i] \in All
      <4>1. \A i \in 1..4 : i = 1 \/ i = 2 \/ i = 3 \/ i = 4
            OBVIOUS
      <4>2. Debaters[1] \in All /\ Debaters[2] \in All
            BY <3>a
      <4>3. QED
            BY <3>1, <3>2, <4>1, <4>2
    <3>4. told \in Seq(All)
          BY <2>b, <3>3
    <3> HIDE DEF told, All
    <3>5. told = <<"none">> \o Debaters \o <<decision>>
          BY <3>1, <3>2, <3>4, Between
    <3>6. QED
          BY <3>5 DEF told
  <2>7. decision \in Debate!ToSet(Debaters)
        BY <2>2 DEF DebTelling, Debate!ToSet
  <2>8. QED
        BY <2>1, <2>4, <2>6, <2>7 DEF DebInv, Debate!DebateIsTold, Debate!None
<1>8. QED
      BY <1>2, <1>3, <1>4, <1>5, <1>6, <1>7 DEF Debate!Next

LEMMA DebSame == ASSUME DebInv, UNCHANGED DebVars PROVE DebInv'
BY DEF DebInv, DebTypes, DebStarted, DebTelling, DebVars, Debate!DebateIsTold

-----------------------------------------------------------------------------
(* The router of the planner's model.                                        *)
RouCounted == [goal : Goal, model : {"HAIKU", "SONNET"},
               category : {"classifier_failed", "low_confidence", "generic_tech_english", "non_ascii_entity",
                           "quoted_specific_entity", "multilingual_or_proper_noun"},
               cost : {0, 1}]
RouTypes ==
    /\ routeStage \in [Goal -> {"new", "classifying", "judged", "failed", "done"}]
    /\ verdict \in [Goal -> [model : {"HAIKU", "SONNET"}, confidence : Confidences \cup {0}, cost : {0, 1}]]
    /\ planner \in [Goal -> {"-", "HAIKU", "SONNET"}]
    /\ decisions \in Seq(RouCounted)

RouMine(g) == {i \in DOMAIN decisions : decisions[i].goal = g}

\* A classification of the paid model has its cost, and goals are counted only
\* while the router is enabled.
RouInv ==
    /\ RouTypes
    /\ \A g \in Goal :
        /\ routeStage[g] # "done" => planner[g] = "-"
        /\ routeStage[g] = "judged" /\ Remote => verdict[g].cost = 1
        /\ ~Enabled => routeStage[g] \in {"new", "done"}
    /\ Route!Safe

RouVars == <<routeStage, verdict, charged, planner, decisions, published>>

LEMMA RouCounts ==
    Route!EveryGoalCounted <=>
        \A g \in Goal :
            IF routeStage[g] # "done" \/ ~Enabled THEN RouMine(g) = {}
            ELSE \E i \in RouMine(g) :
                /\ RouMine(g) = {i} /\ decisions[i].model = planner[g]
                /\ g \in charged /\ Remote =>
                        decisions[i].cost = 1 \/ decisions[i].category = "classifier_failed"
BY DEF Route!EveryGoalCounted, RouMine

LEMMA RouInit == ASSUME Route!Init PROVE RouInv
<1>1. RouTypes
      BY DEF Route!Init, Route!NoVerdict, RouTypes
<1>2. \A g \in Goal : routeStage[g] = "new" /\ planner[g] = "-" /\ RouMine(g) = {}
      BY DEF Route!Init, RouMine
<1>3. Route!EveryGoalCounted
      BY <1>2, RouCounts
<1>4. QED
      BY <1>1, <1>2, <1>3 DEF RouInv, Route!Safe, Route!HaikuIsEarned

(* A step that counts nothing and decides no goal that is counted.           *)
LEMMA RouQuiet ==
    ASSUME RouInv, RouTypes', decisions' = decisions, NEW g \in Goal, ~(routeStage[g] = "done"),
           \A h \in Goal \ {g} : /\ routeStage'[h] = routeStage[h] /\ verdict'[h] = verdict[h]
                                 /\ planner'[h] = planner[h]
                                 /\ h \in charged' <=> h \in charged,
           planner'[g] # "HAIKU",
           routeStage'[g] # "done" \/ ~Enabled,
           routeStage'[g] # "done" => planner'[g] = "-",
           routeStage'[g] = "judged" /\ Remote => verdict'[g].cost = 1,
           ~Enabled => routeStage'[g] \in {"new", "done"}
    PROVE  RouInv'
<1>1. \A h \in Goal : RouMine(h)' = RouMine(h)
      BY DEF RouMine
<1>2. RouMine(g) = {}
      BY RouCounts DEF RouInv, Route!Safe
<1>3. ASSUME NEW h \in Goal
      PROVE  IF routeStage'[h] # "done" \/ ~Enabled THEN RouMine(h)' = {}
             ELSE \E i \in RouMine(h)' :
                /\ RouMine(h)' = {i} /\ decisions'[i].model = planner'[h]
                /\ h \in charged' /\ Remote =>
                        decisions'[i].cost = 1 \/ decisions'[i].category = "classifier_failed"
  <2>1. CASE h = g
        BY <2>1, <1>1, <1>2
  <2>2. CASE h # g
    <3>1. IF routeStage[h] # "done" \/ ~Enabled THEN RouMine(h) = {}
          ELSE \E i \in RouMine(h) :
                /\ RouMine(h) = {i} /\ decisions[i].model = planner[h]
                /\ h \in charged /\ Remote =>
                        decisions[i].cost = 1 \/ decisions[i].category = "classifier_failed"
          BY RouCounts DEF RouInv, Route!Safe
    <3>2. QED
          BY <2>2, <3>1, <1>1
  <2>3. QED
        BY <2>1, <2>2
<1>4. Route!EveryGoalCounted'
      BY <1>3 DEF Route!EveryGoalCounted, RouMine
<1>5. Route!HaikuIsEarned'
      BY DEF RouInv, Route!Safe, Route!HaikuIsEarned
<1>6. QED
      BY <1>4, <1>5 DEF RouInv, Route!Safe

LEMMA RouEmit ==
    ASSUME RouInv, NEW g \in Goal, NEW model \in {"HAIKU", "SONNET"},
           NEW category \in {"classifier_failed", "low_confidence", "generic_tech_english", "non_ascii_entity",
                             "quoted_specific_entity", "multilingual_or_proper_noun"},
           Route!Emit(g, model, category),
           \/ routeStage[g] = "judged"
           \/ routeStage[g] = "failed" /\ category = "classifier_failed",
           model = "HAIKU" => verdict[g].model = "HAIKU" /\ verdict[g].confidence >= HaikuThreshold
    PROVE  RouInv'
<1> DEFINE e == [goal |-> g, model |-> model, category |-> category, cost |-> verdict[g].cost]
           n == Len(decisions) + 1
<1>0. RouTypes /\ Enabled /\ routeStage[g] # "done"
      BY DEF RouInv
<1>1. /\ decisions' = Append(decisions, e)
      /\ planner' = [planner EXCEPT ![g] = model]
      /\ routeStage' = [routeStage EXCEPT ![g] = "done"]
      /\ verdict' = verdict /\ charged' = charged
      BY DEF Route!Emit, Route!Goto
<1>2. e \in RouCounted /\ decisions \in Seq(RouCounted)
      BY <1>0 DEF RouTypes, RouCounted
<1>3. /\ e.goal = g /\ e.model = model /\ e.category = category /\ e.cost = verdict[g].cost
      OBVIOUS
<1> HIDE DEF e
<1>4. /\ decisions' \in Seq(RouCounted)
      /\ DOMAIN decisions' = 1..n /\ DOMAIN decisions = 1..Len(decisions) /\ Len(decisions) \in Nat
      /\ \A i \in 1..Len(decisions) : decisions'[i] = decisions[i]
      /\ decisions'[n] = e
      BY <1>1, <1>2, Appended
<1>5. DOMAIN decisions' = DOMAIN decisions \cup {n} /\ n \notin DOMAIN decisions
      BY <1>4
<1>6. \A i \in DOMAIN decisions : decisions'[i] = decisions[i]
      BY <1>4
<1> HIDE DEF n
<1>7. RouTypes'
      BY <1>0, <1>1, <1>4 DEF RouTypes
<1>8. RouMine(g) = {}
      BY <1>0, RouCounts DEF RouInv, Route!Safe
<1>9. RouMine(g)' = {n}
  <2>1. \A i \in DOMAIN decisions : decisions[i].goal # g
        BY <1>8 DEF RouMine
  <2>2. \A i \in DOMAIN decisions' : decisions'[i].goal = g <=> i = n
        BY <1>3, <1>4, <1>5, <1>6, <2>1
  <2>3. n \in DOMAIN decisions'
        BY <1>5
  <2>4. QED
        BY <2>2, <2>3 DEF RouMine
<1>10. \A h \in Goal \ {g} : RouMine(h)' = RouMine(h)
      BY <1>3, <1>4, <1>5, <1>6 DEF RouMine
<1>11. /\ routeStage'[g] = "done" /\ planner'[g] = model
       /\ \A h \in Goal \ {g} : routeStage'[h] = routeStage[h] /\ planner'[h] = planner[h]
       BY <1>0, <1>1 DEF RouTypes
<1>12. ASSUME NEW h \in Goal
      PROVE  IF routeStage'[h] # "done" \/ ~Enabled THEN RouMine(h)' = {}
             ELSE \E i \in RouMine(h)' :
                /\ RouMine(h)' = {i} /\ decisions'[i].model = planner'[h]
                /\ h \in charged' /\ Remote =>
                        decisions'[i].cost = 1 \/ decisions'[i].category = "classifier_failed"
  <2>1. CASE h = g
    <3>1. decisions'[n].model = planner'[h]
          BY <2>1, <1>3, <1>4, <1>11
    <3>2. Remote => decisions'[n].cost = 1 \/ decisions'[n].category = "classifier_failed"
          BY <1>3, <1>4 DEF RouInv
    <3>3. QED
          BY <2>1, <3>1, <3>2, <1>0, <1>9, <1>11
  <2>2. CASE h # g
    <3>1. IF routeStage[h] # "done" \/ ~Enabled THEN RouMine(h) = {}
          ELSE \E i \in RouMine(h) :
                /\ RouMine(h) = {i} /\ decisions[i].model = planner[h]
                /\ h \in charged /\ Remote =>
                        decisions[i].cost = 1 \/ decisions[i].category = "classifier_failed"
          BY RouCounts DEF RouInv, Route!Safe
    <3>2. \A i \in RouMine(h) : decisions'[i] = decisions[i]
          BY <1>6 DEF RouMine
    <3>3. h \in Goal \ {g}
          BY <2>2
    <3>4. RouMine(h)' = RouMine(h) /\ routeStage'[h] = routeStage[h] /\ planner'[h] = planner[h]
          BY <3>3, <1>10, <1>11
    <3>5. CASE routeStage[h] # "done" \/ ~Enabled
          BY <3>1, <3>4, <3>5
    <3>6. CASE ~(routeStage[h] # "done" \/ ~Enabled)
      <4>1. PICK i \in RouMine(h) :
                /\ RouMine(h) = {i} /\ decisions[i].model = planner[h]
                /\ h \in charged /\ Remote =>
                        decisions[i].cost = 1 \/ decisions[i].category = "classifier_failed"
            BY <3>1, <3>6
      <4>2. decisions'[i] = decisions[i]
            BY <3>2
      <4>3. QED
            BY <3>4, <3>6, <4>1, <4>2, <1>1
    <3>7. QED
          BY <3>5, <3>6
  <2>3. QED
        BY <2>1, <2>2
<1>13. Route!EveryGoalCounted'
      BY <1>12 DEF Route!EveryGoalCounted, RouMine
<1>14. Route!HaikuIsEarned'
      BY <1>1, <1>11 DEF RouInv, Route!Safe, Route!HaikuIsEarned
<1>15. QED
      BY <1>0, <1>1, <1>7, <1>11, <1>13, <1>14 DEF RouInv, Route!Safe

LEMMA RouStep == ASSUME RouInv, Route!Next PROVE RouInv'
<1>0. RouTypes
      BY DEF RouInv
<1>1. PICK g \in Goal : \/ Route!SelectFor(g) \/ Route!ClassifierAnswers(g) \/ Route!ClassifierFails(g)
                        \/ Route!FallbackSonnet(g) \/ Route!Decide(g)
      BY DEF Route!Next
<1>2. CASE Route!SelectFor(g)
  <2>1. /\ routeStage[g] = "new" /\ verdict' = verdict /\ charged' = charged /\ decisions' = decisions
        /\ routeStage' = [routeStage EXCEPT ![g] = IF Enabled THEN "classifying" ELSE "done"]
        /\ planner' = IF Enabled THEN planner ELSE [planner EXCEPT ![g] = "SONNET"]
        BY <1>2 DEF Route!SelectFor, Route!Goto
  <2>2. RouTypes'
        BY <1>0, <2>1 DEF RouTypes
  <2>3. planner[g] = "-"
        BY <2>1 DEF RouInv
  <2>4. QED
        BY <1>0, <2>1, <2>2, <2>3, RouQuiet DEF RouTypes
<1>3. CASE Route!ClassifierAnswers(g)
  <2>1. PICK m \in {"HAIKU", "SONNET"}, c \in Confidences, paid \in BOOLEAN :
            /\ verdict' = [verdict EXCEPT ![g] = [model |-> m, confidence |-> c, cost |-> IF Remote THEN 1 ELSE 0]]
            /\ charged' = IF paid THEN charged \cup {g} ELSE charged
        BY <1>3 DEF Route!ClassifierAnswers
  <2>2. /\ routeStage[g] = "classifying" /\ routeStage' = [routeStage EXCEPT ![g] = "judged"]
        /\ planner' = planner /\ decisions' = decisions
        BY <1>3 DEF Route!ClassifierAnswers, Route!Goto
  <2> DEFINE v == [model |-> m, confidence |-> c, cost |-> IF Remote THEN 1 ELSE 0]
  <2>3. v \in [model : {"HAIKU", "SONNET"}, confidence : Confidences \cup {0}, cost : {0, 1}]
        /\ (Remote => v.cost = 1)
        OBVIOUS
  <2>a. verdict' = [verdict EXCEPT ![g] = v]
        BY <2>1
  <2> HIDE DEF v
  <2>4. RouTypes' /\ verdict'[g] = v /\ \A h \in Goal \ {g} : verdict'[h] = verdict[h]
        BY <1>0, <2>a, <2>2, <2>3 DEF RouTypes
  <2>5. planner[g] = "-" /\ Enabled
        BY <2>2 DEF RouInv
  <2>6. /\ routeStage'[g] = "judged" /\ \A h \in Goal \ {g} : routeStage'[h] = routeStage[h]
        /\ \A h \in Goal \ {g} : h \in charged' <=> h \in charged
        BY <1>0, <2>1, <2>2 DEF RouTypes
  <2>7. QED
        BY <2>2, <2>3, <2>4, <2>5, <2>6, RouQuiet
<1>4. CASE Route!ClassifierFails(g)
  <2>1. /\ routeStage[g] = "classifying" /\ routeStage' = [routeStage EXCEPT ![g] = "failed"]
        /\ planner' = planner /\ decisions' = decisions /\ verdict' = verdict
        /\ charged' \in {charged, charged \cup {g}}
        BY <1>4 DEF Route!ClassifierFails, Route!Goto
  <2>2. RouTypes'
        BY <1>0, <2>1 DEF RouTypes
  <2>3. planner[g] = "-" /\ Enabled
        BY <2>1 DEF RouInv
  <2>6. /\ routeStage'[g] = "failed" /\ \A h \in Goal \ {g} : routeStage'[h] = routeStage[h]
        /\ \A h \in Goal \ {g} : h \in charged' <=> h \in charged
        BY <1>0, <2>1 DEF RouTypes
  <2>7. QED
        BY <2>1, <2>2, <2>3, <2>6, RouQuiet
<1>5. CASE Route!FallbackSonnet(g)
  <2>1. routeStage[g] = "failed" /\ Route!Emit(g, "SONNET", "classifier_failed")
        BY <1>5 DEF Route!FallbackSonnet
  <2>2. QED
        BY <2>1, RouEmit
<1>6. CASE Route!Decide(g)
  <2>1. routeStage[g] = "judged"
        BY <1>6 DEF Route!Decide
  <2>2. CASE verdict[g].model = "SONNET"
    <3>1. PICK category \in {"non_ascii_entity", "quoted_specific_entity", "multilingual_or_proper_noun"} :
              Route!Emit(g, "SONNET", category)
          BY <1>6, <2>2 DEF Route!Decide
    <3>2. QED
          BY <2>1, <3>1, RouEmit
  <2>3. CASE verdict[g].model # "SONNET" /\ verdict[g].confidence >= HaikuThreshold
    <3>1. Route!Emit(g, "HAIKU", "generic_tech_english")
          BY <1>6, <2>3 DEF Route!Decide
    <3>2. verdict[g].model = "HAIKU"
          BY <1>0, <2>3 DEF RouTypes
    <3>3. QED
          BY <2>1, <2>3, <3>1, <3>2, RouEmit
  <2>4. CASE verdict[g].model # "SONNET" /\ ~(verdict[g].confidence >= HaikuThreshold)
    <3>1. Route!Emit(g, "SONNET", "low_confidence")
          BY <1>6, <2>4 DEF Route!Decide
    <3>2. QED
          BY <2>1, <3>1, RouEmit
  <2>5. QED
        BY <2>2, <2>3, <2>4
<1>7. QED
      BY <1>1, <1>2, <1>3, <1>4, <1>5, <1>6

LEMMA RouSame == ASSUME RouInv, UNCHANGED RouVars PROVE RouInv'
<1>1. RouInv' <=> RouInv
      BY DEF RouInv, RouTypes, RouVars, Route!Safe, Route!HaikuIsEarned, Route!EveryGoalCounted
<1>2. QED
      BY <1>1

-----------------------------------------------------------------------------
(* The discussion of results.                                                *)
DisTypes ==
    /\ round \in Nat \ {0} /\ phase \in {"pick", "engine", "llm", "done"}
    /\ rounds \in Seq({rounds[i] : i \in DOMAIN rounds})
    /\ \A i \in DOMAIN rounds : rounds[i].text \in Texts

DisAgreed(i) ==
    /\ Adaptive /\ i >= MinRounds /\ i > 1
    /\ Talks!Converged(rounds[i - 1].text, rounds[i].text)

\* Until it ends, the rounds before the current one have answered.
DisInv ==
    /\ DisTypes
    /\ previous = IF rounds = <<>> THEN Talks!NoText ELSE rounds[Len(rounds)].text
    /\ phase # "done" => Len(rounds) = round - 1 /\ round <= MaxRounds
    /\ Talks!Safe

DisVars == <<round, phase, roundModel, models, rounds, previous, spent, synthesis>>

LEMMA DisEnds ==
    Talks!EndsForAReason <=>
        /\ Len(rounds) <= MaxRounds
        /\ \A i \in 1..Len(rounds) - 1 : ~DisAgreed(i)
        /\ phase = "done" => Len(rounds) = round - 1 \/ Len(rounds) = MaxRounds \/ DisAgreed(Len(rounds))
        /\ phase # "done" => Len(rounds) < MaxRounds /\ ~DisAgreed(Len(rounds))
BY DEF Talks!EndsForAReason, DisAgreed

LEMMA DisEndsNext ==
    ASSUME NEW n, Len(rounds') = n
    PROVE  Talks!EndsForAReason' <=>
                /\ n <= MaxRounds
                /\ \A i \in 1..n - 1 : ~DisAgreed(i)'
                /\ phase' = "done" => n = round' - 1 \/ n = MaxRounds \/ DisAgreed(n)'
                /\ phase' # "done" => n < MaxRounds /\ ~DisAgreed(n)'
BY DEF Talks!EndsForAReason, DisAgreed, Talks!Converged

LEMMA DisAgreedNext ==
    \A i : DisAgreed(i)' <=> /\ Adaptive /\ i >= MinRounds /\ i > 1
                             /\ Talks!Converged(rounds'[i - 1].text, rounds'[i].text)
BY DEF DisAgreed, Talks!Converged

LEMMA DisInit == ASSUME Talks!Init PROVE DisInv
<1>1. /\ round = 1 /\ phase = "pick" /\ rounds = <<>> /\ previous = Talks!NoText
      /\ spent = 0 /\ synthesis = Talks!NoSynthesis
      BY DEF Talks!Init
<1>2. Len(rounds) = 0 /\ DOMAIN rounds = {} /\ ~DisAgreed(0)
      BY <1>1 DEF DisAgreed
<1>3. DisTypes
      BY <1>1 DEF DisTypes
<1>4. Talks!EndsForAReason
      BY <1>1, <1>2, DisEnds, DiscussionAssumption
<1>5. QED
      BY <1>1, <1>2, <1>3, <1>4, DiscussionAssumption DEF DisInv, Talks!Safe, Talks!SynthesisIsTheLastRound

LEMMA DisAnswered ==
    ASSUME DisInv, phase # "done", NEW text \in Texts, NEW model, NEW engine \in BOOLEAN,
           Talks!Answered(text, model, engine)
    PROVE  DisInv'
<1> DEFINE e == [text |-> text, model |-> model, engine |-> engine]
           n == Len(rounds)
           E == {rounds[i] : i \in DOMAIN rounds} \cup {e}
<1>1. DisTypes /\ n = round - 1 /\ round <= MaxRounds
      BY DEF DisInv
<1>2. /\ synthesis' = e /\ spent' = spent + 1 /\ rounds' = Append(rounds, e) /\ previous' = text
      BY DEF Talks!Answered
<1>a. /\ (IF Adaptive THEN Talks!Stops(previous, text) ELSE round >= MaxRounds) => phase' = "done" /\ round' = round
      /\ ~(IF Adaptive THEN Talks!Stops(previous, text) ELSE round >= MaxRounds) => phase' = "pick" /\ round' = round + 1
      BY DEF Talks!Answered
<1>3. e.text = text /\ e \in E
      OBVIOUS
<1>4. rounds \in Seq(E) /\ n \in Nat
      BY <1>1 DEF DisTypes
<1> HIDE DEF e, E
<1>5. /\ rounds' \in Seq(E) /\ Len(rounds') = n + 1 /\ n \in Nat
      /\ DOMAIN rounds' = 1..n + 1 /\ DOMAIN rounds = 1..n
      /\ \A i \in 1..n : rounds'[i] = rounds[i]
      /\ rounds'[n + 1] = e
      BY <1>2, <1>3, <1>4, Appended
<1> HIDE DEF n
<1>6. /\ rounds' # <<>> /\ n + 1 = round
      /\ \A i \in DOMAIN rounds' : rounds'[i].text \in Texts
  <2>1. rounds' # <<>>
        BY <1>5
  <2>2. n + 1 = round
        BY <1>1, <1>5 DEF DisTypes
  <2>3. \A i \in 1..n + 1 : i \in 1..n \/ i = n + 1
        BY <1>5
  <2>4. \A i \in 1..n : rounds[i].text \in Texts
        BY <1>1, <1>5 DEF DisTypes
  <2>5. QED
        BY <1>3, <1>5, <2>1, <2>2, <2>3, <2>4
<1>7. rounds' \in Seq({rounds'[i] : i \in DOMAIN rounds'})
      BY <1>5
<1>8. DisTypes'
      BY <1>1, <1>a, <1>6, <1>7 DEF DisTypes
<1>9. \A i \in 1..n : DisAgreed(i)' <=> DisAgreed(i)
  <2>1. ASSUME NEW i \in 1..n, i > 1 PROVE rounds'[i - 1] = rounds[i - 1] /\ rounds'[i] = rounds[i]
        BY <1>5, <2>1
  <2>2. QED
        BY <2>1, DisAgreedNext DEF DisAgreed
<1>10. n >= 1 => previous = rounds[n].text /\ previous # Talks!NoText /\ rounds'[n] = rounds[n]
  <2>1. n >= 1 => n \in DOMAIN rounds /\ rounds # <<>> /\ n \in 1..n
        BY <1>5
  <2>2. n >= 1 => previous = rounds[n].text
        BY <2>1 DEF DisInv, n
  <2>3. n >= 1 => rounds[n].text \in Texts
        BY <1>1, <2>1 DEF DisTypes
  <2>4. QED
        BY <1>5, <2>1, <2>2, <2>3, DiscussionAssumption
<1>11. n = 0 => previous = Talks!NoText
  <2>1. n = 0 => rounds = <<>>
        BY <1>4 DEF n
  <2>2. QED
        BY <2>1 DEF DisInv
<1>b. PICK k \in Nat : k = round
      BY <1>1 DEF DisTypes
<1>12. DisAgreed(k)' <=>
          Adaptive /\ round >= MinRounds /\ previous # Talks!NoText /\ Talks!Converged(previous, text)
  <2>1. DisAgreed(k)' <=> /\ Adaptive /\ k >= MinRounds /\ k > 1
                          /\ Talks!Converged(rounds'[k - 1].text, rounds'[k].text)
        BY DisAgreedNext
  <2>2. k - 1 = n /\ k = n + 1 /\ (k > 1 <=> n >= 1)
        BY <1>5, <1>6, <1>b
  <2>3. rounds'[k].text = text
        BY <1>3, <1>5, <2>2
  <2>4. CASE n >= 1
        BY <1>b, <2>1, <2>2, <2>3, <2>4, <1>10
  <2>5. CASE n = 0
        BY <2>1, <2>2, <2>5, <1>11
  <2>6. QED
        BY <1>5, <2>4, <2>5
<1>13. IF round >= MaxRounds \/ DisAgreed(k)'
       THEN phase' = "done" /\ round' = round
       ELSE phase' = "pick" /\ round' = round + 1
  <2>1. CASE Adaptive
    <3>1. Talks!Stops(previous, text) <=> round >= MaxRounds \/ DisAgreed(k)'
          BY <1>12, <2>1 DEF Talks!Stops
    <3>2. QED
          BY <1>a, <2>1, <3>1
  <2>2. CASE ~Adaptive
        BY <1>a, <1>12, <2>2
  <2>3. QED
        BY <2>1, <2>2
<1>14. \A i \in 1..n : ~DisAgreed(i)
  <2>1. /\ \A i \in 1..n - 1 : ~DisAgreed(i)
        /\ ~DisAgreed(n)
        BY DisEnds DEF DisInv, Talks!Safe, n
  <2>2. \A i \in 1..n : i \in 1..n - 1 \/ i = n
        BY <1>5
  <2>3. QED
        BY <2>1, <2>2
<1>15. Talks!EndsForAReason'
  <2>1. k \in Nat /\ Len(rounds') = k /\ n = k - 1 /\ MaxRounds \in Nat /\ k <= MaxRounds
        BY <1>1, <1>5, <1>6, <1>b, DiscussionAssumption
  <2>3. \A i \in 1..k - 1 : ~DisAgreed(i)'
        BY <1>9, <1>14, <2>1
  <2>5. phase' = "done" => k = MaxRounds \/ DisAgreed(k)'
        BY <1>b, <1>13, <2>1
  <2>6. phase' # "done" => k < MaxRounds /\ ~DisAgreed(k)'
        BY <1>b, <1>13, <2>1
  <2>7. QED
        BY <2>1, <2>3, <2>5, <2>6, DisEndsNext
<1>16. Talks!SynthesisIsTheLastRound'
  <2>1. spent = n
        BY DEF DisInv, Talks!Safe, Talks!SynthesisIsTheLastRound, n
  <2>2. spent' = Len(rounds') /\ synthesis' = rounds'[Len(rounds')]
        BY <1>2, <1>5, <2>1
  <2>3. QED
        BY <1>6, <2>2 DEF Talks!SynthesisIsTheLastRound
<1>17. previous' = rounds'[Len(rounds')].text
      BY <1>2, <1>3, <1>5
<1>18. phase' # "done" => Len(rounds') = round' - 1 /\ round' <= MaxRounds
      BY <1>1, <1>5, <1>6, <1>13, DiscussionAssumption DEF DisTypes
<1>19. QED
      BY <1>6, <1>8, <1>15, <1>16, <1>17, <1>18 DEF DisInv, Talks!Safe

(* A step without an answer.                                                 *)
LEMMA DisQuiet ==
    ASSUME DisInv, phase # "done", phase' \in {"pick", "engine", "llm", "done"},
           UNCHANGED <<round, rounds, previous, spent, synthesis>>
    PROVE  DisInv'
<1>1. DisTypes /\ DisTypes'
      BY DEF DisInv, DisTypes
<1>2. \A i : DisAgreed(i)' <=> DisAgreed(i)
      BY DisAgreedNext DEF DisAgreed
<1>3. Len(rounds') = Len(rounds)
      OBVIOUS
<1>4. Talks!EndsForAReason
      BY DEF DisInv, Talks!Safe
<1>5. Talks!EndsForAReason'
      BY <1>2, <1>3, <1>4, DisEnds, DisEndsNext DEF DisInv
<1>6. Talks!SynthesisIsTheLastRound'
      BY DEF DisInv, Talks!Safe, Talks!SynthesisIsTheLastRound, Talks!NoSynthesis, Talks!NoText, Talks!None
<1>7. QED
      BY <1>1, <1>5, <1>6 DEF DisInv, Talks!Safe, Talks!NoText

LEMMA DisStep == ASSUME DisInv, Talks!Next PROVE DisInv'
<1>1. CASE Talks!PickDiscussionModel
  <2>1. /\ phase = "pick" /\ phase' \in {"engine", "llm"}
        /\ UNCHANGED <<round, rounds, previous, spent, synthesis>>
        BY <1>1 DEF Talks!PickDiscussionModel
  <2>2. QED
        BY <2>1, DisQuiet
<1>2. CASE Talks!EngineAnswers
      BY <1>2, DisAnswered DEF Talks!EngineAnswers
<1>3. CASE Talks!LlmAnswers
      BY <1>3, DisAnswered DEF Talks!LlmAnswers
<1>4. CASE Talks!EngineFails \/ Talks!LlmFails
  <2>1. /\ phase # "done" /\ phase' \in {"done", "llm"}
        /\ UNCHANGED <<round, rounds, previous, spent, synthesis>>
        BY <1>4 DEF Talks!EngineFails, Talks!LlmFails
  <2>2. QED
        BY <2>1, DisQuiet
<1>5. QED
      BY <1>1, <1>2, <1>3, <1>4 DEF Talks!Next

LEMMA DisSame == ASSUME DisInv, UNCHANGED DisVars PROVE DisInv'
<1>1. DisInv' <=> DisInv
      BY DEF DisInv, DisTypes, DisVars, Talks!Safe, Talks!SynthesisIsTheLastRound,
             Talks!EndsForAReason, Talks!Converged, Talks!NoText, Talks!NoSynthesis
<1>2. QED
      BY <1>1

-----------------------------------------------------------------------------
(* The analyzer of goals.                                                    *)
IntText == STRING \cup {"-", "simple", "medium", "complex"}
IntItem == [description : {"short", "long"}, model : IntText, role : IntText, deps : SUBSET Nat,
            produces : SUBSET Nat, consumes : SUBSET Nat, complexity : IntText]
IntAnswer == [description : {"short", "long"}, model : STRING, role : STRING,
              deps : SUBSET Nat, produces : SUBSET Nat, consumes : SUBSET Nat]

IntOrdered(p) == \A i \in DOMAIN p : \A d \in p[i].deps : d < i

\* That an answer can be executed in its order.
IntSound(items) ==
    \A i \in DOMAIN items :
        /\ \A d \in items[i].deps : d < i \/ d \notin DOMAIN items
        /\ \A j \in DOMAIN items : items[i].produces \cap items[j].consumes # {} => i < j

\* A model is asked about several models or about what is not simple.
IntInv ==
    /\ goal \in Goals /\ goalStage \in {"new", "asking", "done", "raised"}
    /\ consulted \in BOOLEAN
    /\ goalStage # "done" => plan = <<>>
    /\ goalStage \in {"new", "asking"} => answer = <<>>
    /\ goalStage = "asking" => consulted /\ (Intent!Multi \/ Intent!ComplexityOf(goal) # "simple")
    /\ Intent!Safe

IntVars == <<goal, goalStage, consulted, answer, plan>>

LEMMA IntMembers ==
    ASSUME NEW s
    PROVE  \A m \in Intent!ToSet(s) : \E j \in DOMAIN s : m = s[j]
BY DEF Intent!ToSet

LEMMA IntWords == \A m \in STRING : m \in IntText
BY DEF IntText

LEMMA IntSubtask ==
    ASSUME NEW d \in {"short", "long"}, NEW m \in IntText
    PROVE  /\ Intent!Subtask(d, m) \in IntItem
           /\ Intent!Subtask(d, m).description = d /\ Intent!Subtask(d, m).model = m
           /\ Intent!Subtask(d, m).deps = {}
           /\ Intent!Subtask(d, m).produces = {} /\ Intent!Subtask(d, m).consumes = {}
<1> DEFINE s == Intent!Subtask(d, m)
<1>1. s = [description |-> d, model |-> m, role |-> "-", deps |-> {},
           produces |-> {}, consumes |-> {}, complexity |-> "-"]
      BY DEF Intent!Subtask
<1>2. "-" \in IntText /\ {} \in SUBSET Nat
      BY DEF IntText
<1> HIDE DEF s
<1>3. /\ s \in IntItem /\ s.description = d /\ s.model = m
      /\ s.deps = {} /\ s.produces = {} /\ s.consumes = {}
      BY <1>1, <1>2 DEF IntItem
<1>4. QED
      BY <1>3 DEF s

LEMMA IntResolve ==
    ASSUME NEW p \in Seq(IntItem)
    PROVE  /\ Intent!Resolve(p) \in Seq(IntItem) /\ Len(Intent!Resolve(p)) = Len(p)
           /\ DOMAIN Intent!Resolve(p) = DOMAIN p
           /\ \A i \in DOMAIN p :
                /\ Intent!Resolve(p)[i].model = p[i].model
                /\ Intent!Resolve(p)[i].description = p[i].description
                /\ \A d \in Intent!Resolve(p)[i].deps :
                        d \in p[i].deps \/ (d \in DOMAIN p /\ p[d].produces \cap p[i].consumes # {})
<1> DEFINE more(i) == {j \in DOMAIN p \ {i} : \E a \in p[i].consumes :
                          a \in p[j].produces /\ \A k \in DOMAIN p : a \in p[k].produces => k <= j}
           r == Intent!Resolve(p)
<1>1. r = [i \in DOMAIN p |-> [p[i] EXCEPT !.deps = @ \cup more(i)]]
      BY DEF Intent!Resolve
<1>2. DOMAIN p = 1..Len(p) /\ Len(p) \in Nat /\ \A i \in DOMAIN p : p[i] \in IntItem
      OBVIOUS
<1>3. \A i \in DOMAIN p : more(i) \subseteq DOMAIN p /\ \A j \in more(i) : p[j].produces \cap p[i].consumes # {}
      OBVIOUS
<1> HIDE DEF more, r
<1>4. ASSUME NEW i \in DOMAIN p
      PROVE  /\ r[i] \in IntItem /\ r[i].model = p[i].model /\ r[i].description = p[i].description
             /\ r[i].deps = p[i].deps \cup more(i)
  <2>1. r[i] = [p[i] EXCEPT !.deps = p[i].deps \cup more(i)]
        BY <1>1
  <2>2. p[i] \in IntItem /\ more(i) \in SUBSET Nat
        BY <1>2, <1>3
  <2> DEFINE e == p[i]
             x == more(i)
  <2>3. e \in IntItem /\ x \in SUBSET Nat
        BY <2>2
  <2> HIDE DEF e, x
  <2>4. /\ [e EXCEPT !.deps = e.deps \cup x] \in IntItem
        /\ [e EXCEPT !.deps = e.deps \cup x].model = e.model
        /\ [e EXCEPT !.deps = e.deps \cup x].description = e.description
        /\ [e EXCEPT !.deps = e.deps \cup x].deps = e.deps \cup x
        BY <2>3 DEF IntItem
  <2>5. QED
        BY <2>1, <2>4 DEF e, x
<1>5. DOMAIN r = 1..Len(p)
      BY <1>1, <1>2
<1>6. r \in Seq(IntItem) /\ Len(r) = Len(p)
  <2>1. r \in [1..Len(p) -> IntItem]
        BY <1>1, <1>2, <1>4
  <2>2. QED
        BY <1>2, <2>1
<1>7. ASSUME NEW i \in DOMAIN p, NEW d \in r[i].deps
      PROVE  d \in p[i].deps \/ (d \in DOMAIN p /\ p[d].produces \cap p[i].consumes # {})
  <2>1. d \in p[i].deps \/ d \in more(i)
        BY <1>4
  <2>2. QED
        BY <1>3, <2>1
<1>8. DOMAIN r = DOMAIN p
      BY <1>2, <1>5
<1>9. QED
      BY <1>4, <1>6, <1>7, <1>8 DEF r

LEMMA IntFlow ==
    ASSUME NEW p \in Seq(IntItem)
    PROVE  /\ Intent!ApplyArtifactFlow(p, TRUE) \in Seq(IntItem)
           /\ Len(Intent!ApplyArtifactFlow(p, TRUE)) = Len(p)
           /\ DOMAIN Intent!ApplyArtifactFlow(p, TRUE) = DOMAIN p
           /\ \A i \in DOMAIN p :
                /\ Intent!ApplyArtifactFlow(p, TRUE)[i].model = p[i].model
                /\ \A d \in Intent!ApplyArtifactFlow(p, TRUE)[i].deps :
                        d \in p[i].deps \/ (d \in DOMAIN p /\ p[d].produces \cap p[i].consumes # {})
<1>1. Intent!ApplyArtifactFlow(p, TRUE) = Intent!Resolve(p) \/ Intent!ApplyArtifactFlow(p, TRUE) = p
      BY DEF Intent!ApplyArtifactFlow
<1> DEFINE r == Intent!Resolve(p)
           q == Intent!ApplyArtifactFlow(p, TRUE)
<1>2. /\ r \in Seq(IntItem) /\ Len(r) = Len(p) /\ DOMAIN r = DOMAIN p
      /\ \A i \in DOMAIN p :
            /\ r[i].model = p[i].model
            /\ \A d \in r[i].deps : d \in p[i].deps \/ (d \in DOMAIN p /\ p[d].produces \cap p[i].consumes # {})
      BY IntResolve
<1>3. q = r \/ q = p
      BY <1>1
<1> HIDE DEF r, q
<1>4. /\ q \in Seq(IntItem) /\ Len(q) = Len(p) /\ DOMAIN q = DOMAIN p
      /\ \A i \in DOMAIN p :
            /\ q[i].model = p[i].model
            /\ \A d \in q[i].deps : d \in p[i].deps \/ (d \in DOMAIN p /\ p[d].produces \cap p[i].consumes # {})
  <2>1. CASE q = r
        BY <1>2, <2>1
  <2>2. CASE q = p
        BY <2>2
  <2>3. QED
        BY <1>3, <2>1, <2>2
<1>5. QED
      BY <1>4 DEF q

LEMMA IntPerModel ==
    ASSUME NEW names \in Seq(STRING), Len(names) >= 2
    PROVE  /\ Intent!CreatePerModelSubtasks(names) \in Seq(IntItem)
           /\ Len(Intent!CreatePerModelSubtasks(names)) = Len(names)
           /\ IntOrdered(Intent!CreatePerModelSubtasks(names))
           /\ \A i \in DOMAIN Intent!CreatePerModelSubtasks(names) :
                Intent!CreatePerModelSubtasks(names)[i].model = names[i] /\ i \in DOMAIN names
<1> DEFINE p == [i \in DOMAIN names |-> Intent!Subtask("long", names[i])]
           q == [i \in DOMAIN p |-> [p[i] EXCEPT !.produces = {i}, !.consumes = IF i > 1 THEN {i - 1} ELSE {}]]
           r == Intent!CreatePerModelSubtasks(names)
<1>a. DOMAIN names = 1..Len(names) /\ Len(names) \in Nat /\ \A i \in DOMAIN names : names[i] \in STRING
      OBVIOUS
<1>1. DOMAIN names = 1..Len(names) /\ Len(names) \in Nat /\ \A i \in DOMAIN names : names[i] \in IntText
      BY <1>a, IntWords
<1>2. \A i \in DOMAIN names : /\ p[i] \in IntItem /\ p[i].model = names[i] /\ p[i].deps = {}
                              /\ p[i].produces = {} /\ p[i].consumes = {}
      BY <1>1, IntSubtask
<1>3. DOMAIN p = DOMAIN names /\ p \in [1..Len(names) -> IntItem]
      BY <1>1, <1>2
<1>4. p \in Seq(IntItem) /\ Len(p) = Len(names)
      BY <1>1, <1>3
<1>5. r = Intent!Resolve(q)
  <2>1. ~(\E i \in DOMAIN p : p[i].produces \cup p[i].consumes # {})
        BY <1>2, <1>3
  <2>2. Len(p) > 1
        BY <1>1, <1>4
  <2>3. r = Intent!ApplyArtifactFlow(p, FALSE)
        BY DEF Intent!CreatePerModelSubtasks
  <2> HIDE DEF p, r
  <2>4. QED
        BY <2>1, <2>2, <2>3 DEF Intent!ApplyArtifactFlow
<1> HIDE DEF p
<1>6. ASSUME NEW i \in DOMAIN names
      PROVE  /\ q[i] \in IntItem /\ q[i].model = names[i] /\ q[i].deps = {}
             /\ q[i].produces = {i} /\ q[i].consumes = IF i > 1 THEN {i - 1} ELSE {}
  <2> DEFINE e == p[i]
             x == IF i > 1 THEN {i - 1} ELSE {}
  <2>1. q[i] = [e EXCEPT !.produces = {i}, !.consumes = x]
        BY <1>3
  <2>2. e \in IntItem /\ e.model = names[i] /\ e.deps = {}
        BY <1>2
  <2>3. x \in SUBSET Nat /\ {i} \in SUBSET Nat
        BY <1>1
  <2> HIDE DEF e, x, q
  <2>4. /\ q[i] \in IntItem /\ q[i].model = e.model /\ q[i].deps = e.deps
        /\ q[i].produces = {i} /\ q[i].consumes = x
        BY <2>1, <2>2, <2>3 DEF IntItem
  <2>5. QED
        BY <2>2, <2>4 DEF x
<1>7. DOMAIN q = DOMAIN names
      BY <1>3
<1> HIDE DEF q
<1>8. q \in Seq(IntItem) /\ Len(q) = Len(names)
  <2>1. \A i \in 1..Len(names) : q[i] \in IntItem
        BY <1>1, <1>6
  <2>2. q = [i \in 1..Len(names) |-> q[i]]
    <3>1. q = [i \in DOMAIN q |-> q[i]]
          BY <1>3 DEF q
    <3>2. QED
          BY <1>1, <1>7, <3>1
  <2>3. QED
        BY <1>1, <2>1, <2>2
<1>9. /\ r \in Seq(IntItem) /\ Len(r) = Len(names) /\ DOMAIN r = DOMAIN names
      /\ \A i \in DOMAIN names :
            /\ r[i].model = q[i].model
            /\ \A d \in r[i].deps : d \in q[i].deps \/ (d \in DOMAIN q /\ q[d].produces \cap q[i].consumes # {})
      BY <1>5, <1>7, <1>8, IntResolve
<1> HIDE DEF r
<1>10. IntOrdered(r)
  <2>1. ASSUME NEW i \in DOMAIN r, NEW d \in r[i].deps PROVE d < i
    <3>1. i \in DOMAIN names /\ d \in DOMAIN names /\ q[d].produces \cap q[i].consumes # {}
          BY <1>6, <1>7, <1>9
    <3>2. {d} \cap (IF i > 1 THEN {i - 1} ELSE {}) # {}
          BY <1>6, <3>1
    <3>3. d = i - 1
          BY <3>2
    <3>4. QED
          BY <1>1, <3>1, <3>3
  <2>2. QED
        BY <2>1 DEF IntOrdered
<1>11. QED
      BY <1>6, <1>9, <1>10 DEF r

LEMMA IntParse ==
    ASSUME NEW items \in Seq(IntAnswer), NEW names \in Seq(STRING)
    PROVE  /\ Intent!Parse(items, names) \in Seq(IntItem)
           /\ Len(Intent!Parse(items, names)) = Len(items)
           /\ Len(names) >= 2 => \A i \in DOMAIN Intent!Parse(items, names) :
                                    \E j \in DOMAIN names : Intent!Parse(items, names)[i].model = names[j]
           /\ IntSound(items) => IntOrdered(Intent!Parse(items, names))
<1> DEFINE model(i) == IF Len(names) < 2 THEN "-"
                       ELSE IF items[i].model \in Intent!ToSet(names) THEN items[i].model
                       ELSE names[((i - 1) % Len(names)) + 1]
           role(i) == IF Len(names) < 2 THEN "-" ELSE items[i].role
           p == [i \in DOMAIN items |->
                    [Intent!Subtask(items[i].description, model(i))
                     EXCEPT !.role = role(i), !.deps = items[i].deps \cap DOMAIN items,
                            !.produces = items[i].produces, !.consumes = items[i].consumes]]
           r == Intent!Parse(items, names)
<1>1. r = Intent!ApplyArtifactFlow(p, TRUE)
      BY DEF Intent!Parse
<1>2. /\ DOMAIN items = 1..Len(items) /\ Len(items) \in Nat /\ DOMAIN names = 1..Len(names) /\ Len(names) \in Nat
      /\ \A i \in DOMAIN items : items[i] \in IntAnswer
      /\ \A i \in DOMAIN names : names[i] \in STRING
      OBVIOUS
<1>a. \A i \in DOMAIN names : names[i] \in IntText
      BY <1>2, IntWords
<1>3. \A i \in DOMAIN items : Len(names) >= 2 => ((i - 1) % Len(names)) + 1 \in DOMAIN names
      BY <1>2
<1>4. ASSUME NEW i \in DOMAIN items
      PROVE  model(i) \in IntText /\ role(i) \in IntText /\ (Len(names) >= 2 => \E j \in DOMAIN names : model(i) = names[j])
  <2>1. items[i].model \in IntText /\ items[i].role \in IntText /\ "-" \in IntText
        BY <1>2 DEF IntAnswer, IntText
  <2>2. \A m \in Intent!ToSet(names) : \E j \in DOMAIN names : m = names[j]
        BY IntMembers
  <2>3. CASE Len(names) < 2
        BY <1>2, <2>1, <2>3
  <2>4. CASE Len(names) >= 2 /\ items[i].model \in Intent!ToSet(names)
        BY <1>2, <2>1, <2>2, <2>4
  <2>5. CASE Len(names) >= 2 /\ items[i].model \notin Intent!ToSet(names)
    <3>1. model(i) = names[((i - 1) % Len(names)) + 1]
          BY <1>2, <2>5
    <3>2. QED
          BY <1>2, <1>3, <1>a, <2>1, <2>5, <3>1
  <2>6. QED
        BY <1>2, <2>3, <2>4, <2>5
<1> HIDE DEF model, role
<1>5. ASSUME NEW i \in DOMAIN items
      PROVE  /\ p[i] \in IntItem /\ p[i].model = model(i) /\ p[i].deps = items[i].deps \cap DOMAIN items
             /\ p[i].produces = items[i].produces /\ p[i].consumes = items[i].consumes
  <2> DEFINE s == Intent!Subtask(items[i].description, model(i))
             d == items[i].deps \cap DOMAIN items
             x == items[i].produces
             y == items[i].consumes
             z == role(i)
  <2>1. /\ items[i].description \in {"short", "long"} /\ d \in SUBSET Nat
        /\ x \in SUBSET Nat /\ y \in SUBSET Nat
        BY <1>2 DEF IntAnswer
  <2>2. s \in IntItem /\ s.model = model(i)
        BY <1>4, <2>1, IntSubtask
  <2>3. p[i] = [s EXCEPT !.role = z, !.deps = d, !.produces = x, !.consumes = y] /\ z \in IntText
        BY <1>4
  <2> HIDE DEF p, s, d, x, y, z
  <2>4. p[i] \in IntItem /\ p[i].model = s.model /\ p[i].deps = d /\ p[i].produces = x /\ p[i].consumes = y
        BY <2>1, <2>2, <2>3 DEF IntItem
  <2>5. QED
        BY <2>2, <2>4 DEF d, x, y
<1>6. DOMAIN p = DOMAIN items
      OBVIOUS
<1>7. p \in Seq(IntItem) /\ Len(p) = Len(items)
  <2> HIDE DEF p
  <2>1. \A i \in 1..Len(items) : p[i] \in IntItem
        BY <1>2, <1>5
  <2>2. p = [i \in 1..Len(items) |-> p[i]]
    <3>1. p = [i \in DOMAIN p |-> p[i]]
          BY DEF p
    <3>2. QED
          BY <1>2, <1>6, <3>1
  <2>3. QED
        BY <1>2, <2>1, <2>2
<1> HIDE DEF p
<1>8. /\ r \in Seq(IntItem) /\ Len(r) = Len(p) /\ DOMAIN r = DOMAIN p
      /\ \A i \in DOMAIN p :
            /\ r[i].model = p[i].model
            /\ \A d \in r[i].deps : d \in p[i].deps \/ (d \in DOMAIN p /\ p[d].produces \cap p[i].consumes # {})
      BY <1>1, <1>7, IntFlow
<1> HIDE DEF r
<1>9. IntSound(items) => IntOrdered(r)
  <2>1. ASSUME IntSound(items), NEW i \in DOMAIN r, NEW d \in r[i].deps PROVE d < i
    <3>1. i \in DOMAIN items
          BY <1>6, <1>8
    <3>2. CASE d \in p[i].deps
      <4>1. d \in items[i].deps /\ d \in DOMAIN items
            BY <1>5, <3>1, <3>2
      <4>2. QED
            BY <2>1, <3>1, <4>1 DEF IntSound
    <3>3. CASE d \in DOMAIN p /\ p[d].produces \cap p[i].consumes # {}
      <4>1. d \in DOMAIN items /\ items[d].produces \cap items[i].consumes # {}
            BY <1>5, <1>6, <3>1, <3>3
      <4>2. QED
            BY <2>1, <3>1, <4>1 DEF IntSound
    <3>4. QED
          BY <1>6, <1>8, <3>1, <3>2, <3>3
  <2>2. QED
        BY <2>1 DEF IntOrdered
<1>10. ASSUME Len(names) >= 2, NEW i \in DOMAIN r PROVE \E j \in DOMAIN names : r[i].model = names[j]
  <2>1. i \in DOMAIN items
        BY <1>6, <1>8
  <2>2. r[i].model = model(i)
        BY <1>5, <1>6, <1>8, <2>1
  <2>3. QED
        BY <1>4, <1>10, <2>1, <2>2
<1>11. QED
      BY <1>7, <1>8, <1>9, <1>10 DEF r

LEMMA IntTemplate ==
    ASSUME NEW complexity
    PROVE  /\ Intent!TemplateDecompose(complexity) \in Seq(IntItem)
           /\ IntOrdered(Intent!TemplateDecompose(complexity))
<1> DEFINE n == IF complexity = "medium" THEN 2 ELSE 3
           s == Intent!Subtask("long", "-")
           deps(i) == IF i = n THEN 1..n - 1 ELSE {}
           p == Intent!TemplateDecompose(complexity)
<1>1. p = [i \in 1..n |-> [s EXCEPT !.deps = deps(i)]]
      BY DEF Intent!TemplateDecompose
<1>2. n \in Nat /\ s \in IntItem
      BY IntSubtask DEF IntText
<1>3. \A i \in 1..n : deps(i) \in SUBSET Nat /\ \A d \in deps(i) : d < i
      BY <1>2
<1> HIDE DEF n, s, deps, p
<1>4. ASSUME NEW i \in 1..n PROVE p[i] \in IntItem /\ p[i].deps = deps(i)
  <2> DEFINE x == deps(i)
  <2>1. p[i] = [s EXCEPT !.deps = x] /\ x \in SUBSET Nat
        BY <1>1, <1>3
  <2> HIDE DEF x
  <2>2. p[i] \in IntItem /\ p[i].deps = x
        BY <1>2, <2>1 DEF IntItem
  <2>3. QED
        BY <2>2 DEF x
<1>5. DOMAIN p = 1..n /\ p = [i \in 1..n |-> p[i]]
  <2>1. DOMAIN p = 1..n
        BY <1>1
  <2>2. p = [i \in DOMAIN p |-> p[i]]
        BY <1>1
  <2>3. QED
        BY <2>1, <2>2
<1>6. p \in Seq(IntItem)
      BY <1>2, <1>4, <1>5
<1>7. QED
      BY <1>3, <1>4, <1>5, <1>6 DEF IntOrdered, p

LEMMA IntRoles ==
    ASSUME NEW p \in Seq(IntItem), NEW roles \in Seq(STRING)
    PROVE  /\ Intent!AssignRoles(p, roles) \in Seq(IntItem)
           /\ Len(Intent!AssignRoles(p, roles)) = Len(p)
           /\ DOMAIN Intent!AssignRoles(p, roles) = DOMAIN p
           /\ \A i \in DOMAIN p : /\ Intent!AssignRoles(p, roles)[i].model = p[i].model
                                  /\ Intent!AssignRoles(p, roles)[i].deps = p[i].deps
<1> DEFINE q == Intent!AssignRoles(p, roles)
           role(i) == roles[((i - 1) % Len(roles)) + 1]
<1>1. DOMAIN p = 1..Len(p) /\ Len(p) \in Nat /\ \A i \in DOMAIN p : p[i] \in IntItem
      OBVIOUS
<1>2. CASE roles = <<>>
  <2>1. q = p
        BY <1>2 DEF Intent!AssignRoles
  <2>2. QED
        BY <2>1
<1>3. CASE roles # <<>>
  <2>1. q = [i \in DOMAIN p |-> [p[i] EXCEPT !.role = role(i)]]
        BY <1>3 DEF Intent!AssignRoles
  <2>2. Len(roles) \in Nat \ {0} /\ DOMAIN roles = 1..Len(roles) /\ \A k \in DOMAIN roles : roles[k] \in STRING
        BY <1>3
  <2>a. \A i \in DOMAIN p : ((i - 1) % Len(roles)) + 1 \in DOMAIN roles
        BY <1>1, <2>2
  <2>3. \A i \in DOMAIN p : role(i) \in IntText
        BY <2>2, <2>a, IntWords
  <2> HIDE DEF q, role
  <2>4. ASSUME NEW i \in DOMAIN p
        PROVE  q[i] \in IntItem /\ q[i].model = p[i].model /\ q[i].deps = p[i].deps
    <3> DEFINE x == role(i)
               e == p[i]
    <3>1. q[i] = [e EXCEPT !.role = x] /\ x \in IntText /\ e \in IntItem
          BY <1>1, <2>1, <2>3
    <3> HIDE DEF x, e
    <3>2. q[i] \in IntItem /\ q[i].model = e.model /\ q[i].deps = e.deps
          BY <3>1 DEF IntItem
    <3>3. QED
          BY <3>2 DEF e
  <2>5. DOMAIN q = DOMAIN p /\ q = [i \in 1..Len(p) |-> q[i]]
    <3>1. DOMAIN q = DOMAIN p
          BY <2>1
    <3>2. q = [i \in DOMAIN q |-> q[i]]
          BY <2>1
    <3>3. QED
          BY <1>1, <3>1, <3>2
  <2>6. q \in Seq(IntItem) /\ Len(q) = Len(p)
        BY <1>1, <2>4, <2>5
  <2>7. QED
        BY <2>4, <2>5, <2>6 DEF q
<1>4. QED
      BY <1>2, <1>3

LEMMA IntInit == ASSUME Intent!Init PROVE IntInv
<1>1. goal \in Goals /\ goalStage = "new" /\ consulted = FALSE /\ answer = <<>> /\ plan = <<>>
      BY DEF Intent!Init
<1>2. DOMAIN plan = {}
      BY <1>1
<1>3. QED
      BY <1>1, <1>2 DEF IntInv, Intent!Safe, Intent!PlanKeepsTheGoal, Intent!PlansAreOrdered

(* What a finished plan has to be like.                                      *)
LEMMA IntFinish ==
    ASSUME IntInv, NEW p \in Seq(IntItem), Intent!Finish(p),
           Intent!Multi => /\ Len(p) >= Len(goal.models)
                           /\ \A i \in DOMAIN p : \E j \in DOMAIN goal.models : p[i].model = goal.models[j],
           ~Intent!Multi => (goal.tools => Intent!ComplexityOf(goal) # "simple"),
           consulted' \in BOOLEAN, ~consulted' => Len(p) = 1,
           IntSound(answer') => IntOrdered(p)
    PROVE  IntInv'
<1> DEFINE c == Intent!ComplexityOf(goal)
           model(i) == IF Len(goal.models) = 1 THEN goal.models[1] ELSE p[i].model
<1>1. /\ plan' = [i \in DOMAIN p |-> [p[i] EXCEPT !.complexity = c, !.model = model(i)]]
      /\ goalStage' = "done" /\ goal' = goal
      BY DEF Intent!Finish
<1>2. /\ goal \in Goals /\ goal.models \in Seq(STRING)
      /\ DOMAIN goal.models = 1..Len(goal.models) /\ Len(goal.models) \in Nat
  <2>1. goal \in Goals
        BY DEF IntInv
  <2>2. goal.models \in Seq(STRING)
        BY <2>1, GoalsAssumption
  <2>3. QED
        BY <2>1, <2>2
<1>3. DOMAIN p = 1..Len(p) /\ Len(p) \in Nat /\ \A i \in DOMAIN p : p[i] \in IntItem
      OBVIOUS
<1>a. Intent!Multi <=> Len(goal.models) >= 2
      BY DEF Intent!Multi
<1>4. DOMAIN plan' = DOMAIN p /\ Len(plan') = Len(p)
  <2>1. DOMAIN plan' = DOMAIN p /\ plan' = [i \in DOMAIN plan' |-> plan'[i]]
        BY <1>1
  <2> DEFINE q == plan'
             E == {q[i] : i \in DOMAIN q}
             n == Len(p)
  <2>2. DOMAIN q = 1..n /\ q = [i \in DOMAIN q |-> q[i]] /\ n \in Nat
        BY <1>3, <2>1
  <2> HIDE DEF q, n
  <2>3. q \in Seq(E) /\ Len(q) = n
        BY <2>2
  <2>4. QED
        BY <2>1, <2>3 DEF q, n
<1> HIDE DEF c, model
<1>5. ASSUME NEW i \in DOMAIN p
      PROVE  plan'[i].complexity = c /\ plan'[i].model = model(i) /\ plan'[i].deps = p[i].deps
  <2> DEFINE e == p[i]
             m == model(i)
             q == plan'[i]
  <2>1. q = [e EXCEPT !.complexity = c, !.model = m] /\ e \in IntItem
        BY <1>1, <1>3
  <2> HIDE DEF e, m, q
  <2>2. q.complexity = c /\ q.model = m /\ q.deps = e.deps
        BY <2>1 DEF IntItem
  <2>3. QED
        BY <2>2 DEF e, m, q
<1>6. Intent!Multi' <=> Intent!Multi
      BY <1>1 DEF Intent!Multi
<1>7. \A i \in DOMAIN plan' : goal.models # <<>> => \E j \in DOMAIN goal.models : plan'[i].model = goal.models[j]
  <2>1. ASSUME NEW i \in DOMAIN p, goal.models # <<>>
        PROVE  \E j \in DOMAIN goal.models : model(i) = goal.models[j]
    <3>1. CASE Len(goal.models) >= 2
      <4>1. \E j \in DOMAIN goal.models : p[i].model = goal.models[j]
            BY <1>a, <3>1
      <4> DEFINE k == Len(goal.models)
      <4>a. k \in Nat /\ k >= 2
            BY <1>2, <3>1
      <4> HIDE DEF k
      <4>b. k # 1
            BY <4>a
      <4>2. model(i) = p[i].model
            BY <4>b DEF model, k
      <4>3. QED
            BY <4>1, <4>2
    <3>2. CASE Len(goal.models) < 2
      <4>a. Len(goal.models) # 0
            BY <1>2, <2>1, EmptySeq
      <4> DEFINE k == Len(goal.models)
      <4>b. k \in Nat /\ k < 2 /\ k # 0 /\ DOMAIN goal.models = 1..k
            BY <1>2, <3>2, <4>a
      <4> HIDE DEF k
      <4>1. k = 1 /\ 1 \in DOMAIN goal.models
            BY <4>b
      <4>2. QED
            BY <4>1 DEF model, k
    <3>3. QED
          BY <1>2, <3>1, <3>2
  <2>2. QED
        BY <1>4, <1>5, <2>1
<1>8. \A m : (\E j \in DOMAIN goal.models : m = goal.models[j]) => m \in Intent!ToSet(goal.models)
      BY DEF Intent!ToSet
<1>9. Intent!PlanKeepsTheGoal'
  <2>1. Intent!Multi' => Len(plan') >= Len(goal'.models)
        BY <1>1, <1>4, <1>6
  <2>2. goal'.models # <<>> => \A i \in DOMAIN plan' : plan'[i].model \in Intent!ToSet(goal'.models)
        BY <1>1, <1>7, <1>8
  <2>3. goal'.tools /\ ~Intent!Multi' => \A i \in DOMAIN plan' : plan'[i].complexity # "simple"
        BY <1>1, <1>4, <1>5, <1>6 DEF c
  <2>4. ~consulted' => Len(plan') = 1
        BY <1>4
  <2>5. QED
        BY <2>1, <2>2, <2>3, <2>4 DEF Intent!PlanKeepsTheGoal, Intent!ToSet
<1>10. IntSound(answer') => \A i \in DOMAIN plan' : \A d \in plan'[i].deps : d < i
      BY <1>4, <1>5 DEF IntOrdered
<1>11. Intent!PlansAreOrdered'
      BY <1>10 DEF Intent!PlansAreOrdered, IntSound
<1>12. QED
      BY <1>1, <1>2, <1>9, <1>11 DEF IntInv, Intent!Safe

LEMMA IntStep == ASSUME IntInv, Intent!Next PROVE IntInv'
<1>0. /\ goal \in Goals /\ goal.models \in Seq(STRING) /\ goal.roles \in Seq(STRING)
      BY GoalsAssumption DEF IntInv
<1>a. Intent!Multi <=> Len(goal.models) >= 2
      BY DEF Intent!Multi
<1>1. CASE Intent!Decompose
  <2>1. goalStage = "new" /\ answer' = answer /\ plan = <<>> /\ answer = <<>>
        BY <1>1 DEF Intent!Decompose, IntInv
  <2>2. CASE ~Intent!Multi /\ Intent!ComplexityOf(goal) = "simple"
    <3> DEFINE s == Intent!Subtask("long", "-")
               p == <<s>>
    <3>1. Intent!Finish(p) /\ consulted' = consulted
          BY <1>1, <2>2 DEF Intent!Decompose
    <3>2. s \in IntItem /\ s.deps = {}
          BY IntSubtask DEF IntText
    <3> HIDE DEF s
    <3>3. p \in Seq(IntItem) /\ Len(p) = 1 /\ DOMAIN p = {1} /\ p[1] = s
          BY <3>2
    <3> HIDE DEF p
    <3>4. IntOrdered(p)
          BY <3>2, <3>3 DEF IntOrdered
    <3>5. ~goal.tools
      <4>1. ~(Len(goal.models) >= 2)
            BY <1>a, <2>2
      <4>2. QED
            BY <2>2, <4>1 DEF Intent!ComplexityOf
    <3>6. consulted' \in BOOLEAN
          BY <3>1 DEF IntInv
    <3>7. QED
          BY <2>2, <3>1, <3>3, <3>4, <3>5, <3>6, IntFinish
  <2>3. CASE ~(~Intent!Multi /\ Intent!ComplexityOf(goal) = "simple")
    <3>1. goalStage' = "asking" /\ consulted' = TRUE /\ goal' = goal /\ plan' = plan
          BY <1>1, <2>3 DEF Intent!Decompose
    <3>2. Intent!Multi' \/ Intent!ComplexityOf(goal)' # "simple"
      <4>1. Intent!Multi' <=> Intent!Multi
            BY <3>1 DEF Intent!Multi
      <4>2. Intent!ComplexityOf(goal)' = Intent!ComplexityOf(goal)
            BY <3>1 DEF Intent!ComplexityOf, Intent!Classify, Intent!LaterOf, Intent!Alphabetical
      <4>3. QED
            BY <2>3, <4>1, <4>2
    <3>3. Intent!Safe'
          BY <2>1, <3>1 DEF Intent!Safe, Intent!PlanKeepsTheGoal, Intent!PlansAreOrdered
    <3>4. QED
          BY <1>0, <2>1, <3>1, <3>2, <3>3 DEF IntInv
  <2>4. QED
        BY <2>2, <2>3
<1>2. CASE Intent!LlmMultiModelDecompose
  <2>1. /\ goalStage = "asking" /\ Intent!Multi /\ answer' \in Decompositions /\ consulted' = consulted
        BY <1>2 DEF Intent!LlmMultiModelDecompose
  <2>2. answer' \in Seq(IntAnswer) /\ consulted
        BY <2>1, GoalsAssumption DEF IntInv, IntAnswer
  <2> DEFINE parsed == Intent!Parse(answer', goal.models)
             own == Intent!CreatePerModelSubtasks(goal.models)
             p == IF Len(parsed) < Len(goal.models) THEN own ELSE parsed
             q == Intent!AssignRoles(p, goal.roles)
  <2>3. Intent!Finish(q)
        BY <1>2 DEF Intent!LlmMultiModelDecompose, Intent!FinishMulti
  <2>4. /\ parsed \in Seq(IntItem)
        /\ \A i \in DOMAIN parsed : \E j \in DOMAIN goal.models : parsed[i].model = goal.models[j]
        /\ IntSound(answer') => IntOrdered(parsed)
        BY <1>0, <1>a, <2>1, <2>2, IntParse
  <2>5. /\ own \in Seq(IntItem) /\ Len(own) = Len(goal.models) /\ IntOrdered(own)
        /\ \A i \in DOMAIN own : own[i].model = goal.models[i] /\ i \in DOMAIN goal.models
        BY <1>0, <1>a, <2>1, IntPerModel
  <2> HIDE DEF parsed, own
  <2>6. /\ p \in Seq(IntItem) /\ Len(p) >= Len(goal.models)
        /\ \A i \in DOMAIN p : \E j \in DOMAIN goal.models : p[i].model = goal.models[j]
        /\ IntSound(answer') => IntOrdered(p)
    <3>1. CASE Len(parsed) < Len(goal.models)
      <4>1. p = own
            BY <3>1
      <4> HIDE DEF p
      <4>2. QED
            BY <1>0, <2>5, <4>1
    <3>2. CASE ~(Len(parsed) < Len(goal.models))
      <4>1. p = parsed /\ Len(parsed) \in Nat /\ Len(goal.models) \in Nat
            BY <1>0, <2>4, <3>2
      <4> HIDE DEF p
      <4>2. QED
            BY <2>4, <3>2, <4>1
    <3>3. QED
          BY <3>1, <3>2
  <2> HIDE DEF p
  <2>7. /\ q \in Seq(IntItem) /\ Len(q) = Len(p) /\ DOMAIN q = DOMAIN p
        /\ \A i \in DOMAIN p : q[i].model = p[i].model /\ q[i].deps = p[i].deps
        BY <1>0, <2>6, IntRoles
  <2> HIDE DEF q
  <2>8. IntSound(answer') => IntOrdered(q)
        BY <2>6, <2>7 DEF IntOrdered
  <2>9. Len(q) >= Len(goal.models) /\ \A i \in DOMAIN q : \E j \in DOMAIN goal.models : q[i].model = goal.models[j]
        BY <2>6, <2>7
  <2>10. QED
        BY <2>1, <2>2, <2>3, <2>7, <2>8, <2>9, IntFinish
<1>3. CASE Intent!LlmDecompose
  <2>1. /\ goalStage = "asking" /\ ~Intent!Multi /\ answer' \in Decompositions /\ consulted' = consulted
        BY <1>3 DEF Intent!LlmDecompose
  <2>2. answer' \in Seq(IntAnswer) /\ consulted /\ Intent!ComplexityOf(goal) # "simple"
        BY <2>1, GoalsAssumption DEF IntInv, IntAnswer
  <2> DEFINE parsed == Intent!Parse(answer', <<>>)
             own == Intent!TemplateDecompose(Intent!ComplexityOf(goal))
             p == IF \E i \in DOMAIN parsed : parsed[i].description = "short" THEN own ELSE parsed
  <2>3. Intent!Finish(p)
        BY <1>3 DEF Intent!LlmDecompose
  <2>a. <<>> \in Seq(STRING)
        OBVIOUS
  <2>4. parsed \in Seq(IntItem) /\ (IntSound(answer') => IntOrdered(parsed))
        BY <2>2, <2>a, IntParse
  <2>5. own \in Seq(IntItem) /\ IntOrdered(own)
        BY IntTemplate
  <2> HIDE DEF parsed, own
  <2>6. p = own \/ p = parsed
        OBVIOUS
  <2> HIDE DEF p
  <2>7. p \in Seq(IntItem) /\ (IntSound(answer') => IntOrdered(p))
        BY <2>4, <2>5, <2>6
  <2>8. QED
        BY <2>1, <2>2, <2>3, <2>7, IntFinish
<1>4. CASE Intent!DecompositionFails
  <2>1. goalStage = "asking" /\ consulted' = consulted /\ answer' = answer /\ consulted /\ plan = <<>>
        BY <1>4 DEF Intent!DecompositionFails, IntInv
  <2>2. CASE Intent!Multi
    <3> DEFINE own == Intent!CreatePerModelSubtasks(goal.models)
               q == Intent!AssignRoles(own, goal.roles)
    <3>1. Intent!Finish(q)
          BY <1>4, <2>2 DEF Intent!DecompositionFails, Intent!FinishMulti
    <3>2. /\ own \in Seq(IntItem) /\ Len(own) = Len(goal.models) /\ IntOrdered(own)
          /\ \A i \in DOMAIN own : own[i].model = goal.models[i] /\ i \in DOMAIN goal.models
          BY <1>0, <1>a, <2>2, IntPerModel
    <3> HIDE DEF own
    <3>3. /\ q \in Seq(IntItem) /\ Len(q) = Len(own) /\ DOMAIN q = DOMAIN own
          /\ \A i \in DOMAIN own : q[i].model = own[i].model /\ q[i].deps = own[i].deps
          BY <1>0, <3>2, IntRoles
    <3> HIDE DEF q
    <3>4. IntOrdered(q)
          BY <3>2, <3>3 DEF IntOrdered
    <3>5. Len(q) >= Len(goal.models) /\ \A i \in DOMAIN q : \E j \in DOMAIN goal.models : q[i].model = goal.models[j]
          BY <1>0, <3>2, <3>3
    <3>6. QED
          BY <2>1, <2>2, <3>1, <3>3, <3>4, <3>5, IntFinish
  <2>3. CASE ~Intent!Multi
    <3>1. goalStage' = "raised" /\ goal' = goal /\ plan' = plan
          BY <1>4, <2>3 DEF Intent!DecompositionFails
    <3>2. Intent!Safe'
          BY <2>1, <3>1 DEF Intent!Safe, Intent!PlanKeepsTheGoal, Intent!PlansAreOrdered
    <3>3. QED
          BY <1>0, <2>1, <3>1, <3>2 DEF IntInv
  <2>4. QED
        BY <2>2, <2>3
<1>5. QED
      BY <1>1, <1>2, <1>3, <1>4 DEF Intent!Next

LEMMA IntSame == ASSUME IntInv, UNCHANGED IntVars PROVE IntInv'
<1>1. IntInv' <=> IntInv
      BY DEF IntInv, IntVars, Intent!Safe, Intent!PlanKeepsTheGoal, Intent!PlansAreOrdered, Intent!Multi,
             Intent!ToSet, Intent!ComplexityOf, Intent!Classify, Intent!LaterOf, Intent!Alphabetical
<1>2. QED
      BY <1>1

-----------------------------------------------------------------------------
(* The concatenation of sequences, one after the other.                      *)
Chain(ss, f) ==
    /\ f[0] = <<>>
    /\ \A i \in 1..Len(ss) : f[i] = f[i - 1] \o ss[i]

LEMMA Chained ==
    ASSUME NEW E, NEW ss \in Seq(Seq(E))
    PROVE  \E f \in [0..Len(ss) -> Seq(E)] : Chain(ss, f)
<1> DEFINE N == Len(ss)
           Upto(n) == \E f \in [0..n -> Seq(E)] : f[0] = <<>> /\ \A i \in 1..n : f[i] = f[i - 1] \o ss[i]
           Bad == {n \in 0..N : ~Upto(n)}
<1>1. N \in Nat /\ \A i \in 1..N : ss[i] \in Seq(E)
      OBVIOUS
<1> HIDE DEF N
<1>2. Upto(0)
  <2> DEFINE f == [i \in 0..0 |-> <<>>]
  <2>1. f \in [0..0 -> Seq(E)] /\ f[0] = <<>> /\ \A i \in 1..0 : FALSE
        OBVIOUS
  <2> HIDE DEF f
  <2>2. QED
        BY <2>1
<1>3. ASSUME NEW n \in Nat, n + 1 \in 0..N, Upto(n) PROVE Upto(n + 1)
  <2>1. PICK f \in [0..n -> Seq(E)] : f[0] = <<>> /\ \A i \in 1..n : f[i] = f[i - 1] \o ss[i]
        BY <1>3
  <2> DEFINE added == f[n] \o ss[n + 1]
             g == [i \in 0..n + 1 |-> IF i = n + 1 THEN added ELSE f[i]]
  <2>2. added \in Seq(E)
    <3>1. f[n] \in Seq(E) /\ ss[n + 1] \in Seq(E)
          BY <1>1, <1>3
    <3>2. QED
          BY <3>1
  <2> HIDE DEF added
  <2>3. \A i \in 0..n + 1 : i # n + 1 => i \in 0..n
        OBVIOUS
  <2>4. g \in [0..n + 1 -> Seq(E)]
        BY <2>2, <2>3
  <2>5. g[0] = <<>> /\ g[n + 1] = added /\ \A i \in 0..n : g[i] = f[i]
        BY <2>1
  <2> HIDE DEF g
  <2>6. ASSUME NEW i \in 1..n + 1 PROVE g[i] = g[i - 1] \o ss[i]
    <3>1. CASE i = n + 1
      <4>1. g[i] = added /\ g[i - 1] = f[n]
            BY <2>5, <3>1
      <4>2. QED
            BY <3>1, <4>1 DEF added
    <3>2. CASE i # n + 1
      <4>1. i \in 1..n /\ i \in 0..n /\ i - 1 \in 0..n
            BY <3>2
      <4>2. g[i] = f[i] /\ g[i - 1] = f[i - 1] /\ f[i] = f[i - 1] \o ss[i]
            BY <2>1, <2>5, <4>1
      <4>3. QED
            BY <4>2
    <3>3. QED
          BY <3>1, <3>2
  <2>7. QED
        BY <2>4, <2>5, <2>6
<1> HIDE DEF Upto
<1>4. Bad = {}
  <2>1. SUFFICES ASSUME Bad # {} PROVE FALSE
        OBVIOUS
  <2>2. Bad \subseteq Nat
    <3>1. \A n \in Bad : n \in 0..N
          OBVIOUS
    <3>2. QED
          BY <3>1
  <2>a. \A n \in Bad : n \in 0..N /\ ~Upto(n)
        OBVIOUS
  <2>b. \A n \in 0..N : n \notin Bad => Upto(n)
        OBVIOUS
  <2> HIDE DEF Bad
  <2>3. PICK m \in Bad : \A n \in Bad : m <= n
        BY <2>1, <2>2, Smallest
  <2>4. m # 0 /\ m \in 0..N
        BY <1>2, <2>a
  <2>5. m - 1 \in Nat /\ m - 1 \in 0..N /\ (m - 1) + 1 = m /\ ~(m <= m - 1)
        BY <1>1, <2>4
  <2>6. Upto(m - 1)
        BY <2>3, <2>5, <2>b
  <2>7. Upto((m - 1) + 1)
        BY <1>3, <2>4, <2>5, <2>6
  <2>8. QED
        BY <2>5, <2>7, <2>a
<1>5. Upto(N)
  <2>1. N \in 0..N /\ \A n \in 0..N : n \notin Bad => Upto(n)
        BY <1>1
  <2> HIDE DEF Bad
  <2>2. QED
        BY <1>4, <2>1
<1>6. QED
      BY <1>5 DEF Chain, N, Upto

Grows(ss, f, n) == \A i \in 1..n : f[i] = f[i - 1] \o ss[i]

LEMMA ChainsAgree ==
    ASSUME NEW ss, NEW f, NEW g, NEW n \in Nat, f[0] = g[0], Grows(ss, f, n), Grows(ss, g, n)
    PROVE  f[n] = g[n]
<1>0. SUFFICES \A i \in 0..n : f[i] = g[i]
      OBVIOUS
<1> DEFINE Bad == {i \in 0..n : f[i] # g[i]}
<1>1. SUFFICES ASSUME Bad # {} PROVE FALSE
      OBVIOUS
<1>2. Bad \subseteq Nat /\ (\A i \in Bad : i \in 0..n /\ f[i] # g[i]) /\ \A i \in 0..n : i \notin Bad => f[i] = g[i]
      OBVIOUS
<1> HIDE DEF Bad
<1>3. PICK m \in Bad : \A i \in Bad : m <= i
      BY <1>1, <1>2, Smallest
<1>4. m \in 0..n /\ m # 0 /\ f[m] # g[m]
      BY <1>2
<1>5. m - 1 \in 0..n /\ m \in 1..n /\ ~(m <= m - 1)
      BY <1>4
<1>6. f[m - 1] = g[m - 1]
      BY <1>2, <1>3, <1>5
<1>7. f[m] = g[m]
      BY <1>5, <1>6 DEF Grows
<1>8. QED
      BY <1>4, <1>7

LEMMA Flattened ==
    ASSUME NEW E, NEW ss \in Seq(Seq(E)), NEW f \in [0..Len(ss) -> Seq(E)], Chain(ss, f)
    PROVE  React!FlattenSeq(ss) = f[Len(ss)]
<1> DEFINE N == Len(ss)
           Is(g) == g = [i \in 1..N |-> IF i = 1 THEN ss[i] ELSE g[i - 1] \o ss[i]]
           h == [i \in 1..N |-> f[i]]
           c == CHOOSE g : Is(g)
<1>1. React!FlattenSeq(ss) = IF N = 0 THEN ss ELSE c[N]
      BY DEF React!FlattenSeq
<1>2. N \in Nat /\ \A i \in 1..N : ss[i] \in Seq(E)
      OBVIOUS
<1>3. f[0] = <<>> /\ \A i \in 1..N : f[i] = f[i - 1] \o ss[i]
      BY DEF Chain
<1>a. N = 0 => ss = <<>>
      BY EmptySeq
<1> HIDE DEF N
<1>4. CASE N = 0
      BY <1>1, <1>3, <1>4, <1>a DEF N
<1>5. CASE N # 0
  <2>1. 1 \in 1..N /\ N \in 1..N /\ N \in 0..N /\ \A i \in 1..N : i # 1 => i - 1 \in 1..N
        BY <1>2, <1>5
  <2>2. f[1] = ss[1]
    <3>a. 1 - 1 = 0
          OBVIOUS
    <3>1. f[1] = f[0] \o ss[1]
          BY <1>3, <2>1, <3>a
    <3>2. ss[1] \in Seq(E)
          BY <1>2, <2>1
    <3>3. <<>> \o ss[1] = ss[1]
          BY <3>2, ConcatEmptySeq
    <3>4. QED
          BY <1>3, <3>1, <3>3
  <2>3. Is(h)
    <3>1. \A i \in 1..N : h[i] = IF i = 1 THEN ss[i] ELSE h[i - 1] \o ss[i]
          BY <1>3, <2>1, <2>2
    <3>2. h = [i \in 1..N |-> h[i]]
          OBVIOUS
    <3> HIDE DEF h
    <3>3. QED
          BY <3>1, <3>2
  <2> HIDE DEF h
  <2>4. Is(c)
        BY <2>3
  <2> HIDE DEF c
  <2>5. \A i \in 1..N : c[i] = IF i = 1 THEN ss[i] ELSE c[i - 1] \o ss[i]
        BY <2>4
  <2> DEFINE k == [i \in 0..N |-> IF i = 0 THEN <<>> ELSE c[i]]
  <2>6. k[0] = f[0] /\ \A i \in 1..N : k[i] = c[i]
    <3>1. \A i \in 1..N : i \in 0..N /\ i # 0
          BY <1>2
    <3>2. 0 \in 0..N
          BY <1>2
    <3>3. QED
          BY <1>3, <3>1, <3>2
  <2> HIDE DEF k
  <2>7. ASSUME NEW i \in 1..N PROVE k[i] = k[i - 1] \o ss[i]
    <3>1. CASE i = 1
      <4>a. i - 1 = 0
            BY <3>1
      <4>1. k[i] = ss[1] /\ k[i - 1] = f[0]
            BY <2>1, <2>5, <2>6, <3>1, <4>a
      <4>b. f[i] = f[i - 1] \o ss[i]
            BY <1>3
      <4>2. QED
            BY <2>2, <3>1, <4>1, <4>a, <4>b
    <3>2. CASE i # 1
      <4>1. i - 1 \in 1..N
            BY <2>1, <3>2
      <4>2. QED
            BY <2>5, <2>6, <3>2, <4>1
    <3>3. QED
          BY <3>1, <3>2
  <2>a. \A i \in 1..N : k[i] = k[i - 1] \o ss[i]
        BY <2>7
  <2>b. k[0] = f[0]
        BY <2>6
  <2>c. \A i \in 1..N : f[i] = f[i - 1] \o ss[i]
        BY <1>3
  <2>8. k[N] = f[N]
    <3>1. Grows(ss, k, N) /\ Grows(ss, f, N)
          BY <2>a, <2>c DEF Grows
    <3>2. QED
          BY <1>2, <2>b, <3>1, ChainsAgree
  <2>9. c[N] = f[N]
        BY <2>1, <2>6, <2>8
  <2>10. QED
        BY <1>1, <1>5, <2>9 DEF N
<1>6. QED
      BY <1>4, <1>5

(* One more sequence at the end.                                             *)
LEMMA FlattenedMore ==
    ASSUME NEW E, NEW ss \in Seq(Seq(E)), NEW t \in Seq(E)
    PROVE  /\ React!FlattenSeq(ss) \in Seq(E)
           /\ React!FlattenSeq(Append(ss, t)) = React!FlattenSeq(ss) \o t
<1> DEFINE tt == Append(ss, t)
           n == Len(ss)
<1>1. /\ tt \in Seq(Seq(E)) /\ Len(tt) = n + 1 /\ n \in Nat
      /\ \A i \in 1..n : tt[i] = ss[i]
      /\ tt[n + 1] = t
      BY Appended
<1> HIDE DEF tt, n
<1>2. PICK f \in [0..Len(ss) -> Seq(E)] : Chain(ss, f)
      BY Chained
<1>3. PICK g \in [0..Len(tt) -> Seq(E)] : Chain(tt, g)
      BY <1>1, Chained
<1>4. React!FlattenSeq(ss) = f[n] /\ React!FlattenSeq(tt) = g[Len(tt)]
      BY <1>1, <1>2, <1>3, Flattened DEF n
<1>5. /\ f[0] = <<>> /\ \A i \in 1..n : f[i] = f[i - 1] \o ss[i]
      /\ g[0] = <<>> /\ \A i \in 1..n + 1 : g[i] = g[i - 1] \o tt[i]
      BY <1>1, <1>2, <1>3 DEF Chain, n
<1>a. ASSUME NEW i \in 1..n PROVE g[i] = g[i - 1] \o ss[i]
  <2>1. i \in 1..n + 1
        BY <1>1
  <2>2. g[i] = g[i - 1] \o tt[i]
        BY <1>5, <2>1
  <2>3. tt[i] = ss[i]
        BY <1>1
  <2>4. QED
        BY <2>2, <2>3
<1>6. \A i \in 1..n : g[i] = g[i - 1] \o ss[i]
      BY <1>a
<1>b. n \in Nat /\ f[0] = g[0]
      BY <1>1, <1>5
<1>c. \A i \in 1..n : f[i] = f[i - 1] \o ss[i]
      BY <1>5
<1>7. f[n] = g[n]
  <2>1. Grows(ss, f, n) /\ Grows(ss, g, n)
        BY <1>6, <1>c DEF Grows
  <2>2. QED
        BY <1>b, <2>1, ChainsAgree
<1>8. n \in 0..n /\ n + 1 \in 1..n + 1 /\ (n + 1) - 1 = n
      BY <1>1
<1>9. g[n + 1] = f[n] \o t
      BY <1>1, <1>5, <1>7, <1>8
<1>10. f[n] \in Seq(E)
      BY <1>2, <1>8 DEF n
<1>11. QED
      BY <1>1, <1>4, <1>9, <1>10 DEF tt

LEMMA Nothing ==
    ASSUME NEW E, NEW s \in Seq(E), NEW u \in Seq(E), NEW t, t = s \o u
    PROVE  t = <<>> => s = <<>> /\ u = <<>>
<1>1. Len(t) = Len(s) + Len(u) /\ Len(s) \in Nat /\ Len(u) \in Nat
      OBVIOUS
<1>2. (s # <<>> => Len(s) # 0) /\ (u # <<>> => Len(u) # 0)
      BY EmptySeq
<1>3. t = <<>> => Len(t) = 0
      OBVIOUS
<1> DEFINE i == Len(s)
           j == Len(u)
           k == Len(t)
<1>4. i \in Nat /\ j \in Nat /\ k = i + j
      BY <1>1
<1> HIDE DEF i, j, k
<1>5. k = 0 => i = 0 /\ j = 0
      BY <1>4
<1>6. QED
      BY <1>2, <1>3, <1>5 DEF i, j, k

(* What is empty was so piece by piece.                                      *)
LEMMA FlattenedNothing ==
    ASSUME NEW E, NEW ss \in Seq(Seq(E)), React!FlattenSeq(ss) = <<>>
    PROVE  \A i \in DOMAIN ss : ss[i] = <<>>
<1> DEFINE n == Len(ss)
<1>1. n \in Nat /\ DOMAIN ss = 1..n /\ \A i \in 1..n : ss[i] \in Seq(E)
      OBVIOUS
<1>2. PICK f \in [0..Len(ss) -> Seq(E)] : Chain(ss, f)
      BY Chained
<1>3. f[n] = <<>> /\ \A i \in 1..n : f[i] = f[i - 1] \o ss[i]
      BY <1>2, Flattened DEF Chain
<1>a. \A i \in 0..n : f[i] \in Seq(E)
      BY <1>2
<1> HIDE DEF n
<1> DEFINE Bad == {k \in 0..n : f[n - k] # <<>>}
<1>4. Bad = {}
  <2>1. SUFFICES ASSUME Bad # {} PROVE FALSE
        OBVIOUS
  <2>2. /\ Bad \subseteq Nat /\ \A k \in Bad : k \in 0..n /\ f[n - k] # <<>>
        /\ \A k \in 0..n : k \notin Bad => f[n - k] = <<>>
        OBVIOUS
  <2> HIDE DEF Bad
  <2>3. PICK m \in Bad : \A k \in Bad : m <= k
        BY <2>1, <2>2, Smallest
  <2>4. m # 0 /\ m \in 0..n
        BY <1>1, <1>3, <2>2
  <2>5. m - 1 \in 0..n /\ ~(m <= m - 1) /\ n - (m - 1) = (n - m) + 1 /\ n - m \in 0..n /\ (n - m) + 1 \in 1..n
        BY <1>1, <2>4
  <2>6. f[(n - m) + 1] = <<>>
        BY <2>2, <2>3, <2>5
  <2>7. f[(n - m) + 1] = f[n - m] \o ss[(n - m) + 1]
    <3>1. ((n - m) + 1) - 1 = n - m
          BY <1>1, <2>4
    <3>2. QED
          BY <1>3, <2>5, <3>1
  <2>8. f[n - m] \in Seq(E) /\ ss[(n - m) + 1] \in Seq(E)
        BY <1>1, <1>a, <2>5
  <2>9. f[n - m] = <<>>
        BY <2>6, <2>7, <2>8, Nothing
  <2>10. QED
        BY <2>2, <2>9
<1>5. ASSUME NEW i \in 1..n PROVE ss[i] = <<>>
  <2>1. n - i \in 0..n /\ n - (n - i) = i /\ i \in 0..n /\ i - 1 \in 0..n
        BY <1>1
  <2>2. f[i] = <<>>
        BY <1>4, <2>1
  <2>3. f[i] = f[i - 1] \o ss[i] /\ f[i - 1] \in Seq(E) /\ ss[i] \in Seq(E)
        BY <1>1, <1>3, <1>a, <2>1
  <2>4. QED
        BY <2>2, <2>3, Nothing
<1>6. QED
      BY <1>1, <1>5

(* The tool loops, one by one: each part of a loop's state is passed as a    *)
(* value.                                                                    *)
LoopCall == [tool : STRING \cup {"-"}, args : Nat]
LoopObservation == {"result", "", "MCP_ERROR", "ERROR"}
LoopStep == [content : {a.content : a \in LoopAnswers} \cup {""},
             calls : Seq(LoopCall), observations : Seq(LoopObservation)]
LoopMessage == [role : {"assistant"}, calls : Seq(LoopCall)] \cup [role : {"tool"}, call : LoopCall]
LoopUsed == [tool : STRING \cup {"-"}, observation : {"result", "MCP_ERROR"}]

\* The messages of a step of which the first n calls are executed.
LoopPart(calls, n) ==
    <<[role |-> "assistant", calls |-> calls]>> \o [j \in 1..n |-> [role |-> "tool", call |-> calls[j]]]
LoopWhole(calls) ==
    <<[role |-> "assistant", calls |-> calls]>> \o [j \in DOMAIN calls |-> [role |-> "tool", call |-> calls[j]]]
LoopTold(trace) == React!FlattenSeq([i \in DOMAIN trace |-> LoopWhole(trace[i].calls)])

LoopEnds(trace, why) ==
    LET n == Len(trace)
    IN  /\ n <= MaxIterations
        /\ \A i \in 1 .. n - 2 :
            React!SameThrice(trace, i) => i = n - 2 /\ why = "repetitive_tool_loop"
        /\ why = "repetitive_tool_loop" => n >= 3 /\ React!SameThrice(trace, n - 2)
        /\ why = "max_iterations" => n = MaxIterations

\* The run is that of the single call the last steps have in common.
LoopRun(trace, call, run) ==
    LET n == Len(trace)
        Is(i) == trace[i].calls = <<call>>
    IN  /\ run \in 0..2 /\ run <= n
        /\ run = 0 => n = 0 \/ Len(trace[n].calls) # 1
        /\ run >= 1 => Is(n)
        /\ run = 1 => n = 1 \/ ~Is(n - 1)
        /\ run = 2 => Is(n - 1)

LoopQuiet(trace) ==
    \A i \in DOMAIN trace : \A j \in DOMAIN trace[i].observations : trace[i].observations[j] \in {"", "ERROR"}

LoopWell(st, msgs, trace, cur, call, run, why, fin) ==
    /\ st \in {"new", "ask", "tools", "done", "raised"}
    /\ msgs \in Seq(LoopMessage) /\ trace \in Seq(LoopStep) /\ cur \in LoopStep /\ call \in LoopCall
    /\ \A i \in DOMAIN trace : DOMAIN trace[i].observations \subseteq DOMAIN trace[i].calls
    /\ LoopEnds(trace, why)
    /\ st \in {"new", "ask"} => msgs = LoopTold(trace)
    /\ st = "tools" => /\ Len(cur.observations) <= Len(cur.calls)
                       /\ msgs = LoopTold(trace) \o LoopPart(cur.calls, Len(cur.observations))
    /\ st \in {"new", "ask", "tools"} => Len(trace) < MaxIterations /\ why = "-" /\ LoopRun(trace, call, run)
    /\ st = "done" /\ fin = React!Text(React!NoResults) => LoopQuiet(trace)

LoopDomains ==
    /\ DOMAIN loopStage = ToolLoop /\ DOMAIN dialogue = ToolLoop /\ DOMAIN steps = ToolLoop
    /\ DOMAIN current = ToolLoop /\ DOMAIN last = ToolLoop /\ DOMAIN repeats = ToolLoop
    /\ DOMAIN reason = ToolLoop /\ DOMAIN final = ToolLoop

LoopInv ==
    /\ LoopDomains
    /\ \A l \in ToolLoop : LoopWell(loopStage[l], dialogue[l], steps[l], current[l], last[l], repeats[l],
                                    reason[l], final[l])

LoopVars == <<schemas, route, connected, loopStage, toolLists, dialogue, steps, current, last, repeats,
              reason, final>>

LEMMA LoopSafe == ASSUME LoopInv PROVE React!Safe
<1>1. \A l \in ToolLoop : LoopWell(loopStage[l], dialogue[l], steps[l], current[l], last[l], repeats[l],
                                   reason[l], final[l])
      BY DEF LoopInv
<1>2. React!EveryCallAnswered
  <2>1. \A l \in ToolLoop : loopStage[l] = "ask" => dialogue[l] = LoopTold(steps[l])
        BY <1>1 DEF LoopWell
  <2>2. QED
        BY <2>1 DEF React!EveryCallAnswered, LoopTold, LoopWhole
<1>3. React!EndsForItsReason
  <2>1. \A l \in ToolLoop : LoopEnds(steps[l], reason[l])
        BY <1>1 DEF LoopWell
  <2>2. QED
        BY <2>1 DEF React!EndsForItsReason, LoopEnds
<1>4. React!FallbackIsRecent
  <2>1. \A l \in ToolLoop : loopStage[l] = "done" /\ final[l] = React!Text(React!NoResults) => LoopQuiet(steps[l])
        BY <1>1 DEF LoopWell
  <2>2. QED
        BY <2>1 DEF React!FallbackIsRecent, LoopQuiet
<1>5. QED
      BY <1>2, <1>3, <1>4 DEF React!Safe

LEMMA LoopMessages ==
    ASSUME NEW calls \in Seq(LoopCall), NEW n \in Nat, n <= Len(calls)
    PROVE  /\ LoopPart(calls, n) \in Seq(LoopMessage)
           /\ LoopPart(calls, 0) = <<[role |-> "assistant", calls |-> calls]>>
           /\ LoopPart(calls, Len(calls)) = LoopWhole(calls)
<1> DEFINE first == <<[role |-> "assistant", calls |-> calls]>>
           told(k) == [j \in 1..k |-> [role |-> "tool", call |-> calls[j]]]
<1>1. DOMAIN calls = 1..Len(calls) /\ Len(calls) \in Nat /\ \A j \in 1..Len(calls) : calls[j] \in LoopCall
      OBVIOUS
<1>2. first \in Seq(LoopMessage)
      BY DEF LoopMessage
<1>3. told(n) \in Seq(LoopMessage)
  <2>1. \A j \in 1..n : j \in 1..Len(calls)
        BY <1>1
  <2>2. \A j \in 1..n : [role |-> "tool", call |-> calls[j]] \in LoopMessage
        BY <1>1, <2>1 DEF LoopMessage
  <2>3. QED
        BY <2>2
<1>4. told(0) = <<>>
      OBVIOUS
<1>5. LoopPart(calls, n) = first \o told(n) /\ LoopPart(calls, 0) = first \o told(0)
      BY DEF LoopPart
<1> HIDE DEF first, told
<1>6. first \o <<>> = first
      BY <1>2, ConcatEmptySeq
<1>7. first \o told(n) \in Seq(LoopMessage)
      BY <1>2, <1>3
<1>8. LoopPart(calls, Len(calls)) = LoopWhole(calls)
      BY <1>1 DEF LoopPart, LoopWhole
<1>9. QED
      BY <1>4, <1>5, <1>6, <1>7, <1>8 DEF first

(* The same function on one more index is an append.                         *)
LEMMA Extended ==
    ASSUME NEW E, NEW s \in Seq(E), NEW e \in E, NEW t, t = [i \in DOMAIN t |-> t[i]],
           DOMAIN t = 1..Len(s) + 1, \A i \in 1..Len(s) : t[i] = s[i], t[Len(s) + 1] = e
    PROVE  t = Append(s, e)
<1> DEFINE u == Append(s, e)
           n == Len(s)
<1>1. /\ u \in Seq(E) /\ DOMAIN u = 1..n + 1 /\ n \in Nat
      /\ \A i \in 1..n : u[i] = s[i]
      /\ u[n + 1] = e
      BY Appended
<1>2. u = [i \in DOMAIN u |-> u[i]]
  <2>1. u \in Seq(E)
        BY <1>1
  <2> HIDE DEF u
  <2>2. QED
        BY <2>1
<1>3. DOMAIN t = 1..n + 1 /\ t[n + 1] = e /\ \A i \in 1..n : t[i] = s[i]
      OBVIOUS
<1> HIDE DEF u, n
<1>4. \A i \in 1..n + 1 : i \in 1..n \/ i = n + 1
      BY <1>1
<1>5. \A i \in DOMAIN u : t[i] = u[i]
      BY <1>1, <1>3, <1>4
<1>6. t = u
      BY <1>1, <1>2, <1>3, <1>5
<1>7. QED
      BY <1>6 DEF u

LEMMA AppendedToBoth ==
    ASSUME NEW E, NEW s \in Seq(E), NEW u \in Seq(E), NEW e \in E
    PROVE  s \o Append(u, e) = Append(s \o u, e)
<1> DEFINE x == <<e>>
           su == s \o u
<1>1. x \in Seq(E) /\ su \in Seq(E)
      OBVIOUS
<1>2. Append(u, e) = u \o x /\ Append(su, e) = su \o x
      BY <1>1, AppendIsConcat
<1>3. s \o (u \o x) = su \o x
      BY <1>1, ConcatAssociative
<1>4. QED
      BY <1>2, <1>3

LoopTool(calls, i) == [role |-> "tool", call |-> calls[i]]
LoopResults(calls, n) == [j \in 1..n |-> LoopTool(calls, j)]

LEMMA LoopTools ==
    ASSUME NEW calls \in Seq(LoopCall), NEW n \in Nat, n + 1 <= Len(calls)
    PROVE  /\ LoopTool(calls, n + 1) \in LoopMessage /\ LoopResults(calls, n) \in Seq(LoopMessage)
           /\ LoopResults(calls, n + 1) = Append(LoopResults(calls, n), LoopTool(calls, n + 1))
<1> DEFINE told(k) == [j \in 1..k |-> [role |-> "tool", call |-> calls[j]]]
           e == [role |-> "tool", call |-> calls[n + 1]]
<1>1. DOMAIN calls = 1..Len(calls) /\ Len(calls) \in Nat /\ \A j \in 1..Len(calls) : calls[j] \in LoopCall
      OBVIOUS
<1>3. \A j \in 1..n + 1 : [role |-> "tool", call |-> calls[j]] \in LoopMessage
  <2>1. \A j \in 1..n + 1 : j \in 1..Len(calls)
        BY <1>1
  <2>2. QED
        BY <1>1, <2>1 DEF LoopMessage
<1>4. told(n) \in Seq(LoopMessage) /\ Len(told(n)) = n
  <2>1. \A j \in 1..n : j \in 1..n + 1
        OBVIOUS
  <2>2. \A j \in 1..n : [role |-> "tool", call |-> calls[j]] \in LoopMessage
        BY <1>3, <2>1
  <2>3. QED
        BY <2>2
<1>5. e \in LoopMessage
      BY <1>3
<1>6. /\ DOMAIN told(n + 1) = 1..n + 1 /\ told(n + 1) = [j \in DOMAIN told(n + 1) |-> told(n + 1)[j]]
      /\ told(n + 1)[n + 1] = e /\ \A j \in 1..n : told(n + 1)[j] = told(n)[j]
      OBVIOUS
<1> DEFINE t == told(n)
           u == told(n + 1)
<1>7. /\ t \in Seq(LoopMessage) /\ Len(t) = n
      /\ DOMAIN u = 1..n + 1 /\ u = [j \in DOMAIN u |-> u[j]] /\ u[n + 1] = e /\ \A j \in 1..n : u[j] = t[j]
      BY <1>4, <1>6
<1> HIDE DEF t, u, e, told
<1>8. u = Append(t, e)
      BY <1>5, <1>7, Extended
<1>9. QED
      BY <1>5, <1>7, <1>8 DEF e, t, u, told, LoopTool, LoopResults

LEMMA LoopMessage1 ==
    ASSUME NEW calls \in Seq(LoopCall), NEW n \in Nat
    PROVE  n + 1 <= Len(calls) => LoopPart(calls, n + 1) = Append(LoopPart(calls, n), LoopTool(calls, n + 1))
<1> DEFINE first == <<[role |-> "assistant", calls |-> calls]>>
           t == LoopResults(calls, n)
           e == LoopTool(calls, n + 1)
<1>1. first \in Seq(LoopMessage)
      BY DEF LoopMessage
<1>2. LoopPart(calls, n) = first \o t /\ LoopPart(calls, n + 1) = first \o LoopResults(calls, n + 1)
      BY DEF LoopPart, LoopResults, LoopTool
<1>3. n + 1 <= Len(calls) =>
            e \in LoopMessage /\ t \in Seq(LoopMessage) /\ LoopResults(calls, n + 1) = Append(t, e)
      BY LoopTools
<1> HIDE DEF first, t, e
<1>4. e \in LoopMessage /\ t \in Seq(LoopMessage) => first \o Append(t, e) = Append(first \o t, e)
      BY <1>1, AppendedToBoth
<1>5. QED
      BY <1>2, <1>3, <1>4 DEF e

(* What a step leaves behind.                                                *)
LEMMA LoopToldMore ==
    ASSUME NEW trace \in Seq(LoopStep), NEW s \in LoopStep
    PROVE  /\ LoopTold(trace) \in Seq(LoopMessage)
           /\ LoopTold(Append(trace, s)) = LoopTold(trace) \o LoopWhole(s.calls)
<1> DEFINE n == Len(trace)
           more == Append(trace, s)
           e == LoopWhole(s.calls)
           f == [i \in DOMAIN trace |-> LoopWhole(trace[i].calls)]
           g == [i \in DOMAIN more |-> LoopWhole(more[i].calls)]
<1>1. /\ DOMAIN trace = 1..n /\ n \in Nat /\ DOMAIN more = 1..n + 1 /\ \A i \in 1..n : more[i] = trace[i]
      /\ more[n + 1] = s
      BY Appended
<1>2. \A x \in LoopStep : x.calls \in Seq(LoopCall)
      BY DEF LoopStep
<1>3. \A c \in Seq(LoopCall) : LoopWhole(c) \in Seq(LoopMessage)
  <2>1. ASSUME NEW c \in Seq(LoopCall) PROVE LoopWhole(c) \in Seq(LoopMessage)
    <3>1. Len(c) \in Nat
          OBVIOUS
    <3>2. QED
          BY <3>1, LoopMessages
  <2>2. QED
        BY <2>1
<1>4. \A i \in 1..n : trace[i] \in LoopStep
      OBVIOUS
<1>5. f \in Seq(Seq(LoopMessage)) /\ Len(f) = n
  <2>1. \A i \in 1..n : LoopWhole(trace[i].calls) \in Seq(LoopMessage)
        BY <1>2, <1>3, <1>4
  <2>2. f = [i \in 1..n |-> LoopWhole(trace[i].calls)]
        BY <1>1
  <2>a. n \in Nat
        BY <1>1
  <2> HIDE DEF f, n
  <2>3. QED
        BY <2>1, <2>2, <2>a
<1>6. e \in Seq(LoopMessage)
      BY <1>2, <1>3
<1>7. g = Append(f, e)
  <2>1. DOMAIN g = 1..n + 1 /\ g = [i \in DOMAIN g |-> g[i]]
        BY <1>1
  <2>2. \A i \in 1..n : i \in DOMAIN more
        BY <1>1
  <2>3. \A i \in 1..n : g[i] = LoopWhole(trace[i].calls) /\ f[i] = LoopWhole(trace[i].calls)
        BY <1>1, <2>2
  <2>4. n + 1 \in DOMAIN more
        BY <1>1
  <2>5. g[n + 1] = e
        BY <1>1, <2>4
  <2> HIDE DEF f, g, e, n, more
  <2>6. DOMAIN g = 1..Len(f) + 1 /\ \A i \in 1..Len(f) : g[i] = f[i]
        BY <1>5, <2>1, <2>3
  <2>7. g[Len(f) + 1] = e
        BY <1>5, <2>5
  <2>8. g = [i \in DOMAIN g |-> g[i]]
        BY <2>1
  <2>9. QED
        BY <1>5, <1>6, <2>6, <2>7, <2>8, Extended
<1>8. LoopTold(trace) = React!FlattenSeq(f) /\ LoopTold(more) = React!FlattenSeq(g)
      BY DEF LoopTold
<1> HIDE DEF f, g, e, more
<1>9. React!FlattenSeq(f) \in Seq(LoopMessage) /\ React!FlattenSeq(Append(f, e)) = React!FlattenSeq(f) \o e
      BY <1>5, <1>6, FlattenedMore
<1>10. QED
      BY <1>7, <1>8, <1>9 DEF e, more

LEMMA LoopUseful ==
    ASSUME NEW s \in LoopStep, DOMAIN s.observations \subseteq DOMAIN s.calls
    PROVE  /\ React!Useful(s) \in Seq(LoopUsed)
           /\ React!Useful(s) = <<>> => \A j \in DOMAIN s.observations : s.observations[j] \in {"", "ERROR"}
<1> DEFINE E == [tool : STRING \cup {"-"}, observation : LoopObservation]
           ch == [j \in DOMAIN s.observations |-> [tool |-> s.calls[j].tool, observation |-> s.observations[j]]]
           S == {j \in DOMAIN s.observations : s.observations[j] \notin {"", "ERROR"}}
           u == Kept(ch, S)
<1>1. React!Useful(s) = u
      BY DEF React!Useful, React!Kept, Kept, React!Place, Place, React!Before, Before, React!Cardinality, Cardinality
<1>2. /\ s.calls \in Seq(LoopCall) /\ s.observations \in Seq(LoopObservation)
      BY DEF LoopStep
<1>3. \A j \in DOMAIN s.observations : s.calls[j] \in LoopCall /\ s.observations[j] \in LoopObservation
      BY <1>2
<1>4. /\ \A j \in DOMAIN s.observations : ch[j] \in E
      /\ DOMAIN ch = DOMAIN s.observations
      /\ \A j \in DOMAIN s.observations : ch[j].observation = s.observations[j]
      BY <1>3 DEF LoopCall
<1>5. ch \in Seq(E)
  <2>1. DOMAIN s.observations = 1..Len(s.observations) /\ Len(s.observations) \in Nat
        BY <1>2
  <2>2. ch = [j \in DOMAIN ch |-> ch[j]]
        OBVIOUS
  <2> HIDE DEF ch, E
  <2>3. QED
        BY <1>4, <2>1, <2>2
<1>6. S \subseteq DOMAIN ch
      OBVIOUS
<1>7. \A j \in S : j \in DOMAIN s.observations /\ s.observations[j] \in {"result", "MCP_ERROR"}
      BY <1>3 DEF LoopObservation
<1>8. \A j \in DOMAIN s.observations : j \notin S => s.observations[j] \in {"", "ERROR"}
      OBVIOUS
<1> HIDE DEF S, ch
<1>9. /\ u \in Seq(E)
      /\ \A k \in DOMAIN u : \E i \in S : u[k] = ch[i]
      /\ \A i \in S : \E k \in DOMAIN u : u[k] = ch[i]
      BY <1>5, <1>6, KeptAre
<1> HIDE DEF u
<1>10. \A k \in DOMAIN u : u[k] \in LoopUsed
  <2>1. ASSUME NEW k \in DOMAIN u PROVE u[k] \in LoopUsed
    <3>1. PICK i \in S : u[k] = ch[i]
          BY <1>9
    <3>2. u[k] \in E /\ u[k].observation \in {"result", "MCP_ERROR"}
          BY <1>4, <1>7, <3>1
    <3>3. QED
          BY <3>2 DEF LoopUsed
  <2>2. QED
        BY <2>1
<1>11. u \in Seq(LoopUsed)
      BY <1>9, <1>10
<1>12. u = <<>> => S = {}
  <2>1. u = <<>> => DOMAIN u = {}
        OBVIOUS
  <2>2. QED
        BY <1>9, <2>1
<1>13. QED
      BY <1>1, <1>8, <1>11, <1>12

LEMMA LoopFallback ==
    ASSUME NEW trace \in Seq(LoopStep),
           \A i \in DOMAIN trace : DOMAIN trace[i].observations \subseteq DOMAIN trace[i].calls,
           React!FallbackAnswer(trace) = React!Text(React!NoResults)
    PROVE  LoopQuiet(trace)
<1> DEFINE f == [i \in DOMAIN trace |-> React!Useful(trace[i])]
           kept == React!FlattenSeq(f)
           m == IF Len(kept) > 3 THEN Len(kept) - 2 ELSE 1
           none == React!Text(React!NoResults)
<1>1. \A i \in DOMAIN trace : trace[i] \in LoopStep
      OBVIOUS
<1>2. \A i \in DOMAIN trace : React!Useful(trace[i]) \in Seq(LoopUsed)
      BY <1>1, LoopUseful
<1>3. f \in Seq(Seq(LoopUsed))
  <2>1. DOMAIN trace = 1..Len(trace) /\ Len(trace) \in Nat
        OBVIOUS
  <2>2. QED
        BY <1>2, <2>1
<1>4. React!FallbackAnswer(trace) = IF kept = <<>> THEN none ELSE SubSeq(kept, m, Len(kept))
      BY DEF React!FallbackAnswer
<1>5. \A i \in DOMAIN trace : f[i] = React!Useful(trace[i])
      OBVIOUS
<1>a. DOMAIN f = DOMAIN trace
      OBVIOUS
<1> HIDE DEF f
<1>6. kept \in Seq(LoopUsed)
  <2> DEFINE e == <<>>
  <2>1. e \in Seq(LoopUsed)
        OBVIOUS
  <2> HIDE DEF e
  <2>2. QED
        BY <1>3, <2>1, FlattenedMore
<1> HIDE DEF kept
<1>7. kept = <<>>
  <2>1. SUFFICES ASSUME kept # <<>> PROVE FALSE
        OBVIOUS
  <2>2. Len(kept) \in Nat \ {0} /\ DOMAIN kept = 1..Len(kept)
        BY <1>6, <2>1, EmptySeq
  <2> DEFINE k == Len(kept)
  <2>3. k \in Nat /\ k # 0 /\ m = IF k > 3 THEN k - 2 ELSE 1
        BY <2>2
  <2> HIDE DEF k, m
  <2>4. m \in 1..k
        BY <2>3
  <2>5. kept[m] \in LoopUsed
        BY <1>6, <2>2, <2>4 DEF k
  <2>6. SubSeq(kept, m, k)[1] = kept[m]
    <3>1. m \in Int /\ k \in Int /\ 1 \in 1..k - m + 1 /\ m + 1 - 1 = m /\ m..k \subseteq 1..k
          BY <2>3, <2>4
    <3>2. \A i \in m..k : kept[i] \in LoopUsed
          BY <1>6, <2>2, <3>1 DEF k
    <3>3. \A i \in 1..k - m + 1 : SubSeq(kept, m, k)[i] = kept[m + i - 1]
          BY <3>1, <3>2, SubSeqProperties
    <3>4. QED
          BY <3>1, <3>3
  <2>7. none = SubSeq(kept, m, k)
        BY <1>4, <2>1 DEF k
  <2>8. none[1].observation = React!NoResults
        BY DEF React!Text
  <2>a. React!NoResults \notin {"result", "MCP_ERROR"}
        BY DEF React!NoResults
  <2>9. none[1] \in LoopUsed
        BY <2>5, <2>6, <2>7
  <2>10. QED
        BY <2>8, <2>9, <2>a DEF LoopUsed
<1>8. \A i \in DOMAIN f : f[i] = <<>>
      BY <1>3, <1>7, FlattenedNothing DEF kept
<1>9. ASSUME NEW i \in DOMAIN trace, NEW j \in DOMAIN trace[i].observations
      PROVE  trace[i].observations[j] \in {"", "ERROR"}
  <2>1. React!Useful(trace[i]) = <<>>
        BY <1>5, <1>8, <1>a
  <2>2. QED
        BY <1>1, <2>1, LoopUseful
<1>10. QED
      BY <1>9 DEF LoopQuiet

(* With one more step the only three steps that can newly be the same are    *)
(* the last.                                                                 *)
LEMMA LoopEndsMore ==
    ASSUME NEW trace \in Seq(LoopStep), NEW s \in LoopStep, NEW why,
           LoopEnds(trace, "-"), Len(trace) < MaxIterations,
           why = "repetitive_tool_loop" <=>
               Len(trace) >= 2 /\ React!SameThrice(Append(trace, s), Len(trace) - 1),
           why = "max_iterations" => Len(trace) + 1 = MaxIterations
    PROVE  LoopEnds(Append(trace, s), why)
<1> DEFINE n == Len(trace)
           more == Append(trace, s)
<1>1. n \in Nat /\ Len(more) = n + 1 /\ \A i \in 1..n : more[i] = trace[i]
      BY Appended
<1>2. /\ n < MaxIterations
      /\ why = "repetitive_tool_loop" <=> (n >= 2 /\ React!SameThrice(more, n - 1))
      /\ why = "max_iterations" => n + 1 = MaxIterations
      OBVIOUS
<1>3. \A i \in 1..n - 2 : ~React!SameThrice(trace, i)
      BY DEF LoopEnds
<1> HIDE DEF n, more
<1>4. MaxIterations \in Nat
      BY LoopAssumption
<1>5. \A i \in 1..n - 2 : ~React!SameThrice(more, i)
  <2>1. ASSUME NEW i \in 1..n - 2 PROVE ~React!SameThrice(more, i)
    <3>1. \A j \in i..i + 2 : j \in 1..n
          BY <1>1
    <3>2. i \in 1..n
          BY <1>1
    <3>3. \A j \in i..i + 2 : more[j] = trace[j]
          BY <1>1, <3>1
    <3>4. more[i] = trace[i]
          BY <1>1, <3>2
    <3>5. QED
          BY <1>3, <3>3, <3>4 DEF React!SameThrice
  <2>2. QED
        BY <2>1
<1>6. ASSUME NEW i \in 1..(n + 1) - 2, React!SameThrice(more, i)
      PROVE  i = (n + 1) - 2 /\ why = "repetitive_tool_loop"
  <2>1. i \in 1..n - 2 \/ (i = n - 1 /\ n >= 2)
        BY <1>1
  <2>2. i = n - 1 /\ n >= 2
        BY <1>5, <1>6, <2>1
  <2>3. QED
        BY <1>1, <1>2, <1>6, <2>2
<1>7. n + 1 <= MaxIterations
      BY <1>1, <1>2, <1>4
<1>8. why = "repetitive_tool_loop" => n + 1 >= 3 /\ React!SameThrice(more, (n + 1) - 2)
  <2>1. (n + 1) - 2 = n - 1 /\ (n >= 2 => n + 1 >= 3)
        BY <1>1
  <2>2. QED
        BY <1>2, <2>1
<1>9. LoopEnds(more, why)
      BY <1>1, <1>2, <1>6, <1>7, <1>8 DEF LoopEnds
<1>10. QED
       BY <1>9 DEF more

LEMMA LoopSingle ==
    ASSUME NEW c \in Seq(LoopCall), NEW d PROVE Len(c) = 1 => (c = <<d>> <=> c[1] = d)
OBVIOUS

LEMMA LoopOne ==
    ASSUME NEW d PROVE Len(<<d>>) = 1 /\ <<d>>[1] = d
OBVIOUS

LoopSeen(s, call, run) ==
    IF Len(s.calls) # 1 THEN [call |-> React!NoCall, run |-> 0]
    ELSE [call |-> s.calls[1], run |-> IF s.calls[1] = call THEN run + 1 ELSE 1]

LEMMA LoopRuns ==
    ASSUME NEW trace \in Seq(LoopStep), NEW s \in LoopStep, NEW call, NEW run,
           LoopRun(trace, call, run)
    PROVE  LET seen == LoopSeen(s, call, run)
               three == Len(trace) >= 2 /\ React!SameThrice(Append(trace, s), Len(trace) - 1)
           IN  /\ seen.run \in 0..3
               /\ seen.run >= 3 <=> three
               /\ seen.run < 3 => LoopRun(Append(trace, s), seen.call, seen.run)
               /\ seen.call \in LoopCall
<1> DEFINE n == Len(trace)
           more == Append(trace, s)
           r == LoopSeen(s, call, run).run
           c == LoopSeen(s, call, run).call
           one == Len(s.calls) = 1
<1>1. n \in Nat /\ Len(more) = n + 1 /\ (\A i \in 1..n : more[i] = trace[i]) /\ more[n + 1] = s
      BY Appended
<1>2. /\ run \in 0..2 /\ run <= n
      /\ run = 0 => n = 0 \/ Len(trace[n].calls) # 1
      /\ run >= 1 => trace[n].calls = <<call>>
      /\ run = 1 => n = 1 \/ trace[n - 1].calls # <<call>>
      /\ run = 2 => trace[n - 1].calls = <<call>>
      BY DEF LoopRun
<1>3. s.calls \in Seq(LoopCall) /\ \A i \in 1..n : trace[i].calls \in Seq(LoopCall)
  <2>1. \A i \in 1..n : trace[i] \in LoopStep
        OBVIOUS
  <2>2. QED
        BY <2>1 DEF LoopStep
<1>4. /\ ~one => r = 0 /\ c = React!NoCall
      /\ one => c = s.calls[1] /\ s.calls = <<c>>
      /\ one /\ s.calls[1] = call => r = run + 1
      /\ one /\ s.calls[1] # call => r = 1
  <2>1. one => s.calls = <<s.calls[1]>>
        BY <1>3, LoopSingle
  <2>2. QED
        BY <2>1 DEF LoopSeen
<1>5. c \in LoopCall
  <2>1. React!NoCall \in LoopCall
        BY DEF React!NoCall, LoopCall
  <2>2. one => s.calls[1] \in LoopCall
        BY <1>3
  <2>3. QED
        BY <1>4, <2>1, <2>2
<1>6. r \in 0..3
      BY <1>2, <1>4
<1>7. \A d : Len(<<d>>) = 1 /\ <<d>>[1] = d
      OBVIOUS
<1>8. /\ n >= 1 => more[n] = trace[n]
      /\ n >= 2 => more[n - 1] = trace[n - 1]
      BY <1>1
<1>a. r >= 3 <=> (one /\ s.calls[1] = call /\ run = 2)
      BY <1>2, <1>4
<1> HIDE DEF n, more, r, c
<1>9. n >= 2 => (React!SameThrice(more, n - 1) <=>
                     (one /\ trace[n - 1].calls = s.calls /\ trace[n].calls = s.calls))
  <2>1. SUFFICES ASSUME n >= 2 PROVE React!SameThrice(more, n - 1) <=>
                     (one /\ trace[n - 1].calls = s.calls /\ trace[n].calls = s.calls)
        OBVIOUS
  <2>2. (n - 1)..(n - 1) + 2 = {n - 1, n, n + 1}
        BY <1>1
  <2>3. React!SameThrice(more, n - 1) <=>
            \A j \in {n - 1, n, n + 1} : Len(more[j].calls) = 1 /\ more[j].calls = more[n - 1].calls
        BY <2>2 DEF React!SameThrice
  <2>4. more[n] = trace[n] /\ more[n - 1] = trace[n - 1] /\ more[n + 1] = s
        BY <1>1, <1>8, <2>1
  <2>5. QED
        BY <2>3, <2>4
<1>10. r >= 3 <=> (n >= 2 /\ React!SameThrice(more, n - 1))
  <2>1. ASSUME r >= 3 PROVE n >= 2 /\ React!SameThrice(more, n - 1)
    <3>1. n >= 2 /\ one /\ s.calls = <<call>> /\ run = 2
          BY <1>1, <1>2, <1>4, <1>a, <2>1
    <3>2. QED
          BY <1>2, <1>9, <3>1
  <2>2. ASSUME n >= 2, React!SameThrice(more, n - 1) PROVE r >= 3
    <3>1. one /\ trace[n - 1].calls = s.calls /\ trace[n].calls = s.calls
          BY <1>9, <2>2
    <3>2. run # 0
          BY <1>2, <2>2, <3>1
    <3>3. trace[n].calls = <<call>>
          BY <1>2, <3>2
    <3>4. run # 1
          BY <1>2, <2>2, <3>1, <3>3
    <3>5. s.calls[1] = call
          BY <1>7, <3>1, <3>3
    <3>6. QED
          BY <1>2, <1>a, <3>1, <3>2, <3>4, <3>5
  <2>3. QED
        BY <2>1, <2>2
<1>11. r < 3 => LoopRun(more, c, r)
  <2>1. SUFFICES ASSUME r < 3 PROVE LoopRun(more, c, r)
        OBVIOUS
  <2>2. r \in 0..2 /\ r <= n + 1
        BY <1>1, <1>2, <1>4, <1>6, <2>1
  <2>3. r = 0 => Len(s.calls) # 1
        BY <1>2, <1>4
  <2>4. r >= 1 => s.calls = <<c>>
        BY <1>4
  <2>5. r = 1 => n + 1 = 1 \/ trace[n].calls # <<c>>
    <3>1. SUFFICES ASSUME r = 1, n # 0, trace[n].calls = <<c>> PROVE FALSE
          BY <1>1
    <3>2. one
          BY <1>4, <3>1
    <3>3. run = 0
      <4>1. s.calls[1] = call => run = 0
            BY <1>2, <1>4, <3>1, <3>2
      <4>2. run >= 1 => s.calls[1] = call
            BY <1>2, <1>4, <1>7, <3>1, <3>2
      <4>3. QED
            BY <1>2, <4>1, <4>2
    <3>4. Len(trace[n].calls) # 1
          BY <1>2, <3>1, <3>3
    <3>5. QED
          BY <1>7, <3>1, <3>4
  <2>6. r = 2 => trace[n].calls = <<c>> /\ n >= 1
    <3>1. SUFFICES ASSUME r = 2 PROVE trace[n].calls = <<c>> /\ n >= 1
          OBVIOUS
    <3>2. one /\ s.calls[1] = call /\ run = 1
          BY <1>2, <1>4, <3>1
    <3>3. QED
          BY <1>1, <1>2, <1>4, <3>2
  <2>7. /\ (n + 1) - 1 = n
        /\ more[n + 1] = s
        /\ (n # 0 => more[n] = trace[n])
        BY <1>1, <1>8
  <2>8. r = 1 => n + 1 = 1 \/ more[n].calls # <<c>>
        BY <1>1, <2>5, <2>7
  <2>9. r = 2 => more[n].calls = <<c>>
        BY <1>1, <2>6, <2>7
  <2>10. QED
         BY <1>1, <2>2, <2>3, <2>4, <2>7, <2>8, <2>9 DEF LoopRun
<1>12. QED
       BY <1>5, <1>6, <1>10, <1>11 DEF n, more, r, c

LoopFinal(trace, content) == IF content = "" THEN React!FallbackAnswer(trace) ELSE React!Text(content)

LEMMA LoopFinals ==
    ASSUME NEW trace \in Seq(LoopStep), NEW content, content # React!NoResults,
           \A i \in DOMAIN trace : DOMAIN trace[i].observations \subseteq DOMAIN trace[i].calls,
           LoopFinal(trace, content) = React!Text(React!NoResults)
    PROVE  LoopQuiet(trace)
<1>1. LoopFinal(trace, content) = React!FallbackAnswer(trace) \/ LoopFinal(trace, content) = React!Text(content)
      BY DEF LoopFinal
<1>2. ASSUME NEW x, NEW y PROVE React!Text(x)[1].observation = x
      BY DEF React!Text
<1>3. React!Text(content) # React!Text(React!NoResults)
      BY <1>2
<1>4. React!FallbackAnswer(trace) = React!Text(React!NoResults)
      BY <1>1, <1>3
<1>5. QED
      BY <1>4, LoopFallback

LEMMA LoopNoResult == "" # React!NoResults
BY DEF React!NoResults

LEMMA LoopNoStep == React!NoStep \in LoopStep
<1>1. <<>> \in Seq(LoopCall) /\ <<>> \in Seq(LoopObservation)
      OBVIOUS
<1>2. "" \in {a.content : a \in LoopAnswers} \cup {""}
      OBVIOUS
<1> DEFINE A == {a.content : a \in LoopAnswers} \cup {""}
           w == ""
<1>3. React!NoStep = [content |-> w, calls |-> <<>>, observations |-> <<>>]
      BY DEF React!NoStep
<1>4. LoopStep = [content : A, calls : Seq(LoopCall), observations : Seq(LoopObservation)]
      BY DEF LoopStep
<1>5. w \in A
      BY <1>2
<1> HIDE DEF A, w
<1>6. QED
      BY <1>1, <1>3, <1>4, <1>5

\* Only loop l moves.
LoopOthers(l) ==
    \A m \in ToolLoop \ {l} :
        /\ loopStage'[m] = loopStage[m] /\ dialogue'[m] = dialogue[m] /\ steps'[m] = steps[m]
        /\ current'[m] = current[m] /\ last'[m] = last[m] /\ repeats'[m] = repeats[m]
        /\ reason'[m] = reason[m] /\ final'[m] = final[m]

LEMMA LoopMoves ==
    ASSUME LoopInv, NEW l \in ToolLoop, LoopDomains', LoopOthers(l),
           LoopWell(loopStage'[l], dialogue'[l], steps'[l], current'[l], last'[l], repeats'[l],
                    reason'[l], final'[l])
    PROVE  LoopInv'
<1>1. ASSUME NEW m \in ToolLoop
      PROVE  LoopWell(loopStage'[m], dialogue'[m], steps'[m], current'[m], last'[m], repeats'[m],
                      reason'[m], final'[m])
  <2>1. CASE m = l
        BY <2>1
  <2>2. CASE m # l
    <3>1. LoopWell(loopStage[m], dialogue[m], steps[m], current[m], last[m], repeats[m], reason[m], final[m])
          BY DEF LoopInv
    <3>2. QED
          BY <2>2, <3>1 DEF LoopOthers
  <2>3. QED
        BY <2>1, <2>2
<1>2. QED
      BY <1>1 DEF LoopInv

LEMMA LoopInit == ASSUME React!Init PROVE LoopInv
<1>1. React!Init
      OBVIOUS
<1>2. LoopDomains
      BY <1>1 DEF React!Init, LoopDomains
<1>3. ASSUME NEW l \in ToolLoop
      PROVE  /\ loopStage[l] = "new" /\ dialogue[l] = <<>> /\ steps[l] = <<>> /\ current[l] = React!NoStep
             /\ last[l] = React!NoCall /\ repeats[l] = 0 /\ reason[l] = "-" /\ final[l] = <<>>
      BY <1>1 DEF React!Init
<1> DEFINE e == <<>>
<1>4. e \in Seq(LoopMessage) /\ e \in Seq(LoopStep) /\ Len(e) = 0 /\ DOMAIN e = {}
      OBVIOUS
<1>5. MaxIterations \in Nat \ {0}
      BY LoopAssumption
<1>6. LoopTold(e) = e
  <2> DEFINE f == [i \in DOMAIN e |-> LoopWhole(e[i].calls)]
  <2>1. f = e /\ Len(f) = 0
        BY <1>4
  <2>2. LoopTold(e) = React!FlattenSeq(f)
        BY DEF LoopTold
  <2> HIDE DEF f, e
  <2>3. React!FlattenSeq(f) = f
        BY <2>1 DEF React!FlattenSeq
  <2>4. QED
        BY <2>1, <2>2, <2>3
<1>7. LoopEnds(e, "-")
      BY <1>4, <1>5 DEF LoopEnds
<1>8. LoopRun(e, React!NoCall, 0)
      BY <1>4 DEF LoopRun
<1>9. React!NoCall \in LoopCall
      BY DEF React!NoCall, LoopCall
<1>10. LoopWell("new", e, e, React!NoStep, React!NoCall, 0, "-", e)
  <2> HIDE DEF e
  <2>1. QED
        BY <1>4, <1>5, <1>6, <1>7, <1>8, <1>9, LoopNoStep DEF LoopWell
<1>11. QED
       BY <1>2, <1>3, <1>10 DEF LoopInv

\* What a state of a loop looks like to the lemmas.
LoopHas(l) ==
    LoopWell(loopStage[l], dialogue[l], steps[l], current[l], last[l], repeats[l], reason[l], final[l])

LEMMA LoopRegister == ASSUME LoopInv, React!RegisterMcpTools PROVE LoopInv'
<1>1. UNCHANGED <<loopStage, toolLists, dialogue, steps, current, last, repeats, reason, final>>
      BY DEF React!RegisterMcpTools
<1>2. LoopDomains' <=> LoopDomains
      BY <1>1 DEF LoopDomains
<1>3. \A l \in ToolLoop : LoopHas(l)' <=> LoopHas(l)
      BY <1>1 DEF LoopHas
<1>4. LoopInv' <=> LoopInv
      BY <1>2, <1>3 DEF LoopInv, LoopHas
<1>5. QED
      BY <1>4

LEMMA LoopBegin == ASSUME LoopInv, NEW l \in ToolLoop, React!Begin(l) PROVE LoopInv'
<1>1. /\ loopStage[l] = "new" /\ loopStage' = [loopStage EXCEPT ![l] = "ask"]
      /\ UNCHANGED <<dialogue, steps, current, last, repeats, reason, final>>
      BY DEF React!Begin, React!Goto
<1>2. LoopDomains /\ LoopHas(l)
      BY DEF LoopInv, LoopHas
<1>3. LoopDomains' /\ LoopOthers(l) /\ loopStage'[l] = "ask"
      BY <1>1, <1>2 DEF LoopDomains, LoopOthers
<1>4. LoopWell("ask", dialogue[l], steps[l], current[l], last[l], repeats[l], reason[l], final[l])
      BY <1>1, <1>2 DEF LoopHas, LoopWell
<1>5. LoopWell(loopStage'[l], dialogue'[l], steps'[l], current'[l], last'[l], repeats'[l], reason'[l], final'[l])
      BY <1>1, <1>3, <1>4
<1>6. QED
      BY <1>3, <1>5, LoopMoves

(* A step whose calls are all executed is told in full.                      *)
LEMMA LoopTypes ==
    ASSUME LoopInv, NEW l \in ToolLoop
    PROVE  /\ LoopDomains /\ LoopHas(l)
           /\ dialogue[l] \in Seq(LoopMessage) /\ steps[l] \in Seq(LoopStep) /\ current[l] \in LoopStep
           /\ last[l] \in LoopCall
           /\ \A i \in DOMAIN steps[l] : DOMAIN steps[l][i].observations \subseteq DOMAIN steps[l][i].calls
BY DEF LoopInv, LoopHas, LoopWell

LEMMA LoopTraced ==
    ASSUME NEW trace \in Seq(LoopStep), NEW s \in LoopStep,
           \A i \in DOMAIN trace : DOMAIN trace[i].observations \subseteq DOMAIN trace[i].calls,
           DOMAIN s.observations \subseteq DOMAIN s.calls
    PROVE  /\ Append(trace, s) \in Seq(LoopStep)
           /\ Len(Append(trace, s)) = Len(trace) + 1
           /\ \A i \in DOMAIN Append(trace, s) :
                  DOMAIN Append(trace, s)[i].observations \subseteq DOMAIN Append(trace, s)[i].calls
<1> DEFINE n == Len(trace)
           more == Append(trace, s)
<1>1. /\ more \in Seq(LoopStep) /\ Len(more) = n + 1 /\ n \in Nat /\ DOMAIN trace = 1..n
      /\ DOMAIN more = 1..n + 1 /\ (\A i \in 1..n : more[i] = trace[i]) /\ more[n + 1] = s
      BY Appended
<1> HIDE DEF n, more
<1>2. \A i \in 1..n + 1 : i \in 1..n \/ i = n + 1
      BY <1>1
<1>3. \A i \in DOMAIN more : DOMAIN more[i].observations \subseteq DOMAIN more[i].calls
      BY <1>1, <1>2
<1>4. QED
      BY <1>1, <1>3 DEF n, more

LEMMA LoopConcludes ==
    ASSUME NEW l \in ToolLoop, LoopDomains, NEW trace, NEW why, NEW content, React!Conclude(l, trace, why, content)
    PROVE  /\ loopStage' = [loopStage EXCEPT ![l] = "done"] /\ steps' = [steps EXCEPT ![l] = trace]
           /\ reason' = [reason EXCEPT ![l] = why]
           /\ final' = [final EXCEPT ![l] = LoopFinal(trace, content)]
<1>1. React!Goto(l, "done") /\ steps' = [steps EXCEPT ![l] = trace] /\ reason' = [reason EXCEPT ![l] = why]
      BY Zenon DEF React!Conclude
<1>2. final' = [final EXCEPT ![l] = IF content = "" THEN React!FallbackAnswer(trace) ELSE React!Text(content)]
      BY Zenon DEF React!Conclude
<1>3. LoopFinal(trace, content) = IF content = "" THEN React!FallbackAnswer(trace) ELSE React!Text(content)
      BY Zenon DEF LoopFinal
<1>4. final' = [final EXCEPT ![l] = LoopFinal(trace, content)]
      BY <1>2, <1>3, Zenon
<1>5. QED
      BY <1>1, <1>4, Zenon DEF React!Goto

LEMMA LoopEnded ==
    ASSUME NEW trace \in Seq(LoopStep), NEW why, NEW content, content # React!NoResults,
           NEW msgs \in Seq(LoopMessage), NEW cur \in LoopStep, NEW call \in LoopCall, NEW run,
           \A i \in DOMAIN trace : DOMAIN trace[i].observations \subseteq DOMAIN trace[i].calls,
           LoopEnds(trace, why)
    PROVE  LoopWell("done", msgs, trace, cur, call, run, why, LoopFinal(trace, content))
<1>1. LoopFinal(trace, content) = React!Text(React!NoResults) => LoopQuiet(trace)
      BY LoopFinals
<1>2. QED
      BY <1>1 DEF LoopWell

\* The whole record of an answer, as a step.
LoopAsked(a) == [content |-> a.content, calls |-> a.calls, observations |-> <<>>]

LEMMA LoopAnswer ==
    ASSUME NEW a \in LoopAnswers
    PROVE  /\ LoopAsked(a) \in LoopStep /\ a.calls \in Seq(LoopCall)
           /\ LoopAsked(a).calls = a.calls /\ LoopAsked(a).observations = <<>>
           /\ a.content # React!NoResults
<1>1. a.calls \in Seq([tool : STRING, args : Nat]) /\ a.content # React!NoResults
      BY LoopAssumption
<1>2. a.calls \in Seq(LoopCall)
  <2> DEFINE R == [tool : STRING, args : Nat]
             c == a.calls
  <2>1. \A x \in R : x \in LoopCall
        BY DEF LoopCall
  <2>2. c \in Seq(R)
        BY <1>1
  <2> HIDE DEF R, c
  <2>3. c \in Seq(LoopCall)
        BY <2>1, <2>2
  <2>4. QED
        BY <2>3 DEF c
<1>3. <<>> \in Seq(LoopObservation)
      OBVIOUS
<1> DEFINE C == {x.content : x \in LoopAnswers}
           A == C \cup {""}
<1>4. a.content \in C
      OBVIOUS
<1> HIDE DEF C
<1>a. a.content \in A
      BY <1>4, Zenon
<1>b. LoopStep = [content : A, calls : Seq(LoopCall), observations : Seq(LoopObservation)]
      BY Zenon DEF LoopStep, C
<1>5. LoopStep = [content : A, calls : Seq(LoopCall), observations : Seq(LoopObservation)] /\ a.content \in A
      BY <1>a, <1>b, Zenon
<1> HIDE DEF A
<1>6. QED
      BY <1>1, <1>2, <1>3, <1>5 DEF LoopAsked

LEMMA LoopFinished ==
    ASSUME LoopInv, NEW l \in ToolLoop, loopStage[l] = "ask", NEW a \in LoopAnswers, a.calls = <<>>,
           React!Conclude(l, Append(steps[l], LoopAsked(a)), "final_answer", a.content),
           UNCHANGED <<dialogue, current, last, repeats>>
    PROVE  LoopInv'
<1> DEFINE s == LoopAsked(a)
           trace == steps[l]
           more == Append(trace, s)
           seen == LoopSeen(s, last[l], repeats[l])
<1>1. LoopDomains /\ LoopHas(l)
      /\ dialogue[l] \in Seq(LoopMessage) /\ trace \in Seq(LoopStep) /\ current[l] \in LoopStep
      /\ last[l] \in LoopCall
      /\ \A i \in DOMAIN trace : DOMAIN trace[i].observations \subseteq DOMAIN trace[i].calls
      BY LoopTypes
<1>2. s \in LoopStep /\ s.calls = <<>> /\ s.observations = <<>> /\ a.content # React!NoResults
      BY LoopAnswer
<1>3. Len(trace) < MaxIterations /\ reason[l] = "-" /\ LoopRun(trace, last[l], repeats[l]) /\ LoopEnds(trace, "-")
      BY <1>1 DEF LoopHas, LoopWell
<1>4. /\ loopStage' = [loopStage EXCEPT ![l] = "done"] /\ steps' = [steps EXCEPT ![l] = more]
      /\ reason' = [reason EXCEPT ![l] = "final_answer"]
      /\ final' = [final EXCEPT ![l] = LoopFinal(more, a.content)]
  <2> HIDE DEF more
  <2>1. LoopDomains /\ React!Conclude(l, more, "final_answer", a.content)
        BY <1>1 DEF more
  <2>2. QED
        BY <2>1, LoopConcludes
<1>5. Len(s.calls) # 1
      BY <1>2
<1> HIDE DEF s
<1>6. seen.run = 0
      BY <1>5 DEF LoopSeen
<1>7. ~(Len(trace) >= 2 /\ React!SameThrice(more, Len(trace) - 1))
  <2>1. (seen.run >= 3) <=> (Len(trace) >= 2 /\ React!SameThrice(more, Len(trace) - 1))
        BY <1>1, <1>2, <1>3, LoopRuns
  <2>2. QED
        BY <1>6, <2>1
<1>8. LoopEnds(more, "final_answer")
      BY <1>1, <1>2, <1>3, <1>7, LoopEndsMore
<1>9. DOMAIN s.observations \subseteq DOMAIN s.calls
      BY <1>2
<1>10. more \in Seq(LoopStep) /\ \A i \in DOMAIN more : DOMAIN more[i].observations \subseteq DOMAIN more[i].calls
      BY <1>1, <1>2, <1>9, LoopTraced
<1> HIDE DEF more, trace
<1>11. LoopWell("done", dialogue[l], more, current[l], last[l], repeats[l], "final_answer", LoopFinal(more, a.content))
      BY <1>1, <1>2, <1>8, <1>10, LoopEnded
<1>12. LoopDomains' /\ LoopOthers(l)
      BY <1>1, <1>4 DEF LoopDomains, LoopOthers
<1>13. /\ loopStage'[l] = "done" /\ steps'[l] = more /\ reason'[l] = "final_answer"
       /\ final'[l] = LoopFinal(more, a.content)
      BY <1>1, <1>4 DEF LoopDomains
<1>14. LoopWell(loopStage'[l], dialogue'[l], steps'[l], current'[l], last'[l], repeats'[l], reason'[l], final'[l])
      BY <1>11, <1>13
<1>15. QED
      BY <1>12, <1>14, LoopMoves

LEMMA LoopCalls ==
    ASSUME LoopInv, NEW l \in ToolLoop, loopStage[l] = "ask", NEW a \in LoopAnswers,
           dialogue' = [dialogue EXCEPT ![l] = Append(@, [role |-> "assistant", calls |-> a.calls])],
           current' = [current EXCEPT ![l] = LoopAsked(a)],
           loopStage' = [loopStage EXCEPT ![l] = "tools"],
           UNCHANGED <<steps, reason, final, last, repeats>>
    PROVE  LoopInv'
<1> DEFINE s == LoopAsked(a)
           e == [role |-> "assistant", calls |-> a.calls]
           trace == steps[l]
           told == LoopTold(trace)
           msgs == Append(told, e)
<1>1. LoopDomains /\ LoopHas(l)
      /\ dialogue[l] \in Seq(LoopMessage) /\ trace \in Seq(LoopStep) /\ current[l] \in LoopStep
      /\ last[l] \in LoopCall
      /\ \A i \in DOMAIN trace : DOMAIN trace[i].observations \subseteq DOMAIN trace[i].calls
      BY LoopTypes
<1>2. s \in LoopStep /\ s.calls = a.calls /\ s.observations = <<>> /\ a.calls \in Seq(LoopCall)
      BY LoopAnswer
<1>3. /\ Len(trace) < MaxIterations /\ reason[l] = "-" /\ LoopRun(trace, last[l], repeats[l])
      /\ LoopEnds(trace, reason[l]) /\ dialogue[l] = told
      BY <1>1 DEF LoopHas, LoopWell
<1>4. LoopDomains' /\ LoopOthers(l)
      BY <1>1 DEF LoopDomains, LoopOthers
<1>5. dialogue'[l] = msgs /\ current'[l] = s /\ loopStage'[l] = "tools"
  <2>1. dialogue'[l] = Append(dialogue[l], e)
        BY <1>1 DEF LoopDomains
  <2>2. QED
        BY <1>1, <1>3, <2>1 DEF LoopDomains
<1>6. e \in LoopMessage
      BY <1>2 DEF LoopMessage
<1>7. Len(s.observations) = 0 /\ Len(s.calls) \in Nat
      BY <1>2
<1>8. LoopPart(s.calls, 0) = <<e>>
  <2>1. 0 \in Nat /\ 0 <= Len(a.calls)
        BY <1>2
  <2>2. QED
        BY <1>2, <2>1, LoopMessages
<1> HIDE DEF s, e, told, trace
<1>9. msgs = told \o <<e>> /\ msgs \in Seq(LoopMessage)
      BY <1>1, <1>3, <1>6, AppendIsConcat
<1> HIDE DEF msgs
<1>10. msgs = LoopTold(trace) \o LoopPart(s.calls, Len(s.observations))
      BY <1>7, <1>8, <1>9 DEF told
<1>11. LoopWell("tools", msgs, trace, s, last[l], repeats[l], reason[l], final[l])
      BY <1>1, <1>2, <1>3, <1>7, <1>9, <1>10 DEF LoopWell
<1>12. LoopWell(loopStage'[l], dialogue'[l], steps'[l], current'[l], last'[l], repeats'[l], reason'[l], final'[l])
      BY <1>5, <1>11 DEF trace
<1>13. QED
      BY <1>4, <1>12, LoopMoves

LEMMA LoopRaised ==
    ASSUME LoopInv, NEW l \in ToolLoop, loopStage[l] = "ask",
           loopStage' = [loopStage EXCEPT ![l] = "raised"],
           UNCHANGED <<dialogue, steps, current, reason, final, last, repeats>>
    PROVE  LoopInv'
<1>1. LoopDomains /\ LoopHas(l)
      BY LoopTypes
<1>2. LoopDomains' /\ LoopOthers(l) /\ loopStage'[l] = "raised"
      BY <1>1 DEF LoopDomains, LoopOthers
<1>3. LoopWell("raised", dialogue[l], steps[l], current[l], last[l], repeats[l], reason[l], final[l])
      BY <1>1 DEF LoopHas, LoopWell
<1>4. LoopWell(loopStage'[l], dialogue'[l], steps'[l], current'[l], last'[l], repeats'[l], reason'[l], final'[l])
      BY <1>2, <1>3
<1>5. QED
      BY <1>2, <1>4, LoopMoves

LEMMA LoopAsk == ASSUME LoopInv, NEW l \in ToolLoop, React!Ask(l) PROVE LoopInv'
<1>1. loopStage[l] = "ask" /\ UNCHANGED <<last, repeats>>
      BY Zenon DEF React!Ask
<1>2. \/ \E a \in LoopAnswers :
             IF a.calls = <<>>
             THEN /\ React!Conclude(l, Append(steps[l], LoopAsked(a)), "final_answer", a.content)
                  /\ UNCHANGED <<dialogue, current>>
             ELSE /\ dialogue' = [dialogue EXCEPT ![l] = Append(@, [role |-> "assistant", calls |-> a.calls])]
                  /\ current' = [current EXCEPT ![l] = LoopAsked(a)]
                  /\ React!Goto(l, "tools")
                  /\ UNCHANGED <<steps, reason, final>>
      \/ React!Goto(l, "raised") /\ UNCHANGED <<dialogue, steps, current, reason, final>>
      BY Zenon DEF React!Ask, LoopAsked
<1>3. CASE React!Goto(l, "raised") /\ UNCHANGED <<dialogue, steps, current, reason, final>>
      BY <1>1, <1>3, LoopRaised DEF React!Goto
<1>4. ASSUME NEW a \in LoopAnswers, a.calls = <<>>, UNCHANGED <<dialogue, current>>,
             React!Conclude(l, Append(steps[l], LoopAsked(a)), "final_answer", a.content)
      PROVE  LoopInv'
      BY <1>1, <1>4, LoopFinished
<1>5. ASSUME NEW a \in LoopAnswers, React!Goto(l, "tools"), UNCHANGED <<steps, reason, final>>,
             dialogue' = [dialogue EXCEPT ![l] = Append(@, [role |-> "assistant", calls |-> a.calls])],
             current' = [current EXCEPT ![l] = LoopAsked(a)]
      PROVE  LoopInv'
      BY <1>1, <1>5, LoopCalls DEF React!Goto
<1>6. QED
      BY <1>2, <1>3, <1>4, <1>5

LEMMA LoopObserved ==
    ASSUME NEW s \in LoopStep, NEW o \in LoopObservation
    PROVE  LET t == [s EXCEPT !.observations = Append(@, o)]
           IN  /\ t \in LoopStep /\ t.calls = s.calls /\ Len(t.observations) = Len(s.observations) + 1
               /\ Len(s.observations) \in Nat /\ s.calls \in Seq(LoopCall)
<1> DEFINE A == {a.content : a \in LoopAnswers} \cup {""}
           obs == Append(s.observations, o)
           t == [s EXCEPT !.observations = obs]
<1>1. LoopStep = [content : A, calls : Seq(LoopCall), observations : Seq(LoopObservation)]
      BY Zenon DEF LoopStep
<1> HIDE DEF A
<1>2. s.observations \in Seq(LoopObservation) /\ s.calls \in Seq(LoopCall)
      BY <1>1
<1>3. obs \in Seq(LoopObservation) /\ Len(obs) = Len(s.observations) + 1 /\ Len(s.observations) \in Nat
      BY <1>2, Appended
<1> HIDE DEF obs
<1>4. t \in LoopStep /\ t.calls = s.calls /\ t.observations = obs
      BY <1>1, <1>3
<1>5. QED
      BY <1>2, <1>3, <1>4 DEF obs

LEMMA LoopExecute == ASSUME LoopInv, NEW l \in ToolLoop, React!ExecuteTool(l) PROVE LoopInv'
<1> DEFINE s == current[l]
           n == Len(s.observations)
           trace == steps[l]
           told == LoopTold(trace)
           e == LoopTool(s.calls, n + 1)
           msgs == Append(dialogue[l], e)
<1>1. LoopDomains /\ LoopHas(l)
      /\ dialogue[l] \in Seq(LoopMessage) /\ trace \in Seq(LoopStep) /\ s \in LoopStep
      /\ last[l] \in LoopCall
      /\ \A i \in DOMAIN trace : DOMAIN trace[i].observations \subseteq DOMAIN trace[i].calls
      BY LoopTypes
<1>2. PICK o \in React!Observations(s.calls[n + 1].tool) :
          /\ loopStage[l] = "tools" /\ n + 1 <= Len(s.calls)
          /\ current' = [current EXCEPT ![l].observations = Append(@, o)]
          /\ dialogue' = [dialogue EXCEPT ![l] = Append(@, [role |-> "tool", call |-> s.calls[n + 1]])]
          /\ UNCHANGED <<loopStage, steps, last, repeats, reason, final>>
      BY Zenon DEF React!ExecuteTool
<1>3. o \in LoopObservation
      BY Zenon DEF React!Observations, LoopObservation
<1> DEFINE t == [s EXCEPT !.observations = Append(@, o)]
<1>4. /\ t \in LoopStep /\ t.calls = s.calls /\ Len(t.observations) = n + 1
      /\ n \in Nat /\ s.calls \in Seq(LoopCall)
      BY <1>1, <1>3, LoopObserved
<1>5. LoopDomains' /\ LoopOthers(l)
      BY <1>1, <1>2 DEF LoopDomains, LoopOthers
<1>6. current'[l] = t /\ dialogue'[l] = msgs /\ loopStage'[l] = "tools"
      BY <1>1, <1>2 DEF LoopDomains, LoopTool
<1>7. /\ Len(trace) < MaxIterations /\ reason[l] = "-" /\ LoopRun(trace, last[l], repeats[l])
      /\ LoopEnds(trace, reason[l]) /\ dialogue[l] = told \o LoopPart(s.calls, n)
      BY <1>1, <1>2 DEF LoopHas, LoopWell
<1>a. told \in Seq(LoopMessage)
      BY <1>1, <1>4, LoopToldMore
<1>8. /\ e \in LoopMessage /\ LoopPart(s.calls, n + 1) = Append(LoopPart(s.calls, n), e)
      /\ LoopPart(s.calls, n) \in Seq(LoopMessage)
  <2>1. n <= Len(s.calls)
        BY <1>2, <1>4
  <2>2. QED
        BY <1>2, <1>4, <2>1, LoopTools, LoopMessage1, LoopMessages
<1> HIDE DEF t, e, told, n
<1>9. told \o LoopPart(s.calls, n + 1) = msgs /\ msgs \in Seq(LoopMessage)
  <2> DEFINE p == LoopPart(s.calls, n)
  <2>1. p \in Seq(LoopMessage) /\ dialogue[l] = told \o p
        BY <1>7, <1>8
  <2> HIDE DEF p
  <2>2. told \o Append(p, e) = Append(told \o p, e)
        BY <1>8, <1>a, <2>1, AppendedToBoth
  <2>3. msgs \in Seq(LoopMessage)
        BY <1>1, <1>8
  <2>4. QED
        BY <1>8, <2>1, <2>2, <2>3 DEF p
<1> HIDE DEF msgs, trace
<1>b. n + 1 <= Len(t.calls)
      BY <1>2, <1>4
<1>10. msgs = LoopTold(trace) \o LoopPart(t.calls, Len(t.observations))
      BY <1>4, <1>9 DEF told
<1>11. Len(t.observations) <= Len(t.calls)
      BY <1>4, <1>b
<1>12. msgs \in Seq(LoopMessage) /\ t \in LoopStep
      BY <1>4, <1>9
<1>13. LoopWell("tools", msgs, trace, t, last[l], repeats[l], reason[l], final[l])
      BY <1>1, <1>7, <1>10, <1>11, <1>12 DEF LoopWell
<1>14. LoopWell(loopStage'[l], dialogue'[l], steps'[l], current'[l], last'[l], repeats'[l], reason'[l], final'[l])
      BY <1>2, <1>6, <1>13 DEF trace
<1>15. QED
      BY <1>5, <1>14, LoopMoves

LoopBlank == ""

\* What the end of a step finds.
LoopStepped(l) ==
    /\ LoopInv /\ loopStage[l] = "tools" /\ Len(current[l].observations) = Len(current[l].calls)
    /\ last' = [last EXCEPT ![l] = LoopSeen(current[l], last[l], repeats[l]).call]
    /\ repeats' = [repeats EXCEPT ![l] = LoopSeen(current[l], last[l], repeats[l]).run]
    /\ current' = [current EXCEPT ![l] = React!NoStep]
    /\ UNCHANGED dialogue

LEMMA LoopEndIs ==
    ASSUME LoopInv, NEW l \in ToolLoop, React!EndStep(l)
    PROVE  /\ LoopStepped(l)
           /\ LET more == Append(steps[l], current[l])
                  run == LoopSeen(current[l], last[l], repeats[l]).run
              IN  \/ run >= 3 /\ React!Conclude(l, more, "repetitive_tool_loop", LoopBlank)
                  \/ /\ ~(run >= 3) /\ Len(more) >= MaxIterations
                     /\ React!Conclude(l, more, "max_iterations", LoopBlank)
                  \/ /\ ~(run >= 3) /\ ~(Len(more) >= MaxIterations)
                     /\ steps' = [steps EXCEPT ![l] = more] /\ React!Goto(l, "ask")
                     /\ UNCHANGED <<reason, final>>
<1>1. React!Repeated(l) = LoopSeen(current[l], last[l], repeats[l])
      BY DEF React!Repeated, LoopSeen
<1>2. /\ loopStage[l] = "tools" /\ Len(current[l].observations) = Len(current[l].calls)
      /\ last' = [last EXCEPT ![l] = React!Repeated(l).call]
      /\ repeats' = [repeats EXCEPT ![l] = React!Repeated(l).run]
      /\ current' = [current EXCEPT ![l] = React!NoStep]
      /\ UNCHANGED dialogue
      BY Zenon DEF React!EndStep
<1>3. LET more == Append(steps[l], current[l])
          run == React!Repeated(l).run
      IN  \/ run >= 3 /\ React!Conclude(l, more, "repetitive_tool_loop", LoopBlank)
          \/ /\ ~(run >= 3) /\ Len(more) >= MaxIterations
             /\ React!Conclude(l, more, "max_iterations", LoopBlank)
          \/ /\ ~(run >= 3) /\ ~(Len(more) >= MaxIterations)
             /\ steps' = [steps EXCEPT ![l] = more] /\ React!Goto(l, "ask")
             /\ UNCHANGED <<reason, final>>
      BY Zenon DEF React!EndStep, LoopBlank
<1>4. LoopStepped(l)
      BY <1>1, <1>2, Zenon DEF LoopStepped
<1>5. QED
      BY <1>1, <1>3, <1>4, Zenon

LEMMA LoopStepFacts ==
    ASSUME NEW l \in ToolLoop, LoopStepped(l)
    PROVE  LET s == current[l]
               trace == steps[l]
               more == Append(trace, s)
               seen == LoopSeen(s, last[l], repeats[l])
               three == Len(trace) >= 2 /\ React!SameThrice(more, Len(trace) - 1)
           IN  /\ Len(trace) \in Nat /\ Len(trace) < MaxIterations /\ reason[l] = "-"
               /\ LoopEnds(trace, "-") /\ trace \in Seq(LoopStep) /\ s \in LoopStep
               /\ dialogue[l] \in Seq(LoopMessage)
               /\ more \in Seq(LoopStep)
               /\ \A i \in DOMAIN more : DOMAIN more[i].observations \subseteq DOMAIN more[i].calls
               /\ Len(more) = Len(trace) + 1 /\ LoopTold(more) = dialogue[l]
               /\ seen.run \in 0..3
               /\ seen.run >= 3 <=> three
               /\ seen.run < 3 => LoopRun(more, seen.call, seen.run)
               /\ seen.call \in LoopCall
<1> DEFINE s == current[l]
           trace == steps[l]
           more == Append(trace, s)
           seen == LoopSeen(s, last[l], repeats[l])
           three == Len(trace) >= 2 /\ React!SameThrice(more, Len(trace) - 1)
<1>1. LoopDomains /\ LoopHas(l)
      /\ dialogue[l] \in Seq(LoopMessage) /\ trace \in Seq(LoopStep) /\ s \in LoopStep
      /\ last[l] \in LoopCall
      /\ \A i \in DOMAIN trace : DOMAIN trace[i].observations \subseteq DOMAIN trace[i].calls
      BY LoopTypes DEF LoopStepped
<1>2. loopStage[l] = "tools" /\ Len(s.observations) = Len(s.calls)
      BY DEF LoopStepped
<1>4. s.calls \in Seq(LoopCall) /\ s.observations \in Seq(LoopObservation)
  <2> DEFINE A == {a.content : a \in LoopAnswers} \cup {""}
  <2>1. LoopStep = [content : A, calls : Seq(LoopCall), observations : Seq(LoopObservation)]
        BY Zenon DEF LoopStep
  <2> HIDE DEF A
  <2>2. QED
        BY <1>1, <2>1
<1>5. /\ Len(trace) < MaxIterations /\ reason[l] = "-" /\ LoopRun(trace, last[l], repeats[l])
      /\ LoopEnds(trace, "-") /\ dialogue[l] = LoopTold(trace) \o LoopPart(s.calls, Len(s.observations))
      BY <1>1, <1>2 DEF LoopHas, LoopWell
<1>6. DOMAIN s.observations \subseteq DOMAIN s.calls /\ Len(s.calls) \in Nat
      BY <1>2, <1>4
<1>7. more \in Seq(LoopStep) /\ (\A i \in DOMAIN more : DOMAIN more[i].observations \subseteq DOMAIN more[i].calls)
      /\ Len(more) = Len(trace) + 1
      BY <1>1, <1>6, LoopTraced
<1>8. LoopTold(more) = dialogue[l]
  <2>1. LoopPart(s.calls, Len(s.observations)) = LoopWhole(s.calls)
    <3>1. Len(s.calls) \in Nat /\ Len(s.calls) <= Len(s.calls)
          BY <1>6
    <3>2. LoopPart(s.calls, Len(s.calls)) = LoopWhole(s.calls)
          BY <1>4, <3>1, LoopMessages
    <3>3. QED
          BY <1>2, <3>2
  <2>2. LoopTold(more) = LoopTold(trace) \o LoopWhole(s.calls)
        BY <1>1, LoopToldMore
  <2>3. QED
        BY <1>5, <2>1, <2>2
<1>9. /\ seen.run \in 0..3
      /\ seen.run >= 3 <=> three
      /\ seen.run < 3 => LoopRun(more, seen.call, seen.run)
      /\ seen.call \in LoopCall
      BY <1>1, <1>5, LoopRuns
<1>10. Len(trace) \in Nat
      BY <1>1
<1> HIDE DEF more, seen, three, trace
<1>11. QED
       BY <1>1, <1>5, <1>7, <1>8, <1>9, <1>10 DEF more, seen, three, trace

LEMMA LoopStepEnded ==
    ASSUME NEW l \in ToolLoop, LoopStepped(l), NEW why, LoopEnds(Append(steps[l], current[l]), why),
           React!Conclude(l, Append(steps[l], current[l]), why, LoopBlank)
    PROVE  LoopInv'
<1> DEFINE more == Append(steps[l], current[l])
           call == LoopSeen(current[l], last[l], repeats[l]).call
           run == LoopSeen(current[l], last[l], repeats[l]).run
<1>1. /\ dialogue[l] \in Seq(LoopMessage) /\ more \in Seq(LoopStep) /\ call \in LoopCall
      /\ \A i \in DOMAIN more : DOMAIN more[i].observations \subseteq DOMAIN more[i].calls
      BY LoopStepFacts
<1>2. LoopDomains
      BY DEF LoopStepped, LoopInv
<1>3. /\ last' = [last EXCEPT ![l] = call] /\ repeats' = [repeats EXCEPT ![l] = run]
      /\ current' = [current EXCEPT ![l] = React!NoStep] /\ UNCHANGED dialogue
      BY DEF LoopStepped
<1>4. LoopEnds(more, why) /\ React!Conclude(l, more, why, LoopBlank)
      OBVIOUS
<1> HIDE DEF more, call, run
<1>5. /\ loopStage' = [loopStage EXCEPT ![l] = "done"] /\ steps' = [steps EXCEPT ![l] = more]
      /\ reason' = [reason EXCEPT ![l] = why]
      /\ final' = [final EXCEPT ![l] = LoopFinal(more, LoopBlank)]
      BY <1>2, <1>4, LoopConcludes
<1>6. LoopDomains' /\ LoopOthers(l)
      BY <1>2, <1>3, <1>5 DEF LoopDomains, LoopOthers
<1>7. LoopBlank # React!NoResults
      BY LoopNoResult, Zenon DEF LoopBlank
<1>8. LoopWell("done", dialogue[l], more, React!NoStep, call, run, why, LoopFinal(more, LoopBlank))
      BY <1>1, <1>4, <1>7, LoopEnded, LoopNoStep
<1>9. /\ loopStage'[l] = "done" /\ dialogue'[l] = dialogue[l] /\ steps'[l] = more /\ current'[l] = React!NoStep
      /\ last'[l] = call /\ repeats'[l] = run /\ reason'[l] = why /\ final'[l] = LoopFinal(more, LoopBlank)
      BY <1>2, <1>3, <1>5 DEF LoopDomains
<1>10. LoopWell(loopStage'[l], dialogue'[l], steps'[l], current'[l], last'[l], repeats'[l], reason'[l], final'[l])
       BY <1>8, <1>9
<1>11. LoopInv
       BY DEF LoopStepped
<1>12. QED
       BY <1>6, <1>10, <1>11, LoopMoves

LEMMA LoopStepGoesOn ==
    ASSUME NEW l \in ToolLoop, LoopStepped(l), LoopEnds(Append(steps[l], current[l]), "-"),
           ~(LoopSeen(current[l], last[l], repeats[l]).run >= 3),
           ~(Len(Append(steps[l], current[l])) >= MaxIterations),
           steps' = [steps EXCEPT ![l] = Append(steps[l], current[l])], React!Goto(l, "ask"),
           UNCHANGED <<reason, final>>
    PROVE  LoopInv'
<1> DEFINE more == Append(steps[l], current[l])
           call == LoopSeen(current[l], last[l], repeats[l]).call
           run == LoopSeen(current[l], last[l], repeats[l]).run
<1>1. /\ dialogue[l] \in Seq(LoopMessage) /\ more \in Seq(LoopStep) /\ call \in LoopCall
      /\ \A i \in DOMAIN more : DOMAIN more[i].observations \subseteq DOMAIN more[i].calls
      /\ LoopTold(more) = dialogue[l] /\ reason[l] = "-"
      /\ run \in 0..3
      /\ run < 3 => LoopRun(more, call, run)
      BY LoopStepFacts
<1>2. LoopDomains
      BY DEF LoopStepped, LoopInv
<1>3. /\ last' = [last EXCEPT ![l] = call] /\ repeats' = [repeats EXCEPT ![l] = run]
      /\ current' = [current EXCEPT ![l] = React!NoStep] /\ UNCHANGED dialogue
      BY DEF LoopStepped
<1>4. /\ LoopEnds(more, "-") /\ ~(run >= 3) /\ ~(Len(more) >= MaxIterations)
      /\ steps' = [steps EXCEPT ![l] = more]
      /\ loopStage' = [loopStage EXCEPT ![l] = "ask"]
      BY DEF React!Goto
<1>a. Len(more) \in Nat /\ MaxIterations \in Nat
      BY <1>1, LoopAssumption
<1> HIDE DEF more, call, run
<1>5. LoopDomains' /\ LoopOthers(l)
      BY <1>2, <1>3, <1>4 DEF LoopDomains, LoopOthers
<1>6. Len(more) < MaxIterations /\ LoopRun(more, call, run)
      BY <1>1, <1>4, <1>a
<1>8. LoopWell("ask", dialogue[l], more, React!NoStep, call, run, reason[l], final[l])
      BY <1>1, <1>4, <1>6, LoopNoStep DEF LoopWell
<1>9. /\ loopStage'[l] = "ask" /\ dialogue'[l] = dialogue[l] /\ steps'[l] = more /\ current'[l] = React!NoStep
      /\ last'[l] = call /\ repeats'[l] = run /\ reason'[l] = reason[l] /\ final'[l] = final[l]
      BY <1>2, <1>3, <1>4 DEF LoopDomains
<1>10. LoopWell(loopStage'[l], dialogue'[l], steps'[l], current'[l], last'[l], repeats'[l], reason'[l], final'[l])
       BY <1>8, <1>9
<1>11. LoopInv
       BY DEF LoopStepped
<1>12. QED
       BY <1>5, <1>10, <1>11, LoopMoves

LEMMA LoopEndStep == ASSUME LoopInv, NEW l \in ToolLoop, React!EndStep(l) PROVE LoopInv'
<1> DEFINE trace == steps[l]
           s == current[l]
           more == Append(trace, s)
           run == LoopSeen(s, last[l], repeats[l]).run
           three == Len(trace) >= 2 /\ React!SameThrice(more, Len(trace) - 1)
<1>1. LoopStepped(l)
      BY LoopEndIs
<1>2. \/ run >= 3 /\ React!Conclude(l, more, "repetitive_tool_loop", LoopBlank)
      \/ /\ ~(run >= 3) /\ Len(more) >= MaxIterations
         /\ React!Conclude(l, more, "max_iterations", LoopBlank)
      \/ /\ ~(run >= 3) /\ ~(Len(more) >= MaxIterations)
         /\ steps' = [steps EXCEPT ![l] = more] /\ React!Goto(l, "ask")
         /\ UNCHANGED <<reason, final>>
      BY LoopEndIs
<1>3. /\ Len(trace) \in Nat /\ Len(trace) < MaxIterations
      /\ LoopEnds(trace, "-") /\ trace \in Seq(LoopStep) /\ s \in LoopStep
      /\ Len(more) = Len(trace) + 1
      /\ run >= 3 <=> three
      BY <1>1, LoopStepFacts
<1>4. MaxIterations \in Nat
      BY LoopAssumption
<1>5. ASSUME NEW why, why = "repetitive_tool_loop" <=> three,
             why = "max_iterations" => Len(trace) + 1 = MaxIterations
      PROVE  LoopEnds(more, why)
      BY <1>3, <1>5, LoopEndsMore
<1> HIDE DEF more, run, three
<1>6. CASE run >= 3 /\ React!Conclude(l, more, "repetitive_tool_loop", LoopBlank)
  <2>1. LoopEnds(more, "repetitive_tool_loop")
        BY <1>3, <1>5, <1>6
  <2>2. QED
        BY <1>1, <1>6, <2>1, LoopStepEnded DEF more
<1>7. CASE ~(run >= 3) /\ Len(more) >= MaxIterations /\ React!Conclude(l, more, "max_iterations", LoopBlank)
  <2>1. Len(trace) + 1 = MaxIterations
        BY <1>3, <1>4, <1>7
  <2>2. LoopEnds(more, "max_iterations")
        BY <1>3, <1>5, <1>7, <2>1
  <2>3. QED
        BY <1>1, <1>7, <2>2, LoopStepEnded DEF more
<1>8. CASE /\ ~(run >= 3) /\ ~(Len(more) >= MaxIterations)
           /\ steps' = [steps EXCEPT ![l] = more] /\ React!Goto(l, "ask")
           /\ UNCHANGED <<reason, final>>
  <2>1. LoopEnds(more, "-")
        BY <1>3, <1>5, <1>8
  <2>2. QED
        BY <1>1, <1>8, <2>1, LoopStepGoesOn DEF more, run
<1>9. QED
      BY <1>2, <1>6, <1>7, <1>8

LEMMA LoopSteps == LoopInv /\ React!Next => LoopInv'
<1> SUFFICES ASSUME LoopInv, React!Next PROVE LoopInv'
    OBVIOUS
<1>1. CASE React!RegisterMcpTools
      BY <1>1, LoopRegister
<1>2. ASSUME NEW l \in ToolLoop, React!Begin(l) \/ React!Ask(l) \/ React!ExecuteTool(l) \/ React!EndStep(l)
      PROVE  LoopInv'
      BY <1>2, LoopBegin, LoopAsk, LoopExecute, LoopEndStep
<1>3. QED
      BY <1>1, <1>2 DEF React!Next

LEMMA LoopSame == LoopInv /\ UNCHANGED LoopVars => LoopInv'
<1> SUFFICES ASSUME LoopInv, UNCHANGED LoopVars PROVE LoopInv'
    OBVIOUS
<1>1. UNCHANGED <<loopStage, dialogue, steps, current, last, repeats, reason, final>>
      BY DEF LoopVars
<1>2. LoopDomains' <=> LoopDomains
      BY <1>1 DEF LoopDomains
<1>3. \A l \in ToolLoop : LoopHas(l)' <=> LoopHas(l)
      BY <1>1 DEF LoopHas
<1>4. LoopInv' <=> LoopInv
      BY <1>2, <1>3 DEF LoopInv, LoopHas
<1>5. QED
      BY <1>4

-----------------------------------------------------------------------------
(* The sum of numbers over a finite set, as the fold of the library takes    *)
(* it: one element is set aside, the others are summed.                      *)
GateFirst(s) == CHOOSE x \in s : TRUE
GateAdds(w, f) ==
    f = [s \in SUBSET DOMAIN w |-> IF s = {} THEN 0 ELSE w[GateFirst(s)] + f[s \ {GateFirst(s)}]]

LEMMA GateRest ==
    ASSUME NEW D, IsFiniteSet(D), NEW s \in SUBSET D
    PROVE  /\ IsFiniteSet(s) /\ Cardinality(s) \in Nat /\ (Cardinality(s) = 0 <=> s = {})
           /\ s # {} => /\ GateFirst(s) \in s /\ s \ {GateFirst(s)} \in SUBSET D
                        /\ Cardinality(s \ {GateFirst(s)}) = Cardinality(s) - 1
<1>1. IsFiniteSet(s)
      BY FS_Subset
<1>2. Cardinality(s) \in Nat /\ (Cardinality(s) = 0 <=> s = {})
      BY <1>1, FS_CardinalityType, FS_EmptySet
<1>3. s # {} => GateFirst(s) \in s
      BY DEF GateFirst
<1>4. s # {} => Cardinality(s \ {GateFirst(s)}) = Cardinality(s) - 1
      BY <1>1, <1>3, FS_RemoveElement
<1>5. QED
      BY <1>1, <1>2, <1>3, <1>4

LEMMA GateAdded ==
    ASSUME NEW D, IsFiniteSet(D), NEW w \in [D -> Int]
    PROVE  \E f : GateAdds(w, f)
<1> DEFINE N == Cardinality(D)
           Small(n) == {s \in SUBSET D : Cardinality(s) <= n}
           Less(s) == s \ {GateFirst(s)}
           Adds(n, f) ==
               /\ f \in [Small(n) -> Int]
               /\ \A s \in Small(n) : f[s] = IF s = {} THEN 0 ELSE w[GateFirst(s)] + f[Less(s)]
           Upto(n) == \E f : Adds(n, f)
           Bad == {n \in Nat : ~Upto(n)}
<1>1. /\ \A s \in SUBSET D : Cardinality(s) \in Nat /\ (Cardinality(s) = 0 <=> s = {})
      /\ \A s \in SUBSET D : s # {} => /\ GateFirst(s) \in s /\ Less(s) \in SUBSET D
                                       /\ Cardinality(Less(s)) = Cardinality(s) - 1
      BY GateRest
<1> HIDE DEF Less
<1>2. \A s \in SUBSET D : s # {} => w[GateFirst(s)] \in Int
      BY <1>1
<1>3. Upto(0)
  <2> DEFINE f == [s \in Small(0) |-> 0]
  <2>1. \A s \in Small(0) : s = {}
        BY <1>1
  <2>2. Adds(0, f)
        BY <2>1
  <2>3. QED
        BY <2>2
<1>4. ASSUME NEW n \in Nat, Upto(n) PROVE Upto(n + 1)
  <2>1. PICK f : Adds(n, f)
        BY <1>4
  <2>2. f \in [Small(n) -> Int]
        /\ \A s \in Small(n) : f[s] = IF s = {} THEN 0 ELSE w[GateFirst(s)] + f[Less(s)]
        BY <2>1
  <2>3. \A s \in Small(n + 1) : s \in SUBSET D /\ (s # {} => Less(s) \in Small(n))
        BY <1>1
  <2>4. \A s \in Small(n) : s \in Small(n + 1)
        BY <1>1
  <2> DEFINE g == [s \in Small(n + 1) |-> IF s = {} THEN 0 ELSE w[GateFirst(s)] + f[Less(s)]]
  <2> HIDE DEF Small
  <2>5. \A s \in Small(n) : g[s] = f[s]
        BY <2>2, <2>4
  <2>6. g \in [Small(n + 1) -> Int]
    <3>1. ASSUME NEW s \in Small(n + 1)
          PROVE  (IF s = {} THEN 0 ELSE w[GateFirst(s)] + f[Less(s)]) \in Int
          BY <1>2, <2>2, <2>3
    <3>2. QED
          BY <3>1
  <2>7. ASSUME NEW s \in Small(n + 1)
        PROVE  g[s] = IF s = {} THEN 0 ELSE w[GateFirst(s)] + g[Less(s)]
    <3>1. s # {} => g[Less(s)] = f[Less(s)]
          BY <2>3, <2>5
    <3>2. g[s] = IF s = {} THEN 0 ELSE w[GateFirst(s)] + f[Less(s)]
          OBVIOUS
    <3> HIDE DEF g
    <3>3. QED
          BY <3>1, <3>2
  <2> HIDE DEF g
  <2>8. Adds(n + 1, g)
        BY <2>6, <2>7
  <2>9. QED
        BY <2>8
<1> HIDE DEF Upto
<1>5. Bad = {}
  <2>1. SUFFICES ASSUME Bad # {} PROVE FALSE
        OBVIOUS
  <2>2. Bad \subseteq Nat /\ (\A n \in Bad : ~Upto(n)) /\ \A n \in Nat : n \notin Bad => Upto(n)
        OBVIOUS
  <2> HIDE DEF Bad
  <2>3. PICK m \in Bad : \A n \in Bad : m <= n
        BY <2>1, <2>2, Smallest
  <2>4. m \in Nat /\ m # 0
        BY <1>3, <2>2
  <2>5. m - 1 \in Nat /\ (m - 1) + 1 = m /\ ~(m <= m - 1)
        BY <2>4
  <2>6. Upto(m - 1)
        BY <2>2, <2>3, <2>5
  <2>7. Upto((m - 1) + 1)
        BY <1>4, <2>5, <2>6
  <2>8. QED
        BY <2>2, <2>5, <2>7
<1>6. N \in Nat /\ Small(N) = SUBSET D
  <2>1. N \in Nat
        BY FS_CardinalityType
  <2>2. \A s \in SUBSET D : Cardinality(s) <= N
        BY FS_Subset
  <2>3. QED
        BY <2>1, <2>2
<1>7. Upto(N)
      BY <1>5, <1>6
<1>8. PICK f : Adds(N, f)
      BY <1>7 DEF Upto
<1>9. /\ f \in [SUBSET D -> Int]
      /\ \A s \in SUBSET D : f[s] = IF s = {} THEN 0 ELSE w[GateFirst(s)] + f[Less(s)]
      BY <1>6, <1>8
<1>10. f = [s \in SUBSET D |-> IF s = {} THEN 0 ELSE w[GateFirst(s)] + f[Less(s)]]
      BY <1>9
<1>11. GateAdds(w, f)
      BY <1>10 DEF GateAdds, Less
<1>12. QED
      BY <1>11

LEMMA GateTimes == \A b \in Int : \A k \in Int : b * (k - 1) + b = b * k /\ b * k \in Int /\ b * (k - 1) \in Int
OBVIOUS

(* Where every number reaches a bar, the sum reaches as many times the bar;  *)
(* where none does, it stays below.                                          *)
LEMMA GateBounds ==
    ASSUME NEW D, IsFiniteSet(D), NEW w \in [D -> Int], NEW f, GateAdds(w, f), NEW b \in Int
    PROVE  /\ f[D] \in Int /\ b * Cardinality(D) \in Int
           /\ (\A e \in D : w[e] >= b) => f[D] >= b * Cardinality(D)
           /\ D # {} /\ (\A e \in D : w[e] < b) => f[D] < b * Cardinality(D)
<1> DEFINE Less(s) == s \ {GateFirst(s)}
           High == \A e \in D : w[e] >= b
           Low == \A e \in D : w[e] < b
           Is(s) == /\ f[s] \in Int
                    /\ High => f[s] >= b * Cardinality(s)
                    /\ Low => f[s] <= b * Cardinality(s) - Cardinality(s)
           Not == {s \in SUBSET D : ~Is(s)}
           Bad == {Cardinality(s) : s \in Not}
<1>1. /\ \A s \in SUBSET D : Cardinality(s) \in Nat /\ (Cardinality(s) = 0 <=> s = {})
      /\ \A s \in SUBSET D : s # {} => /\ GateFirst(s) \in s /\ Less(s) \in SUBSET D
                                       /\ Cardinality(Less(s)) = Cardinality(s) - 1
      BY GateRest
<1>2. \A s \in SUBSET D : f[s] = IF s = {} THEN 0 ELSE w[GateFirst(s)] + f[Less(s)]
      BY DEF GateAdds
<1> HIDE DEF Less
<1>3. ASSUME NEW s \in SUBSET D, s = {} PROVE Is(s)
  <2>1. f[s] = 0 /\ Cardinality(s) = 0
        BY <1>1, <1>2, <1>3
  <2>2. b * 0 = 0
        OBVIOUS
  <2>3. b * Cardinality(s) = 0
        BY <2>1, <2>2
  <2> HIDE DEF High, Low
  <2>4. QED
        BY <2>1, <2>3
<1>4. ASSUME NEW s \in SUBSET D, s # {}, Is(Less(s)) PROVE Is(s)
  <2> DEFINE k == Cardinality(s)
             x == b * (k - 1)
             y == b * k
             v == w[GateFirst(s)]
             r == f[Less(s)]
  <2>1. k \in Nat /\ GateFirst(s) \in D /\ Cardinality(Less(s)) = k - 1 /\ f[s] = v + r
        BY <1>1, <1>2, <1>4
  <2>2. v \in Int /\ (High => v >= b) /\ (Low => v < b)
        BY <2>1
  <2>3. r \in Int /\ (High => r >= x) /\ (Low => r <= x - (k - 1))
        BY <1>4, <2>1
  <2>4. x + b = y /\ x \in Int /\ y \in Int
    <3>1. k \in Int
          BY <2>1
    <3> HIDE DEF k
    <3>2. QED
          BY <3>1, GateTimes
  <2>5. /\ f[s] \in Int /\ (High => f[s] >= y) /\ (Low => f[s] <= y - k)
    <3> HIDE DEF k, x, y, v, r, High, Low
    <3>1. QED
          BY <2>1, <2>2, <2>3, <2>4
  <2>6. QED
        BY <2>5
<1> HIDE DEF Is
<1>5. Not = {}
  <2>1. SUFFICES ASSUME Not # {} PROVE FALSE
        OBVIOUS
  <2>2. (\A s \in Not : s \in SUBSET D /\ ~Is(s)) /\ \A s \in SUBSET D : s \notin Not => Is(s)
        OBVIOUS
  <2>3. Bad \subseteq Nat /\ Bad # {}
        BY <1>1, <2>1, <2>2
  <2>4. (\A n \in Bad : \E s \in Not : n = Cardinality(s)) /\ \A s \in Not : Cardinality(s) \in Bad
        OBVIOUS
  <2> HIDE DEF Not, Bad
  <2>5. PICK m \in Bad : \A n \in Bad : m <= n
        BY <2>3, Smallest
  <2>6. PICK s \in Not : m = Cardinality(s)
        BY <2>4
  <2>7. s \in SUBSET D /\ s # {}
        BY <1>3, <2>2
  <2>8. Less(s) \in SUBSET D /\ Cardinality(Less(s)) = m - 1 /\ m \in Nat
        BY <1>1, <2>6, <2>7
  <2>9. ~(m <= m - 1)
        BY <2>8
  <2>10. Less(s) \notin Not
        BY <2>4, <2>5, <2>8, <2>9
  <2>11. Is(s)
        BY <1>4, <2>2, <2>7, <2>8, <2>10
  <2>12. QED
        BY <2>2, <2>11
<1>6. Is(D)
  <2>1. \A s \in SUBSET D : s \notin Not => Is(s)
        OBVIOUS
  <2> HIDE DEF Not
  <2>2. QED
        BY <1>5, <2>1
<1>7. Cardinality(D) \in Nat /\ (D # {} => Cardinality(D) # 0)
      BY <1>1
<1>8. b * Cardinality(D) \in Int
  <2> DEFINE k == Cardinality(D)
  <2>1. k \in Int
        BY <1>7
  <2> HIDE DEF k
  <2>2. b * k \in Int
        BY <2>1
  <2>3. QED
        BY <2>2 DEF k
<1>9. QED
  <2> DEFINE k == Cardinality(D)
             y == b * k
  <2>1. f[D] \in Int /\ (High => f[D] >= y) /\ (Low => f[D] <= y - k) /\ y \in Int /\ k \in Nat /\ (D # {} => k # 0)
        BY <1>6, <1>7, <1>8 DEF Is
  <2>2. (High => f[D] >= y) /\ (D # {} /\ Low => f[D] < y)
    <3> HIDE DEF k, y, High, Low
    <3>1. QED
          BY <2>1
  <2>3. QED
        BY <2>1, <2>2

(* What the gates' operators make of their arguments.                        *)
GateVote == [1..3 -> Int]
GateState == {"VISIBLE", "CONDITIONAL", "PRUNED"}
GateCandidate == [description : STRING \cup {"goal"}, is_terminal : BOOLEAN, score : Int, state : GateState]
\* A candidate that expands no deeper than the engine may.
GateSounds == {x \in GateCandidate : Level >= MaxDepth - 1 => x.is_terminal}
GateAnswers == {Gates!GenerateCandidates(a) : a \in PlanAnswers}

LEMMA GateClamps == \A x \in Int : \A top \in Int : Gates!Clamp(x, top) \in Int
BY DEF Gates!Clamp

LEMMA GateItem ==
    ASSUME NEW item \in [description : STRING, is_terminal : BOOLEAN, score : Int, conditional : BOOLEAN]
    PROVE  Gates!Candidate(item) \in GateSounds
<1> DEFINE b == item.is_terminal \/ Level >= MaxDepth - 1
           n == Gates!Clamp(item.score, 10)
           st == IF item.conditional THEN "CONDITIONAL" ELSE "VISIBLE"
<1>1. n \in Int
      BY GateClamps
<1>2. b \in BOOLEAN /\ (Level >= MaxDepth - 1 => b)
      OBVIOUS
<1>3. st \in GateState
      BY DEF GateState
<1>4. item.description \in STRING \cup {"goal"}
      OBVIOUS
<1>5. Gates!Candidate(item) = [description |-> item.description, is_terminal |-> b, score |-> n, state |-> st]
      BY DEF Gates!Candidate
<1> HIDE DEF b, n, st
<1>6. Gates!Candidate(item) \in GateCandidate /\ Gates!Candidate(item).is_terminal = b
      BY <1>1, <1>2, <1>3, <1>4, <1>5 DEF GateCandidate
<1>7. QED
      BY <1>2, <1>6 DEF GateSounds

LEMMA GateGenerated ==
    ASSUME NEW a \in PlanAnswers
    PROVE  Gates!GenerateCandidates(a) \in Seq(GateSounds)
<1> DEFINE parsed == [i \in DOMAIN a |-> Gates!Candidate(a[i])]
           S == {i \in DOMAIN parsed : parsed[i].description # ""}
           named == Kept(parsed, S)
           R == [description : STRING, is_terminal : BOOLEAN, score : Int, conditional : BOOLEAN]
<1>1. a \in Seq(R)
      BY GatesAssumption
<1>2. \A i \in DOMAIN a : Gates!Candidate(a[i]) \in GateSounds
  <2>1. \A i \in DOMAIN a : a[i] \in R
    <3> HIDE DEF R
    <3>1. QED
          BY <1>1
  <2>2. QED
        BY <2>1, GateItem
<1>3. parsed \in Seq(GateSounds)
  <2>1. DOMAIN a = 1..Len(a) /\ Len(a) \in Nat
    <3> HIDE DEF R
    <3>1. QED
          BY <1>1
  <2>2. QED
        BY <1>2, <2>1
<1>4. S \subseteq DOMAIN parsed
  <2> HIDE DEF parsed
  <2>1. \A i \in S : i \in DOMAIN parsed
        BY Zenon
  <2> HIDE DEF S
  <2>2. QED
        BY <2>1, Zenon
<1>5. Gates!GenerateCandidates(a) = IF named = <<>> THEN <<Gates!FallbackCandidate>> ELSE named
      BY Zenon DEF Gates!GenerateCandidates, Gates!Kept, Kept, Gates!Place, Place, Gates!Before, Before,
                   Gates!Cardinality, Cardinality
<1>6. Gates!FallbackCandidate \in GateSounds
      BY DEF Gates!FallbackCandidate, GateSounds, GateCandidate, GateState
<1> HIDE DEF parsed, S
<1>7. named \in Seq(GateSounds)
      BY <1>3, <1>4, KeptAre
<1> HIDE DEF named
<1>8. <<Gates!FallbackCandidate>> \in Seq(GateSounds)
      BY <1>6
<1>9. QED
      BY <1>5, <1>7, <1>8

LEMMA GateApplied ==
    ASSUME NEW cs \in Seq(GateSounds)
    PROVE  /\ Gates!ApplyEvaluation(cs) \in Seq(GateSounds)
           /\ \A i \in DOMAIN Gates!ApplyEvaluation(cs) :
                  Gates!ApplyEvaluation(cs)[i].state = "VISIBLE" => Gates!ApplyEvaluation(cs)[i].score >= MinScore
<1> DEFINE of(x) == IF x.state = "VISIBLE" /\ x.score < MinScore THEN [x EXCEPT !.state = "PRUNED"] ELSE x
           applied == [i \in DOMAIN cs |-> of(cs[i])]
<1>1. Gates!ApplyEvaluation(cs) = applied
      BY DEF Gates!ApplyEvaluation
<1>2. ASSUME NEW x \in GateSounds
      PROVE  of(x) \in GateSounds /\ (of(x).state = "VISIBLE" => of(x).score >= MinScore)
  <2>1. x \in GateCandidate /\ (Level >= MaxDepth - 1 => x.is_terminal) /\ MinScore \in Int
        BY GatesAssumption DEF GateSounds
  <2>2. CASE x.state = "VISIBLE" /\ x.score < MinScore
    <3>1. of(x) = [x EXCEPT !.state = "PRUNED"]
          BY <2>2
    <3>2. of(x) \in GateCandidate /\ of(x).is_terminal = x.is_terminal /\ of(x).state = "PRUNED"
          BY <2>1, <3>1 DEF GateCandidate, GateState
    <3>3. QED
          BY <2>1, <3>2 DEF GateSounds
  <2>3. CASE ~(x.state = "VISIBLE" /\ x.score < MinScore)
    <3>1. of(x) = x
          BY <2>3
    <3>2. x.score \in Int
          BY <2>1 DEF GateCandidate
    <3>3. QED
          BY <2>1, <2>3, <3>1, <3>2
  <2>4. QED
        BY <2>2, <2>3
<1> HIDE DEF of
<1>3. DOMAIN cs = 1..Len(cs) /\ Len(cs) \in Nat /\ \A i \in DOMAIN cs : cs[i] \in GateSounds
      OBVIOUS
<1>4. applied \in Seq(GateSounds)
      BY <1>2, <1>3
<1>5. \A i \in DOMAIN applied : applied[i].state = "VISIBLE" => applied[i].score >= MinScore
      BY <1>2, <1>3
<1>6. QED
      BY <1>1, <1>4, <1>5

LEMMA GateVisible ==
    ASSUME NEW cs \in Seq(GateSounds), NEW i \in DOMAIN Gates!Visible(cs)
    PROVE  \E k \in DOMAIN cs : Gates!Visible(cs)[i] = cs[k] /\ cs[k].state = "VISIBLE"
<1> DEFINE S == {k \in DOMAIN cs : cs[k].state = "VISIBLE"}
<1>1. Gates!Visible(cs) = Kept(cs, S)
      BY DEF Gates!Visible, Gates!Kept, Kept, Gates!Place, Place, Gates!Before, Before, Gates!Cardinality, Cardinality
<1>2. S \subseteq DOMAIN cs /\ \A k \in S : k \in DOMAIN cs /\ cs[k].state = "VISIBLE"
      OBVIOUS
<1> HIDE DEF S
<1>3. \E k \in S : Kept(cs, S)[i] = cs[k]
      BY <1>1, <1>2, KeptAre
<1>4. QED
      BY <1>1, <1>2, <1>3

LEMMA GateVerdict ==
    ASSUME NEW vs, DOMAIN vs = Evaluator, \A e \in Evaluator : vs[e] \in GateVote
    PROVE  /\ Gates!Aggregate(vs) = "REJECTED" => \E e \in Evaluator : Gates!SumOf(vs[e]) < 3 * MinScore
           /\ Gates!Aggregate(vs) = "APPROVED" => \E e \in Evaluator : ~(Gates!SumOf(vs[e]) < 3 * MinScore)
<1> DEFINE D == Evaluator
           w == [e \in D |-> Gates!SumOf(vs[e])]
           b == 3 * MinScore
           f == CHOOSE f : f = [s \in SUBSET DOMAIN vs |->
                      IF s = {} THEN 0 ELSE Gates!SumOf(vs[GateFirst(s)]) + f[s \ {GateFirst(s)}]]
           c == CHOOSE g : GateAdds(w, g)
<1>1. IsFiniteSet(D) /\ D # {} /\ MinScore \in Int /\ b \in Int
      BY GatesAssumption
<1>2. w \in [D -> Int] /\ \A e \in D : w[e] = Gates!SumOf(vs[e])
  <2>1. \A e \in D : Gates!SumOf(vs[e]) \in Int
        BY DEF GateVote, Gates!SumOf
  <2>2. QED
        BY <2>1
<1>3. Gates!Aggregate(vs) = IF DOMAIN vs # {} /\ f[DOMAIN vs] >= MinScore * 3 * Cardinality(DOMAIN vs)
                            THEN "APPROVED" ELSE "REJECTED"
      BY DEF Gates!Aggregate, Gates!MapThenSumSet, Gates!MapThenFoldSet, GateFirst, Gates!Cardinality, Cardinality
<1>4. c = f
  <2>1. ASSUME NEW g
        PROVE  GateAdds(w, g) <=> g = [s \in SUBSET DOMAIN vs |->
                      IF s = {} THEN 0 ELSE Gates!SumOf(vs[GateFirst(s)]) + g[s \ {GateFirst(s)}]]
    <3>1. \A s \in SUBSET D : s # {} => GateFirst(s) \in D
          BY DEF GateFirst
    <3>2. \A s \in SUBSET D : s # {} => w[GateFirst(s)] = Gates!SumOf(vs[GateFirst(s)])
          BY <1>2, <3>1
    <3>3. DOMAIN w = D
          OBVIOUS
    <3> HIDE DEF w
    <3>4. [s \in SUBSET D |-> IF s = {} THEN 0 ELSE w[GateFirst(s)] + g[s \ {GateFirst(s)}]]
          = [s \in SUBSET D |-> IF s = {} THEN 0 ELSE Gates!SumOf(vs[GateFirst(s)]) + g[s \ {GateFirst(s)}]]
          BY <3>2
    <3>5. QED
          BY <3>3, <3>4 DEF GateAdds
  <2>2. QED
        BY <2>1
<1>5. GateAdds(w, c)
      BY <1>1, <1>2, GateAdded
<1> HIDE DEF f, c, w, b
<1>6. /\ f[D] \in Int /\ b * Cardinality(D) \in Int
      /\ (\A e \in D : w[e] >= b) => f[D] >= b * Cardinality(D)
      /\ D # {} /\ (\A e \in D : w[e] < b) => f[D] < b * Cardinality(D)
      BY <1>1, <1>2, <1>4, <1>5, GateBounds
<1>7. MinScore * 3 * Cardinality(D) = b * Cardinality(D)
  <2>1. MinScore * 3 = b
        BY <1>1 DEF b
  <2>2. QED
        BY <2>1
<1>8. Gates!Aggregate(vs) = IF f[D] >= b * Cardinality(D) THEN "APPROVED" ELSE "REJECTED"
      BY <1>1, <1>3, <1>7
<1>a. \A e \in D : w[e] \in Int
      BY <1>2
<1>9. Gates!Aggregate(vs) = "REJECTED" => \E e \in D : w[e] < b
      BY <1>1, <1>6, <1>8, <1>a
<1>10. Gates!Aggregate(vs) = "APPROVED" => \E e \in D : ~(w[e] < b)
      BY <1>1, <1>6, <1>8, <1>a
<1>11. QED
       BY <1>2, <1>9, <1>10 DEF b

(* The gates, task by task.                                                  *)
GateStages == {"new", "bypassed", "plan", "planning", "evaluate", "approved", "rejected", "judged"}

GateWell(st, cs, vs, away, pl) ==
    /\ st \in GateStages
    /\ DOMAIN vs \subseteq Evaluator /\ \A e \in DOMAIN vs : vs[e] \in GateVote
    /\ away \subseteq DOMAIN vs /\ \A e \in away : vs[e] = Gates!FallbackEvaluation
    /\ st = "evaluate" => cs \in GateAnswers
    /\ st \in {"approved", "judged"} =>
           /\ DOMAIN vs = Evaluator /\ Gates!Aggregate(vs) = "APPROVED"
           /\ \E c \in GateAnswers : cs = Gates!ApplyEvaluation(c)
           /\ pl = Gates!Visible(cs)
    /\ st = "rejected" => DOMAIN vs = Evaluator /\ Gates!Aggregate(vs) = "REJECTED"

GateDomains ==
    /\ DOMAIN gateStage = Planning /\ DOMAIN planCandidates = Planning /\ DOMAIN votes = Planning
    /\ DOMAIN unreachable = Planning /\ DOMAIN approved = Planning

GateHas(t) == GateWell(gateStage[t], planCandidates[t], votes[t], unreachable[t], approved[t])

GateCached == cache = <<>> \/ cache \in GateAnswers
GateJudged == judged \subseteq {[grades |-> g, decision |-> Gates!Decide(g)] : g \in GateVote}

GateInv ==
    /\ GateDomains
    /\ \A t \in Planning : GateHas(t)
    /\ GateCached /\ GateJudged

GateVars == <<gateStage, attempts, feedback, planCandidates, votes, unreachable, approved, cache, judged>>

LEMMA GateVetted ==
    ASSUME NEW t \in Planning, GateHas(t), gateStage[t] \in {"approved", "judged"}
    PROVE  /\ DOMAIN votes[t] = Evaluator
           /\ \A i \in DOMAIN approved[t] : /\ approved[t][i] \in Gates!Range(planCandidates[t])
                                            /\ approved[t][i].score >= MinScore
                                            /\ Level >= MaxDepth - 1 => approved[t][i].is_terminal
<1>1. DOMAIN votes[t] = Evaluator /\ approved[t] = Gates!Visible(planCandidates[t])
      BY DEF GateHas, GateWell
<1>2. PICK c \in GateAnswers : planCandidates[t] = Gates!ApplyEvaluation(c)
      BY DEF GateHas, GateWell
<1> DEFINE cs == planCandidates[t]
<1>3. c \in Seq(GateSounds)
      BY GateGenerated DEF GateAnswers
<1>4. /\ cs \in Seq(GateSounds)
      /\ \A i \in DOMAIN cs : cs[i].state = "VISIBLE" => cs[i].score >= MinScore
      BY <1>2, <1>3, GateApplied
<1>5. ASSUME NEW i \in DOMAIN approved[t]
      PROVE  /\ approved[t][i] \in Gates!Range(planCandidates[t])
             /\ approved[t][i].score >= MinScore
             /\ Level >= MaxDepth - 1 => approved[t][i].is_terminal
  <2>1. PICK k \in DOMAIN cs : approved[t][i] = cs[k] /\ cs[k].state = "VISIBLE"
        BY <1>1, <1>4, GateVisible
  <2>2. cs[k] \in GateSounds /\ cs[k].score >= MinScore
        BY <1>4, <2>1
  <2>3. Level >= MaxDepth - 1 => cs[k].is_terminal
        BY <2>2 DEF GateSounds
  <2>4. approved[t][i] \in Gates!Range(planCandidates[t])
        BY <2>1 DEF Gates!Range
  <2>5. QED
        BY <2>1, <2>2, <2>3, <2>4
<1>6. QED
      BY <1>1, <1>5

LEMMA GateAgreed ==
    ASSUME NEW t \in Planning, GateHas(t), DOMAIN votes[t] = Evaluator
    PROVE  LET low == {e \in Evaluator : Gates!SumOf(votes[t][e]) < 3 * MinScore}
           IN  /\ gateStage[t] = "rejected" => low \ unreachable[t] # {}
               /\ gateStage[t] \in {"approved", "judged"} => low # Evaluator
<1> DEFINE low == {e \in Evaluator : Gates!SumOf(votes[t][e]) < 3 * MinScore}
           vs == votes[t]
<1>1. /\ \A e \in Evaluator : vs[e] \in GateVote
      /\ \A e \in unreachable[t] : vs[e] = Gates!FallbackEvaluation
      /\ gateStage[t] = "rejected" => Gates!Aggregate(vs) = "REJECTED"
      /\ gateStage[t] \in {"approved", "judged"} => Gates!Aggregate(vs) = "APPROVED"
      BY DEF GateHas, GateWell
<1>2. ~(Gates!SumOf(Gates!FallbackEvaluation) < 3 * MinScore)
  <2>1. Gates!SumOf(Gates!FallbackEvaluation) = 20
        BY DEF Gates!SumOf, Gates!FallbackEvaluation
  <2>2. MinScore \in 0..6
        BY GatesAssumption
  <2>3. QED
        BY <2>1, <2>2
<1>3. gateStage[t] = "rejected" => low \ unreachable[t] # {}
  <2>1. SUFFICES ASSUME gateStage[t] = "rejected" PROVE low \ unreachable[t] # {}
        OBVIOUS
  <2>2. PICK e \in Evaluator : Gates!SumOf(vs[e]) < 3 * MinScore
        BY <1>1, <2>1, GateVerdict
  <2>3. e \notin unreachable[t]
        BY <1>1, <1>2, <2>2
  <2>4. QED
        BY <2>2, <2>3
<1>4. gateStage[t] \in {"approved", "judged"} => low # Evaluator
  <2>1. SUFFICES ASSUME gateStage[t] \in {"approved", "judged"} PROVE low # Evaluator
        OBVIOUS
  <2>2. PICK e \in Evaluator : ~(Gates!SumOf(vs[e]) < 3 * MinScore)
        BY <1>1, <2>1, GateVerdict
  <2>3. QED
        BY <2>2
<1>5. QED
      BY <1>3, <1>4

LEMMA GateClampGrows ==
    \A x \in Int : \A y \in Int : x >= y => Gates!Clamp(x, 10) >= Gates!Clamp(y, 10)
BY DEF Gates!Clamp

LEMMA GateSum ==
    ASSUME NEW g \in GateVote
    PROVE  Gates!Decide(g) = Gates!ScoreToDecision(
               Gates!Clamp(g[1], 10) + Gates!Clamp(g[2], 10) + Gates!Clamp(g[3], 10))
<1>1. 1 \in 1..3 /\ 2 \in 1..3 /\ 3 \in 1..3
      OBVIOUS
<1> DEFINE c == [i \in 1..3 |-> Gates!Clamp(g[i], 10)]
<1>2. c[1] = Gates!Clamp(g[1], 10) /\ c[2] = Gates!Clamp(g[2], 10) /\ c[3] = Gates!Clamp(g[3], 10)
      BY <1>1
<1>3. Gates!Decide(g) = Gates!ScoreToDecision(Gates!SumOf(c))
      BY DEF Gates!Decide
<1> HIDE DEF c
<1>4. QED
      BY <1>2, <1>3 DEF Gates!SumOf

LEMMA GateRanked ==
    ASSUME GateJudged
    PROVE  Gates!ResultsAreRanked
<1>1. ASSUME NEW x \in judged, NEW y \in judged, \A i \in 1..3 : x.grades[i] >= y.grades[i]
      PROVE  /\ y.decision = "OK" => x.decision = "OK"
             /\ x.decision = "REPLAN" => y.decision = "REPLAN"
  <2>1. PICK g \in GateVote : x = [grades |-> g, decision |-> Gates!Decide(g)]
        BY DEF GateJudged
  <2>2. PICK h \in GateVote : y = [grades |-> h, decision |-> Gates!Decide(h)]
        BY DEF GateJudged
  <2>3. /\ x.decision = Gates!Decide(g) /\ y.decision = Gates!Decide(h)
        /\ x.grades = g /\ y.grades = h
        BY <2>1, <2>2
  <2>4. 1 \in 1..3 /\ 2 \in 1..3 /\ 3 \in 1..3
        OBVIOUS
  <2>5. /\ g[1] \in Int /\ g[2] \in Int /\ g[3] \in Int /\ h[1] \in Int /\ h[2] \in Int /\ h[3] \in Int
        /\ g[1] >= h[1] /\ g[2] >= h[2] /\ g[3] >= h[3]
        BY <1>1, <2>3, <2>4 DEF GateVote
  <2> DEFINE a1 == Gates!Clamp(g[1], 10)
             a2 == Gates!Clamp(g[2], 10)
             a3 == Gates!Clamp(g[3], 10)
             b1 == Gates!Clamp(h[1], 10)
             b2 == Gates!Clamp(h[2], 10)
             b3 == Gates!Clamp(h[3], 10)
  <2>a. 10 \in Int
        OBVIOUS
  <2>b. a1 \in Int /\ a2 \in Int /\ a3 \in Int /\ b1 \in Int /\ b2 \in Int /\ b3 \in Int
        BY <2>5, <2>a, GateClamps, Zenon
  <2>c. a1 >= b1 /\ a2 >= b2 /\ a3 >= b3
        BY <2>5, GateClampGrows, Zenon
  <2>6. /\ a1 \in Int /\ a2 \in Int /\ a3 \in Int /\ b1 \in Int /\ b2 \in Int /\ b3 \in Int
        /\ a1 >= b1 /\ a2 >= b2 /\ a3 >= b3
        BY <2>b, <2>c, Zenon
  <2>7. /\ Gates!Decide(g) = Gates!ScoreToDecision(a1 + a2 + a3)
        /\ Gates!Decide(h) = Gates!ScoreToDecision(b1 + b2 + b3)
        BY GateSum
  <2>8. OkThreshold \in Int /\ RetryThreshold \in Int
        BY GatesAssumption
  <2> HIDE DEF a1, a2, a3, b1, b2, b3
  <2>9. QED
        BY <2>3, <2>6, <2>7, <2>8 DEF Gates!ScoreToDecision
<1>2. ASSUME NEW x \in judged, x.grades = Gates!FallbackResult PROVE x.decision = "RETRY"
  <2>1. PICK g \in GateVote : x = [grades |-> g, decision |-> Gates!Decide(g)]
        BY DEF GateJudged
  <2>2. g = Gates!FallbackResult /\ x.decision = Gates!Decide(g)
        BY <1>2, <2>1
  <2>3. g[1] = 5 /\ g[2] = 5 /\ g[3] = 5
        BY <2>2 DEF Gates!FallbackResult
  <2>4. Gates!Clamp(5, 10) = 5
        BY DEF Gates!Clamp
  <2>5. Gates!Decide(g) = Gates!ScoreToDecision(5 + 5 + 5)
        BY <2>3, <2>4, GateSum
  <2>6. OkThreshold \in Int /\ RetryThreshold \in Int /\ RetryThreshold <= 5 /\ 5 < OkThreshold
        BY GatesAssumption
  <2>7. QED
        BY <2>2, <2>5, <2>6 DEF Gates!ScoreToDecision
<1>3. QED
      BY <1>1, <1>2 DEF Gates!ResultsAreRanked

LEMMA GateSafe == ASSUME GateInv PROVE Gates!Safe
<1>1. Gates!OnlyVettedStepsRun
      BY GateVetted DEF GateInv, Gates!OnlyVettedStepsRun
<1>2. Gates!CacheIsPristine
      BY DEF GateInv, GateCached, GateAnswers, Gates!CacheIsPristine
<1>3. Gates!VerdictFollowsVotes
      BY GateAgreed DEF GateInv, Gates!VerdictFollowsVotes
<1>4. Gates!ResultsAreRanked
      BY GateRanked DEF GateInv
<1>5. QED
      BY <1>1, <1>2, <1>3, <1>4 DEF Gates!Safe

LEMMA GateInit == ASSUME Gates!Init PROVE GateInv
<1>1. Gates!Init
      OBVIOUS
<1>2. GateDomains
      BY <1>1 DEF Gates!Init, GateDomains
<1>3. ASSUME NEW t \in Planning
      PROVE  gateStage[t] = "new" /\ votes[t] = <<>> /\ unreachable[t] = {}
      BY <1>1 DEF Gates!Init
<1>4. \A t \in Planning : GateHas(t)
  <2>1. DOMAIN <<>> = {}
        OBVIOUS
  <2>2. QED
        BY <1>3, <2>1 DEF GateHas, GateWell, GateStages
<1>5. GateCached /\ GateJudged
      BY <1>1 DEF Gates!Init, GateCached, GateJudged
<1>6. QED
      BY <1>2, <1>4, <1>5 DEF GateInv

\* Only task t moves.
GateOthers(t) ==
    \A u \in Planning \ {t} :
        /\ gateStage'[u] = gateStage[u] /\ planCandidates'[u] = planCandidates[u] /\ votes'[u] = votes[u]
        /\ unreachable'[u] = unreachable[u] /\ approved'[u] = approved[u]

LEMMA GateMoves ==
    ASSUME GateInv, NEW t \in Planning, GateDomains', GateOthers(t), GateCached', GateJudged',
           GateWell(gateStage'[t], planCandidates'[t], votes'[t], unreachable'[t], approved'[t])
    PROVE  GateInv'
<1>1. ASSUME NEW u \in Planning
      PROVE  GateWell(gateStage'[u], planCandidates'[u], votes'[u], unreachable'[u], approved'[u])
  <2>1. CASE u = t
        BY <2>1
  <2>2. CASE u # t
    <3>1. GateWell(gateStage[u], planCandidates[u], votes[u], unreachable[u], approved[u])
          BY DEF GateInv, GateHas
    <3>2. QED
          BY <2>2, <3>1 DEF GateOthers
  <2>3. QED
        BY <2>1, <2>2
<1>2. QED
      BY <1>1 DEF GateInv, GateHas

LEMMA GateHolds ==
    ASSUME GateInv, NEW t \in Planning
    PROVE  /\ GateDomains /\ GateCached /\ GateJudged
           /\ GateWell(gateStage[t], planCandidates[t], votes[t], unreachable[t], approved[t])
BY DEF GateInv, GateHas

LEMMA GateKeepsCache == ASSUME GateCached, UNCHANGED cache PROVE GateCached'
<1>1. GateCached' <=> GateCached
      BY DEF GateCached
<1>2. QED
      BY <1>1

LEMMA GateKeepsJudged == ASSUME GateJudged, UNCHANGED judged PROVE GateJudged'
<1>1. GateJudged' <=> GateJudged
      BY DEF GateJudged
<1>2. QED
      BY <1>1

(* A move that shows only in the stage, to one where nothing is claimed of   *)
(* the plan.                                                                 *)
LEMMA GateWaits ==
    ASSUME GateInv, NEW t \in Planning, NEW s \in {"bypassed", "plan", "planning"}, Gates!Goto(t, s),
           UNCHANGED <<planCandidates, votes, unreachable, approved, cache, judged>>
    PROVE  GateInv'
<1>1. GateDomains /\ GateCached /\ GateJudged
      /\ GateWell(gateStage[t], planCandidates[t], votes[t], unreachable[t], approved[t])
      BY GateHolds
<1>2. GateDomains' /\ GateOthers(t) /\ gateStage'[t] = s
      BY <1>1 DEF Gates!Goto, GateDomains, GateOthers
<1>3. GateWell(s, planCandidates[t], votes[t], unreachable[t], approved[t])
      BY <1>1 DEF GateWell, GateStages
<1>4. GateWell(gateStage'[t], planCandidates'[t], votes'[t], unreachable'[t], approved'[t])
      BY <1>2, <1>3
<1>5. GateCached' /\ GateJudged'
      BY <1>1, GateKeepsCache, GateKeepsJudged
<1>6. QED
      BY <1>2, <1>4, <1>5, GateMoves

LEMMA GateProposes ==
    ASSUME GateInv, NEW t \in Planning, NEW cs \in GateAnswers, Gates!Propose(t, cs), GateCached',
           UNCHANGED <<approved, judged>>
    PROVE  GateInv'
<1>1. GateDomains /\ GateJudged
      BY GateHolds
<1>2. /\ GateDomains' /\ GateOthers(t)
      /\ gateStage'[t] = "evaluate" /\ planCandidates'[t] = cs /\ votes'[t] = <<>> /\ unreachable'[t] = {}
      BY <1>1 DEF Gates!Propose, Gates!Goto, GateDomains, GateOthers
<1>3. GateWell("evaluate", cs, <<>>, {}, approved[t])
  <2>1. DOMAIN <<>> = {}
        OBVIOUS
  <2>2. QED
        BY <2>1 DEF GateWell, GateStages
<1>4. GateWell(gateStage'[t], planCandidates'[t], votes'[t], unreachable'[t], approved'[t])
      BY <1>2, <1>3
<1>5. GateJudged'
      BY <1>1, GateKeepsJudged
<1>6. QED
      BY <1>2, <1>4, <1>5, GateMoves

LEMMA GateEvaluates ==
    ASSUME GateInv, NEW t \in Planning, NEW e \in Evaluator, Gates!Evaluate(t, e)
    PROVE  GateInv'
<1> DEFINE vs == votes[t]
<1>1. GateDomains /\ GateCached /\ GateJudged
      /\ GateWell(gateStage[t], planCandidates[t], vs, unreachable[t], approved[t])
      BY GateHolds
<1>2. gateStage[t] = "evaluate" /\ e \notin DOMAIN vs
      /\ UNCHANGED <<gateStage, planCandidates, approved, cache, judged>>
      BY DEF Gates!Evaluate
<1>3. /\ DOMAIN vs \subseteq Evaluator /\ \A d \in DOMAIN vs : vs[d] \in GateVote
      /\ unreachable[t] \subseteq DOMAIN vs /\ \A d \in unreachable[t] : vs[d] = Gates!FallbackEvaluation
      /\ planCandidates[t] \in GateAnswers
      BY <1>1, <1>2 DEF GateWell
<1>4. PICK v : /\ v \in GateVote /\ votes' = [votes EXCEPT ![t] = Gates!Counted(@, e, v)]
               /\ \/ UNCHANGED unreachable
                  \/ v = Gates!FallbackEvaluation /\ unreachable' = [unreachable EXCEPT ![t] = @ \cup {e}]
  <2>1. ASSUME NEW g \in Grades, UNCHANGED unreachable,
               votes' = [votes EXCEPT ![t] = Gates!Counted(@, e, [i \in 1 .. 3 |-> Gates!Clamp(g[i], 10)])]
        PROVE  \E v : /\ v \in GateVote /\ votes' = [votes EXCEPT ![t] = Gates!Counted(@, e, v)]
                      /\ \/ UNCHANGED unreachable
                         \/ v = Gates!FallbackEvaluation /\ unreachable' = [unreachable EXCEPT ![t] = @ \cup {e}]
    <3> DEFINE c == [i \in 1 .. 3 |-> Gates!Clamp(g[i], 10)]
    <3>1. c \in GateVote
      <4>1. g \in [1..3 -> Int]
            BY GatesAssumption
      <4>a. 10 \in Int /\ \A i \in 1..3 : g[i] \in Int
            BY <4>1
      <4>2. \A i \in 1..3 : Gates!Clamp(g[i], 10) \in Int
            BY <4>a, GateClamps, Zenon
      <4>3. QED
            BY <4>2 DEF GateVote
    <3>2. votes' = [votes EXCEPT ![t] = Gates!Counted(@, e, c)]
          BY <2>1
    <3> HIDE DEF c
    <3>3. QED
          BY <2>1, <3>1, <3>2
  <2>2. Gates!FallbackEvaluation \in GateVote
        BY DEF Gates!FallbackEvaluation, GateVote
  <2>3. QED
        BY <2>1, <2>2 DEF Gates!Evaluate
<1> DEFINE ws == Gates!Counted(vs, e, v)
<1>5. /\ DOMAIN ws = DOMAIN vs \cup {e} /\ ws[e] = v
      /\ \A d \in DOMAIN ws : ws[d] \in GateVote
      /\ \A d \in DOMAIN vs : ws[d] = vs[d]
  <2>1. DOMAIN ws = DOMAIN vs \cup {e} /\ ws[e] = v /\ \A d \in DOMAIN vs : ws[d] = vs[d]
    <3>1. e \notin DOMAIN vs
          BY <1>2
    <3> HIDE DEF vs
    <3>2. QED
          BY <3>1 DEF Gates!Counted
  <2>a. v \in GateVote /\ \A d \in DOMAIN vs : vs[d] \in GateVote
        BY <1>3, <1>4
  <2> HIDE DEF ws, vs
  <2>2. \A d \in DOMAIN ws : ws[d] \in GateVote
        BY <2>1, <2>a
  <2>3. QED
        BY <2>1, <2>2
<1>6. GateDomains' /\ GateOthers(t)
      BY <1>1, <1>2, <1>4 DEF GateDomains, GateOthers
<1>7. votes'[t] = ws /\ \/ unreachable'[t] = unreachable[t]
                        \/ v = Gates!FallbackEvaluation /\ unreachable'[t] = unreachable[t] \cup {e}
      BY <1>1, <1>4 DEF GateDomains
<1> HIDE DEF ws, vs
<1>8. unreachable'[t] \subseteq DOMAIN ws /\ \A d \in unreachable'[t] : ws[d] = Gates!FallbackEvaluation
      BY <1>3, <1>5, <1>7
<1>9. GateWell("evaluate", planCandidates[t], ws, unreachable'[t], approved[t])
      BY <1>3, <1>5, <1>8 DEF GateWell, GateStages
<1>10. GateWell(gateStage'[t], planCandidates'[t], votes'[t], unreachable'[t], approved'[t])
       BY <1>2, <1>7, <1>9
<1>11. GateCached' /\ GateJudged'
       BY <1>1, <1>2, GateKeepsCache, GateKeepsJudged
<1>12. QED
       BY <1>6, <1>10, <1>11, GateMoves

LEMMA GateApproves == ASSUME GateInv, NEW t \in Planning, Gates!Approve(t) PROVE GateInv'
<1> DEFINE done == Gates!ApplyEvaluation(planCandidates[t])
<1>1. GateDomains /\ GateCached /\ GateJudged
      /\ GateWell(gateStage[t], planCandidates[t], votes[t], unreachable[t], approved[t])
      BY GateHolds
<1>2. /\ gateStage[t] = "evaluate" /\ DOMAIN votes[t] = Evaluator /\ Gates!Aggregate(votes[t]) = "APPROVED"
      /\ planCandidates' = [planCandidates EXCEPT ![t] = done]
      /\ approved' = [approved EXCEPT ![t] = Gates!Visible(done)]
      /\ gateStage' = [gateStage EXCEPT ![t] = "approved"]
      /\ UNCHANGED <<votes, unreachable, cache, judged>>
      BY DEF Gates!Approve, Gates!Evaluated, Gates!Goto
<1>3. planCandidates[t] \in GateAnswers
      BY <1>1, <1>2 DEF GateWell
<1>4. GateDomains' /\ GateOthers(t) /\ gateStage'[t] = "approved" /\ planCandidates'[t] = done
      /\ approved'[t] = Gates!Visible(done)
      BY <1>1, <1>2 DEF GateDomains, GateOthers
<1>5. GateWell("approved", done, votes[t], unreachable[t], Gates!Visible(done))
      BY <1>1, <1>2, <1>3 DEF GateWell, GateStages
<1> HIDE DEF done
<1>6. GateWell(gateStage'[t], planCandidates'[t], votes'[t], unreachable'[t], approved'[t])
      BY <1>2, <1>4, <1>5
<1>7. GateCached' /\ GateJudged'
      BY <1>1, <1>2, GateKeepsCache, GateKeepsJudged
<1>8. QED
      BY <1>4, <1>6, <1>7, GateMoves

LEMMA GateRejects == ASSUME GateInv, NEW t \in Planning, Gates!Reject(t) PROVE GateInv'
<1>1. GateDomains /\ GateCached /\ GateJudged
      /\ GateWell(gateStage[t], planCandidates[t], votes[t], unreachable[t], approved[t])
      BY GateHolds
<1>2. /\ DOMAIN votes[t] = Evaluator /\ Gates!Aggregate(votes[t]) = "REJECTED"
      /\ UNCHANGED <<planCandidates, votes, unreachable, approved, cache, judged>>
      BY DEF Gates!Reject, Gates!Evaluated
<1>3. PICK s \in {"rejected", "plan"} : gateStage' = [gateStage EXCEPT ![t] = s]
      BY DEF Gates!Reject, Gates!Goto
<1>4. GateDomains' /\ GateOthers(t) /\ gateStage'[t] = s
      BY <1>1, <1>2, <1>3 DEF GateDomains, GateOthers
<1>5. GateWell(s, planCandidates[t], votes[t], unreachable[t], approved[t])
      BY <1>1, <1>2 DEF GateWell, GateStages
<1>6. GateWell(gateStage'[t], planCandidates'[t], votes'[t], unreachable'[t], approved'[t])
      BY <1>2, <1>4, <1>5
<1>7. GateCached' /\ GateJudged'
      BY <1>1, <1>2, GateKeepsCache, GateKeepsJudged
<1>8. QED
      BY <1>4, <1>6, <1>7, GateMoves

LEMMA GateJudges == ASSUME GateInv, NEW t \in Planning, Gates!JudgeResult(t) PROVE GateInv'
<1>1. GateDomains /\ GateCached /\ GateJudged
      /\ GateWell(gateStage[t], planCandidates[t], votes[t], unreachable[t], approved[t])
      BY GateHolds
<1>2. /\ gateStage[t] = "approved" /\ gateStage' = [gateStage EXCEPT ![t] = "judged"]
      /\ UNCHANGED <<planCandidates, votes, unreachable, approved, cache>>
      BY DEF Gates!JudgeResult, Gates!Goto
<1>3. PICK g \in Grades \cup {Gates!FallbackResult} :
          judged' = judged \cup {[grades |-> g, decision |-> Gates!Decide(g)]}
      BY DEF Gates!JudgeResult
<1>4. g \in GateVote
  <2>1. Gates!FallbackResult \in GateVote
        BY DEF Gates!FallbackResult, GateVote
  <2>2. QED
        BY <2>1, GatesAssumption DEF GateVote
<1>5. GateDomains' /\ GateOthers(t) /\ gateStage'[t] = "judged"
      BY <1>1, <1>2 DEF GateDomains, GateOthers
<1>6. GateWell("judged", planCandidates[t], votes[t], unreachable[t], approved[t])
      BY <1>1, <1>2 DEF GateWell, GateStages
<1>7. GateWell(gateStage'[t], planCandidates'[t], votes'[t], unreachable'[t], approved'[t])
      BY <1>2, <1>5, <1>6
<1>8. GateCached' /\ GateJudged'
      BY <1>1, <1>2, <1>3, <1>4, GateKeepsCache DEF GateJudged
<1>9. QED
      BY <1>5, <1>7, <1>8, GateMoves

LEMMA GateSteps == GateInv /\ Gates!Next => GateInv'
<1> SUFFICES ASSUME GateInv, Gates!Next PROVE GateInv'
    OBVIOUS
<1>1. PICK t \in Planning :
          \/ Gates!Classify(t) \/ Gates!GenerateCached(t) \/ Gates!AskPlanner(t) \/ Gates!PlannerAnswers(t)
          \/ \E e \in Evaluator : Gates!Evaluate(t, e)
          \/ Gates!Approve(t) \/ Gates!Reject(t) \/ Gates!JudgeResult(t)
      BY DEF Gates!Next
<1>2. CASE Gates!Classify(t)
  <2>1. PICK s \in {"bypassed", "plan"} : Gates!Goto(t, s)
        BY <1>2 DEF Gates!Classify
  <2>2. UNCHANGED <<planCandidates, votes, unreachable, approved, cache, judged>>
        BY <1>2 DEF Gates!Classify
  <2>3. QED
        BY <2>1, <2>2, GateWaits
<1>3. CASE Gates!GenerateCached(t)
  <2>1. cache # <<>> /\ Gates!Propose(t, cache) /\ UNCHANGED <<approved, cache, judged>>
        BY <1>3 DEF Gates!GenerateCached
  <2>2. PICK c \in GateAnswers : c = cache
        BY <2>1 DEF GateInv, GateCached
  <2>3. Gates!Propose(t, c)
        BY <2>1, <2>2
  <2>4. GateCached'
        BY <2>1, GateKeepsCache DEF GateInv
  <2>5. QED
        BY <2>1, <2>3, <2>4, GateProposes
<1>4. CASE Gates!AskPlanner(t)
      BY <1>4, GateWaits DEF Gates!AskPlanner
<1>5. CASE Gates!PlannerAnswers(t)
  <2>1. PICK a \in PlanAnswers : /\ Gates!Propose(t, Gates!GenerateCandidates(a))
                                 /\ cache' = IF feedback[t] THEN cache ELSE Gates!GenerateCandidates(a)
        BY <1>5 DEF Gates!PlannerAnswers
  <2>2. UNCHANGED <<approved, judged>> /\ Gates!GenerateCandidates(a) \in GateAnswers
        BY <1>5 DEF Gates!PlannerAnswers, GateAnswers
  <2>3. GateCached'
        BY <2>1, <2>2 DEF GateInv, GateCached
  <2>4. QED
        BY <2>1, <2>2, <2>3, GateProposes
<1>6. QED
      BY <1>1, <1>2, <1>3, <1>4, <1>5, GateEvaluates, GateApproves, GateRejects, GateJudges

LEMMA GateSame == GateInv /\ UNCHANGED GateVars => GateInv'
<1> SUFFICES ASSUME GateInv, UNCHANGED GateVars PROVE GateInv'
    OBVIOUS
<1>1. UNCHANGED <<gateStage, planCandidates, votes, unreachable, approved, cache, judged>>
      BY DEF GateVars
<1>2. GateDomains' <=> GateDomains
      BY <1>1 DEF GateDomains
<1>3. \A t \in Planning : GateHas(t)' <=> GateHas(t)
      BY <1>1 DEF GateHas
<1>4. GateCached' /\ GateJudged'
      BY <1>1, GateKeepsCache, GateKeepsJudged DEF GateInv
<1>5. QED
      BY <1>2, <1>3, <1>4 DEF GateInv

-----------------------------------------------------------------------------
(* A council's debate is told completely: a start and then either one        *)
(* abandonment or both arguments and the decision, which is a candidate of   *)
(* the debate: DebateIsTold of CouncilDebate.                                *)
THEOREM DebateCorrect == Debate!Spec => []Debate!DebateIsTold
<1>1. Debate!Init => DebInv
      BY DebInit
<1>2. DebInv /\ [Debate!Next]_(Debate!vars) => DebInv'
      BY DebStep, DebSame DEF Debate!vars, DebVars
<1>3. DebInv => Debate!DebateIsTold
      BY DEF DebInv
<1>4. QED
      BY <1>1, <1>2, <1>3, PTL DEF Debate!Spec

(* The small model plans only goals the classifier was sure of, and every    *)
(* goal that is routed is counted once, with the model that planned it and   *)
(* the cost of its classification: HaikuIsEarned and EveryGoalCounted of     *)
(* GoalRouting.                                                              *)
THEOREM RoutingCorrect == Route!Spec => []Route!Safe
<1>1. Route!Init => RouInv
      BY RouInit
<1>2. RouInv /\ [Route!Next]_(Route!vars) => RouInv'
      BY RouStep, RouSame DEF Route!vars, RouVars
<1>3. RouInv => Route!Safe
      BY DEF RouInv
<1>4. QED
      BY <1>1, <1>2, <1>3, PTL DEF Route!Spec

(* The synthesis of a discussion is wholly that of its last answered round,  *)
(* and a discussion ends for a reason: SynthesisIsTheLastRound and           *)
(* EndsForAReason of Discussion.                                             *)
THEOREM DiscussionCorrect == Talks!Spec => []Talks!Safe
<1>1. Talks!Init => DisInv
      BY DisInit
<1>2. DisInv /\ [Talks!Next]_(Talks!vars) => DisInv'
      BY DisStep, DisSame DEF Talks!vars, DisVars
<1>3. DisInv => Talks!Safe
      BY DEF DisInv
<1>4. QED
      BY <1>1, <1>2, <1>3, PTL DEF Talks!Spec

(* A plan of the analyzer keeps the models the goal asked for, and where no  *)
(* item of the model's answer depends on a later one, no step of the plan    *)
(* does: PlanKeepsTheGoal and PlansAreOrdered of GoalAnalysis.               *)
THEOREM AnalysisCorrect == Intent!Spec => []Intent!Safe
<1>1. Intent!Init => IntInv
      BY IntInit
<1>2. IntInv /\ [Intent!Next]_(Intent!vars) => IntInv'
      BY IntStep, IntSame DEF Intent!vars, IntVars
<1>3. IntInv => Intent!Safe
      BY DEF IntInv
<1>4. QED
      BY <1>1, <1>2, <1>3, PTL DEF Intent!Spec

(* Whenever a loop's model is asked each of its calls was answered, loops    *)
(* end for the reason they give and in time, and what is left without an     *)
(* answer ends with the last useful observation: EveryCallAnswered,          *)
(* EndsForItsReason and FallbackIsRecent of ReactLoop.                       *)
THEOREM ToolLoopCorrect == React!Spec => []React!Safe
<1>1. React!Init => LoopInv
      BY LoopInit
<1>2. LoopInv /\ [React!Next]_(React!vars) => LoopInv'
      BY LoopSteps, LoopSame DEF React!vars, LoopVars
<1>3. LoopInv => React!Safe
      BY LoopSafe
<1>4. QED
      BY <1>1, <1>2, <1>3, PTL DEF React!Spec

(* What runs of a plan was seen by every evaluator and is good enough, the   *)
(* cache hands out what a planner answered, verdicts follow the votes of     *)
(* those who could vote, and results are ranked: OnlyVettedStepsRun,         *)
(* CacheIsPristine, VerdictFollowsVotes and ResultsAreRanked of              *)
(* FractalGates.                                                             *)
THEOREM GatesCorrect == Gates!Spec => []Gates!Safe
<1>1. Gates!Init => GateInv
      BY GateInit
<1>2. GateInv /\ [Gates!Next]_(Gates!vars) => GateInv'
      BY GateSteps, GateSame DEF Gates!vars, GateVars
<1>3. GateInv => Gates!Safe
      BY GateSafe
<1>4. QED
      BY <1>1, <1>2, <1>3, PTL DEF Gates!Spec

(* The six side by side: what a step of the whole does to each.              *)
LEMMA ReasoningSteps ==
    ASSUME [ReasoningNext]_reasoningVars
    PROVE  /\ [React!Next]_(React!vars) /\ [Gates!Next]_(Gates!vars) /\ [Talks!Next]_(Talks!vars)
           /\ [Debate!Next]_(Debate!vars) /\ [Route!Next]_(Route!vars) /\ [Intent!Next]_(Intent!vars)
<1>1. CASE UseTools
      BY <1>1 DEF UseTools, gateVars, talkVars, debateVars, routeVars, goalVars,
                  Gates!vars, Talks!vars, Debate!vars, Route!vars, Intent!vars
<1>2. CASE VetPlans
      BY <1>2 DEF VetPlans, loopVars, talkVars, debateVars, routeVars, goalVars,
                  React!vars, Talks!vars, Debate!vars, Route!vars, Intent!vars
<1>3. CASE Discuss
      BY <1>3 DEF Discuss, loopVars, gateVars, debateVars, routeVars, goalVars,
                  React!vars, Gates!vars, Debate!vars, Route!vars, Intent!vars
<1>4. CASE HoldDebate
      BY <1>4 DEF HoldDebate, loopVars, gateVars, talkVars, routeVars, goalVars,
                  React!vars, Gates!vars, Talks!vars, Route!vars, Intent!vars
<1>5. CASE RouteGoals
      BY <1>5 DEF RouteGoals, loopVars, gateVars, talkVars, debateVars, goalVars,
                  React!vars, Gates!vars, Talks!vars, Debate!vars, Intent!vars
<1>6. CASE AnalyzeGoal
      BY <1>6 DEF AnalyzeGoal, loopVars, gateVars, talkVars, debateVars, routeVars,
                  React!vars, Gates!vars, Talks!vars, Debate!vars, Route!vars
<1>7. CASE UNCHANGED reasoningVars
      BY <1>7 DEF reasoningVars, loopVars, gateVars, talkVars, debateVars, routeVars, goalVars,
                  React!vars, Gates!vars, Talks!vars, Debate!vars, Route!vars, Intent!vars
<1>8. QED
      BY <1>1, <1>2, <1>3, <1>4, <1>5, <1>6, <1>7 DEF ReasoningNext

(* What the services that a model's answers steer promise, each its own,     *)
(* holds of their composition: ReasoningSafe of ReasoningServices.           *)
THEOREM ReasoningCorrect == ReasoningSpec => []ReasoningSafe
<1>1. ReasoningInit => React!Init /\ Gates!Init /\ Talks!Init /\ Debate!Init /\ Route!Init /\ Intent!Init
      BY DEF ReasoningInit
<1>2. [ReasoningNext]_reasoningVars =>
          /\ [React!Next]_(React!vars) /\ [Gates!Next]_(Gates!vars) /\ [Talks!Next]_(Talks!vars)
          /\ [Debate!Next]_(Debate!vars) /\ [Route!Next]_(Route!vars) /\ [Intent!Next]_(Intent!vars)
      BY ReasoningSteps
<1>3. ReasoningSpec => /\ React!Spec /\ Gates!Spec /\ Talks!Spec
                       /\ Debate!Spec /\ Route!Spec /\ Intent!Spec
      BY <1>1, <1>2, PTL DEF ReasoningSpec, React!Spec, Gates!Spec, Talks!Spec, Debate!Spec, Route!Spec, Intent!Spec
<1>4. ReasoningSpec => /\ []React!Safe /\ []Gates!Safe /\ []Talks!Safe
                       /\ []Debate!DebateIsTold /\ []Route!Safe /\ []Intent!Safe
      BY <1>3, ToolLoopCorrect, GatesCorrect, DiscussionCorrect, DebateCorrect, RoutingCorrect, AnalysisCorrect, PTL
<1>5. QED
      BY <1>4, PTL DEF ReasoningSafe
=============================================================================
