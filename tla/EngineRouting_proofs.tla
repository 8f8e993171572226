------------------------ MODULE EngineRouting_proofs ------------------------
(***************************************************************************)
(* Proofs about EngineRouting.                                              *)
(***************************************************************************)
EXTENDS EngineRouting, FiniteSetTheorems, TLAPS

Distinct(s) == \A i, j \in DOMAIN s : s[i] = s[j] => i = j

(* What the rest of the proofs needs to know of a chain.                    *)
Tidy(ch) == ch \in Seq(Engine) /\ Distinct(ch)

EndsWith(ch, e) == ch # <<>> /\ ch[Len(ch)] = e

-----------------------------------------------------------------------------
(* Kept: what is kept of a chain, in its order.                             *)
LEMMA RankFacts ==
    ASSUME NEW S, S \subseteq Nat, IsFiniteSet(S)
    PROVE  /\ \A k \in 1..Cardinality(S) : \E i \in S : Cardinality(Before(S, i)) = k - 1
           /\ \A i \in S : Cardinality(Before(S, i)) \in 0..(Cardinality(S) - 1)
           /\ \A i, j \in S : Cardinality(Before(S, i)) = Cardinality(Before(S, j)) => i = j
<1> DEFINE n == Cardinality(S)
           r == [i \in S |-> Cardinality(Before(S, i))]
<1>1. n \in Nat
      BY FS_CardinalityType
<1>2. ASSUME NEW i \in S
      PROVE  /\ IsFiniteSet(Before(S, i))
             /\ Cardinality(Before(S, i)) \in 0..(n - 1)
  <2>1. /\ IsFiniteSet(S \ {i}) /\ Cardinality(S \ {i}) = n - 1
        BY FS_RemoveElement
  <2>2. Before(S, i) \in SUBSET (S \ {i})
        BY DEF Before
  <2>3. /\ IsFiniteSet(Before(S, i)) /\ Cardinality(Before(S, i)) <= Cardinality(S \ {i})
        BY <2>1, <2>2, FS_Subset
  <2>4. Cardinality(Before(S, i)) \in Nat
        BY <2>3, FS_CardinalityType
  <2>5. QED
        BY <1>1, <2>1, <2>3, <2>4
<1>3. ASSUME NEW i \in S, NEW j \in S, i < j
      PROVE  Cardinality(Before(S, i)) # Cardinality(Before(S, j))
  <2>1. Before(S, i) \in SUBSET Before(S, j)
    <3>1. ASSUME NEW k \in Before(S, i) PROVE k \in S /\ k < j
      <4>1. k \in S /\ k \in Nat /\ i \in Nat /\ j \in Nat /\ k < i
            BY DEF Before
      <4>2. QED
            BY <1>3, <4>1
    <3>2. QED
          BY <3>1 DEF Before
  <2>2. i \in Before(S, j) /\ i \notin Before(S, i)
        BY <1>3 DEF Before
  <2>3. Cardinality(Before(S, i)) = Cardinality(Before(S, j)) => Before(S, j) = Before(S, i)
        BY <1>2, <2>1, FS_Subset
  <2>4. QED
        BY <2>2, <2>3
<1>4. \A i, j \in S : Cardinality(Before(S, i)) = Cardinality(Before(S, j)) => i = j
      BY <1>3
<1>5. r \in Injection(S, 0..(n - 1))
      BY <1>2, <1>4 DEF Injection, IsInjective
<1>6. /\ IsFiniteSet(0..(n - 1)) /\ Cardinality(0..(n - 1)) = n
  <2>1. 0 \in Int /\ n - 1 \in Int
        BY <1>1
  <2>2. /\ IsFiniteSet(0..(n - 1))
        /\ Cardinality(0..(n - 1)) = IF 0 > n - 1 THEN 0 ELSE (n - 1) - 0 + 1
        BY <2>1, FS_Interval
  <2>3. QED
        BY <1>1, <2>2
<1>7. r \in Surjection(S, 0..(n - 1))
      BY <1>5, <1>6, FS_Injection
<1>8. \A k \in 0..(n - 1) : \E i \in S : Cardinality(Before(S, i)) = k
  <2>1. \A k \in 0..(n - 1) : \E i \in S : r[i] = k
        BY <1>7 DEF Surjection
  <2>2. QED
        BY <2>1
<1>9. \A k \in 1..n : k - 1 \in 0..(n - 1)
      BY <1>1
<1>10. QED
      BY <1>2, <1>4, <1>8, <1>9

LEMMA KeptFacts ==
    ASSUME NEW E, NEW ch \in Seq(E), NEW S, S \subseteq DOMAIN ch
    PROVE  /\ Kept(ch, S) \in Seq(E)
           /\ Members(Kept(ch, S)) = {ch[i] : i \in S}
           /\ Distinct(ch) => Distinct(Kept(ch, S))
           /\ Len(ch) \in S => EndsWith(Kept(ch, S), ch[Len(ch)])
<1> DEFINE n == Cardinality(S)
           pick(k) == CHOOSE i \in Place(S, k) : TRUE
<1>1. DOMAIN ch = 1..Len(ch) /\ Len(ch) \in Nat
      OBVIOUS
<1>2. IsFiniteSet(S) /\ S \subseteq Nat /\ n \in Nat
  <2>1. IsFiniteSet(1..Len(ch))
        BY <1>1, FS_Interval
  <2>2. IsFiniteSet(S)
        BY <1>1, <2>1, FS_Subset
  <2>3. QED
        BY <1>1, <2>2, FS_CardinalityType
<1>3. \A k \in 1..n : pick(k) \in S /\ Cardinality(Before(S, pick(k))) = k - 1
  <2>1. ASSUME NEW k \in 1..n PROVE Place(S, k) # {}
        BY <1>2, RankFacts DEF Place
  <2>2. \A k \in 1..n : pick(k) \in Place(S, k)
        BY <2>1
  <2>3. QED
        BY <2>2 DEF Place
<1>4. /\ \A i \in S : Cardinality(Before(S, i)) \in 0..(n - 1)
      /\ \A i, j \in S : Cardinality(Before(S, i)) = Cardinality(Before(S, j)) => i = j
      BY <1>2, RankFacts
<1>5. \A i \in S : /\ Cardinality(Before(S, i)) + 1 \in 1..n
                   /\ pick(Cardinality(Before(S, i)) + 1) = i
  <2>1. ASSUME NEW i \in S
        PROVE  /\ Cardinality(Before(S, i)) + 1 \in 1..n
               /\ pick(Cardinality(Before(S, i)) + 1) = i
    <3> DEFINE k == Cardinality(Before(S, i)) + 1
    <3>1. k \in 1..n /\ k - 1 = Cardinality(Before(S, i))
          BY <1>2, <1>4
    <3>2. pick(k) \in S /\ Cardinality(Before(S, pick(k))) = Cardinality(Before(S, i))
          BY <1>3, <3>1
    <3>3. pick(k) = i
          BY <1>4, <3>2
    <3>4. QED
          BY <3>1, <3>3
  <2>2. QED
        BY <2>1
<1> DEFINE kept == Kept(ch, S)
<1>6. kept = [k \in 1..n |-> ch[pick(k)]]
      BY DEF Kept
<1> HIDE DEF pick
<1>7. \A k \in 1..n : ch[pick(k)] \in E
      BY <1>1, <1>3
<1>8. /\ kept \in Seq(E) /\ Len(kept) = n /\ DOMAIN kept = 1..n
      /\ \A k \in 1..n : kept[k] = ch[pick(k)]
      BY <1>2, <1>6, <1>7
<1> HIDE DEF kept
<1>9. Members(kept) = {ch[i] : i \in S}
  <2>1. ASSUME NEW i \in S PROVE ch[i] \in Members(kept)
        BY <1>5, <1>8 DEF Members
  <2>2. ASSUME NEW k \in 1..n PROVE kept[k] \in {ch[i] : i \in S}
        BY <1>3, <1>8
  <2>3. QED
        BY <1>8, <2>1, <2>2 DEF Members
<1>10. Distinct(ch) => Distinct(kept)
  <2>1. SUFFICES ASSUME Distinct(ch), NEW k \in 1..n, NEW l \in 1..n, kept[k] = kept[l]
                 PROVE  k = l
        BY <1>8 DEF Distinct
  <2>2. pick(k) = pick(l)
        BY <1>3, <1>8, <2>1 DEF Distinct
  <2>3. k - 1 = l - 1
        BY <1>3, <2>2
  <2>4. QED
        BY <1>2, <2>3
<1>11. ASSUME Len(ch) \in S
       PROVE  EndsWith(kept, ch[Len(ch)])
  <2>1. \A i \in S : i = Len(ch) \/ i < Len(ch)
        BY <1>1
  <2>2. Before(S, Len(ch)) = S \ {Len(ch)}
        BY <2>1, <1>1 DEF Before
  <2>3. Cardinality(Before(S, Len(ch))) = n - 1
        BY <1>2, <1>11, <2>2, FS_RemoveElement
  <2>4. n \in 1..n /\ pick(n) = Len(ch)
    <3>1. /\ Cardinality(Before(S, Len(ch))) + 1 = n
          BY <1>2, <2>3
    <3>2. QED
          BY <1>5, <1>11, <3>1
  <2>5. QED
        BY <1>8, <2>4 DEF EndsWith
<1>12. QED
       BY <1>8, <1>9, <1>10, <1>11 DEF kept

LEMMA ExceptFacts ==
    ASSUME NEW ch, Tidy(ch), NEW e
    PROVE  /\ Tidy(Except(ch, e)) /\ Members(Except(ch, e)) = Members(ch) \ {e}
           /\ \A f : EndsWith(ch, f) /\ f # e => EndsWith(Except(ch, e), f)
<1> DEFINE S == {i \in DOMAIN ch : ch[i] # e}
<1>1. ch \in Seq(Engine) /\ Distinct(ch) /\ S \subseteq DOMAIN ch
      BY DEF Tidy
<1>2. /\ Kept(ch, S) \in Seq(Engine) /\ Members(Kept(ch, S)) = {ch[i] : i \in S}
      /\ Distinct(Kept(ch, S)) /\ (Len(ch) \in S => EndsWith(Kept(ch, S), ch[Len(ch)]))
      BY <1>1, KeptFacts
<1>3. {ch[i] : i \in S} = Members(ch) \ {e}
      BY DEF Members
<1>4. \A f : EndsWith(ch, f) /\ f # e => Len(ch) \in S /\ ch[Len(ch)] = f
      BY <1>1 DEF EndsWith
<1>5. Except(ch, e) = Kept(ch, S)
      BY DEF Except
<1>6. QED
      BY <1>2, <1>3, <1>4, <1>5 DEF Tidy

LEMMA FirstPlace ==
    ASSUME NEW ch, Tidy(ch), NEW e \in Engine
    PROVE  /\ Tidy(Promote(e, ch)) /\ Promote(e, ch) # <<>>
           /\ Members(Promote(e, ch)) = Members(ch) \cup {e}
           /\ \A f : EndsWith(ch, f) /\ f # e => EndsWith(Promote(e, ch), f)
<1> DEFINE rest == Except(ch, e)
           new == Promote(e, ch)
<1>1. /\ Tidy(rest) /\ Members(rest) = Members(ch) \ {e}
      /\ \A f : EndsWith(ch, f) /\ f # e => EndsWith(rest, f)
      BY ExceptFacts
<1>2. rest \in Seq(Engine) /\ new = <<e>> \o rest
      BY <1>1 DEF Tidy, Promote
<1> HIDE DEF rest, new
<1>3. /\ new \in Seq(Engine) /\ Len(new) = Len(rest) + 1 /\ Len(rest) \in Nat
      /\ new[1] = e /\ \A i \in 1..Len(rest) : new[i + 1] = rest[i]
      BY <1>2
<1>4. \A i \in DOMAIN new : i = 1 \/ (i - 1 \in 1..Len(rest) /\ new[i] = rest[i - 1])
  <2>1. ASSUME NEW i \in DOMAIN new, i # 1
        PROVE  i - 1 \in 1..Len(rest) /\ new[(i - 1) + 1] = rest[i - 1] /\ (i - 1) + 1 = i
        BY <1>3, <2>1
  <2>2. QED
        BY <2>1
<1>5. DOMAIN rest = 1..Len(rest) /\ \A i \in DOMAIN rest : rest[i] \in Members(rest)
      BY <1>2 DEF Members
<1>6. Distinct(new)
  <2>1. SUFFICES ASSUME NEW i \in DOMAIN new, NEW j \in DOMAIN new, new[i] = new[j]
                 PROVE  i = j
        BY DEF Distinct
  <2>2. CASE i = 1 /\ j = 1
        BY <2>2
  <2>3. CASE i # 1 /\ j # 1
    <3>1. i - 1 \in DOMAIN rest /\ j - 1 \in DOMAIN rest /\ rest[i - 1] = rest[j - 1]
          BY <1>4, <1>5, <2>1, <2>3
    <3>2. i - 1 = j - 1 /\ i \in Int /\ j \in Int
          BY <1>1, <1>3, <3>1 DEF Tidy, Distinct
    <3>3. QED
          BY <3>2
  <2>4. CASE i = 1 /\ j # 1
        BY <1>1, <1>3, <1>4, <1>5, <2>1, <2>4
  <2>5. CASE i # 1 /\ j = 1
        BY <1>1, <1>3, <1>4, <1>5, <2>1, <2>5
  <2>6. QED
        BY <2>2, <2>3, <2>4, <2>5
<1>7. Members(new) = Members(rest) \cup {e}
  <2>1. ASSUME NEW i \in DOMAIN rest PROVE rest[i] \in Members(new)
    <3>1. i + 1 \in DOMAIN new /\ new[i + 1] = rest[i]
          BY <1>3, <1>5
    <3>2. QED
          BY <3>1 DEF Members
  <2>2. e \in Members(new)
        BY <1>3 DEF Members
  <2>3. ASSUME NEW i \in DOMAIN new PROVE new[i] \in Members(rest) \cup {e}
        BY <1>3, <1>4, <1>5
  <2>4. QED
        BY <2>1, <2>2, <2>3 DEF Members
<1>8. ASSUME NEW f, EndsWith(rest, f) PROVE EndsWith(new, f)
      BY <1>2, <1>3, <1>8 DEF EndsWith
<1>9. e \in Members(ch) \/ e \notin Members(ch)
      OBVIOUS
<1>10. Members(new) = Members(ch) \cup {e}
       BY <1>1, <1>7
<1>11. Tidy(new) /\ new # <<>>
       BY <1>3, <1>6 DEF Tidy
<1>12. QED
       BY <1>1, <1>8, <1>10, <1>11 DEF new

LEMMA LastPlace ==
    ASSUME NEW ch, Tidy(ch)
    PROVE  /\ Tidy(OllamaLast(ch)) /\ EndsWith(OllamaLast(ch), "OLLAMA")
           /\ Members(OllamaLast(ch)) = Members(ch) \cup {"OLLAMA"}
<1> DEFINE rest == Except(ch, "OLLAMA")
           new == OllamaLast(ch)
<1>1. Tidy(rest) /\ Members(rest) = Members(ch) \ {"OLLAMA"}
      BY ExceptFacts
<1>2. rest \in Seq(Engine) /\ Distinct(rest) /\ new = Append(rest, "OLLAMA") /\ "OLLAMA" \in Engine
      BY <1>1 DEF Tidy, OllamaLast, Engine
<1> HIDE DEF rest, new
<1>3. /\ new \in Seq(Engine) /\ Len(new) = Len(rest) + 1 /\ Len(rest) \in Nat
      /\ new[Len(new)] = "OLLAMA" /\ \A i \in 1..Len(rest) : new[i] = rest[i]
      BY <1>2
<1>4. /\ DOMAIN rest = 1..Len(rest) /\ DOMAIN new = 1..Len(new)
      /\ \A i \in DOMAIN rest : rest[i] \in Members(rest)
      BY <1>2, <1>3 DEF Members
<1>5. \A i \in DOMAIN new : i = Len(new) \/ i \in DOMAIN rest
      BY <1>3, <1>4
<1>6. Distinct(new)
      BY <1>1, <1>2, <1>3, <1>4, <1>5 DEF Distinct
<1>7. Members(new) = Members(rest) \cup {"OLLAMA"}
  <2>1. ASSUME NEW i \in DOMAIN rest PROVE rest[i] \in Members(new)
        BY <1>3, <1>4 DEF Members
  <2>2. "OLLAMA" \in Members(new)
        BY <1>3, <1>4 DEF Members
  <2>3. ASSUME NEW i \in DOMAIN new PROVE new[i] \in Members(rest) \cup {"OLLAMA"}
        BY <1>3, <1>4, <1>5
  <2>4. QED
        BY <2>1, <2>2, <2>3 DEF Members
<1>8. EndsWith(new, "OLLAMA")
      BY <1>3 DEF EndsWith
<1>9. QED
      BY <1>1, <1>3, <1>6, <1>7, <1>8 DEF Tidy, new

LEMMA Counting ==
    ASSUME NEW ch, Tidy(ch)
    PROVE  Cardinality(Members(ch)) = Len(ch)
<1> DEFINE f == [i \in 1..Len(ch) |-> ch[i]]
<1>1. DOMAIN ch = 1..Len(ch) /\ Len(ch) \in Nat /\ Distinct(ch)
      BY DEF Tidy
<1>2. f \in Bijection(1..Len(ch), Members(ch))
      BY <1>1 DEF Bijection, Injection, Surjection, IsInjective, Members, Distinct
<1>3. ExistsBijection(1..Len(ch), Members(ch))
      BY <1>2 DEF ExistsBijection
<1>4. QED
      BY <1>1, <1>3, FS_CountingElements

(* The chains of the router and of the council.                             *)
InOrder(q, ch) ==
    /\ Tidy(ch) /\ ch # <<>>
    /\ Members(WithFallbacks(q)) \subseteq Members(ch)
    /\ q.preferred # "OLLAMA" => EndsWith(ch, "OLLAMA")
    /\ ~q.budget => Members(ch) \subseteq {"OLLAMA", q.preferred}

LEMMA FallbackFacts ==
    ASSUME NEW e \in Engine
    PROVE  /\ Tidy(Chains[e]) /\ EndsWith(Chains[e], "OLLAMA")
<1>1. Tidy(Fallbacks[e])
  <2>1. CASE e = "OLLAMA"
    <3>1. Fallbacks[e] = <<>>
          BY <2>1 DEF Fallbacks
    <3>2. QED
          BY <3>1 DEF Tidy, Distinct
  <2>2. CASE e = "CODEX_CLI"
    <3>1. Fallbacks[e] = <<"CLAUDE_CODE", "OLLAMA">>
          BY <2>2 DEF Fallbacks
    <3>2. QED
          BY <3>1 DEF Tidy, Distinct, Engine
  <2>3. ASSUME NEW a \in Engine, NEW b \in Engine, a # b, a # "OLLAMA", b # "OLLAMA",
               Fallbacks[e] = <<a, b, "OLLAMA">>
        PROVE  Tidy(Fallbacks[e])
        BY <2>3 DEF Tidy, Distinct, Engine
  <2>4. CASE e \in {"OPENHANDS", "CLAUDE_CODE", "GEMINI_CLI", "ADK"}
    <3>1. \E a, b \in Engine : a # b /\ a # "OLLAMA" /\ b # "OLLAMA" /\ Fallbacks[e] = <<a, b, "OLLAMA">>
          BY <2>4 DEF Fallbacks, Engine
    <3>2. QED
          BY <2>3, <3>1
  <2>5. QED
        BY <2>1, <2>2, <2>4 DEF Engine
<1>2. Tidy(Promote(e, Fallbacks[e]))
      BY <1>1, FirstPlace
<1>3. QED
      BY <1>2, LastPlace DEF Chains

LEMMA RouterFacts ==
    ASSUME NEW q \in Query
    PROVE  /\ Tidy(WithFallbacks(q)) /\ EndsWith(WithFallbacks(q), "OLLAMA")
           /\ ~q.budget => Members(WithFallbacks(q)) = {"OLLAMA"}
<1>1. Select(q) \in Engine
  <2>1. q.type \in TaskType
        BY DEF Query
  <2>2. Primary[q.type] \in Engine
        BY <2>1 DEF TaskType, Primary, Engine
  <2>3. QED
        BY <2>2 DEF Select, Engine
<1>2. CASE q.budget
      BY <1>1, <1>2, FallbackFacts DEF WithFallbacks
<1>3. CASE ~q.budget
  <2>1. WithFallbacks(q) = <<"OLLAMA">>
        BY <1>3 DEF WithFallbacks
  <2>2. QED
        BY <2>1 DEF Tidy, Distinct, EndsWith, Members, Engine
<1>4. QED
      BY <1>2, <1>3

LEMMA BaseChainsInOrder ==
    ASSUME NEW q \in Query, NEW s, NEW ch \in BaseChains(q, s)
    PROVE  InOrder(q, ch)
<1> DEFINE w == WithFallbacks(q)
<1>1. /\ Tidy(w) /\ EndsWith(w, "OLLAMA")
      /\ ~q.budget => Members(w) = {"OLLAMA"}
      BY RouterFacts
<1> HIDE DEF w
<1>2. w # <<>>
      BY <1>1 DEF EndsWith
<1>3. CASE ch = w
      BY <1>1, <1>2, <1>3 DEF InOrder, w
<1>4. CASE q.preferred # NoEngine
  <2>1. ch = Promote(q.preferred, w) /\ q.preferred \in Engine
        BY <1>4 DEF BaseChains, Query, w
  <2>2. /\ Tidy(ch) /\ ch # <<>> /\ Members(ch) = Members(w) \cup {q.preferred}
        /\ q.preferred # "OLLAMA" => EndsWith(ch, "OLLAMA")
        BY <1>1, <2>1, FirstPlace
  <2>3. QED
        BY <1>1, <2>2 DEF InOrder, w
<1>5. CASE q.preferred = NoEngine /\ ch # w
  <2>1. ch \in WithAffinity(q, s)
        BY <1>5 DEF BaseChains
  <2>2. PICK e \in Engine : q.budget /\ ch = OllamaLast(Promote(e, w))
        BY <1>5, <2>1 DEF WithAffinity, Best, w
  <2>3. Tidy(Promote(e, w)) /\ Members(Promote(e, w)) = Members(w) \cup {e}
        BY <1>1, FirstPlace
  <2>4. Tidy(ch) /\ EndsWith(ch, "OLLAMA") /\ Members(ch) = Members(Promote(e, w)) \cup {"OLLAMA"}
        BY <2>2, <2>3, LastPlace
  <2>5. ch # <<>>
        BY <2>4 DEF EndsWith
  <2>6. QED
        BY <2>2, <2>3, <2>4, <2>5 DEF InOrder, w
<1>6. QED
      BY <1>3, <1>4, <1>5

LEMMA CouncilChainInOrder ==
    ASSUME NEW q \in Query, NEW ch, InOrder(q, ch), NEW e \in Members(TopTwo(ch))
    PROVE  InOrder(q, CouncilChain(e, ch))
<1> DEFINE rest == Except(ch, "OLLAMA")
           new == CouncilChain(e, ch)
<1>1. Tidy(ch) /\ Tidy(rest) /\ Members(rest) \subseteq Members(ch)
      BY ExceptFacts DEF InOrder
<1>2. e \in Members(rest)
  <2>1. rest \in Seq(Engine) /\ Len(rest) \in Nat
        BY <1>1 DEF Tidy
  <2>2. PICK n \in 0..Len(rest) : TopTwo(ch) = SubSeq(rest, 1, n)
        BY <2>1 DEF TopTwo
  <2>3. \A i \in DOMAIN SubSeq(rest, 1, n) : i \in DOMAIN rest /\ SubSeq(rest, 1, n)[i] = rest[i]
        BY <2>1, <2>2
  <2>4. QED
        BY <2>2, <2>3 DEF Members
<1>3. e \in Members(ch) /\ e \in Engine
  <2>1. e \in Members(ch)
        BY <1>1, <1>2
  <2>2. ch \in Seq(Engine)
        BY <1>1 DEF Tidy
  <2>3. QED
        BY <2>1, <2>2 DEF Members
<1>4. Tidy(Promote(e, ch)) /\ Members(Promote(e, ch)) = Members(ch) \cup {e}
      BY <1>1, <1>3, FirstPlace
<1>5. /\ Tidy(new) /\ EndsWith(new, "OLLAMA")
      /\ Members(new) = Members(ch) \cup {"OLLAMA"}
      BY <1>3, <1>4, LastPlace DEF CouncilChain
<1>6. new # <<>>
      BY <1>5 DEF EndsWith
<1> HIDE DEF new
<1>7. QED
      BY <1>5, <1>6 DEF InOrder, new

-----------------------------------------------------------------------------
(* Types, chains in order, and what a stage takes for granted.              *)
OrderInv ==
    \A c \in Call : /\ chain[c] # <<>> => InOrder(ask[c].q, chain[c])
                    /\ at[c] = "debate" => chain[c] # <<>>
                    /\ at[c] = "running" => Left(c) /\ Candidate(c) \in Registered
                    /\ at[c] \in {"affinity", "scored"} => answer[c].engine \in Engine

Reason == {"", "not_registered", "unavailable", "exception", "failure"}
Attempt == [engine : Engine, reason : Reason]
Choices == [type : {"reason", "council", "insight"}, call : Call]

LEMMA StateFacts ==
    ASSUME NEW s \in States
    PROVE  /\ s.exists \in BOOLEAN /\ s.history \in Seq(Noted) /\ s.decisions \in SUBSET Choices
           /\ \A h \in Seq(Noted) : LET t == [s EXCEPT !.history = h] IN
                t \in States /\ t.history = h
           /\ \A D \in SUBSET Choices : LET t == [s EXCEPT !.decisions = D] IN
                t \in States /\ t.history = s.history
           /\ \A a \in Noted : /\ AddAction(s, a) \in States
                               /\ AddAction(s, a).history = Append(s.history, a)
           /\ \A d \in Choices : /\ AddDecision(s, d) \in States
                                 /\ AddDecision(s, d).history = s.history
<1>1. s.exists \in BOOLEAN /\ s.history \in Seq(Noted) /\ s.decisions \in SUBSET Choices
      BY DEF States, Choices
<1>2. ASSUME NEW h \in Seq(Noted)
      PROVE  LET t == [s EXCEPT !.history = h] IN t \in States /\ t.history = h
      BY DEF States
<1>3. ASSUME NEW D \in SUBSET Choices
      PROVE  LET t == [s EXCEPT !.decisions = D] IN t \in States /\ t.history = s.history
      BY DEF States, Choices
<1>4. ASSUME NEW a \in Noted
      PROVE  AddAction(s, a) \in States /\ AddAction(s, a).history = Append(s.history, a)
  <2>1. Append(s.history, a) \in Seq(Noted)
        BY <1>1
  <2>2. AddAction(s, a) = [s EXCEPT !.history = Append(s.history, a)]
        BY DEF AddAction, States
  <2>3. QED
        BY <1>2, <2>1, <2>2
<1>5. ASSUME NEW d \in Choices
      PROVE  AddDecision(s, d) \in States /\ AddDecision(s, d).history = s.history
  <2>1. s.decisions \cup {d} \in SUBSET Choices
        BY <1>1
  <2>2. AddDecision(s, d) = [s EXCEPT !.decisions = s.decisions \cup {d}]
        BY DEF AddDecision, States
  <2>3. QED
        BY <1>3, <2>1, <2>2
<1>6. QED
      BY <1>1, <1>2, <1>3, <1>4, <1>5

LEMMA NewStates ==
    /\ NoState \in States /\ Created \in States
    /\ NoState.history = <<>> /\ Created.history = <<>>
<1>1. NoState \in States /\ NoState.history = <<>>
      BY DEF NoState, States
<1>2. Created \in States /\ Created.history = NoState.history
      BY <1>1 DEF Created, States
<1>3. Created \in States /\ Created.history = <<>>
      BY <1>1, <1>2
<1>4. QED
      BY <1>1, <1>3

LEMMA AskFacts ==
    ASSUME ask \in Workloads, NEW c \in Call
    PROVE  ask[c].q \in Query /\ ask[c].extract \in BOOLEAN
BY RoutingAssumption DEF Ask

LEMMA InitOrder == Init => TypeOK /\ OrderInv
<1> SUFFICES ASSUME Init PROVE TypeOK /\ OrderInv
    OBVIOUS
<1> USE DEF Init
<1>1. ask \in Workloads /\ base \in Beginnings /\ samples \in [Engine -> Nat]
      BY RoutingAssumption
<1>2. at \in [Call -> Stage]
      BY DEF Stage
<1>3. /\ chain \in [Call -> Seq(Engine)]
      /\ attempts \in [Call -> Seq([engine : Engine, reason :
            {"", "not_registered", "unavailable", "exception", "failure"}])]
      /\ answer \in [Call -> [engine : Engine \cup {NoEngine}, success : BOOLEAN]]
      /\ sampled \in [Call -> Nat]
      BY DEF NoAnswer
<1>4. state \in States /\ copy \in [Call -> States] /\ read \in [Call -> States]
      BY NewStates
<1>5. faults \in 0..MaxFaults
      BY RoutingAssumption
<1>6. OrderInv
      BY DEF OrderInv
<1>7. QED
      BY <1>1, <1>2, <1>3, <1>4, <1>5, <1>6 DEF TypeOK

LEMMA OrderStep ==
    ASSUME TypeOK, OrderInv, NEW c \in Call, Step(c) \/ Swallow(c) \/ FailHandOff(c)
    PROVE  TypeOK' /\ OrderInv'
<1> USE DEF Goto, AfterRoute, AfterInsights
<1>1. /\ ask \in Workloads /\ at \in [Call -> Stage] /\ chain \in [Call -> Seq(Engine)]
      /\ samples \in [Engine -> Nat] /\ sampled \in [Call -> Nat] /\ faults \in 0..MaxFaults
      /\ state \in States /\ copy \in [Call -> States] /\ read \in [Call -> States]
      /\ MaxFaults \in Nat /\ ask[c].q \in Query
      BY AskFacts, RoutingAssumption DEF TypeOK
<1>2. \A a \in {"handoff", "execute", "received_handoff"} : Action(a, c) \in Noted
      BY DEF Action, Noted
<1>3. \A d \in {"reason", "council", "insight"} : Action(d, c) \in Choices
      BY DEF Action, Choices
<1>4. ASSUME HandOff(c)
      PROVE  TypeOK' /\ OrderInv'
  <2> DEFINE found == IF state.exists THEN state ELSE Created
  <2>1. found \in States
        BY <1>1, NewStates
  <2>2. AddAction(found, Action("handoff", c)) \in States
        BY <1>2, <2>1, StateFacts
  <2>3. AddDecision(AddAction(found, Action("handoff", c)), Action("reason", c)) \in States
        BY <1>3, <2>2, StateFacts
  <2>4. copy' \in [Call -> States]
        BY <1>1, <1>4, <2>3 DEF HandOff
  <2>5. QED
        BY <1>4, <2>4 DEF HandOff, TypeOK, OrderInv, Stage, Left, Candidate
<1>5. CASE SaveHandOff(c)
      BY <1>1, <1>5 DEF SaveHandOff, TypeOK, OrderInv, Stage, Left, Candidate
<1>6. CASE BuildChain(c)
  <2>1. PICK ch \in BaseChains(ask[c].q, samples) :
            /\ chain' = [chain EXCEPT ![c] = ch]
            /\ Goto(c, IF Council /\ Debatable(ask[c].q, ch) THEN "debate" ELSE "try")
        BY <1>6 DEF BuildChain
  <2>2. InOrder(ask[c].q, ch) /\ ch # <<>> /\ ch \in Seq(Engine)
        BY <1>1, BaseChainsInOrder DEF InOrder, Tidy
  <2>3. chain' \in [Call -> Seq(Engine)] /\ at' \in [Call -> Stage]
        BY <1>1, <2>1, <2>2 DEF Stage
  <2>4. OrderInv'
        BY <1>1, <1>6, <2>1, <2>2 DEF OrderInv, BuildChain, Left, Candidate
  <2>5. QED
        BY <1>6, <2>3, <2>4 DEF BuildChain, TypeOK
<1>7. CASE Debate(c)
  <2>1. InOrder(ask[c].q, chain[c])
        BY <1>7 DEF Debate, OrderInv
  <2>2. /\ chain' \in [Call -> Seq(Engine)] /\ chain'[c] # <<>>
        /\ InOrder(ask[c].q, chain'[c]) /\ \A d \in Call \ {c} : chain'[d] = chain[d]
    <3>1. CASE chain' = chain
          BY <1>1, <2>1, <3>1 DEF InOrder
    <3>2. ASSUME NEW e \in Members(TopTwo(chain[c])),
                 chain' = [chain EXCEPT ![c] = CouncilChain(e, chain[c])]
          PROVE  /\ chain' \in [Call -> Seq(Engine)] /\ chain'[c] # <<>>
                 /\ InOrder(ask[c].q, chain'[c]) /\ \A d \in Call \ {c} : chain'[d] = chain[d]
      <4>1. InOrder(ask[c].q, CouncilChain(e, chain[c]))
            BY <1>1, <2>1, CouncilChainInOrder
      <4>2. CouncilChain(e, chain[c]) \in Seq(Engine) /\ CouncilChain(e, chain[c]) # <<>>
            BY <4>1 DEF InOrder, Tidy
      <4>3. QED
            BY <1>1, <3>2, <4>1, <4>2
    <3>3. QED
          BY <1>7, <3>1, <3>2 DEF Debate
  <2>3. /\ at' \in [Call -> Stage] /\ at'[c] # "debate" /\ \A d \in Call \ {c} : at'[d] = at[d]
        BY <1>1, <1>7 DEF Debate, Stage
  <2>4. OrderInv'
        BY <1>7, <2>2, <2>3 DEF OrderInv, Debate, Left, Candidate
  <2>5. QED
        BY <1>7, <2>2, <2>3, <2>4 DEF Debate, TypeOK
<1>8. CASE ReadForDecision(c)
  <2>1. AddDecision(state, Action("council", c)) \in States
        BY <1>1, <1>3, StateFacts
  <2>2. QED
        BY <1>1, <1>8, <2>1 DEF ReadForDecision, TypeOK, OrderInv, Stage, Left, Candidate
<1>9. CASE UpdateDecisions(c)
  <2>1. read[c].decisions \in SUBSET Choices
        BY <1>1, StateFacts
  <2>2. [state EXCEPT !.decisions = read[c].decisions] \in States
        BY <1>1, <2>1, StateFacts
  <2>3. state' \in States
        BY <1>1, <1>9, <2>2 DEF UpdateDecisions
  <2>4. QED
        BY <1>1, <1>9, <2>3 DEF UpdateDecisions, TypeOK, OrderInv, Stage, Left, Candidate
<1>10. \A r \in Reason : Left(c) /\ Attempted(c, r) => attempts' \in [Call -> Seq(Attempt)]
  <2>1. chain[c] \in Seq(Engine) /\ attempts \in [Call -> Seq(Attempt)]
        BY DEF TypeOK, Attempt, Reason
  <2>2. Len(attempts[c]) \in Nat /\ Len(chain[c]) \in Nat
        BY <2>1
  <2>3. ASSUME Left(c) PROVE Candidate(c) \in Engine
    <3>1. Len(attempts[c]) + 1 \in 1..Len(chain[c])
          BY <2>2, <2>3 DEF Left
    <3>2. QED
          BY <2>1, <3>1 DEF Candidate
  <2>4. ASSUME NEW r \in Reason, Left(c), Attempted(c, r)
        PROVE  attempts' \in [Call -> Seq(Attempt)]
    <3> DEFINE new == [engine |-> Candidate(c), reason |-> r]
    <3>1. new \in Attempt
          BY <2>3, <2>4 DEF Attempt
    <3> HIDE DEF new
    <3>2. Append(attempts[c], new) \in Seq(Attempt)
          BY <2>1, <3>1
    <3>3. attempts' = [attempts EXCEPT ![c] = Append(attempts[c], new)]
          BY <2>4 DEF Attempted, new
    <3>4. QED
          BY <2>1, <3>2, <3>3
  <2>5. QED
        BY <2>4
<1>11. CASE Skip(c)
  <2>1. attempts' \in [Call -> Seq(Attempt)]
        BY <1>10, <1>11 DEF Skip, Reason
  <2>2. \A d \in Call \ {c} : attempts'[d] = attempts[d]
        BY <1>11 DEF Skip, Attempted, TypeOK
  <2>3. OrderInv'
        BY <1>11, <2>2 DEF Skip, OrderInv, Left, Candidate
  <2>4. QED
        BY <1>11, <2>1, <2>3 DEF Skip, TypeOK, Attempt, Reason
<1>12. CASE RunTask(c)
      BY <1>1, <1>12 DEF RunTask, TypeOK, OrderInv, Stage, Left, Candidate
<1>13. CASE Failed(c)
  <2>1. Left(c) /\ Candidate(c) \in Engine
        BY <1>13, RoutingAssumption DEF Failed, OrderInv
  <2>2. attempts' \in [Call -> Seq(Attempt)]
        BY <1>10, <1>13, <2>1 DEF Failed, Reason
  <2>3. \A d \in Call \ {c} : attempts'[d] = attempts[d] /\ answer'[d] = answer[d]
        BY <1>13 DEF Failed, Attempted, TypeOK
  <2>4. answer' \in [Call -> [engine : Engine \cup {NoEngine}, success : BOOLEAN]]
        BY <1>13, <2>1 DEF Failed, TypeOK
  <2>5. OrderInv'
        BY <1>1, <1>13, <2>3 DEF Failed, OrderInv, Left, Candidate
  <2>6. QED
        BY <1>1, <1>13, <2>2, <2>4, <2>5 DEF Failed, TypeOK, Attempt, Reason, Stage
<1>14. CASE Succeeded(c)
  <2>1. Left(c) /\ Candidate(c) \in Engine
        BY <1>14, RoutingAssumption DEF Succeeded, OrderInv
  <2>2. attempts' \in [Call -> Seq(Attempt)]
        BY <1>10, <1>14, <2>1 DEF Succeeded, Reason
  <2>3. \A d \in Call \ {c} : attempts'[d] = attempts[d] /\ answer'[d] = answer[d]
        BY <1>14 DEF Succeeded, Attempted, TypeOK
  <2>4. /\ answer' \in [Call -> [engine : Engine \cup {NoEngine}, success : BOOLEAN]]
        /\ answer'[c].engine \in Engine
        BY <1>14, <2>1 DEF Succeeded, TypeOK
  <2>5. OrderInv'
        BY <1>1, <1>14, <2>3, <2>4 DEF Succeeded, OrderInv, Left, Candidate
  <2>6. QED
        BY <1>1, <1>14, <2>2, <2>4, <2>5 DEF Succeeded, TypeOK, Attempt, Reason, Stage
<1>15. CASE AllFailed(c)
  <2>1. answer' \in [Call -> [engine : Engine \cup {NoEngine}, success : BOOLEAN]]
        BY <1>15 DEF AllFailed, TypeOK, Engine
  <2>2. at' \in [Call -> Stage] /\ at'[c] \in {"returned", "done"}
        BY <1>1, <1>15 DEF AllFailed, Stage
  <2>3. \A d \in Call \ {c} : answer'[d] = answer[d] /\ at'[d] = at[d]
        BY <1>15 DEF AllFailed, TypeOK
  <2>4. OrderInv'
        BY <1>15, <2>2, <2>3 DEF AllFailed, OrderInv, Left, Candidate
  <2>5. QED
        BY <1>15, <2>1, <2>2, <2>4 DEF AllFailed, TypeOK
<1>16. CASE ReadAffinity(c)
  <2>1. answer[c].engine \in Engine
        BY <1>16 DEF ReadAffinity, OrderInv
  <2>2. sampled' \in [Call -> Nat]
        BY <1>1, <1>16, <2>1 DEF ReadAffinity
  <2>3. QED
        BY <1>1, <1>16, <2>1, <2>2 DEF ReadAffinity, TypeOK, OrderInv, Stage, Left, Candidate
<1>17. CASE UpsertAffinity(c)
  <2>1. sampled[c] + 1 \in Nat
        BY <1>1
  <2>2. samples' \in [Engine -> Nat]
        BY <1>1, <1>17, <2>1 DEF UpsertAffinity
  <2>3. QED
        BY <1>1, <1>17, <2>2 DEF UpsertAffinity, TypeOK, OrderInv, Stage, Left, Candidate
<1>18. CASE ReadForAction(c)
      BY <1>1, <1>18 DEF ReadForAction, TypeOK, OrderInv, Stage, Left, Candidate
<1>19. CASE AppendAction(c)
  <2>1. Append(read[c].history, Action("execute", c)) \in Seq(Noted)
        BY <1>1, <1>2, StateFacts
  <2>2. [state EXCEPT !.history = Append(read[c].history, Action("execute", c))] \in States
        BY <1>1, <2>1, StateFacts
  <2>3. state' \in States
        BY <1>1, <1>19, <2>2 DEF AppendAction
  <2>4. QED
        BY <1>1, <1>19, <2>3 DEF AppendAction, TypeOK, OrderInv, Stage, Left, Candidate
<1>20. CASE Receive(c)
  <2>1. AddAction(copy[c], Action("received_handoff", c)) \in States
        BY <1>1, <1>2, StateFacts
  <2>2. copy' \in [Call -> States]
        BY <1>1, <1>20, <2>1 DEF Receive
  <2>3. QED
        BY <1>1, <1>20, <2>2 DEF Receive, TypeOK, OrderInv, Stage, Left, Candidate
<1>21. CASE ReadForInsights(c)
  <2> DEFINE found == IF state.exists THEN state ELSE Created
  <2>1. found \in States
        BY <1>1, NewStates
  <2>2. AddDecision(found, Action("insight", c)) \in States
        BY <1>3, <2>1, StateFacts
  <2>3. read' \in [Call -> States]
        BY <1>1, <1>21, <2>2 DEF ReadForInsights
  <2>4. QED
        BY <1>1, <1>21, <2>3 DEF ReadForInsights, TypeOK, OrderInv, Stage, Left, Candidate
<1>22. CASE SaveInsights(c)
      BY <1>1, <1>22 DEF SaveInsights, TypeOK, OrderInv, Stage, Left, Candidate
<1>23. CASE FinishHandOff(c)
      BY <1>1, <1>23 DEF FinishHandOff, TypeOK, OrderInv, Stage, Left, Candidate
<1>24. CASE Forget(c)
      BY <1>1, <1>24, NewStates DEF Forget, TypeOK, OrderInv, Stage, Left, Candidate
<1>25. CASE Swallow(c)
  <2>1. /\ at' \in [Call -> Stage] /\ at'[c] \notin {"debate", "running", "affinity", "scored"}
        /\ \A d \in Call \ {c} : at'[d] = at[d]
        BY <1>1, <1>25 DEF Swallow, Stage
  <2>2. faults' \in 0..MaxFaults
        BY <1>1, <1>25 DEF Swallow
  <2>3. UNCHANGED <<ask, chain, attempts, answer, base, samples, sampled, state, copy, read>>
        BY <1>25 DEF Swallow
  <2>4. OrderInv'
        BY <2>1, <2>3 DEF OrderInv, Left, Candidate
  <2>5. QED
        BY <2>1, <2>2, <2>3, <2>4 DEF TypeOK
<1>26. CASE FailHandOff(c)
  <2>1. /\ at' \in [Call -> Stage] /\ at'[c] \notin {"debate", "running", "affinity", "scored"}
        /\ \A d \in Call \ {c} : at'[d] = at[d]
        BY <1>1, <1>26 DEF FailHandOff, Stage
  <2>2. faults' \in 0..MaxFaults
        BY <1>1, <1>26 DEF FailHandOff
  <2>3. UNCHANGED <<ask, chain, attempts, answer, base, samples, sampled, state, copy, read>>
        BY <1>26 DEF FailHandOff
  <2>4. OrderInv'
        BY <2>1, <2>3 DEF OrderInv, Left, Candidate
  <2>5. QED
        BY <2>1, <2>2, <2>3, <2>4 DEF TypeOK
<1>27. QED
       BY <1>4, <1>5, <1>6, <1>7, <1>8, <1>9, <1>11, <1>12, <1>13, <1>14, <1>15, <1>16, <1>17,
          <1>18, <1>19, <1>20, <1>21, <1>22, <1>23, <1>24, <1>25, <1>26 DEF Step

-----------------------------------------------------------------------------
(* What the attempts of a call say about its answer.                        *)
Unrouted == {"idle", "handing", "routing"}
Waiting == Unrouted \cup {"debate", "decided", "deciding"}
Winning == {"affinity", "scored", "record", "appending"}
Ended == {"returned", "extracting", "insight", "finishing", "done"}

LastTried(c) == \E i \in Tried(c) : /\ answer[c].engine = chain[c][i]
                                   /\ \A j \in Tried(c) : j <= i

Explained(c) ==
    /\ at[c] \in Unrouted => chain[c] = <<>>
    /\ at[c] \in Waiting => attempts[c] = <<>> /\ answer[c] = NoAnswer
    /\ Len(attempts[c]) <= Len(chain[c])
    /\ \A i \in DOMAIN attempts[c] :
          /\ attempts[c][i].engine = chain[c][i]
          /\ attempts[c][i].reason = "" => i = Len(attempts[c]) /\ answer[c].success
    /\ answer[c].success => /\ at[c] \in Winning \cup Ended \cup {"failed"}
                            /\ attempts[c] # <<>>
                            /\ attempts[c][Len(attempts[c])] = [engine |-> answer[c].engine,
                                                                reason |-> ""]
    /\ at[c] \in Winning => answer[c].success
    /\ at[c] \in {"try", "running"} =>
          /\ Tried(c) = {} => answer[c] = NoAnswer
          /\ Tried(c) # {} => LastTried(c)
    /\ at[c] \in Ended /\ ~answer[c].success /\ chain[c] # <<>> =>
          /\ Len(attempts[c]) = Len(chain[c])
          /\ Tried(c) = {} => answer[c].engine = "OLLAMA"
          /\ Tried(c) # {} => LastTried(c)

ExplainInv == \A c \in Call : Explained(c)

LEMMA ExplainFrame ==
    ASSUME NEW d \in Call, Explained(d), at'[d] = at[d], chain'[d] = chain[d],
           attempts'[d] = attempts[d], answer'[d] = answer[d]
    PROVE  Explained(d)'
BY DEF Explained, Tried, LastTried

(* A call that only goes on: no attempt, no other answer.                   *)
LEMMA ExplainMove ==
    ASSUME NEW d \in Call, Explained(d), UNCHANGED <<chain, attempts, answer>>,
           at'[d] \in Unrouted => at[d] \in Unrouted,
           at'[d] \in Waiting => at[d] \in Waiting,
           answer[d].success => at'[d] \in Winning \cup Ended \cup {"failed"},
           at'[d] \in Winning => at[d] \in Winning,
           at'[d] \in {"try", "running"} => at[d] \in Waiting \cup {"try", "running"},
           at'[d] \in Ended => \/ at[d] \in Ended \cup Winning
                               \/ at[d] \in Unrouted
    PROVE  Explained(d)'
<1>1. Tried(d)' = Tried(d) /\ (LastTried(d)' <=> LastTried(d))
      BY DEF Tried, LastTried
<1>2. ASSUME at[d] \in Waiting PROVE Tried(d) = {} /\ answer[d] = NoAnswer
  <2>1. attempts[d] = <<>> /\ answer[d] = NoAnswer
        BY <1>2 DEF Explained
  <2>2. DOMAIN attempts[d] = {}
        BY <2>1
  <2>3. QED
        BY <2>1, <2>2 DEF Tried
<1>3. at[d] \in Unrouted => chain[d] = <<>>
      BY DEF Explained
<1>4. /\ at'[d] \in Unrouted => chain'[d] = <<>>
      /\ at'[d] \in Waiting => attempts'[d] = <<>> /\ answer'[d] = NoAnswer
      /\ at'[d] \in Winning => answer'[d].success
      BY DEF Explained
<1>5. at'[d] \in {"try", "running"} => /\ Tried(d) = {} => answer[d] = NoAnswer
                                       /\ Tried(d) # {} => LastTried(d)
  <2>1. CASE at[d] \in Waiting
        BY <1>2, <2>1
  <2>2. CASE at[d] \in {"try", "running"}
        BY <2>2 DEF Explained
  <2>3. QED
        BY <2>1, <2>2
<1>6. at'[d] \in Ended /\ ~answer[d].success /\ chain[d] # <<>> =>
          /\ Len(attempts[d]) = Len(chain[d])
          /\ Tried(d) = {} => answer[d].engine = "OLLAMA"
          /\ Tried(d) # {} => LastTried(d)
      BY DEF Explained
<1>7. QED
      BY <1>1, <1>4, <1>5, <1>6 DEF Explained

LEMMA ExplainInit == Init => ExplainInv
<1> SUFFICES ASSUME Init, NEW c \in Call PROVE Explained(c)
    BY DEF ExplainInv
<1>1. /\ at[c] \in {"idle", "done"} /\ chain[c] = <<>> /\ attempts[c] = <<>>
      /\ answer[c] = NoAnswer /\ ~answer[c].success
      BY DEF Init, NoAnswer
<1>2. Tried(c) = {}
      BY <1>1 DEF Tried
<1>3. QED
      BY <1>1, <1>2 DEF Explained, Unrouted, Waiting, Winning, Ended

LEMMA Fields ==
    ASSUME NEW a, NEW e, NEW r, a = [engine |-> e, reason |-> r]
    PROVE  a.engine = e /\ a.reason = r
OBVIOUS

LEMMA LastIndex ==
    ASSUME NEW S, NEW s \in Seq(S), s # <<>>
    PROVE  Len(s) \in DOMAIN s
<1>1. Len(s) \in Nat /\ DOMAIN s = 1..Len(s) /\ Len(s) # 0
      OBVIOUS
<1>2. QED
      BY <1>1

(* One more attempt.                                                        *)
LEMMA AttemptFacts ==
    ASSUME TypeOK, NEW c \in Call, NEW r \in Reason, Left(c), Attempted(c, r)
    PROVE  /\ Len(attempts'[c]) = Len(attempts[c]) + 1 /\ Len(attempts'[c]) <= Len(chain[c])
           /\ \A i \in DOMAIN attempts[c] :
                i \in DOMAIN attempts'[c] /\ attempts'[c][i] = attempts[c][i]
           /\ \A i \in DOMAIN attempts'[c] : i \in DOMAIN attempts[c] \/ i = Len(attempts'[c])
           /\ Len(attempts'[c]) \in DOMAIN attempts'[c] /\ attempts'[c] # <<>>
           /\ attempts'[c][Len(attempts'[c])] = [engine |-> Candidate(c), reason |-> r]
           /\ Candidate(c) = chain[c][Len(attempts'[c])]
           /\ Len(attempts'[c]) \in Nat /\ \A i \in DOMAIN attempts'[c] : i <= Len(attempts'[c])
           /\ \A d \in Call \ {c} : attempts'[d] = attempts[d]
<1> DEFINE new == [engine |-> Candidate(c), reason |-> r]
<1>1. chain[c] \in Seq(Engine) /\ attempts \in [Call -> Seq(Attempt)]
      BY DEF TypeOK, Attempt, Reason
<1>2. Len(attempts[c]) + 1 <= Len(chain[c]) /\ Len(attempts[c]) \in Nat
      BY <1>1 DEF Left
<1>3. Candidate(c) \in Engine
  <2>1. Len(attempts[c]) + 1 \in 1..Len(chain[c])
        BY <1>1, <1>2
  <2>2. QED
        BY <1>1, <2>1 DEF Candidate
<1>4. new \in Attempt
      BY <1>3 DEF Attempt
<1>5. attempts' = [attempts EXCEPT ![c] = Append(attempts[c], new)]
      BY DEF Attempted
<1> HIDE DEF new
<1>6. attempts'[c] = Append(attempts[c], new) /\ attempts[c] \in Seq(Attempt)
      BY <1>1, <1>5
<1>7. /\ Len(attempts'[c]) = Len(attempts[c]) + 1 /\ attempts'[c] # <<>>
      /\ DOMAIN attempts'[c] = 1..(Len(attempts[c]) + 1) /\ DOMAIN attempts[c] = 1..Len(attempts[c])
      /\ \A i \in 1..Len(attempts[c]) : attempts'[c][i] = attempts[c][i]
      /\ attempts'[c][Len(attempts[c]) + 1] = new
      BY <1>4, <1>6
<1>8. \A d \in Call \ {c} : attempts'[d] = attempts[d]
      BY <1>1, <1>5
<1>9. Candidate(c) = chain[c][Len(attempts'[c])]
      BY <1>7 DEF Candidate
<1>10. QED
       BY <1>2, <1>7, <1>8, <1>9 DEF new

LEMMA ExplainGo ==
    ASSUME TypeOK, ExplainInv, NEW c \in Call, NEW stage, Goto(c, stage),
           UNCHANGED <<chain, attempts, answer>>,
           \/ at[c] \in Unrouted /\ stage \in Unrouted \cup {"insight", "done", "failed"}
           \/ at[c] \in {"decided", "deciding"} /\ stage \in {"deciding", "try"}
           \/ at[c] = "try" /\ stage = "running"
           \/ at[c] \in Winning /\ stage \in Winning \cup Ended
           \/ at[c] \in Ended /\ stage \in Ended \cup {"failed"}
    PROVE  ExplainInv'
<1> SUFFICES ASSUME NEW d \in Call PROVE Explained(d)'
    BY DEF ExplainInv
<1>1. Explained(d) /\ Explained(c)
      BY DEF ExplainInv
<1>2. CASE d # c
  <2>1. at'[d] = at[d]
        BY <1>2 DEF Goto, TypeOK
  <2>2. QED
        BY <1>1, <2>1, ExplainFrame
<1>3. CASE d = c
  <2>1. at'[c] = stage
        BY DEF Goto, TypeOK
  <2>2. at[c] \notin Winning \cup Ended => ~answer[c].success \/ at[c] = "failed"
        BY <1>1 DEF Explained
  <2>3. at'[c] \in Unrouted => at[c] \in Unrouted
        BY <2>1 DEF Unrouted, Waiting, Winning, Ended
  <2>4. at'[c] \in Waiting => at[c] \in Waiting
        BY <2>1 DEF Unrouted, Waiting, Winning, Ended
  <2>5. answer[c].success => at'[c] \in Winning \cup Ended \cup {"failed"}
        BY <2>1, <2>2 DEF Unrouted, Waiting, Winning, Ended
  <2>6. at'[c] \in Winning => at[c] \in Winning
        BY <2>1 DEF Unrouted, Waiting, Winning, Ended
  <2>7. at'[c] \in {"try", "running"} => at[c] \in Waiting \cup {"try", "running"}
        BY <2>1 DEF Unrouted, Waiting, Winning, Ended
  <2>8. at'[c] \in Ended => at[c] \in Ended \cup Winning \/ at[c] \in Unrouted
        BY <2>1 DEF Unrouted, Waiting, Winning, Ended
  <2>9. QED
        BY <1>1, <1>3, <2>3, <2>4, <2>5, <2>6, <2>7, <2>8, ExplainMove
<1>4. QED
      BY <1>2, <1>3

LEMMA ExplainStep ==
    ASSUME TypeOK, OrderInv, ExplainInv, NEW c \in Call, Step(c) \/ Swallow(c) \/ FailHandOff(c)
    PROVE  ExplainInv'
<1>1. CASE HandOff(c)
      BY <1>1, ExplainGo
         DEF HandOff, AfterRoute, AfterInsights, Unrouted, Winning, Ended
<1>2. CASE SaveHandOff(c)
      BY <1>2, ExplainGo
         DEF SaveHandOff, AfterRoute, AfterInsights, Unrouted, Winning, Ended
<1>3. CASE ReadForDecision(c)
      BY <1>3, ExplainGo
         DEF ReadForDecision, AfterRoute, AfterInsights, Unrouted, Winning, Ended
<1>4. CASE UpdateDecisions(c)
      BY <1>4, ExplainGo
         DEF UpdateDecisions, AfterRoute, AfterInsights, Unrouted, Winning, Ended
<1>5. CASE RunTask(c)
      BY <1>5, ExplainGo
         DEF RunTask, AfterRoute, AfterInsights, Unrouted, Winning, Ended
<1>6. CASE ReadAffinity(c)
      BY <1>6, ExplainGo
         DEF ReadAffinity, AfterRoute, AfterInsights, Unrouted, Winning, Ended
<1>7. CASE UpsertAffinity(c)
      BY <1>7, ExplainGo
         DEF UpsertAffinity, AfterRoute, AfterInsights, Unrouted, Winning, Ended
<1>8. CASE ReadForAction(c)
      BY <1>8, ExplainGo
         DEF ReadForAction, AfterRoute, AfterInsights, Unrouted, Winning, Ended
<1>9. CASE AppendAction(c)
      BY <1>9, ExplainGo
         DEF AppendAction, AfterRoute, AfterInsights, Unrouted, Winning, Ended
<1>10. CASE Receive(c)
      BY <1>10, ExplainGo
         DEF Receive, AfterRoute, AfterInsights, Unrouted, Winning, Ended
<1>11. CASE ReadForInsights(c)
      BY <1>11, ExplainGo
         DEF ReadForInsights, AfterRoute, AfterInsights, Unrouted, Winning, Ended
<1>12. CASE SaveInsights(c)
      BY <1>12, ExplainGo
         DEF SaveInsights, AfterRoute, AfterInsights, Unrouted, Winning, Ended
<1>13. CASE FinishHandOff(c)
      BY <1>13, ExplainGo
         DEF FinishHandOff, AfterRoute, AfterInsights, Unrouted, Winning, Ended
<1>14. CASE Forget(c)
      BY <1>14, ExplainGo
         DEF Forget, AfterRoute, AfterInsights, Unrouted, Winning, Ended
<1>15. CASE Swallow(c)
      BY <1>15, ExplainGo
         DEF Swallow, AfterRoute, AfterInsights, Unrouted, Winning, Ended
<1>16. CASE FailHandOff(c)
      BY <1>16, ExplainGo
         DEF FailHandOff, AfterRoute, AfterInsights, Unrouted, Winning, Ended
<1>17. ASSUME \A d \in Call \ {c} : /\ at'[d] = at[d] /\ chain'[d] = chain[d]
                                    /\ attempts'[d] = attempts[d] /\ answer'[d] = answer[d],
              Explained(c)'
       PROVE  ExplainInv'
  <2>1. ASSUME NEW d \in Call \ {c} PROVE Explained(d)'
    <3>1. Explained(d)
          BY DEF ExplainInv
    <3>2. QED
          BY <1>17, <3>1, ExplainFrame
  <2>2. QED
        BY <1>17, <2>1 DEF ExplainInv
<1>18. ASSUME attempts'[c] = <<>>, answer'[c] = NoAnswer, chain'[c] \in Seq(Engine),
              at'[c] \in {"debate", "decided", "deciding", "try"}
       PROVE  Explained(c)'
  <2>1. DOMAIN attempts'[c] = {} /\ Len(attempts'[c]) = 0 /\ ~answer'[c].success
        BY <1>18 DEF NoAnswer
  <2>2. Tried(c)' = {}
        BY <2>1 DEF Tried
  <2>3. Len(chain'[c]) \in Nat
        BY <1>18
  <2>4. at'[c] \notin Unrouted \cup Winning \cup Ended
        BY <1>18 DEF Unrouted, Winning, Ended
  <2>5. QED
        BY <1>18, <2>1, <2>2, <2>3, <2>4 DEF Explained
<1>19. /\ chain \in [Call -> Seq(Engine)] /\ chain' \in [Call -> Seq(Engine)] /\ Explained(c)
       /\ attempts \in [Call -> Seq(Attempt)] /\ Len(attempts[c]) \in Nat /\ Len(chain[c]) \in Nat
  <2>1. /\ chain \in [Call -> Seq(Engine)] /\ chain' \in [Call -> Seq(Engine)] /\ Explained(c)
        /\ attempts \in [Call -> Seq(Attempt)]
        BY OrderStep DEF TypeOK, ExplainInv, Attempt, Reason
  <2>2. QED
        BY <2>1
<1>20. CASE BuildChain(c)
  <2>1. attempts[c] = <<>> /\ answer[c] = NoAnswer
        BY <1>19, <1>20 DEF BuildChain, Explained, Unrouted, Waiting
  <2>2. at'[c] \in {"debate", "try"}
        BY <1>20 DEF BuildChain, Goto, TypeOK
  <2>3. Explained(c)'
        BY <1>18, <1>19, <1>20, <2>1, <2>2 DEF BuildChain
  <2>4. QED
        BY <1>17, <1>20, <2>3 DEF BuildChain, Goto, TypeOK
<1>21. CASE Debate(c)
  <2>1. attempts[c] = <<>> /\ answer[c] = NoAnswer
        BY <1>19, <1>21 DEF Debate, Explained, Waiting
  <2>2. at'[c] \in {"decided", "try"}
        BY <1>21 DEF Debate, Goto, TypeOK
  <2>3. Explained(c)'
        BY <1>18, <1>19, <1>21, <2>1, <2>2 DEF Debate
  <2>4. QED
        BY <1>17, <1>21, <2>3 DEF Debate, Goto, TypeOK
<1>22. ASSUME at[c] \in {"try", "running"}
       PROVE  /\ ~answer[c].success /\ answer[c].success \in BOOLEAN
              /\ \A i \in DOMAIN attempts[c] : /\ attempts[c][i].engine = chain[c][i]
                                               /\ attempts[c][i].reason # ""
              /\ Tried(c) = {} => answer[c] = NoAnswer
              /\ Tried(c) # {} => LastTried(c)
  <2>1. ~answer[c].success
        BY <1>19, <1>22 DEF Explained, Winning, Ended
  <2>2. answer[c].success \in BOOLEAN
        BY DEF TypeOK
  <2>3. QED
        BY <1>19, <1>22, <2>1, <2>2 DEF Explained
<1>23. CASE Skip(c)
  <2>1. PICK r \in Reason : /\ r \notin {"", "exception", "failure"}
                            /\ Left(c) /\ Attempted(c, r)
        BY <1>23 DEF Skip, Reason
  <2>2. /\ Len(attempts'[c]) <= Len(chain[c])
        /\ \A i \in DOMAIN attempts'[c] :
              \/ i \in DOMAIN attempts[c] /\ attempts'[c][i] = attempts[c][i]
              \/ attempts'[c][i] = [engine |-> chain[c][i], reason |-> r]
        /\ \A i \in DOMAIN attempts[c] : /\ i \in DOMAIN attempts'[c]
                                          /\ attempts'[c][i] = attempts[c][i]
        BY <2>1, AttemptFacts
  <2>3. UNCHANGED <<at, chain, answer>> /\ at[c] = "try"
        BY <1>23 DEF Skip
  <2>4. Tried(c)' = Tried(c) /\ (LastTried(c)' <=> LastTried(c))
    <3>1. Tried(c)' = Tried(c)
      <4>1. ASSUME NEW i \in Tried(c) PROVE i \in Tried(c)'
            BY <2>2 DEF Tried
      <4>2. ASSUME NEW i \in Tried(c)' PROVE i \in Tried(c)
        <5>1. i \in DOMAIN attempts'[c] /\ attempts'[c][i].reason \in {"exception", "failure"}
              BY DEF Tried
        <5>2. i \in DOMAIN attempts[c] /\ attempts'[c][i] = attempts[c][i]
          <6>1. attempts'[c][i] = [engine |-> chain[c][i], reason |-> r] =>
                    attempts'[c][i].reason = r
                BY Fields
          <6>2. QED
                BY <2>1, <2>2, <5>1, <6>1
        <5>3. QED
              BY <5>1, <5>2 DEF Tried
      <4>3. QED
            BY <4>1, <4>2
    <3>2. QED
          BY <2>3, <3>1 DEF LastTried
  <2>5. ASSUME NEW i \in DOMAIN attempts'[c]
        PROVE  attempts'[c][i].engine = chain[c][i] /\ attempts'[c][i].reason # ""
    <3>1. CASE i \in DOMAIN attempts[c] /\ attempts'[c][i] = attempts[c][i]
          BY <1>22, <2>3, <3>1
    <3>2. CASE attempts'[c][i] = [engine |-> chain[c][i], reason |-> r]
          BY <2>1, <3>2, Fields
    <3>3. QED
          BY <2>2, <3>1, <3>2
  <2>6. at[c] \notin Unrouted \cup Waiting \cup Winning \cup Ended
        BY <2>3 DEF Unrouted, Waiting, Winning, Ended
  <2>7. Explained(c)'
        BY <1>22, <2>2, <2>3, <2>4, <2>5, <2>6 DEF Explained
  <2>8. \A d \in Call \ {c} : attempts'[d] = attempts[d]
        BY <2>1, AttemptFacts
  <2>9. QED
        BY <1>17, <2>3, <2>7, <2>8
<1>24. CASE Failed(c)
  <2>1. PICK r \in {"exception", "failure"} : Attempted(c, r)
        BY <1>24 DEF Failed
  <2>2. Left(c) /\ at[c] = "running" /\ r \in Reason
        BY <1>24 DEF Failed, OrderInv, Reason
  <2>3. /\ Len(attempts'[c]) <= Len(chain[c]) /\ Len(attempts'[c]) \in DOMAIN attempts'[c]
        /\ \A i \in DOMAIN attempts'[c] : i <= Len(attempts'[c])
        /\ \A i \in DOMAIN attempts'[c] :
              \/ i \in DOMAIN attempts[c] /\ attempts'[c][i] = attempts[c][i]
              \/ attempts'[c][i] = [engine |-> chain[c][i], reason |-> r]
        /\ attempts'[c][Len(attempts'[c])] = [engine |-> Candidate(c), reason |-> r]
        /\ Candidate(c) = chain[c][Len(attempts'[c])]
        BY <2>1, <2>2, AttemptFacts
  <2>4. /\ at'[c] = "try" /\ chain' = chain
        /\ answer'[c].engine = Candidate(c) /\ ~answer'[c].success
        BY <1>24 DEF Failed, Goto, TypeOK
  <2>5. Len(attempts'[c]) \in Tried(c)' /\ \A j \in Tried(c)' : j <= Len(attempts'[c])
        BY <2>3 DEF Tried
  <2>6. LastTried(c)' /\ Tried(c)' # {}
        BY <2>3, <2>4, <2>5 DEF LastTried
  <2>7. ASSUME NEW i \in DOMAIN attempts'[c]
        PROVE  attempts'[c][i].engine = chain[c][i] /\ attempts'[c][i].reason # ""
    <3>1. CASE i \in DOMAIN attempts[c] /\ attempts'[c][i] = attempts[c][i]
          BY <1>22, <2>2, <3>1
    <3>2. CASE attempts'[c][i] = [engine |-> chain[c][i], reason |-> r]
          BY <2>1, <3>2, Fields
    <3>3. QED
          BY <2>3, <3>1, <3>2
  <2>8. at'[c] \notin Unrouted \cup Waiting \cup Winning \cup Ended
        BY <2>4 DEF Unrouted, Waiting, Winning, Ended
  <2>9. Explained(c)'
        BY <2>3, <2>4, <2>6, <2>7, <2>8 DEF Explained
  <2>10. \A d \in Call \ {c} : attempts'[d] = attempts[d]
        BY <2>1, <2>2, AttemptFacts
  <2>11. QED
        BY <1>17, <1>24, <2>9, <2>10 DEF Failed, Goto, TypeOK
<1>25. CASE Succeeded(c)
  <2>1. Attempted(c, "") /\ Left(c) /\ at[c] = "running" /\ "" \in Reason
        BY <1>25 DEF Succeeded, OrderInv, Reason
  <2>2. /\ Len(attempts'[c]) <= Len(chain[c]) /\ attempts'[c] # <<>>
        /\ \A i \in DOMAIN attempts'[c] :
              \/ i \in DOMAIN attempts[c] /\ attempts'[c][i] = attempts[c][i]
              \/ i = Len(attempts'[c]) /\ attempts'[c][i] = [engine |-> chain[c][i], reason |-> ""]
        /\ attempts'[c][Len(attempts'[c])] = [engine |-> Candidate(c), reason |-> ""]
        BY <2>1, AttemptFacts
  <2>3. /\ at'[c] = "affinity" /\ chain' = chain
        /\ answer'[c].engine = Candidate(c) /\ answer'[c].success
        BY <1>25 DEF Succeeded, Goto, TypeOK
  <2>4. ASSUME NEW i \in DOMAIN attempts'[c]
        PROVE  attempts'[c][i].engine = chain[c][i] /\ (attempts'[c][i].reason = "" => i = Len(attempts'[c]))
    <3>1. CASE i \in DOMAIN attempts[c] /\ attempts'[c][i] = attempts[c][i]
          BY <1>22, <2>1, <3>1
    <3>2. CASE i = Len(attempts'[c]) /\ attempts'[c][i] = [engine |-> chain[c][i], reason |-> ""]
          BY <2>1, <3>2, Fields
    <3>3. QED
          BY <2>2, <3>1, <3>2
  <2>5. at'[c] \in Winning /\ at'[c] \notin Unrouted \cup Waiting \cup Ended
        BY <2>3 DEF Unrouted, Waiting, Winning, Ended
  <2>6. Explained(c)'
        BY <2>2, <2>3, <2>4, <2>5 DEF Explained
  <2>7. \A d \in Call \ {c} : attempts'[d] = attempts[d]
        BY <2>1, AttemptFacts
  <2>8. QED
        BY <1>17, <1>25, <2>6, <2>7 DEF Succeeded, Goto, TypeOK
<1>26. CASE AllFailed(c)
  <2>1. at[c] = "try" /\ ~Left(c) /\ UNCHANGED <<chain, attempts>>
        BY <1>26 DEF AllFailed
  <2>2. Len(attempts[c]) = Len(chain[c])
    <3>1. Len(attempts[c]) <= Len(chain[c]) /\ ~(Len(attempts[c]) < Len(chain[c]))
          BY <1>19, <2>1 DEF Left, Explained
    <3>2. QED
          BY <1>19, <3>1
  <2>3. at'[c] \in {"returned", "done"} /\ at'[c] \in Ended
        BY <1>26 DEF AllFailed, AfterRoute, Goto, TypeOK, Ended
  <2>4. Tried(c)' = Tried(c)
        BY <2>1 DEF Tried
  <2>5. ~answer'[c].success /\ (Tried(c) = {} => answer'[c].engine = "OLLAMA")
        BY <1>22, <1>26, <2>1 DEF AllFailed, TypeOK, NoAnswer
  <2>6. ASSUME Tried(c) # {} PROVE LastTried(c)'
    <3>1. PICK i \in Tried(c) : /\ answer[c].engine = chain[c][i]
                                /\ \A j \in Tried(c) : j <= i
          BY <1>22, <2>1, <2>6 DEF LastTried
    <3>2. answer[c].engine \in Engine
      <4>1. i \in 1..Len(chain[c])
        <5>1. i \in 1..Len(attempts[c])
              BY <1>19, <3>1 DEF Tried
        <5>2. QED
              BY <2>2, <5>1
      <4>2. QED
            BY <1>19, <3>1, <4>1
    <3>3. answer'[c] = answer[c]
          BY <1>26, <3>2 DEF AllFailed, NoAnswer, NoEngine, Engine
    <3>4. QED
          BY <2>1, <2>4, <3>1, <3>3 DEF LastTried
  <2>7. at'[c] \notin Unrouted \cup Waiting \cup Winning \cup {"try", "running"}
        BY <2>3 DEF Unrouted, Waiting, Winning
  <2>8. \A i \in DOMAIN attempts[c] : /\ attempts[c][i].engine = chain[c][i]
                                      /\ attempts[c][i].reason # ""
        BY <1>22, <2>1
  <2>9. Explained(c)'
        BY <2>1, <2>2, <2>3, <2>4, <2>5, <2>6, <2>7, <2>8, <1>19 DEF Explained
  <2>10. QED
        BY <1>17, <1>26, <2>9 DEF AllFailed, Goto, TypeOK
<1>27. QED
       BY <1>1, <1>2, <1>3, <1>4, <1>5, <1>6, <1>7, <1>8, <1>9, <1>10, <1>11, <1>12, <1>13,
          <1>14, <1>15, <1>16, <1>20, <1>21, <1>23, <1>24, <1>25, <1>26 DEF Step

-----------------------------------------------------------------------------
(* What no step takes back.                                                 *)
Uncredited == {"affinity", "scored"}
Received == {"extracting", "insight", "finishing", "done", "failed"}
Recorded == Received \cup {"returned"}

Onward(d) ==
    /\ answer[d].success => answer'[d] = answer[d]
    /\ answer[d].success /\ at[d] \notin Uncredited => at'[d] \notin Uncredited
    /\ at[d] # "idle" => at'[d] # "idle"
    /\ at[d] \in Recorded => at'[d] \in Recorded
    /\ at[d] \in Received => at'[d] \in Received

LEMMA OnwardGo ==
    ASSUME TypeOK, ExplainInv, NEW c \in Call, NEW stage, Goto(c, stage), stage # "idle",
           at[c] \in Recorded => stage \in Recorded, at[c] \in Received => stage \in Received,
           stage \in Uncredited => at[c] \in Uncredited \cup {"try", "running"},
           \A d \in Call \ {c} : answer'[d] = answer[d],
           answer'[c] = answer[c] \/ at[c] \in {"try", "running"}
    PROVE  \A d \in Call : Onward(d)
<1>1. at \in [Call -> Stage] /\ answer \in [Call -> [engine : Engine \cup {NoEngine}, success : BOOLEAN]]
      BY DEF TypeOK
<1>2. /\ answer[c].success => at[c] \in Winning \cup Ended \cup {"failed"}
      /\ answer[c].success \in BOOLEAN
      BY <1>1 DEF ExplainInv, Explained
<1>3. ASSUME NEW d \in Call \ {c} PROVE Onward(d)
  <2>1. at'[d] = at[d] /\ answer'[d] = answer[d]
        BY <1>1 DEF Goto
  <2>2. QED
        BY <2>1 DEF Onward
<1>4. at'[c] = stage
      BY <1>1 DEF Goto
<1>5. at[c] \in {"try", "running"} => ~answer[c].success
      BY <1>2 DEF Winning, Ended
<1>6. answer[c].success => answer'[c] = answer[c]
      BY <1>5
<1>7. Onward(c)
      BY <1>4, <1>5, <1>6 DEF Onward
<1>8. QED
      BY <1>3, <1>7

LEMMA OnwardStep ==
    ASSUME TypeOK, ExplainInv, NEW c \in Call, Step(c) \/ Swallow(c) \/ FailHandOff(c)
    PROVE  \A d \in Call : Onward(d)
<1>1. answer \in [Call -> [engine : Engine \cup {NoEngine}, success : BOOLEAN]]
      BY DEF TypeOK
<1>2. CASE HandOff(c)
      BY OnwardGo, <1>2 DEF HandOff, Received, Recorded, Uncredited, AfterRoute, AfterInsights
<1>3. CASE SaveHandOff(c)
      BY OnwardGo, <1>3 DEF SaveHandOff, Received, Recorded, Uncredited, AfterRoute, AfterInsights
<1>4. CASE BuildChain(c)
      BY OnwardGo, <1>4 DEF BuildChain, Received, Recorded, Uncredited, AfterRoute, AfterInsights
<1>5. CASE Debate(c)
      BY OnwardGo, <1>5 DEF Debate, Received, Recorded, Uncredited, AfterRoute, AfterInsights
<1>6. CASE ReadForDecision(c)
      BY OnwardGo, <1>6 DEF ReadForDecision, Received, Recorded, Uncredited, AfterRoute, AfterInsights
<1>7. CASE UpdateDecisions(c)
      BY OnwardGo, <1>7 DEF UpdateDecisions, Received, Recorded, Uncredited, AfterRoute, AfterInsights
<1>8. CASE Skip(c)
       BY <1>8 DEF Skip, Onward
<1>9. CASE RunTask(c)
       BY OnwardGo, <1>9 DEF RunTask, Received, Recorded, Uncredited, AfterRoute, AfterInsights
<1>10. CASE Failed(c)
       BY <1>1, OnwardGo, <1>10 DEF Failed, Received, Recorded, Uncredited, AfterRoute, AfterInsights
<1>11. CASE Succeeded(c)
       BY <1>1, OnwardGo, <1>11 DEF Succeeded, Received, Recorded, Uncredited, AfterRoute, AfterInsights
<1>12. CASE AllFailed(c)
       BY <1>1, <1>12, OnwardGo DEF AllFailed, Received, Recorded, Uncredited, AfterRoute
<1>13. CASE ReadAffinity(c)
       BY OnwardGo, <1>13 DEF ReadAffinity, Received, Recorded, Uncredited, AfterRoute, AfterInsights
<1>14. CASE UpsertAffinity(c)
       BY OnwardGo, <1>14 DEF UpsertAffinity, Received, Recorded, Uncredited, AfterRoute, AfterInsights
<1>15. CASE ReadForAction(c)
       BY OnwardGo, <1>15 DEF ReadForAction, Received, Recorded, Uncredited, AfterRoute, AfterInsights
<1>16. CASE AppendAction(c)
       BY OnwardGo, <1>16 DEF AppendAction, Received, Recorded, Uncredited, AfterRoute, AfterInsights
<1>17. CASE Receive(c)
       BY OnwardGo, <1>17 DEF Receive, Received, Recorded, Uncredited, AfterRoute, AfterInsights
<1>18. CASE ReadForInsights(c)
       BY OnwardGo, <1>18 DEF ReadForInsights, Received, Recorded, Uncredited, AfterRoute, AfterInsights
<1>19. CASE SaveInsights(c)
       BY OnwardGo, <1>19 DEF SaveInsights, Received, Recorded, Uncredited, AfterRoute, AfterInsights
<1>20. CASE FinishHandOff(c)
       BY OnwardGo, <1>20 DEF FinishHandOff, Received, Recorded, Uncredited, AfterRoute, AfterInsights
<1>21. CASE Forget(c)
       BY OnwardGo, <1>21 DEF Forget, Received, Recorded, Uncredited, AfterRoute, AfterInsights
<1>22. CASE Swallow(c)
       BY OnwardGo, <1>22 DEF Swallow, Received, Recorded, Uncredited, AfterRoute, AfterInsights
<1>23. CASE FailHandOff(c)
       BY OnwardGo, <1>23 DEF FailHandOff, Received, Recorded, Uncredited, AfterRoute, AfterInsights
<1>24. QED
       BY <1>2, <1>3, <1>4, <1>5, <1>6, <1>7, <1>8, <1>9, <1>10, <1>11, <1>12, <1>13, <1>14,
          <1>15, <1>16, <1>17, <1>18, <1>19, <1>20, <1>21, <1>22, <1>23 DEF Step

-----------------------------------------------------------------------------
(* Samples: a call that has read an affinity is not credited before it has  *)
(* written it.                                                              *)
Credited(e) == {c \in Call : answer[c].success /\ answer[c].engine = e /\ at[c] \notin Uncredited}

ScoreInv ==
    /\ \A e \in Engine : samples[e] <= base[e] + Cardinality(Credited(e))
    /\ \A c \in Call : at[c] = "scored" =>
            sampled[c] <= base[answer[c].engine] + Cardinality(Credited(answer[c].engine))

LEMMA CreditFacts ==
    \A e : IsFiniteSet(Credited(e)) /\ Cardinality(Credited(e)) \in Nat
<1>1. IsFiniteSet(Call)
      BY RoutingAssumption
<1>2. \A e : Credited(e) \in SUBSET Call
      BY DEF Credited
<1>3. \A e : IsFiniteSet(Credited(e))
      BY <1>1, <1>2, FS_Subset
<1>4. QED
      BY <1>3, FS_CardinalityType

LEMMA ScoreInit == Init => ScoreInv
<1> SUFFICES ASSUME Init PROVE ScoreInv
    OBVIOUS
<1>1. base \in [Engine -> Nat] /\ samples = base
      BY RoutingAssumption DEF Init
<1>2. \A e \in Engine : samples[e] <= base[e] + Cardinality(Credited(e))
      BY <1>1, CreditFacts
<1>3. \A c \in Call : at[c] # "scored"
      BY DEF Init
<1>4. QED
      BY <1>2, <1>3 DEF ScoreInv

LEMMA ScoreStep ==
    ASSUME TypeOK, OrderInv, ExplainInv, ScoreInv, NEW c \in Call,
           Step(c) \/ Swallow(c) \/ FailHandOff(c)
    PROVE  ScoreInv'
<1>1. /\ base \in [Engine -> Nat] /\ samples \in [Engine -> Nat] /\ sampled \in [Call -> Nat]
      /\ at \in [Call -> Stage] /\ base' = base
      BY RoutingAssumption DEF TypeOK, Step, HandOff, SaveHandOff, BuildChain, Debate,
         ReadForDecision, UpdateDecisions, Skip, RunTask, Failed, Succeeded, AllFailed,
         ReadAffinity, UpsertAffinity, ReadForAction, AppendAction, Receive, ReadForInsights,
         SaveInsights, FinishHandOff, Forget, Swallow, FailHandOff
<1>2. \A e : /\ Credited(e) \subseteq Credited(e)'
             /\ IsFiniteSet(Credited(e)') /\ Cardinality(Credited(e)') \in Nat
             /\ IsFiniteSet(Credited(e)) /\ Cardinality(Credited(e)) \in Nat
  <2>1. \A e : Credited(e) \subseteq Credited(e)'
        BY OnwardStep DEF Credited, Onward
  <2>2. (\A e : IsFiniteSet(Credited(e)) /\ Cardinality(Credited(e)) \in Nat)'
        BY CreditFacts, PTL
  <2>3. QED
        BY <2>1, <2>2, CreditFacts
<1>3. \A e : Cardinality(Credited(e)) <= Cardinality(Credited(e)')
      BY <1>2, FS_Subset
<1>4. \A e \in Engine : samples[e] <= base[e] + Cardinality(Credited(e)')
  <2>1. ASSUME NEW e \in Engine PROVE samples[e] <= base[e] + Cardinality(Credited(e)')
    <3>1. samples[e] <= base[e] + Cardinality(Credited(e))
          BY DEF ScoreInv
    <3>2. QED
          BY <1>1, <1>2, <1>3, <3>1
  <2>2. QED
        BY <2>1
<1>5. ASSUME NEW d \in Call, at[d] = "scored"
      PROVE  /\ answer[d].engine \in Engine /\ answer[d].success /\ answer'[d] = answer[d]
             /\ sampled[d] <= base[answer[d].engine] + Cardinality(Credited(answer[d].engine))
             /\ sampled[d] <= base[answer[d].engine] + Cardinality(Credited(answer[d].engine)')
  <2>1. answer[d].engine \in Engine
        BY <1>5 DEF OrderInv
  <2>2. answer[d].success
        BY <1>5 DEF ExplainInv, Explained, Winning
  <2>3. answer'[d] = answer[d]
        BY <2>2, OnwardStep DEF Onward
  <2>4. sampled[d] <= base[answer[d].engine] + Cardinality(Credited(answer[d].engine))
        BY <1>5 DEF ScoreInv
  <2>5. QED
        BY <1>1, <1>2, <1>3, <2>1, <2>2, <2>3, <2>4
<1>6. CASE ReadAffinity(c)
  <2>1. answer[c].engine \in Engine /\ answer' = answer /\ samples' = samples
        BY <1>6 DEF ReadAffinity, OrderInv
  <2>2. /\ sampled'[c] = samples[answer[c].engine]
        /\ \A d \in Call \ {c} : sampled'[d] = sampled[d] /\ at'[d] = at[d]
        BY <1>1, <1>6 DEF ReadAffinity, Goto
  <2>3. QED
        BY <1>1, <1>4, <1>5, <2>1, <2>2 DEF ScoreInv
<1>7. CASE UpsertAffinity(c)
  <2>1. PICK e \in Engine : e = answer[c].engine
        BY <1>5, <1>7 DEF UpsertAffinity
  <2>2. /\ at[c] = "scored" /\ answer' = answer /\ sampled' = sampled
        /\ samples' = [samples EXCEPT ![e] = sampled[c] + 1] /\ answer[c].success
        /\ at'[c] = "record" /\ \A d \in Call \ {c} : at'[d] = at[d]
        BY <1>1, <1>5, <1>7, <2>1 DEF UpsertAffinity, Goto
  <2>3. c \notin Credited(e) /\ c \in Credited(e)'
        BY <2>1, <2>2 DEF Credited, Uncredited
  <2>4. Cardinality(Credited(e)) + 1 <= Cardinality(Credited(e)')
    <3>1. Credited(e) \cup {c} \in SUBSET (Credited(e)')
          BY <1>2, <2>3
    <3>2. Cardinality(Credited(e) \cup {c}) = Cardinality(Credited(e)) + 1
          BY <1>2, <2>3, FS_AddElement
    <3>3. Cardinality(Credited(e) \cup {c}) <= Cardinality(Credited(e)')
          BY <1>2, <3>1, FS_Subset
    <3>4. QED
          BY <3>2, <3>3
  <2>5. samples'[e] <= base[e] + Cardinality(Credited(e)')
    <3>1. sampled[c] <= base[e] + Cardinality(Credited(e))
          BY <1>5, <2>1, <2>2
    <3>2. samples'[e] = sampled[c] + 1 /\ sampled[c] \in Nat /\ base[e] \in Nat
          BY <1>1, <2>2
    <3>3. QED
          BY <1>2, <2>4, <3>1, <3>2
  <2>6. \A f \in Engine \ {e} : samples'[f] = samples[f]
        BY <1>1, <2>2
  <2>7. \A f \in Engine : samples'[f] <= base'[f] + Cardinality(Credited(f)')
        BY <1>1, <1>4, <2>5, <2>6
  <2>8. \A d \in Call : at'[d] = "scored" => d # c /\ at[d] = "scored"
        BY <2>2
  <2>9. QED
        BY <1>1, <1>5, <2>2, <2>7, <2>8 DEF ScoreInv
<1>8. ASSUME samples' = samples, sampled' = sampled,
             \A d \in Call : at'[d] = "scored" => at[d] = "scored"
      PROVE  ScoreInv'
      BY <1>1, <1>4, <1>5, <1>8 DEF ScoreInv
<1>9. CASE ~ReadAffinity(c) /\ ~UpsertAffinity(c)
  <2>1. samples' = samples /\ sampled' = sampled
        BY <1>9 DEF Step, HandOff, SaveHandOff, BuildChain, Debate,
           ReadForDecision, UpdateDecisions, Skip, RunTask, Failed, Succeeded, AllFailed,
           ReadForAction, AppendAction, Receive, ReadForInsights,
           SaveInsights, FinishHandOff, Forget, Swallow, FailHandOff
  <2>2. at' = at \/ \E stage : at' = [at EXCEPT ![c] = stage] /\ stage # "scored"
    <3> USE DEF Goto, AfterRoute, AfterInsights
    <3>1. QED
          BY <1>9 DEF Step, HandOff, SaveHandOff, BuildChain, Debate,
             ReadForDecision, UpdateDecisions, Skip, RunTask, Failed, Succeeded, AllFailed,
             ReadForAction, AppendAction, Receive, ReadForInsights,
             SaveInsights, FinishHandOff, Forget, Swallow, FailHandOff
  <2>3. QED
        BY <1>1, <1>8, <2>1, <2>2
<1>10. QED
       BY <1>6, <1>7, <1>9

-----------------------------------------------------------------------------
(* Histories: whoever holds one, its records are of calls that have come    *)
(* far enough.                                                              *)
Genuine(h, where, result) ==
    /\ Distinct(h)
    /\ \A i \in DOMAIN h :
          /\ h[i].type = "handoff" => where[h[i].call] # "idle"
          /\ h[i].type = "execute" => /\ result[h[i].call].success
                                      /\ where[h[i].call] \in Recorded
          /\ h[i].type = "received_handoff" =>
                /\ where[h[i].call] \in Received
                /\ \E j \in 1..i : h[j] = Action("handoff", h[i].call)

HandingOver == {"handing", "routing", "returned", "extracting", "finishing"}

HistInv ==
    /\ Genuine(state.history, at, answer)
    /\ \A c \in Call : /\ Genuine(copy[c].history, at, answer)
                       /\ Genuine(read[c].history, at, answer)
                       /\ at[c] \in HandingOver => ask[c].kind = "handoff"
                       /\ ask[c].kind = "handoff" /\ at[c] # "idle" =>
                            \E j \in DOMAIN copy[c].history :
                                copy[c].history[j] = Action("handoff", c)

LEMMA NotedFacts ==
    ASSUME NEW h \in Seq(Noted), NEW i \in DOMAIN h
    PROVE  /\ h[i] \in Noted /\ h[i].call \in Call
           /\ h[i].type \in {"handoff", "execute", "received_handoff"}
<1>1. h[i] \in Noted
      OBVIOUS
<1>2. QED
      BY <1>1 DEF Noted

LEMMA GenuineStays ==
    ASSUME NEW h \in Seq(Noted), Genuine(h, at, answer), \A d \in Call : Onward(d)
    PROVE  Genuine(h, at', answer')
<1>1. ASSUME NEW i \in DOMAIN h
      PROVE  /\ h[i].type = "handoff" => at'[h[i].call] # "idle"
             /\ h[i].type = "execute" => /\ answer'[h[i].call].success
                                         /\ at'[h[i].call] \in Recorded
             /\ h[i].type = "received_handoff" => at'[h[i].call] \in Received
  <2>1. h[i].call \in Call /\ Onward(h[i].call)
        BY NotedFacts
  <2>2. QED
        BY <2>1 DEF Genuine, Onward
<1>2. QED
      BY <1>1 DEF Genuine

LEMMA GenuineGrows ==
    ASSUME NEW h \in Seq(Noted), NEW where, NEW result, Genuine(h, where, result),
           NEW a \in Noted, \A i \in DOMAIN h : h[i] # a,
           a.type = "handoff" => where[a.call] # "idle",
           a.type = "execute" => result[a.call].success /\ where[a.call] \in Recorded,
           a.type = "received_handoff" =>
                /\ where[a.call] \in Received
                /\ \E j \in DOMAIN h : h[j] = Action("handoff", a.call)
    PROVE  Append(h, a) \in Seq(Noted) /\ Genuine(Append(h, a), where, result)
<1> DEFINE g == Append(h, a)
<1>1. /\ g \in Seq(Noted) /\ Len(h) \in Nat /\ DOMAIN h = 1..Len(h) /\ DOMAIN g = 1..(Len(h) + 1)
      /\ g[Len(h) + 1] = a /\ \A i \in 1..Len(h) : g[i] = h[i]
      OBVIOUS
<1> HIDE DEF g
<1>2. \A i \in DOMAIN g : (i \in DOMAIN h /\ g[i] = h[i]) \/ (i = Len(h) + 1 /\ g[i] = a)
      BY <1>1
<1>3. Distinct(g)
      BY <1>1, <1>2 DEF Distinct, Genuine
<1>4. ASSUME NEW i \in DOMAIN g
      PROVE  /\ g[i].type = "handoff" => where[g[i].call] # "idle"
             /\ g[i].type = "execute" => /\ result[g[i].call].success
                                         /\ where[g[i].call] \in Recorded
             /\ g[i].type = "received_handoff" =>
                   /\ where[g[i].call] \in Received
                   /\ \E j \in 1..i : g[j] = Action("handoff", g[i].call)
  <2>1. CASE i \in DOMAIN h /\ g[i] = h[i]
    <3>1. \A j \in 1..i : g[j] = h[j]
          BY <1>1, <2>1
    <3>2. QED
          BY <2>1, <3>1 DEF Genuine
  <2>2. CASE i = Len(h) + 1 /\ g[i] = a
    <3>1. \A j \in DOMAIN h : j \in 1..i /\ g[j] = h[j]
          BY <1>1, <2>2
    <3>2. QED
          BY <2>2, <3>1
  <2>3. QED
        BY <1>2, <2>1, <2>2
<1>5. Genuine(g, where, result)
      BY <1>3, <1>4 DEF Genuine
<1>6. QED
      BY <1>1, <1>5 DEF g

LEMMA HistInit == Init => HistInv
<1> SUFFICES ASSUME Init PROVE HistInv
    OBVIOUS
<1>1. \A w, r : Genuine(<<>>, w, r)
      BY DEF Genuine, Distinct
<1>2. /\ state.history = <<>>
      /\ \A c \in Call : copy[c].history = <<>> /\ read[c].history = <<>>
      BY NewStates DEF Init
<1>3. \A c \in Call : at[c] = "idle" \/ (at[c] = "done" /\ ask[c].kind = "none")
      BY DEF Init
<1>4. QED
      BY <1>1, <1>2, <1>3 DEF HistInv, HandingOver

LEMMA HistStep ==
    ASSUME TypeOK, OrderInv, ExplainInv, HistInv, NEW c \in Call,
           Step(c) \/ Swallow(c) \/ FailHandOff(c)
    PROVE  HistInv'
<1> USE DEF Goto
<1>1. /\ state \in States /\ copy \in [Call -> States] /\ read \in [Call -> States]
      /\ at \in [Call -> Stage] /\ ask' = ask
      BY DEF TypeOK, Step, HandOff, SaveHandOff, BuildChain, Debate,
         ReadForDecision, UpdateDecisions, Skip, RunTask, Failed, Succeeded, AllFailed,
         ReadAffinity, UpsertAffinity, ReadForAction, AppendAction, Receive, ReadForInsights,
         SaveInsights, FinishHandOff, Forget, Swallow, FailHandOff
<1>2. \A s \in States : s.history \in Seq(Noted)
      BY StateFacts
<1> DEFINE Good(s) == s \in States /\ Genuine(s.history, at', answer')
<1>3. ASSUME NEW s \in States, Genuine(s.history, at, answer) PROVE Good(s)
  <2>1. s.history \in Seq(Noted) /\ \A d \in Call : Onward(d)
        BY <1>2, OnwardStep
  <2>2. QED
        BY <1>3, <2>1, GenuineStays
<1>4. Good(state) /\ \A d \in Call : Good(copy[d]) /\ Good(read[d])
      BY <1>1, <1>3 DEF HistInv
<1>5. ASSUME NEW s \in States, NEW t \in States, Good(s), t.history = s.history PROVE Good(t)
      BY <1>5
<1>6. Good(NoState) /\ Good(Created)
  <2>1. \A w, r : Genuine(<<>>, w, r)
        BY DEF Genuine, Distinct
  <2>2. QED
        BY <2>1, NewStates
<1> HIDE DEF Good
<1>7. \A a \in {"handoff", "execute", "received_handoff"} :
            Action(a, c) \in Noted /\ Action(a, c).type = a /\ Action(a, c).call = c
      BY DEF Action, Noted
(* Who hands over, and what is in its copy.                                 *)
<1>8. ASSUME \A d \in Call \ {c} : at'[d] = at[d],
             at'[c] \in HandingOver => ask[c].kind = "handoff",
             \A d \in Call \ {c} : copy'[d] = copy[d],
             ask[c].kind = "handoff" /\ at'[c] # "idle" =>
                 \E j \in DOMAIN copy'[c].history : copy'[c].history[j] = Action("handoff", c),
             Good(state'), \A d \in Call : Good(copy'[d]) /\ Good(read'[d])
      PROVE  HistInv'
      BY <1>1, <1>8 DEF HistInv, Good
<1>9. ASSUME \A d \in Call \ {c} : at'[d] = at[d],
             at[c] \in HandingOver \/ at'[c] \notin HandingOver \/ ask[c].kind = "handoff",
             at[c] # "idle" \/ ask[c].kind # "handoff", copy' = copy,
             Good(state'), \A d \in Call : Good(read'[d])
      PROVE  HistInv'
  <2>1. at'[c] \in HandingOver => ask[c].kind = "handoff"
        BY <1>9 DEF HistInv
  <2>2. ask[c].kind = "handoff" =>
            \E j \in DOMAIN copy'[c].history : copy'[c].history[j] = Action("handoff", c)
        BY <1>9 DEF HistInv
  <2>3. QED
        BY <1>4, <1>8, <1>9, <2>1, <2>2
(* A record of a stage the call has not come to is in no history.            *)
<1>10. ASSUME NEW s \in States, Genuine(s.history, at, answer), NEW i \in DOMAIN s.history
       PROVE  /\ s.history[i] = Action("handoff", c) => at[c] # "idle"
              /\ s.history[i] = Action("execute", c) => at[c] \in Recorded
              /\ s.history[i] = Action("received_handoff", c) => at[c] \in Received
       BY <1>7, <1>10 DEF Genuine
<1>11. Genuine(state.history, at, answer)
       BY DEF HistInv
<1>12. \A d \in Call : Genuine(copy[d].history, at, answer) /\ Genuine(read[d].history, at, answer)
       BY DEF HistInv
<1>13. at' = [at EXCEPT ![c] = at'[c]]
       BY <1>1 DEF Step, HandOff, SaveHandOff, BuildChain, Debate,
          ReadForDecision, UpdateDecisions, Skip, RunTask, Failed, Succeeded, AllFailed,
          ReadAffinity, UpsertAffinity, ReadForAction, AppendAction, Receive, ReadForInsights,
          SaveInsights, FinishHandOff, Forget, Swallow, FailHandOff
<1>14. CASE HandOff(c)
  <2> DEFINE found == IF state.exists THEN state ELSE Created
             noted == AddAction(found, Action("handoff", c))
             new == AddDecision(noted, Action("reason", c))
  <2>1. found \in States /\ Genuine(found.history, at, answer) /\ Good(found)
    <3>1. CASE state.exists
          BY <1>1, <1>4, <1>11, <3>1
    <3>2. CASE ~state.exists
          BY <1>6, <3>2, NewStates DEF Genuine, Distinct
    <3>3. QED
          BY <3>1, <3>2
  <2> HIDE DEF found
  <2>2. at[c] = "idle" /\ at'[c] = "handing" /\ ask[c].kind = "handoff"
        BY <1>1, <1>14 DEF HandOff
  <2>3. /\ noted \in States /\ noted.history = Append(found.history, Action("handoff", c))
        /\ found.history \in Seq(Noted)
        BY <1>2, <1>7, <2>1, StateFacts
  <2>4. new \in States /\ new.history = noted.history
    <3>1. Action("reason", c) \in Choices
          BY DEF Action, Choices
    <3>2. QED
          BY <2>3, <3>1, StateFacts
  <2>5. \A i \in DOMAIN found.history : found.history[i] # Action("handoff", c)
        BY <1>10, <2>1, <2>2
  <2>6. Genuine(found.history, at', answer')
        BY <2>1 DEF Good
  <2>7. Genuine(noted.history, at', answer')
        BY <1>7, <2>2, <2>3, <2>5, <2>6, GenuineGrows
  <2>8. Good(new)
        BY <2>4, <2>7 DEF Good
  <2>9. copy' = [copy EXCEPT ![c] = new] /\ state' = state /\ read' = read
        BY <1>14 DEF HandOff, found
  <2>10. \E j \in DOMAIN new.history : new.history[j] = Action("handoff", c)
    <3>1. /\ Len(found.history) + 1 \in DOMAIN noted.history
          /\ noted.history[Len(found.history) + 1] = Action("handoff", c)
          BY <1>7, <2>3
    <3>2. QED
          BY <2>4, <3>1
  <2> HIDE DEF new
  <2>11. copy'[c] = new /\ \A d \in Call \ {c} : copy'[d] = copy[d]
         BY <1>1, <2>9
  <2>12. QED
         BY <1>1, <1>4, <1>8, <1>13, <2>2, <2>8, <2>9, <2>10, <2>11
<1>15. CASE SaveHandOff(c)
       BY <1>1, <1>4, <1>9, <1>15 DEF SaveHandOff, HandingOver
<1>16. CASE Receive(c)
  <2> DEFINE new == AddAction(copy[c], Action("received_handoff", c))
  <2>1. /\ at[c] = "returned" /\ at'[c] \in {"extracting", "finishing"} /\ ask[c].kind = "handoff"
        /\ \E j \in DOMAIN copy[c].history : copy[c].history[j] = Action("handoff", c)
        BY <1>1, <1>16 DEF Receive, HistInv, HandingOver
  <2>2. /\ new \in States /\ copy[c].history \in Seq(Noted)
        /\ new.history = Append(copy[c].history, Action("received_handoff", c))
        BY <1>1, <1>2, <1>7, StateFacts
  <2>3. \A i \in DOMAIN copy[c].history : copy[c].history[i] # Action("received_handoff", c)
        BY <1>1, <1>10, <1>12, <2>1 DEF Received
  <2>4. Genuine(copy[c].history, at', answer')
        BY <1>4 DEF Good
  <2>5. at'[c] \in Received
        BY <2>1 DEF Received
  <2>6. Genuine(new.history, at', answer')
        BY <1>7, <2>1, <2>2, <2>3, <2>4, <2>5, GenuineGrows
  <2>7. Good(new)
        BY <2>2, <2>6 DEF Good
  <2>8. \E j \in DOMAIN new.history : new.history[j] = Action("handoff", c)
    <3>1. \A j \in DOMAIN copy[c].history :
              j \in DOMAIN new.history /\ new.history[j] = copy[c].history[j]
          BY <1>7, <2>2
    <3>2. QED
          BY <2>1, <3>1
  <2>9. copy' = [copy EXCEPT ![c] = new] /\ state' = state /\ read' = read
        BY <1>16 DEF Receive
  <2> HIDE DEF new
  <2>10. copy'[c] = new /\ \A d \in Call \ {c} : copy'[d] = copy[d]
         BY <1>1, <2>9
  <2>11. QED
         BY <1>1, <1>4, <1>8, <1>13, <2>1, <2>7, <2>8, <2>9, <2>10
<1>17. CASE AppendAction(c)
  <2> DEFINE h == Append(read[c].history, Action("execute", c))
  <2>1. at[c] = "appending" /\ at'[c] \in {"returned", "done"}
        BY <1>1, <1>17 DEF AppendAction, AfterRoute
  <2>2. at[c] \notin Recorded /\ at'[c] \in Recorded
        BY <2>1 DEF Recorded, Received
  <2>3. answer[c].success /\ answer' = answer
        BY <1>17, <2>1 DEF AppendAction, ExplainInv, Explained, Winning
  <2>4. /\ read[c].history \in Seq(Noted) /\ Genuine(read[c].history, at', answer')
        /\ \A i \in DOMAIN read[c].history : read[c].history[i] # Action("execute", c)
        BY <1>1, <1>2, <1>4, <1>10, <1>12, <2>2 DEF Good
  <2>5. h \in Seq(Noted) /\ Genuine(h, at', answer')
        BY <1>7, <2>2, <2>3, <2>4, GenuineGrows
  <2>6. UNCHANGED <<copy, read>> /\ (state' = state \/ state' = [state EXCEPT !.history = h])
        BY <1>17 DEF AppendAction
  <2> HIDE DEF h
  <2>7. LET t == [state EXCEPT !.history = h] IN t \in States /\ t.history = h
        BY <1>1, <2>5, StateFacts
  <2>8. Good(state')
        BY <1>1, <1>4, <2>5, <2>6, <2>7 DEF Good
  <2>9. at[c] # "idle" /\ (at'[c] \in HandingOver => ask[c].kind = "handoff")
        BY <1>1, <1>17 DEF AppendAction, AfterRoute, HandingOver
  <2>10. QED
         BY <1>1, <1>4, <1>9, <1>13, <2>6, <2>8, <2>9
<1>18. CASE UpdateDecisions(c)
  <2>1. state' \in States /\ state'.history = state.history
    <3>1. read[c].decisions \in SUBSET Choices
          BY <1>1, StateFacts
    <3>2. LET t == [state EXCEPT !.decisions = read[c].decisions] IN
            t \in States /\ t.history = state.history
          BY <1>1, <3>1, StateFacts
    <3>3. QED
          BY <1>1, <1>18, <3>2 DEF UpdateDecisions
  <2>2. Good(state')
        BY <1>1, <1>4, <1>5, <2>1
  <2>3. /\ at[c] = "deciding" /\ at'[c] = "try" /\ UNCHANGED <<copy, read>>
        BY <1>1, <1>18 DEF UpdateDecisions
  <2>4. QED
        BY <1>4, <1>9, <1>1, <1>13, <2>2, <2>3 DEF HandingOver
<1>19. CASE ReadForDecision(c)
  <2> DEFINE new == AddDecision(state, Action("council", c))
  <2>1. new \in States /\ new.history = state.history
    <3>1. Action("council", c) \in Choices
          BY DEF Action, Choices
    <3>2. QED
          BY <1>1, <3>1, StateFacts
  <2>2. Good(new)
        BY <1>1, <1>4, <1>5, <2>1
  <2>3. /\ at[c] = "decided" /\ at'[c] \in {"deciding", "try"} /\ UNCHANGED <<copy, state>>
        /\ read' = [read EXCEPT ![c] = new]
        BY <1>1, <1>19 DEF ReadForDecision
  <2> HIDE DEF new
  <2>4. \A d \in Call : Good(read'[d])
        BY <1>1, <1>4, <2>2, <2>3
  <2>5. QED
        BY <1>4, <1>9, <1>1, <1>13, <2>3, <2>4 DEF HandingOver
<1>20. CASE ReadForAction(c)
  <2>1. /\ at[c] = "record" /\ UNCHANGED <<copy, state>> /\ read' = [read EXCEPT ![c] = state]
        /\ at'[c] \in HandingOver => ask[c].kind = "handoff"
        BY <1>1, <1>20 DEF ReadForAction, AfterRoute, HandingOver
  <2>2. \A d \in Call : Good(read'[d])
        BY <1>1, <1>4, <2>1
  <2>3. QED
        BY <1>4, <1>9, <1>1, <1>13, <2>1, <2>2
<1>21. CASE ReadForInsights(c)
  <2> DEFINE found == IF state.exists THEN state ELSE Created
             new == AddDecision(found, Action("insight", c))
  <2>1. found \in States /\ Good(found)
        BY <1>1, <1>4, <1>6, NewStates
  <2> HIDE DEF found
  <2>2. new \in States /\ new.history = found.history
    <3>1. Action("insight", c) \in Choices
          BY DEF Action, Choices
    <3>2. QED
          BY <2>1, <3>1, StateFacts
  <2>3. Good(new)
        BY <1>5, <2>1, <2>2
  <2>4. /\ UNCHANGED <<copy, state>> /\ (read' = [read EXCEPT ![c] = new] \/ read' = read)
        /\ at'[c] \in HandingOver => ask[c].kind = "handoff"
        /\ at[c] # "idle" \/ ask[c].kind # "handoff"
        BY <1>1, <1>21 DEF ReadForInsights, AfterInsights, HandingOver, found
  <2> HIDE DEF new
  <2>5. \A d \in Call : Good(read'[d])
        BY <1>1, <1>4, <2>3, <2>4
  <2>6. QED
        BY <1>4, <1>9, <1>1, <1>13, <2>4, <2>5
<1>22. CASE SaveInsights(c)
  <2>1. /\ at[c] # "idle" /\ state' = read[c] /\ UNCHANGED <<copy, read>>
        /\ at'[c] \in HandingOver => ask[c].kind = "handoff"
        BY <1>1, <1>22 DEF SaveInsights, AfterInsights, HandingOver
  <2>2. QED
        BY <1>4, <1>9, <1>1, <1>13, <2>1
<1>23. CASE FinishHandOff(c)
  <2>1. /\ at[c] # "idle" /\ state' = copy[c] /\ UNCHANGED <<copy, read>>
        /\ at'[c] \notin HandingOver
        BY <1>1, <1>23 DEF FinishHandOff, HandingOver
  <2>2. QED
        BY <1>4, <1>9, <1>1, <1>13, <2>1
<1>24. CASE Forget(c)
  <2>1. /\ ask[c].kind # "handoff" /\ state' = NoState /\ UNCHANGED <<copy, read>>
        /\ at'[c] \notin HandingOver
        BY <1>1, <1>24 DEF Forget, HandingOver
  <2>2. QED
        BY <1>4, <1>6, <1>9, <1>1, <1>13, <2>1
<1>25. ASSUME UNCHANGED <<state, copy, read>>, at[c] # "idle" \/ ask[c].kind # "handoff",
              at[c] \in HandingOver \/ at'[c] \notin HandingOver \/ ask[c].kind = "handoff"
       PROVE  HistInv'
       BY <1>1, <1>4, <1>9, <1>13, <1>25
<1>26. CASE BuildChain(c)
       BY <1>1, <1>25, <1>26 DEF BuildChain, HandingOver
<1>27. CASE Debate(c)
       BY <1>1, <1>25, <1>27 DEF Debate, HandingOver
<1>28. CASE Skip(c)
       BY <1>1, <1>25, <1>28 DEF Skip, HandingOver
<1>29. CASE RunTask(c)
       BY <1>1, <1>25, <1>29 DEF RunTask, HandingOver
<1>30. CASE Failed(c)
       BY <1>1, <1>25, <1>30 DEF Failed, HandingOver
<1>31. CASE Succeeded(c)
       BY <1>1, <1>25, <1>31 DEF Succeeded, HandingOver
<1>32. CASE AllFailed(c)
       BY <1>1, <1>25, <1>32 DEF AllFailed, HandingOver, AfterRoute
<1>33. CASE ReadAffinity(c)
       BY <1>1, <1>25, <1>33 DEF ReadAffinity, HandingOver
<1>34. CASE UpsertAffinity(c)
       BY <1>1, <1>25, <1>34 DEF UpsertAffinity, HandingOver
<1>35. CASE Swallow(c)
       BY <1>1, <1>25, <1>35 DEF Swallow, HandingOver, AfterRoute, AfterInsights
<1>36. CASE FailHandOff(c)
       BY <1>1, <1>25, <1>36 DEF FailHandOff, HandingOver
<1>37. QED
       BY <1>14, <1>15, <1>16, <1>17, <1>18, <1>19, <1>20, <1>21, <1>22, <1>23, <1>24, <1>26,
          <1>27, <1>28, <1>29, <1>30, <1>31, <1>32, <1>33, <1>34, <1>35, <1>36 DEF Step

-----------------------------------------------------------------------------
RoutingInv == TypeOK /\ OrderInv /\ ExplainInv /\ ScoreInv /\ HistInv

LEMMA Inductive == Spec => []RoutingInv
<1>1. Init => RoutingInv
      BY InitOrder, ExplainInit, ScoreInit, HistInit DEF RoutingInv
<1>2. RoutingInv /\ [Next]_vars => RoutingInv'
  <2> SUFFICES ASSUME RoutingInv, [Next]_vars PROVE RoutingInv'
      OBVIOUS
  <2>1. CASE Next
    <3>1. PICK c \in Call : Step(c) \/ Swallow(c) \/ FailHandOff(c)
          BY <2>1 DEF Next
    <3>2. QED
          BY <3>1, OrderStep, ExplainStep, ScoreStep, HistStep DEF RoutingInv
  <2>2. CASE UNCHANGED vars
    <3>1. TypeOK'
          BY <2>2 DEF RoutingInv, TypeOK, vars, callVars
    <3>2. OrderInv'
          BY <2>2 DEF RoutingInv, OrderInv, vars, callVars, Left, Candidate
    <3>3. ExplainInv'
          BY <2>2, ExplainFrame DEF RoutingInv, ExplainInv, vars, callVars
    <3>4. ScoreInv'
          BY <2>2 DEF RoutingInv, ScoreInv, Credited, vars, callVars
    <3>5. HistInv'
          BY <2>2 DEF RoutingInv, HistInv, Genuine, vars, callVars
    <3>6. QED
          BY <3>1, <3>2, <3>3, <3>4, <3>5 DEF RoutingInv
  <2>3. QED
        BY <2>1, <2>2
<1>3. QED
      BY <1>1, <1>2, PTL DEF Spec

(* Every variable has its type: in particular a call that scores an engine, *)
(* or runs one, has one (_post_success, and the loop over the chain).       *)
THEOREM TypeCorrect == Spec => []TypeOK
<1>1. RoutingInv => TypeOK
      BY DEF RoutingInv
<1>2. QED
      BY Inductive, <1>1, PTL

(* Whatever the affinities and however often a council decides, the chain   *)
(* of a request names no engine twice, loses none of the router's, keeps    *)
(* OLLAMA at its end and spends nothing without a budget                    *)
(* (select_with_fallbacks, select_with_affinity, _build_chain).             *)
THEOREM EnginesInOrder == Spec => []OrderOfEngines
<1>1. RoutingInv => OrderOfEngines
  <2> SUFFICES ASSUME RoutingInv, NEW c \in Call, chain[c] # <<>>
               PROVE  LET ch == chain[c]  q == ask[c].q IN
                        /\ Cardinality(Members(ch)) = Len(ch)
                        /\ Members(WithFallbacks(q)) \subseteq Members(ch)
                        /\ q.preferred # "OLLAMA" => ch[Len(ch)] = "OLLAMA"
                        /\ ~q.budget => Members(ch) \subseteq {"OLLAMA", q.preferred}
      BY DEF OrderOfEngines
  <2>1. InOrder(ask[c].q, chain[c])
        BY DEF RoutingInv, OrderInv
  <2>2. Cardinality(Members(chain[c])) = Len(chain[c])
        BY <2>1, Counting DEF InOrder
  <2>3. QED
        BY <2>1, <2>2 DEF InOrder, EndsWith
<1>2. QED
      BY Inductive, <1>1, PTL

(* The fallback attempts of a result explain it: who answered and why the   *)
(* others did not, or that everybody was tried (the loop of                 *)
(* RouteToEngineUseCase.execute).                                           *)
THEOREM AnswerExplained == Spec => []AttemptsExplainAnswer
<1>1. RoutingInv => AttemptsExplainAnswer
  <2> SUFFICES ASSUME RoutingInv PROVE AttemptsExplainAnswer
      OBVIOUS
  <2>1. \A c \in Call : Explained(c) /\ attempts[c] \in Seq(Attempt)
        BY DEF RoutingInv, ExplainInv, TypeOK, Attempt, Reason
  <2>2. QED
        BY <2>1 DEF AttemptsExplainAnswer, Explained, LastTried, Winning, Ended
<1>2. QED
      BY Inductive, <1>1, PTL

(* However the updates of an affinity interleave, no engine has more new    *)
(* samples than successes (_post_success, update_affinity).                 *)
THEOREM ScoresEarned == Spec => []ScoresAreEarned
<1>1. RoutingInv => ScoresAreEarned
  <2> SUFFICES ASSUME RoutingInv, NEW e \in Engine
               PROVE  samples[e] <= base[e] + Cardinality({c \in Call : answer[c].success /\
                                                                        answer[c].engine = e})
      BY DEF ScoresAreEarned
  <2> DEFINE S == {c \in Call : answer[c].success /\ answer[c].engine = e}
  <2>1. IsFiniteSet(S) /\ Cardinality(S) \in Nat
    <3>1. IsFiniteSet(Call) /\ S \in SUBSET Call
          BY RoutingAssumption
    <3>2. QED
          BY <3>1, FS_Subset, FS_CardinalityType
  <2>2. Credited(e) \in SUBSET S
        BY DEF Credited
  <2>3. Cardinality(Credited(e)) <= Cardinality(S) /\ Cardinality(Credited(e)) \in Nat
        BY <2>1, <2>2, FS_Subset, CreditFacts
  <2>4. samples[e] \in Nat /\ base[e] \in Nat
        BY RoutingAssumption DEF RoutingInv, TypeOK
  <2>5. samples[e] <= base[e] + Cardinality(Credited(e))
        BY DEF RoutingInv, ScoreInv
  <2>6. QED
        BY <2>1, <2>3, <2>4, <2>5
<1>2. QED
      BY Inductive, <1>1, PTL

(* Whoever overwrites whose version of the row, the history of a task, and  *)
(* every copy of it, holds each record once, of calls that did it, and a    *)
(* receipt after its handoff (append_action, HandoffTaskUseCase).           *)
THEOREM HistoryGenuine == Spec => []HistoryIsGenuine
<1>1. RoutingInv => HistoryIsGenuine
  <2> SUFFICES ASSUME RoutingInv, NEW h \in {state.history} \cup {copy[c].history : c \in Call},
                      NEW i \in DOMAIN h
               PROVE  /\ \A j \in DOMAIN h : h[i] = h[j] => i = j
                      /\ h[i].type = "execute" => \E e \in DOMAIN attempts[h[i].call] :
                                                      attempts[h[i].call][e].reason = ""
                      /\ h[i].type = "received_handoff" =>
                             \E j \in 1..i : h[j] = Action("handoff", h[i].call)
      BY DEF HistoryIsGenuine
  <2>1. Genuine(h, at, answer)
        BY DEF RoutingInv, HistInv
  <2>2. h \in Seq(Noted)
    <3>1. state \in States /\ \A c \in Call : copy[c] \in States
          BY DEF RoutingInv, TypeOK
    <3>2. QED
          BY <3>1, StateFacts
  <2>3. ASSUME h[i].type = "execute"
        PROVE  \E e \in DOMAIN attempts[h[i].call] : attempts[h[i].call][e].reason = ""
    <3>1. h[i].call \in Call /\ answer[h[i].call].success
          BY <2>1, <2>2, <2>3, NotedFacts DEF Genuine
    <3>2. PICK d \in Call : d = h[i].call /\ answer[d].success
          BY <3>1
    <3>3. attempts \in [Call -> Seq(Attempt)] /\ Explained(d)
          BY DEF RoutingInv, ExplainInv, TypeOK, Attempt, Reason
    <3>4. /\ attempts[d] # <<>> /\ attempts[d] \in Seq(Attempt)
          /\ attempts[d][Len(attempts[d])] = [engine |-> answer[d].engine, reason |-> ""]
          BY <3>2, <3>3 DEF Explained
    <3>5. Len(attempts[d]) \in DOMAIN attempts[d] /\ attempts[d][Len(attempts[d])].reason = ""
      <4>1. \E e : attempts[d][Len(attempts[d])] = [engine |-> e, reason |-> ""]
            BY <3>4
      <4>2. attempts[d][Len(attempts[d])].reason = "" /\ Len(attempts[d]) \in DOMAIN attempts[d]
        <5>1. PICK e : attempts[d][Len(attempts[d])] = [engine |-> e, reason |-> ""]
              BY <4>1
        <5>2. attempts[d][Len(attempts[d])].reason = ""
              BY <5>1, Fields
        <5>3. QED
              BY <3>4, <5>2, LastIndex
      <4>3. QED
            BY <4>2
    <3>6. QED
          BY <3>2, <3>5
  <2>4. QED
        BY <2>1, <2>3 DEF Genuine, Distinct
<1>2. QED
      BY Inductive, <1>1, PTL
=============================================================================
