-------------------------------- MODULE Memory --------------------------------
(* The memory of the agent: the bounded deque L1, the rows of L2 with the     *)
(* state deltas among them, the facts of L3, and what reads them within a     *)
(* budget of tokens. Adding, recording a delta, forgetting and summarising    *)
(* are several transactions each, and run beside each other. A text is the    *)
(* sequence of the lengths of its sentences, and matches a query or not.      *)
EXTENDS Naturals, Sequences, SequencesExt, FiniteSetsExt, Functions, TLC

CONSTANTS
    Proc,            \* concurrent callers
    Texts,           \* texts added
    Message,         \* the text of every delta
    Answers,         \* the levels an LLM may give: functions from some of 2, 3 and 4 to texts
    Topic, Changes,  \* topics, and the changes of deltas: functions from keys to values
    Gone,            \* the value None: the key is deleted
    HasGraph,        \* whether there is a knowledge graph
    MaxL1,           \* entries of L1
    ListLimit,       \* rows list_by_type returns at most
    TopK,            \* rows a search returns at most
    Budgets,         \* budgets of tokens asked for
    MaxEntries,      \* bound on the entries made
    Settled,         \* bound: the entries that may expire and may be summarised
    MaxFacts         \* bound: no compaction begins with more facts

VARIABLES
    l1, rows, facts,
    expired,  \* entries whose retention has fallen below the threshold
    at,       \* what each caller waits for
    made,     \* entries made: their numbers are in the order of their timestamps
    kept,     \* history: deltas and notes that have been committed
    earlier,  \* history: for an entry, the deltas committed when its recording began
    lost,     \* history: entries deleted to be rewritten, and never written
    gaps      \* history: topics with a delta that some recording did not see

vars == <<l1, rows, facts, expired, at, made, kept, earlier, lost, gaps>>
history == <<kept, earlier, lost, gaps>>

NoTopic == "-"
Note(id, text) == [id |-> id, text |-> text, topic |-> NoTopic, seq |-> 0, changes |-> [k \in {} |-> Gone],
                   levels |-> <<>>]
Idle == [op |-> "idle", rest |-> <<>>]

-----------------------------------------------------------------------------
(* Texts and their summaries.                                                *)
Tokens(text) == Max({1, (FoldSeq(+, 0, text) + Len(text) - 1) \div 4})
TokensOf(texts) == FoldSeq(LAMBDA t, n : n + Tokens(t), 0, texts)

NumLevels == 4
LevelRatios == <<100, 40, 15, 5>>
ExtractSummary(text, percent) == SubSeq(text, 1, Max({1, (Len(text) * percent + 99) \div 100}))
Extractive(text) == [i \in 1 .. NumLevels |-> IF i = 1 THEN text ELSE ExtractSummary(text, LevelRatios[i])]
SelectLevel(levels, budget) ==
    LET fitting == {i \in 1 .. NumLevels : Tokens(levels[i]) <= budget}
    IN  IF fitting = {} THEN NumLevels ELSE Min(fitting)

-----------------------------------------------------------------------------
(* Reading. Whatever fits is taken, in the order given; a text that does not *)
(* fit is passed over, or ends the taking.                                   *)
Take(texts, budget) ==
    FoldLeft(LAMBDA taken, t :
        IF TokensOf(taken) + Tokens(t) <= budget THEN Append(taken, t) ELSE taken, <<>>, texts)
TakeFresh(before, texts, budget) ==
    FoldLeft(LAMBDA taken, t :
        IF t \notin Range(taken) /\ TokensOf(taken) + Tokens(t) <= budget
        THEN Append(taken, t) ELSE taken, before, texts)
TakePrefix(texts, budget, first) ==
    LET fits == {n \in 0 .. Len(texts) :
                    \A i \in 1 .. n : TokensOf(SubSeq(texts, 1, i)) + (IF i = 1 THEN first ELSE 0) <= budget}
    IN  SubSeq(texts, 1, Max(fits))

Ordered(set) == SetToSortSeq(set, LAMBDA a, b : a.id < b.id)
Listed == LET all == Ordered(rows) IN SubSeq(all, 1, Min({ListLimit, Len(all)}))
Search(hits) ==
    LET found == Reverse(Ordered({r \in rows : r.text \in hits}))
    IN  SubSeq(found, 1, Min({TopK, Len(found)}))
TextsOf(entries) == [i \in DOMAIN entries |-> entries[i].text]
FactsOn(hits) == SelectSeq(TextsOf(facts), LAMBDA t : t \in hits)

Retrieve(hits, budget) ==
    LET fromL1 == Take(Reverse(SelectSeq(l1, LAMBDA t : t \in hits)), budget)
        fromL2 == TakeFresh(fromL1, TextsOf(Search(hits)), budget)
    IN  TakeFresh(fromL2, FactsOn(hits), budget)

\* Of each entry the most detailed level that fits what is left.
RetrieveAtDepth(hits, budget) ==
    FoldLeft(LAMBDA taken, r :
        LET text == IF r.levels = <<>> THEN r.text
                    ELSE r.levels[SelectLevel(r.levels, budget - TokensOf(taken))]
        IN  IF TokensOf(taken) + Tokens(text) <= budget THEN Append(taken, text) ELSE taken,
        <<>>, Search(hits))

\* Relevance counts for six tenths, recency for four; a separator costs one token.
CompressHistory(past, hits, budget) ==
    LET n == Len(past)
        Score(i) == 4 * i + (IF past[i] \in hits THEN 6 * n ELSE 0)
        ranked == SetToSortSeq(1 .. n, LAMBDA i, j : Score(i) > Score(j) \/ (Score(i) = Score(j) /\ i < j))
        Cost(chosen) == TokensOf([k \in DOMAIN chosen |-> past[chosen[k]]]) + Max({1, Len(chosen)}) - 1
        selected == FoldLeft(LAMBDA chosen, i :
                        IF Cost(Append(chosen, i)) <= budget THEN Append(chosen, i) ELSE chosen, <<>>, ranked)
    IN  [k \in DOMAIN selected |-> past[SortSeq(selected, <)[k]]]

FactsPrefixCost == 2
Compress(past, hits, budget) ==
    LET known == TakePrefix(FactsOn(hits), (budget * 20) \div 100, FactsPrefixCost)
        left == budget - TokensOf(known)
        fresh == SelectSeq(TextsOf(Search(hits)), LAMBDA t : t \notin Range(past))
        remembered == TakePrefix(fresh, Min({(budget * 30) \div 100, left}), 0)
    IN  [facts |-> known, memory |-> remembered,
         past |-> CompressHistory(past, hits, left - TokensOf(remembered))]

-----------------------------------------------------------------------------
(* The state of a topic, from the deltas among the rows that are listed.     *)
Deltas(topic) == SelectSeq(Listed, LAMBDA r : r.topic = topic)
Apply_FirstWins(state, delta) ==
    LET new == state @@ delta.changes IN Restrict(new, {k \in DOMAIN new : new[k] # Gone})
Apply(state, delta) ==
    LET new == delta.changes @@ state IN Restrict(new, {k \in DOMAIN new : new[k] # Gone})
Reconstruct(deltas) ==
    FoldLeft(Apply, [k \in {} |-> Gone],
             SortSeq(deltas, LAMBDA a, b : a.seq < b.seq \/ (a.seq = b.seq /\ a.id < b.id)))
GetState(topic) == Reconstruct(Deltas(topic))

ComputeDiff(old, new) ==
    [k \in {x \in DOMAIN new : x \notin DOMAIN old \/ old[x] # new[x]} |-> new[k]]
    @@ [k \in DOMAIN old \ DOMAIN new |-> Gone]

Topics == [i \in DOMAIN Listed |-> Listed[i].topic]
\* What an export is given: memory and compressed context, each within the
\* budget, and the state of the first five topics.
Gather(hits, budget) ==
    [memory |-> Retrieve(hits, budget), compressed |-> Compress(<<>>, hits, budget),
     state |-> LET topics == SelectSeq(Topics, LAMBDA t : t # NoTopic)
               IN  [t \in Range(SubSeq(topics, 1, Min({5, Len(topics)}))) |-> GetState(t)]]

-----------------------------------------------------------------------------
Init ==
    /\ l1 = <<>> /\ rows = {} /\ facts = <<>>
    /\ expired = {}
    /\ at = [p \in Proc |-> Idle]
    /\ made = 0 /\ kept = {} /\ lost = {} /\ gaps = {}
    /\ earlier = [id \in 1 .. MaxEntries |-> {}]

Goto(p, op, rest) == at' = [at EXCEPT ![p] = [op |-> op, rest |-> rest]]
Rest(p) == at' = [at EXCEPT ![p] = Idle]
Current(p) == Head(at[p].rest)

\* Into L1 at once, into L2 when the transaction commits.
Add(p) ==
    /\ at[p] = Idle /\ made < MaxEntries
    /\ made' = made + 1
    /\ \E text \in Texts :
        /\ l1' = LET all == Append(l1, text) IN SubSeq(all, 1 + Len(all) - Min({MaxL1, Len(all)}), Len(all))
        /\ Goto(p, "insert", <<Note(made', text)>>)
    /\ UNCHANGED <<rows, facts, expired, history>>

\* The number of a delta is the number of those listed for its topic.
Record(p) ==
    /\ at[p] = Idle /\ made < MaxEntries
    /\ made' = made + 1
    /\ \E topic \in Topic, changes \in Changes :
        /\ Goto(p, "insert", <<[Note(made', Message) EXCEPT !.topic = topic, !.seq = Len(Deltas(topic)),
                                                        !.changes = changes]>>)
        /\ gaps' = IF {d.id : d \in {x \in kept : x.topic = topic}} \subseteq {d.id : d \in Range(Deltas(topic))}
                   THEN gaps ELSE gaps \cup {topic}
    /\ earlier' = [earlier EXCEPT ![made'] = {d.id : d \in kept}]
    /\ UNCHANGED <<l1, rows, facts, expired, kept, lost>>

\* A row of that number may be there already, when it is summarised twice.
Insert(p) ==
    /\ at[p].op = "insert"
    /\ IF \E r \in rows : r.id = Current(p).id THEN UNCHANGED rows ELSE rows' = rows \cup {Current(p)}
    /\ kept' = kept \cup {[id |-> Current(p).id, topic |-> Current(p).topic, changes |-> Current(p).changes]}
    /\ lost' = lost \ {Current(p).id}
    /\ Rest(p)
    /\ UNCHANGED <<l1, facts, expired, made, earlier, gaps>>

Dropped(ps) ==
    {Current(p).id : p \in {q \in ps : at[q].op = "insert" /\ \E d \in kept : d.id = Current(q).id}}
        \ {r.id : r \in rows}

InsertFails(p) ==
    /\ at[p].op = "insert"
    /\ lost' = lost \cup Dropped({p})
    /\ Rest(p)
    /\ UNCHANGED <<l1, rows, facts, expired, made, kept, earlier, gaps>>

-----------------------------------------------------------------------------
(* Forgetting: what is listed and has expired becomes a fact, then goes.     *)
Expire ==
    /\ \E r \in rows : r.id \in Settled \ expired /\ expired' = expired \cup {r.id}
    /\ UNCHANGED <<l1, rows, facts, at, made, history>>

\* The next entry that has expired by now.
GoOn(p, entries) ==
    IF \E i \in DOMAIN entries : entries[i].id \in expired
    THEN Goto(p, "promote", SubSeq(entries, SelectInSeq(entries, LAMBDA r : r.id \in expired), Len(entries)))
    ELSE Rest(p)

Compact(p) ==
    /\ at[p] = Idle /\ Len(facts) < MaxFacts
    /\ GoOn(p, Listed)
    /\ UNCHANGED <<l1, rows, facts, expired, made, history>>

Promote_Nothing(p) ==
    /\ at[p].op = "promote"
    /\ Goto(p, "forget", at[p].rest)
    /\ UNCHANGED <<l1, rows, facts, expired, made, history>>

Promote(p) ==
    /\ at[p].op = "promote"
    /\ facts' = IF HasGraph THEN Append(facts, [source |-> Current(p).id, text |-> Current(p).text]) ELSE facts
    /\ Goto(p, "forget", at[p].rest)
    /\ UNCHANGED <<l1, rows, expired, made, history>>

Forget(p) ==
    /\ at[p].op = "forget"
    /\ rows' = {r \in rows : r.id # Current(p).id}
    /\ GoOn(p, Tail(at[p].rest))
    /\ UNCHANGED <<l1, facts, expired, made, history>>

-----------------------------------------------------------------------------
(* Summarising: the entry is read, the LLM asked, the row deleted and made   *)
(* anew. An answer that is not usable gives way to extraction.               *)
Summarize(p) ==
    /\ at[p] = Idle
    /\ \E r \in rows : r.id \in Settled /\ r.levels = <<>> /\ Goto(p, "summarize", <<r>>)
    /\ UNCHANGED <<l1, rows, facts, expired, made, history>>

Rewrite(p) ==
    /\ at[p].op = "summarize"
    /\ \E levels \in {Extractive(Current(p).text)}
                     \cup {a @@ [i \in 1 .. NumLevels |-> Current(p).text] : a \in Answers} :
        Goto(p, "insert", <<[Current(p) EXCEPT !.levels = levels]>>)
    /\ rows' = {r \in rows : r.id # Current(p).id}
    /\ UNCHANGED <<l1, facts, expired, made, history>>

Crash ==
    /\ l1' = <<>>
    /\ at' = [p \in Proc |-> Idle]
    /\ lost' = lost \cup Dropped(Proc)
    /\ UNCHANGED <<rows, facts, expired, made, kept, earlier, gaps>>

Next ==
    \/ \E p \in Proc : \/ Add(p) \/ Record(p) \/ Insert(p) \/ InsertFails(p)
                       \/ Compact(p) \/ Promote(p) \/ Forget(p)
                       \/ Summarize(p) \/ Rewrite(p)
    \/ Expire \/ Crash

Spec == Init /\ [][Next]_vars

-----------------------------------------------------------------------------
(* Compaction deletes nothing that has not expired, and nothing that is not  *)
(* a fact of the graph first; beside it, only a summary whose second         *)
(* transaction fails loses an entry.                                         *)
NothingVanishes ==
    \A d \in kept :
        \/ d.id \in {r.id : r \in rows} \cup lost
        \/ \E p \in Proc : at[p].op = "insert" /\ Current(p).id = d.id
        \/ d.id \in expired /\ (HasGraph => \E i \in DOMAIN facts : facts[i].source = d.id)

(* As long as every recording has seen all deltas of its topic, and so does  *)
(* the reader, each key has the value of a delta that no later recording     *)
(* followed, however the recordings overlapped.                              *)
StateIsLatest ==
    \A topic \in Topic \ gaps :
        LET deltas == {d \in kept : d.topic = topic}
            state == GetState(topic)
            Touching(k) == {d \in deltas : k \in DOMAIN d.changes}
            Latest(k) == {d \in Touching(k) : \A e \in Touching(k) : d.id \notin earlier[e.id]}
        IN  {d.id : d \in deltas} = {r.id : r \in Range(Deltas(topic))} =>
            \A d \in deltas : \A k \in DOMAIN d.changes :
                LET value == IF k \in DOMAIN state THEN state[k] ELSE Gone
                IN  \E e \in Latest(k) : e.changes[k] = value

(* What is read never takes more than it was given, an export at most twice  *)
(* as much beside the states; and nothing of L2 or L3 repeats what is there. *)
BudgetsRespected ==
    \A budget \in Budgets :
        LET hits == Texts \cup {Message}
            gathered == Gather(hits, budget)
            zipped == Compress(l1, hits, budget)
            fromL1 == Len(Take(Reverse(SelectSeq(l1, LAMBDA t : t \in hits)), budget))
        IN  /\ TokensOf(gathered.memory) <= budget
            /\ TokensOf(RetrieveAtDepth(hits, budget)) <= budget
            /\ TokensOf(zipped.facts) + TokensOf(zipped.memory) + TokensOf(zipped.past) <= budget
            /\ Range(zipped.memory) \cap Range(l1) = {}
            /\ \A i \in fromL1 + 1 .. Len(gathered.memory) :
                  gathered.memory[i] \notin {gathered.memory[j] : j \in 1 .. i - 1}

(* A diff applied as a delta turns the old state into the new.               *)
DiffsApply ==
    \A s \in {GetState(t) : t \in Topic}, t \in {GetState(x) : x \in Topic} :
        Apply(s, [changes |-> ComputeDiff(s, t)]) = t

Safe == NothingVanishes /\ StateIsLatest /\ BudgetsRespected /\ DiffsApply
=============================================================================
