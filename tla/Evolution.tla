------------------------------- MODULE Evolution -------------------------------
(* Learning from execution records: preferences for models and engines, each *)
(* a file that is written whole, and recovery rules, a file that is appended *)
(* to. Updates run at the request of the API and of the CLI, several at once *)
(* while executions go on; between them and the table lie awaits. A process  *)
(* may die while a file is open for writing, which has emptied it already.   *)
EXTENDS Integers, SequencesExt, FiniteSetsExt

CONSTANTS
    Update,      \* runs of run_full_update
    Outcomes,    \* records an execution may leave
    MinSamples, MinFailures,  \* what makes a preference, and a pattern
    Recurring,   \* what makes a gap
    Recent,      \* how many records list_recent returns
    MaxRecords   \* bound on the records of a behaviour

VARIABLES
    records,     \* execution_records, oldest first
    prefs,       \* the two files of preferences, as sets of lines
    rules,       \* recovery_rules.jsonl
    stage,       \* where each update stands
    seen,        \* the records its last query returned
    gaps         \* error patterns for which the last report suggests tools

vars == <<records, prefs, rules, stage, seen, gaps>>

-----------------------------------------------------------------------------
LastOf(s, n) == SubSeq(s, IF Len(s) > n THEN Len(s) - n + 1 ELSE 1, Len(s))
ListRecent == LastOf(records, Recent)
Failures(rs) == SelectSeq(rs, LAMBDA r : ~r.success)
Count(rs, P(_)) == Len(SelectSeq(rs, P))

\* The preferences of a group of records need enough of them.
Preferences(rs, by) ==
    LET groups == {<<rs[i].task_type, rs[i][by]>> : i \in DOMAIN rs}
        All(g) == Count(rs, LAMBDA r : <<r.task_type, r[by]>> = g)
        Good(g) == Count(rs, LAMBDA r : <<r.task_type, r[by]>> = g /\ r.success)
    IN  {[group |-> g, successes |-> Good(g), samples |-> All(g)] :
            g \in {h \in groups : All(h) >= MinSamples /\ h[2] # ""}}

\* The first success on a kind of task the pattern is about, with an engine
\* that did not run into it, is the alternative.
Alternatives(failed, recent) ==
    SelectSeq(recent, LAMBDA r : r.success /\ r.task_type \in {f.task_type : f \in Range(failed)}
                                           /\ r.engine \notin {f.engine : f \in Range(failed)})
\* Newest first, as the table returns them.
NewRule(error, failures, recent) ==
    LET failed == Reverse(SelectSeq(failures, LAMBDA f : f.error = error))
    IN  [error_pattern |-> error, failed_tool |-> failed[1].engine,
         alternative_tool |-> Reverse(Alternatives(failed, recent))[1].engine]
Known(error) == \E i \in DOMAIN rules : rules[i].rule.error_pattern = error
Learnable_Again(failures, recent) ==
    {e \in {f.error : f \in Range(failures)} :
        LET failed == SelectSeq(failures, LAMBDA f : f.error = e)
        IN  Len(failed) >= MinFailures /\ Alternatives(failed, recent) # <<>>}
Learnable(failures, recent) ==
    {e \in {f.error : f \in Range(failures)} :
        LET failed == SelectSeq(failures, LAMBDA f : f.error = e)
        IN  /\ e # "" /\ ~Known(e) /\ Len(failed) >= MinFailures
            /\ Alternatives(failed, recent) # <<>>}

-----------------------------------------------------------------------------
Init ==
    /\ records = <<>>
    /\ prefs = [model |-> {}, engine |-> {}]
    /\ rules = <<>>
    /\ stage = [u \in Update |-> "idle"]
    /\ seen = [u \in Update |-> <<>>]
    /\ gaps = {}

Goto(u, s) == stage' = [stage EXCEPT ![u] = s]

Record ==
    /\ Len(records) < MaxRecords
    /\ \E r \in Outcomes : records' = Append(records, r)
    /\ UNCHANGED <<prefs, rules, stage, seen, gaps>>

Query(u, from, to, rs) ==
    /\ stage[u] = from
    /\ seen' = [seen EXCEPT ![u] = rs]
    /\ Goto(u, to)
    /\ UNCHANGED <<records, prefs, rules, gaps>>

QueryModels(u) == Query(u, "idle", "model", ListRecent)
QueryEngines(u) == Query(u, "engines", "engine", ListRecent)
QueryFailures(u) == Query(u, "failures", "rules", Failures(records))

\* Without records the file is left as it is.
WritePreferences(u) ==
    /\ stage[u] \in {"model", "engine"}
    /\ prefs' = IF seen[u] = <<>> THEN prefs ELSE [prefs EXCEPT ![stage[u]] = Preferences(seen[u], stage[u])]
    /\ Goto(u, IF stage[u] = "model" THEN "engines" ELSE "failures")
    /\ UNCHANGED <<records, rules, seen, gaps>>

\* The patterns that are known are read before the recent records are asked for.
LoadRules(u) ==
    /\ stage[u] = "rules"
    /\ seen' = [seen EXCEPT ![u] = [failures |-> @, patterns |-> Learnable(@, ListRecent),
                                    recent |-> ListRecent, loaded |-> Len(rules)]]
    /\ Goto(u, "append")
    /\ UNCHANGED <<records, prefs, rules, gaps>>

AppendRules(u) ==
    /\ stage[u] = "append"
    /\ \E order \in SetToSeqs(seen[u].patterns) :
        rules' = rules \o [i \in DOMAIN order |->
            [rule |-> NewRule(order[i], seen[u].failures, seen[u].recent),
             loaded |-> seen[u].loaded, failures |-> seen[u].failures]]
    /\ seen' = [seen EXCEPT ![u] = <<>>]
    /\ Goto(u, "gaps")
    /\ UNCHANGED <<records, prefs, gaps>>

IdentifyToolGaps(u) ==
    /\ stage[u] = "gaps"
    /\ gaps' = {e \in {f.error : f \in Range(Failures(records))} :
                    Count(records, LAMBDA r : ~r.success /\ r.error = e) >= Recurring}
    /\ Goto(u, "done")
    /\ UNCHANGED <<records, prefs, rules, seen>>

Crash(u) ==
    /\ stage[u] \in {"model", "engine"} /\ seen[u] # <<>>
    /\ prefs' = [prefs EXCEPT ![stage[u]] = {}]
    /\ Goto(u, "dead")
    /\ UNCHANGED <<records, rules, seen, gaps>>

Next ==
    \/ Record
    \/ \E u \in Update : \/ QueryModels(u) \/ QueryEngines(u) \/ QueryFailures(u)
                         \/ WritePreferences(u) \/ LoadRules(u) \/ AppendRules(u)
                         \/ IdentifyToolGaps(u) \/ Crash(u)

Spec == Init /\ [][Next]_vars

-----------------------------------------------------------------------------
\* The alternative for an action that has failed, of the rules about its tool.
FindAlternative(tool, error) ==
    {rules[i].rule.alternative_tool :
        i \in {j \in DOMAIN rules : rules[j].rule.error_pattern = error /\ rules[j].rule.failed_tool = tool}}

(* A rule rests on failures that recur and on a success where they occurred, *)
(* and never sends a task from a tool to one that was seen to fail likewise. *)
RulesAreWarranted ==
    /\ \A i \in DOMAIN rules :
        LET r == rules[i].rule
            failed == SelectSeq(rules[i].failures, LAMBDA f : f.error = r.error_pattern)
        IN  /\ Len(failed) >= MinFailures
            /\ r.alternative_tool \notin {f.engine : f \in Range(failed)}
            /\ \E s \in Range(records) : /\ s.success /\ s.engine = r.alternative_tool
                                         /\ s.task_type \in {f.task_type : f \in Range(failed)}
    /\ \A r \in Range(Failures(records)) : r.engine \notin FindAlternative(r.engine, r.error)

(* A pattern has a second rule only from an update that could not know of    *)
(* the first, having read the file before it was written.                    *)
SecondRuleIsARace ==
    \A i, j \in DOMAIN rules :
        i < j /\ rules[i].rule.error_pattern = rules[j].rule.error_pattern => rules[j].loaded < i

(* A preference is the count of one window of the records, by enough samples;*)
(* no mixture of two updates, and none is left by one that died writing it.  *)
PreferencesAreSamples ==
    \A by \in {"model", "engine"} : prefs[by] # {} =>
        /\ \E n \in 0 .. Len(records) : prefs[by] = Preferences(LastOf(SubSeq(records, 1, n), Recent), by)
        /\ \A p \in prefs[by] : p.samples >= MinSamples /\ p.successes <= p.samples

Safe == RulesAreWarranted /\ SecondRuleIsARace /\ PreferencesAreSamples
=============================================================================
