--------------------------- MODULE PromptVersions ----------------------------
(* Versions of one prompt template and what their outcomes say: the version  *)
(* to use, and what is wrong with the latest. The repository is a dictionary *)
(* in memory that never gives way, so that every operation is one step.      *)
(* Rates and averages are compared as fractions.                             *)
EXTENDS Integers, SequencesExt

CONSTANTS
    MinSamples,
    Cost,         \* of an outcome
    MaxVersions, MaxOutcomes  \* bounds

VARIABLE versions  \* newest first

vars == versions

Samples(v) == v.success_count + v.failure_count
RateAtLeast(v, w) == v.success_count * Samples(w) >= w.success_count * Samples(v)
AvgCostAtMost(v, w) == v.total_cost * Samples(w) <= w.total_cost * Samples(v)
Better(v, w) == /\ RateAtLeast(v, w)
                /\ ~RateAtLeast(w, v) \/ AvgCostAtMost(v, w)

Qualified == SelectSeq(versions, LAMBDA v : Samples(v) >= MinSamples)

\* The first of the best, or the latest while none has enough samples.
GetBestTemplate_Cheapest ==
    IF Qualified = <<>> THEN versions[1]
    ELSE SelectSeq(Qualified, LAMBDA v : \A w \in Range(Qualified) : AvgCostAtMost(v, w))[1]
GetBestTemplate ==
    IF Qualified = <<>> THEN versions[1]
    ELSE SelectSeq(Qualified, LAMBDA v : \A w \in Range(Qualified) : Better(v, w))[1]

\* An older version does better by a tenth, or as well for two thirds the cost.
RevertTo ==
    LET latest == versions[1]
    IN  {v \in Range(Tail(versions)) :
            /\ Samples(v) >= MinSamples /\ Samples(latest) >= MinSamples
            /\ 10 * v.success_count * Samples(latest) >
               (10 * latest.success_count + Samples(latest)) * Samples(v)}
DearerThan ==
    LET latest == versions[1]
    IN  {v \in Range(Tail(versions)) :
            /\ Samples(v) >= MinSamples /\ Samples(latest) >= MinSamples
            /\ 2 * latest.total_cost * Samples(v) > 3 * v.total_cost * Samples(latest)
            /\ RateAtLeast(v, latest)}
Rewrite == Samples(versions[1]) >= MinSamples /\ 2 * versions[1].success_count < Samples(versions[1])

Init == versions = <<>>

CreateVersion ==
    /\ Len(versions) < MaxVersions
    /\ versions' = <<[version |-> IF versions = <<>> THEN 1 ELSE versions[1].version + 1,
                      success_count |-> 0, failure_count |-> 0, total_cost |-> 0]>> \o versions

RecordOutcome ==
    \E i \in DOMAIN versions, success \in BOOLEAN, c \in Cost :
        /\ Samples(versions[i]) < MaxOutcomes
        /\ versions' = [versions EXCEPT
                ![i] = [@ EXCEPT !.success_count = IF success THEN @ + 1 ELSE @,
                                 !.failure_count = IF success THEN @ ELSE @ + 1,
                                 !.total_cost = @ + c]]

Next == CreateVersion \/ RecordOutcome

Spec == Init /\ [][Next]_vars

-----------------------------------------------------------------------------
(* The two answers agree: while the latest version is the recommended one    *)
(* nothing speaks for an older, and one that it should be reverted to is     *)
(* recommended above it. A version that was not tried enough is recommended  *)
(* over no other, and numbers are never used twice.                          *)
AdviceIsConsistent ==
    versions # <<>> =>
        /\ GetBestTemplate = versions[1] => RevertTo = {} /\ DearerThan = {}
        /\ \A v \in RevertTo : Better(GetBestTemplate, v) /\ GetBestTemplate # versions[1]
        /\ Samples(GetBestTemplate) < MinSamples => Qualified = <<>>
        /\ \A i, j \in DOMAIN versions : i < j => versions[i].version > versions[j].version

Safe == AdviceIsConsistent
=============================================================================
