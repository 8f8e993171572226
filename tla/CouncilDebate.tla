--------------------------- MODULE CouncilDebate ----------------------------
(* The council's debate of two engines over a subtask, and the events that   *)
(* tell of it: the engines argue in turn, a judge names one of them, and     *)
(* only then is anything but the start published. A deadline or any failure  *)
(* abandons it.                                                              *)
EXTENDS Naturals, Sequences, SequencesExt, Selections

CONSTANTS
    Candidates,  \* the two engines, in order
    Names,       \* what the judge may write
    Mentions     \* engines whose name contains, or is in, what it wrote

VARIABLES
    debating,   \* "new", "arguing", "judging", "resolved", "over"
    arguments,  \* engines that have argued
    decision, events

vars == <<debating, arguments, decision, events>>

None == "none"
Init == debating = "new" /\ arguments = <<>> /\ decision = None /\ events = <<>>

Publish(kind, about) == events' = Append(events, [kind |-> kind, about |-> about])

StartDebate ==
    /\ debating = "new" /\ Len(Candidates) = 2
    /\ Publish("started", None)
    /\ debating' = "arguing"
    /\ UNCHANGED <<arguments, decision>>

Abandon(why) ==
    /\ debating \in {"arguing", "judging"}
    /\ Publish("abandoned", why)
    /\ debating' = "over"
    /\ UNCHANGED <<arguments, decision>>

\* The engines argue one after the other; what cannot be parsed ends it.
GenerateArgument ==
    /\ debating = "arguing"
    /\ \/ /\ arguments' = Append(arguments, Candidates[Len(arguments) + 1])
          /\ debating' = IF Len(arguments') = 2 THEN "judging" ELSE "arguing"
          /\ UNCHANGED <<decision, events>>
       \/ Abandon("error")

\* The candidate of that name, else the first one it is mentioned with, both
\* ways: a name that says nothing is in every engine's.
MatchEngine(name) ==
    LET exact == Kept(Candidates, {i \in DOMAIN Candidates : Candidates[i] = name})
        mentioned == Kept(Candidates, {i \in DOMAIN Candidates : Candidates[i] \in Mentions[name]})
    IN  IF exact # <<>> THEN Head(exact) ELSE IF mentioned # <<>> THEN Head(mentioned) ELSE None

Resolve ==
    /\ debating = "judging"
    /\ \/ \E name \in Names :
            LET chosen == MatchEngine(name)
            IN  IF chosen = None THEN Abandon("error")
                ELSE /\ decision' = chosen
                     /\ debating' = "resolved"
                     /\ UNCHANGED <<arguments, events>>
       \/ Abandon("error")

\* Only once there is a decision are the arguments published, then it.
PublishArgument ==
    /\ debating = "resolved" /\ Len(events) <= Len(arguments)
    /\ Publish("argument", arguments[Len(events)])
    /\ UNCHANGED <<debating, arguments, decision>>

PublishDecision ==
    /\ debating = "resolved" /\ Len(events) > Len(arguments)
    /\ Publish("resolved", decision)
    /\ debating' = "over"
    /\ UNCHANGED <<arguments, decision>>

Next ==
    \/ StartDebate \/ GenerateArgument \/ Resolve \/ Abandon("timeout")
    \/ PublishArgument \/ PublishDecision

Spec == Init /\ [][Next]_vars

-----------------------------------------------------------------------------
(* A debate's events are a start and then either one abandonment or both     *)
(* engines' arguments, in the order of the candidates, and a decision for    *)
(* one of the two.                                                           *)
DebateIsTold ==
    LET Told(e) == [i \in DOMAIN e |-> e[i].about]
    IN  debating = "over" =>
            \/ Len(events) = 2 /\ events[2].kind = "abandoned" /\ decision = None
            \/ /\ Told(events) = <<None>> \o Candidates \o <<decision>>
               /\ decision \in ToSet(Candidates)

=============================================================================
