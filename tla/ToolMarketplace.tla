--------------------------- MODULE ToolMarketplace ---------------------------
(* Tools from a registry: scored when they are found, suggested for failures *)
(* and installed by a subprocess, for a failed task or by name, concurrently *)
(* with uninstalls. The registry is outside: a search finds any of its tools *)
(* in any order. Scores are thousandths, and rounded to hundredths to sort.  *)
EXTENDS Integers, SequencesExt

CONSTANTS
    Catalog,     \* the tools of the registry
    Request,     \* concurrent requests for a tool
    Threshold,   \* the tier below which nothing is installed
    MaxResults   \* suggestions for a failure

VARIABLES
    stage,       \* where each request stands
    purpose,     \* acquire: for a failed task; name: somebody named it
    offered,     \* the suggestions, or what the search found
    chosen,      \* the tool it installs
    installed,   \* the installer's table
    disk,        \* what processes have really installed
    running,     \* processes that nobody waits for any more
    removed      \* history: tools that were uninstalled

vars == <<stage, purpose, offered, chosen, installed, disk, running, removed>>

-----------------------------------------------------------------------------
UNSAFE == 0
EXPERIMENTAL == 1
COMMUNITY == 2
VERIFIED == 3

PublisherScore(p) == CASE p = "trusted" -> 400 [] p = "known" -> 150 [] OTHER -> 0
TransportScore(t) == CASE t = "stdio" -> 200 [] t \in {"sse", "streamable-http"} -> 150
                       [] t \in {"http", "websocket"} -> 100 [] OTHER -> 75
PopularityScore(n) == IF n >= 10000 THEN 150 ELSE IF n >= 1000 THEN 100 ELSE IF n >= 100 THEN 50 ELSE 0
MetadataScore(c) == (IF c.description THEN 80 ELSE 0) + (IF c.source_url THEN 60 ELSE 0)
                    + (IF c.install_command THEN 60 ELSE 0)
RawScore(c) == PublisherScore(c.publisher) + TransportScore(c.transport)
               + PopularityScore(c.download_count) + MetadataScore(c)

TierFromScore(s) ==
    IF s >= 700 THEN VERIFIED ELSE IF s >= 400 THEN COMMUNITY ELSE IF s >= 150 THEN EXPERIMENTAL ELSE UNSAFE

SafetyTier(c) == IF c.suspicious THEN UNSAFE ELSE TierFromScore(RawScore(c))
SafetyScore(c) == IF c.suspicious THEN 0 ELSE (RawScore(c) + 5) \div 10

\* Sorted by score, tools of the same score in the order they were found.
SuggestForFailure(found) ==
    LET sorted == {s \in SetToSeqs(found) :
                    \A i, j \in DOMAIN s : i < j => SafetyScore(s[i]) >= SafetyScore(s[j])}
    IN  {SubSeq(s, 1, IF Len(s) < MaxResults THEN Len(s) ELSE MaxResults) : s \in sorted}

SafeOnes(s) == SelectSeq(s, LAMBDA c : SafetyTier(c) >= COMMUNITY)

-----------------------------------------------------------------------------
Nothing == [name |-> "-"]

Init ==
    /\ stage = [r \in Request |-> "idle"]
    /\ purpose = [r \in Request |-> "-"]
    /\ offered = [r \in Request |-> <<>>]
    /\ chosen = [r \in Request |-> Nothing]
    /\ installed = {} /\ disk = {} /\ running = {} /\ removed = {}

Goto(r, s) == stage' = [stage EXCEPT ![r] = s]

Search(r) ==
    /\ stage[r] = "idle"
    /\ \E found \in SUBSET Catalog :
        \/ /\ purpose' = [purpose EXCEPT ![r] = "acquire"]
           /\ \E s \in SuggestForFailure(found) : offered' = [offered EXCEPT ![r] = s]
        \/ /\ purpose' = [purpose EXCEPT ![r] = "name"]
           /\ \E s \in SetToSeqs(found) : offered' = [offered EXCEPT ![r] = s]
    /\ Goto(r, "choose")
    /\ UNCHANGED <<chosen, installed, disk, running, removed>>

\* For a failed task the best of the safe suggestions, otherwise the first hit.
Choose_First(r) ==
    /\ stage[r] = "choose"
    /\ LET choice == offered[r]
       IN  IF choice = <<>> THEN Goto(r, "nothing") /\ UNCHANGED chosen
           ELSE /\ chosen' = [chosen EXCEPT ![r] = choice[1]]
                /\ Goto(r, "install")
    /\ UNCHANGED <<purpose, offered, installed, disk, running, removed>>

Choose(r) ==
    /\ stage[r] = "choose"
    /\ LET choice == IF purpose[r] = "acquire" THEN SafeOnes(offered[r]) ELSE offered[r]
       IN  IF choice = <<>> THEN Goto(r, "nothing") /\ UNCHANGED chosen
           ELSE /\ chosen' = [chosen EXCEPT ![r] = choice[1]]
                /\ Goto(r, "install")
    /\ UNCHANGED <<purpose, offered, installed, disk, running, removed>>

\* An installed tool counts as acquired; one without a command cannot be.
Install(r) ==
    /\ stage[r] = "install"
    /\ Goto(r, IF SafetyTier(chosen[r]) < Threshold THEN "failed"
               ELSE IF chosen[r] \in installed THEN "installed"
               ELSE IF ~chosen[r].install_command THEN "failed" ELSE "subprocess")
    /\ UNCHANGED <<purpose, offered, chosen, installed, disk, running, removed>>

InstallEnds(r) ==
    /\ stage[r] = "subprocess"
    /\ disk' = disk \cup {chosen[r]} /\ installed' = installed \cup {chosen[r]}
    /\ Goto(r, "installed")
    /\ UNCHANGED <<purpose, offered, chosen, running, removed>>

InstallFails(r) ==
    /\ stage[r] = "subprocess"
    /\ Goto(r, "failed")
    /\ UNCHANGED <<purpose, offered, chosen, installed, disk, running, removed>>

\* After two minutes the request gives up on the process, which goes on.
InstallTimesOut(r) ==
    /\ stage[r] = "subprocess"
    /\ running' = running \cup {chosen[r]}
    /\ Goto(r, "failed")
    /\ UNCHANGED <<purpose, offered, chosen, installed, disk, removed>>

LateInstall ==
    /\ \E c \in running : disk' = disk \cup {c} /\ running' = running \ {c}
    /\ UNCHANGED <<stage, purpose, offered, chosen, installed, removed>>

\* The entry is forgotten; nothing is removed from the machine.
Uninstall ==
    /\ \E c \in installed : installed' = installed \ {c} /\ removed' = removed \cup {c}
    /\ UNCHANGED <<stage, purpose, offered, chosen, disk, running>>

Next ==
    \/ \E r \in Request : \/ Search(r) \/ Choose(r) \/ Install(r)
                          \/ InstallEnds(r) \/ InstallFails(r) \/ InstallTimesOut(r)
    \/ LateInstall \/ Uninstall

Spec == Init /\ [][Next]_vars

-----------------------------------------------------------------------------
(* Nothing suspicious and nothing below the bar ever reaches the machine,    *)
(* and what was installed for a failed task is of the community's tier.      *)
OnlyVettedToolsInstalled ==
    /\ \A c \in disk \cup running : ~c.suspicious /\ SafetyTier(c) >= Threshold
    /\ \A r \in Request : stage[r] = "installed" /\ purpose[r] = "acquire" =>
        /\ SafetyTier(chosen[r]) >= COMMUNITY
        /\ \A i \in DOMAIN offered[r] : SafetyScore(offered[r][i]) <= SafetyScore(chosen[r])

(* The table lists nothing that is not there; what is there and not listed   *)
(* was uninstalled, or installed after its request had given up on it.       *)
TableIsBacked ==
    /\ installed \subseteq disk
    /\ \A r \in Request : stage[r] = "installed" => chosen[r] \in installed \cup removed
    /\ \A c \in disk \ (installed \cup removed) : \E r \in Request : chosen[r] = c /\ stage[r] = "failed"

Safe == OnlyVettedToolsInstalled /\ TableIsBacked
=============================================================================
