------------------------------ MODULE Watchers -------------------------------
(* Who polls the row of a task: the background planner's monitor, which      *)
(* collects recommendations about failed subtasks, and the WebSockets, which *)
(* send the row with the recommendations whenever they differ from what was  *)
(* sent last. A round of a watcher is one step: it acts on the row it has    *)
(* just read, then sleeps. The monitor is started and stopped by anybody at  *)
(* any time; a stopped loop ends some awaits after it was taken off the list.*)
EXTENDS Naturals, Sequences, SequencesExt

CONSTANTS
    SubTask,
    Socket,
    MaxPoll,   \* MAX_POLL_ITERATIONS
    MaxStarts, \* bound on how often the monitor is started
    MaxRuns    \* bound on the executions of the task

VARIABLES
    row,              \* the task's row: its status and its subtasks' status
    runs,             \* executions begun
    hasFailed,        \* history: subtasks that have failed in some row
    monitor,          \* the loops: "none", "runs", "cancelled", "over"
    listed,           \* the loop the planner lists for the task, or 0
    overlapped,       \* history: loops started while another had not ended
    recommendations,  \* subtasks recommended, in order
    socket, polls,    \* each socket: "closed", "open", "ended"; the rounds it has made
    sent              \* what each socket was sent, in order

vars == <<row, runs, hasFailed, monitor, listed, overlapped, recommendations, socket, polls, sent>>
watchers == <<monitor, listed, overlapped, recommendations, socket, polls, sent>>

Loop == 1 .. MaxStarts  \* in the order they are started
Absent == [status |-> "absent", sub |-> [s \in SubTask |-> "absent"]]
Over_Succeeded == row.status \in {"absent", "success"}
Over == row.status \in {"absent", "success", "failed", "fallback"}
IsComplete == \A s \in SubTask : row.sub[s] \in {"success", "failed", "degraded"}

Init ==
    /\ row = [status |-> "pending", sub |-> [s \in SubTask |-> "pending"]]
    /\ runs = 0 /\ hasFailed = {}
    /\ monitor = [l \in Loop |-> "none"] /\ listed = 0 /\ overlapped = {}
    /\ recommendations = <<>>
    /\ socket = [w \in Socket |-> "closed"] /\ polls = [w \in Socket |-> 0]
    /\ sent = [w \in Socket |-> <<>>]

-----------------------------------------------------------------------------
(* The execution, as its row shows it: it runs, settles its subtasks, saves  *)
(* a final status, and may be run again or deleted. A retried subtask leaves *)
(* "failed" again.                                                           *)
WriteRow(r) ==
    /\ row' = r
    /\ hasFailed' = hasFailed \cup {s \in SubTask : r.sub[s] = "failed"}
    /\ UNCHANGED watchers

Run ==
    /\ row # Absent /\ row.status # "running" /\ runs < MaxRuns
    /\ runs' = runs + 1
    /\ WriteRow([row EXCEPT !.status = "running"])

Settle ==
    /\ row.status = "running"
    /\ \E s \in SubTask, outcome \in {"success", "failed"} :
        /\ row.sub[s] \in {"pending", "failed"}
        /\ WriteRow([row EXCEPT !.sub[s] = outcome])
    /\ UNCHANGED runs

Finish ==
    /\ row.status = "running" /\ IsComplete
    /\ WriteRow([row EXCEPT !.status = IF \A s \in SubTask : row.sub[s] = "success"
                                       THEN "success" ELSE "failed"])
    /\ UNCHANGED runs

Delete == row # Absent /\ WriteRow(Absent) /\ UNCHANGED runs

-----------------------------------------------------------------------------
(* The monitor.                                                              *)
StartMonitor(l) ==
    /\ monitor[l] = "none" /\ \A k \in 1 .. l - 1 : monitor[k] # "none"
    /\ listed = 0
    /\ listed' = l
    /\ monitor' = [monitor EXCEPT ![l] = "runs"]
    /\ overlapped' = IF \E k \in Loop : monitor[k] \in {"runs", "cancelled"} THEN overlapped \cup {l} ELSE overlapped
    /\ recommendations' = <<>>
    /\ UNCHANGED <<row, runs, hasFailed, socket, polls, sent>>

\* The entry is gone before the loop is cancelled and waited for.
StopMonitor ==
    /\ listed # 0
    /\ monitor' = [monitor EXCEPT ![listed] = "cancelled"]
    /\ listed' = 0
    /\ UNCHANGED <<row, runs, hasFailed, overlapped, recommendations, socket, polls, sent>>

\* A loop that ends takes the task's entry along, whichever loop that names.
End(l) ==
    /\ monitor' = [monitor EXCEPT ![l] = "over"]
    /\ listed' = 0

MonitorCancelled(l) ==
    /\ monitor[l] = "cancelled"
    /\ End(l)
    /\ UNCHANGED <<row, runs, hasFailed, overlapped, recommendations, socket, polls, sent>>

\* Subtasks that fail in this row and are not recommended yet, in their order.
New_Repeats == SetToSeq({s \in SubTask : row.sub[s] = "failed"})
New == SetToSeq({s \in SubTask : row.sub[s] = "failed"} \ Range(recommendations))

\* A round; the row may be gone.
MonitorRound(l) ==
    /\ monitor[l] = "runs"
    /\ recommendations' = recommendations \o New
    /\ IF Over THEN End(l) ELSE UNCHANGED <<monitor, listed>>
    /\ UNCHANGED <<row, runs, hasFailed, overlapped, socket, polls, sent>>

\* A database error ends the loop as well.
MonitorFails(l) ==
    /\ monitor[l] = "runs"
    /\ End(l)
    /\ UNCHANGED <<row, runs, hasFailed, overlapped, recommendations, socket, polls, sent>>

-----------------------------------------------------------------------------
(* The sockets.                                                              *)
Connect(w) ==
    /\ socket[w] = "closed"
    /\ socket' = [socket EXCEPT ![w] = "open"]
    /\ UNCHANGED <<row, runs, hasFailed, monitor, listed, overlapped, recommendations, polls, sent>>

Snapshot == [row |-> row, recommendations |-> recommendations]

\* The last round sends nothing new without a row, and ends when the subtasks have ended.
PollRound(w) ==
    /\ socket[w] = "open"
    /\ IF polls[w] = MaxPoll
       THEN socket' = [socket EXCEPT ![w] = "ended"] /\ UNCHANGED <<polls, sent>>
       ELSE /\ polls' = [polls EXCEPT ![w] = @ + 1]
            /\ sent' = IF sent[w] # <<>> /\ Last(sent[w]) = Snapshot THEN sent
                       ELSE [sent EXCEPT ![w] = Append(@, Snapshot)]
            /\ socket' = IF row = Absent \/ IsComplete THEN [socket EXCEPT ![w] = "ended"] ELSE socket
    /\ UNCHANGED <<row, runs, hasFailed, monitor, listed, overlapped, recommendations>>

Disconnect(w) ==
    /\ socket[w] = "open"
    /\ socket' = [socket EXCEPT ![w] = "left"]
    /\ UNCHANGED <<row, runs, hasFailed, monitor, listed, overlapped, recommendations, polls, sent>>

Next ==
    \/ Run \/ Settle \/ Finish \/ Delete
    \/ StopMonitor
    \/ \E l \in Loop : StartMonitor(l) \/ MonitorCancelled(l) \/ MonitorRound(l) \/ MonitorFails(l)
    \/ \E w \in Socket : Connect(w) \/ PollRound(w) \/ Disconnect(w)

\* Loops that sleep are woken; nothing obliges the execution to go on, nor
\* the database to fail.
Fairness ==
    /\ \A l \in Loop : WF_vars(MonitorRound(l)) /\ WF_vars(MonitorCancelled(l))
    /\ \A w \in Socket : WF_vars(PollRound(w))

Spec == Init /\ [][Next]_vars
FairSpec == Spec /\ Fairness

-----------------------------------------------------------------------------
(* A loop that runs is the listed one, so that it can be stopped and is not  *)
(* doubled, unless it was started before another had ended, whose end takes  *)
(* the entry along; what is listed runs. However loops overlap, a            *)
(* recommendation is made once, and only for a subtask that has failed.      *)
MonitorAccountedFor ==
    /\ \A l \in Loop \ overlapped : monitor[l] = "runs" => listed = l
    /\ listed # 0 => monitor[listed] = "runs"
    /\ IsInjective(recommendations)
    /\ Range(recommendations) \subseteq hasFailed

(* A socket that was not cut off by its limit or its client was last sent a  *)
(* row that is gone or whose subtasks have all ended, and is never sent the  *)
(* same twice in a row.                                                      *)
LastSentIsComplete ==
    \A w \in Socket :
        /\ (socket[w] = "ended" /\ polls[w] < MaxPoll) =>
              LET r == Last(sent[w]).row
              IN  r = Absent \/ \A s \in SubTask : r.sub[s] \in {"success", "failed", "degraded"}
        /\ \A i \in 2 .. Len(sent[w]) : sent[w][i] # sent[w][i - 1]

(* Every open socket ends or is left, whatever becomes of the task; and once *)
(* the task stays over, no loop goes on, the unlisted ones included.         *)
WatchersEnd ==
    /\ \A w \in Socket : socket[w] = "open" ~> socket[w] # "open"
    /\ <>[](row.status \in {"absent", "success", "failed"}) => []<>(\A l \in Loop : monitor[l] # "runs")

Safe == MonitorAccountedFor /\ LastSentIsComplete
=============================================================================
