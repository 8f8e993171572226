---------------------------- MODULE LocalExecution ---------------------------
(* The local autonomous execution engine: risk, approval, the tools that     *)
(* change files, the undo stack and the audit log. The file tools contain no *)
(* await, so that an undoable action (look at the file, run the tool, push,  *)
(* log) is one step; a shell command suspends, may change files while it     *)
(* runs, and ends in success, failure or a timeout.                          *)
EXTENDS Naturals, Sequences, SequencesExt

CONSTANTS
    Path, Sensitive,  \* files, and those whose name matches a credential pattern
    Binary, NoFile,   \* a file that is not text; no file
    Beginnings,       \* contents of the file system at the start; a text is a sequence of letters
    Requests,         \* the actions asked for
    MaxLog            \* bound on the entries of the audit log

VARIABLES
    mode, undoEnabled,  \* the executor's configuration
    fs,                 \* contents of the files
    undoStack,          \* undo actions, with the file systems around the action as history
    audit,              \* the audit log
    shell               \* the shell command that runs: empty, or its risk

vars == <<mode, undoEnabled, fs, undoStack, audit, shell>>

Text(c) == c \notin {Binary, NoFile}

-----------------------------------------------------------------------------
(* Risk and approval.                                                        *)
SAFE == 0
LOW == 1
MEDIUM == 2
HIGH == 3
CRITICAL == 4

BaseRisk(tool) ==
    CASE tool \in {"fs_read", "fs_glob", "fs_tree", "cron_list"} -> SAFE
      [] tool \in {"shell_background", "cron_once", "cron_cancel", "fs_watch"} -> LOW
      [] tool \in {"fs_delete", "system_process_kill"} -> HIGH
      [] OTHER -> MEDIUM

\* Only the arguments "path", "cmd" and "recursive" are looked at: a move has none of them.
Assess(a) ==
    IF \/ a.tool = "fs_delete" /\ a.recursive
       \/ a.path \in Sensitive
       \/ a.dangerous
    THEN CRITICAL ELSE BaseRisk(a.tool)

AutoApproveThreshold ==
    [full_auto |-> CRITICAL, confirm_destructive |-> MEDIUM, confirm_all |-> SAFE]
NeedsApproval(m, risk) == risk > AutoApproveThreshold[m]

-----------------------------------------------------------------------------
(* Actions: a tool with the arguments it reads.                              *)
NoPath == "-"
Call(tool, path) ==
    [tool |-> tool, path |-> path, recursive |-> FALSE, dangerous |-> FALSE,
     content |-> <<>>, old |-> <<>>, new |-> <<>>, src |-> NoPath, dst |-> NoPath]

Write(p, c) == [Call("fs_write", p) EXCEPT !.content = c]
Edit(p, old, new) == [Call("fs_edit", p) EXCEPT !.old = old, !.new = new]
Delete(p, recursive) == [Call("fs_delete", p) EXCEPT !.recursive = recursive]
Move(s, d) == [Call("fs_move", NoPath) EXCEPT !.src = s, !.dst = d]

\* The tools of the registry that requests name; others are unknown to it.
Registry == {"fs_write", "fs_edit", "fs_delete", "fs_move", "shell_exec"}

\* Texts and patterns are one letter or more; edits here exchange single letters.
ReplaceFirst(text, old, new) ==
    LET i == SelectInSeq(text, LAMBDA x : x = old[1]) IN [text EXCEPT ![i] = new[1]]

\* What a tool does to the files, and whether it raises.
Succeeds(a, f) ==
    CASE a.tool = "fs_write" -> TRUE
      [] a.tool = "fs_edit" -> Text(f[a.path]) /\ a.old[1] \in Range(f[a.path])
      [] a.tool = "fs_delete" -> f[a.path] # NoFile
      [] a.tool = "fs_move" -> f[a.src] # NoFile
      [] OTHER -> TRUE

Effect(a, f) ==
    IF ~Succeeds(a, f) THEN f
    ELSE CASE a.tool = "fs_write" -> [f EXCEPT ![a.path] = a.content]
           [] a.tool = "fs_edit" -> [f EXCEPT ![a.path] = ReplaceFirst(@, a.old, a.new)]
           [] a.tool = "fs_delete" -> [f EXCEPT ![a.path] = NoFile]
           [] a.tool = "fs_move" -> [[f EXCEPT ![a.src] = NoFile] EXCEPT ![a.dst] = f[a.src]]
           [] OTHER -> f

Undoable == {"fs_write", "fs_edit", "fs_move"}

BuildUndo_KeepsNew(a, f) ==
    CASE a.tool = "fs_write" -> Write(a.path, IF f[a.path] = NoFile THEN <<>> ELSE f[a.path])
      [] a.tool = "fs_edit" -> Edit(a.path, a.new, a.old)
      [] a.tool = "fs_move" -> Move(a.dst, a.src)

\* The action that undoes a, built before a is run.
BuildUndo(a, f) ==
    CASE a.tool = "fs_write" -> IF f[a.path] = NoFile THEN Delete(a.path, FALSE)
                                ELSE Write(a.path, f[a.path])
      [] a.tool = "fs_edit" -> Edit(a.path, a.new, a.old)
      [] a.tool = "fs_move" -> Move(a.dst, a.src)

-----------------------------------------------------------------------------
Init ==
    /\ mode \in DOMAIN AutoApproveThreshold
    /\ undoEnabled \in BOOLEAN
    /\ fs \in Beginnings
    /\ undoStack = <<>> /\ audit = <<>>
    /\ shell = {}

Log(tool, risk, outcome) == audit' = Append(audit, [tool |-> tool, risk |-> risk, outcome |-> outcome])

Deny(a) ==
    /\ NeedsApproval(mode, Assess(a))
    /\ Log(a.tool, Assess(a), "denied")
    /\ UNCHANGED <<mode, undoEnabled, fs, undoStack, shell>>

Approved(a) == ~NeedsApproval(mode, Assess(a))
Recorded(a) == undoEnabled /\ a.tool \in Undoable

RejectUnknown(a) ==
    /\ Approved(a) /\ a.tool \notin Registry
    /\ Log(a.tool, Assess(a), "error")
    /\ UNCHANGED <<mode, undoEnabled, fs, undoStack, shell>>

\* A file that is to be overwritten is read as text for the undo; that it is
\* not text raises past the executor, and the tool is not run.
CannotSave(a) == Recorded(a) /\ a.tool = "fs_write" /\ fs[a.path] = Binary

ExecuteFails(a) ==
    /\ Approved(a) /\ a.tool \in Registry /\ ~CannotSave(a) /\ ~Succeeds(a, fs)
    /\ Log(a.tool, Assess(a), "error")
    /\ UNCHANGED <<mode, undoEnabled, fs, undoStack, shell>>

Execute(a) ==
    /\ Approved(a) /\ a.tool \in Registry /\ ~CannotSave(a) /\ Succeeds(a, fs)
    /\ fs' = Effect(a, fs)
    /\ undoStack' = IF Recorded(a)
                    THEN Append(undoStack, [undo |-> BuildUndo(a, fs), of |-> a,
                                            before |-> fs, after |-> fs', logged |-> Len(audit) + 1])
                    ELSE undoStack
    /\ Log(a.tool, Assess(a), "success")
    /\ UNCHANGED <<mode, undoEnabled, shell>>

\* An entry is popped whether or not undoing succeeds, needs no approval, and
\* only success is logged.
UndoLast ==
    /\ undoStack # <<>>
    /\ LET u == Last(undoStack).undo
       IN  /\ fs' = Effect(u, fs)
           /\ IF Succeeds(u, fs) THEN Log(u.tool, Assess(u), "undone") ELSE UNCHANGED audit
    /\ undoStack' = Front(undoStack)
    /\ UNCHANGED <<mode, undoEnabled, shell>>

StartShell ==
    /\ shell = {}
    /\ \E dangerous \in BOOLEAN :
        LET a == [Call("shell_exec", NoPath) EXCEPT !.dangerous = dangerous]
        IN  IF Approved(a) THEN shell' = {Assess(a)} /\ UNCHANGED audit
            ELSE Log("shell_exec", Assess(a), "denied") /\ UNCHANGED shell
    /\ UNCHANGED <<mode, undoEnabled, fs, undoStack>>

ShellWrites ==
    /\ shell # {}
    /\ \E p \in Path : \E c \in {NoFile, Binary} : fs' = [fs EXCEPT ![p] = c]
    /\ UNCHANGED <<mode, undoEnabled, undoStack, audit, shell>>

\* A command that fails or is killed at its timeout raises.
EndShell ==
    /\ shell # {}
    /\ \E outcome \in {"success", "error"}, risk \in shell : Log("shell_exec", risk, outcome)
    /\ shell' = {}
    /\ UNCHANGED <<mode, undoEnabled, fs, undoStack>>

Room == Len(audit) < MaxLog

Next ==
    \/ Room /\ \E a \in Requests : Deny(a) \/ RejectUnknown(a) \/ ExecuteFails(a) \/ Execute(a)
    \/ Room /\ (UndoLast \/ StartShell \/ EndShell)
    \/ ShellWrites

Spec == Init /\ [][Next]_vars

-----------------------------------------------------------------------------
\* Undoing an edit exchanges the first occurrence of the new text: it hits the
\* old place only when the new text does not stand before it.
FirstHit(a, text) ==
    \A i \in DOMAIN text : text[i] = a.new[1] => \E j \in 1 .. i - 1 : text[j] = a.old[1]

Invertible(e) ==
    CASE e.of.tool = "fs_write" -> TRUE
      [] e.of.tool = "fs_edit" -> FirstHit(e.of, e.before[e.of.path])
      [] e.of.tool = "fs_move" -> e.of.src = e.of.dst \/ e.before[e.of.dst] = NoFile

(* As long as nothing else has touched the files, undoing the last action    *)
(* succeeds and restores them: always after a write, after an edit whose new *)
(* text does not stand earlier, after a move that overwrote nothing.         *)
UndoRestores ==
    undoStack # <<>> =>
        LET e == Last(undoStack)
        IN  fs = e.after /\ Invertible(e) => Succeeds(e.undo, fs) /\ Effect(e.undo, fs) = e.before

(* What can be undone is what the log calls successful, in the log's order.  *)
StackIsLogged ==
    \A i \in DOMAIN undoStack :
        /\ audit[undoStack[i].logged].outcome = "success"
        /\ audit[undoStack[i].logged].tool = undoStack[i].of.tool
        /\ i > 1 => undoStack[i - 1].logged < undoStack[i].logged

(* Whatever ran, undoing apart, was below the threshold of the mode.         *)
OnlyApprovedRan ==
    \A i \in DOMAIN audit :
        audit[i].outcome \notin {"denied", "undone"} => audit[i].risk <= AutoApproveThreshold[mode]

Safe == UndoRestores /\ StackIsLogged /\ OnlyApprovedRan
=============================================================================
