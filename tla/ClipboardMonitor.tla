-------------------------- MODULE ClipboardMonitor --------------------------
(***************************************************************************)
(* The clipboard of each machine and the ClipboardMonitor of its agent     *)
(* (internal/agent/clipboard.go): three remembered contents by which the   *)
(* poll loop tells what the user copied from what the agent wrote itself.  *)
(*                                                                         *)
(* Each action below is a critical section of the monitor's mutex or one   *)
(* call of the platform's clipboard.  Poll reads the clipboard inside its  *)
(* section and is one action; ApplyRemote and ClearLocal are several, with *)
(* the user, other programs and the agent's other goroutine in between.    *)
(* A content stands for a MIME type and a hash; a poll that finds nothing  *)
(* new, or whose read fails, changes nothing and is no action.             *)
(***************************************************************************)
EXTENDS Naturals, FiniteSets

CONSTANTS
    Nodes,           \* the machines
    Contents,        \* what a clipboard may hold
    Empty,           \* a clipboard without content, a hash never set
    Before,          \* what a clipboard may hold before the agent starts
    Reads            \* what reads back on a machine after a content was written

ASSUME EmptyAssumption == Empty \notin Contents
ASSUME BeforeAssumption == Before \subseteq Contents \cup {Empty}
ASSUME ReadsAssumption == Reads \in [Nodes -> [Contents -> Contents]]

VARIABLES
    board,           \* the clipboard
    lastWritten,     \* lastWrittenHash, lastWrittenMime
    lastSeen,        \* lastSeenHash, lastSeenMime
    pending,         \* pendingHash, pendingMime
    writer           \* for the properties: who put its content on the clipboard

monitorVars == <<board, lastWritten, lastSeen, pending, writer>>

MonitorTypeOK ==
    /\ board \in [Nodes -> Contents \cup {Empty}]
    /\ lastWritten \in [Nodes -> Contents \cup {Empty}]
    /\ lastSeen \in [Nodes -> Contents \cup {Empty}]
    /\ pending \in [Nodes -> Contents \cup {Empty}]
    /\ writer \in [Nodes -> {"user", "agent"}]

MonitorInit ==
    /\ board \in [Nodes -> Before]
    /\ lastWritten = [n \in Nodes |-> Empty]
    /\ lastSeen = [n \in Nodes |-> Empty]
    /\ pending = [n \in Nodes |-> Empty]
    /\ writer = [n \in Nodes |-> "user"]

-----------------------------------------------------------------------------
\* The user copies c.
Copy(n, c) ==
    /\ board' = [board EXCEPT ![n] = c]
    /\ writer' = [writer EXCEPT ![n] = "user"]
    /\ UNCHANGED <<lastWritten, lastSeen, pending>>

\* The clipboard is emptied: by another program such as tailclip clear --local,
\* or by ClearLocal.
ClearBoard(n) ==
    /\ board' = [board EXCEPT ![n] = Empty]
    /\ writer' = [writer EXCEPT ![n] = "user"]
    /\ UNCHANGED <<lastWritten, lastSeen, pending>>

-----------------------------------------------------------------------------
\* Mutant: the monitor remembers no write of its own.
IsNeverOwnWrite(n) == FALSE

IsOwnWrite(n) == board[n] = lastWritten[n]

\* Poll finds what the agent wrote: seen from now on.
PollOwnWrite(n) ==
    /\ board[n] \notin {Empty, lastSeen[n]}
    /\ IsOwnWrite(n)
    /\ lastSeen' = [lastSeen EXCEPT ![n] = board[n]]
    /\ UNCHANGED <<board, lastWritten, pending, writer>>

\* Mutant: new content counts as seen before it is sent.
PollNewSeen(n) ==
    /\ board[n] \notin {Empty, lastSeen[n]}
    /\ ~ IsOwnWrite(n)
    /\ pending' = [pending EXCEPT ![n] = board[n]]
    /\ lastSeen' = [lastSeen EXCEPT ![n] = board[n]]
    /\ UNCHANGED <<board, lastWritten, writer>>

\* Poll finds new content, which is not seen before the caller marks it.
PollNew(n) ==
    /\ board[n] \notin {Empty, lastSeen[n]}
    /\ ~ IsOwnWrite(n)
    /\ pending' = [pending EXCEPT ![n] = board[n]]
    /\ UNCHANGED <<board, lastWritten, lastSeen, writer>>

\* Mutant: what was blocked or sent is not remembered.
MarkForgotten(n) == UNCHANGED monitorVars

MarkHandled(n) ==
    /\ lastSeen' = [lastSeen EXCEPT ![n] = pending[n]]
    /\ UNCHANGED <<board, lastWritten, pending, writer>>

-----------------------------------------------------------------------------
\* Mutant: nothing is marked before the write.
MarkNothing(n, c) == UNCHANGED monitorVars

\* ApplyRemote(c): mark it as written, write it, read back what the platform
\* made of it, commit what was read.
MarkWritten(n, c) ==
    /\ lastWritten' = [lastWritten EXCEPT ![n] = c]
    /\ UNCHANGED <<board, lastSeen, pending, writer>>

WriteBoard(n, c) ==
    /\ board' = [board EXCEPT ![n] = Reads[n][c]]
    /\ writer' = [writer EXCEPT ![n] = "agent"]
    /\ UNCHANGED <<lastWritten, lastSeen, pending>>

CommitReadBack(n, read) ==
    /\ lastSeen' = [lastSeen EXCEPT ![n] = read]
    /\ lastWritten' = [lastWritten EXCEPT ![n] = read]
    /\ UNCHANGED <<board, pending, writer>>

\* The read-back failed or found nothing.
CommitUnread(n, c) ==
    /\ lastSeen' = [lastSeen EXCEPT ![n] = c]
    /\ UNCHANGED <<board, lastWritten, pending, writer>>

\* The second half of ClearLocal; also the monitor of a new process.
ResetMonitor(n) ==
    /\ lastWritten' = [lastWritten EXCEPT ![n] = Empty]
    /\ lastSeen' = [lastSeen EXCEPT ![n] = Empty]
    /\ pending' = [pending EXCEPT ![n] = Empty]
    /\ UNCHANGED <<board, writer>>

=============================================================================
