------------------------------- MODULE Agent -------------------------------
(***************************************************************************)
(* The agents (internal/agent/agent.go) of several machines, their stream  *)
(* clients (internal/agent/wsclient.go) and the hub as they see it.        *)
(*                                                                         *)
(* An agent has two goroutines.  The poller sends what the user copies:    *)
(* poll, decide, put, mark.  The other one keeps the stream: dial,         *)
(* bootstrap once, read clips and apply them to the clipboard.  They share *)
(* the monitor and the clipboard, and the user shares the clipboard.       *)
(*                                                                         *)
(* Of the hub only what an agent can tell is kept: clips in sequence order *)
(* (clips[k] has seq k), published in that order some time after they were *)
(* committed.  Its locks, store, channels and crashes are in Hub and       *)
(* HubStream; clips do not expire here, and its history forgets nothing.   *)
(***************************************************************************)
EXTENDS ClipboardMonitor, Sequences

CONSTANTS
    Others,          \* clients of the hub without a clipboard of their own
    Copiers,         \* the machines on which somebody copies
    Sensitive,       \* what the privacy policy blocks
    ClearOnBlock,    \* privacy.Config.ClearOnBlock
    Disturbances,    \* what goes wrong: see the actions
    MaxCopies, MaxClips, MaxRestarts    \* bounds

ASSUME CopiersAssumption == Copiers \subseteq Nodes /\ Others \cap Nodes = {}
ASSUME PolicyAssumption == Sensitive \subseteq Contents /\ ClearOnBlock \in BOOLEAN
ASSUME DisturbancesAssumption ==
    Disturbances \subseteq
        {"put", "late", "get", "stream", "clipboard", "pause", "erase", "restart"}
ASSUME AgentBoundsAssumption == MaxCopies \in Nat /\ MaxClips \in Nat /\ MaxRestarts \in Nat

VARIABLES
    poller,          \* where the poll loop is
    applier,         \* where ApplyRemote of the stream goroutine is
    item,            \* what ApplyRemote was called with
    readBack,        \* what ApplyRemote read back
    paused,          \* isPaused
    boot,            \* bootstrapped, and how: applied, nothing to apply, skipped
    conn,            \* the stream: off, dialled, or subscribed at the hub
    lastSeq,         \* lastSeq of WSClient
    next,            \* the seq that the stream delivers next; where a broken one ended
    caught,          \* the last seq of the catch-up of this stream
    clips,           \* the hub's clips
    published,       \* how many of them are published
    awaited,         \* the seq whose publish the put of the poller waits for
    late,            \* puts under way that their agent has given up
    copies, restarts,  \* for the bounds
    \* What the properties need to remember of the past:
    stale,           \* is the clipboard as it was when the agent started?
    touched,         \* was ever on it what no agent that still runs has written?
    converted        \* contents that a read-back found instead of the written one

agentVars == <<poller, applier, item, readBack, paused, boot>>
streamVars == <<conn, lastSeq, next, caught>>
hubVars == <<clips, published>>
requestVars == <<awaited, late>>
countVars == <<copies, restarts>>
ghostVars == <<stale, touched, converted>>
vars == <<monitorVars, agentVars, streamVars, hubVars, requestVars, countVars, ghostVars>>

Clip == [payload : Contents, source : Nodes \cup Others]

AgentTypeOK ==
    /\ MonitorTypeOK
    /\ poller \in [Nodes -> {"idle", "sending", "waiting", "handled", "clearing", "cleared"}]
    /\ applier \in [Nodes -> {"idle", "writing", "reading", "committing"}]
    /\ item \in [Nodes -> Contents \cup {Empty}]
    /\ readBack \in [Nodes -> Contents \cup {Empty}]
    /\ paused \in [Nodes -> BOOLEAN]
    /\ boot \in [Nodes -> {"no", "applied", "empty", "skipped"}]
    /\ conn \in [Nodes -> {"off", "dialled", "subscribed"}]
    /\ lastSeq \in [Nodes -> Nat] /\ next \in [Nodes -> Nat] /\ caught \in [Nodes -> Nat]
    /\ clips \in Seq(Clip)
    /\ published \in Nat
    /\ awaited \in [Nodes -> Nat]
    /\ late \subseteq Clip
    /\ copies \in Nat /\ restarts \in Nat
    /\ stale \in [Nodes -> BOOLEAN] /\ touched \in [Nodes -> BOOLEAN]
    /\ converted \in [Nodes -> SUBSET Contents]

AgentInit ==
    /\ MonitorInit
    /\ poller = [n \in Nodes |-> "idle"]
    /\ applier = [n \in Nodes |-> "idle"]
    /\ item = [n \in Nodes |-> Empty]
    /\ readBack = [n \in Nodes |-> Empty]
    /\ paused = [n \in Nodes |-> FALSE]
    /\ boot = [n \in Nodes |-> "no"]
    /\ conn = [n \in Nodes |-> "off"]
    /\ lastSeq = [n \in Nodes |-> 0]
    /\ next = [n \in Nodes |-> 0]
    /\ caught = [n \in Nodes |-> 0]
    /\ clips = <<>> /\ published = 0
    /\ awaited = [n \in Nodes |-> 0]
    /\ late = {}
    /\ copies = 0 /\ restarts = 0
    /\ stale = [n \in Nodes |-> board[n] # Empty]
    /\ touched = stale
    /\ converted = [n \in Nodes |-> {}]

-----------------------------------------------------------------------------
\* The user and the other programs of a machine.

UserCopies(n, c) ==
    /\ n \in Copiers
    /\ copies < MaxCopies
    /\ copies' = copies + 1
    /\ Copy(n, c)
    /\ stale' = [stale EXCEPT ![n] = FALSE]
    /\ touched' = [touched EXCEPT ![n] = TRUE]
    /\ UNCHANGED <<agentVars, streamVars, hubVars, requestVars, restarts, converted>>

UserErases(n) ==
    /\ "erase" \in Disturbances
    /\ board[n] # Empty
    /\ ClearBoard(n)
    /\ stale' = [stale EXCEPT ![n] = FALSE]
    /\ UNCHANGED <<agentVars, streamVars, hubVars, requestVars, countVars, touched,
                   converted>>

\* tailclip pause and tailclip resume.
PauseOrResume(n) ==
    /\ "pause" \in Disturbances
    /\ paused' = [paused EXCEPT ![n] = ~ @]
    /\ UNCHANGED <<monitorVars, poller, applier, item, readBack, boot, streamVars, hubVars,
                   requestVars, countVars, ghostVars>>

-----------------------------------------------------------------------------
\* The poll loop.

\* Mutant: the poll loop does not wait for the bootstrap.
MayPollUnbooted(n) == poller[n] = "idle" /\ ~ paused[n]

MayPoll(n) ==
    /\ poller[n] = "idle"
    /\ ~ paused[n]
    /\ boot[n] # "no"

\* handlePrivacy: what becomes of new content.
Verdict(c) ==
    CASE c \notin Sensitive             -> "sending"
      [] c \in Sensitive /\ ClearOnBlock  -> "clearing"
      [] c \in Sensitive /\ ~ ClearOnBlock -> "handled"

Poll(n) ==
    /\ MayPoll(n)
    /\ \/ PollOwnWrite(n) /\ UNCHANGED poller
       \/ PollNew(n) /\ poller' = [poller EXCEPT ![n] = Verdict(board[n])]
    /\ UNCHANGED <<applier, item, readBack, paused, boot, streamVars, hubVars, requestVars,
                   countVars, ghostVars>>

\* Put of the hub, as the hub's clients see it.
IsCurrent(p) == clips # <<>> /\ clips[Len(clips)].payload = p

HubPut(n, p) ==
    /\ ~ IsCurrent(p)
    /\ Len(clips) < MaxClips
    /\ clips' = Append(clips, [payload |-> p, source |-> n])
    /\ UNCHANGED published

\* sendToHub: the put reaches the hub.
SendNew(n) ==
    /\ poller[n] = "sending"
    /\ HubPut(n, pending[n])
    /\ awaited' = [awaited EXCEPT ![n] = Len(clips) + 1]
    /\ poller' = [poller EXCEPT ![n] = "waiting"]
    /\ UNCHANGED <<monitorVars, applier, item, readBack, paused, boot, streamVars, late,
                   countVars, ghostVars>>

\* The content is current at the hub, which answers at once.
SendDuplicate(n) ==
    /\ poller[n] = "sending"
    /\ IsCurrent(pending[n])
    /\ poller' = [poller EXCEPT ![n] = "handled"]
    /\ UNCHANGED <<monitorVars, applier, item, readBack, paused, boot, streamVars, hubVars,
                   requestVars, countVars, ghostVars>>

\* The put is answered once its clip is published.
Answer(n) ==
    /\ poller[n] = "waiting"
    /\ awaited[n] <= published
    /\ awaited' = [awaited EXCEPT ![n] = 0]
    /\ poller' = [poller EXCEPT ![n] = "handled"]
    /\ UNCHANGED <<monitorVars, applier, item, readBack, paused, boot, streamVars, hubVars,
                   late, countVars, ghostVars>>

\* Mutant: a failed send is marked as sent.
AfterFailureHandled == "handled"

\* A failed send is left to the next poll.
AfterFailure == "idle"

\* The put fails or times out: before it reached the hub, which it may still do,
\* or before its answer arrived.
SendFails(n) ==
    /\ "put" \in Disturbances
    /\ \/ /\ poller[n] = "sending"
          /\ \/ /\ "late" \in Disturbances
                /\ late' = late \cup {[payload |-> pending[n], source |-> n]}
             \/ UNCHANGED late
       \/ poller[n] = "waiting" /\ UNCHANGED late
    /\ awaited' = [awaited EXCEPT ![n] = 0]
    /\ poller' = [poller EXCEPT ![n] = AfterFailure]
    /\ UNCHANGED <<monitorVars, applier, item, readBack, paused, boot, streamVars, hubVars,
                   countVars, ghostVars>>

\* A put that its agent has given up reaches the hub.
LateSend(r) ==
    /\ r \in late
    /\ late' = late \ {r}
    /\ \/ HubPut(r.source, r.payload)
       \/ IsCurrent(r.payload) /\ UNCHANGED hubVars
    /\ UNCHANGED <<monitorVars, agentVars, streamVars, awaited, countVars, ghostVars>>

\* MarkSent, and MarkHandled of what was blocked.
Mark(n) ==
    /\ poller[n] = "handled"
    /\ MarkHandled(n)
    /\ poller' = [poller EXCEPT ![n] = "idle"]
    /\ UNCHANGED <<applier, item, readBack, paused, boot, streamVars, hubVars, requestVars,
                   countVars, ghostVars>>

\* ClearLocal: first the clipboard, then the monitor.
ClearLocalBoard(n) ==
    /\ poller[n] = "clearing"
    /\ ClearBoard(n)
    /\ stale' = [stale EXCEPT ![n] = FALSE]
    /\ poller' = [poller EXCEPT ![n] = "cleared"]
    /\ UNCHANGED <<applier, item, readBack, paused, boot, streamVars, hubVars, requestVars,
                   countVars, touched, converted>>

ClearLocalFails(n) ==
    /\ "clipboard" \in Disturbances
    /\ poller[n] = "clearing"
    /\ poller' = [poller EXCEPT ![n] = "handled"]
    /\ UNCHANGED <<monitorVars, applier, item, readBack, paused, boot, streamVars, hubVars,
                   requestVars, countVars, ghostVars>>

ClearLocalReset(n) ==
    /\ poller[n] = "cleared"
    /\ ResetMonitor(n)
    /\ poller' = [poller EXCEPT ![n] = "idle"]
    /\ UNCHANGED <<applier, item, readBack, paused, boot, streamVars, hubVars, requestVars,
                   countVars, ghostVars>>

-----------------------------------------------------------------------------
\* The stream goroutine.

\* applyRemote: is the clip for the clipboard of n?
Applies(n, clip) == ~ paused[n] /\ clip.source # n

\* applyRemote up to the write.
StartApply(n, c) ==
    /\ MarkWritten(n, c)
    /\ item' = [item EXCEPT ![n] = c]
    /\ applier' = [applier EXCEPT ![n] = "writing"]

Dial(n) ==
    /\ conn[n] = "off"
    /\ applier[n] = "idle"
    /\ conn' = [conn EXCEPT ![n] = "dialled"]
    /\ UNCHANGED <<monitorVars, agentVars, lastSeq, next, caught, hubVars, requestVars,
                   countVars, ghostVars>>

\* Mutant: the client never asks for what it missed.
NeverReplays(n) == FALSE

\* Does the client send since_seq, and does the hub have later clips?
Replays(n) == 0 < lastSeq[n] /\ lastSeq[n] < Len(clips)

\* The hub subscribes the stream.  It replays the later clips, published or not,
\* and skips them when they are published; else the stream begins with the next
\* clip to be published.
Subscribe(n) ==
    /\ conn[n] = "dialled"
    /\ conn' = [conn EXCEPT ![n] = "subscribed"]
    /\ next' = [next EXCEPT ![n] = IF Replays(n) THEN lastSeq[n] + 1 ELSE published + 1]
    /\ caught' = [caught EXCEPT ![n] = IF Replays(n) THEN Len(clips) ELSE 0]
    /\ UNCHANGED <<monitorVars, agentVars, lastSeq, hubVars, requestVars, countVars,
                   ghostVars>>

\* Mutant: bootstrapped is stored before the clip is applied.
BootstrapStoredFirst(n) ==
    /\ conn[n] # "off"
    /\ boot[n] = "no"
    /\ applier[n] = "idle"
    /\ boot' = [boot EXCEPT ![n] = "applied"]
    /\ IF clips # <<>> /\ Applies(n, clips[Len(clips)])
       THEN StartApply(n, clips[Len(clips)].payload)
       ELSE UNCHANGED <<monitorVars, item, applier>>
    /\ UNCHANGED <<poller, readBack, paused, streamVars, hubVars, requestVars, countVars,
                   ghostVars>>

\* What bootstrap does first: GET /api/clip.
Bootstrap(n) ==
    /\ conn[n] # "off"
    /\ boot[n] = "no"
    /\ applier[n] = "idle"
    /\ IF clips # <<>> /\ Applies(n, clips[Len(clips)])
       THEN StartApply(n, clips[Len(clips)].payload) /\ UNCHANGED boot
       ELSE /\ boot' = [boot EXCEPT ![n] = IF clips = <<>> THEN "empty" ELSE "skipped"]
            /\ UNCHANGED <<monitorVars, item, applier>>
    /\ UNCHANGED <<poller, readBack, paused, streamVars, hubVars, requestVars, countVars,
                   ghostVars>>

\* Five attempts to get the current clip failed: on without it.
BootstrapExhausted(n) ==
    /\ "get" \in Disturbances
    /\ conn[n] # "off"
    /\ boot[n] = "no"
    /\ applier[n] = "idle"
    /\ boot' = [boot EXCEPT ![n] = "skipped"]
    /\ UNCHANGED <<monitorVars, poller, applier, item, readBack, paused, streamVars, hubVars,
                   requestVars, countVars, ghostVars>>

\* The next clip of the stream.
Deliver(n) ==
    /\ conn[n] = "subscribed"
    /\ boot[n] # "no"
    /\ applier[n] = "idle"
    /\ next[n] <= published \/ next[n] <= caught[n]
    /\ lastSeq' = [lastSeq EXCEPT ![n] = next[n]]
    /\ next' = [next EXCEPT ![n] = @ + 1]
    /\ IF Applies(n, clips[next[n]])
       THEN StartApply(n, clips[next[n]].payload)
       ELSE UNCHANGED <<monitorVars, item, applier>>
    /\ UNCHANGED <<poller, readBack, paused, boot, conn, caught, hubVars, requestVars,
                   countVars, ghostVars>>

\* The rest of ApplyRemote.
ApplyWrite(n) ==
    /\ applier[n] = "writing"
    /\ WriteBoard(n, item[n])
    /\ stale' = [stale EXCEPT ![n] = FALSE]
    /\ applier' = [applier EXCEPT ![n] = "reading"]
    /\ UNCHANGED <<poller, item, readBack, paused, boot, streamVars, hubVars, requestVars,
                   countVars, touched, converted>>

\* A bootstrap that was under way is over, with this outcome.
Booted(n, outcome) == boot' = [boot EXCEPT ![n] = IF @ = "no" THEN outcome ELSE @]

ApplyWriteFails(n) ==
    /\ "clipboard" \in Disturbances
    /\ applier[n] = "writing"
    /\ applier' = [applier EXCEPT ![n] = "idle"]
    /\ item' = [item EXCEPT ![n] = Empty]
    /\ Booted(n, "skipped")
    /\ UNCHANGED <<monitorVars, poller, readBack, paused, streamVars, hubVars, requestVars,
                   countVars, ghostVars>>

\* A read that fails is as one that finds nothing.
ApplyRead(n) ==
    /\ applier[n] = "reading"
    /\ \E read \in {board[n]} \cup IF "clipboard" \in Disturbances THEN {Empty} ELSE {} :
          readBack' = [readBack EXCEPT ![n] = read]
    /\ applier' = [applier EXCEPT ![n] = "committing"]
    /\ UNCHANGED <<monitorVars, poller, item, paused, boot, streamVars, hubVars, requestVars,
                   countVars, ghostVars>>

ApplyCommit(n) ==
    /\ applier[n] = "committing"
    /\ IF readBack[n] = Empty
       THEN CommitUnread(n, item[n]) /\ UNCHANGED converted
       ELSE /\ CommitReadBack(n, readBack[n])
            /\ converted' = [converted EXCEPT ![n] = @ \cup ({readBack[n]} \ {item[n]})]
    /\ applier' = [applier EXCEPT ![n] = "idle"]
    /\ item' = [item EXCEPT ![n] = Empty]
    /\ readBack' = [readBack EXCEPT ![n] = Empty]
    /\ Booted(n, "applied")
    /\ UNCHANGED <<poller, paused, streamVars, hubVars, requestVars, countVars, stale,
                   touched>>

\* The stream breaks; the client notices when it reads.
Disconnect(n) ==
    /\ "stream" \in Disturbances
    /\ conn[n] # "off"
    /\ boot[n] # "no" /\ applier[n] = "idle"
    /\ conn' = [conn EXCEPT ![n] = "off"]
    /\ caught' = [caught EXCEPT ![n] = 0]
    /\ UNCHANGED <<monitorVars, agentVars, lastSeq, next, hubVars, requestVars, countVars,
                   ghostVars>>

-----------------------------------------------------------------------------
\* tailclip put, the iOS application, or an agent whose clipboard is not modelled.
OtherPuts(s, p) ==
    /\ HubPut(s, p)
    /\ UNCHANGED <<monitorVars, agentVars, streamVars, requestVars, countVars, ghostVars>>

\* The hub publishes the next clip.
Publish ==
    /\ published < Len(clips)
    /\ published' = published + 1
    /\ UNCHANGED <<monitorVars, agentVars, streamVars, clips, requestVars, countVars, ghostVars>>

\* clipd ends and is started again; a put under way may still reach the hub.
Restart(n) ==
    /\ "restart" \in Disturbances
    /\ restarts < MaxRestarts
    /\ restarts' = restarts + 1
    /\ ResetMonitor(n)
    /\ poller' = [poller EXCEPT ![n] = "idle"]
    /\ applier' = [applier EXCEPT ![n] = "idle"]
    /\ item' = [item EXCEPT ![n] = Empty]
    /\ readBack' = [readBack EXCEPT ![n] = Empty]
    /\ boot' = [boot EXCEPT ![n] = "no"]
    /\ conn' = [conn EXCEPT ![n] = "off"]
    /\ lastSeq' = [lastSeq EXCEPT ![n] = 0]
    /\ next' = [next EXCEPT ![n] = 0]
    /\ caught' = [caught EXCEPT ![n] = 0]
    /\ stale' = [stale EXCEPT ![n] = board[n] # Empty]
    /\ touched' = [touched EXCEPT ![n] = @ \/ board[n] # Empty]
    /\ \/ /\ "late" \in Disturbances
          /\ poller[n] = "sending"
          /\ late' = late \cup {[payload |-> pending[n], source |-> n]}
       \/ UNCHANGED late
    /\ awaited' = [awaited EXCEPT ![n] = 0]
    /\ UNCHANGED <<paused, hubVars, copies, converted>>

PollerStep(n) ==
    \/ Poll(n) \/ SendNew(n) \/ SendDuplicate(n) \/ Answer(n) \/ SendFails(n) \/ Mark(n)
    \/ ClearLocalBoard(n) \/ ClearLocalFails(n) \/ ClearLocalReset(n)

StreamStep(n) ==
    \/ Dial(n) \/ Subscribe(n) \/ Bootstrap(n) \/ BootstrapExhausted(n) \/ Deliver(n)
    \/ ApplyWrite(n) \/ ApplyWriteFails(n) \/ ApplyRead(n) \/ ApplyCommit(n)
    \/ Disconnect(n)

MachineStep(n) ==
    \/ \E c \in Contents : UserCopies(n, c)
    \/ UserErases(n) \/ PauseOrResume(n) \/ Restart(n)

AgentNext ==
    \/ \E n \in Nodes : PollerStep(n) \/ StreamStep(n) \/ MachineStep(n)
    \/ \E r \in late : LateSend(r)
    \/ \E s \in Others, p \in Contents : OtherPuts(s, p)
    \/ Publish

AgentSpec == AgentInit /\ [][AgentNext]_vars

\* The ticker ticks and the goroutines run; a put or a stream that is tried
\* again and again succeeds in the end; the hub publishes what it committed.
AgentFairSpec ==
    /\ AgentSpec
    /\ WF_vars(Publish)
    /\ \A n \in Nodes :
          /\ WF_vars(\/ Poll(n) \/ Answer(n) \/ Mark(n)
                     \/ ClearLocalBoard(n) \/ ClearLocalReset(n))
          /\ SF_vars(SendNew(n) \/ SendDuplicate(n))
          /\ WF_vars(\/ Dial(n) \/ Bootstrap(n)
                     \/ ApplyWrite(n) \/ ApplyRead(n) \/ ApplyCommit(n))
          /\ SF_vars(Subscribe(n)) /\ SF_vars(Deliver(n))

-----------------------------------------------------------------------------
(***************************************************************************)
(* What the agents promise.                                                *)
(***************************************************************************)

\* What the hub was ever sent.
InHub == {clips[k].payload : k \in DOMAIN clips}

\* What the monitor remembers, and will therefore not send, is at the hub, or
\* is withheld by the policy, or was read back instead of a clip that was
\* written: no failed, timed out or interrupted put makes the agent forget what
\* the user copied (TestFailedSendRetry).
KnownWasShared ==
    \A n \in Nodes :
        /\ {lastSeen[n], lastWritten[n], item[n]} \subseteq
               {Empty} \cup InHub \cup Sensitive \cup converted[n]
        /\ poller[n] = "handled" => pending[n] \in InHub \cup Sensitive

\* What lay on the clipboard before the agent started is not sent over the
\* hub's clip (TestBootstrapPreventsStaleOverwrite), unless the hub had none or
\* the bootstrap did not apply it: paused, own, not fetched, not written.
StaleStaysLocal ==
    \A n \in Nodes :
        stale[n] /\ poller[n] # "idle" => boot[n] \in {"empty", "skipped"}

\* A machine on which nobody has copied, and whose clipboard was empty when clipd
\* started, has sent no clip: whatever the interleaving of its two goroutines, it
\* takes nothing that the stream brought for the user's, as long as its platform
\* reads back what was written.
ReceiverStaysSilent ==
    \A n \in Nodes : ~ touched[n] =>
        poller[n] = "idle" /\ \A k \in DOMAIN clips : clips[k].source # n

\* What stays on a clipboard reaches the hub or is withheld by the policy, however
\* many puts and connections fail on the way; but for a copy that a read-back of
\* ApplyRemote found in place of the clip it had written.
CopyReachesHub ==
    \A n \in Nodes : []<>(board[n] \in {Empty} \cup InHub \cup Sensitive \cup converted[n])

\* Every clipboard shows the hub's current clip.
AllAgree == \A n \in Nodes : IF clips = <<>> THEN board[n] = Empty ELSE IsCurrent(board[n])

\* When copying has ceased, all clipboards come to show the hub's current clip and
\* keep it, through failing puts and broken connections: so far as one machine only
\* is copied on, no put arrives after its agent has given it up, and the stream
\* has reached every other machine once.
ReachedMachinesAgree ==
    (\A n \in Nodes \ Copiers : <>[](lastSeq[n] > 0)) => <>[]AllAgree

-----------------------------------------------------------------------------
(***************************************************************************)
(* The inductive invariant behind KnownWasShared and StaleStaysLocal.      *)
(***************************************************************************)

\* A stream is within what the hub has.
StreamInBounds ==
    /\ published <= Len(clips)
    /\ \A n \in Nodes :
          /\ caught[n] <= Len(clips)
          /\ conn[n] = "subscribed" => next[n] >= 1

\* A goroutine that is busy has in hand what it is busy with.
WorkInHand ==
    \A n \in Nodes :
        /\ poller[n] # "idle" => boot[n] # "no"
        /\ poller[n] = "sending" => pending[n] \in Contents
        /\ poller[n] = "waiting" => pending[n] \in InHub
        /\ poller[n] = "clearing" => pending[n] \in Sensitive
        /\ applier[n] # "idle" => item[n] \in Contents

\* An applied bootstrap, and an apply that has written, has replaced what was on
\* the clipboard before.
BootReplacesStale ==
    \A n \in Nodes :
        stale[n] => boot[n] # "applied" /\ applier[n] \in {"idle", "writing"}

AgentInv ==
    /\ AgentTypeOK
    /\ StreamInBounds
    /\ WorkInHand
    /\ BootReplacesStale
    /\ KnownWasShared
    /\ StaleStaysLocal

\* Whose clips the hub has, or may still receive.
Senders == {clips[k].source : k \in DOMAIN clips} \cup {r.source : r \in late}

\* The inductive invariant behind ReceiverStaysSilent.  What an untouched clipboard
\* shows is what the monitor has seen or, while ApplyRemote is between its write
\* and its commit, what it has just written.
SilentInv ==
    \A n \in Nodes : ~ touched[n] =>
        /\ n \notin Senders
        /\ poller[n] = "idle"
        /\ applier[n] \in {"idle", "writing"} => board[n] \in {Empty, lastSeen[n]}
        /\ applier[n] # "idle" => lastWritten[n] = item[n]
        /\ applier[n] \in {"reading", "committing"} => board[n] \in {Empty, item[n]}
        /\ applier[n] = "committing" => readBack[n] \in {Empty, item[n]}

-----------------------------------------------------------------------------
(***************************************************************************)
(* The hub that the agents rely on.                                        *)
(***************************************************************************)

\* The published clips under their numbers.
HubLog == {[seq |-> k, payload |-> clips[k].payload] : k \in 1 .. published}

HubAsAssumed == INSTANCE HubContract
                    WITH up <- TRUE, committed <- Len(clips), published <- published,
                         log <- HubLog, last <- published

\* What the agents take for granted of a running hub is no more than the contract that
\* module Hub is shown to implement: one number after the other, each published once
\* and in its turn.
HubWithinContract == [][HubAsAssumed!Next]_(HubAsAssumed!vars)

-----------------------------------------------------------------------------
(***************************************************************************)
(* What the documents say of them and the code does not do.                *)
(***************************************************************************)

\* clipd "applies remote updates without echo loops" (docs/architecture.md).
NoEcho ==
    [][\A n \in Nodes :
          poller[n] = "idle" /\ poller'[n] = "sending" => writer[n] = "user"]_vars

\* "Sync is last-write-wins" (docs/limitations.md): when copying has ceased, no
\* copy was lost on its way and the stream has reached every machine, all
\* clipboards come to show the last clip.
LastWriteWins ==
    (\A n \in Nodes :
        <>[](lastSeq[n] > 0 /\ (writer[n] = "user" => board[n] \in InHub \cup {Empty})))
        => <>[]AllAgree

\* "Reconnecting clients can resume from since_seq to catch up on missed items"
\* (docs/architecture.md): a new stream begins no later than the last one ended.
ReconnectCatchesUp ==
    [][\A n \in Nodes :
          conn[n] = "dialled" /\ conn'[n] = "subscribed" /\ next[n] > 0
              => next'[n] <= next[n]]_vars

=============================================================================
