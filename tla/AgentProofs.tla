---------------------------- MODULE AgentProofs ----------------------------
(***************************************************************************)
(* Proofs about Agent, for every number of machines, contents and clients, *)
(* every policy, whatever the platforms read back and whatever goes wrong. *)
(***************************************************************************)
EXTENDS Agent, TLAPS

\* A put adds its content to what the hub was sent, and nothing else.
LEMMA PutGrows ==
    ASSUME clips \in Seq(Clip), NEW s \in Nodes \cup Others, NEW p \in Contents, HubPut(s, p)
    PROVE  /\ clips' \in Seq(Clip)
           /\ Len(clips') = Len(clips) + 1
           /\ InHub' = InHub \cup {p}
           /\ published' = published
           /\ {clips'[k].source : k \in DOMAIN clips'} =
                  {clips[k].source : k \in DOMAIN clips} \cup {s}
<1> DEFINE clip == [payload |-> p, source |-> s]
<1>1. clips' = Append(clips, clip) /\ published' = published
    BY DEF HubPut
<1>2. clip \in Clip
    BY DEF Clip
<1>3. clips' \in Seq(Clip) /\ Len(clips') = Len(clips) + 1
    BY <1>1, <1>2
<1>4. \A k \in DOMAIN clips : k \in DOMAIN clips' /\ clips'[k] = clips[k]
    BY <1>1, <1>2
<1>5. \A k \in DOMAIN clips' : k \in DOMAIN clips \/ k = Len(clips) + 1
    BY <1>1, <1>2
<1>6. clips'[Len(clips) + 1] = clip /\ Len(clips) + 1 \in DOMAIN clips'
    BY <1>1, <1>2
<1>7. clip.payload = p /\ clip.source = s
    OBVIOUS
<1> HIDE DEF clip
<1>8. InHub' = InHub \cup {p}
    BY <1>4, <1>5, <1>6, <1>7 DEF InHub
<1>9. {clips'[k].source : k \in DOMAIN clips'} =
          {clips[k].source : k \in DOMAIN clips} \cup {s}
    BY <1>4, <1>5, <1>6, <1>7
<1> QED
    BY <1>1, <1>3, <1>8, <1>9

\* The current clip was sent.
LEMMA CurrentWasSent ==
    ASSUME clips \in Seq(Clip), NEW p, IsCurrent(p)
    PROVE  p \in InHub
<1>1. Len(clips) \in DOMAIN clips
    BY DEF IsCurrent
<1> QED
    BY <1>1 DEF IsCurrent, InHub

\* Clips are made of contents.
LEMMA ClipInHub ==
    ASSUME clips \in Seq(Clip), NEW k \in 1 .. Len(clips)
    PROVE  clips[k].payload \in InHub /\ clips[k].payload \in Contents
<1>1. clips[k] \in Clip /\ k \in DOMAIN clips
    OBVIOUS
<1> QED
    BY <1>1 DEF InHub, Clip

\* Stale content is held back by the bootstrap: one that is not applied, is not over.
LEMMA StaleFollows ==
    ASSUME AgentTypeOK, WorkInHand, BootReplacesStale
    PROVE  StaleStaysLocal
BY DEF AgentTypeOK, WorkInHand, BootReplacesStale, StaleStaysLocal

\* ... in the next state, too.
LEMMA StaleFollowsNext ==
    ASSUME AgentTypeOK', WorkInHand', BootReplacesStale'
    PROVE  StaleStaysLocal'
BY DEF AgentTypeOK, WorkInHand, BootReplacesStale, StaleStaysLocal

\* What the hub was sent depends on its clips only.
LEMMA SameClips ==
    ASSUME UNCHANGED clips
    PROVE  InHub' = InHub
BY DEF InHub

-----------------------------------------------------------------------------
(***************************************************************************)
(* The invariant, action by action.                                        *)
(***************************************************************************)

LEMMA AgentInitEstablishes == AgentInit => AgentInv
<1> SUFFICES ASSUME AgentInit
             PROVE  AgentInv
    OBVIOUS
<1> USE DEF AgentInit, MonitorInit
<1>1. AgentTypeOK
    BY BeforeAssumption DEF AgentTypeOK, MonitorTypeOK
<1>2. StreamInBounds
    BY DEF StreamInBounds
<1>3. WorkInHand /\ BootReplacesStale
    BY DEF WorkInHand, BootReplacesStale
<1>4. KnownWasShared
    BY DEF KnownWasShared
<1> QED
    BY <1>1, <1>2, <1>3, <1>4, StaleFollows DEF AgentInv

USE DEF monitorVars, agentVars, streamVars, hubVars, requestVars, countVars, ghostVars

\* A copy changes nothing but the clipboard.
LEMMA UserCopiesPreserves ==
    ASSUME AgentInv, NEW n \in Nodes, NEW c \in Contents, UserCopies(n, c)
    PROVE  AgentInv'
<1> USE DEF AgentInv, UserCopies, Copy
<1>1. AgentTypeOK'
    BY DEF AgentTypeOK, MonitorTypeOK
<1>2. InHub' = InHub
    BY SameClips
<1>3. StreamInBounds' /\ BootReplacesStale'
    BY DEF StreamInBounds, BootReplacesStale, AgentTypeOK
<1>4. WorkInHand'
    BY <1>2 DEF WorkInHand, AgentTypeOK, MonitorTypeOK
<1>5. KnownWasShared'
    BY <1>2 DEF KnownWasShared, WorkInHand, AgentTypeOK, MonitorTypeOK
<1> QED
    BY <1>1, <1>3, <1>4, <1>5, StaleFollowsNext

LEMMA UserErasesPreserves ==
    ASSUME AgentInv, NEW n \in Nodes, UserErases(n)
    PROVE  AgentInv'
<1> USE DEF AgentInv, UserErases, ClearBoard
<1>1. AgentTypeOK'
    BY DEF AgentTypeOK, MonitorTypeOK
<1>2. InHub' = InHub
    BY SameClips
<1>3. StreamInBounds' /\ BootReplacesStale'
    BY DEF StreamInBounds, BootReplacesStale, AgentTypeOK
<1>4. WorkInHand'
    BY <1>2 DEF WorkInHand, AgentTypeOK, MonitorTypeOK
<1>5. KnownWasShared'
    BY <1>2 DEF KnownWasShared, WorkInHand, AgentTypeOK, MonitorTypeOK
<1> QED
    BY <1>1, <1>3, <1>4, <1>5, StaleFollowsNext

LEMMA PauseOrResumePreserves ==
    ASSUME AgentInv, NEW n \in Nodes, PauseOrResume(n)
    PROVE  AgentInv'
<1> USE DEF AgentInv, PauseOrResume
<1>1. AgentTypeOK'
    BY DEF AgentTypeOK, MonitorTypeOK
<1>2. InHub' = InHub
    BY SameClips
<1>3. StreamInBounds' /\ BootReplacesStale'
    BY DEF StreamInBounds, BootReplacesStale, AgentTypeOK
<1>4. WorkInHand'
    BY <1>2 DEF WorkInHand, AgentTypeOK, MonitorTypeOK
<1>5. KnownWasShared'
    BY <1>2 DEF KnownWasShared, WorkInHand, AgentTypeOK, MonitorTypeOK
<1> QED
    BY <1>1, <1>3, <1>4, <1>5, StaleFollowsNext

\* New content goes into the poller's hand, and only after the bootstrap.
LEMMA PollPreserves ==
    ASSUME AgentInv, NEW n \in Nodes, Poll(n)
    PROVE  AgentInv'
<1> USE DEF AgentInv, Poll, MayPoll
<1>1. CASE PollOwnWrite(n) /\ UNCHANGED poller
    <2> USE <1>1 DEF PollOwnWrite, IsOwnWrite
    <2>1. AgentTypeOK'
        BY DEF AgentTypeOK, MonitorTypeOK
    <2>2. InHub' = InHub
        BY SameClips
    <2>3. StreamInBounds' /\ WorkInHand' /\ BootReplacesStale'
        BY <2>2 DEF StreamInBounds, WorkInHand, BootReplacesStale
    <2>4. KnownWasShared'
        BY <2>2 DEF KnownWasShared, AgentTypeOK, MonitorTypeOK
    <2> QED
        BY <2>1, <2>3, <2>4, StaleFollowsNext
<1>2. CASE PollNew(n) /\ poller' = [poller EXCEPT ![n] = Verdict(board[n])]
    <2> USE <1>2 DEF PollNew
    <2>1. board[n] \in Contents /\ pending' = [pending EXCEPT ![n] = board[n]]
        BY DEF AgentTypeOK, MonitorTypeOK
    <2>2. /\ Verdict(board[n]) \in {"sending", "clearing", "handled"}
          /\ Verdict(board[n]) # "sending" => board[n] \in Sensitive
        BY PolicyAssumption DEF Verdict
    <2>3. AgentTypeOK'
        BY <2>1, <2>2 DEF AgentTypeOK, MonitorTypeOK
    <2>4. InHub' = InHub
        BY SameClips
    <2>5. StreamInBounds' /\ BootReplacesStale'
        BY DEF StreamInBounds, BootReplacesStale
    <2>6. WorkInHand'
        BY <2>1, <2>2, <2>4 DEF WorkInHand, AgentTypeOK, MonitorTypeOK
    <2>7. KnownWasShared'
        BY <2>1, <2>2, <2>4 DEF KnownWasShared, AgentTypeOK, MonitorTypeOK
    <2> QED
        BY <2>3, <2>5, <2>6, <2>7, StaleFollowsNext
<1> QED
    BY <1>1, <1>2

\* What the poller waits for is at the hub.
LEMMA SendNewPreserves ==
    ASSUME AgentInv, NEW n \in Nodes, SendNew(n)
    PROVE  AgentInv'
<1> USE DEF AgentInv, SendNew
<1>1. pending[n] \in Contents
    BY DEF WorkInHand
<1>2. /\ clips' \in Seq(Clip) /\ Len(clips') = Len(clips) + 1 /\ published' = published
      /\ InHub' = InHub \cup {pending[n]}
    BY <1>1, PutGrows DEF AgentTypeOK
<1>3. AgentTypeOK'
    BY <1>2 DEF AgentTypeOK, MonitorTypeOK
<1>4. StreamInBounds'
    BY <1>2 DEF StreamInBounds, AgentTypeOK
<1>5. WorkInHand'
    BY <1>1, <1>2 DEF WorkInHand, AgentTypeOK, MonitorTypeOK
<1>6. BootReplacesStale'
    BY DEF BootReplacesStale
<1>7. KnownWasShared'
    BY <1>2 DEF KnownWasShared, AgentTypeOK, MonitorTypeOK
<1> QED
    BY <1>3, <1>4, <1>5, <1>6, <1>7, StaleFollowsNext

\* What is current was sent.
LEMMA SendDuplicatePreserves ==
    ASSUME AgentInv, NEW n \in Nodes, SendDuplicate(n)
    PROVE  AgentInv'
<1> USE DEF AgentInv, SendDuplicate
<1>1. AgentTypeOK'
    BY DEF AgentTypeOK, MonitorTypeOK
<1>2. InHub' = InHub /\ pending[n] \in InHub
    BY SameClips, CurrentWasSent DEF AgentTypeOK
<1>3. StreamInBounds' /\ BootReplacesStale'
    BY DEF StreamInBounds, BootReplacesStale
<1>4. WorkInHand'
    BY <1>2 DEF WorkInHand, AgentTypeOK
<1>5. KnownWasShared'
    BY <1>2 DEF KnownWasShared, AgentTypeOK
<1> QED
    BY <1>1, <1>3, <1>4, <1>5, StaleFollowsNext

LEMMA AnswerPreserves ==
    ASSUME AgentInv, NEW n \in Nodes, Answer(n)
    PROVE  AgentInv'
<1> USE DEF AgentInv, Answer
<1>1. AgentTypeOK'
    BY DEF AgentTypeOK, MonitorTypeOK
<1>2. InHub' = InHub
    BY SameClips
<1>3. StreamInBounds' /\ BootReplacesStale'
    BY DEF StreamInBounds, BootReplacesStale, AgentTypeOK
<1>4. WorkInHand'
    BY <1>2 DEF WorkInHand, AgentTypeOK, MonitorTypeOK
<1>5. KnownWasShared'
    BY <1>2 DEF KnownWasShared, WorkInHand, AgentTypeOK, MonitorTypeOK
<1> QED
    BY <1>1, <1>3, <1>4, <1>5, StaleFollowsNext

\* A put that fails is no longer in hand, and marks nothing.
LEMMA SendFailsPreserves ==
    ASSUME AgentInv, NEW n \in Nodes, SendFails(n)
    PROVE  AgentInv'
<1> USE DEF AgentInv, SendFails, AfterFailure
<1>1. late' \subseteq Clip
    <2>1. poller[n] = "sending" => [payload |-> pending[n], source |-> n] \in Clip
        BY DEF WorkInHand, Clip
    <2> QED
        BY <2>1 DEF AgentTypeOK
<1>2. AgentTypeOK'
    BY <1>1 DEF AgentTypeOK, MonitorTypeOK
<1>3. InHub' = InHub
    BY SameClips
<1>4. StreamInBounds' /\ BootReplacesStale'
    BY DEF StreamInBounds, BootReplacesStale
<1>5. WorkInHand'
    BY <1>3 DEF WorkInHand, AgentTypeOK
<1>6. KnownWasShared'
    BY <1>3 DEF KnownWasShared, AgentTypeOK
<1> QED
    BY <1>2, <1>4, <1>5, <1>6, StaleFollowsNext

\* A late put adds to what the hub was sent, or finds it there.
LEMMA LateSendPreserves ==
    ASSUME AgentInv, NEW r \in late, LateSend(r)
    PROVE  AgentInv'
<1> USE DEF AgentInv, LateSend
<1>1. r.payload \in Contents /\ r.source \in Nodes \cup Others
    BY DEF AgentTypeOK, Clip
<1>2. /\ clips' \in Seq(Clip) /\ Len(clips') >= Len(clips) /\ published' = published
      /\ InHub \subseteq InHub'
    <2>1. CASE HubPut(r.source, r.payload)
        BY <1>1, <2>1, PutGrows DEF AgentTypeOK
    <2>2. CASE UNCHANGED hubVars
        BY <2>2, SameClips DEF AgentTypeOK
    <2> QED
        BY <2>1, <2>2
<1>3. AgentTypeOK'
    BY <1>2 DEF AgentTypeOK, MonitorTypeOK
<1>4. StreamInBounds'
    BY <1>2 DEF StreamInBounds, AgentTypeOK
<1>5. WorkInHand' /\ BootReplacesStale'
    BY <1>2 DEF WorkInHand, BootReplacesStale
<1>6. KnownWasShared'
    BY <1>2 DEF KnownWasShared
<1> QED
    BY <1>3, <1>4, <1>5, <1>6, StaleFollowsNext

\* What is marked is at the hub or withheld.
LEMMA MarkPreserves ==
    ASSUME AgentInv, NEW n \in Nodes, Mark(n)
    PROVE  AgentInv'
<1> USE DEF AgentInv, Mark, MarkHandled
<1>1. AgentTypeOK'
    BY DEF AgentTypeOK, MonitorTypeOK
<1>2. InHub' = InHub
    BY SameClips
<1>3. StreamInBounds' /\ BootReplacesStale'
    BY DEF StreamInBounds, BootReplacesStale, AgentTypeOK
<1>4. WorkInHand'
    BY <1>2 DEF WorkInHand, AgentTypeOK, MonitorTypeOK
<1>5. KnownWasShared'
    BY <1>2 DEF KnownWasShared, WorkInHand, AgentTypeOK, MonitorTypeOK
<1> QED
    BY <1>1, <1>3, <1>4, <1>5, StaleFollowsNext

LEMMA ClearLocalBoardPreserves ==
    ASSUME AgentInv, NEW n \in Nodes, ClearLocalBoard(n)
    PROVE  AgentInv'
<1> USE DEF AgentInv, ClearLocalBoard, ClearBoard
<1>1. AgentTypeOK'
    BY DEF AgentTypeOK, MonitorTypeOK
<1>2. InHub' = InHub
    BY SameClips
<1>3. StreamInBounds' /\ BootReplacesStale'
    BY DEF StreamInBounds, BootReplacesStale, AgentTypeOK
<1>4. WorkInHand'
    BY <1>2 DEF WorkInHand, AgentTypeOK, MonitorTypeOK
<1>5. KnownWasShared'
    BY <1>2 DEF KnownWasShared, WorkInHand, AgentTypeOK, MonitorTypeOK
<1> QED
    BY <1>1, <1>3, <1>4, <1>5, StaleFollowsNext

LEMMA ClearLocalFailsPreserves ==
    ASSUME AgentInv, NEW n \in Nodes, ClearLocalFails(n)
    PROVE  AgentInv'
<1> USE DEF AgentInv, ClearLocalFails
<1>1. AgentTypeOK'
    BY DEF AgentTypeOK, MonitorTypeOK
<1>2. InHub' = InHub
    BY SameClips
<1>3. StreamInBounds' /\ BootReplacesStale'
    BY DEF StreamInBounds, BootReplacesStale, AgentTypeOK
<1>4. WorkInHand'
    BY <1>2 DEF WorkInHand, AgentTypeOK, MonitorTypeOK
<1>5. KnownWasShared'
    BY <1>2 DEF KnownWasShared, WorkInHand, AgentTypeOK, MonitorTypeOK
<1> QED
    BY <1>1, <1>3, <1>4, <1>5, StaleFollowsNext

LEMMA ClearLocalResetPreserves ==
    ASSUME AgentInv, NEW n \in Nodes, ClearLocalReset(n)
    PROVE  AgentInv'
<1> USE DEF AgentInv, ClearLocalReset, ResetMonitor
<1>1. AgentTypeOK'
    BY DEF AgentTypeOK, MonitorTypeOK
<1>2. InHub' = InHub
    BY SameClips
<1>3. StreamInBounds' /\ BootReplacesStale'
    BY DEF StreamInBounds, BootReplacesStale, AgentTypeOK
<1>4. WorkInHand'
    BY <1>2 DEF WorkInHand, AgentTypeOK, MonitorTypeOK
<1>5. KnownWasShared'
    BY <1>2 DEF KnownWasShared, WorkInHand, AgentTypeOK, MonitorTypeOK
<1> QED
    BY <1>1, <1>3, <1>4, <1>5, StaleFollowsNext

LEMMA DialPreserves ==
    ASSUME AgentInv, NEW n \in Nodes, Dial(n)
    PROVE  AgentInv'
<1> USE DEF AgentInv, Dial
<1>1. AgentTypeOK'
    BY DEF AgentTypeOK, MonitorTypeOK
<1>2. InHub' = InHub
    BY SameClips
<1>3. StreamInBounds' /\ BootReplacesStale'
    BY DEF StreamInBounds, BootReplacesStale, AgentTypeOK
<1>4. WorkInHand'
    BY <1>2 DEF WorkInHand, AgentTypeOK, MonitorTypeOK
<1>5. KnownWasShared'
    BY <1>2 DEF KnownWasShared, WorkInHand, AgentTypeOK, MonitorTypeOK
<1> QED
    BY <1>1, <1>3, <1>4, <1>5, StaleFollowsNext

\* A stream begins and catches up within what the hub has.
LEMMA SubscribePreserves ==
    ASSUME AgentInv, NEW n \in Nodes, Subscribe(n)
    PROVE  AgentInv'
<1> USE DEF AgentInv, Subscribe, Replays
<1>1. AgentTypeOK'
    BY DEF AgentTypeOK, MonitorTypeOK
<1>2. InHub' = InHub
    BY SameClips
<1>3. StreamInBounds' /\ BootReplacesStale'
    BY DEF StreamInBounds, BootReplacesStale, AgentTypeOK
<1>4. WorkInHand'
    BY <1>2 DEF WorkInHand, AgentTypeOK, MonitorTypeOK
<1>5. KnownWasShared'
    BY <1>2 DEF KnownWasShared, WorkInHand, AgentTypeOK, MonitorTypeOK
<1> QED
    BY <1>1, <1>3, <1>4, <1>5, StaleFollowsNext

\* The bootstrap takes a clip of the hub in hand; it is over when that is applied.
LEMMA BootstrapPreserves ==
    ASSUME AgentInv, NEW n \in Nodes, Bootstrap(n)
    PROVE  AgentInv'
<1> USE DEF AgentInv, Bootstrap
<1>1. InHub' = InHub
    BY SameClips
<1>2. CASE clips # <<>> /\ Applies(n, clips[Len(clips)])
    <2> DEFINE c == clips[Len(clips)].payload
    <2>1. c \in InHub /\ c \in Contents
        <3>1. Len(clips) \in 1 .. Len(clips)
            BY <1>2 DEF AgentTypeOK
        <3> QED
            BY <3>1, ClipInHub DEF AgentTypeOK
    <2>2. /\ lastWritten' = [lastWritten EXCEPT ![n] = c]
          /\ item' = [item EXCEPT ![n] = c]
          /\ applier' = [applier EXCEPT ![n] = "writing"]
          /\ UNCHANGED <<board, lastSeen, pending, writer, boot>>
        BY <1>2 DEF StartApply, MarkWritten
    <2> HIDE DEF c
    <2>3. AgentTypeOK'
        BY <2>1, <2>2 DEF AgentTypeOK, MonitorTypeOK
    <2>4. StreamInBounds' /\ BootReplacesStale'
        BY <2>2 DEF StreamInBounds, BootReplacesStale, AgentTypeOK
    <2>5. WorkInHand'
        BY <1>1, <2>1, <2>2 DEF WorkInHand, AgentTypeOK
    <2>6. KnownWasShared'
        BY <1>1, <2>1, <2>2 DEF KnownWasShared, AgentTypeOK, MonitorTypeOK
    <2> QED
        BY <2>3, <2>4, <2>5, <2>6, StaleFollowsNext
<1>3. CASE ~ (clips # <<>> /\ Applies(n, clips[Len(clips)]))
    <2>1. /\ boot' = [boot EXCEPT ![n] = IF clips = <<>> THEN "empty" ELSE "skipped"]
          /\ UNCHANGED <<monitorVars, item, applier>>
        BY <1>3
    <2>2. AgentTypeOK'
        BY <2>1 DEF AgentTypeOK, MonitorTypeOK
    <2>3. StreamInBounds' /\ BootReplacesStale'
        BY <2>1 DEF StreamInBounds, BootReplacesStale, AgentTypeOK
    <2>4. WorkInHand' /\ KnownWasShared'
        BY <1>1, <2>1 DEF WorkInHand, KnownWasShared, AgentTypeOK
    <2> QED
        BY <2>2, <2>3, <2>4, StaleFollowsNext
<1> QED
    BY <1>2, <1>3

LEMMA BootstrapExhaustedPreserves ==
    ASSUME AgentInv, NEW n \in Nodes, BootstrapExhausted(n)
    PROVE  AgentInv'
<1> USE DEF AgentInv, BootstrapExhausted
<1>1. AgentTypeOK'
    BY DEF AgentTypeOK, MonitorTypeOK
<1>2. InHub' = InHub
    BY SameClips
<1>3. StreamInBounds' /\ BootReplacesStale'
    BY DEF StreamInBounds, BootReplacesStale, AgentTypeOK
<1>4. WorkInHand'
    BY <1>2 DEF WorkInHand, AgentTypeOK, MonitorTypeOK
<1>5. KnownWasShared'
    BY <1>2 DEF KnownWasShared, WorkInHand, AgentTypeOK, MonitorTypeOK
<1> QED
    BY <1>1, <1>3, <1>4, <1>5, StaleFollowsNext

\* A stream delivers a clip that the hub has.
LEMMA DeliverPreserves ==
    ASSUME AgentInv, NEW n \in Nodes, Deliver(n)
    PROVE  AgentInv'
<1> USE DEF AgentInv, Deliver
<1> DEFINE c == clips[next[n]].payload
<1>1. InHub' = InHub
    BY SameClips
<1>2. next[n] \in 1 .. Len(clips)
    BY DEF StreamInBounds, AgentTypeOK
<1>3. c \in InHub /\ c \in Contents
    BY <1>2, ClipInHub DEF AgentTypeOK
<1>4. \/ /\ lastWritten' = [lastWritten EXCEPT ![n] = c]
         /\ item' = [item EXCEPT ![n] = c]
         /\ applier' = [applier EXCEPT ![n] = "writing"]
         /\ UNCHANGED <<board, lastSeen, pending, writer>>
      \/ UNCHANGED <<monitorVars, item, applier>>
    BY DEF StartApply, MarkWritten
<1>5. /\ lastSeq' = [lastSeq EXCEPT ![n] = next[n]]
      /\ next' = [next EXCEPT ![n] = @ + 1]
    OBVIOUS
<1> HIDE DEF c
<1>6. AgentTypeOK'
    <2>1. next[n] \in Nat /\ next[n] + 1 \in Nat
        BY DEF AgentTypeOK
    <2>2. lastSeq' \in [Nodes -> Nat] /\ next' \in [Nodes -> Nat]
        BY <1>5, <2>1 DEF AgentTypeOK
    <2>3. /\ item' \in [Nodes -> Contents \cup {Empty}]
          /\ applier' \in [Nodes -> {"idle", "writing", "reading", "committing"}]
        BY <1>3, <1>4 DEF AgentTypeOK
    <2>4. MonitorTypeOK'
        BY <1>3, <1>4 DEF AgentTypeOK, MonitorTypeOK
    <2> QED
        BY <2>2, <2>3, <2>4 DEF AgentTypeOK
<1>7. StreamInBounds'
    BY <1>5 DEF StreamInBounds, AgentTypeOK
<1>8. WorkInHand' /\ BootReplacesStale'
    BY <1>1, <1>3, <1>4 DEF WorkInHand, BootReplacesStale, AgentTypeOK
<1>9. KnownWasShared'
    BY <1>1, <1>3, <1>4 DEF KnownWasShared, AgentTypeOK, MonitorTypeOK
<1> QED
    BY <1>6, <1>7, <1>8, <1>9, StaleFollowsNext

\* The write puts what the platform makes of the clip on the clipboard.
LEMMA ApplyWritePreserves ==
    ASSUME AgentInv, NEW n \in Nodes, ApplyWrite(n)
    PROVE  AgentInv'
<1> USE DEF AgentInv, ApplyWrite, WriteBoard
<1>1. Reads[n][item[n]] \in Contents
    BY ReadsAssumption DEF WorkInHand
<1>2. AgentTypeOK'
    BY <1>1 DEF AgentTypeOK, MonitorTypeOK
<1>3. InHub' = InHub
    BY SameClips
<1>4. StreamInBounds' /\ BootReplacesStale'
    BY DEF StreamInBounds, BootReplacesStale, AgentTypeOK
<1>5. WorkInHand' /\ KnownWasShared'
    BY <1>3 DEF WorkInHand, KnownWasShared, AgentTypeOK
<1> QED
    BY <1>2, <1>4, <1>5, StaleFollowsNext

LEMMA ApplyWriteFailsPreserves ==
    ASSUME AgentInv, NEW n \in Nodes, ApplyWriteFails(n)
    PROVE  AgentInv'
<1> USE DEF AgentInv, ApplyWriteFails, Booted
<1>1. AgentTypeOK'
    BY DEF AgentTypeOK, MonitorTypeOK
<1>2. InHub' = InHub
    BY SameClips
<1>3. StreamInBounds' /\ BootReplacesStale'
    BY DEF StreamInBounds, BootReplacesStale, AgentTypeOK
<1>4. WorkInHand'
    BY <1>2 DEF WorkInHand, AgentTypeOK, MonitorTypeOK
<1>5. KnownWasShared'
    BY <1>2 DEF KnownWasShared, WorkInHand, AgentTypeOK, MonitorTypeOK
<1> QED
    BY <1>1, <1>3, <1>4, <1>5, StaleFollowsNext

LEMMA ApplyReadPreserves ==
    ASSUME AgentInv, NEW n \in Nodes, ApplyRead(n)
    PROVE  AgentInv'
<1> USE DEF AgentInv, ApplyRead
<1>1. AgentTypeOK'
    BY DEF AgentTypeOK, MonitorTypeOK
<1>2. InHub' = InHub
    BY SameClips
<1>3. StreamInBounds' /\ BootReplacesStale'
    BY DEF StreamInBounds, BootReplacesStale, AgentTypeOK
<1>4. WorkInHand'
    BY <1>2 DEF WorkInHand, AgentTypeOK, MonitorTypeOK
<1>5. KnownWasShared'
    BY <1>2 DEF KnownWasShared, WorkInHand, AgentTypeOK, MonitorTypeOK
<1> QED
    BY <1>1, <1>3, <1>4, <1>5, StaleFollowsNext

\* What is committed is the clip, or what was read back instead.
LEMMA ApplyCommitPreserves ==
    ASSUME AgentInv, NEW n \in Nodes, ApplyCommit(n)
    PROVE  AgentInv'
<1> USE DEF AgentInv, ApplyCommit, Booted
<1>1. InHub' = InHub
    BY SameClips
<1>2. item[n] \in Contents
    BY DEF WorkInHand
<1>3. \/ /\ lastSeen' = [lastSeen EXCEPT ![n] = item[n]]
         /\ UNCHANGED <<lastWritten, converted>>
      \/ /\ readBack[n] \in Contents
         /\ lastSeen' = [lastSeen EXCEPT ![n] = readBack[n]]
         /\ lastWritten' = [lastWritten EXCEPT ![n] = readBack[n]]
         /\ converted' = [converted EXCEPT ![n] = @ \cup ({readBack[n]} \ {item[n]})]
    BY DEF CommitUnread, CommitReadBack, AgentTypeOK
<1>4. UNCHANGED <<board, pending, writer>>
    BY DEF CommitUnread, CommitReadBack
<1>5. AgentTypeOK'
    <2>1. MonitorTypeOK'
        BY <1>2, <1>3, <1>4 DEF AgentTypeOK, MonitorTypeOK
    <2>2. converted' \in [Nodes -> SUBSET Contents]
        <3>1. CASE UNCHANGED converted
            BY <3>1 DEF AgentTypeOK
        <3>2. CASE /\ readBack[n] \in Contents
                   /\ converted' = [converted EXCEPT ![n] = @ \cup ({readBack[n]} \ {item[n]})]
            <4>1. converted[n] \cup ({readBack[n]} \ {item[n]}) \in SUBSET Contents
                BY <3>2 DEF AgentTypeOK
            <4> QED
                BY <3>2, <4>1 DEF AgentTypeOK
        <3> QED
            BY <1>3, <3>1, <3>2
    <2>3. /\ applier' \in [Nodes -> {"idle", "writing", "reading", "committing"}]
          /\ item' \in [Nodes -> Contents \cup {Empty}]
          /\ readBack' \in [Nodes -> Contents \cup {Empty}]
          /\ boot' \in [Nodes -> {"no", "applied", "empty", "skipped"}]
        BY DEF AgentTypeOK
    <2> QED
        BY <2>1, <2>2, <2>3 DEF AgentTypeOK
<1>6. StreamInBounds' /\ BootReplacesStale'
    BY DEF StreamInBounds, BootReplacesStale, AgentTypeOK
<1>7. WorkInHand'
    BY <1>1, <1>4 DEF WorkInHand, AgentTypeOK
<1>8. KnownWasShared'
    BY <1>1, <1>3, <1>4 DEF KnownWasShared, AgentTypeOK, MonitorTypeOK
<1> QED
    BY <1>5, <1>6, <1>7, <1>8, StaleFollowsNext

LEMMA DisconnectPreserves ==
    ASSUME AgentInv, NEW n \in Nodes, Disconnect(n)
    PROVE  AgentInv'
<1> USE DEF AgentInv, Disconnect
<1>1. AgentTypeOK'
    BY DEF AgentTypeOK, MonitorTypeOK
<1>2. InHub' = InHub
    BY SameClips
<1>3. StreamInBounds' /\ BootReplacesStale'
    BY DEF StreamInBounds, BootReplacesStale, AgentTypeOK
<1>4. WorkInHand'
    BY <1>2 DEF WorkInHand, AgentTypeOK, MonitorTypeOK
<1>5. KnownWasShared'
    BY <1>2 DEF KnownWasShared, WorkInHand, AgentTypeOK, MonitorTypeOK
<1> QED
    BY <1>1, <1>3, <1>4, <1>5, StaleFollowsNext

\* So does the put of another client.
LEMMA OtherPutsPreserves ==
    ASSUME AgentInv, NEW s \in Others, NEW p \in Contents, OtherPuts(s, p)
    PROVE  AgentInv'
<1> USE DEF AgentInv, OtherPuts
<1>1. /\ clips' \in Seq(Clip) /\ Len(clips') = Len(clips) + 1 /\ published' = published
      /\ InHub \subseteq InHub'
    BY PutGrows DEF AgentTypeOK
<1>2. AgentTypeOK'
    BY <1>1 DEF AgentTypeOK, MonitorTypeOK
<1>3. StreamInBounds'
    BY <1>1 DEF StreamInBounds, AgentTypeOK
<1>4. WorkInHand' /\ BootReplacesStale'
    BY <1>1 DEF WorkInHand, BootReplacesStale
<1>5. KnownWasShared'
    BY <1>1 DEF KnownWasShared
<1> QED
    BY <1>2, <1>3, <1>4, <1>5, StaleFollowsNext

LEMMA PublishPreserves ==
    ASSUME AgentInv, Publish
    PROVE  AgentInv'
<1> USE DEF AgentInv, Publish
<1>1. AgentTypeOK'
    BY DEF AgentTypeOK, MonitorTypeOK
<1>2. InHub' = InHub
    BY SameClips
<1>3. StreamInBounds'
    BY DEF StreamInBounds, AgentTypeOK
<1>4. WorkInHand' /\ BootReplacesStale'
    BY <1>2 DEF WorkInHand, BootReplacesStale
<1>5. KnownWasShared'
    BY <1>2 DEF KnownWasShared
<1> QED
    BY <1>1, <1>3, <1>4, <1>5, StaleFollowsNext

\* A new process remembers nothing.
LEMMA RestartPreserves ==
    ASSUME AgentInv, NEW n \in Nodes, Restart(n)
    PROVE  AgentInv'
<1> USE DEF AgentInv, Restart, ResetMonitor
<1>1. late' \subseteq Clip
    <2>1. poller[n] = "sending" => [payload |-> pending[n], source |-> n] \in Clip
        BY DEF WorkInHand, Clip
    <2> QED
        BY <2>1 DEF AgentTypeOK
<1>2. AgentTypeOK'
    BY <1>1 DEF AgentTypeOK, MonitorTypeOK
<1>3. InHub' = InHub
    BY SameClips
<1>4. StreamInBounds' /\ BootReplacesStale'
    BY DEF StreamInBounds, BootReplacesStale, AgentTypeOK
<1>5. WorkInHand' /\ KnownWasShared'
    BY <1>3 DEF WorkInHand, KnownWasShared, AgentTypeOK, MonitorTypeOK
<1> QED
    BY <1>2, <1>4, <1>5, StaleFollowsNext

LEMMA AgentStutterPreserves ==
    ASSUME AgentInv, UNCHANGED vars
    PROVE  AgentInv'
<1> USE DEF AgentInv, vars
<1>1. AgentTypeOK' /\ StreamInBounds' /\ BootReplacesStale'
    BY DEF AgentTypeOK, MonitorTypeOK, StreamInBounds, BootReplacesStale
<1>2. InHub' = InHub
    BY SameClips
<1>3. WorkInHand' /\ KnownWasShared' /\ StaleStaysLocal'
    BY <1>2 DEF WorkInHand, KnownWasShared, StaleStaysLocal
<1> QED
    BY <1>1, <1>3

LEMMA AgentNextPreserves == AgentInv /\ [AgentNext]_vars => AgentInv'
<1> SUFFICES ASSUME AgentInv, [AgentNext]_vars
             PROVE  AgentInv'
    OBVIOUS
<1>1. ASSUME NEW n \in Nodes, PollerStep(n)
      PROVE  AgentInv'
    BY <1>1,
       PollPreserves, SendNewPreserves, SendDuplicatePreserves, AnswerPreserves,
       SendFailsPreserves, MarkPreserves, ClearLocalBoardPreserves,
       ClearLocalFailsPreserves, ClearLocalResetPreserves DEF PollerStep
<1>2. ASSUME NEW n \in Nodes, StreamStep(n)
      PROVE  AgentInv'
    BY <1>2,
       DialPreserves, SubscribePreserves, BootstrapPreserves,
       BootstrapExhaustedPreserves, DeliverPreserves, ApplyWritePreserves,
       ApplyWriteFailsPreserves, ApplyReadPreserves, ApplyCommitPreserves,
       DisconnectPreserves DEF StreamStep
<1>3. ASSUME NEW n \in Nodes, MachineStep(n)
      PROVE  AgentInv'
    BY <1>3, UserCopiesPreserves, UserErasesPreserves, PauseOrResumePreserves,
       RestartPreserves DEF MachineStep
<1>4. CASE \E r \in late : LateSend(r)
    BY <1>4, LateSendPreserves
<1>5. CASE \E s \in Others, p \in Contents : OtherPuts(s, p)
    BY <1>5, OtherPutsPreserves
<1>6. CASE Publish
    BY <1>6, PublishPreserves
<1>7. CASE UNCHANGED vars
    BY <1>7, AgentStutterPreserves
<1> QED
    BY <1>1, <1>2, <1>3, <1>4, <1>5, <1>6, <1>7 DEF AgentNext

-----------------------------------------------------------------------------
(***************************************************************************)
(* A machine that nobody copies on sends nothing, if its platform reads    *)
(* back what was written.  The proof takes the steps in groups: those that *)
(* send, those of a poll loop, those of ApplyRemote and the rest.          *)
(***************************************************************************)

LEMMA SameSenders ==
    ASSUME UNCHANGED <<clips, late>>
    PROVE  Senders' = Senders
BY DEF Senders

LEMMA PutSenders ==
    ASSUME clips \in Seq(Clip), NEW s \in Nodes \cup Others, NEW p \in Contents, HubPut(s, p)
    PROVE  Senders' = {clips[k].source : k \in DOMAIN clips} \cup {s}
                      \cup {r.source : r \in late'}
BY PutGrows DEF Senders

\* Steps after which a machine is as silent as before: they touch no clipboard and
\* no monitor, start no poll and send no clip of an untouched machine.
LEMMA SilentUnmoved ==
    ASSUME SilentInv, UNCHANGED <<monitorVars, applier, item, readBack, touched>>,
           Senders' \subseteq Senders \cup {n \in Nodes : touched[n]},
           \A n \in Nodes : ~ touched[n] => poller'[n] = poller[n]
    PROVE  SilentInv'
BY DEF SilentInv

LEMMA PollerSilent ==
    ASSUME AgentInv, SilentInv, NEW n \in Nodes, PollerStep(n)
    PROVE  SilentInv'
<1> USE DEF AgentInv
<1>1. CASE Poll(n)
    <2>1. touched[n] \/ applier[n] \in {"reading", "committing"}
        BY <1>1 DEF SilentInv, Poll, PollNew, PollOwnWrite, AgentTypeOK
    <2>2. touched[n] \/ (PollOwnWrite(n) /\ UNCHANGED poller)
        <3>1. ASSUME PollNew(n), ~ touched[n]
              PROVE  FALSE
            BY <2>1, <3>1 DEF SilentInv, PollNew, IsOwnWrite
        <3>2. PollNew(n) \/ (PollOwnWrite(n) /\ UNCHANGED poller)
            BY <1>1 DEF Poll
        <3> QED
            BY <3>1, <3>2
    <2>3. Senders' = Senders
        BY <1>1, SameSenders DEF Poll
    <2>4. CASE ~ touched[n]
        BY <1>1, <2>1, <2>2, <2>3, <2>4 DEF SilentInv, Poll, PollOwnWrite, AgentTypeOK,
           MonitorTypeOK
    <2>5. CASE touched[n]
        BY <1>1, <2>3, <2>5 DEF SilentInv, Poll, PollOwnWrite, PollNew, AgentTypeOK,
           MonitorTypeOK
    <2> QED
        BY <2>4, <2>5
<1>2. CASE ~ Poll(n)
    <2>1. touched[n]
        BY <1>2 DEF SilentInv, PollerStep, SendNew, SendDuplicate, Answer, SendFails,
           AfterFailure, Mark, ClearLocalBoard, ClearLocalFails, ClearLocalReset
    <2>2. \A m \in Nodes \ {n} : poller'[m] = poller[m]
        BY <1>2 DEF PollerStep, SendNew, SendDuplicate, Answer, SendFails, Mark,
           ClearLocalBoard, ClearLocalFails, ClearLocalReset, AgentTypeOK
    <2>3. CASE SendNew(n)
        <3>1. pending[n] \in Contents /\ HubPut(n, pending[n]) /\ UNCHANGED late
            BY <2>3 DEF SendNew, WorkInHand
        <3>2. Senders' \subseteq Senders \cup {n}
            BY <3>1, PutSenders DEF Senders, AgentTypeOK
        <3> QED
            BY <2>1, <2>2, <2>3, <3>2, SilentUnmoved DEF SendNew
    <2>4. CASE SendFails(n)
        <3>1. \/ UNCHANGED late
              \/ late' = late \cup {[payload |-> pending[n], source |-> n]}
            BY <2>4 DEF SendFails
        <3>2. Senders' \subseteq Senders \cup {n}
            BY <2>4, <3>1 DEF Senders, SendFails
        <3> QED
            BY <2>1, <2>2, <2>4, <3>2, SilentUnmoved DEF SendFails
    <2>5. CASE SendDuplicate(n) \/ Answer(n) \/ ClearLocalFails(n)
        BY <2>1, <2>2, <2>5, SameSenders, SilentUnmoved
           DEF SendDuplicate, Answer, ClearLocalFails
    <2>6. CASE Mark(n) \/ ClearLocalBoard(n) \/ ClearLocalReset(n)
        <3>1. Senders' = Senders
            BY <2>6, SameSenders DEF Mark, ClearLocalBoard, ClearLocalReset
        <3>2. \A m \in Nodes \ {n} : /\ board'[m] = board[m]
                                     /\ lastSeen'[m] = lastSeen[m]
                                     /\ lastWritten'[m] = lastWritten[m]
            BY <2>6 DEF Mark, MarkHandled, ClearLocalBoard, ClearBoard, ClearLocalReset,
               ResetMonitor, AgentTypeOK, MonitorTypeOK
        <3>3. UNCHANGED <<applier, item, readBack, touched>>
            BY <2>6 DEF Mark, ClearLocalBoard, ClearLocalReset
        <3> QED
            BY <2>1, <2>2, <3>1, <3>2, <3>3 DEF SilentInv
    <2> QED
        BY <1>2, <2>3, <2>4, <2>5, <2>6 DEF PollerStep
<1> QED
    BY <1>1, <1>2

LEMMA ApplierSilent ==
    ASSUME \A m \in Nodes, c \in Contents : Reads[m][c] = c,
           AgentInv, SilentInv, NEW n \in Nodes,
           \/ ApplyWrite(n) \/ ApplyWriteFails(n) \/ ApplyRead(n) \/ ApplyCommit(n)
    PROVE  SilentInv'
<1> USE DEF AgentInv
<1>1. Senders' = Senders /\ UNCHANGED <<poller, touched>>
    BY SameSenders DEF ApplyWrite, ApplyWriteFails, ApplyRead, ApplyCommit, CommitUnread,
       CommitReadBack
<1>2. CASE ApplyWrite(n)
    <2>1. Reads[n][item[n]] = item[n]
        BY <1>2 DEF ApplyWrite, WorkInHand
    <2>2. board' = [board EXCEPT ![n] = item[n]]
        BY <1>2, <2>1 DEF ApplyWrite, WriteBoard
    <2> QED
        <3>1. /\ applier[n] = "writing" /\ applier' = [applier EXCEPT ![n] = "reading"]
              /\ UNCHANGED <<lastSeen, lastWritten, item, readBack>>
            BY <1>2 DEF ApplyWrite, WriteBoard
        <3>2. applier'[n] = "reading" /\ board'[n] = item[n]
            BY <2>2, <3>1 DEF AgentTypeOK, MonitorTypeOK
        <3>3. \A m \in Nodes \ {n} : applier'[m] = applier[m] /\ board'[m] = board[m]
            BY <2>2, <3>1 DEF AgentTypeOK, MonitorTypeOK
        <3> QED
            BY <1>1, <3>1, <3>2, <3>3 DEF SilentInv
<1>3. CASE ApplyWriteFails(n)
    BY <1>1, <1>3 DEF SilentInv, ApplyWriteFails, AgentTypeOK, MonitorTypeOK
<1>4. CASE ApplyRead(n)
    BY <1>1, <1>4 DEF SilentInv, ApplyRead, AgentTypeOK, MonitorTypeOK
<1>5. CASE ApplyCommit(n)
    <2>1. touched[n] \/ lastSeen'[n] = item[n]
        BY <1>5 DEF SilentInv, ApplyCommit, CommitUnread, CommitReadBack, AgentTypeOK,
           MonitorTypeOK
    <2>2. \A m \in Nodes \ {n} : lastSeen'[m] = lastSeen[m] /\ lastWritten'[m] = lastWritten[m]
        BY <1>5 DEF ApplyCommit, CommitUnread, CommitReadBack, AgentTypeOK, MonitorTypeOK
    <2>3. UNCHANGED board
        BY <1>5 DEF ApplyCommit, CommitUnread, CommitReadBack
    <2>4. applier[n] = "committing" /\ applier'[n] = "idle"
        BY <1>5 DEF ApplyCommit, AgentTypeOK
    <2>5. \A m \in Nodes \ {n} : /\ applier'[m] = applier[m]
                                 /\ item'[m] = item[m]
                                 /\ readBack'[m] = readBack[m]
        BY <1>5 DEF ApplyCommit, AgentTypeOK
    <2> QED
        BY <1>1, <2>1, <2>2, <2>3, <2>4, <2>5 DEF SilentInv
<1> QED
    BY <1>2, <1>3, <1>4, <1>5

LEMMA StreamSilent ==
    ASSUME \A m \in Nodes, c \in Contents : Reads[m][c] = c,
           AgentInv, SilentInv, NEW n \in Nodes, StreamStep(n)
    PROVE  SilentInv'
<1> USE DEF AgentInv
<1>1. CASE Dial(n) \/ Subscribe(n) \/ BootstrapExhausted(n) \/ Disconnect(n)
    BY <1>1, SameSenders, SilentUnmoved DEF Dial, Subscribe, BootstrapExhausted, Disconnect
<1>2. CASE Bootstrap(n) \/ Deliver(n)
    <2>1. Senders' = Senders /\ UNCHANGED <<poller, touched, board, lastSeen, readBack>>
        BY <1>2, SameSenders DEF Bootstrap, Deliver, StartApply, MarkWritten
    <2>2. applier[n] = "idle"
        BY <1>2 DEF Bootstrap, Deliver
    <2>3. \/ UNCHANGED <<monitorVars, item, applier>>
          \/ \E c : StartApply(n, c)
        BY <1>2 DEF Bootstrap, Deliver
    <2>4. /\ applier'[n] \in {"idle", "writing"}
          /\ applier'[n] # "idle" => lastWritten'[n] = item'[n]
        BY <2>2, <2>3 DEF StartApply, MarkWritten, AgentTypeOK, MonitorTypeOK
    <2>5. \A m \in Nodes \ {n} : /\ applier'[m] = applier[m]
                                 /\ item'[m] = item[m]
                                 /\ lastWritten'[m] = lastWritten[m]
        BY <2>3 DEF StartApply, MarkWritten, AgentTypeOK, MonitorTypeOK
    <2> QED
        BY <2>1, <2>2, <2>4, <2>5 DEF SilentInv
<1>3. CASE ApplyWrite(n) \/ ApplyWriteFails(n) \/ ApplyRead(n) \/ ApplyCommit(n)
    BY <1>3, ApplierSilent
<1> QED
    BY <1>1, <1>2, <1>3 DEF StreamStep

LEMMA MachineSilent ==
    ASSUME AgentInv, SilentInv, NEW n \in Nodes, MachineStep(n)
    PROVE  SilentInv'
<1> USE DEF AgentInv
<1>1. ASSUME NEW c \in Contents, UserCopies(n, c)
      PROVE  SilentInv'
    <2>1. Senders' = Senders
        BY <1>1, SameSenders DEF UserCopies
    <2> QED
        BY <1>1, <2>1 DEF SilentInv, UserCopies, Copy, AgentTypeOK, MonitorTypeOK
<1>2. CASE UserErases(n)
    <2>1. Senders' = Senders
        BY <1>2, SameSenders DEF UserErases
    <2> QED
        BY <1>2, <2>1 DEF SilentInv, UserErases, ClearBoard, AgentTypeOK, MonitorTypeOK
<1>3. CASE PauseOrResume(n)
    BY <1>3, SameSenders, SilentUnmoved DEF PauseOrResume
<1>4. CASE Restart(n)
    <2>1. \/ UNCHANGED late
          \/ /\ touched[n]
             /\ late' = late \cup {[payload |-> pending[n], source |-> n]}
        BY <1>4 DEF Restart, SilentInv
    <2>2. Senders' \subseteq Senders \cup {m \in Nodes : touched[m]}
        BY <1>4, <2>1 DEF Restart, Senders
    <2> QED
        <3>1. /\ poller'[n] = "idle" /\ applier'[n] = "idle"
            BY <1>4 DEF Restart, AgentTypeOK
        <3>5. ~ touched'[n] => ~ touched[n] /\ board[n] = Empty
            BY <1>4 DEF Restart, AgentTypeOK
        <3>2. \A m \in Nodes \ {n} : /\ poller'[m] = poller[m] /\ applier'[m] = applier[m]
                                     /\ item'[m] = item[m] /\ readBack'[m] = readBack[m]
                                     /\ touched'[m] = touched[m]
            BY <1>4 DEF Restart, AgentTypeOK
        <3>3. \A m \in Nodes \ {n} : /\ lastSeen'[m] = lastSeen[m]
                                     /\ lastWritten'[m] = lastWritten[m]
            BY <1>4 DEF Restart, ResetMonitor, AgentTypeOK, MonitorTypeOK
        <3>4. UNCHANGED board
            BY <1>4 DEF Restart, ResetMonitor
        <3> QED
            BY <2>2, <3>1, <3>2, <3>3, <3>4, <3>5 DEF SilentInv
<1> QED
    BY <1>1, <1>2, <1>3, <1>4 DEF MachineStep

LEMMA OthersSilent ==
    ASSUME AgentInv, SilentInv,
           \/ \E r \in late : LateSend(r)
           \/ \E s \in Others, p \in Contents : OtherPuts(s, p)
           \/ Publish
    PROVE  SilentInv'
<1> USE DEF AgentInv
<1>1. ASSUME NEW r \in late, LateSend(r)
      PROVE  SilentInv'
    <2>1. r.payload \in Contents /\ r.source \in Nodes \cup Others
        BY DEF AgentTypeOK, Clip
    <2>2. late' \subseteq late
        BY <1>1 DEF LateSend
    <2>3. Senders' \subseteq Senders
        <3>1. CASE HubPut(r.source, r.payload)
            <4>1. r.source \in Senders
                BY DEF Senders
            <4>2. Senders' = {clips[k].source : k \in DOMAIN clips} \cup {r.source}
                             \cup {q.source : q \in late'}
                BY <2>1, <3>1, PutSenders DEF AgentTypeOK
            <4> QED
                BY <2>2, <4>1, <4>2 DEF Senders
        <3>2. CASE UNCHANGED hubVars
            BY <2>2, <3>2 DEF Senders
        <3> QED
            BY <1>1, <3>1, <3>2 DEF LateSend
    <2> QED
        BY <1>1, <2>3, SilentUnmoved DEF LateSend
<1>2. ASSUME NEW s \in Others, NEW p \in Contents, OtherPuts(s, p)
      PROVE  SilentInv'
    <2>1. Senders' = Senders \cup {s}
        BY <1>2, PutSenders DEF OtherPuts, Senders, AgentTypeOK
    <2>2. s \notin Nodes
        BY CopiersAssumption
    <2>3. UNCHANGED <<monitorVars, applier, item, readBack, touched, poller>>
        BY <1>2 DEF OtherPuts
    <2> QED
        BY <2>1, <2>2, <2>3 DEF SilentInv
<1>3. CASE Publish
    BY <1>3, SameSenders, SilentUnmoved DEF Publish
<1> QED
    BY <1>1, <1>2, <1>3

LEMMA SilentInitEstablishes == AgentInit => SilentInv
<1> SUFFICES ASSUME AgentInit
             PROVE  SilentInv
    OBVIOUS
<1>1. Senders = {}
    BY DEF AgentInit, Senders
<1> QED
    BY <1>1 DEF AgentInit, MonitorInit, SilentInv

LEMMA SilentNextPreserves ==
    ASSUME \A n \in Nodes, c \in Contents : Reads[n][c] = c
    PROVE  AgentInv /\ SilentInv /\ [AgentNext]_vars => SilentInv'
<1> SUFFICES ASSUME AgentInv, SilentInv, [AgentNext]_vars
             PROVE  SilentInv'
    OBVIOUS
<1>1. CASE UNCHANGED vars
    BY <1>1, SameSenders, SilentUnmoved DEF vars
<1>2. ASSUME NEW n \in Nodes, PollerStep(n) \/ StreamStep(n) \/ MachineStep(n)
      PROVE  SilentInv'
    BY <1>2, PollerSilent, StreamSilent, MachineSilent
<1> QED
    BY <1>1, <1>2, OthersSilent DEF AgentNext

LEMMA SilentFollows == SilentInv => ReceiverStaysSilent
BY DEF SilentInv, ReceiverStaysSilent, Senders

-----------------------------------------------------------------------------
\* The inductive invariant holds in every behaviour of the agents.
THEOREM AgentInvariance == AgentSpec => []AgentInv
BY AgentInitEstablishes, AgentNextPreserves, PTL DEF AgentSpec

\* Whatever an agent remembers, and will therefore not send, was sent to the hub, or
\* is withheld, or was read back in place of a clip: no failing put or end of the
\* process makes it forget a copy.
THEOREM NothingForgotten == AgentSpec => []KnownWasShared
BY AgentInvariance, PTL DEF AgentInv

\* An agent that was bootstrapped with a clip does not send what was on the
\* clipboard before.
THEOREM NothingStaleSent == AgentSpec => []StaleStaysLocal
BY AgentInvariance, PTL DEF AgentInv

\* On a platform that reads back what was written, an agent sends nothing unless
\* somebody copies on its machine, or something was on its clipboard before.
THEOREM Silence ==
    ASSUME \A n \in Nodes, c \in Contents : Reads[n][c] = c
    PROVE  AgentSpec => []ReceiverStaysSilent
<1>1. AgentInit => AgentInv /\ SilentInv
    BY AgentInitEstablishes, SilentInitEstablishes
<1>2. AgentInv /\ SilentInv /\ [AgentNext]_vars => AgentInv' /\ SilentInv'
    BY AgentNextPreserves, SilentNextPreserves
<1> QED
    BY <1>1, <1>2, SilentFollows, PTL DEF AgentSpec

\* The invariant behind it: an untouched clipboard shows what its monitor has seen or
\* has just written, wherever the two goroutines of its agent are.
THEOREM SilentInvariance ==
    ASSUME \A n \in Nodes, c \in Contents : Reads[n][c] = c
    PROVE  AgentSpec => []SilentInv
<1>1. AgentInit => AgentInv /\ SilentInv
    BY AgentInitEstablishes, SilentInitEstablishes
<1>2. AgentInv /\ SilentInv /\ [AgentNext]_vars => AgentInv' /\ SilentInv'
    BY AgentNextPreserves, SilentNextPreserves
<1> QED
    BY <1>1, <1>2, PTL DEF AgentSpec

-----------------------------------------------------------------------------
(***************************************************************************)
(* The hub that the agents rely on keeps the contract of the hub.          *)
(***************************************************************************)

LEMMA HubStepsOfAgents ==
    ASSUME AgentInv, AgentNext
    PROVE  \/ UNCHANGED <<clips, published>>
           \/ \E s \in Nodes \cup Others, p \in Contents : HubPut(s, p)
           \/ Publish
<1> DEFINE Puts == \E s \in Nodes \cup Others, p \in Contents : HubPut(s, p)
<1>1. ASSUME NEW n \in Nodes, SendNew(n)
      PROVE  Puts
    BY <1>1 DEF SendNew, AgentInv, WorkInHand
<1>2. ASSUME NEW n \in Nodes, PollerStep(n), ~ SendNew(n)
      PROVE  UNCHANGED <<clips, published>>
    BY <1>2 DEF PollerStep, Poll, SendDuplicate, Answer, SendFails, Mark, ClearLocalBoard,
                ClearLocalFails, ClearLocalReset
<1>3. ASSUME NEW n \in Nodes, StreamStep(n)
      PROVE  UNCHANGED <<clips, published>>
    BY <1>3 DEF StreamStep, Dial, Subscribe, Bootstrap, BootstrapExhausted, Deliver,
                ApplyWrite, ApplyWriteFails, ApplyRead, ApplyCommit, Disconnect
<1>4. ASSUME NEW n \in Nodes, MachineStep(n)
      PROVE  UNCHANGED <<clips, published>>
    BY <1>4 DEF MachineStep, UserCopies, UserErases, PauseOrResume, Restart
<1>5. ASSUME NEW r \in late, LateSend(r)
      PROVE  UNCHANGED <<clips, published>> \/ Puts
    <2>1. r.source \in Nodes \cup Others /\ r.payload \in Contents
        BY DEF AgentInv, AgentTypeOK, Clip
    <2> QED
        BY <1>5, <2>1 DEF LateSend
<1>6. ASSUME NEW s \in Others, NEW p \in Contents, OtherPuts(s, p)
      PROVE  Puts
    BY <1>6 DEF OtherPuts
<1> HIDE DEF Puts
<1>7. UNCHANGED <<clips, published>> \/ Puts \/ Publish
    BY <1>1, <1>2, <1>3, <1>4, <1>5, <1>6 DEF AgentNext
<1> QED
    BY <1>7 DEF Puts

LEMMA HubStepsInContract ==
    AgentInv /\ [AgentNext]_vars => [HubAsAssumed!Next]_(HubAsAssumed!vars)
<1> SUFFICES ASSUME AgentInv, [AgentNext]_vars
             PROVE  HubAsAssumed!Next \/ UNCHANGED <<TRUE, Len(clips), published, HubLog>>
    BY DEF HubAsAssumed!vars
<1> USE DEF HubAsAssumed!Next
<1>1. clips \in Seq(Clip) /\ published \in Nat /\ published <= Len(clips)
    BY DEF AgentInv, AgentTypeOK, StreamInBounds
<1>2. CASE UNCHANGED <<clips, published>>
    BY <1>2 DEF HubLog
<1>3. ASSUME NEW s \in Nodes \cup Others, NEW p \in Contents, HubPut(s, p)
      PROVE  HubAsAssumed!Commit
    <2>1. clips' = Append(clips, [payload |-> p, source |-> s]) /\ published' = published
        BY <1>3 DEF HubPut
    <2>2. [payload |-> p, source |-> s] \in Clip
        BY DEF Clip
    <2>3. Len(clips') = Len(clips) + 1 /\ \A k \in 1 .. published : clips'[k] = clips[k]
        BY <1>1, <2>1, <2>2
    <2>4. HubLog' = HubLog
        BY <2>1, <2>3 DEF HubLog
    <2> QED
        BY <2>1, <2>3, <2>4 DEF HubAsAssumed!Commit
<1>4. CASE Publish
    <2>1. published' = published + 1 /\ clips' = clips /\ published < Len(clips)
        BY <1>4 DEF Publish
    <2>2. PICK clip : clip = [seq |-> published + 1, payload |-> clips[published + 1].payload]
        OBVIOUS
    <2>3. HubLog' = HubLog \cup {clip}
        <3>1. 1 .. published' = (1 .. published) \cup {published + 1}
            BY <1>1, <2>1
        <3> QED
            BY <2>1, <2>2, <3>1 DEF HubLog
    <2>4. \A logged \in HubLog : logged.seq < published'
        BY <1>1, <2>1 DEF HubLog
    <2>5. clip \in HubLog' /\ clip.seq = published'
        BY <2>1, <2>2, <2>3
    <2> QED
        BY <2>1, <2>3, <2>4, <2>5 DEF HubAsAssumed!Publish
<1> QED
    BY <1>2, <1>3, <1>4, HubStepsOfAgents DEF vars

\* The agents are modelled over a hub that takes only steps of the contract which the
\* hub with its locks, store and crashes implements.
THEOREM AgentsRelyOnContract == AgentSpec => HubWithinContract
BY HubStepsInContract, AgentInvariance, PTL DEF AgentSpec, HubWithinContract

=============================================================================
