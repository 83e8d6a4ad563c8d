----------------------------- MODULE HubStream -----------------------------
(***************************************************************************)
(* The WebSocket stream of the hub: Subscribe and the fan-out of publish   *)
(* (internal/hub/hub.go), the handler of GET /api/clip/stream              *)
(* (internal/hub/handler.go) and the reconnecting client at its other end  *)
(* (internal/agent/wsclient.go).                                           *)
(*                                                                         *)
(* A clip that the handler writes is received at once: a connection keeps  *)
(* the order, and what it had not delivered when it broke is the same to   *)
(* the client as what was never written, for only a received clip advances *)
(* lastSeq.                                                                *)
(***************************************************************************)
EXTENDS Hub, Sequences

CONSTANTS
    Clients,         \* the clients, each with at most one connection
    QueueCap,        \* capacity of Subscriber.C, 16 in the code
    Oversized        \* clips the hub takes whose message is above wsReadLimit

ASSUME QueueCapAssumption == QueueCap \in Nat \ {0}
ASSUME OversizedAssumption == Oversized \subseteq Payloads

VARIABLES
    conn,            \* how far the handler of the client's connection is
    queue,           \* the channel Subscriber.C
    replay,          \* clips of the catch-up that are still to be written
    replayedUpTo,    \* replayedUpTo of the handler
    lastSeq,         \* lastSeq of the client, kept across connections
    \* What the properties need to remember of the past:
    published,       \* clips that publish has fanned out
    received,        \* clips received over the connection, in order
    got,             \* clips the client received over any connection
    dropped,         \* clips dropped at the client's full channel
    gone             \* clips that a catch-up of the client could not find

connVars == <<conn, queue, replay, replayedUpTo>>
pastVars == <<published, dropped, gone>>
streamVars == <<connVars, lastSeq, received, got, pastVars>>
allVars == <<vars, streamVars>>

ConnState == {"off", "accepted", "subscribed", "streaming"}

StreamTypeOK ==
    /\ conn \in [Clients -> ConnState]
    /\ queue \in [Clients -> Seq(Item)] /\ \A c \in Clients : Len(queue[c]) <= QueueCap
    /\ replay \in [Clients -> SUBSET Item]
    /\ replayedUpTo \in [Clients -> Nat]
    /\ lastSeq \in [Clients -> Nat]
    /\ published \subseteq Item
    /\ received \in [Clients -> Seq(Item)]
    /\ got \in [Clients -> SUBSET Item]
    /\ dropped \in [Clients -> SUBSET Item]
    /\ gone \in [Clients -> SUBSET Item]

Queued(c) == {queue[c][k] : k \in DOMAIN queue[c]}

StreamInit ==
    /\ Init
    /\ conn = [c \in Clients |-> "off"]
    /\ queue = [c \in Clients |-> <<>>]
    /\ replay = [c \in Clients |-> {}]
    /\ replayedUpTo = [c \in Clients |-> 0]
    /\ received = [c \in Clients |-> <<>>]
    /\ lastSeq = [c \in Clients |-> 0]
    /\ published = {}
    /\ got = [c \in Clients |-> {}]
    /\ dropped = [c \in Clients |-> {}]
    /\ gone = [c \in Clients |-> {}]

-----------------------------------------------------------------------------
\* Mutant: the handler subscribes only after it has written the replay.
SubscribedLate(c) == conn[c] = "streaming" /\ replay[c] = {}

\* Is the client's subscriber in h.subs?
Subscribed(c) == conn[c] \in {"subscribed", "streaming"}

\* Mutant: off by one at a full channel.
HasRoomOffByOne(c) == Len(queue[c]) <= QueueCap

HasRoom(c) == Len(queue[c]) < QueueCap

\* The send to one subscriber: select with a default, so it never waits.
Offer(item) ==
    /\ queue' = [c \in Clients |-> IF Subscribed(c) /\ HasRoom(c)
                                   THEN Append(queue[c], item) ELSE queue[c]]
    /\ dropped' = [c \in Clients |-> IF Subscribed(c) /\ ~ HasRoom(c)
                                     THEN dropped[c] \cup {item} ELSE dropped[c]]

\* Mutant: the send to a subscriber waits for room.
FanOutBlocking(item) ==
    /\ PublishDeliver(item)
    /\ \A c \in Clients : Subscribed(c) => HasRoom(c)
    /\ Offer(item)
    /\ published' = published \cup {item}
    /\ UNCHANGED <<conn, replay, replayedUpTo, lastSeq, received, got, gone>>

\* publish, up to the fan-out, with its subscribers.
FanOut(item) ==
    /\ PublishDeliver(item)
    /\ Offer(item)
    /\ published' = published \cup {item}
    /\ UNCHANGED <<conn, replay, replayedUpTo, lastSeq, received, got, gone>>

\* connect of the client: dialled, and accepted by the handler.
Connect(c) ==
    /\ up
    /\ conn[c] = "off"
    /\ conn' = [conn EXCEPT ![c] = "accepted"]
    /\ UNCHANGED <<vars, queue, replay, replayedUpTo, lastSeq, received, got, pastVars>>

\* h.Subscribe: from here on publish finds the client's channel.
Subscribe(c) ==
    /\ conn[c] = "accepted"
    /\ conn' = [conn EXCEPT ![c] = "subscribed"]
    /\ UNCHANGED <<vars, queue, replay, replayedUpTo, lastSeq, received, got, pastVars>>

\* Mutant: the catch-up begins one clip too late.
MissedOffByOne(c) ==
    IF lastSeq[c] = 0 THEN {} ELSE {i \in history : i.seq > lastSeq[c] + 1}

\* h.Since(since_seq).  The client sends since_seq only when it has received
\* something; the list is then written in ascending seq.
Missed(c) == IF lastSeq[c] = 0 THEN {} ELSE {i \in history : i.seq > lastSeq[c]}

\* What the catch-up passes over for good: clips that have left the history, or
\* any if the client does not ask, and that are not coming by the channel or will
\* be skipped there because the replay holds a later one.
PassedOver(c) ==
    {i \in (published \cup inflight) \ Missed(c) :
        /\ i.seq > lastSeq[c]
        /\ lastSeq[c] = 0 \/ i \notin history
        /\ \/ i \in published \ Queued(c)
           \/ \E m \in Missed(c) : m.seq > i.seq}

CatchUp(c) ==
    /\ conn[c] = "subscribed"
    /\ conn' = [conn EXCEPT ![c] = "streaming"]
    /\ replay' = [replay EXCEPT ![c] = Missed(c)]
    /\ gone' = [gone EXCEPT ![c] = @ \cup PassedOver(c)]
    /\ UNCHANGED <<vars, queue, replayedUpTo, lastSeq, received, got, published, dropped>>

\* One clip over the connection, and the client's handling of it.
Receive(c, item) ==
    /\ lastSeq' = [lastSeq EXCEPT ![c] = item.seq]
    /\ received' = [received EXCEPT ![c] = Append(@, item)]
    /\ got' = [got EXCEPT ![c] = @ \cup {item}]

\* Since lists in ascending seq.
FirstOfReplay(c, item) == \A other \in replay[c] : item.seq <= other.seq

Readable(item) == item.payload \notin Oversized

\* A step of the replay loop.
ReplayNext(c) ==
    /\ conn[c] = "streaming"
    /\ \E item \in replay[c] :
          /\ FirstOfReplay(c, item)
          /\ Readable(item)
          /\ replay' = [replay EXCEPT ![c] = @ \ {item}]
          /\ replayedUpTo' = [replayedUpTo EXCEPT ![c] =
                                  IF item.seq > @ THEN item.seq ELSE @]
          /\ Receive(c, item)
    /\ UNCHANGED <<vars, conn, queue, pastVars>>

\* Mutant: what the replay wrote is written again.
NeverReplayed(c, item) == FALSE

\* A step of the live loop: a clip that the replay has written already is
\* skipped.
AlreadyReplayed(c, item) == item.seq <= replayedUpTo[c]

LiveNext(c) ==
    /\ conn[c] = "streaming"
    /\ replay[c] = {}
    /\ queue[c] # <<>>
    /\ AlreadyReplayed(c, Head(queue[c])) \/ Readable(Head(queue[c]))
    /\ queue' = [queue EXCEPT ![c] = Tail(@)]
    /\ IF AlreadyReplayed(c, Head(queue[c]))
       THEN UNCHANGED <<lastSeq, received, got>>
       ELSE Receive(c, Head(queue[c]))
    /\ UNCHANGED <<vars, conn, replay, replayedUpTo, pastVars>>

\* The connection breaks or is closed at either end; the handler returns, its
\* context is cancelled and its subscriber is forgotten with all it holds.
Disconnect(c) ==
    /\ conn[c] # "off"
    /\ conn' = [conn EXCEPT ![c] = "off"]
    /\ queue' = [queue EXCEPT ![c] = <<>>]
    /\ replay' = [replay EXCEPT ![c] = {}]
    /\ replayedUpTo' = [replayedUpTo EXCEPT ![c] = 0]
    /\ received' = [received EXCEPT ![c] = <<>>]
    /\ UNCHANGED <<vars, lastSeq, got, pastVars>>

\* The clip that the handler writes next.
IsNext(c, item) ==
    IF replay[c] = {}
    THEN queue[c] # <<>> /\ item = Head(queue[c]) /\ ~ AlreadyReplayed(c, item)
    ELSE item \in replay[c] /\ FirstOfReplay(c, item)

\* The message of the next clip is above the read limit of the client: Read fails
\* and the client closes.  lastSeq stays, so the clip comes first again.
ReadTooBig(c) ==
    /\ conn[c] = "streaming"
    /\ \E item \in replay[c] \cup Queued(c) : IsNext(c, item) /\ ~ Readable(item)
    /\ Disconnect(c)

\* The hub goes down with every connection.
CrashAll ==
    /\ Crash
    /\ conn' = [c \in Clients |-> "off"]
    /\ queue' = [c \in Clients |-> <<>>]
    /\ replay' = [c \in Clients |-> {}]
    /\ replayedUpTo' = [c \in Clients |-> 0]
    /\ received' = [c \in Clients |-> <<>>]
    /\ UNCHANGED <<lastSeq, got, pastVars>>

\* The steps of the hub that do not concern the stream.
HubStep ==
    /\ \/ \E p \in Payloads : PutNew(p)
       \/ Publish
       \/ Clear
       \/ \E last \in 0 .. seq : Reap(last)
       \/ \E now \in reaping : ReapStore(now)
       \/ Tick
       \/ Start
    /\ UNCHANGED streamVars

StreamNext ==
    \/ HubStep
    \/ \E item \in inflight : FanOut(item)
    \/ CrashAll
    \/ \E c \in Clients :
          \/ Connect(c) \/ Subscribe(c) \/ CatchUp(c)
          \/ ReplayNext(c) \/ LiveNext(c) \/ ReadTooBig(c)
          \/ Disconnect(c)

StreamSpec == StreamInit /\ [][StreamNext]_allVars

\* Nothing but the goroutines of publish has to run: a handler may be stuck in
\* a write for ever.
StreamFairSpec ==
    /\ StreamSpec
    /\ WF_allVars(\E item \in inflight : FanOut(item))
    /\ WF_allVars(Publish /\ UNCHANGED streamVars)

\* The handler runs and the client reads what it writes.
Reads(c) ==
    WF_allVars(Subscribe(c) \/ CatchUp(c) \/ ReplayNext(c) \/ LiveNext(c) \/ ReadTooBig(c))

-----------------------------------------------------------------------------
(***************************************************************************)
(* What the stream promises.                                               *)
(***************************************************************************)

\* Over one connection a client receives clips in strictly ascending seq, none
\* twice, although the replay and the channel may both hold the same clip.
Ascending(clips) == \A k, l \in DOMAIN clips : k < l => clips[k].seq < clips[l].seq

ReceivedInOrder == \A c \in Clients : Ascending(received[c])

\* "Subscribe first so we don't miss items arriving during catch-up"
\* (handler.go): whatever was published is on its way to a client or was
\* received by it, unless its channel overflowed or the history did not hold
\* the clip when the client caught up.  No seq is passed over in silence, but to
\* a client that had received a later one, unsaved, from a hub that crashed.
NoSilentGap ==
    \A c \in Clients : \A i \in published :
        \/ i \in got[c]
        \/ i \in dropped[c] \cup gone[c]
        \/ i \in replay[c]
        \/ i \in Queued(c) /\ conn[c] \in {"subscribed", "streaming"}
        \/ i.seq > lastSeq[c] /\ conn[c] # "streaming"
        \/ \E g \in got[c] : g.run < i.run /\ g.seq >= i.seq

\* A client that does not read never holds up a put: every committed clip is
\* published although no fairness is assumed of any connection.
SlowClientBlocksNoPut == EveryPutIsPublished

\* A client that reads and stays connected receives, sooner or later, every clip
\* that was published, or it was dropped at its channel or missing from the
\* history.
EveryClipArrives ==
    \A c \in Clients : Reads(c) =>
        \A n \in 1 .. MaxSeq :
            (conn[c] = "streaming" /\ \E i \in published : i.seq = n)
                ~> (conn[c] = "off" \/ \A i \in published : i.seq = n =>
                                           i \in got[c] \cup dropped[c] \cup gone[c])

\* From some moment on the network and the hub break no connection of c.
NetworkHolds(c) ==
    <>[][conn[c] # "off" /\ conn'[c] = "off" => ReadTooBig(c)]_allVars

Persists(c) == Reads(c) /\ WF_allVars(Connect(c)) /\ NetworkHolds(c)

Held(n) == up /\ \E i \in published : i.seq = n /\ Readable(i)

Settled(c, n) ==
    ~ up \/ \A i \in published \cap history : i.seq = n =>
                 i \in got[c] \cup dropped[c] \cup gone[c]

\* A client that reads and reconnects receives every clip that it can read and
\* that the history still holds, over however many connections, if the history
\* holds no clip before it that the client cannot read.
ReconnectCatchesUpUnblocked ==
    \A c \in Clients : Persists(c) =>
        \A n \in 1 .. MaxSeq :
            (Held(n) /\ \A b \in history : b.seq < n => Readable(b)) ~> Settled(c, n)

-----------------------------------------------------------------------------
(***************************************************************************)
(* The inductive invariant behind the safety properties.                   *)
(***************************************************************************)

\* What a connection has follows from how far its handler is.
ConnShape(c) ==
    /\ up \/ conn[c] = "off"
    /\ conn[c] \in {"off", "accepted"} => queue[c] = <<>>
    /\ conn[c] # "streaming" => replay[c] = {} /\ replayedUpTo[c] = 0 /\ received[c] = <<>>

\* The seq up to which clips of this run were handed to the subscribers, ...
Delivered == IF saving # Null THEN saving.seq ELSE publishedSeq

\* ... which is as far as this run has published.
FannedOut ==
    /\ \A i \in published : i.run <= run /\ (up /\ i.run = run => i.seq <= Delivered)
    /\ saving # Null => saving \in published

\* What is published or was received is distinguishable from the next clip.
PastIsOld(c) ==
    /\ \A i \in published \cup got[c] \cup replay[c] :
          i.run <= run /\ (up /\ i.run = run => i.seq <= seq)
    /\ \A i \in replay[c] : i.seq <= seq
    /\ replayedUpTo[c] <= seq

\* No seq means two clips, neither in the table nor among what a connection may be
\* about to write.
Running == inflight \cup {i \in published : i.run = run}

SeqNamesClip(clips) == \A i, j \in clips : i.seq = j.seq => i = j

NumbersUnique(c) ==
    SeqNamesClip(rows) /\ SeqNamesClip(history \cup Running \cup replay[c])

\* The channel holds clips of this run in ascending seq.
QueueInOrder(c) ==
    /\ \A k \in DOMAIN queue[c] : queue[c][k] \in published /\ queue[c][k].run = run
    /\ Ascending(queue[c])

\* The replay is ahead of the client, and the channel of what came by it.
ReplayAhead(c) == \A i \in replay[c] : i.seq > lastSeq[c] /\ i.seq > replayedUpTo[c]

ReceivedBehind(c) ==
    \A k \in DOMAIN received[c] :
        \/ received[c][k].seq <= replayedUpTo[c]
        \/ /\ replay[c] = {}
           /\ received[c][k].seq <= Delivered
           /\ \A q \in Queued(c) : received[c][k].seq < q.seq

LastIsGot(c) == lastSeq[c] = 0 \/ \E g \in got[c] : g.seq = lastSeq[c]

\* What the client need not wait for.
Handled(c, i) ==
    \/ i \in got[c] \cup dropped[c] \cup gone[c]
    \/ \E g \in got[c] : g.run < i.run /\ g.seq >= i.seq

\* That is all that a later catch-up would not list, ...
BehindHandled(c) == \A i \in published \cup inflight : i.seq <= lastSeq[c] => Handled(c, i)

\* ... all that is published and not on its way ...
NotComingHandled(c) ==
    conn[c] = "streaming" => \A i \in published : Handled(c, i) \/ i \in replay[c] \cup Queued(c)

\* ... and all that the live loop would skip.
SkippedHandled(c) ==
    conn[c] = "streaming" => \A i \in published \cup inflight :
        (i.seq <= replayedUpTo[c] \/ \E m \in replay[c] : i.seq < m.seq)
            => Handled(c, i) \/ i \in replay[c]

ClientInv(c) ==
    /\ ConnShape(c) /\ PastIsOld(c) /\ NumbersUnique(c)
    /\ QueueInOrder(c) /\ ReplayAhead(c) /\ ReceivedBehind(c) /\ Ascending(received[c])
    /\ LastIsGot(c) /\ BehindHandled(c) /\ NotComingHandled(c) /\ SkippedHandled(c)

StreamInv ==
    /\ StreamTypeOK
    /\ FannedOut
    /\ \A c \in Clients : ClientInv(c)

-----------------------------------------------------------------------------
(***************************************************************************)
(* What the documents say of it and the code does not do.                  *)
(***************************************************************************)

\* The hub "assigns a monotonic seq" (docs/architecture.md): no clip is given
\* the seq of a clip that subscribers have already been sent.
SeqIsMonotonic ==
    [][\A i \in inflight' \ inflight, s \in published : i.seq > s.seq]_allVars

\* "Reconnecting clients can resume from since_seq to catch up on missed items"
\* (docs/architecture.md), whatever else the history holds.
ReconnectCatchesUp ==
    \A c \in Clients : Persists(c) => \A n \in 1 .. MaxSeq : Held(n) ~> Settled(c, n)

=============================================================================
