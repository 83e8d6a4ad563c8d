---------------------------- MODULE StreamProofs ----------------------------
(***************************************************************************)
(* What a client of the stream receives, for any number of clients and     *)
(* connections, every capacity of the channel and every history depth,     *)
(* through lost connections, crashes and numbers that are used again.      *)
(*                                                                         *)
(* The inductive invariant is StreamInv, with HubInv of the hub under it:  *)
(* a client's part of it, ClientInv(c), is shown step by step.             *)
(***************************************************************************)
EXTENDS HubStream, HubProofs

-----------------------------------------------------------------------------
(***************************************************************************)
(* The hub of the stream is the hub of module Hub.                         *)
(***************************************************************************)

ClientStep(c) ==
    \/ Connect(c) \/ Subscribe(c) \/ CatchUp(c) \/ ReplayNext(c) \/ LiveNext(c) \/ Disconnect(c)

LEMMA StreamCases ==
    ASSUME [StreamNext]_allVars
    PROVE  \/ HubStep
           \/ \E item \in inflight : FanOut(item)
           \/ CrashAll
           \/ \E c \in Clients : ClientStep(c)
           \/ UNCHANGED allVars
BY DEF StreamNext, ClientStep, ReadTooBig

LEMMA ClientStepsNoHub ==
    ASSUME NEW c \in Clients, ClientStep(c)
    PROVE  UNCHANGED <<vars, published>>
BY DEF ClientStep, Connect, Subscribe, CatchUp, ReplayNext, LiveNext, Disconnect, pastVars

LEMMA StreamStepsHub == [StreamNext]_allVars => [Next]_vars
<1> SUFFICES ASSUME [StreamNext]_allVars
             PROVE  [Next]_vars
    OBVIOUS
<1>1. CASE HubStep
    BY <1>1 DEF HubStep, Next
<1>2. CASE \E item \in inflight : FanOut(item)
    BY <1>2 DEF FanOut, Next
<1>3. CASE CrashAll
    BY <1>3 DEF CrashAll, Next
<1>4. CASE \E c \in Clients : ClientStep(c)
    BY <1>4, ClientStepsNoHub
<1>5. CASE UNCHANGED allVars
    BY <1>5 DEF allVars
<1> QED
    BY StreamCases, <1>1, <1>2, <1>3, <1>4, <1>5

\* Every behaviour of the hub with its streams is one of module Hub: no subscriber,
\* slow or fast, adds a behaviour, and all theorems about Hub hold of it.
THEOREM StreamImplementsHub == StreamSpec => Spec
<1>1. StreamInit => Init
    BY DEF StreamInit
<1> QED
    BY <1>1, StreamStepsHub, PTL DEF StreamSpec, Spec

-----------------------------------------------------------------------------
(***************************************************************************)
(* Sequences of clips.                                                     *)
(***************************************************************************)

LEMMA AppendFacts ==
    ASSUME NEW S, NEW s \in Seq(S), NEW e \in S
    PROVE  /\ Append(s, e) \in Seq(S)
           /\ Len(Append(s, e)) = Len(s) + 1
           /\ DOMAIN Append(s, e) = DOMAIN s \cup {Len(s) + 1}
           /\ DOMAIN s = 1 .. Len(s) /\ Len(s) \in Nat
           /\ \A k \in DOMAIN s : Append(s, e)[k] = s[k]
           /\ Append(s, e)[Len(s) + 1] = e
OBVIOUS

LEMMA ElementOfSeq ==
    ASSUME NEW S, NEW s \in Seq(S), NEW k \in DOMAIN s
    PROVE  s[k] \in S
OBVIOUS

LEMMA TailFacts ==
    ASSUME NEW S, NEW s \in Seq(S), s # <<>>
    PROVE  /\ Tail(s) \in Seq(S) /\ Len(Tail(s)) < Len(s)
           /\ 1 \in DOMAIN s /\ Head(s) = s[1] /\ Head(s) \in S
           /\ \A k \in DOMAIN Tail(s) : k + 1 \in DOMAIN s /\ Tail(s)[k] = s[k + 1] /\ k > 0
           /\ \A k \in DOMAIN s : k = 1 \/ (k - 1 \in DOMAIN Tail(s) /\ Tail(s)[k - 1] = s[k])
OBVIOUS

LEMMA AscendingAppend ==
    ASSUME NEW s \in Seq(Item), NEW e \in Item, Ascending(s),
           \A k \in DOMAIN s : s[k].seq < e.seq
    PROVE  Ascending(Append(s, e))
BY AppendFacts DEF Ascending

\* The head of the channel is before all that is left.
LEMMA AscendingTail ==
    ASSUME NEW s \in Seq(Item), s # <<>>, Ascending(s)
    PROVE  /\ Ascending(Tail(s))
           /\ \A k \in DOMAIN Tail(s) : Head(s).seq < Tail(s)[k].seq
<1>1. \A k \in DOMAIN Tail(s) : k \in Nat
    BY TailFacts
<1> QED
    BY <1>1, TailFacts DEF Ascending

-----------------------------------------------------------------------------
(***************************************************************************)
(* The steps of the hub, as far as they matter to a stream.                *)
(***************************************************************************)

\* A put commits the clip n.
Commits(n) ==
    /\ up /\ n \in Item /\ n.run = run /\ n.seq = seq + 1
    /\ seq' = seq + 1 /\ inflight' = inflight \cup {n} /\ history' \subseteq history \cup {n}
    /\ UNCHANGED <<up, run, rows, saving, publishedSeq>>

\* A start loads rows of the table.
Loads ==
    /\ ~ up /\ run' = run + 1
    /\ inflight = {} /\ inflight' = {} /\ saving' = Null
    /\ history' \subseteq rows /\ rows' = rows

\* Nothing new is in memory.
AddsNothing ==
    /\ UNCHANGED <<up, run, seq>>
    /\ inflight' \subseteq inflight /\ history' \subseteq history
    /\ Delivered' = Delivered /\ saving' \in {saving, Null}
    /\ SeqNamesClip(rows) => SeqNamesClip(rows')

LEMMA PublishAddsNothing ==
    ASSUME HubInv, Publish
    PROVE  AddsNothing
<1>1. /\ UNCHANGED <<up, run, seq, history>> /\ inflight' \subseteq inflight
      /\ saving # Null /\ saving' = Null /\ publishedSeq' = saving.seq
    BY DEF Publish, PublishSave, PublishSaveFails, PublishEnd
<1>2. Delivered' = Delivered
    BY <1>1 DEF Delivered
<1>3. rows' = rows \/ rows' = {r \in rows : r.seq # saving.seq} \cup {saving}
    BY DEF Publish, PublishSave, PublishSaveFails, SaveItem, storeVars
<1>4. SeqNamesClip(rows) => SeqNamesClip(rows')
    BY <1>3 DEF SeqNamesClip
<1> QED
    BY <1>1, <1>2, <1>4 DEF AddsNothing

LEMMA HubStepCases ==
    ASSUME HubInv, HubStep
    PROVE  UNCHANGED streamVars /\ ((\E n : Commits(n)) \/ Loads \/ AddsNothing)
<1>1. UNCHANGED streamVars
    BY DEF HubStep
<1>2. ASSUME NEW p \in Payloads, PutNew(p)
      PROVE  Commits(NewItem(p))
    BY <1>2, NewItemType, NewestIsSubset DEF HubInv, PutNew, Prepend, Commits, storeVars
<1>3. ASSUME Start
      PROVE  Loads
    BY <1>3, NewestIsSubset DEF HubInv, Start, Loads, PublishTurn, storeVars
<1>4. ASSUME Clear
      PROVE  AddsNothing
    BY <1>4 DEF Clear, DeleteAll, AddsNothing, Delivered, SeqNamesClip
<1>5. ASSUME NEW last \in 0 .. seq, Reap(last)
      PROVE  AddsNothing
    BY <1>5 DEF Reap, AddsNothing, Delivered, storeVars
<1>6. ASSUME NEW now \in reaping, ReapStore(now)
      PROVE  AddsNothing
    BY <1>6 DEF ReapStore, DeleteExpired, AddsNothing, Delivered, SeqNamesClip, storeVars
<1>7. ASSUME Tick
      PROVE  AddsNothing
    BY <1>7 DEF Tick, AddsNothing, Delivered, memVars, storeVars
<1>8. (\E p \in Payloads : PutNew(p)) => \E n : Commits(n)
    BY <1>2
<1> QED
    BY <1>1, <1>8, <1>3, <1>4, <1>5, <1>6, <1>7, PublishAddsNothing DEF HubStep

\* What stays of a client's part of the invariant when neither the client nor what is
\* published changes, and the hub only forgets.
LEMMA ClientKeeps ==
    ASSUME NEW c \in Clients, ClientInv(c), StreamTypeOK, HubInv, AddsNothing,
           UNCHANGED <<published, conn[c], queue[c], replay[c], replayedUpTo[c], lastSeq[c],
                       received[c], got[c], dropped[c], gone[c]>>
    PROVE  ClientInv(c)'
<1> USE DEF ClientInv, AddsNothing
<1>1. ConnShape(c)' /\ PastIsOld(c)' /\ ReplayAhead(c)' /\ Ascending(received[c])'
      /\ LastIsGot(c)' /\ QueueInOrder(c)'
    BY DEF ConnShape, PastIsOld, ReplayAhead, Ascending, LastIsGot, QueueInOrder
<1>2. NumbersUnique(c)'
    BY DEF NumbersUnique, Running, SeqNamesClip
<1>3. ReceivedBehind(c)'
    BY DEF ReceivedBehind, Queued
<1>4. BehindHandled(c)' /\ NotComingHandled(c)' /\ SkippedHandled(c)'
    BY DEF BehindHandled, NotComingHandled, SkippedHandled, Handled, Queued
<1> QED
    BY <1>1, <1>2, <1>3, <1>4

\* A new clip is above all that a client waits for; if the client has received a later
\* number, then of an earlier run.
LEMMA CommitKeepsClient ==
    ASSUME NEW c \in Clients, ClientInv(c), StreamTypeOK, FannedOut, HubInv,
           NEW n, Commits(n), UNCHANGED streamVars
    PROVE  ClientInv(c)'
<1> USE DEF ClientInv, Commits, HubInv, TypeOK, StreamTypeOK, streamVars, connVars, pastVars
<1>1. \A i \in history \cup Running \cup replay[c] : i.seq <= seq
    BY DEF MemoryInBounds, PublishTurn, PastIsOld, Running, Item
<1>2. ConnShape(c)' /\ ReplayAhead(c)' /\ Ascending(received[c])' /\ LastIsGot(c)'
      /\ QueueInOrder(c)'
    BY DEF ConnShape, ReplayAhead, Ascending, LastIsGot, QueueInOrder
<1>3. PastIsOld(c)'
    BY DEF PastIsOld, Item
<1>4. NumbersUnique(c)'
    BY <1>1 DEF NumbersUnique, Running, SeqNamesClip, Item
<1>5. ReceivedBehind(c)'
    BY DEF ReceivedBehind, Queued, Delivered
<1>6. \A i : Handled(c, i)' = Handled(c, i)
    BY DEF Handled
<1>7. ASSUME n.seq <= lastSeq[c]
      PROVE  Handled(c, n)
    <2>1. PICK g \in got[c] : g.seq = lastSeq[c]
        BY <1>7 DEF LastIsGot, Item
    <2>2. g.run < n.run /\ g.seq >= n.seq
        BY <1>7, <2>1 DEF PastIsOld, Item
    <2> QED
        BY <2>1, <2>2 DEF Handled
<1>8. BehindHandled(c)'
    BY <1>6, <1>7 DEF BehindHandled
<1>9. NotComingHandled(c)'
    BY <1>6 DEF NotComingHandled, Queued
<1>10. SkippedHandled(c)'
    BY <1>6 DEF SkippedHandled, PastIsOld, Item
<1> QED
    BY <1>2, <1>3, <1>4, <1>5, <1>8, <1>9, <1>10

\* A start meets no connection, and its run is a new one.
LEMMA LoadKeepsClient ==
    ASSUME NEW c \in Clients, ClientInv(c), StreamTypeOK, HubInv, Loads, UNCHANGED streamVars,
           HubInv'
    PROVE  ClientInv(c)'
<1> USE DEF ClientInv, Loads, HubInv, TypeOK, StreamTypeOK, streamVars, connVars, pastVars
<1>1. conn[c] = "off" /\ queue[c] = <<>> /\ replay[c] = {} /\ received[c] = <<>>
      /\ replayedUpTo[c] = 0
    BY DEF ConnShape
<1>2. ConnShape(c)' /\ ReplayAhead(c)' /\ Ascending(received[c])' /\ LastIsGot(c)'
      /\ QueueInOrder(c)' /\ ReceivedBehind(c)'
    BY <1>1 DEF ConnShape, ReplayAhead, Ascending, LastIsGot, QueueInOrder, ReceivedBehind
<1>3. \A i \in published \cup got[c] : i.run < run'
    BY DEF PastIsOld, Item
<1>4. PastIsOld(c)'
    BY <1>1, <1>3 DEF PastIsOld, Item
<1>6. NumbersUnique(c)'
    <2>1. Running' = {}
        BY <1>3 DEF Running, Item
    <2> QED
        BY <1>1, <2>1 DEF NumbersUnique, SeqNamesClip
<1>5. BehindHandled(c)' /\ NotComingHandled(c)' /\ SkippedHandled(c)'
    BY <1>1 DEF BehindHandled, NotComingHandled, SkippedHandled, Handled
<1> QED
    BY <1>2, <1>4, <1>5, <1>6

-----------------------------------------------------------------------------
(***************************************************************************)
(* The fan-out and the crash, which concern every client.                  *)
(***************************************************************************)

LEMMA ReceivedType ==
    ASSUME StreamTypeOK, NEW c \in Clients, NEW k \in DOMAIN received[c]
    PROVE  received[c][k] \in Item /\ received[c][k].seq \in Nat
<1>1. received[c] \in Seq(Item)
    BY DEF StreamTypeOK
<1>2. received[c][k] \in Item
    BY <1>1, ElementOfSeq
<1> QED
    BY <1>2 DEF Item

LEMMA FanOutFacts ==
    ASSUME HubInv, StreamTypeOK, NEW item \in inflight, FanOut(item)
    PROVE  /\ up /\ item \in Item /\ item.run = run
           /\ item.seq <= seq /\ item.seq > Delivered /\ Delivered' = item.seq
           /\ published' = published \cup {item} /\ saving' = item
           /\ UNCHANGED <<up, run, seq, history, inflight, rows>>
           /\ UNCHANGED <<conn, replay, replayedUpTo, lastSeq, received, got, gone>>
<1> USE DEF FanOut, PublishDeliver, Turn, HubInv, TypeOK, PublishTurn, storeVars
<1>1. item.seq > Delivered /\ Delivered' = item.seq
    BY NullAssumption DEF Delivered
<1> QED
    BY <1>1

LEMMA FanOutKeepsFannedOut ==
    ASSUME HubInv, StreamTypeOK, FannedOut, NEW item \in inflight, FanOut(item)
    PROVE  FannedOut'
<1>1. \A i \in published : i.run = run => i.seq <= Delivered
    BY FanOutFacts DEF FannedOut
<1>2. run \in Nat /\ Delivered \in Nat /\ \A i \in published \cup {item} : i.seq \in Nat
    BY FanOutFacts DEF Delivered, HubInv, TypeOK, StreamTypeOK, Item
<1> QED
    BY <1>1, <1>2, FanOutFacts DEF FannedOut

\* The clip is above all that the channel holds, and goes into it or is dropped there.
LEMMA OfferFacts ==
    ASSUME HubInv, StreamTypeOK, FannedOut, NEW item \in inflight, FanOut(item),
           NEW c \in Clients, QueueInOrder(c)
    PROVE  /\ \/ queue'[c] = queue[c] /\ (Subscribed(c) => item \in dropped'[c])
              \/ /\ queue'[c] = Append(queue[c], item) /\ Subscribed(c)
                 /\ Queued(c)' = Queued(c) \cup {item}
           /\ QueueInOrder(c)'
           /\ dropped[c] \subseteq dropped'[c]
<1>1. /\ queue'[c] = IF Subscribed(c) /\ HasRoom(c) THEN Append(queue[c], item) ELSE queue[c]
      /\ dropped'[c] = IF Subscribed(c) /\ ~ HasRoom(c)
                       THEN dropped[c] \cup {item} ELSE dropped[c]
    BY DEF FanOut, Offer
<1>2. queue[c] \in Seq(Item) /\ item \in Item
    BY FanOutFacts DEF StreamTypeOK
<1>3. \A k \in DOMAIN queue[c] : queue[c][k].seq < item.seq
    <2>1. \A k \in DOMAIN queue[c] : queue[c][k].seq <= Delivered /\ queue[c][k] \in Item
        BY FanOutFacts DEF QueueInOrder, FannedOut, StreamTypeOK
    <2>2. Delivered \in Nat /\ item.seq > Delivered /\ item.seq \in Nat
        BY FanOutFacts DEF Delivered, HubInv, TypeOK, Item
    <2> QED
        BY <2>1, <2>2 DEF Item
<1>4. CASE Subscribed(c) /\ HasRoom(c)
    <2>1. queue'[c] = Append(queue[c], item)
        BY <1>1, <1>4
    <2>2. Queued(c)' = Queued(c) \cup {item}
        BY <1>2, <2>1, AppendFacts DEF Queued
    <2>3. Ascending(queue'[c])
        BY <1>2, <1>3, <2>1, AscendingAppend DEF QueueInOrder
    <2>4. QueueInOrder(c)'
        BY <1>2, <2>1, <2>3, AppendFacts, FanOutFacts DEF QueueInOrder
    <2> QED
        BY <1>1, <1>4, <2>1, <2>2, <2>4
<1>5. CASE ~ (Subscribed(c) /\ HasRoom(c))
    <2>1. queue'[c] = queue[c] /\ (Subscribed(c) => item \in dropped'[c])
        BY <1>1, <1>5
    <2>2. QueueInOrder(c)'
        BY <2>1, FanOutFacts DEF QueueInOrder, Ascending
    <2> QED
        BY <1>1, <2>1, <2>2
<1> QED
    BY <1>4, <1>5

LEMMA FanOutKeepsClient ==
    ASSUME HubInv, StreamTypeOK, FannedOut, NEW item \in inflight, FanOut(item),
           NEW c \in Clients, ClientInv(c)
    PROVE  ClientInv(c)'
<1> USE FanOutFacts, OfferFacts DEF ClientInv
<1>1. ConnShape(c)'
    BY DEF ConnShape, Subscribed
<1>2. PastIsOld(c)'
    <2>1. item.run <= run
        BY DEF HubInv, TypeOK
    <2> QED
        BY <2>1 DEF PastIsOld
<1>3. NumbersUnique(c)'
    <2>1. Running' = Running
        BY DEF Running
    <2> QED
        BY <2>1 DEF NumbersUnique, SeqNamesClip
<1>4. ReplayAhead(c)' /\ Ascending(received[c])' /\ LastIsGot(c)'
    BY DEF ReplayAhead, Ascending, LastIsGot
<1>5. ReceivedBehind(c)'
    <2>1. Queued(c)' \subseteq Queued(c) \cup {item}
        BY DEF Queued
    <2>2. Delivered \in Nat /\ item.seq \in Nat
        BY DEF Delivered, HubInv, TypeOK, Item
    <2>3. \A k \in DOMAIN received[c] : received[c][k].seq \in Nat
        BY ReceivedType
    <2> QED
        BY <2>1, <2>2, <2>3 DEF ReceivedBehind
<1>6. \A i : Handled(c, i) => Handled(c, i)'
    BY DEF Handled
<1>7. published' \cup inflight' = published \cup inflight
    OBVIOUS
<1>8. BehindHandled(c)'
    BY <1>6, <1>7 DEF BehindHandled
<1>9. SkippedHandled(c)'
    BY <1>6, <1>7 DEF SkippedHandled
<1>10. NotComingHandled(c)'
    <2>1. conn[c] = "streaming" => Handled(c, item)' \/ item \in Queued(c)'
        BY DEF Subscribed, Handled
    <2>2. Queued(c) \subseteq Queued(c)'
        BY DEF Queued
    <2> QED
        BY <1>6, <2>1, <2>2 DEF NotComingHandled
<1> QED
    BY <1>1, <1>2, <1>3, <1>4, <1>5, <1>8, <1>9, <1>10

\* A crash ends every connection; what was received stays received.
LEMMA CrashKeepsClient ==
    ASSUME HubInv, StreamTypeOK, CrashAll, NEW c \in Clients, ClientInv(c)
    PROVE  ClientInv(c)'
<1>1. /\ ~ up' /\ run' = run /\ seq' = 0 /\ history' = {} /\ inflight' = {} /\ rows' = rows
      /\ conn'[c] = "off" /\ queue'[c] = <<>> /\ replay'[c] = {} /\ replayedUpTo'[c] = 0
      /\ received'[c] = <<>>
      /\ UNCHANGED <<lastSeq, got, published, dropped, gone>>
    BY DEF CrashAll, Crash, pastVars, storeVars
<1> USE DEF ClientInv
<1>2. ConnShape(c)' /\ PastIsOld(c)' /\ QueueInOrder(c)' /\ ReplayAhead(c)'
      /\ ReceivedBehind(c)' /\ Ascending(received[c])' /\ LastIsGot(c)'
    BY <1>1 DEF ConnShape, PastIsOld, QueueInOrder, ReplayAhead, ReceivedBehind, Ascending,
                LastIsGot
<1>3. NumbersUnique(c)'
    BY <1>1 DEF NumbersUnique, Running, SeqNamesClip
<1>4. BehindHandled(c)' /\ NotComingHandled(c)' /\ SkippedHandled(c)'
    BY <1>1 DEF BehindHandled, NotComingHandled, SkippedHandled, Handled
<1> QED
    BY <1>2, <1>3, <1>4

-----------------------------------------------------------------------------
(***************************************************************************)
(* The steps of one client's connection.                                   *)
(***************************************************************************)

\* Connect, Subscribe and Disconnect move nothing to the client.
LEMMA LinkKeepsClient ==
    ASSUME HubInv, StreamTypeOK, NEW c \in Clients, ClientInv(c),
           Connect(c) \/ Subscribe(c) \/ Disconnect(c)
    PROVE  ClientInv(c)'
<1> USE DEF ClientInv
<1>1. UNCHANGED <<up, run, seq, history, inflight, rows, saving, publishedSeq>>
    BY DEF Connect, Subscribe, Disconnect, vars, memVars, storeVars
<1>2. /\ conn'[c] \in {"off", "accepted", "subscribed"}
      /\ conn'[c] = "accepted" => up
      /\ conn'[c] = "subscribed" => conn[c] = "accepted"
      /\ queue'[c] = <<>> /\ replay'[c] = {} /\ replayedUpTo'[c] = 0 /\ received'[c] = <<>>
      /\ UNCHANGED <<lastSeq, got, published, dropped, gone>>
    BY DEF Connect, Subscribe, Disconnect, ConnShape, StreamTypeOK, pastVars
<1>3. ConnShape(c)' /\ PastIsOld(c)' /\ QueueInOrder(c)' /\ ReplayAhead(c)'
      /\ ReceivedBehind(c)' /\ Ascending(received[c])' /\ LastIsGot(c)'
    <2>1. ConnShape(c)'
        BY <1>1, <1>2 DEF ConnShape
    <2>2. PastIsOld(c)'
        BY <1>1, <1>2 DEF PastIsOld, HubInv, TypeOK
    <2> QED
        BY <1>1, <1>2, <2>1, <2>2 DEF QueueInOrder, ReplayAhead, ReceivedBehind, Ascending,
                                      LastIsGot
<1>4. NumbersUnique(c)'
    BY <1>1, <1>2 DEF NumbersUnique, Running, SeqNamesClip
<1>5. BehindHandled(c)' /\ NotComingHandled(c)' /\ SkippedHandled(c)'
    BY <1>1, <1>2 DEF BehindHandled, NotComingHandled, SkippedHandled, Handled
<1> QED
    BY <1>3, <1>4, <1>5

\* The catch-up lists what the client misses, or notes it as gone.
LEMMA CatchUpKeepsClient ==
    ASSUME HubInv, StreamTypeOK, NEW c \in Clients, ClientInv(c), CatchUp(c)
    PROVE  ClientInv(c)'
<1> USE DEF ClientInv
<1>1. UNCHANGED <<up, run, seq, history, inflight, rows, saving, publishedSeq>>
    BY DEF CatchUp, vars, memVars, storeVars
<1>2. /\ conn[c] = "subscribed" /\ conn'[c] = "streaming" /\ up
      /\ replay'[c] = Missed(c) /\ gone'[c] = gone[c] \cup PassedOver(c)
      /\ replayedUpTo[c] = 0 /\ received[c] = <<>>
      /\ UNCHANGED <<queue, replayedUpTo, lastSeq, received, got, published, dropped>>
    BY DEF CatchUp, ConnShape, StreamTypeOK
<1>3. /\ Missed(c) \subseteq history
      /\ \A i \in Missed(c) : i.seq > lastSeq[c] /\ i.seq > 0 /\ i.seq <= seq /\ i.run <= run
    BY DEF Missed, HubInv, TypeOK, MemoryInBounds, ClipsAreOld, Item
<1>4. \A i \in published \cup inflight : i.seq \in Nat
    BY DEF HubInv, TypeOK, StreamTypeOK, Item
<1>5. lastSeq[c] \in Nat /\ seq \in Nat
    BY DEF StreamTypeOK, HubInv, TypeOK
<1>6. ConnShape(c)' /\ QueueInOrder(c)' /\ ReceivedBehind(c)' /\ Ascending(received[c])'
      /\ LastIsGot(c)'
    BY <1>1, <1>2 DEF ConnShape, QueueInOrder, ReceivedBehind, Ascending, LastIsGot
<1>7. PastIsOld(c)' /\ ReplayAhead(c)'
    BY <1>1, <1>2, <1>3, <1>5 DEF PastIsOld, ReplayAhead
<1>8. NumbersUnique(c)'
    BY <1>1, <1>2, <1>3 DEF NumbersUnique, Running, SeqNamesClip
<1>9. \A i : Handled(c, i) => Handled(c, i)'
    BY <1>2 DEF Handled
<1>10. \A i \in PassedOver(c) : Handled(c, i)'
    BY <1>2 DEF Handled
<1>11. BehindHandled(c)'
    BY <1>1, <1>2, <1>9 DEF BehindHandled
<1>12. ASSUME NEW i \in published \cup inflight, i \notin Missed(c),
              \/ i \in published \ Queued(c)
              \/ \E m \in Missed(c) : m.seq > i.seq
       PROVE  Handled(c, i)'
    <2>1. CASE i.seq <= lastSeq[c]
        BY <1>9, <2>1 DEF BehindHandled
    <2>2. CASE i.seq > lastSeq[c]
        <3>1. lastSeq[c] = 0 \/ i \notin history
            BY <1>12, <2>2 DEF Missed
        <3> QED
            BY <1>10, <1>12, <2>2, <3>1 DEF PassedOver
    <2> QED
        BY <1>4, <1>5, <2>1, <2>2
<1>13. NotComingHandled(c)'
    BY <1>2, <1>12 DEF NotComingHandled, Queued
<1>14. SkippedHandled(c)'
    <2>1. \A i \in published \cup inflight : i.seq <= 0 => Handled(c, i)'
        BY <1>4, <1>5, <1>9 DEF BehindHandled
    <2>2. \A i \in published \cup inflight :
              (\E m \in Missed(c) : i.seq < m.seq) => Handled(c, i)' \/ i \in Missed(c)
        BY <1>3, <1>4, <1>12 DEF HubInv, TypeOK, Item
    <2> QED
        BY <1>1, <1>2, <2>1, <2>2 DEF SkippedHandled
<1> QED
    BY <1>6, <1>7, <1>8, <1>11, <1>13, <1>14

\* The replay goes on with the smallest seq it has, which is above all before it.
LEMMA ReplayKeepsClient ==
    ASSUME HubInv, StreamTypeOK, NEW c \in Clients, ClientInv(c), ReplayNext(c)
    PROVE  ClientInv(c)'
<1> USE DEF ClientInv
<1>1. UNCHANGED <<up, run, seq, history, inflight, rows, saving, publishedSeq>>
    BY DEF ReplayNext, vars, memVars, storeVars
<1>2. PICK item \in replay[c] :
          /\ \A other \in replay[c] : item.seq <= other.seq
          /\ replay'[c] = replay[c] \ {item}
          /\ replayedUpTo'[c] = IF item.seq > replayedUpTo[c] THEN item.seq
                                ELSE replayedUpTo[c]
          /\ lastSeq'[c] = item.seq
          /\ received'[c] = Append(received[c], item)
          /\ got'[c] = got[c] \cup {item}
    BY DEF ReplayNext, Receive, FirstOfReplay, StreamTypeOK
<1>3. conn[c] = "streaming" /\ UNCHANGED <<conn, queue, published, dropped, gone>>
    BY DEF ReplayNext, pastVars
<1>4. /\ item.seq > replayedUpTo[c] /\ item.seq > lastSeq[c] /\ item.seq <= seq
      /\ item.run <= run /\ (up /\ item.run = run => item.seq <= seq)
    BY DEF ReplayAhead, PastIsOld
<1>5. replayedUpTo'[c] = item.seq
    BY <1>2, <1>4
<1>6. item \in Item /\ received[c] \in Seq(Item) /\ replay[c] \subseteq Item
      /\ published \cup inflight \subseteq Item
    BY DEF StreamTypeOK, HubInv, TypeOK
<1>7. \A i \in published \cup inflight \cup replay[c] : i.seq \in Nat /\ i.run \in Nat
    BY <1>6 DEF Item
<1>8. \A other \in replay'[c] : other.seq > item.seq
    BY <1>2, <1>7 DEF NumbersUnique, SeqNamesClip
<1>9. \A k \in DOMAIN received[c] : received[c][k].seq < item.seq
    <2>1. \A k \in DOMAIN received[c] : received[c][k].seq <= replayedUpTo[c]
        BY DEF ReceivedBehind
    <2>2. replayedUpTo[c] \in Nat
        BY DEF StreamTypeOK
    <2> QED
        BY <1>4, <1>7, <2>1, <2>2, ReceivedType
<1>10. ConnShape(c)' /\ QueueInOrder(c)'
    BY <1>1, <1>2, <1>3 DEF ConnShape, QueueInOrder, Ascending
<1>11. PastIsOld(c)'
    BY <1>1, <1>2, <1>3, <1>4, <1>5 DEF PastIsOld
<1>12. NumbersUnique(c)'
    BY <1>1, <1>2, <1>3 DEF NumbersUnique, Running, SeqNamesClip
<1>13. ReplayAhead(c)' /\ LastIsGot(c)'
    BY <1>2, <1>5, <1>8 DEF ReplayAhead, LastIsGot
<1>14. Ascending(received[c])'
    BY <1>2, <1>6, <1>9, AscendingAppend
<1>15. ReceivedBehind(c)'
    <2>1. \A k \in DOMAIN received'[c] : received'[c][k].seq <= item.seq
        <3>1. \A k \in DOMAIN received[c] : received[c][k].seq <= item.seq
            BY <1>7, <1>9, ReceivedType
        <3> QED
            BY <1>2, <1>6, <1>7, <3>1, AppendFacts
    <2> QED
        BY <1>5, <2>1 DEF ReceivedBehind
<1>16. \A i : Handled(c, i) => Handled(c, i)'
    BY <1>2, <1>3 DEF Handled
<1>17. Handled(c, item)'
    BY <1>2 DEF Handled
<1>18. ASSUME NEW i \in published \cup inflight, i.seq <= item.seq
       PROVE  Handled(c, i)'
    <2>1. CASE i.seq < item.seq
        <3>1. Handled(c, i) \/ i \in replay[c]
            BY <1>3, <2>1 DEF SkippedHandled
        <3>2. i \notin replay[c]
            BY <1>2, <1>7, <2>1
        <3> QED
            BY <1>16, <3>1, <3>2
    <2>2. CASE i.seq = item.seq /\ i.run = run
        <3>1. i = item
            BY <2>2 DEF NumbersUnique, Running, SeqNamesClip
        <3> QED
            BY <1>17, <3>1
    <2>3. CASE i.seq = item.seq /\ i.run # run
        <3>1. i \in published
            BY <2>3 DEF HubInv, PublishTurn
        <3>2. i \notin Queued(c)
            BY <2>3 DEF QueueInOrder, Queued
        <3>3. i \in replay[c] => i = item
            BY <2>3 DEF NumbersUnique, SeqNamesClip
        <3> QED
            BY <1>3, <1>16, <1>17, <3>1, <3>2, <3>3 DEF NotComingHandled
    <2> QED
        BY <1>7, <1>18, <2>1, <2>2, <2>3
<1>19. BehindHandled(c)'
    BY <1>1, <1>2, <1>3, <1>18 DEF BehindHandled
<1>20. NotComingHandled(c)'
    BY <1>2, <1>3, <1>16, <1>17 DEF NotComingHandled, Queued
<1>21. SkippedHandled(c)'
    <2>1. ASSUME NEW i \in published \cup inflight, NEW m \in replay'[c], i.seq < m.seq
          PROVE  Handled(c, i)' \/ i \in replay'[c]
        <3>1. Handled(c, i) \/ i \in replay[c]
            BY <1>2, <1>3, <2>1 DEF SkippedHandled
        <3> QED
            BY <1>2, <1>16, <1>17, <3>1
    <2> QED
        BY <1>1, <1>3, <1>5, <1>18, <2>1 DEF SkippedHandled
<1> QED
    BY <1>10, <1>11, <1>12, <1>13, <1>14, <1>15, <1>19, <1>20, <1>21

\* The live loop goes on with the head of the channel, or skips it.
LEMMA LiveKeepsClient ==
    ASSUME HubInv, StreamTypeOK, FannedOut, NEW c \in Clients, ClientInv(c), LiveNext(c)
    PROVE  ClientInv(c)'
<1> USE DEF ClientInv
<1>0. PICK head : head = Head(queue[c])
    OBVIOUS
<1>1. UNCHANGED <<up, run, seq, history, inflight, rows, saving, publishedSeq>>
    BY DEF LiveNext, vars, memVars, storeVars
<1>2. /\ conn[c] = "streaming" /\ replay[c] = {} /\ queue[c] # <<>>
      /\ queue'[c] = Tail(queue[c])
      /\ UNCHANGED <<conn, replay, replayedUpTo, published, dropped, gone>>
    BY DEF LiveNext, pastVars, StreamTypeOK
<1>3. \/ /\ head.seq <= replayedUpTo[c]
         /\ UNCHANGED <<lastSeq, received, got>>
      \/ /\ ~ (head.seq <= replayedUpTo[c])
         /\ lastSeq'[c] = head.seq
         /\ received'[c] = Append(received[c], head)
         /\ got'[c] = got[c] \cup {head}
    BY <1>0 DEF LiveNext, AlreadyReplayed, Receive, StreamTypeOK
<1>4. queue[c] \in Seq(Item) /\ received[c] \in Seq(Item)
    BY DEF StreamTypeOK
<1>5. head \in Item /\ head = queue[c][1] /\ 1 \in DOMAIN queue[c]
    BY <1>0, <1>2, <1>4, TailFacts
<1>6. head \in published /\ head.run = run /\ head.seq <= Delivered /\ head.seq <= seq
    BY <1>2, <1>5 DEF QueueInOrder, FannedOut, ConnShape, PastIsOld
<1>7. /\ head.seq \in Nat /\ replayedUpTo[c] \in Nat /\ Delivered \in Nat
      /\ \A i \in published \cup inflight : i.seq \in Nat
    BY <1>5 DEF HubInv, TypeOK, StreamTypeOK, Delivered, Item
<1>8. Queued(c) = {head} \cup Queued(c)'
    <2>1. \A k \in DOMAIN queue[c] :
              k = 1 \/ (k - 1 \in DOMAIN queue'[c] /\ queue'[c][k - 1] = queue[c][k])
        BY <1>2, <1>4, TailFacts
    <2>2. \A k \in DOMAIN queue'[c] : k + 1 \in DOMAIN queue[c] /\ queue'[c][k] = queue[c][k + 1]
        BY <1>2, <1>4, TailFacts
    <2> QED
        BY <1>5, <2>1, <2>2 DEF Queued
<1>9. Ascending(queue'[c]) /\ \A q \in Queued(c)' : head.seq < q.seq
    BY <1>0, <1>2, <1>4, AscendingTail DEF QueueInOrder, Queued
<1>10. ConnShape(c)' /\ NumbersUnique(c)' /\ ReplayAhead(c)'
    <2>1. ConnShape(c)'
        BY <1>1, <1>2 DEF ConnShape
    <2>2. NumbersUnique(c)'
        BY <1>1, <1>2 DEF NumbersUnique, Running, SeqNamesClip
    <2> QED
        BY <1>2, <2>1, <2>2 DEF ReplayAhead
<1>11. QueueInOrder(c)'
    <2>1. \A q \in Queued(c) : q \in published /\ q.run = run
        BY DEF QueueInOrder, Queued
    <2>2. \A q \in Queued(c)' : q \in published' /\ q.run = run'
        BY <1>1, <1>2, <1>8, <2>1
    <2> QED
        BY <1>9, <2>2 DEF QueueInOrder, Queued
<1>12. \A i : Handled(c, i) => Handled(c, i)'
    BY <1>2, <1>3 DEF Handled
<1>13. Handled(c, head)'
    <2>1. CASE head.seq <= replayedUpTo[c]
        BY <1>2, <1>6, <1>12, <2>1 DEF SkippedHandled
    <2>2. CASE ~ (head.seq <= replayedUpTo[c])
        BY <1>3, <2>2 DEF Handled
    <2> QED
        BY <2>1, <2>2
<1>14. NotComingHandled(c)'
    BY <1>2, <1>8, <1>12, <1>13 DEF NotComingHandled
<1>15. SkippedHandled(c)'
    BY <1>1, <1>2, <1>12 DEF SkippedHandled
<1>16. CASE UNCHANGED <<lastSeq, received, got>>
    <2>1. PastIsOld(c)'
        BY <1>1, <1>2, <1>16 DEF PastIsOld
    <2>2. ReceivedBehind(c)' /\ Ascending(received[c])'
        <3>1. Delivered' = Delivered
            BY <1>1 DEF Delivered
        <3> QED
            BY <1>2, <1>8, <1>16, <3>1 DEF ReceivedBehind, Ascending
    <2>3. LastIsGot(c)' /\ BehindHandled(c)'
        BY <1>1, <1>2, <1>12, <1>16 DEF LastIsGot, BehindHandled
    <2> QED
        BY <1>10, <1>11, <1>14, <1>15, <2>1, <2>2, <2>3 DEF ReplayAhead
<1>17. CASE /\ ~ (head.seq <= replayedUpTo[c])
            /\ lastSeq'[c] = head.seq
            /\ received'[c] = Append(received[c], head)
            /\ got'[c] = got[c] \cup {head}
    <2>1. PastIsOld(c)'
        BY <1>1, <1>2, <1>6, <1>17 DEF PastIsOld
    <2>2. \A k \in DOMAIN received[c] :
              /\ received[c][k].seq < head.seq
              /\ \/ received[c][k].seq <= replayedUpTo[c]
                 \/ \A q \in Queued(c)' : received[c][k].seq < q.seq
        BY <1>7, <1>8, <1>17, ReceivedType DEF ReceivedBehind
    <2>3. Ascending(received[c])'
        BY <1>4, <1>5, <1>17, <2>2, AscendingAppend
    <2>4. ReceivedBehind(c)'
        <3>1. \A k \in DOMAIN received'[c] :
                  \/ k \in DOMAIN received[c] /\ received'[c][k] = received[c][k]
                  \/ received'[c][k] = head
            BY <1>4, <1>5, <1>17, AppendFacts
        <3>2. Delivered' = Delivered
            BY <1>1 DEF Delivered
        <3> QED
            BY <1>2, <1>6, <1>8, <1>9, <3>1, <3>2 DEF ReceivedBehind
    <2>5. LastIsGot(c)'
        BY <1>17 DEF LastIsGot
    <2>6. ASSUME NEW i \in published \cup inflight, i.seq <= head.seq
          PROVE  Handled(c, i)'
        <3>1. CASE i \in published
            <4>1. Handled(c, i) \/ i \in Queued(c)
                BY <1>2, <3>1 DEF NotComingHandled
            <4>2. i \notin Queued(c)'
                BY <1>7, <1>9, <2>6
            <4> QED
                BY <1>8, <1>12, <1>13, <4>1, <4>2
        <3>2. CASE i \in inflight \ published
            <4>1. i.seq > publishedSeq /\ publishedSeq \in Nat
                BY <3>2 DEF HubInv, TypeOK, PublishTurn
            <4>2. CASE saving = Null
                BY <1>6, <1>7, <2>6, <4>1, <4>2 DEF Delivered
            <4>3. CASE saving # Null
                <5>1. i.seq # saving.seq /\ saving.seq = publishedSeq + 1
                    BY <3>2, <4>3 DEF HubInv, PublishTurn, FannedOut
                <5> QED
                    BY <1>6, <1>7, <2>6, <4>1, <4>3, <5>1 DEF Delivered
            <4> QED
                BY <4>2, <4>3
        <3> QED
            BY <3>1, <3>2
    <2>7. BehindHandled(c)'
        BY <1>1, <1>2, <1>17, <2>6 DEF BehindHandled
    <2> QED
        BY <1>10, <1>11, <1>14, <1>15, <2>1, <2>3, <2>4, <2>5, <2>7
<1> QED
    BY <1>3, <1>16, <1>17

\* A step of one client leaves all others alone.
LEMMA OtherClientKeeps ==
    ASSUME HubInv, StreamTypeOK, NEW d \in Clients, ClientStep(d),
           NEW c \in Clients, c # d, ClientInv(c)
    PROVE  ClientInv(c)'
<1>1. UNCHANGED <<vars, published>>
    BY ClientStepsNoHub
<1>2. AddsNothing
    BY <1>1 DEF AddsNothing, Delivered, SeqNamesClip, vars, memVars, storeVars
<1>3. UNCHANGED <<conn[c], queue[c], replay[c], replayedUpTo[c], lastSeq[c], received[c],
                  got[c], dropped[c], gone[c]>>
    <2> USE DEF StreamTypeOK, pastVars
    <2>1. CASE Connect(d)
        BY <2>1 DEF Connect
    <2>2. CASE Subscribe(d)
        BY <2>2 DEF Subscribe
    <2>3. CASE CatchUp(d)
        BY <2>3 DEF CatchUp
    <2>4. CASE ReplayNext(d)
        BY <2>4 DEF ReplayNext, Receive
    <2>5. CASE LiveNext(d)
        BY <2>5 DEF LiveNext, Receive
    <2>6. CASE Disconnect(d)
        BY <2>6 DEF Disconnect
    <2> QED
        BY <2>1, <2>2, <2>3, <2>4, <2>5, <2>6 DEF ClientStep
<1> QED
    BY <1>1, <1>2, <1>3, ClientKeeps

LEMMA ClientStepKeepsClient ==
    ASSUME HubInv, StreamTypeOK, FannedOut, NEW d \in Clients, ClientStep(d),
           NEW c \in Clients, ClientInv(c)
    PROVE  ClientInv(c)'
<1>1. CASE c # d
    BY <1>1, OtherClientKeeps
<1>2. CASE c = d
    BY <1>2, LinkKeepsClient, CatchUpKeepsClient, ReplayKeepsClient, LiveKeepsClient
       DEF ClientStep
<1> QED
    BY <1>1, <1>2

\* The steps of the hub, one lemma for all clients.
LEMMA HubStepKeepsClients ==
    ASSUME HubInv, HubInv', StreamTypeOK, FannedOut, HubStep
    PROVE  FannedOut' /\ \A c \in Clients : ClientInv(c) => ClientInv(c)'
<1>1. UNCHANGED streamVars /\ ((\E n : Commits(n)) \/ Loads \/ AddsNothing)
    BY HubStepCases
<1>2. CASE \E n : Commits(n)
    <2>1. FannedOut'
        BY <1>1, <1>2 DEF Commits, FannedOut, Delivered, streamVars, pastVars
    <2> QED
        BY <1>1, <1>2, <2>1, CommitKeepsClient
<1>3. CASE Loads
    <2>1. \A i \in published : i.run < run'
        BY <1>3 DEF Loads, FannedOut, StreamTypeOK, HubInv, TypeOK, Item
    <2>2. FannedOut'
        BY <1>1, <1>3, <2>1 DEF Loads, FannedOut, StreamTypeOK, HubInv, TypeOK, Item, streamVars,
                                pastVars
    <2> QED
        BY <1>1, <1>3, <2>2, LoadKeepsClient
<1>4. CASE AddsNothing
    <2>1. FannedOut'
        BY <1>1, <1>4 DEF AddsNothing, FannedOut, streamVars, pastVars
    <2> QED
        BY <1>1, <1>4, <2>1, ClientKeeps DEF streamVars, connVars, pastVars
<1> QED
    BY <1>1, <1>2, <1>3, <1>4

-----------------------------------------------------------------------------
(***************************************************************************)
(* Types.                                                                  *)
(***************************************************************************)

LEMMA HubStepKeepsTypes ==
    ASSUME StreamTypeOK, UNCHANGED streamVars
    PROVE  StreamTypeOK'
BY DEF StreamTypeOK, streamVars, connVars, pastVars

LEMMA FanOutKeepsTypes ==
    ASSUME HubInv, StreamTypeOK, FannedOut, NEW item \in inflight, FanOut(item)
    PROVE  StreamTypeOK'
<1>1. item \in Item /\ published' = published \cup {item}
      /\ UNCHANGED <<conn, replay, replayedUpTo, lastSeq, received, got, gone>>
    BY FanOutFacts
<1>2. /\ queue' = [c \in Clients |-> IF Subscribed(c) /\ HasRoom(c)
                                     THEN Append(queue[c], item) ELSE queue[c]]
      /\ dropped' = [c \in Clients |-> IF Subscribed(c) /\ ~ HasRoom(c)
                                       THEN dropped[c] \cup {item} ELSE dropped[c]]
    BY DEF FanOut, Offer
<1>3. ASSUME NEW c \in Clients
      PROVE  queue'[c] \in Seq(Item) /\ Len(queue'[c]) <= QueueCap
    <2>1. queue[c] \in Seq(Item) /\ Len(queue[c]) <= QueueCap
        BY DEF StreamTypeOK
    <2>2. CASE Subscribed(c) /\ HasRoom(c)
        BY <1>1, <1>2, <2>1, <2>2, AppendFacts, QueueCapAssumption DEF HasRoom
    <2>3. CASE ~ (Subscribed(c) /\ HasRoom(c))
        BY <1>2, <2>1, <2>3
    <2> QED
        BY <2>2, <2>3
<1>4. queue' \in [Clients -> Seq(Item)] /\ \A c \in Clients : Len(queue'[c]) <= QueueCap
    <2>1. queue' = [c \in Clients |-> queue'[c]]
        BY <1>2
    <2> QED
        BY <1>3, <2>1
<1>5. dropped' \in [Clients -> SUBSET Item]
    BY <1>1, <1>2 DEF StreamTypeOK
<1> QED
    BY <1>1, <1>4, <1>5 DEF StreamTypeOK

LEMMA CrashKeepsTypes ==
    ASSUME StreamTypeOK, CrashAll
    PROVE  StreamTypeOK' /\ (FannedOut => FannedOut')
<1>1. StreamTypeOK'
    BY QueueCapAssumption DEF StreamTypeOK, CrashAll, ConnState, pastVars
<1>2. FannedOut => FannedOut'
    BY DEF FannedOut, CrashAll, Crash, pastVars
<1> QED
    BY <1>1, <1>2

\* One clip received.
LEMMA ReceiveTypes ==
    ASSUME StreamTypeOK, NEW c \in Clients, NEW item \in Item, Receive(c, item)
    PROVE  /\ lastSeq' \in [Clients -> Nat] /\ received' \in [Clients -> Seq(Item)]
           /\ got' \in [Clients -> SUBSET Item]
<1>1. item.seq \in Nat
    BY DEF Item
<1>2. lastSeq' \in [Clients -> Nat]
    BY <1>1 DEF StreamTypeOK, Receive
<1>3. Append(received[c], item) \in Seq(Item)
    BY AppendFacts DEF StreamTypeOK
<1>4. received' \in [Clients -> Seq(Item)]
    BY <1>3 DEF StreamTypeOK, Receive
<1>5. got' \in [Clients -> SUBSET Item]
    BY DEF StreamTypeOK, Receive
<1> QED
    BY <1>2, <1>4, <1>5

LEMMA ClientStepKeepsTypes ==
    ASSUME HubInv, StreamTypeOK, NEW c \in Clients, ClientStep(c)
    PROVE  StreamTypeOK'
<1> USE DEF pastVars
<1>1. CASE Connect(c)
    BY <1>1 DEF StreamTypeOK, Connect, ConnState
<1>2. CASE Subscribe(c)
    BY <1>2 DEF StreamTypeOK, Subscribe, ConnState
<1>3. CASE CatchUp(c)
    <2>1. Missed(c) \subseteq Item /\ PassedOver(c) \subseteq Item
        BY DEF Missed, PassedOver, StreamTypeOK, HubInv, TypeOK
    <2> QED
        BY <1>3, <2>1 DEF StreamTypeOK, CatchUp, ConnState
<1>4. CASE ReplayNext(c)
    <2>1. PICK item \in replay[c] :
              /\ replay' = [replay EXCEPT ![c] = @ \ {item}]
              /\ replayedUpTo' = [replayedUpTo EXCEPT ![c] = IF item.seq > @ THEN item.seq ELSE @]
              /\ Receive(c, item)
        BY <1>4 DEF ReplayNext
    <2>2. item \in Item
        BY DEF StreamTypeOK
    <2>3. item.seq \in Nat
        BY <2>2 DEF Item
    <2>4. /\ replay' \in [Clients -> SUBSET Item] /\ replayedUpTo' \in [Clients -> Nat]
          /\ UNCHANGED <<conn, queue, published, dropped, gone>>
        BY <1>4, <2>1, <2>3 DEF StreamTypeOK, ReplayNext
    <2> QED
        BY <2>1, <2>2, <2>4, ReceiveTypes DEF StreamTypeOK
<1>5. CASE LiveNext(c)
    <2>1. /\ queue[c] # <<>> /\ queue' = [queue EXCEPT ![c] = Tail(@)]
          /\ (UNCHANGED <<lastSeq, received, got>> \/ Receive(c, Head(queue[c])))
          /\ UNCHANGED <<conn, replay, replayedUpTo, published, dropped, gone>>
        BY <1>5 DEF LiveNext
    <2>2. queue[c] \in Seq(Item) /\ Len(queue[c]) <= QueueCap
        BY DEF StreamTypeOK
    <2>3. /\ Head(queue[c]) \in Item
          /\ Tail(queue[c]) \in Seq(Item) /\ Len(Tail(queue[c])) <= QueueCap
        BY <2>1, <2>2, TailFacts, QueueCapAssumption
    <2>4. queue' \in [Clients -> Seq(Item)] /\ \A d \in Clients : Len(queue'[d]) <= QueueCap
        BY <2>1, <2>3 DEF StreamTypeOK
    <2>5. /\ lastSeq' \in [Clients -> Nat] /\ received' \in [Clients -> Seq(Item)]
          /\ got' \in [Clients -> SUBSET Item]
        BY <2>1, <2>3, ReceiveTypes DEF StreamTypeOK
    <2> QED
        BY <2>1, <2>4, <2>5 DEF StreamTypeOK
<1>6. CASE Disconnect(c)
    BY <1>6, QueueCapAssumption DEF StreamTypeOK, Disconnect, ConnState
<1> QED
    BY <1>1, <1>2, <1>3, <1>4, <1>5, <1>6 DEF ClientStep

-----------------------------------------------------------------------------
LEMMA StreamInitEstablishes == StreamInit => StreamInv
<1> SUFFICES ASSUME StreamInit
             PROVE  StreamInv
    OBVIOUS
<1> USE DEF StreamInit, Init, StoreInit
<1>1. StreamTypeOK
    BY QueueCapAssumption DEF StreamTypeOK, ConnState
<1>2. FannedOut
    BY DEF FannedOut
<1>3. ASSUME NEW c \in Clients
      PROVE  ClientInv(c)
    <2>1. ConnShape(c) /\ PastIsOld(c) /\ NumbersUnique(c) /\ QueueInOrder(c)
        BY DEF ConnShape, PastIsOld, NumbersUnique, Running, SeqNamesClip, QueueInOrder, Ascending
    <2>2. ReplayAhead(c) /\ ReceivedBehind(c) /\ Ascending(received[c]) /\ LastIsGot(c)
        BY DEF ReplayAhead, ReceivedBehind, Ascending, LastIsGot
    <2>3. BehindHandled(c) /\ NotComingHandled(c) /\ SkippedHandled(c)
        BY DEF BehindHandled, NotComingHandled, SkippedHandled
    <2> QED
        BY <2>1, <2>2, <2>3 DEF ClientInv
<1> QED
    BY <1>1, <1>2, <1>3 DEF StreamInv

LEMMA StreamNextPreserves ==
    HubInv /\ HubInv' /\ StreamInv /\ [StreamNext]_allVars => StreamInv'
<1> SUFFICES ASSUME HubInv, HubInv', StreamInv, [StreamNext]_allVars
             PROVE  StreamInv'
    OBVIOUS
<1> USE DEF StreamInv
<1>1. CASE HubStep
    <2>1. StreamTypeOK'
        BY <1>1, HubStepKeepsTypes, HubStepCases
    <2> QED
        BY <1>1, <2>1, HubStepKeepsClients
<1>2. ASSUME NEW item \in inflight, FanOut(item)
      PROVE  StreamInv'
    BY <1>2, FanOutKeepsTypes, FanOutKeepsFannedOut, FanOutKeepsClient
<1>3. CASE CrashAll
    BY <1>3, CrashKeepsTypes, CrashKeepsClient
<1>4. ASSUME NEW d \in Clients, ClientStep(d)
      PROVE  StreamInv'
    <2>1. FannedOut'
        BY <1>4, ClientStepsNoHub DEF FannedOut, Delivered, vars, memVars
    <2> QED
        BY <1>4, <2>1, ClientStepKeepsTypes, ClientStepKeepsClient
<1>5. CASE UNCHANGED allVars
    <2>1. StreamTypeOK' /\ UNCHANGED streamVars
        BY <1>5, HubStepKeepsTypes DEF allVars
    <2>2. AddsNothing
        BY <1>5 DEF allVars, AddsNothing, Delivered, SeqNamesClip, vars, memVars, storeVars
    <2>3. FannedOut'
        BY <2>1, <2>2 DEF AddsNothing, FannedOut, streamVars, pastVars
    <2> QED
        BY <2>1, <2>2, <2>3, ClientKeeps DEF streamVars, connVars, pastVars
<1> QED
    BY <1>1, <1>2, <1>3, <1>4, <1>5, StreamCases

\* The inductive invariant holds in every behaviour of the hub with its streams.
THEOREM StreamInvariance == StreamSpec => [](HubInv /\ StreamInv)
<1>1. StreamSpec => []HubInv
    BY StreamImplementsHub, Invariance, PTL
<1>2. StreamInit => StreamInv
    BY StreamInitEstablishes
<1>3. HubInv /\ HubInv' /\ StreamInv /\ [StreamNext]_allVars => StreamInv'
    BY StreamNextPreserves
<1> QED
    BY <1>1, <1>2, <1>3, PTL DEF StreamSpec

\* Every variable of the stream keeps its type; no channel holds more than its capacity.
THEOREM StreamTypes == StreamSpec => []StreamTypeOK
BY StreamInvariance, PTL DEF StreamInv

\* Over one connection a client receives clips in strictly ascending seq, none twice,
\* although the replay and the channel may both hold the same clip.
THEOREM StreamOrder == StreamSpec => []ReceivedInOrder
<1>1. StreamInv => ReceivedInOrder
    BY DEF StreamInv, ClientInv, ReceivedInOrder
<1> QED
    BY <1>1, StreamInvariance, PTL

\* Nothing that was published is passed over in silence: it was received, dropped or
\* gone, is on its way, or a later catch-up will list it; the exception is the client
\* that had received as high a number from an earlier run of the hub.
THEOREM NothingSilentlyLost == StreamSpec => []NoSilentGap
<1>1. StreamInv => NoSilentGap
    <2> SUFFICES ASSUME StreamInv, NEW c \in Clients, NEW i \in published
                 PROVE  \/ Handled(c, i)
                        \/ i \in replay[c]
                        \/ i \in Queued(c) /\ conn[c] \in {"subscribed", "streaming"}
                        \/ i.seq > lastSeq[c] /\ conn[c] # "streaming"
        BY DEF NoSilentGap, Handled
    <2>1. i.seq <= lastSeq[c] => Handled(c, i)
        BY DEF StreamInv, ClientInv, BehindHandled
    <2>2. conn[c] = "streaming" => Handled(c, i) \/ i \in replay[c] \cup Queued(c)
        BY DEF StreamInv, ClientInv, NotComingHandled
    <2>3. i.seq \in Nat /\ lastSeq[c] \in Nat
        BY DEF StreamInv, StreamTypeOK, Item
    <2> QED
        BY <2>1, <2>2, <2>3
<1> QED
    BY <1>1, StreamInvariance, PTL

=============================================================================
