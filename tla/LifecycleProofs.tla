-------------------------- MODULE LifecycleProofs --------------------------
(***************************************************************************)
(* Proofs about HubLifecycle: the process around the hub adds nothing to   *)
(* what the hub does, closes the store only when no put is under way, and  *)
(* leaves everything in the table when it exits cleanly.                   *)
(***************************************************************************)
EXTENDS HubLifecycle, HubProofs

-----------------------------------------------------------------------------
LEMMA LifeStepsHub == [LifeNext]_allVars => [Next]_vars
<1> SUFFICES ASSUME LifeNext
             PROVE  Next \/ UNCHANGED vars
    BY DEF allVars
<1>1. CASE StartProcess
    BY <1>1 DEF StartProcess, Next
<1>2. CASE ListenFails \/ ServeFails \/ Killed \/ CleanExit \/ ForcedExit
    BY <1>2 DEF ListenFails, ServeFails, Killed, CleanExit, ForcedExit, End, Next
<1>3. CASE RequestClear \/ \E p \in Payloads : RequestPut(p)
    BY <1>3 DEF RequestClear, RequestPut, Next
<1>4. CASE PutEnds \/ \E item \in inflight : Deliver(item)
    BY <1>4 DEF PutEnds, Deliver, Next
<1>5. CASE Reaps \/ (Tick /\ UNCHANGED lifeVars)
    BY <1>5 DEF Reaps, Next
<1>6. CASE Listen \/ Dial \/ HangUp \/ RequestSlow \/ SlowEnds \/ Signal
           \/ CallShutdown \/ CloseStore
    BY <1>6 DEF Listen, Dial, HangUp, RequestSlow, SlowEnds, Signal, CallShutdown,
                CloseStore
<1>7. CASE \E c \in Streams :
              \/ OpenStream(c) \/ WriteClip(c) \/ WriteFails(c)
              \/ PeerVanishes(c) \/ LossReported(c)
              \/ SayBye(c) \/ ByeEnds(c) \/ Unsubscribe(c)
    BY <1>7 DEF OpenStream, WriteClip, PeerVanishes, LossReported, WriteFails, SayBye, ByeEnds,
                Unsubscribe, Return
<1> QED
    BY <1>1, <1>2, <1>3, <1>4, <1>5, <1>6, <1>7 DEF LifeNext

\* Every behaviour of the process is one of the hub of module Hub, so that all its
\* theorems hold of a hub that is started, stopped and killed as main does it.
THEOREM LifecycleImplementsHub == LifeSpec => Spec
<1>1. LifeInit => Init
    BY DEF LifeInit
<1> QED
    BY <1>1, LifeStepsHub, PTL DEF LifeSpec, Spec

-----------------------------------------------------------------------------
(***************************************************************************)
(* The parts of the process agree.                                         *)
(***************************************************************************)

LEMMA ShapeNext ==
    LifeTypeOK /\ ProcessShape /\ [LifeNext]_allVars => (LifeTypeOK /\ ProcessShape)'
<1> SUFFICES ASSUME LifeTypeOK, ProcessShape, LifeNext \/ UNCHANGED allVars
             PROVE  (LifeTypeOK /\ ProcessShape)'
    OBVIOUS
<1> USE DEF LifeTypeOK, ProcessShape
<1>1. CASE StartProcess
    BY <1>1 DEF StartProcess, Start, handlerVars
<1>2. CASE Listen \/ Signal \/ CallShutdown \/ CloseStore
    <2>1. UNCHANGED <<up, dialled, slow, handler, subs, offered, peer, exit>>
        BY <1>2 DEF Listen, Signal, CallShutdown, CloseStore, handlerVars, vars
    <2>2. /\ phase # "down" /\ phase' \in {"serving", "stopping", "draining", "closed"}
          /\ ready' \in BOOLEAN
          /\ ready' <=> phase' \in {"starting", "serving"}
        <3>1. CASE Listen
            BY <3>1 DEF Listen
        <3>2. CASE Signal
            BY <3>2 DEF Signal
        <3>3. CASE CallShutdown \/ CloseStore
            <4>1. /\ phase \in {"stopping", "draining"} /\ ready' = ready
                  /\ phase' \in {"draining", "closed"}
                BY <3>3 DEF CallShutdown, CloseStore
            <4> QED
                BY <4>1
        <3> QED
            BY <1>2, <3>1, <3>2, <3>3
    <2> QED
        BY <2>1, <2>2
<1>3. CASE Dial \/ HangUp \/ RequestSlow \/ SlowEnds
    <2>1. UNCHANGED <<up, phase, ready, handler, subs, offered, peer, exit>>
        BY <1>3 DEF Dial, HangUp, RequestSlow, SlowEnds, handlerVars, vars
    <2>2. /\ dialled' \in BOOLEAN /\ slow' \in BOOLEAN
          /\ phase \in {"down", "starting"} => ~ dialled' /\ ~ slow'
        BY <1>3 DEF Dial, Accepting, HangUp, RequestSlow, SlowEnds
    <2> QED
        BY <2>1, <2>2
<1>4. CASE ListenFails \/ ServeFails \/ Killed \/ CleanExit \/ ForcedExit
    BY <1>4 DEF ListenFails, ServeFails, Killed, CleanExit, ForcedExit, End, Crash,
                PeerStates, Nowhere
<1>5. CASE RequestClear
    BY <1>5 DEF RequestClear, Clear, handlerVars
<1>6. CASE \E p \in Payloads : RequestPut(p)
    <2>1. /\ UNCHANGED <<up, phase, ready, slow, handler, subs, offered, peer, exit>>
          /\ dialled' = FALSE
        BY <1>6 DEF RequestPut, PutNew, PutDuplicate, handlerVars, vars
    <2> QED
        BY <2>1
<1>7. CASE \E item \in inflight : Deliver(item)
    BY <1>7 DEF Deliver, PublishDeliver, serverVars
<1>8. CASE PutEnds \/ Reaps \/ (Tick /\ UNCHANGED lifeVars)
    BY <1>8 DEF PutEnds, Publish, PublishSave, PublishSaveFails, PublishEnd, Reaps, Reap,
                ReapStore, Tick, lifeVars, serverVars, handlerVars, memVars
<1>9. CASE \E c \in Streams :
              \/ OpenStream(c) \/ WriteClip(c) \/ WriteFails(c)
              \/ PeerVanishes(c) \/ LossReported(c)
              \/ SayBye(c) \/ ByeEnds(c) \/ Unsubscribe(c)
    <2>1. PICK c \in Streams :
              \/ OpenStream(c) \/ WriteClip(c) \/ WriteFails(c)
              \/ PeerVanishes(c) \/ LossReported(c)
              \/ SayBye(c) \/ ByeEnds(c) \/ Unsubscribe(c)
        BY <1>9
    <2>2. CASE OpenStream(c)
        BY <2>2 DEF OpenStream, PeerStates, vars, memVars
    <2>3. CASE WriteClip(c) \/ PeerVanishes(c) \/ LossReported(c)
        <3>1. /\ UNCHANGED <<up, phase, ready, dialled, slow, handler, subs, exit>>
              /\ offered' \subseteq offered
              /\ handler[c] # "none"
              /\ \E state \in PeerStates \ {"none"} : peer' = [peer EXCEPT ![c] = state]
            BY <2>3 DEF WriteClip, PeerVanishes, LossReported, serverVars, vars, memVars,
                        PeerStates
        <3> QED
            BY <3>1
    <2>4. CASE WriteFails(c) \/ ByeEnds(c)
        BY <2>4 DEF WriteFails, ByeEnds, Return, PeerStates, serverVars, vars, memVars
    <2>5. CASE SayBye(c)
        BY <2>5 DEF SayBye, ToldToStop, serverVars, vars, memVars
    <2>6. CASE Unsubscribe(c)
        BY <2>6 DEF Unsubscribe, MayUnsubscribe, serverVars, vars, memVars
    <2> QED
        BY <2>1, <2>2, <2>3, <2>4, <2>5, <2>6
<1>10. CASE UNCHANGED allVars
    BY <1>10 DEF allVars, vars, memVars, lifeVars, serverVars, handlerVars
<1> QED
    BY <1>1, <1>2, <1>3, <1>4, <1>5, <1>6, <1>7, <1>8, <1>9, <1>10
       DEF LifeNext

\* The process and the hub in it start and end together, and no handler outlives its
\* subscription, for any number of streams and runs.
THEOREM ProcessInShape == LifeSpec => [](LifeTypeOK /\ ProcessShape)
<1>1. LifeInit => LifeTypeOK /\ ProcessShape
    BY DEF LifeInit, Init, LifeTypeOK, ProcessShape, PeerStates, Nowhere
<1> QED
    BY <1>1, ShapeNext, PTL DEF LifeSpec

-----------------------------------------------------------------------------
LEMMA HubAlways == LifeSpec => [](HubInv /\ SourceInv /\ CounterInv)
<1>1. LifeInit => CounterInv
    BY DEF LifeInit, Init, CounterInv
<1>2. HubInv /\ CounterInv /\ [LifeNext]_allVars => CounterInv'
    BY CounterNext, LifeStepsHub
<1> QED
    BY <1>1, <1>2, LifecycleImplementsHub, SourceAlways, PTL DEF LifeSpec

-----------------------------------------------------------------------------
(***************************************************************************)
(* The stop.                                                               *)
(***************************************************************************)

\* Once the store is closed nothing is under way, and nothing can begin: a put
\* needs a connection, and none is accepted any more.
LifeInv == phase = "closed" => Quiet

LEMMA LifeInvNext == LifeInv /\ [LifeNext]_allVars => LifeInv'
<1> SUFFICES ASSUME LifeInv, LifeNext \/ UNCHANGED allVars
             PROVE  LifeInv'
    OBVIOUS
<1> USE DEF LifeInv, Quiet
<1>1. CASE StartProcess \/ Listen \/ Signal \/ CallShutdown
    BY <1>1 DEF StartProcess, Listen, Signal, CallShutdown
<1>2. CASE ListenFails \/ ServeFails \/ Killed \/ CleanExit \/ ForcedExit
    BY <1>2 DEF ListenFails, ServeFails, Killed, CleanExit, ForcedExit, End
<1>3. CASE Dial \/ HangUp \/ RequestSlow \/ SlowEnds
    BY <1>3 DEF Dial, Accepting, HangUp, RequestSlow, SlowEnds, vars, memVars
<1>4. CASE RequestClear \/ \E p \in Payloads : RequestPut(p)
    BY <1>4 DEF RequestClear, Clear, RequestPut
<1>5. CASE \E item \in inflight : Deliver(item)
    BY <1>5 DEF Deliver, PublishDeliver, serverVars
<1>6. CASE PutEnds
    BY <1>6 DEF PutEnds, Publish, PublishSave, PublishSaveFails, PublishEnd, lifeVars,
                serverVars
<1>7. CASE \E c \in Streams :
              \/ OpenStream(c) \/ WriteClip(c) \/ WriteFails(c)
              \/ PeerVanishes(c) \/ LossReported(c)
              \/ SayBye(c) \/ ByeEnds(c) \/ Unsubscribe(c)
    BY <1>7 DEF OpenStream, WriteClip, PeerVanishes, LossReported, WriteFails, SayBye, ByeEnds,
                Unsubscribe, Return, serverVars, vars, memVars
<1>8. CASE CloseStore
    BY <1>8 DEF CloseStore, vars, memVars
<1>9. CASE Reaps \/ (Tick /\ UNCHANGED lifeVars)
    BY <1>9 DEF Reaps, Reap, ReapStore, Tick, memVars, lifeVars, serverVars
<1>10. CASE UNCHANGED allVars
    BY <1>10 DEF allVars, vars, memVars, lifeVars, serverVars
<1> QED
    BY <1>1, <1>2, <1>3, <1>4, <1>5, <1>6, <1>7, <1>8, <1>9, <1>10 DEF LifeNext

LEMMA LifeAlways == LifeSpec => []LifeInv
<1>1. LifeInit => LifeInv
    BY DEF LifeInit, LifeInv
<1> QED
    BY <1>1, LifeInvNext, PTL DEF LifeSpec

\* No put is under way, and none can begin, when main closes the store, for any
\* number of puts, streams, runs and whatever the clients do.
THEOREM StoreClosedLast == LifeSpec => []StoreOutlivesPuts
<1>1. HubInv /\ LifeInv => StoreOutlivesPuts
    BY DEF HubInv, PublishTurn, LifeInv, Quiet, StoreOutlivesPuts
<1> QED
    BY <1>1, HubAlways, LifeAlways, PTL

\* A clean exit leaves in the table whatever the memory served, but for what
\* expired or failed to be saved, and the counter at h.seq.
THEOREM CleanExitSafe == LifeSpec => CleanExitKeepsAll
<1>1. HubInv /\ SourceInv /\ CounterInv /\ LifeInv /\ [LifeNext]_allVars =>
          [(up /\ ~ up' /\ exit' = "clean" /\ Persistent) =>
              /\ \A i \in history \ lost : i \in rows \/ MayBeExpired(i)
              /\ lost = {} => storeSeq = seq]_allVars
    <2> SUFFICES ASSUME HubInv, SourceInv, CounterInv, LifeInv, LifeNext,
                        up, ~ up', exit' = "clean", Persistent
                 PROVE  /\ \A i \in history \ lost : i \in rows \/ MayBeExpired(i)
                        /\ lost = {} => storeSeq = seq
        OBVIOUS
    <2>1. CleanExit
        <3>1. Next => Crash
            BY DEF Next, PutNew, PutDuplicate, PublishDeliver, Publish, PublishSave,
                   PublishSaveFails, PublishEnd, Clear, ClearFails, Reap, ReapStore, Tick,
                   Crash, Start, vars
        <3> QED
            BY <3>1 DEF LifeNext, StartProcess, Listen, ListenFails, ServeFails, Killed,
                        End, Dial, HangUp, RequestSlow, SlowEnds, RequestClear, Clear,
                        RequestPut, PutNew, PutDuplicate, Deliver, PublishDeliver, PutEnds,
                        Publish, PublishSave, PublishSaveFails, PublishEnd, OpenStream,
                        WriteClip, PeerVanishes, LossReported, WriteFails,
                        SayBye, ByeEnds, Unsubscribe, Return, Signal, CallShutdown,
                        CloseStore, ForcedExit, Reaps, Reap, ReapStore, Tick, Start, vars, memVars
    <2>2. inflight = {}
        BY <2>1 DEF CleanExit, LifeInv, Quiet
    <2>3. \A i \in history \ lost : i \in rows \/ MayBeExpired(i)
        BY <2>2 DEF SourceInv, HistoryCovered
    <2>4. seq <= publishedSeq
        BY <2>2 DEF CounterInv, HubInv, TypeOK
    <2>5. publishedSeq = seq
        BY <2>4 DEF HubInv, PublishTurn, TypeOK
    <2> QED
        BY <2>3, <2>5 DEF CounterInv
<1> QED
    BY <1>1, HubAlways, LifeAlways, PTL DEF LifeSpec, CleanExitKeepsAll

=============================================================================
