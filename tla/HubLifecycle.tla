---------------------------- MODULE HubLifecycle ----------------------------
(***************************************************************************)
(* The process around the hub (cmd/cliphub/main.go) with its observer      *)
(* (internal/hub/observer.go): start, service, stop, and the stream        *)
(* handlers that the stop has to end.                                      *)
(*                                                                         *)
(* The process is the hub of module Hub: its puts, publishes and reaps are *)
(* those of Hub, with the condition that a request needs a connection.  An *)
(* end of the process, clean or not, is Crash for the hub: the difference  *)
(* is what it may leave undone.                                            *)
(*                                                                         *)
(* http.Server is external.  Shutdown closes the listener and waits until  *)
(* every connection is idle, one that was accepted and has not sent its    *)
(* request included; hijacked connections, the streams, are not waited for.*)
(***************************************************************************)
EXTENDS Hub

CONSTANTS Streams    \* identities of stream connections

VARIABLES
    phase,           \* where main is
    ready,           \* obs.ready; shutdownCtx is done when it is FALSE
    dialled,         \* is there an accepted connection without a request yet?
    slow,            \* is a request other than a put under way, such as a long upload?
    handler,         \* the stream handler of each connection
    subs,            \* h.subs
    offered,         \* the streams with a clip to write, of the catch-up or the channel
    peer,            \* what has become of the peer of each connection
    exit             \* how the last process ended

serverVars == <<phase, ready, dialled, slow>>
handlerVars == <<handler, subs, offered, peer>>
lifeVars == <<serverVars, handlerVars, exit>>
allVars == <<vars, lifeVars>>

\* A peer is "there" or it is "gone".  The hub's system has to find out by itself: it
\* is "awaited" while something written to it is not acknowledged, and "lost" once the
\* system has given up or the other side has answered with a reset.
PeerStates == {"none", "there", "gone", "awaited", "lost"}

LifeTypeOK ==
    /\ phase \in {"down", "starting", "serving", "stopping", "draining", "closed"}
    /\ ready \in BOOLEAN /\ dialled \in BOOLEAN /\ slow \in BOOLEAN
    /\ handler \in [Streams -> {"none", "live", "closing"}]
    /\ subs \subseteq Streams /\ offered \subseteq Streams
    /\ peer \in [Streams -> PeerStates]
    /\ exit \in {"none", "clean", "failed", "killed"}

Nowhere == [c \in Streams |-> "none"]

LifeInit ==
    /\ Init
    /\ phase = "down" /\ ready = FALSE
    /\ dialled = FALSE /\ slow = FALSE
    /\ handler = Nowhere /\ peer = Nowhere
    /\ subs = {} /\ offered = {}
    /\ exit = "none"

-----------------------------------------------------------------------------
\* main: the start.

\* hub.New, the observer and the routes; the last run of the hub may end too.
StartProcess ==
    /\ phase = "down"
    /\ run + 1 < MaxRuns
    /\ Start
    /\ phase' = "starting"
    /\ ready' = TRUE
    /\ UNCHANGED <<dialled, slow, handlerVars, exit>>

\* net.Listen, or tsnet with or without TLS; then Notify and Serve.
Listen ==
    /\ phase = "starting"
    /\ phase' = "serving"
    /\ UNCHANGED <<vars, ready, dialled, slow, handlerVars, exit>>

\* The process is gone, with all its connections.
End(how) ==
    /\ Crash
    /\ phase' = "down" /\ ready' = FALSE
    /\ dialled' = FALSE /\ slow' = FALSE
    /\ handler' = Nowhere /\ peer' = Nowhere
    /\ subs' = {} /\ offered' = {}
    /\ exit' = how

\* os.Exit(1): no address to listen on, or Serve returns an error.
ListenFails == phase = "starting" /\ End("failed")
ServeFails == phase = "serving" /\ End("failed")

\* SIGKILL, or a power failure.
Killed == phase # "down" /\ End("killed")

-----------------------------------------------------------------------------
\* Connections and requests.

Accepting == phase \in {"serving", "stopping"}

Dial ==
    /\ Accepting
    /\ ~ dialled
    /\ dialled' = TRUE
    /\ UNCHANGED <<vars, phase, ready, slow, handlerVars, exit>>

\* The client leaves, or the server closes what is idle for long.
HangUp ==
    /\ dialled
    /\ dialled' = FALSE
    /\ UNCHANGED <<vars, phase, ready, slow, handlerVars, exit>>

\* POST: the put up to its publish.
RequestPut(p) ==
    /\ dialled
    /\ PutNew(p) \/ PutDuplicate(p)
    /\ dialled' = FALSE
    /\ UNCHANGED <<phase, ready, slow, handlerVars, exit>>

RequestClear ==
    /\ dialled
    /\ Clear
    /\ dialled' = FALSE
    /\ UNCHANGED <<phase, ready, slow, handlerVars, exit>>

\* A request whose body or answer takes its time: the server limits the headers
\* only.
RequestSlow ==
    /\ dialled
    /\ ~ slow
    /\ dialled' = FALSE /\ slow' = TRUE
    /\ UNCHANGED <<vars, phase, ready, handlerVars, exit>>

SlowEnds ==
    /\ slow
    /\ slow' = FALSE
    /\ UNCHANGED <<vars, phase, ready, dialled, handlerVars, exit>>

\* publish: the fan-out to the subscribers there are.  Some may have had the clip in
\* their catch-up already: for those there is nothing to write.
Deliver(item) ==
    /\ PublishDeliver(item)
    /\ \E replayed \in SUBSET subs : offered' = offered \cup (subs \ replayed)
    /\ UNCHANGED <<serverVars, handler, subs, peer, exit>>

PutEnds == Publish /\ UNCHANGED lifeVars

-----------------------------------------------------------------------------
\* The stream handler.

\* websocket.Accept takes the connection from the server; RecordWSConnect, Subscribe,
\* and the catch-up, if it asks for one and there are clips for it.
OpenStream(c) ==
    /\ dialled
    /\ handler[c] = "none" /\ c \notin subs
    /\ dialled' = FALSE
    /\ handler' = [handler EXCEPT ![c] = "live"]
    /\ peer' = [peer EXCEPT ![c] = "there"]
    /\ subs' = subs \cup {c}
    /\ \/ offered' = offered
       \/ history # {} /\ offered' = offered \cup {c}
    /\ UNCHANGED <<vars, phase, ready, slow, exit>>

\* The last of the writes for which there was room in the system's buffer.  It
\* succeeds also when the peer is gone, as long as the system has not noticed.  A peer
\* that does not read may keep the handler in a write for ever.
WriteClip(c) ==
    /\ handler[c] = "live"
    /\ c \in offered /\ peer[c] # "lost"
    /\ offered' = offered \ {c}
    /\ peer' = [peer EXCEPT ![c] = IF @ = "there" THEN @ ELSE "awaited"]
    /\ UNCHANGED <<vars, serverVars, handler, subs, exit>>

\* The peer is gone, with all that was written to it or without some of it.  The
\* handler reads nothing from the connection and does not notice.
PeerVanishes(c) ==
    /\ peer[c] = "there"
    /\ \E state \in {"gone", "awaited"} : peer' = [peer EXCEPT ![c] = state]
    /\ UNCHANGED <<vars, serverVars, handler, subs, offered, exit>>

\* The system of the hub learns of the loss: a reset comes back, what was written is
\* not acknowledged in time, or, with nothing written, a keep-alive probe is not
\* answered.  The next write will fail.
LossReported(c) ==
    /\ peer[c] \in {"gone", "awaited"}
    /\ peer' = [peer EXCEPT ![c] = "lost"]
    /\ UNCHANGED <<vars, serverVars, handler, subs, offered, exit>>

\* The handler returns: RecordWSDisconnect, sub.cancel, CloseNow.
Return(c) ==
    /\ handler' = [handler EXCEPT ![c] = "none"]
    /\ peer' = [peer EXCEPT ![c] = "none"]
    /\ UNCHANGED <<vars, serverVars, subs, offered, exit>>

\* Is ctx of the handler done?
ToldToStop(c) == handler[c] = "live" /\ ~ ready

\* A write fails when the system has reported the loss of the peer, or when ctx is
\* done.
WriteFails(c) ==
    /\ handler[c] = "live"
    /\ c \in offered
    /\ peer[c] = "lost" \/ ToldToStop(c)
    /\ Return(c)

\* ctx.Done: Close says good-bye and waits a while for the peer's.
SayBye(c) ==
    /\ ToldToStop(c)
    /\ handler' = [handler EXCEPT ![c] = "closing"]
    /\ UNCHANGED <<vars, serverVars, subs, offered, peer, exit>>

ByeEnds(c) == handler[c] = "closing" /\ Return(c)

\* Mutant: only a shutdown cancels the context of a subscriber.
MayUnsubscribeLate(c) == handler[c] = "none" /\ ~ ready

MayUnsubscribe(c) == handler[c] = "none"

\* The goroutine of Subscribe, once the context of the handler is done.
Unsubscribe(c) ==
    /\ c \in subs
    /\ MayUnsubscribe(c)
    /\ subs' = subs \ {c}
    /\ offered' = offered \ {c}
    /\ UNCHANGED <<vars, serverVars, handler, peer, exit>>

-----------------------------------------------------------------------------
\* main: the stop.

\* SIGINT or SIGTERM: BeginShutdown.
Signal ==
    /\ phase = "serving"
    /\ phase' = "stopping"
    /\ ready' = FALSE
    /\ UNCHANGED <<vars, dialled, slow, handlerVars, exit>>

\* server.Shutdown closes the listener; it returns when nothing is under way.
CallShutdown ==
    /\ phase = "stopping"
    /\ phase' = "draining"
    /\ UNCHANGED <<vars, ready, dialled, slow, handlerVars, exit>>

\* Mutant: server.Close instead of server.Shutdown.
AnyMoment == TRUE

\* No connection is new or active.
Quiet == ~ dialled /\ ~ slow /\ inflight = {}

\* main returns: its deferred calls close the store.
CloseStore ==
    /\ phase = "draining"
    /\ Quiet
    /\ phase' = "closed"
    /\ UNCHANGED <<vars, ready, dialled, slow, handlerVars, exit>>

CleanExit == phase = "closed" /\ End("clean")

\* Mutant: Shutdown is given a context without a deadline.
NeverExpires == FALSE

\* The five seconds of shutdownCtx may be over at any moment of the wait.
MayExpire == phase = "draining"

\* Shutdown fails: Close, os.Exit(1); the store is not closed.
ForcedExit == MayExpire /\ End("failed")

\* The reaper and its goroutines go on until the process ends; a statement on the
\* closed store fails and is logged.
Reaps ==
    /\ \/ \E last \in 0 .. seq : Reap(last)
       \/ phase # "closed" /\ \E now \in reaping : ReapStore(now)
    /\ UNCHANGED lifeVars

-----------------------------------------------------------------------------
LifeNext ==
    \/ StartProcess \/ Listen \/ ListenFails \/ ServeFails \/ Killed
    \/ Dial \/ HangUp \/ RequestSlow \/ SlowEnds
    \/ RequestClear
    \/ \E p \in Payloads : RequestPut(p)
    \/ \E item \in inflight : Deliver(item)
    \/ PutEnds
    \/ \E c \in Streams :
          \/ OpenStream(c) \/ WriteClip(c) \/ WriteFails(c)
          \/ PeerVanishes(c) \/ LossReported(c)
          \/ SayBye(c) \/ ByeEnds(c) \/ Unsubscribe(c)
    \/ Signal \/ CallShutdown \/ CloseStore \/ CleanExit \/ ForcedExit
    \/ Reaps
    \/ Tick /\ UNCHANGED lifeVars

LifeSpec == LifeInit /\ [][LifeNext]_allVars

\* Goroutines that can run do run, Close of a stream gives up on its peer after
\* some seconds, the timer of shutdownCtx fires, TCP does not wait for ever for an
\* acknowledgement.  With nothing left to acknowledge a write has room and a write
\* that cannot succeed fails.  Nothing is assumed of clients: they may leave a
\* connection or an upload open for ever, and read nothing of what is written.
LifeFairSpec ==
    /\ LifeSpec
    /\ WF_allVars(\E item \in inflight : Deliver(item))
    /\ WF_allVars(PutEnds)
    /\ WF_allVars(CallShutdown)
    /\ WF_allVars(CloseStore \/ ForcedExit)
    /\ WF_allVars(CleanExit)
    /\ \A c \in Streams :
          /\ WF_allVars(peer[c] = "gone" /\ WriteClip(c))
          /\ WF_allVars(peer[c] = "awaited" /\ LossReported(c))
          /\ WF_allVars(WriteFails(c))
          /\ WF_allVars(SayBye(c))
          /\ WF_allVars(ByeEnds(c))
          /\ WF_allVars(Unsubscribe(c))

-----------------------------------------------------------------------------
(***************************************************************************)
(* What a stop promises.                                                   *)
(***************************************************************************)

\* When the store is closed no put is under way or can still begin: one that came
\* over a connection accepted just before the shutdown is waited for as well.
StoreOutlivesPuts == phase = "closed" => inflight = {} /\ saving = Null /\ ~ dialled

\* A clean exit leaves in the table whatever the memory serves, but for what
\* expired or failed to be saved, and the counter of the table at h.seq, unless the
\* save that should have raised it failed.
CleanExitKeepsAll ==
    [][(up /\ ~ up' /\ exit' = "clean" /\ Persistent) =>
          /\ \A i \in history \ lost : i \in rows \/ MayBeExpired(i)
          /\ lost = {} => storeSeq = seq]_allVars

\* The process ends after the signal, also when a client never finishes its
\* request and whatever the peers of the streams do.
SignalEndsProcess == (phase = "stopping") ~> (phase = "down")

\* Two clips at the latest rid the hub of a stream whose peer is gone without a word:
\* with the first that is to be written to it its loss comes out, though the write
\* succeeds, and any other from then on ends its handler and its subscription.  Until a
\* clip comes the handler does not notice.
DeadStreamIsForgotten ==
    \A c \in Streams :
        /\ (c \in offered /\ peer[c] \in {"gone", "awaited"}) ~>
               (peer[c] = "lost" \/ c \notin subs)
        /\ (c \in offered /\ peer[c] = "lost") ~> (c \notin subs)

\* What the parts of the process have in common: the hub is up as long as the process
\* is, readiness lasts until the signal, and every handler that runs is a subscriber.
ProcessShape ==
    /\ up <=> phase # "down"
    /\ ready <=> phase \in {"starting", "serving"}
    /\ phase \in {"down", "starting"} => ~ dialled /\ ~ slow /\ subs = {}
    /\ \A c \in Streams : handler[c] # "none" => c \in subs
    /\ \A c \in Streams : peer[c] = "none" <=> handler[c] = "none"
    /\ offered \subseteq subs

=============================================================================
