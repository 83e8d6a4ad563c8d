----------------------------- MODULE Discovery -----------------------------
(***************************************************************************)
(* How clipd finds the hub and stays connected to it: the start of the     *)
(* program (cmd/clipd/main.go) with its resolver (internal/discover), and  *)
(* the reconnecting loop of its stream (internal/agent/wsclient.go).       *)
(* tailclip resolves the hub in the same way, for one request.             *)
(*                                                                         *)
(* The tailnet and the hub's place on it are external and change at any    *)
(* moment.  A node name stands for its DNS name, which the tailnet makes   *)
(* unique; HostName, which the resolver looks for, need not be: a hub that *)
(* is installed anew leaves its old node behind.                           *)
(*                                                                         *)
(* Time is in ticks.  A step of the program other than a wait takes none,  *)
(* but for the lookups, which take as long as they like.                   *)
(***************************************************************************)
EXTENDS Naturals, FiniteSets

CONSTANTS
    Names,           \* DNS names of tailnet nodes
    Flags,           \* addresses that --hub or CLIPHUB_HUB may give
    CacheTTL,        \* ticks a status is cached, 30 s
    FirstDelay, MaxDelay,   \* the back-off: 1 s, doubled up to 60 s
    DialTimeout,     \* ticks until a dial without answer fails, 30 s
    MaxMoves,        \* bound: how often the hub moves or changes its scheme
    None, Localhost  \* no address, and http://localhost:8080

Url == [scheme : {"https", "http"}, dns : Names]

ASSUME FlagsAssumption == Flags \subseteq Url
ASSUME TimesAssumption ==
    /\ CacheTTL \in Nat \ {0} /\ FirstDelay \in Nat \ {0}
    /\ MaxDelay \in Nat /\ FirstDelay <= MaxDelay /\ DialTimeout \in Nat
ASSUME MovesAssumption == MaxMoves \in Nat
ASSUME NoneAssumption == None \notin Url \cup Names /\ Localhost \notin Url \cup {None}

VARIABLES
    \* The tailnet.
    tailscaled,      \* does "tailscale status" answer?
    nodes,           \* the nodes whose HostName is that of the hub
    hub,             \* the address at which the hub listens, when it runs
    hubUp,
    moves,
    \* The resolver.
    life,            \* ticks until the cached status expires; 0 when there is none
    selfKnown,       \* does the status that was read last name this node?
    \* clipd.
    pc,              \* how far its start is
    dns,             \* the node that findHubDNS chose
    url,             \* *hubURL
    named,           \* *nodeName: by --node, by the tailnet, or by the operating system
    conn,            \* the stream
    delay,           \* the back-off of Run
    wait,            \* ticks left of a delay or of a dial
    \* What the properties need to remember of the past:
    excuses,         \* what the start met that may have misled it
    took,            \* ticks since the status was read, up to CacheTTL
    late             \* ticks in which the right hub was up and clipd was not connected

cacheVars == <<life, selfKnown>>
worldVars == <<tailscaled, nodes, hub, hubUp, moves>>
startVars == <<pc, dns, url, named>>
streamVars == <<conn, delay, wait>>
pastVars == <<excuses, took, late>>
vars == <<worldVars, cacheVars, startVars, streamVars, pastVars>>

Stages == {"off", "status", "probeTLS", "probePlain", "self", "build", "running"}

DiscoveryTypeOK ==
    /\ tailscaled \in BOOLEAN /\ hubUp \in BOOLEAN
    /\ nodes \subseteq Names /\ hub \in Url /\ moves \in 0 .. MaxMoves
    /\ life \in 0 .. CacheTTL /\ took \in 0 .. CacheTTL
    /\ pc \in Stages /\ dns \in Names \cup {None} /\ url \in Url \cup {None, Localhost}
    /\ selfKnown \in BOOLEAN
    /\ named \in {None, "flag", "tailnet", "system"}
    /\ conn \in {"off", "dialling", "on", "half", "waiting"}
    /\ delay \in FirstDelay .. MaxDelay /\ wait \in Nat
    /\ excuses \subseteq {"flag", "noStatus", "noNode", "otherNode", "noAnswer", "moved"}
    /\ late \in Nat

Init ==
    /\ tailscaled \in BOOLEAN /\ hubUp \in BOOLEAN
    /\ hub \in Url /\ nodes \in {{}, {hub.dns}}
    /\ moves = 0
    /\ life = 0 /\ selfKnown = FALSE
    /\ pc = "off" /\ dns = None /\ url = None /\ named = None
    /\ conn = "off" /\ delay = FirstDelay /\ wait = 0
    /\ excuses = {} /\ took = 0 /\ late = 0

Answers(u) == hubUp /\ u = hub

-----------------------------------------------------------------------------
\* The tailnet changes.

TailscaleChanges ==
    /\ tailscaled' = ~ tailscaled
    /\ UNCHANGED <<nodes, hub, hubUp, moves, cacheVars, startVars, streamVars, pastVars>>

\* The hub ends: its peers see the connection close, or hear nothing any more.
HubStops ==
    /\ hubUp
    /\ hubUp' = FALSE
    /\ IF conn = "on" THEN conn' \in {"off", "half"} ELSE UNCHANGED conn
    /\ late' = 0
    /\ UNCHANGED <<tailscaled, nodes, hub, moves, cacheVars, startVars, delay, wait, excuses, took>>

\* The hub starts, as a node of the tailnet.
HubStarts ==
    /\ ~ hubUp
    /\ hubUp' = TRUE
    /\ nodes' = nodes \cup {hub.dns}
    /\ UNCHANGED <<tailscaled, hub, moves, cacheVars, startVars, streamVars, pastVars>>

\* HTTPS is switched on or off for the tailnet, or the hub is installed anew under
\* another name; the old node may stay listed.
HubMoves(u) ==
    /\ ~ hubUp
    /\ moves < MaxMoves
    /\ u # hub
    /\ hub' = u
    /\ moves' = moves + 1
    /\ nodes' \in {nodes, nodes \ {hub.dns}}
    /\ excuses' = IF pc \in {"off", "status"} THEN excuses ELSE excuses \cup {"moved"}
    /\ UNCHANGED <<tailscaled, hubUp, cacheVars, startVars, streamVars, took, late>>

-----------------------------------------------------------------------------
\* The start of clipd.

\* With --node or without.
StartFresh ==
    /\ pc = "off"
    /\ life' = 0 /\ selfKnown' = FALSE
    /\ dns' = None /\ named' \in {None, "flag"}
    /\ conn' = "off" /\ delay' = FirstDelay /\ wait' = 0
    /\ took' = 0 /\ late' = 0
    /\ UNCHANGED worldVars

\* The address is given: nothing is resolved but the name of this node, if that is not
\* given as well.
StartGiven(u) ==
    /\ StartFresh
    /\ pc' = "self" /\ url' = u /\ excuses' = {"flag"}

StartDiscovering ==
    /\ StartFresh
    /\ pc' = "status" /\ url' = None /\ excuses' = {}

Goes(stage) == pc' = stage /\ UNCHANGED <<worldVars, streamVars, late>>

\* Mutant: a status is not kept.
NotKept == 0

\* The lifetime of a status that was just read.
Kept == CacheTTL

\* A status is read and cached.  It may have no name for this node, as long as that is
\* not set up.
ReadStatus ==
    /\ tailscaled
    /\ life' = Kept
    /\ selfKnown' \in BOOLEAN

\* HubURL fails: an address that works only next to a hub in development mode.
FallBack(reason) ==
    /\ Goes("self")
    /\ url' = Localhost
    /\ excuses' = excuses \cup {reason}
    /\ took' = 0
    /\ UNCHANGED <<dns, named>>

\* What failed is not cached.
ReadStatusFails ==
    /\ pc = "status"
    /\ ~ tailscaled
    /\ FallBack("noStatus")
    /\ UNCHANGED cacheVars

FindsNoNode ==
    /\ pc = "status"
    /\ ReadStatus /\ nodes = {}
    /\ FallBack("noNode")

\* findHubDNS: the first match in the random order of a Go map.
FindsNode ==
    /\ pc = "status"
    /\ ReadStatus
    /\ dns' \in nodes
    /\ Goes("probeTLS")
    /\ excuses' = IF nodes = {hub.dns} THEN excuses ELSE excuses \cup {"otherNode"}
    /\ took' = 0
    /\ UNCHANGED <<url, named>>

Address(scheme) == [scheme |-> scheme, dns |-> dns]

\* The end of HubURL.
Resolved(u) ==
    /\ Goes("self")
    /\ url' = u
    /\ UNCHANGED <<cacheVars, dns, named, took>>

ProbeTLS ==
    /\ pc = "probeTLS"
    /\ IF Answers(Address("https"))
       THEN Resolved(Address("https"))
       ELSE Goes("probePlain") /\ UNCHANGED <<cacheVars, dns, url, named, took>>
    /\ UNCHANGED excuses

\* Mutant: the plain probe is the last word.
PreferredPlain == "http"

\* "Preserve the existing bias toward HTTPS".
Preferred == "https"

ProbePlain ==
    /\ pc = "probePlain"
    /\ IF Answers(Address("http"))
       THEN Resolved(Address("http")) /\ UNCHANGED excuses
       ELSE /\ Resolved(Address(Preferred))
            /\ excuses' = IF hub.scheme = "http" THEN excuses \cup {"noAnswer"} ELSE excuses

\* --node: nothing is looked up.
KeepName ==
    /\ pc = "self" /\ named = "flag"
    /\ Goes("build")
    /\ UNCHANGED <<cacheVars, dns, url, named, excuses, took>>

\* SelfName: from the cache, or by a second read.  If that fails, or if the status has
\* no name for this node, the operating system's is taken.
NameSelf ==
    /\ pc = "self" /\ named # "flag"
    /\ Goes("build")
    /\ \/ life > 0 /\ UNCHANGED cacheVars
          /\ named' = IF selfKnown THEN "tailnet" ELSE "system"
       \/ life = 0 /\ ReadStatus
          /\ named' = IF selfKnown' THEN "tailnet" ELSE "system"
       \/ life = 0 /\ ~ tailscaled /\ UNCHANGED cacheVars
          /\ named' = "system"
    /\ UNCHANGED <<dns, url, excuses, took>>

\* The client and the agent are built with the address there is now.
Build ==
    /\ pc = "build"
    /\ Goes("running")
    /\ UNCHANGED <<cacheVars, dns, url, named, excuses, took>>

\* A signal, or an error of the start.
Exit ==
    /\ pc # "off"
    /\ pc' = "off"
    /\ conn' = "off" /\ late' = 0
    /\ UNCHANGED <<worldVars, cacheVars, dns, url, named, delay, wait, excuses, took>>

-----------------------------------------------------------------------------
\* WSClient.Run.

\* Mutant: the back-off has no limit but that of an int.
DoubledForEver(d) == 2 * d

Doubled(d) == IF 2 * d < MaxDelay THEN 2 * d ELSE MaxDelay

Other == <<worldVars, cacheVars, startVars, excuses, took>>

\* connect returns an error, as it always does: the loop sleeps.
BackOff ==
    /\ conn' = "waiting"
    /\ wait' = delay
    /\ delay' = Doubled(delay)
    /\ UNCHANGED <<Other, late>>

\* connect, when the hub is there; an earlier attempt may still get through.
Connects ==
    /\ pc = "running" /\ conn \in {"off", "dialling"}
    /\ Answers(url)
    /\ conn' = "on" /\ wait' = 0
    /\ late' = 0
    /\ UNCHANGED <<Other, delay>>

\* The connection is refused, or nobody answers.
DialFails ==
    /\ pc = "running" /\ conn = "off"
    /\ ~ Answers(url)
    /\ \/ BackOff
       \/ conn' = "dialling" /\ wait' = DialTimeout /\ UNCHANGED <<Other, delay, late>>

DialTimesOut ==
    /\ conn = "dialling" /\ wait = 0
    /\ BackOff

\* Read returns an error: the network, or the keep-alive of TCP.
ReadFails ==
    /\ conn \in {"on", "half"}
    /\ BackOff

\* Mutant: the loop waits for the context alone.
NeverElapsed == FALSE

\* time.After(backoff)
Elapsed == wait = 0

Retry ==
    /\ conn = "waiting"
    /\ Elapsed
    /\ conn' = "off"
    /\ UNCHANGED <<Other, delay, wait, late>>

Less(t) == IF t > 0 THEN t - 1 ELSE 0

\* The time that a client takes to learn that its connection is dead is not counted
\* as late.
Tick ==
    /\ pc # "off"
    /\ pc = "running" => conn \in {"on", "half"} \/ wait > 0
    /\ life' = Less(life) /\ wait' = Less(wait)
    /\ took' = IF took < CacheTTL THEN took + 1 ELSE took
    /\ late' = IF pc = "running" /\ Answers(url) /\ conn \notin {"on", "half"}
               THEN late + 1 ELSE 0
    /\ UNCHANGED <<worldVars, selfKnown, startVars, conn, delay, excuses>>

Next ==
    \/ TailscaleChanges \/ HubStops \/ HubStarts
    \/ \E u \in Url : HubMoves(u)
    \/ \E u \in Flags : StartGiven(u)
    \/ StartDiscovering
    \/ ReadStatusFails \/ FindsNoNode \/ FindsNode \/ ProbeTLS \/ ProbePlain
    \/ KeepName \/ NameSelf \/ Build \/ Exit
    \/ Connects \/ DialFails \/ DialTimesOut \/ ReadFails \/ Retry
    \/ Tick

Spec == Init /\ [][Next]_vars

\* The program runs, its timers fire and its probes time out; "tailscale status"
\* returns; the keep-alive of TCP finds a dead connection.
FairSpec ==
    /\ Spec
    /\ WF_vars(ReadStatusFails \/ FindsNoNode \/ FindsNode)
    /\ WF_vars(ProbeTLS \/ ProbePlain \/ KeepName \/ NameSelf \/ Build)
    /\ WF_vars(Connects \/ DialFails \/ DialTimesOut \/ Retry)
    /\ WF_vars(conn = "half" /\ ReadFails)
    /\ WF_vars(Tick)

-----------------------------------------------------------------------------
(***************************************************************************)
(* What the program promises.                                              *)
(***************************************************************************)

\* clipd runs with the address of the hub, unless something misled its start: an
\* address given by hand, no status, no node or two of that name, a hub without
\* TLS that did not answer, or a hub that moved since the start began.
FoundUnlessMisled == pc = "running" => url = hub \/ excuses # {}

\* A clipd that found the hub on the tailnet and was given no name is known to itself
\* by its name there, if the status in which it found the hub has one, although
\* tailscaled may go away between the two lookups of the start, if they take less than
\* the cache keeps.
OneLookupSuffices ==
    (pc = "running" /\ url \in Url /\ "flag" \notin excuses /\ took < CacheTTL)
        => named = "flag" \/ named = (IF selfKnown THEN "tailnet" ELSE "system")

\* A hub that is up at the address clipd has is connected to within the longest
\* delay and one dial, however often the connection broke before: the delay is
\* never reset, and never above its limit.
RecoversWithinCap == late <= DialTimeout + MaxDelay

\* clipd that started and has the right address connects, if the hub stays up.
ConnectsInTheEnd ==
    (pc # "off" /\ hubUp) ~> (conn = "on" \/ ~ hubUp \/ pc = "off" \/ excuses # {})

-----------------------------------------------------------------------------
(***************************************************************************)
(* The inductive invariant behind the safety properties.                   *)
(***************************************************************************)

\* What the start has so far is the hub's, or the excuse is known.
RightSoFar ==
    /\ pc \in {"probeTLS", "probePlain"} => dns \in Names /\ (dns = hub.dns \/ excuses # {})
    /\ pc \in {"self", "build", "running"} => url = hub \/ excuses # {}

\* Between the two lookups of a start that found a node the cache ages with the
\* time it took; after the second the name is known.
Discovered == "flag" \notin excuses /\ (pc \in {"self", "build", "running"} => url \in Url)

CacheAges ==
    Discovered =>
        /\ pc \in {"probeTLS", "probePlain", "self"} => life + took = CacheTTL
        /\ pc \in {"build", "running"} /\ took < CacheTTL =>
               named = "flag" \/ named = (IF selfKnown THEN "tailnet" ELSE "system")

\* The hub is late only to a clipd that has its address and waits for a delay or a
\* dial that runs down meanwhile; a dial begins when the hub is not late.
LateInWait ==
    /\ late > 0 => pc = "running" /\ Answers(url) /\ conn \notin {"on", "half"}
    /\ late + wait <= DialTimeout + MaxDelay
    /\ conn = "dialling" => late + wait <= DialTimeout

DiscoveryInv ==
    /\ DiscoveryTypeOK
    /\ RightSoFar
    /\ CacheAges
    /\ LateInWait

=============================================================================
