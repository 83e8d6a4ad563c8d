-------------------------- MODULE DiscoveryProofs --------------------------
(***************************************************************************)
(* What clipd's search for the hub guarantees, for every tailnet, every    *)
(* lifetime of the cache, every back-off and any number of moves.          *)
(*                                                                         *)
(* The inductive invariant is DiscoveryInv.  Each lemma below shows that   *)
(* one group of actions preserves one of its conjuncts.                    *)
(***************************************************************************)
EXTENDS Discovery, TLAPS

WorldStep ==
    \/ TailscaleChanges \/ HubStops \/ HubStarts
    \/ \E u \in Url : HubMoves(u)

BeginStep == (\E u \in Flags : StartGiven(u)) \/ StartDiscovering

LookUpStep == ReadStatusFails \/ FindsNoNode \/ FindsNode \/ ProbeTLS \/ ProbePlain

EndStep == KeepName \/ NameSelf \/ Build \/ Exit

DialStep == Connects \/ DialFails \/ DialTimesOut \/ ReadFails \/ Retry

LEMMA StepCases ==
    ASSUME [Next]_vars
    PROVE  WorldStep \/ BeginStep \/ LookUpStep \/ EndStep \/ DialStep \/ Tick \/ UNCHANGED vars
  BY DEF Next, WorldStep, BeginStep, LookUpStep, EndStep, DialStep

\* The back-off stays between its two limits.
LEMMA DoubledBounded ==
    ASSUME NEW d \in FirstDelay .. MaxDelay
    PROVE  Doubled(d) \in FirstDelay .. MaxDelay
  BY TimesAssumption DEF Doubled

\* What an address that answers is.
LEMMA AddressInUrl ==
    ASSUME dns \in Names, NEW s \in {"https", "http"}
    PROVE  Address(s) \in Url
  BY DEF Address, Url

LEMMA UrlIsNeither == Localhost \notin Url /\ None \notin Url
  BY NoneAssumption

USE TimesAssumption, MovesAssumption

-----------------------------------------------------------------------------

LEMMA TypePreserved ==
    ASSUME DiscoveryInv, [Next]_vars
    PROVE  DiscoveryTypeOK'
  <1> USE DEF DiscoveryInv, DiscoveryTypeOK, worldVars, cacheVars, startVars, streamVars, pastVars
  <1>1. CASE WorldStep
    <2>1. CASE TailscaleChanges
      BY <2>1 DEF TailscaleChanges
    <2>2. CASE HubStops
      BY <2>2 DEF HubStops
    <2>3. CASE HubStarts
      BY <2>3 DEF HubStarts, Url
    <2>4. CASE \E u \in Url : HubMoves(u)
      BY <2>4 DEF HubMoves
    <2>5. QED
      BY <1>1, <2>1, <2>2, <2>3, <2>4 DEF WorldStep
  <1>2. CASE BeginStep
    <2>1. StartFresh
      BY <1>2 DEF BeginStep, StartGiven, StartDiscovering
    <2>2. selfKnown' \in BOOLEAN /\ named' \in {None, "flag"}
      BY <2>1 DEF StartFresh
    <2>3. /\ pc' \in Stages /\ url' \in Url \cup {None}
          /\ excuses' \subseteq {"flag"}
      BY <1>2, FlagsAssumption DEF BeginStep, StartGiven, StartDiscovering, Stages
    <2>4. /\ UNCHANGED worldVars /\ life' = 0 /\ dns' = None /\ conn' = "off"
          /\ delay' = FirstDelay /\ wait' = 0 /\ took' = 0 /\ late' = 0
      BY <2>1 DEF StartFresh
    <2>5. QED
      BY <2>2, <2>3, <2>4
  <1>3. CASE LookUpStep
    <2>1. CASE ReadStatusFails
      BY <2>1 DEF ReadStatusFails, FallBack, Goes, Stages
    <2>2. CASE FindsNoNode
      BY <2>2 DEF FindsNoNode, ReadStatus, FallBack, Goes, Stages, Kept
    <2>3. CASE FindsNode
      BY <2>3 DEF FindsNode, ReadStatus, Goes, Stages, Kept
    <2>4. CASE ProbeTLS
      BY <2>4, AddressInUrl DEF ProbeTLS, RightSoFar, Resolved, Goes, Stages
    <2>5. CASE ProbePlain
      BY <2>5, AddressInUrl DEF ProbePlain, RightSoFar, Resolved, Preferred, Goes, Stages
    <2>6. QED
      BY <1>3, <2>1, <2>2, <2>3, <2>4, <2>5 DEF LookUpStep
  <1>4. CASE EndStep
    <2>1. CASE KeepName \/ NameSelf
      <3>1. selfKnown' \in BOOLEAN /\ life' \in {life, CacheTTL}
        BY <2>1 DEF KeepName, NameSelf, ReadStatus, Kept
      <3>2. named' \in {"flag", "tailnet", "system"}
        BY <2>1 DEF KeepName, NameSelf
      <3>3. Goes("build") /\ UNCHANGED <<dns, url, excuses, took>>
        BY <2>1 DEF KeepName, NameSelf
      <3>4. QED
        BY <3>1, <3>2, <3>3 DEF Goes, Stages
    <2>2. CASE Build
      BY <2>2 DEF Build, Goes, Stages
    <2>3. CASE Exit
      BY <2>3 DEF Exit, Stages
    <2>4. QED
      BY <1>4, <2>1, <2>2, <2>3 DEF EndStep
  <1>5. CASE DialStep
    <2>1. CASE Connects
      BY <2>1 DEF Connects, Other
    <2>2. CASE Retry
      BY <2>2 DEF Retry, Other
    <2>3. CASE BackOff
      BY <2>3, DoubledBounded DEF BackOff, Other
    <2>4. CASE DialFails /\ ~ BackOff
      BY <2>4 DEF DialFails, Other
    <2>5. QED
      BY <1>5, <2>1, <2>2, <2>3, <2>4 DEF DialStep, DialFails, DialTimesOut, ReadFails
  <1>6. CASE Tick
    BY <1>6 DEF Tick, Less
  <1>7. CASE UNCHANGED vars
    BY <1>7 DEF vars
  <1>8. QED
    BY StepCases, <1>1, <1>2, <1>3, <1>4, <1>5, <1>6, <1>7

-----------------------------------------------------------------------------

LEMMA RightSoFarPreserved ==
    ASSUME DiscoveryInv, [Next]_vars
    PROVE  RightSoFar'
  <1> USE DEF DiscoveryInv, RightSoFar, worldVars, cacheVars, startVars, streamVars, pastVars
  <1>1. CASE WorldStep
    BY <1>1 DEF WorldStep, TailscaleChanges, HubStops, HubStarts, HubMoves,
                DiscoveryTypeOK, Stages
  <1>2. CASE BeginStep
    BY <1>2 DEF BeginStep, StartGiven, StartDiscovering, StartFresh
  <1>3. CASE LookUpStep
    <2>1. CASE ReadStatusFails \/ FindsNoNode
      BY <2>1 DEF ReadStatusFails, FindsNoNode, ReadStatus, FallBack, Goes
    <2>2. CASE FindsNode
      BY <2>2 DEF FindsNode, ReadStatus, Goes, DiscoveryTypeOK
    <2>3. CASE ProbeTLS
      BY <2>3 DEF ProbeTLS, Answers, Resolved, Goes
    <2>4. CASE ProbePlain
      <3>1. hub = [scheme |-> hub.scheme, dns |-> hub.dns] /\ hub.scheme \in {"https", "http"}
        BY DEF DiscoveryTypeOK, Url
      <3>2. QED
        BY <2>4, <3>1 DEF ProbePlain, Answers, Address, Preferred, Resolved, Goes
    <2>5. QED
      BY <1>3, <2>1, <2>2, <2>3, <2>4 DEF LookUpStep
  <1>4. CASE EndStep
    BY <1>4 DEF EndStep, KeepName, NameSelf, ReadStatus, Kept, Build, Exit, Goes
  <1>5. CASE DialStep
    BY <1>5 DEF DialStep, Connects, DialFails, DialTimesOut, ReadFails, Retry, BackOff, Other
  <1>6. CASE Tick
    BY <1>6 DEF Tick
  <1>7. CASE UNCHANGED vars
    BY <1>7 DEF vars
  <1>8. QED
    BY StepCases, <1>1, <1>2, <1>3, <1>4, <1>5, <1>6, <1>7

-----------------------------------------------------------------------------

LEMMA CacheAgesPreserved ==
    ASSUME DiscoveryInv, [Next]_vars
    PROVE  CacheAges'
  <1> USE DEF DiscoveryInv, CacheAges, Discovered, worldVars, cacheVars, startVars, streamVars,
              pastVars
  <1>1. CASE WorldStep
    BY <1>1 DEF WorldStep, TailscaleChanges, HubStops, HubStarts, HubMoves
  <1>2. CASE BeginStep
    BY <1>2 DEF BeginStep, StartGiven, StartDiscovering, StartFresh
  <1>3. CASE LookUpStep
    <2>1. CASE ReadStatusFails \/ FindsNoNode
      BY <2>1, UrlIsNeither DEF ReadStatusFails, FindsNoNode, ReadStatus, FallBack, Goes
    <2>2. CASE FindsNode
      BY <2>2 DEF FindsNode, ReadStatus, Goes, Kept
    <2>3. CASE ProbeTLS
      BY <2>3 DEF ProbeTLS, Resolved, Goes
    <2>4. CASE ProbePlain
      BY <2>4 DEF ProbePlain, Resolved, Goes
    <2>5. QED
      BY <1>3, <2>1, <2>2, <2>3, <2>4 DEF LookUpStep
  <1>4. CASE EndStep
    BY <1>4 DEF EndStep, KeepName, NameSelf, ReadStatus, Kept, Build, Exit, Goes, DiscoveryTypeOK
  <1>5. CASE DialStep
    BY <1>5 DEF DialStep, Connects, DialFails, DialTimesOut, ReadFails, Retry, BackOff, Other
  <1>6. CASE Tick
    BY <1>6 DEF Tick, Less, DiscoveryTypeOK
  <1>7. CASE UNCHANGED vars
    BY <1>7 DEF vars
  <1>8. QED
    BY StepCases, <1>1, <1>2, <1>3, <1>4, <1>5, <1>6, <1>7

-----------------------------------------------------------------------------

LEMMA LateInWaitPreserved ==
    ASSUME DiscoveryInv, [Next]_vars
    PROVE  LateInWait'
  <1> USE DEF DiscoveryInv, DiscoveryTypeOK, LateInWait, Answers, worldVars, cacheVars, startVars,
              streamVars, pastVars
  <1>1. CASE WorldStep
    BY <1>1 DEF WorldStep, TailscaleChanges, HubStops, HubStarts, HubMoves
  <1>2. CASE BeginStep
    BY <1>2 DEF BeginStep, StartGiven, StartDiscovering, StartFresh
  <1>3. CASE LookUpStep
    BY <1>3 DEF LookUpStep, ReadStatusFails, FindsNoNode, FindsNode, ReadStatus, ProbeTLS,
                ProbePlain, FallBack, Resolved, Goes
  <1>4. CASE EndStep
    BY <1>4 DEF EndStep, KeepName, NameSelf, ReadStatus, Kept, Build, Exit, Goes
  <1>5. CASE DialStep
    BY <1>5 DEF DialStep, Connects, DialFails, DialTimesOut, ReadFails, Retry, BackOff, Other
  <1>6. CASE Tick
    BY <1>6 DEF Tick, Less
  <1>7. CASE UNCHANGED vars
    BY <1>7 DEF vars
  <1>8. QED
    BY StepCases, <1>1, <1>2, <1>3, <1>4, <1>5, <1>6, <1>7

-----------------------------------------------------------------------------

\* The inductive invariant holds in every state of every behaviour, with or without
\* fairness (cmd/clipd/main.go, internal/discover, internal/agent/wsclient.go).
THEOREM DiscoveryInvariance == Spec => []DiscoveryInv
  <1>1. Init => DiscoveryInv
    <2> SUFFICES ASSUME Init PROVE DiscoveryInv
      OBVIOUS
    <2>1. tailscaled \in BOOLEAN /\ hubUp \in BOOLEAN /\ selfKnown \in BOOLEAN
      BY DEF Init
    <2>2. nodes \subseteq Names
      BY DEF Init, Url
    <2>3. /\ hub \in Url /\ moves = 0 /\ life = 0 /\ pc = "off" /\ dns = None /\ url = None
          /\ named = None /\ conn = "off" /\ delay = FirstDelay /\ wait = 0
          /\ excuses = {} /\ took = 0 /\ late = 0
      BY DEF Init
    <2>4. QED
      BY <2>1, <2>2, <2>3 DEF DiscoveryInv, DiscoveryTypeOK, RightSoFar, CacheAges, Discovered,
                              LateInWait, Stages
  <1>2. DiscoveryInv /\ [Next]_vars => DiscoveryInv'
    BY TypePreserved, RightSoFarPreserved, CacheAgesPreserved, LateInWaitPreserved
       DEF DiscoveryInv
  <1>3. QED
    BY <1>1, <1>2, PTL DEF Spec

\* clipd runs with the address of the hub, unless one of the listed accidents misled
\* its start: HubURL of the resolver and the fallback of main.
THEOREM FoundTheHub == Spec => []FoundUnlessMisled
  <1>1. DiscoveryInv => FoundUnlessMisled
    BY DEF DiscoveryInv, RightSoFar, FoundUnlessMisled
  <1>2. QED
    BY <1>1, DiscoveryInvariance, PTL

\* The name of the node comes from the status that the search for the hub read, as
\* long as the cache keeps it.
THEOREM NamedByOneLookup == Spec => []OneLookupSuffices
  <1>1. DiscoveryInv => OneLookupSuffices
    BY DEF DiscoveryInv, CacheAges, Discovered, OneLookupSuffices
  <1>2. QED
    BY <1>1, DiscoveryInvariance, PTL

\* A hub that is up is out of reach of a clipd that has its address for no longer
\* than one dial and the longest delay of the back-off.
THEOREM Recovery == Spec => []RecoversWithinCap
  <1>1. DiscoveryInv => RecoversWithinCap
    BY DEF DiscoveryInv, DiscoveryTypeOK, LateInWait, RecoversWithinCap
  <1>2. QED
    BY <1>1, DiscoveryInvariance, PTL

=============================================================================
