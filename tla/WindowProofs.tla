---------------------------- MODULE WindowProofs ----------------------------
(***************************************************************************)
(* That the hub serves what a restart would load, and shows a clip as long *)
(* as it has one, for any number of contents, any depth and any faults.    *)
(*                                                                         *)
(* Both need that the TTL was not changed between two starts: a later clip *)
(* then never expires before an earlier one, so that expiry, like the cut  *)
(* to the depth of the history, takes the clips from the low end of seq.   *)
(* The inductive invariant is WindowInv, with HubInv and SourceInv.        *)
(***************************************************************************)
EXTENDS HubProofs

OneTTL == \A s, t \in TTLs : s = t

-----------------------------------------------------------------------------
(***************************************************************************)
(* Ranks.                                                                  *)
(***************************************************************************)

\* The rank of a clip is no higher in a smaller set.
LEMMA RankInPart ==
    ASSUME NEW S, NEW T, NEW i, NEW n \in Nat, Above(S, i) \subseteq T,
           IsFiniteSet(T), Cardinality(T) < n
    PROVE  Cardinality(Above(S, i)) < n
<1>1. /\ Cardinality(Above(S, i)) <= Cardinality(T)
      /\ Cardinality(Above(S, i)) \in Nat /\ Cardinality(T) \in Nat
    BY FS_Subset, FS_CardinalityType
<1> QED
    BY <1>1

LEMMA AboveIsFinite ==
    ASSUME NEW S, NEW i, IsFiniteSet(S)
    PROVE  IsFiniteSet(Above(S, i))
BY FS_Subset DEF Above

LEMMA NewestByRank ==
    ASSUME NEW n, NEW S, NEW i
    PROVE  i \in Newest(n, S) <=> i \in S /\ Cardinality(Above(S, i)) < n
BY DEF Newest, Above

\* What is above one of the newest is one of the newest.
LEMMA NewestIsTop ==
    ASSUME NEW S \in SUBSET Item, IsFiniteSet(S),
           NEW h \in Newest(MaxHistory, S), NEW j \in S, j.seq > h.seq
    PROVE  j \in Newest(MaxHistory, S)
<1>1. h \in S /\ Cardinality(Above(S, h)) < MaxHistory
    BY NewestByRank
<1>2. Above(S, j) \subseteq Above(S, h)
    BY <1>1 DEF Above, Item
<1>3. IsFiniteSet(Above(S, h))
    BY AboveIsFinite
<1>4. Cardinality(Above(S, j)) < MaxHistory
    BY <1>1, <1>2, <1>3, RankInPart, MaxHistoryAssumption
<1> QED
    BY <1>4, NewestByRank

\* The newest clips rank within the depth among themselves.
LEMMA NewestIsDeep ==
    ASSUME NEW S \in SUBSET Item, IsFiniteSet(S), NEW h \in Newest(MaxHistory, S)
    PROVE  Cardinality(Above(Newest(MaxHistory, S), h)) < MaxHistory
<1>1. Above(Newest(MaxHistory, S), h) \subseteq Above(S, h)
    BY NewestIsSubset DEF Above
<1>2. IsFiniteSet(Above(S, h)) /\ Cardinality(Above(S, h)) < MaxHistory
    BY AboveIsFinite, NewestByRank
<1> QED
    BY <1>1, <1>2, RankInPart, MaxHistoryAssumption

-----------------------------------------------------------------------------
(***************************************************************************)
(* The order of expiry and the end of the history.                         *)
(***************************************************************************)

\* No step but a put brings a clip into the hub.
LEMMA HubOnlyForgets ==
    ASSUME HubInv, [Next]_vars, ~ \E p \in Payloads : PutNew(p)
    PROVE  /\ InHub' \subseteq InHub /\ Settling' \subseteq Settling
           /\ (IsFiniteSet(inflight) => IsFiniteSet(inflight'))
           /\ clock' \in Nat /\ clock' >= clock
<1> USE DEF InHub, Settling
<1>1. CASE Publish
    <2>1. /\ saving \in inflight /\ inflight' = inflight \ {saving}
          /\ UNCHANGED <<history, clock>>
        BY <1>1 DEF Publish, PublishSave, PublishSaveFails, PublishEnd, HubInv, PublishTurn
    <2>2. rows' \subseteq rows \cup {saving}
        BY <1>1 DEF Publish, PublishSave, PublishSaveFails, SaveItem, storeVars
    <2>3. IsFiniteSet(inflight) => IsFiniteSet(inflight')
        BY <2>1, FS_Subset
    <2> QED
        BY <2>1, <2>2, <2>3 DEF HubInv, TypeOK
<1>2. CASE Clear
    BY <1>2 DEF Clear, DeleteAll, HubInv, TypeOK
<1>3. CASE \E last \in 0 .. seq : Reap(last)
    BY <1>3 DEF Reap, HubInv, TypeOK, storeVars
<1>4. CASE \E now \in reaping : ReapStore(now)
    BY <1>4 DEF ReapStore, DeleteExpired, HubInv, TypeOK, storeVars
<1>5. CASE Tick
    BY <1>5 DEF Tick, HubInv, TypeOK, memVars, storeVars
<1>6. CASE Crash
    BY <1>6, FS_EmptySet DEF Crash, HubInv, TypeOK, storeVars
<1>7. CASE Start
    BY <1>7, NewestIsSubset DEF Start, HubInv, TypeOK, storeVars
<1>8. CASE \E item \in inflight : PublishDeliver(item)
    BY <1>8 DEF PublishDeliver, HubInv, TypeOK, storeVars
<1>9. CASE (\E p \in Payloads : PutDuplicate(p)) \/ ClearFails \/ UNCHANGED vars
    BY <1>9 DEF PutDuplicate, ClearFails, HubInv, TypeOK, vars, memVars, storeVars
<1> QED
    BY <1>1, <1>2, <1>3, <1>4, <1>5, <1>6, <1>7, <1>8, <1>9 DEF Next

LEMMA PutFacts ==
    ASSUME HubInv, NEW p \in Payloads, PutNew(p)
    PROVE  /\ up /\ NewItem(p) \in Item /\ NewItem(p).seq = seq + 1
           /\ NewItem(p).exp = clock + ttl
           /\ \A i \in InHub : i \in Item /\ i.seq <= seq
           /\ current' = NewItem(p) /\ history' = Newest(MaxHistory, history \cup {NewItem(p)})
           /\ inflight' = inflight \cup {NewItem(p)}
           /\ UNCHANGED <<up, ttl, clock, rows, lost, racing>>
<1>1. \A i \in InHub : i \in Item /\ i.seq <= seq
    BY DEF PutNew, InHub, HubInv, TypeOK, StoreTypeOK, MemoryInBounds, PublishTurn,
           RowsBelowCounter, Item
<1>2. NewItem(p).exp = clock + ttl
    BY DEF NewItem
<1> QED
    BY <1>1, <1>2, NewItemType DEF HubInv, PutNew, Prepend, storeVars, ghostVars

LEMMA ExpiryKept ==
    ASSUME OneTTL, HubInv, HubInv', ExpiryFollowsSeq, [Next]_vars
    PROVE  ExpiryFollowsSeq'
<1>1. ttl' = ttl /\ ttl \in Nat
    BY TTLsAssumption DEF OneTTL, HubInv, TypeOK
<1>2. ASSUME NEW p \in Payloads, PutNew(p)
      PROVE  ExpiryFollowsSeq'
    <2>1. PICK n : n = NewItem(p)
        OBVIOUS
    <2>2. /\ n \in Item /\ n.seq = seq + 1 /\ n.exp = clock + ttl /\ clock' = clock
          /\ \A i \in InHub : i \in Item /\ i.seq <= seq
          /\ history' = Newest(MaxHistory, history \cup {n})
          /\ inflight' = inflight \cup {n} /\ rows' = rows
        BY <1>2, <2>1, PutFacts
    <2>3. InHub' \subseteq InHub \cup {n}
        BY <2>2, NewestIsSubset DEF InHub
    <2>4. \A i \in InHub : i.seq \in Nat /\ i.exp \in Nat
        BY <2>2 DEF Item
    <2>5. seq \in Nat /\ clock \in Nat
        BY DEF HubInv, TypeOK
    <2>6. ASSUME NEW i \in InHub', NEW j \in InHub', i.seq <= j.seq
          PROVE  i.exp <= j.exp
        BY <1>1, <2>2, <2>3, <2>4, <2>5, <2>6 DEF ExpiryFollowsSeq
    <2>7. \A i \in InHub' : i.exp <= clock' + ttl'
        BY <1>1, <2>2, <2>3, <2>4, <2>5 DEF ExpiryFollowsSeq
    <2> QED
        BY <2>6, <2>7 DEF ExpiryFollowsSeq
<1>3. CASE ~ \E p \in Payloads : PutNew(p)
    <2>1. InHub' \subseteq InHub /\ clock' \in Nat /\ clock' >= clock
        BY <1>3, HubOnlyForgets
    <2>2. clock \in Nat /\ \A i \in InHub : i.exp \in Nat
        BY DEF InHub, HubInv, TypeOK, StoreTypeOK, Item
    <2> QED
        BY <1>1, <2>1, <2>2 DEF ExpiryFollowsSeq
<1> QED
    BY <1>2, <1>3

\* A reaper takes nothing that is above something it leaves.
LEMMA ReapIsDownward ==
    ASSUME HubInv, ExpiryFollowsSeq, NEW last \in 0 .. seq,
           NEW i \in InHub, NEW j \in InHub, i.seq <= j.seq, IsExpired(j, last)
    PROVE  IsExpired(i, last)
<1>1. i.exp <= j.exp
    BY DEF ExpiryFollowsSeq
<1>2. i \in Item /\ j \in Item /\ clock \in Nat /\ last \in Nat
    BY DEF InHub, HubInv, TypeOK, StoreTypeOK
<1> QED
    BY <1>1, <1>2 DEF IsExpired, Item

LEMMA CurrentKept ==
    ASSUME HubInv, ExpiryFollowsSeq, CurrentUnlessEmpty, [Next]_vars
    PROVE  CurrentUnlessEmpty'
<1> USE DEF CurrentUnlessEmpty
<1>1. ASSUME NEW p \in Payloads, PutNew(p)
      PROVE  CurrentUnlessEmpty'
    BY <1>1, PutFacts, NullAssumption
<1>2. ASSUME NEW last \in 0 .. seq, Reap(last)
      PROVE  CurrentUnlessEmpty'
    <2>1. current' = CurrentAfterReap(last) /\ history' = {i \in history : ~ IsExpired(i, last)}
        BY <1>2 DEF Reap
    <2>2. ASSUME current # Null, IsExpired(current, last)
          PROVE  history' = {}
        <3>1. \A i \in history : IsExpired(i, last)
            BY <2>2, ReapIsDownward DEF HubInv, CurrentIsNewest, InHub
        <3> QED
            BY <2>1, <3>1
    <2> QED
        BY <2>1, <2>2 DEF CurrentAfterReap
<1>3. CASE Start
    <2>1. history' \subseteq rows /\ rows \subseteq Item
        BY <1>3, NewestIsSubset DEF Start, HubInv, TypeOK, StoreTypeOK
    <2> QED
        BY <1>3, <2>1, NullAssumption DEF Start
<1>4. CASE Publish
    BY <1>4 DEF Publish, PublishSave, PublishSaveFails, PublishEnd
<1>5. CASE Clear
    BY <1>5 DEF Clear
<1>6. CASE \E now \in reaping : ReapStore(now)
    BY <1>6 DEF ReapStore
<1>7. CASE Tick
    BY <1>7 DEF Tick, memVars
<1>8. CASE Crash
    BY <1>8 DEF Crash
<1>9. CASE \E item \in inflight : PublishDeliver(item)
    BY <1>9 DEF PublishDeliver
<1>10. CASE (\E p \in Payloads : PutDuplicate(p)) \/ ClearFails \/ UNCHANGED vars
    BY <1>10 DEF PutDuplicate, ClearFails, vars, memVars
<1> QED
    BY <1>1, <1>2, <1>3, <1>4, <1>5, <1>6, <1>7, <1>8, <1>9, <1>10 DEF Next

-----------------------------------------------------------------------------
(***************************************************************************)
(* The history is the top of what the hub holds.                           *)
(***************************************************************************)

\* A history that only loses clips, from its low end, stays the top.
LEMMA TopOfLess ==
    ASSUME HistoryIsTop, SourceInv,
           history' \subseteq history, Settling' \subseteq Settling,
           \A h \in history', j \in history : j.seq > h.seq => j \in history'
    PROVE  HistoryIsTop'
<1>1. ASSUME NEW h \in history'
      PROVE  Cardinality(Above(history', h)) < MaxHistory
    <2>1. /\ Cardinality(Above(history, h)) < MaxHistory /\ IsFiniteSet(Above(history, h))
          /\ Above(history', h) \subseteq Above(history, h)
        BY AboveIsFinite DEF HistoryIsTop, SourceInv, FiniteStores, Above
    <2> QED
        BY <2>1, RankInPart, MaxHistoryAssumption
<1>2. ASSUME NEW h \in history', NEW j \in Settling', j.seq > h.seq
      PROVE  j \in history'
    BY <1>2 DEF HistoryIsTop, Above
<1> QED
    BY <1>1, <1>2 DEF HistoryIsTop, Above

LEMMA TopOfNewest ==
    ASSUME NEW S \in SUBSET Item, IsFiniteSet(S), history' = Newest(MaxHistory, S),
           \A h \in history', j \in Settling' : j.seq > h.seq => j \in S
    PROVE  HistoryIsTop'
<1>1. \A h \in history' : Cardinality(Above(history', h)) < MaxHistory
    BY NewestIsDeep
<1>2. ASSUME NEW h \in history', NEW j \in Settling', j.seq > h.seq
      PROVE  j \in history'
    BY <1>2, NewestIsTop
<1> QED
    BY <1>1, <1>2 DEF HistoryIsTop, Above

LEMMA PutKeepsTop ==
    ASSUME HubInv, SourceInv, HistoryIsTop, NEW p \in Payloads, PutNew(p)
    PROVE  HistoryIsTop'
<1>1. PICK n : n = NewItem(p)
    OBVIOUS
<1>2. /\ n \in Item /\ n.seq = seq + 1 /\ \A i \in InHub : i \in Item /\ i.seq <= seq
      /\ history' = Newest(MaxHistory, history \cup {n})
      /\ inflight' = inflight \cup {n} /\ rows' = rows
    BY <1>1, PutFacts
<1>3. history \cup {n} \subseteq Item /\ IsFiniteSet(history \cup {n})
    BY <1>2, FS_AddElement DEF InHub, SourceInv, FiniteStores
<1>4. ASSUME NEW h \in history', NEW j \in Settling', j.seq > h.seq
      PROVE  j \in history \cup {n}
    <2>1. h \in history \cup {n} /\ j \in Settling \cup {n}
        BY <1>2, NewestIsSubset DEF Settling
    <2>2. CASE h = n /\ j # n
        <3>1. j.seq <= seq /\ j \in Item /\ seq \in Nat
            BY <1>2, <2>1, <2>2 DEF InHub, Settling, HubInv, TypeOK
        <3> QED
            BY <1>2, <1>4, <2>2, <3>1 DEF Item
    <2>3. CASE h \in history /\ j \in Settling
        BY <1>4, <2>3 DEF HistoryIsTop, Above
    <2> QED
        BY <2>1, <2>2, <2>3
<1> QED
    BY <1>2, <1>3, <1>4, TopOfNewest

LEMMA TopKept ==
    ASSUME HubInv, SourceInv, ExpiryFollowsSeq, HistoryIsTop, [Next]_vars
    PROVE  HistoryIsTop'
<1>1. CASE \E p \in Payloads : PutNew(p)
    BY <1>1, PutKeepsTop
<1>2. CASE ~ \E p \in Payloads : PutNew(p)
    <2>1. Settling' \subseteq Settling
        BY <1>2, HubOnlyForgets
    <2>2. ASSUME NEW last \in 0 .. seq, Reap(last)
          PROVE  HistoryIsTop'
        <3>1. history' = {i \in history : ~ IsExpired(i, last)}
            BY <2>2 DEF Reap
        <3>2. ASSUME NEW h \in history', NEW j \in history, j.seq > h.seq
              PROVE  j \in history'
            <4>1. h \in history /\ ~ IsExpired(h, last)
                BY <3>1
            <4>2. h.seq <= j.seq /\ h \in InHub /\ j \in InHub
                BY <3>2, <4>1 DEF HubInv, TypeOK, InHub, Item
            <4> QED
                BY <3>1, <4>1, <4>2, ReapIsDownward
        <3> QED
            BY <2>1, <3>1, <3>2, TopOfLess
    <2>3. CASE Start
        <3>1. rows \subseteq Item /\ IsFiniteSet(rows)
            BY DEF HubInv, TypeOK, StoreTypeOK, SourceInv, FiniteStores
        <3>2. history' = Newest(MaxHistory, rows) /\ Settling' = rows
            BY <2>3 DEF Start, Settling, HubInv, PublishTurn, storeVars
        <3> QED
            BY <3>1, <3>2, TopOfNewest
    <2>4. CASE history' = {}
        BY <2>1, <2>4, TopOfLess
    <2>5. CASE history' = history
        BY <2>1, <2>5, TopOfLess
    <2>6. \/ \E last \in 0 .. seq : Reap(last)
          \/ Start \/ history' = {} \/ history' = history
        BY <1>2 DEF Next, PutDuplicate, PublishDeliver, Publish, PublishSave, PublishSaveFails,
                    PublishEnd, Clear, ClearFails, ReapStore, Tick, Crash, vars, memVars
    <2> QED
        BY <2>2, <2>3, <2>4, <2>5, <2>6
<1> QED
    BY <1>1, <1>2

\* A clip of the history outranks none that the table will not hold too, unless
\* expired: the reverse direction for a clip that is fresh.
LEMMA PutKeepsReach ==
    ASSUME HubInv, SourceInv, ExpiryFollowsSeq, TopIsInHistory, IsFiniteSet(inflight),
           NEW p \in Payloads, PutNew(p)
    PROVE  TopIsInHistory'
<1>1. PICK n : n = NewItem(p)
    OBVIOUS
<1>2. /\ up /\ n \in Item /\ n.seq = seq + 1 /\ \A i \in InHub : i \in Item /\ i.seq <= seq
      /\ history' = Newest(MaxHistory, history \cup {n})
      /\ inflight' = inflight \cup {n} /\ UNCHANGED <<up, clock, rows, lost, racing>>
    BY <1>1, PutFacts
<1>3. Settling' = Settling \cup {n} /\ IsFiniteSet(Settling')
    <2>1. IsFiniteSet(Settling)
        BY FS_Union DEF Settling, SourceInv, FiniteStores
    <2>2. Settling' = Settling \cup {n}
        BY <1>2 DEF Settling
    <2> QED
        BY <2>1, <2>2, FS_AddElement
<1>4. ASSUME Persistent, lost = {}, NEW i \in Settling', i \notin racing, i.exp > clock,
             Cardinality(Above(Settling', i)) < MaxHistory
      PROVE  i \in history'
    <2>1. IsFiniteSet(Above(Settling', i))
        BY <1>3, AboveIsFinite
    <2>2. i \in history \cup {n}
        <3>1. CASE i # n
            <4>1. i \in Settling /\ Above(Settling, i) \subseteq Above(Settling', i)
                BY <1>3, <3>1 DEF Above
            <4>2. Cardinality(Above(Settling, i)) < MaxHistory
                BY <1>4, <2>1, <4>1, RankInPart, MaxHistoryAssumption
            <4>3. ~ MayBeExpired(i)
                <5>1. i.exp \in Nat /\ clock \in Nat
                    BY <1>2, <4>1 DEF Settling, InHub, Item, HubInv, TypeOK
                <5> QED
                    BY <1>4, <5>1 DEF MayBeExpired
            <4> QED
                BY <1>2, <1>4, <4>1, <4>2, <4>3 DEF TopIsInHistory
        <3> QED
            BY <3>1
    <2>3. Above(history \cup {n}, i) \subseteq Above(Settling', i)
        <3>1. ASSUME NEW j \in history, j.seq > i.seq
              PROVE  j \in Settling
            <4>1. i # n
                BY <1>2, <3>1 DEF InHub, HubInv, TypeOK, Item
            <4>2. i \in InHub /\ j \in InHub /\ i.seq <= j.seq
                BY <1>2, <2>2, <3>1, <4>1 DEF InHub, Item
            <4>3. i.exp <= j.exp
                BY <4>2 DEF ExpiryFollowsSeq
            <4>4. ~ MayBeExpired(j)
                BY <1>2, <1>4, <4>2, <4>3 DEF MayBeExpired, Item, HubInv, TypeOK
            <4> QED
                BY <1>4, <4>4 DEF SourceInv, HistoryCovered, Settling
        <3> QED
            BY <1>3, <3>1 DEF Above
    <2>4. Cardinality(Above(history \cup {n}, i)) < MaxHistory
        BY <1>4, <2>1, <2>3, RankInPart, MaxHistoryAssumption
    <2> QED
        BY <1>2, <2>2, <2>4, NewestByRank
<1>5. ASSUME NEW i \in Settling', ~ MayBeExpired(i)'
      PROVE  i.exp > clock
    <2>1. i \in Item /\ clock \in Nat
        BY <1>2, <1>3 DEF Settling, InHub, HubInv, TypeOK
    <2> QED
        BY <1>2, <1>5, <2>1 DEF MayBeExpired, Item
<1> QED
    BY <1>2, <1>4, <1>5 DEF TopIsInHistory

\* A save moves a clip from the flight to the table.
LEMMA PublishKeepsReach ==
    ASSUME HubInv, TopIsInHistory, Publish
    PROVE  TopIsInHistory'
<1>1. SUFFICES ASSUME Persistent, lost' = {}
               PROVE  TopIsInHistory'
    BY DEF TopIsInHistory
<1>2. PublishSave /\ lost = {}
    BY <1>1 DEF Publish, PublishSave, PublishSaveFails
<1>3. saving.seq > storeSeq /\ saving.seq \in Nat /\ saving \in inflight
    BY <1>2 DEF PublishSave, PublishEnd, HubInv, PublishTurn, TypeOK, StoreTypeOK, Item
<1>4. rows' = rows \cup {saving}
    BY <1>1, <1>2, <1>3 DEF PublishSave, SaveItem, HubInv, RowsBelowCounter, TypeOK, StoreTypeOK,
                            Item
<1>5. Settling' = Settling /\ UNCHANGED <<up, history, clock, racing>>
    BY <1>2, <1>3, <1>4 DEF PublishSave, PublishEnd, Settling
<1> QED
    BY <1>1, <1>2, <1>5 DEF TopIsInHistory, MayBeExpired

\* What the goroutine of a reaper deletes is below all that has not expired.
LEMMA ReapStoreKeepsReach ==
    ASSUME HubInv, ExpiryFollowsSeq, TopIsInHistory, NEW now \in reaping, ReapStore(now)
    PROVE  TopIsInHistory'
<1>1. /\ rows' \subseteq rows
      /\ \A r \in rows \ rows' : r.exp <= now
      /\ now \in Nat /\ now <= clock
      /\ UNCHANGED <<up, history, clock, racing, inflight, lost>>
    BY DEF ReapStore, DeleteExpired, HubInv, TypeOK, StoreTypeOK, MemoryInBounds, Item, storeVars,
           ghostVars
<1>2. Settling' \subseteq Settling
    BY <1>1 DEF Settling
<1>3. ASSUME NEW i \in Settling', ~ MayBeExpired(i)
      PROVE  Above(Settling', i) = Above(Settling, i)
    <2>1. ASSUME NEW j \in Settling, j.seq > i.seq
          PROVE  j \in Settling'
        <3>1. i \in Item /\ j \in Item /\ clock \in Nat
            BY <1>2 DEF Settling, HubInv, TypeOK, StoreTypeOK
        <3>2. i.exp <= j.exp
            BY <1>2, <2>1, <3>1 DEF ExpiryFollowsSeq, InHub, Settling, Item
        <3>3. ~ (j.exp <= now)
            BY <1>1, <1>3, <3>1, <3>2 DEF MayBeExpired, Item
        <3> QED
            BY <1>1, <2>1, <3>3 DEF Settling
    <2> QED
        BY <1>2, <2>1 DEF Above
<1>4. \A i : MayBeExpired(i)' = MayBeExpired(i)
    BY <1>1 DEF MayBeExpired
<1> QED
    BY <1>1, <1>2, <1>3, <1>4 DEF TopIsInHistory

\* A reaper leaves what has not expired in the history, and time only passes.
LEMMA TimeKeepsReach ==
    ASSUME HubInv, TopIsInHistory, Tick \/ \E last \in 0 .. seq : Reap(last)
    PROVE  TopIsInHistory'
<1>1. /\ UNCHANGED <<up, racing, lost>> /\ Settling' = Settling
      /\ clock' \in Nat /\ clock' >= clock
    BY DEF Tick, Reap, Settling, HubInv, TypeOK, memVars, storeVars, ghostVars
<1>2. ASSUME NEW i \in Settling, ~ MayBeExpired(i)'
      PROVE  ~ MayBeExpired(i) /\ (i \in history => i \in history')
    <2>1. i.exp \in Nat /\ clock \in Nat
        BY DEF Settling, HubInv, TypeOK, StoreTypeOK, Item
    <2>2. i.exp > clock'
        BY <1>1, <1>2, <2>1 DEF MayBeExpired
    <2>3. ~ MayBeExpired(i)
        BY <1>1, <2>1, <2>2 DEF MayBeExpired
    <2>4. CASE Tick
        BY <2>3, <2>4 DEF Tick, memVars
    <2>5. ASSUME NEW last \in 0 .. seq, Reap(last)
          PROVE  i \in history => i \in history'
        <3>1. ~ IsExpired(i, last)
            BY <1>1, <2>1, <2>2 DEF IsExpired
        <3> QED
            BY <2>5, <3>1 DEF Reap
    <2> QED
        BY <2>3, <2>4, <2>5
<1> QED
    BY <1>1, <1>2 DEF TopIsInHistory

LEMMA ReachKept ==
    ASSUME HubInv, SourceInv, ExpiryFollowsSeq, TopIsInHistory, IsFiniteSet(inflight),
           [Next]_vars
    PROVE  TopIsInHistory'
<1>1. CASE \E p \in Payloads : PutNew(p)
    BY <1>1, PutKeepsReach
<1>2. CASE Publish
    BY <1>2, PublishKeepsReach
<1>3. CASE Clear
    BY <1>3 DEF Clear, DeleteAll, TopIsInHistory, Settling
<1>4. CASE Tick \/ \E last \in 0 .. seq : Reap(last)
    BY <1>4, TimeKeepsReach
<1>5. CASE \E now \in reaping : ReapStore(now)
    BY <1>5, ReapStoreKeepsReach
<1>6. CASE Crash
    BY <1>6 DEF Crash, TopIsInHistory
<1>7. CASE Start
    <2>1. history' = Newest(MaxHistory, rows) /\ Settling' = rows
        BY <1>7 DEF Start, Settling, HubInv, PublishTurn, storeVars
    <2> QED
        BY <2>1, NewestByRank DEF TopIsInHistory
<1>8. CASE \E item \in inflight : PublishDeliver(item)
    BY <1>8 DEF PublishDeliver, TopIsInHistory, Settling, MayBeExpired, storeVars, ghostVars
<1>9. CASE (\E p \in Payloads : PutDuplicate(p)) \/ ClearFails \/ UNCHANGED vars
    BY <1>9 DEF PutDuplicate, ClearFails, TopIsInHistory, Settling, MayBeExpired, vars, memVars,
                storeVars, ghostVars
<1> QED
    BY <1>1, <1>2, <1>3, <1>4, <1>5, <1>6, <1>7, <1>8, <1>9 DEF Next

-----------------------------------------------------------------------------
LEMMA WindowInit == Init => WindowInv
<1> SUFFICES ASSUME Init
             PROVE  WindowInv
    OBVIOUS
<1> USE DEF Init, StoreInit
<1>1. IsFiniteSet(inflight) /\ ExpiryFollowsSeq /\ CurrentUnlessEmpty
    BY FS_EmptySet DEF ExpiryFollowsSeq, InHub, CurrentUnlessEmpty
<1>2. HistoryIsTop /\ TopIsInHistory
    BY DEF HistoryIsTop, TopIsInHistory
<1> QED
    BY <1>1, <1>2 DEF WindowInv

LEMMA WindowNext ==
    ASSUME OneTTL, HubInv, HubInv', SourceInv, WindowInv, [Next]_vars
    PROVE  WindowInv'
<1> USE DEF WindowInv
<1>1. IsFiniteSet(inflight')
    <2>1. ASSUME NEW p \in Payloads, PutNew(p)
          PROVE  IsFiniteSet(inflight')
        <3>1. inflight' = inflight \cup {NewItem(p)}
            BY <2>1, PutFacts
        <3> QED
            BY <3>1, FS_AddElement
    <2>2. (~ \E p \in Payloads : PutNew(p)) => IsFiniteSet(inflight')
        BY HubOnlyForgets
    <2> QED
        BY <2>1, <2>2
<1> QED
    BY <1>1, ExpiryKept, CurrentKept, TopKept, ReachKept

\* The invariant of the window holds in every behaviour of a hub whose TTL stays.
THEOREM WindowInvariance ==
    ASSUME OneTTL
    PROVE  Spec => [](HubInv /\ SourceInv /\ WindowInv)
<1>1. Init => WindowInv
    BY WindowInit
<1>2. HubInv /\ HubInv' /\ SourceInv /\ WindowInv /\ [Next]_vars => WindowInv'
    BY WindowNext
<1> QED
    BY <1>1, <1>2, SourceAlways, PTL DEF Spec

\* As long as the history has a clip, GET shows one: no reaper takes current and leaves
\* an older clip, although it looks at each by its own expiry.
THEOREM CurrentStays ==
    ASSUME OneTTL
    PROVE  Spec => []CurrentUnlessEmpty
BY WindowInvariance, PTL DEF WindowInv

\* What a restart would load is what the hub serves, as soon as nothing is in flight:
\* no order of puts, publishes, Clears, reapers and deletions makes the memory and the
\* table differ in a clip that is fresh, not raced by a Clear and not lost by a fault.
THEOREM WindowCorrect ==
    ASSUME OneTTL
    PROVE  Spec => []WindowSurvivesRestart
<1>1. HubInv /\ SourceInv /\ WindowInv => WindowSurvivesRestart
    <2> SUFFICES ASSUME HubInv, SourceInv, WindowInv, up, Persistent, inflight = {}, lost = {},
                        NEW i, i \notin racing, ~ MayBeExpired(i)
                 PROVE  i \in Newest(MaxHistory, rows) <=> i \in history
        BY DEF WindowSurvivesRestart
    <2>1. Settling = rows
        BY DEF Settling
    <2>2. ASSUME i \in Newest(MaxHistory, rows)
          PROVE  i \in history
        BY <2>1, <2>2, NewestByRank DEF WindowInv, TopIsInHistory
    <2>3. ASSUME i \in history
          PROVE  i \in Newest(MaxHistory, rows)
        <3>1. i \in rows
            BY <2>3 DEF SourceInv, HistoryCovered
        <3>2. Above(rows, i) \subseteq Above(history, i)
            BY <2>1, <2>3 DEF WindowInv, HistoryIsTop, Above
        <3>3. IsFiniteSet(Above(history, i)) /\ Cardinality(Above(history, i)) < MaxHistory
            BY <2>3, AboveIsFinite DEF SourceInv, FiniteStores, WindowInv, HistoryIsTop
        <3>4. Cardinality(Above(rows, i)) < MaxHistory
            BY <3>2, <3>3, RankInPart, MaxHistoryAssumption
        <3> QED
            BY <3>1, <3>4, NewestByRank
    <2> QED
        BY <2>2, <2>3
<1> QED
    BY <1>1, WindowInvariance, PTL

=============================================================================
