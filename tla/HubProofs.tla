----------------------------- MODULE HubProofs -----------------------------
(***************************************************************************)
(* Proofs about Hub, for every number of contents, every history depth,    *)
(* every set of TTLs, with or without a store and failing statements.      *)
(***************************************************************************)
EXTENDS Hub, FiniteSetTheorems, TLAPS

\* Cutting the history to its newest clips adds none.
LEMMA NewestIsSubset ==
    ASSUME NEW n, NEW S
    PROVE  Newest(n, S) \subseteq S
BY DEF Newest

\* ... and keeps the first one, for a depth of at least one.
LEMMA NewestKeepsTop ==
    ASSUME NEW S, S \subseteq Item, NEW top \in S, \A i \in S : i.seq <= top.seq
    PROVE  top \in Newest(MaxHistory, S)
<1>1. {j \in S : j.seq > top.seq} = {}
    BY DEF Item
<1>2. Cardinality({j \in S : j.seq > top.seq}) = 0
    BY <1>1, FS_EmptySet
<1> QED
    BY <1>2, MaxHistoryAssumption DEF Newest

\* The next clip is well formed.
LEMMA NewItemType ==
    ASSUME TypeOK, NEW p \in Payloads
    PROVE  /\ NewItem(p) \in Item
           /\ NewItem(p).seq = seq + 1
           /\ NewItem(p).run = run
BY TTLsAssumption DEF TypeOK, NewItem, Item

\* loadSeq returns the counter: its fallback applies to an empty table only.
LEMMA LoadSeqIsCounter ==
    ASSUME StoreTypeOK, RowsBelowCounter
    PROVE  LoadSeq = storeSeq
<1>1. CASE storeSeq > 0
    BY <1>1 DEF LoadSeq
<1>2. CASE ~ (storeSeq > 0)
    <2>1. storeSeq = 0
        BY <1>2 DEF StoreTypeOK
    <2>2. rows = {}
        BY <2>1 DEF StoreTypeOK, RowsBelowCounter, Item
    <2>3. Seqs(rows) \cup {0} = {0}
        BY <2>2 DEF Seqs
    <2>4. Max({0}) = 0
        BY DEF Max
    <2> QED
        BY <1>2, <2>1, <2>3, <2>4 DEF LoadSeq
<1> QED
    BY <1>1, <1>2

-----------------------------------------------------------------------------
(***************************************************************************)
(* The invariant, action by action.                                        *)
(***************************************************************************)

LEMMA InitEstablishes == Init => HubInv
<1> SUFFICES ASSUME Init
             PROVE  HubInv
    OBVIOUS
<1> USE DEF Init, StoreInit
<1>1. TypeOK
    BY DEF TypeOK, StoreTypeOK
<1>2. RowsBelowCounter /\ PublishTurn /\ MemoryInBounds /\ CurrentIsNewest
    BY DEF RowsBelowCounter, PublishTurn, MemoryInBounds, CurrentIsNewest
<1>3. AckedCounted /\ AckedDurable
    BY DEF AckedCounted, AckedDurable
<1>4. ClipsAreOld /\ RacingKnown /\ ClearedStaysCleared
    BY DEF ClipsAreOld, RacingKnown, ClearedStaysCleared
<1> QED
    BY <1>1, <1>2, <1>3, <1>4 DEF HubInv

\* A put numbers its clip above everything the hub knows.
LEMMA PutPreserves ==
    ASSUME HubInv, NEW p \in Payloads, PutNew(p)
    PROVE  HubInv'
<1> DEFINE item == NewItem(p)
<1> USE DEF HubInv
<1>1. item \in Item /\ item.seq = seq + 1 /\ item.run = run
    BY NewItemType
<1>2. history' \subseteq history \cup {item}
    BY NewestIsSubset DEF PutNew, Prepend
<1>3. item \in history'
    <2>1. history \cup {item} \subseteq Item
        BY <1>1 DEF TypeOK
    <2>2. \A i \in history \cup {item} : i.seq <= item.seq
        BY <1>1 DEF MemoryInBounds, TypeOK, Item
    <2> QED
        BY <2>1, <2>2, NewestKeepsTop DEF PutNew, Prepend
<1>4. /\ up /\ seq' = seq + 1 /\ current' = item /\ inflight' = inflight \cup {item}
      /\ UNCHANGED <<up, run, ttl, publishedSeq, saving, reaping, clock, rows, storeSeq,
                     acked, lost, wiped, racing>>
    BY DEF PutNew, storeVars, ghostVars
<1> HIDE DEF item
<1>5. TypeOK'
    BY <1>1, <1>2, <1>4 DEF TypeOK, StoreTypeOK
<1>6. RowsBelowCounter'
    BY <1>4 DEF RowsBelowCounter
<1>7. PublishTurn'
    BY <1>1, <1>4 DEF PublishTurn, TypeOK, Item
<1>8. MemoryInBounds'
    BY <1>1, <1>2, <1>4 DEF MemoryInBounds, TypeOK, Item
<1>9. CurrentIsNewest'
    BY <1>1, <1>2, <1>3, <1>4 DEF CurrentIsNewest, MemoryInBounds, TypeOK, Item
<1>10. AckedCounted' /\ AckedDurable'
    BY <1>4 DEF AckedCounted, AckedDurable, MayBeExpired
<1>11. item \notin history \cup rows \cup wiped
    BY <1>1, <1>4 DEF ClipsAreOld, TypeOK, StoreTypeOK, Item
<1>12. ClipsAreOld'
    BY <1>1, <1>2, <1>4 DEF ClipsAreOld, TypeOK, StoreTypeOK, Item
<1>13. RacingKnown' /\ ClearedStaysCleared'
    BY <1>2, <1>4, <1>11 DEF RacingKnown, ClearedStaysCleared
<1> QED
    BY <1>5, <1>6, <1>7, <1>8, <1>9, <1>10, <1>12, <1>13

\* The fan-out only takes the turn.
LEMMA DeliverPreserves ==
    ASSUME HubInv, NEW item \in inflight, PublishDeliver(item)
    PROVE  HubInv'
<1> USE DEF HubInv, PublishDeliver, Turn, storeVars, ghostVars
<1>1. TypeOK'
    BY DEF TypeOK, StoreTypeOK
<1>2. RowsBelowCounter' /\ MemoryInBounds' /\ CurrentIsNewest'
    BY DEF RowsBelowCounter, MemoryInBounds, CurrentIsNewest
<1>3. PublishTurn'
    BY NullAssumption DEF PublishTurn, TypeOK
<1>4. AckedCounted' /\ AckedDurable'
    BY DEF AckedCounted, AckedDurable, MayBeExpired
<1>5. ClipsAreOld' /\ RacingKnown' /\ ClearedStaysCleared'
    BY DEF ClipsAreOld, RacingKnown, ClearedStaysCleared
<1> QED
    BY <1>1, <1>2, <1>3, <1>4, <1>5

\* What the end of a publish does whatever becomes of the save.
LEMMA PublishEndTurn ==
    ASSUME HubInv, PublishEnd, TypeOK', storeSeq' <= saving.seq
    PROVE  PublishTurn' /\ MemoryInBounds' /\ CurrentIsNewest' /\ RacingKnown'
<1> USE DEF HubInv, PublishEnd
<1>1. saving \in inflight /\ saving.seq = publishedSeq + 1
    BY DEF PublishTurn
<1>2. \A i \in inflight' : i.seq > saving.seq
    BY <1>1 DEF PublishTurn, TypeOK, Item
<1>3. PublishTurn'
    BY <1>1, <1>2 DEF PublishTurn, TypeOK, Item
<1>4. MemoryInBounds' /\ CurrentIsNewest'
    BY DEF MemoryInBounds, CurrentIsNewest
<1>5. RacingKnown'
    BY DEF RacingKnown
<1> QED
    BY <1>3, <1>4, <1>5

\* The save puts a row above all others, so that it replaces none.
LEMMA SavePreserves ==
    ASSUME HubInv, PublishSave, Persistent
    PROVE  HubInv'
<1> USE DEF HubInv, PublishSave, PublishEnd, SaveItem
<1>1. saving \in inflight /\ saving.seq = publishedSeq + 1 /\ saving.run = run
      /\ saving \in Item
    BY DEF PublishTurn, TypeOK
<1>2. saving.seq > storeSeq /\ saving.seq \in Nat
    BY <1>1 DEF PublishTurn, TypeOK, StoreTypeOK, Item
<1>3. rows' = rows \cup {saving} /\ storeSeq' = saving.seq
    BY <1>2 DEF RowsBelowCounter, TypeOK, StoreTypeOK, Item
<1>4. TypeOK'
    BY <1>1, <1>3 DEF TypeOK, StoreTypeOK, Item
<1>5. RowsBelowCounter'
    BY <1>2, <1>3 DEF RowsBelowCounter, TypeOK, StoreTypeOK, Item
<1>6. PublishTurn' /\ MemoryInBounds' /\ CurrentIsNewest' /\ RacingKnown'
    BY <1>2, <1>3, <1>4, PublishEndTurn
<1>7. AckedCounted'
    BY <1>2, <1>3 DEF AckedCounted, TypeOK, StoreTypeOK, Item
<1>8. AckedDurable'
    BY <1>3 DEF AckedDurable, MayBeExpired
<1>9. ClipsAreOld'
    BY <1>1, <1>3 DEF ClipsAreOld, PublishTurn, TypeOK
<1>10. ClearedStaysCleared'
    BY <1>1, <1>3 DEF ClearedStaysCleared, RacingKnown
<1> QED
    BY <1>4, <1>5, <1>6, <1>7, <1>8, <1>9, <1>10

\* A failed save, or no store at all: the table stays as it is.
LEMMA NoSavePreserves ==
    ASSUME HubInv, PublishSaveFails \/ (PublishSave /\ ~ Persistent)
    PROVE  HubInv'
<1> USE DEF HubInv, PublishSaveFails, PublishSave, PublishEnd, storeVars
<1>1. saving \in inflight /\ saving.seq = publishedSeq + 1 /\ saving \in Item
    BY DEF PublishTurn, TypeOK
<1>2. TypeOK'
    BY <1>1 DEF TypeOK, StoreTypeOK, Item
<1>3. RowsBelowCounter'
    BY DEF RowsBelowCounter
<1>4. storeSeq' <= saving.seq
    BY <1>1 DEF PublishTurn, TypeOK, StoreTypeOK, Item
<1>5. PublishTurn' /\ MemoryInBounds' /\ CurrentIsNewest' /\ RacingKnown'
    BY <1>2, <1>4, PublishEndTurn
<1>6. AckedCounted' /\ AckedDurable'
    BY DEF AckedCounted, AckedDurable, MayBeExpired
<1>7. ClipsAreOld' /\ ClearedStaysCleared'
    BY DEF ClipsAreOld, ClearedStaysCleared
<1> QED
    BY <1>2, <1>3, <1>5, <1>6, <1>7

\* A Clear notes which clips it removes and which may still come.
LEMMA ClearPreserves ==
    ASSUME HubInv, Clear
    PROVE  HubInv'
<1> USE DEF HubInv, Clear, DeleteAll
<1>1. TypeOK'
    BY DEF TypeOK, StoreTypeOK
<1>2. RowsBelowCounter' /\ MemoryInBounds' /\ CurrentIsNewest'
    BY DEF RowsBelowCounter, MemoryInBounds, CurrentIsNewest
<1>3. PublishTurn'
    BY DEF PublishTurn
<1>4. AckedCounted' /\ AckedDurable'
    BY DEF AckedCounted, AckedDurable, MayBeExpired
<1>5. ClipsAreOld'
    BY DEF ClipsAreOld, PublishTurn, TypeOK
<1>6. RacingKnown' /\ ClearedStaysCleared'
    BY DEF RacingKnown, ClearedStaysCleared
<1> QED
    BY <1>1, <1>2, <1>3, <1>4, <1>5, <1>6

\* The reaper drops current together with its history entry.
LEMMA ReapPreserves ==
    ASSUME HubInv, NEW last \in 0 .. seq, Reap(last)
    PROVE  HubInv'
<1> USE DEF HubInv, Reap, CurrentAfterReap, ReapersAfterReap, storeVars, ghostVars
<1>1. TypeOK'
    BY DEF TypeOK, StoreTypeOK
<1>2. RowsBelowCounter'
    BY DEF RowsBelowCounter
<1>3. MemoryInBounds'
    BY DEF MemoryInBounds, TypeOK
<1>4. CurrentIsNewest'
    BY NullAssumption DEF CurrentIsNewest
<1>5. PublishTurn'
    BY DEF PublishTurn
<1>6. AckedCounted' /\ AckedDurable'
    BY DEF AckedCounted, AckedDurable, MayBeExpired
<1>7. ClipsAreOld' /\ RacingKnown' /\ ClearedStaysCleared'
    BY DEF ClipsAreOld, RacingKnown, ClearedStaysCleared
<1> QED
    BY <1>1, <1>2, <1>3, <1>4, <1>5, <1>6, <1>7

\* The goroutine of a reaper deletes rows that are due, at most one second off.
LEMMA ReapStorePreserves ==
    ASSUME HubInv, NEW now \in reaping, ReapStore(now)
    PROVE  HubInv'
<1> USE DEF HubInv, ReapStore, storeVars, ghostVars
<1>1. rows' \subseteq rows /\ storeSeq' = storeSeq
    BY DEF DeleteExpired
<1>2. \A i \in rows \ rows' : i.exp <= clock
    BY DEF DeleteExpired, MemoryInBounds, TypeOK, StoreTypeOK, Item
<1>3. TypeOK'
    BY <1>1 DEF TypeOK, StoreTypeOK
<1>4. RowsBelowCounter' /\ MemoryInBounds' /\ CurrentIsNewest'
    BY <1>1 DEF RowsBelowCounter, MemoryInBounds, CurrentIsNewest
<1>5. PublishTurn'
    BY <1>1 DEF PublishTurn
<1>6. AckedCounted' /\ AckedDurable'
    BY <1>1, <1>2 DEF AckedCounted, AckedDurable, MayBeExpired
<1>7. ClipsAreOld' /\ RacingKnown' /\ ClearedStaysCleared'
    BY <1>1 DEF ClipsAreOld, RacingKnown, ClearedStaysCleared
<1> QED
    BY <1>3, <1>4, <1>5, <1>6, <1>7

\* Time only makes more clips expire.
LEMMA TickPreserves ==
    ASSUME HubInv, Tick
    PROVE  HubInv'
<1> USE DEF HubInv, Tick, memVars, storeVars, ghostVars
<1>1. TypeOK'
    BY DEF TypeOK, StoreTypeOK
<1>2. RowsBelowCounter' /\ CurrentIsNewest' /\ PublishTurn'
    BY DEF RowsBelowCounter, CurrentIsNewest, PublishTurn
<1>3. MemoryInBounds'
    BY DEF MemoryInBounds, TypeOK
<1>4. AckedCounted' /\ AckedDurable'
    BY DEF AckedCounted, AckedDurable, MayBeExpired, TypeOK, Item
<1>5. ClipsAreOld' /\ RacingKnown' /\ ClearedStaysCleared'
    BY DEF ClipsAreOld, RacingKnown, ClearedStaysCleared
<1> QED
    BY <1>1, <1>2, <1>3, <1>4, <1>5

\* A crash forgets the memory, not what the invariant says of the store.
LEMMA CrashPreserves ==
    ASSUME HubInv, Crash
    PROVE  HubInv'
<1> USE DEF HubInv, Crash, storeVars, ghostVars
<1>1. TypeOK'
    BY DEF TypeOK, StoreTypeOK
<1>2. RowsBelowCounter' /\ MemoryInBounds' /\ CurrentIsNewest' /\ PublishTurn'
    BY DEF RowsBelowCounter, MemoryInBounds, CurrentIsNewest, PublishTurn
<1>3. AckedCounted' /\ AckedDurable'
    BY DEF AckedCounted, AckedDurable, MayBeExpired
<1>4. ClipsAreOld' /\ RacingKnown' /\ ClearedStaysCleared'
    BY DEF ClipsAreOld, RacingKnown, ClearedStaysCleared
<1> QED
    BY <1>1, <1>2, <1>3, <1>4

\* A start resumes from a counter that no row exceeds.
LEMMA StartPreserves ==
    ASSUME HubInv, Start
    PROVE  HubInv'
<1> USE DEF HubInv, Start, PublishedAtStart, IsFirstRow, storeVars, ghostVars
<1>1. seq' = storeSeq /\ publishedSeq' = storeSeq
    BY LoadSeqIsCounter DEF TypeOK
<1>2. history' \subseteq rows
    BY NewestIsSubset
<1>3. current' # Null =>
          current' \in history' /\ \A r \in rows : r.seq <= current'.seq
    <2>1. CASE rows = {}
        BY <2>1
    <2>2. CASE rows # {}
        <3>1. PICK r \in rows : (\A s \in rows : s.seq <= r.seq) /\ current' = r
            BY <2>2
        <3>2. r \in Newest(MaxHistory, rows)
            BY <3>1, NewestKeepsTop DEF TypeOK, StoreTypeOK
        <3> QED
            BY <3>1, <3>2
    <2> QED
        BY <2>1, <2>2
<1>4. TypeOK'
    BY <1>1, <1>2, <1>3 DEF TypeOK, StoreTypeOK
<1>5. RowsBelowCounter'
    BY DEF RowsBelowCounter
<1>6. PublishTurn'
    BY <1>1 DEF PublishTurn, TypeOK, StoreTypeOK
<1>7. MemoryInBounds'
    BY <1>1, <1>2 DEF MemoryInBounds, RowsBelowCounter
<1>8. CurrentIsNewest'
    BY <1>1, <1>2, <1>3 DEF CurrentIsNewest, RowsBelowCounter
<1>9. AckedCounted' /\ AckedDurable'
    BY DEF AckedCounted, AckedDurable, MayBeExpired
<1>10. ClipsAreOld'
    BY <1>2 DEF ClipsAreOld, TypeOK, StoreTypeOK, Item
<1>11. RacingKnown' /\ ClearedStaysCleared'
    BY <1>2 DEF RacingKnown, ClearedStaysCleared
<1> QED
    BY <1>4, <1>5, <1>6, <1>7, <1>8, <1>9, <1>10, <1>11

LEMMA StutterPreserves == HubInv /\ UNCHANGED vars => HubInv'
<1> SUFFICES ASSUME HubInv, UNCHANGED vars
             PROVE  HubInv'
    OBVIOUS
<1> USE DEF HubInv, vars, memVars, storeVars, ghostVars
<1>1. TypeOK'
    BY DEF TypeOK, StoreTypeOK
<1>2. RowsBelowCounter' /\ MemoryInBounds' /\ CurrentIsNewest' /\ PublishTurn'
    BY DEF RowsBelowCounter, MemoryInBounds, CurrentIsNewest, PublishTurn
<1>3. AckedCounted' /\ AckedDurable'
    BY DEF AckedCounted, AckedDurable, MayBeExpired
<1>4. ClipsAreOld' /\ RacingKnown' /\ ClearedStaysCleared'
    BY DEF ClipsAreOld, RacingKnown, ClearedStaysCleared
<1> QED
    BY <1>1, <1>2, <1>3, <1>4

LEMMA NextPreserves == HubInv /\ [Next]_vars => HubInv'
<1> SUFFICES ASSUME HubInv, [Next]_vars
             PROVE  HubInv'
    OBVIOUS
<1>1. CASE \E p \in Payloads : PutNew(p)
    BY <1>1, PutPreserves
<1>2. CASE (\E p \in Payloads : PutDuplicate(p)) \/ ClearFails \/ UNCHANGED vars
    BY <1>2, StutterPreserves DEF PutDuplicate, ClearFails
<1>3. CASE \E item \in inflight : PublishDeliver(item)
    BY <1>3, DeliverPreserves
<1>4. CASE Publish
    BY <1>4, SavePreserves, NoSavePreserves DEF Publish
<1>5. CASE Clear
    BY <1>5, ClearPreserves
<1>6. CASE \E last \in 0 .. seq : Reap(last)
    BY <1>6, ReapPreserves
<1>7. CASE \E now \in reaping : ReapStore(now)
    BY <1>7, ReapStorePreserves
<1>8. CASE Tick
    BY <1>8, TickPreserves
<1>9. CASE Crash
    BY <1>9, CrashPreserves
<1>10. CASE Start
    BY <1>10, StartPreserves
<1> QED
    BY <1>1, <1>2, <1>3, <1>4, <1>5, <1>6, <1>7, <1>8, <1>9, <1>10 DEF Next

-----------------------------------------------------------------------------
\* The inductive invariant holds in every behaviour of the hub.
THEOREM Invariance == Spec => []HubInv
BY InitEstablishes, NextPreserves, PTL DEF Spec

\* Every variable keeps its type.
THEOREM TypeCorrect == Spec => []TypeOK
BY Invariance, PTL DEF HubInv

\* What GET shows is the first clip of the history, after any sequence of puts,
\* reaps, Clears and restarts, whatever TTLs the restarts chose.
THEOREM CurrentCorrect == Spec => []CurrentIsNewest
BY Invariance, PTL DEF HubInv

\* A put that was answered 201 and whose save did not fail stays in the store
\* until it expires or is cleared, through any crash and restart.
THEOREM Durability == Spec => []AckedDurable
BY Invariance, PTL DEF HubInv

\* What Clear removed, but for clips whose publish was under way, never returns
\* to the memory or to the table.
THEOREM ClearCorrect == Spec => []ClearedStaysCleared
BY Invariance, PTL DEF HubInv

\* No put takes a seq that was acknowledged and saved before.
THEOREM SeqFresh == Spec => NewSeqAboveAcked
<1>1. HubInv /\ [Next]_vars =>
          [\A i \in inflight' \ inflight, a \in acked \ lost :
              Persistent => i.seq > a.seq]_vars
    <2> SUFFICES ASSUME HubInv, Next, Persistent,
                        NEW i \in inflight' \ inflight, NEW a \in acked \ lost
                 PROVE  i.seq > a.seq
        OBVIOUS
    <2>1. PICK p \in Payloads : PutNew(p)
        BY DEF Next, PutDuplicate, PublishDeliver, Publish, PublishSave, PublishSaveFails,
               PublishEnd, Clear, ClearFails, Reap, ReapStore, Tick,
               Crash, Start, vars, memVars
    <2>2. i.seq = seq + 1
        BY <2>1, NewItemType DEF PutNew, HubInv
    <2>3. a.seq <= storeSeq /\ storeSeq <= publishedSeq /\ publishedSeq <= seq
        BY <2>1 DEF HubInv, AckedCounted, PublishTurn, PutNew
    <2> QED
        BY <2>2, <2>3 DEF HubInv, TypeOK, StoreTypeOK, Item
<1> QED
    BY <1>1, Invariance, PTL DEF Spec, NewSeqAboveAcked

\* Clips reach the table in sequence order, also across restarts, and none
\* before a clip that was committed earlier.
THEOREM InOrder == Spec => PersistInOrder
<1>1. HubInv /\ [Next]_vars =>
          [\A r \in rows' \ rows : r.seq > storeSeq
                                   /\ \A i \in inflight : i.seq >= r.seq]_vars
    <2> SUFFICES ASSUME HubInv, Next, NEW r \in rows' \ rows
                 PROVE  r.seq > storeSeq /\ \A i \in inflight : i.seq >= r.seq
        OBVIOUS
    <2>1. PublishSave /\ Persistent
        BY DEF Next, PutNew, PutDuplicate, PublishDeliver, Publish, PublishSave,
               PublishSaveFails, Clear, DeleteAll, ClearFails, Reap, ReapStore,
               DeleteExpired, Tick, Crash, Start, vars, storeVars
    <2>2. r = saving /\ saving \in inflight /\ saving.seq = publishedSeq + 1
        BY <2>1 DEF PublishSave, PublishEnd, SaveItem, HubInv, PublishTurn
    <2> QED
        BY <2>1, <2>2 DEF PublishSave, PublishEnd, HubInv, PublishTurn, TypeOK,
                          StoreTypeOK, Item
<1> QED
    BY <1>1, Invariance, PTL DEF Spec, PersistInOrder

-----------------------------------------------------------------------------
(***************************************************************************)
(* The hub implements HubContract.                                         *)
(***************************************************************************)

LEMMA InitRefines == Init => Contract!Init
BY DEF Init, StoreInit, Contract!Init

\* Only the end of a publish moves publishedSeq, and by one.
LEMMA PublishRefines ==
    ASSUME HubInv, Publish
    PROVE  Contract!Publish
<1>1. /\ up /\ saving \in inflight /\ saving.seq = publishedSeq + 1
      /\ saving.seq <= seq
      /\ publishedSeq' = publishedSeq + 1
      /\ UNCHANGED <<up, seq>>
    BY DEF Publish, PublishSave, PublishSaveFails, PublishEnd, HubInv,
           PublishTurn
<1>2. publishedSeq < seq
    BY <1>1 DEF HubInv, TypeOK
<1>3. CASE PublishSave /\ Persistent
    <2>1. \A r \in rows : r.seq < publishedSeq'
        BY <1>1, <1>3 DEF PublishSave, HubInv, RowsBelowCounter, PublishTurn, TypeOK,
                          StoreTypeOK, Item
    <2>2. rows' = rows \cup {saving}
        BY <1>1, <1>3, <2>1 DEF PublishSave, SaveItem, HubInv, TypeOK, StoreTypeOK, Item
    <2>3. storeSeq' = publishedSeq'
        BY <1>1, <1>3 DEF PublishSave, SaveItem, HubInv, PublishTurn, TypeOK,
                          StoreTypeOK, Item
    <2> QED
        BY <1>1, <1>2, <2>1, <2>2, <2>3 DEF Contract!Publish
<1>4. CASE PublishSaveFails \/ (PublishSave /\ ~ Persistent)
    BY <1>1, <1>2, <1>4 DEF PublishSaveFails, PublishSave, storeVars, Contract!Publish
<1> QED
    BY <1>3, <1>4 DEF Publish

LEMMA NextRefines == HubInv /\ [Next]_vars => [Contract!Next]_(Contract!vars)
<1> SUFFICES ASSUME HubInv, [Next]_vars
             PROVE  Contract!Next \/ UNCHANGED <<up, seq, publishedSeq, rows, storeSeq>>
    BY DEF Contract!vars
<1>1. CASE \E p \in Payloads : PutNew(p)
    BY <1>1 DEF PutNew, storeVars, Contract!Next, Contract!Commit
<1>2. CASE Publish
    BY <1>2, PublishRefines DEF Contract!Next
<1>3. CASE Clear
    BY <1>3 DEF Clear, DeleteAll, Contract!Next, Contract!Remove
<1>4. CASE \E now \in reaping : ReapStore(now)
    <2>1. rows' \subseteq rows /\ storeSeq' = storeSeq
        BY <1>4 DEF ReapStore, DeleteExpired, storeVars
    <2> QED
        BY <1>4, <2>1 DEF ReapStore, Contract!Next, Contract!Remove
<1>5. CASE Crash
    BY <1>5 DEF Crash, storeVars, Contract!Next, Contract!Stop
<1>6. CASE Start
    BY <1>6, LoadSeqIsCounter DEF HubInv, TypeOK, Start, PublishedAtStart, storeVars,
                                  Contract!Next, Contract!Resume
<1>7. CASE \/ \E p \in Payloads : PutDuplicate(p)
           \/ \E item \in inflight : PublishDeliver(item)
           \/ \E last \in 0 .. seq : Reap(last)
           \/ ClearFails \/ Tick \/ UNCHANGED vars
    BY <1>7 DEF PutDuplicate, PublishDeliver, Reap, ClearFails, Tick, vars, memVars,
                storeVars
<1> QED
    BY <1>1, <1>2, <1>3, <1>4, <1>5, <1>6, <1>7 DEF Next

\* Seen through h.seq, publishedSeq and the table, the hub is a numbered log.
THEOREM Refinement == Spec => HubMeetsContract
<1>1. HubInv /\ [Next]_vars => [Contract!Next]_(Contract!vars)
    BY NextRefines
<1> QED
    BY InitRefines, <1>1, Invariance, PTL DEF Spec, Contract!Spec, HubMeetsContract

-----------------------------------------------------------------------------
(***************************************************************************)
(* Whatever is in memory is in the table, in flight, expired or lost.      *)
(***************************************************************************)

\* Memory and table are finite, and without a store the table is empty.
FiniteStores ==
    /\ IsFiniteSet(history) /\ IsFiniteSet(rows)
    /\ ~ Persistent => rows = {}

\* PageLagsByInflight for the history; current is a part of it.
HistoryCovered ==
    Persistent =>
        \A i \in history \ lost : i \in rows \/ i \in inflight \/ MayBeExpired(i)

SourceInv == FiniteStores /\ HistoryCovered

LEMMA SourceInit == Init => SourceInv
BY FS_EmptySet DEF Init, StoreInit, SourceInv, FiniteStores, HistoryCovered

\* A put adds one clip to the history, and that is in flight.
LEMMA PutKeepsSource ==
    ASSUME HubInv, SourceInv, NEW p \in Payloads, PutNew(p)
    PROVE  SourceInv'
<1> USE DEF SourceInv, FiniteStores
<1>1. history' \subseteq history \cup {NewItem(p)} /\ NewItem(p) \in inflight'
      /\ inflight \subseteq inflight' /\ UNCHANGED <<rows, lost, clock>>
    BY NewestIsSubset DEF PutNew, Prepend, storeVars, ghostVars
<1>2. IsFiniteSet(history')
    BY <1>1, FS_AddElement, FS_Subset
<1>3. HistoryCovered'
    BY <1>1 DEF HistoryCovered, MayBeExpired
<1> QED
    BY <1>1, <1>2, <1>3

\* A clip leaves the flight for the table, or counts as lost.
LEMMA PublishKeepsSource ==
    ASSUME HubInv, SourceInv, Publish
    PROVE  SourceInv'
<1> USE DEF SourceInv, FiniteStores
<1>1. UNCHANGED <<history, clock>> /\ inflight' = inflight \ {saving}
    BY DEF Publish, PublishSave, PublishSaveFails, PublishEnd
<1>2. CASE PublishSave /\ Persistent
    <2>1. saving.seq > storeSeq /\ saving.seq \in Nat
        BY <1>2 DEF PublishSave, PublishEnd, HubInv, PublishTurn, TypeOK, StoreTypeOK, Item
    <2>2. rows' = rows \cup {saving}
        BY <1>2, <2>1 DEF PublishSave, SaveItem, HubInv, RowsBelowCounter, TypeOK,
                          StoreTypeOK, Item
    <2>3. IsFiniteSet(rows')
        BY <2>2, FS_AddElement
    <2>4. HistoryCovered'
        BY <1>1, <1>2, <2>2 DEF PublishSave, HistoryCovered, MayBeExpired
    <2> QED
        BY <1>1, <1>2, <2>3, <2>4
<1>3. CASE PublishSave /\ ~ Persistent
    BY <1>1, <1>3 DEF PublishSave, HistoryCovered, storeVars
<1>4. CASE PublishSaveFails
    BY <1>1, <1>4 DEF PublishSaveFails, HistoryCovered, MayBeExpired, storeVars
<1> QED
    BY <1>2, <1>3, <1>4 DEF Publish

\* What a reaper takes from the table has expired.
LEMMA ReapKeepsSource ==
    ASSUME HubInv, SourceInv,
           \/ \E last \in 0 .. seq : Reap(last)
           \/ \E now \in reaping : ReapStore(now)
    PROVE  SourceInv'
<1> USE DEF SourceInv, FiniteStores
<1>1. CASE \E last \in 0 .. seq : Reap(last)
    <2>1. history' \subseteq history /\ UNCHANGED <<rows, inflight, lost, clock>>
        BY <1>1 DEF Reap, storeVars, ghostVars
    <2>2. IsFiniteSet(history')
        BY <2>1, FS_Subset
    <2>3. HistoryCovered'
        BY <2>1 DEF HistoryCovered, MayBeExpired
    <2> QED
        BY <2>1, <2>2, <2>3
<1>2. CASE \E now \in reaping : ReapStore(now)
    <2>1. rows' \subseteq rows /\ UNCHANGED <<history, inflight, lost, clock>>
        BY <1>2 DEF ReapStore, DeleteExpired, storeVars, ghostVars
    <2>2. \A i \in rows \ rows' : i.exp <= clock
        BY <1>2 DEF ReapStore, DeleteExpired, storeVars, HubInv, MemoryInBounds, TypeOK,
                    StoreTypeOK, Item
    <2>3. IsFiniteSet(rows')
        BY <2>1, FS_Subset
    <2>4. HistoryCovered'
        BY <2>1, <2>2 DEF HistoryCovered, MayBeExpired
    <2> QED
        BY <2>1, <2>3, <2>4
<1> QED
    BY <1>1, <1>2

\* A Clear and a crash empty the memory, a start fills it from the table.
LEMMA RestKeepsSource ==
    ASSUME HubInv, SourceInv, Clear \/ Crash \/ Start \/ Tick \/ UNCHANGED vars
    PROVE  SourceInv'
<1> USE DEF SourceInv, FiniteStores
<1>1. CASE Clear
    BY <1>1, FS_EmptySet DEF Clear, DeleteAll, HistoryCovered
<1>2. CASE Crash
    BY <1>2, FS_EmptySet DEF Crash, HistoryCovered, storeVars
<1>3. CASE Start
    <2>1. history' \subseteq rows /\ UNCHANGED rows
        BY <1>3, NewestIsSubset DEF Start, storeVars
    <2>2. IsFiniteSet(history')
        BY <2>1, FS_Subset
    <2> QED
        BY <2>1, <2>2 DEF HistoryCovered
<1>4. CASE Tick
    BY <1>4 DEF Tick, HistoryCovered, MayBeExpired, HubInv, TypeOK, Item, memVars,
                storeVars, ghostVars
<1>5. CASE UNCHANGED vars
    BY <1>5 DEF HistoryCovered, MayBeExpired, vars, memVars, storeVars, ghostVars
<1> QED
    BY <1>1, <1>2, <1>3, <1>4, <1>5

LEMMA SourceNext == HubInv /\ SourceInv /\ [Next]_vars => SourceInv'
<1> SUFFICES ASSUME HubInv, SourceInv, [Next]_vars
             PROVE  SourceInv'
    OBVIOUS
<1>1. CASE \E p \in Payloads : PutNew(p)
    BY <1>1, PutKeepsSource
<1>2. CASE Publish
    BY <1>2, PublishKeepsSource
<1>3. CASE (\E last \in 0 .. seq : Reap(last)) \/ (\E now \in reaping : ReapStore(now))
    BY <1>3, ReapKeepsSource
<1>4. CASE Clear \/ Crash \/ Start \/ Tick \/ UNCHANGED vars
    BY <1>4, RestKeepsSource
<1>5. CASE (\E p \in Payloads : PutDuplicate(p)) \/ ClearFails
    BY <1>5, RestKeepsSource DEF PutDuplicate, ClearFails
<1>6. CASE \E item \in inflight : PublishDeliver(item)
    BY <1>6 DEF PublishDeliver, SourceInv, FiniteStores, HistoryCovered, MayBeExpired,
                storeVars, ghostVars
<1> QED
    BY <1>1, <1>2, <1>3, <1>4, <1>5, <1>6 DEF Next

LEMMA SourceAlways == Spec => [](HubInv /\ SourceInv)
BY Invariance, SourceInit, SourceNext, PTL DEF Spec

-----------------------------------------------------------------------------
(***************************************************************************)
(* Numbers, counter and flight.                                            *)
(***************************************************************************)

\* Every committed number that is not published has its clip in flight, and the
\* counter of the table is at what is published as long as no save failed.
CounterInv ==
    /\ up => \A n \in Nat : (publishedSeq < n /\ n <= seq) => \E i \in inflight : i.seq = n
    /\ (up /\ Persistent /\ lost = {}) => storeSeq = publishedSeq

LEMMA CounterNext == HubInv /\ CounterInv /\ [Next]_vars => CounterInv'
<1> SUFFICES ASSUME HubInv, CounterInv, [Next]_vars
             PROVE  CounterInv'
    OBVIOUS
<1>1. CASE \E p \in Payloads : PutNew(p)
    <2>1. PICK p \in Payloads : PutNew(p)
        BY <1>1
    <2>2. /\ up /\ seq' = seq + 1 /\ inflight' = inflight \cup {NewItem(p)}
          /\ NewItem(p).seq = seq + 1
          /\ UNCHANGED <<up, publishedSeq, storeSeq, lost>>
        BY <2>1, NewItemType DEF PutNew, HubInv, storeVars, ghostVars
    <2>3. ASSUME NEW n \in Nat, publishedSeq < n, n <= seq + 1
          PROVE  \E i \in inflight' : i.seq = n
        <3>1. CASE n = seq + 1
            BY <2>2, <3>1
        <3>2. CASE n # seq + 1
            <4>1. n <= seq
                BY <2>3, <3>2 DEF HubInv, TypeOK
            <4> QED
                BY <2>2, <2>3, <4>1 DEF CounterInv
        <3> QED
            BY <3>1, <3>2
    <2> QED
        BY <2>2, <2>3 DEF CounterInv
<1>2. CASE Publish
    <2>1. /\ up /\ saving \in inflight /\ saving.seq = publishedSeq + 1
          /\ publishedSeq' = publishedSeq + 1 /\ inflight' = inflight \ {saving}
          /\ UNCHANGED <<up, seq>>
        BY <1>2 DEF Publish, PublishSave, PublishSaveFails, PublishEnd, HubInv, PublishTurn
    <2>2. ASSUME NEW n \in Nat, publishedSeq + 1 < n, n <= seq
          PROVE  \E i \in inflight' : i.seq = n
        <3>1. PICK i \in inflight : i.seq = n
            BY <2>1, <2>2 DEF CounterInv, HubInv, TypeOK
        <3>2. i # saving
            BY <2>1, <2>2, <3>1 DEF HubInv, TypeOK
        <3> QED
            BY <2>1, <3>1, <3>2
    <2>3. (Persistent /\ lost' = {}) => storeSeq' = publishedSeq'
        <3>1. CASE PublishSave /\ Persistent
            BY <2>1, <3>1 DEF PublishSave, SaveItem, HubInv, PublishTurn, TypeOK,
                              StoreTypeOK, Item
        <3>2. CASE PublishSaveFails
            BY <3>2 DEF PublishSaveFails
        <3> QED
            BY <1>2, <3>1, <3>2 DEF Publish
    <2> QED
        BY <2>1, <2>2, <2>3 DEF CounterInv
<1>3. CASE Start
    BY <1>3, LoadSeqIsCounter DEF Start, PublishedAtStart, CounterInv, HubInv, TypeOK,
                                  StoreTypeOK, storeVars
<1>4. CASE Crash
    BY <1>4 DEF Crash, CounterInv
<1>5. CASE Clear
    BY <1>5 DEF Clear, DeleteAll, CounterInv
<1>6. CASE \E now \in reaping : ReapStore(now)
    BY <1>6 DEF ReapStore, DeleteExpired, CounterInv, storeVars, ghostVars
<1>7. CASE \/ \E p \in Payloads : PutDuplicate(p)
           \/ \E item \in inflight : PublishDeliver(item)
           \/ \E last \in 0 .. seq : Reap(last)
           \/ ClearFails \/ Tick \/ UNCHANGED vars
    BY <1>7 DEF PutDuplicate, PublishDeliver, Reap, ClearFails, Tick, CounterInv, vars,
                memVars, storeVars, ghostVars
<1> QED
    BY <1>1, <1>2, <1>3, <1>4, <1>5, <1>6, <1>7 DEF Next

LEMMA CounterAlways == Spec => [](HubInv /\ CounterInv)
<1>1. Init => CounterInv
    BY DEF Init, CounterInv
<1> QED
    BY <1>1, Invariance, CounterNext, PTL DEF Spec

\* No put waits for a number that nobody will publish, after any failed save, Clear,
\* crash and restart: the state half of EveryPutIsPublished, whatever is fair.
THEOREM PublishNotStuck == Spec => []NextIsInFlight
<1>1. HubInv /\ CounterInv => NextIsInFlight
    <2> SUFFICES ASSUME HubInv, CounterInv, up, publishedSeq < seq
                 PROVE  \E item \in inflight : Turn(item)
        BY DEF NextIsInFlight
    <2>1. publishedSeq + 1 \in Nat /\ publishedSeq < publishedSeq + 1 /\ publishedSeq + 1 <= seq
        BY DEF HubInv, TypeOK
    <2> QED
        BY <2>1 DEF CounterInv, Turn
<1> QED
    BY <1>1, CounterAlways, PTL

=============================================================================
