---------------------------- MODULE ReadsProofs ----------------------------
(***************************************************************************)
(* Proofs about HubReads: what a client learns by walking through the      *)
(* pages of the history or by looking up one clip, for every history,      *)
(* every limit, and any number of puts, expiries, Clears and restarts in   *)
(* between.                                                                *)
(***************************************************************************)
EXTENDS HubReads, HubProofs, WellFoundedInduction

-----------------------------------------------------------------------------
(***************************************************************************)
(* A page.                                                                 *)
(***************************************************************************)

\* Every set of numbers has a least one.
LEMMA LeastNumber ==
    ASSUME NEW S \in SUBSET Nat, S # {}
    PROVE  \E x \in S : \A y \in S : x <= y
<1>1. IsWellFoundedOn(OpToRel(<, Nat), Nat)
    BY NatLessThanWellFounded
<1>2. PICK x \in S : \A y \in S : ~ (<<y, x>> \in OpToRel(<, Nat))
    BY <1>1, WFMin
<1>3. \A y \in S : ~ (y < x)
    BY <1>2 DEF OpToRel
<1> QED
    BY <1>3

LEMMA LeastIsMin ==
    ASSUME NEW S \in SUBSET Nat, S # {}
    PROVE  Min(S) \in S /\ \A y \in S : Min(S) <= y
BY LeastNumber DEF Min

\* Of finitely many clips one has the highest seq.
LEMMA HighestClip ==
    ASSUME NEW S \in SUBSET Item, S # {}, NEW bound \in Nat, \A i \in S : i.seq <= bound
    PROVE  \E top \in S : \A i \in S : i.seq <= top.seq
<1> DEFINE Room == {bound - i.seq : i \in S}
<1>1. Room \subseteq Nat /\ Room # {}
    BY DEF Item
<1> HIDE DEF Room
<1>2. PICK least \in Room : \A room \in Room : least <= room
    BY <1>1, LeastNumber
<1>3. PICK top \in S : least = bound - top.seq
    BY <1>2 DEF Room
<1>4. \A i \in S : bound - i.seq \in Room
    BY DEF Room
<1>5. \A i \in S : i.seq <= top.seq
    BY <1>2, <1>3, <1>4 DEF Item
<1> QED
    BY <1>5

\* What is newer than one of the newest n is one of them.
LEMMA NewestIsUpward ==
    ASSUME NEW S \in SUBSET Item, IsFiniteSet(S), NEW n \in Nat,
           NEW i \in Newest(n, S), NEW j \in S, j.seq >= i.seq
    PROVE  j \in Newest(n, S)
<1>1. i \in S /\ Cardinality(Above(S, i)) < n
    BY DEF Newest, Above
<1>2. Above(S, j) \subseteq Above(S, i)
    BY <1>1 DEF Above, Item
<1>3. IsFiniteSet(Above(S, i))
    BY FS_Subset DEF Above
<1>4. Cardinality(Above(S, j)) <= Cardinality(Above(S, i))
    BY <1>2, <1>3, FS_Subset
<1>5. Cardinality(Above(S, j)) \in Nat /\ Cardinality(Above(S, i)) \in Nat
    BY <1>2, <1>3, FS_Subset, FS_CardinalityType
<1>6. Cardinality(Above(S, j)) < n
    BY <1>1, <1>4, <1>5
<1> QED
    BY <1>6 DEF Newest, Above

\* If fewer than n clips are taken although n were asked for, there are no more.
LEMMA NewestExhausts ==
    ASSUME NEW S \in SUBSET Item, IsFiniteSet(S), NEW bound \in Nat,
           \A i \in S : i.seq <= bound,
           NEW n \in Nat, Cardinality(Newest(n, S)) < n
    PROVE  Newest(n, S) = S
<1> DEFINE Rest == S \ Newest(n, S)
<1>1. SUFFICES ASSUME Rest # {} PROVE FALSE
    BY NewestIsSubset
<1>2. Rest \subseteq Item /\ \A i \in Rest : i.seq <= bound
    OBVIOUS
<1>3. PICK top \in Rest : \A i \in Rest : i.seq <= top.seq
    BY <1>1, <1>2, HighestClip
<1>4. Above(S, top) \subseteq Newest(n, S)
    BY <1>3 DEF Above, Item
<1>5. IsFiniteSet(Newest(n, S)) /\ Cardinality(Newest(n, S)) \in Nat
    BY NewestIsSubset, FS_Subset, FS_CardinalityType
<1>6. Cardinality(Above(S, top)) <= Cardinality(Newest(n, S))
    BY <1>4, <1>5, FS_Subset
<1>7. Cardinality(Above(S, top)) \in Nat
    BY <1>4, <1>5, FS_Subset, FS_CardinalityType
<1>8. Cardinality(Above(S, top)) < n
    BY <1>5, <1>6, <1>7
<1>9. top \in Newest(n, S)
    BY <1>8 DEF Newest, Above
<1> QED
    BY <1>9

\* A page has room for one clip at least.
LEMMA LimitIsPositive ==
    ASSUME NEW asked \in Limits
    PROVE  Limit(asked) \in Nat \ {0}
BY LimitsAssumption, LimitAssumption DEF Limit

\* Every clip below the cursor is on the page or below the next cursor; without a
\* next cursor it is on the page.
LEMMA PageLeavesNoGap ==
    ASSUME PageSource \subseteq Item, IsFiniteSet(PageSource), NEW bound \in Nat,
           \A i \in PageSource : i.seq <= bound,
           NEW limit \in Nat \ {0}, NEW before \in Nat,
           NEW i \in PageSource, before = 0 \/ i.seq < before
    PROVE  /\ HasMore(limit, before) => /\ NextCursor(limit, before) \in Nat \ {0}
                                        /\ \/ i \in PageItems(limit, before)
                                           \/ i.seq < NextCursor(limit, before)
           /\ ~ HasMore(limit, before) => i \in PageItems(limit, before)
<1> DEFINE Source == {k \in PageSource : before = 0 \/ k.seq < before}
           Taken == Fetched(limit, before)
           Page == PageItems(limit, before)
<1>1. Source \subseteq Item /\ IsFiniteSet(Source) /\ i \in Source
      /\ \A k \in Source : k.seq <= bound
    BY FS_Subset
<1>2. Taken = Newest(limit + 1, Source) /\ Page = Newest(limit, Taken)
    BY DEF Fetched, PageItems
<1>3. Taken \subseteq Source /\ Page \subseteq Taken
    BY <1>2, NewestIsSubset
<1>4. IsFiniteSet(Taken) /\ Cardinality(Taken) \in Nat
    BY <1>1, <1>3, FS_Subset, FS_CardinalityType
<1> HIDE DEF Source, Taken, Page
<1>5. ASSUME ~ HasMore(limit, before)
      PROVE  i \in Page
    <2>1. Cardinality(Taken) <= limit
        BY <1>4, <1>5 DEF HasMore, Taken
    <2>2. Taken = Source
        BY <1>1, <1>2, <1>4, <2>1, NewestExhausts
    <2>3. i \in Taken
        BY <1>1, <2>2
    <2>4. \A j \in Taken : Cardinality(Above(Taken, j)) < limit
        <3>1. TAKE j \in Taken
        <3>2. Above(Taken, j) \subseteq Taken \ {j}
            BY <1>1, <1>3 DEF Above, Item
        <3>3. IsFiniteSet(Taken \ {j}) /\ Cardinality(Taken \ {j}) = Cardinality(Taken) - 1
            BY <1>4, FS_RemoveElement
        <3>4. Cardinality(Above(Taken, j)) <= Cardinality(Taken) - 1
              /\ Cardinality(Above(Taken, j)) \in Nat
            BY <3>2, <3>3, FS_Subset, FS_CardinalityType
        <3> QED
            BY <1>4, <2>1, <3>4
    <2> QED
        BY <1>2, <2>3, <2>4 DEF Newest, Above
<1>6. ASSUME HasMore(limit, before)
      PROVE  /\ NextCursor(limit, before) \in Nat \ {0}
             /\ i \in Page \/ i.seq < NextCursor(limit, before)
    <2>1. Cardinality(Taken) > limit
        BY <1>6 DEF HasMore, Taken
    <2>2. Taken # {}
        BY <1>4, <2>1, FS_EmptySet
    <2>3. PICK top \in Taken : \A k \in Taken : k.seq <= top.seq
        BY <1>1, <1>3, <2>2, HighestClip
    <2>4. top \in Page
        <3>1. Above(Taken, top) = {}
            BY <1>1, <1>3, <2>3 DEF Above, Item
        <3>2. Cardinality(Above(Taken, top)) < limit
            BY <3>1, FS_EmptySet
        <3> QED
            BY <1>2, <3>2 DEF Newest, Above
    <2>5. Seqs(Page) \subseteq Nat \ {0} /\ Seqs(Page) # {}
        BY <1>1, <1>3, <2>4 DEF Seqs, Item
    <2>6. /\ NextCursor(limit, before) \in Seqs(Page)
          /\ \A n \in Seqs(Page) : NextCursor(limit, before) <= n
        BY <2>5, LeastIsMin DEF NextCursor, Page
    <2>7. PICK last \in Page : last.seq = NextCursor(limit, before)
        BY <2>6 DEF Seqs
    <2>8. ASSUME i.seq >= last.seq
          PROVE  i \in Page
        <3>1. last \in Taken
            BY <1>3
        <3>2. i \in Taken
            BY <1>1, <1>2, <2>8, <3>1, NewestIsUpward
        <3>3. Taken \subseteq Item
            BY <1>1, <1>3
        <3> QED
            BY <1>2, <1>4, <2>8, <3>2, <3>3, NewestIsUpward
    <2> QED
        BY <1>1, <2>5, <2>6, <2>7, <2>8 DEF Item
<1> QED
    BY <1>5, <1>6 DEF Page

\* A page that is not the last one is not empty, so that its cursor is a seq.
LEMMA CursorIsNumber ==
    ASSUME PageSource \subseteq Item, IsFiniteSet(PageSource), NEW bound \in Nat,
           \A i \in PageSource : i.seq <= bound,
           NEW limit \in Nat \ {0}, NEW before \in Nat, HasMore(limit, before)
    PROVE  NextCursor(limit, before) \in Nat \ {0}
<1> DEFINE Source == {k \in PageSource : before = 0 \/ k.seq < before}
<1>1. Fetched(limit, before) # {}
    <2>1. Fetched(limit, before) \subseteq PageSource
        BY NewestIsSubset DEF Fetched
    <2>2. IsFiniteSet(Fetched(limit, before))
        BY <2>1, FS_Subset
    <2> QED
        BY <2>2, FS_EmptySet DEF HasMore
<1>2. PICK i \in Fetched(limit, before) : TRUE
    BY <1>1
<1>3. i \in Source
    BY NewestIsSubset DEF Fetched
<1> QED
    BY <1>3, PageLeavesNoGap

-----------------------------------------------------------------------------
(***************************************************************************)
(* Every step of HubReads is one of Hub, or none.                          *)
(***************************************************************************)

LEMMA ReadsStepsHub == [ReadsNext]_readsVars => [Next]_vars
BY DEF ReadsNext, HubMoves, BeginWalk, NextPage, PageFails, ReadAtOnce, LookUp,
       LookUpStore, LookUpFails, readsVars

\* Readers change nothing in the hub: with them it is the hub of module Hub.
THEOREM ReadsImplementHub == ReadsSpec => Spec
<1>1. ReadsInit => Init
    BY DEF ReadsInit
<1> QED
    BY <1>1, ReadsStepsHub, PTL DEF ReadsSpec, Spec

LEMMA HubAlways == ReadsSpec => [](HubInv /\ SourceInv)
BY ReadsImplementHub, SourceAlways, PTL

\* The paged history lags the memory by the clips in flight and by nothing else.
THEOREM PageLag == ReadsSpec => []PageLagsByInflight
<1>1. HubInv /\ SourceInv => PageLagsByInflight
    BY DEF HubInv, CurrentIsNewest, SourceInv, HistoryCovered, PageLagsByInflight,
           CurrentAnswer
<1> QED
    BY <1>1, HubAlways, PTL

\* A clip of the table that the memory does not have does not come back into the
\* memory, but by a start.
LEMMA MemoryRegainsNothing ==
    ASSUME HubInv, [Next]_vars, up
    PROVE  history' \cap rows \subseteq history
<1>1. CASE \E p \in Payloads : PutNew(p)
    <2>1. PICK p \in Payloads : PutNew(p)
        BY <1>1
    <2>2. history' \subseteq history \cup {NewItem(p)}
        BY <2>1, NewestIsSubset DEF PutNew, Prepend
    <2>3. NewItem(p) \notin rows
        BY NewItemType DEF HubInv, ClipsAreOld, TypeOK, StoreTypeOK, Item
    <2> QED
        BY <2>2, <2>3
<1>2. CASE ~ \E p \in Payloads : PutNew(p)
    BY <1>2 DEF Next, PutDuplicate, PublishDeliver, Publish, PublishSave, PublishSaveFails,
                PublishEnd, Clear, ClearFails, Reap, ReapStore, Tick, Crash, Start, vars,
                memVars
<1> QED
    BY <1>1, <1>2

-----------------------------------------------------------------------------
(***************************************************************************)
(* The invariant of the readers.                                           *)
(***************************************************************************)

\* What a walking client has not got yet is below its cursor.
WalkInv ==
    /\ reader = "walking" =>
          due \subseteq PageSource /\ \A i \in due : i \in got \/ at = 0 \/ i.seq < at
    /\ WalkMissesNothing

\* What a look-up did not find in the memory is in the table, and stays there or
\* leaves the hub.
LookUpInv ==
    /\ reader = "missed" =>
          /\ up
          /\ due \subseteq rows /\ due \cap history = {}
          /\ \A i \in due : i.seq = at
    /\ LookUpFindsHeld

ReaderInv == at \in Nat /\ WalkInv /\ LookUpInv

LEMMA ReaderInit == ReadsInit => ReaderInv
BY DEF ReadsInit, ReaderInv, WalkInv, WalkMissesNothing, LookUpInv, LookUpFindsHeld

LEMMA SourceBounds ==
    ASSUME HubInv, SourceInv
    PROVE  /\ PageSource \subseteq Item /\ IsFiniteSet(PageSource)
           /\ \E bound \in Nat : \A i \in PageSource : i.seq <= bound
<1>1. CASE Persistent
    BY <1>1 DEF PageSource, HubInv, TypeOK, StoreTypeOK, RowsBelowCounter, SourceInv,
                FiniteStores
<1>2. CASE ~ Persistent
    BY <1>2 DEF PageSource, HubInv, TypeOK, MemoryInBounds, SourceInv, FiniteStores
<1> QED
    BY <1>1, <1>2

LEMMA PageKeepsReader ==
    ASSUME HubInv, SourceInv, ReaderInv, NEW asked \in Limits, NextPage(asked)
    PROVE  ReaderInv'
<1> DEFINE limit == Limit(asked)
<1>1. limit \in Nat \ {0}
    BY LimitIsPositive
<1>2. PICK bound \in Nat : \A i \in PageSource : i.seq <= bound
    BY SourceBounds
<1>3. /\ reader = "walking" /\ at \in Nat
      /\ due \subseteq PageSource /\ due' = due
      /\ \A i \in due : i \in got \/ at = 0 \/ i.seq < at
      /\ got' = got \cup PageItems(limit, at)
    BY DEF NextPage, ReaderInv, WalkInv
<1>4. UNCHANGED <<rows, history>>
    BY DEF NextPage, vars, memVars, storeVars
<1> HIDE DEF limit
<1>5. ASSUME NEW i \in due, i \notin got
      PROVE  /\ HasMore(limit, at) => /\ NextCursor(limit, at) \in Nat \ {0}
                                      /\ \/ i \in PageItems(limit, at)
                                         \/ i.seq < NextCursor(limit, at)
             /\ ~ HasMore(limit, at) => i \in PageItems(limit, at)
    BY <1>1, <1>2, <1>3, <1>5, SourceBounds, PageLeavesNoGap
<1>6. CASE ~ HasMore(limit, at)
    <2>1. reader' = "walked" /\ at' = at
        BY <1>6 DEF NextPage, limit
    <2>2. due' \subseteq got'
        BY <1>3, <1>5, <1>6
    <2> QED
        BY <1>3, <2>1, <2>2 DEF ReaderInv, WalkInv, WalkMissesNothing, LookUpInv,
                                LookUpFindsHeld
<1>7. CASE HasMore(limit, at)
    <2>1. reader' = "walking" /\ at' = NextCursor(limit, at)
        BY <1>3, <1>7 DEF NextPage, limit
    <2>2. at' \in Nat
        BY <1>1, <1>2, <1>3, <1>7, <2>1, SourceBounds, CursorIsNumber
    <2>3. \A i \in due' : i \in got' \/ i.seq < at'
        BY <1>3, <1>5, <1>7, <2>1
    <2>4. due' \subseteq PageSource'
        BY <1>3, <1>4 DEF PageSource
    <2> QED
        BY <2>1, <2>2, <2>3, <2>4 DEF ReaderInv, WalkInv, WalkMissesNothing, LookUpInv,
                                      LookUpFindsHeld
<1> QED
    BY <1>6, <1>7

LEMMA HubKeepsReader ==
    ASSUME HubInv, SourceInv, ReaderInv, HubMoves
    PROVE  ReaderInv'
<1>1. CASE reader = "walking"
    BY <1>1 DEF HubMoves, ReaderInv, WalkInv, WalkMissesNothing, LookUpInv, LookUpFindsHeld
<1>2. CASE reader = "missed" /\ up'
    <2>1. up /\ due \subseteq rows /\ due \cap history = {} /\ \A i \in due : i.seq = at
        BY <1>2 DEF ReaderInv, LookUpInv
    <2>2. due' = due \cap (history' \cup rows') /\ UNCHANGED <<reader, at, got>>
        BY <1>2 DEF HubMoves, Held
    <2>3. history' \cap rows \subseteq history
        BY <2>1, MemoryRegainsNothing DEF HubMoves
    <2>4. due' \subseteq rows' /\ due' \cap history' = {}
        BY <2>1, <2>2, <2>3
    <2> QED
        BY <1>2, <2>1, <2>2, <2>4 DEF ReaderInv, WalkInv, WalkMissesNothing, LookUpInv,
                                      LookUpFindsHeld
<1>3. CASE ~ (reader = "walking") /\ ~ (reader = "missed" /\ up')
    BY <1>3 DEF HubMoves, Forget, ReaderInv, WalkInv, WalkMissesNothing, LookUpInv,
                LookUpFindsHeld
<1> QED
    BY <1>1, <1>2, <1>3

LEMMA LookUpKeepsReader ==
    ASSUME HubInv, SourceInv, ReaderInv,
           (\E n \in 1 .. MaxSeq : LookUp(n)) \/ LookUpStore
    PROVE  ReaderInv'
<1> USE DEF ReaderInv, WalkInv, WalkMissesNothing, LookUpInv, LookUpFindsHeld
<1>1. CASE \E n \in 1 .. MaxSeq : LookUp(n)
    <2>1. PICK n \in 1 .. MaxSeq : LookUp(n)
        BY <1>1
    <2>2. at' = n /\ n \in Nat /\ up /\ UNCHANGED <<up, rows, history>>
          /\ due' = {i \in history \cup rows : i.seq = n}
          /\ reader' \in {"missed", "found"}
        BY <2>1, BoundsAssumption DEF LookUp, Held, vars, memVars, storeVars
    <2>3. CASE InMemory(n) = {}
        <3>1. ~ \E i \in history : i.seq = n
            BY <2>3 DEF InMemory
        <3> QED
            BY <2>2, <3>1
    <2>4. CASE InMemory(n) # {}
        BY <2>1, <2>2, <2>4 DEF LookUp
    <2> QED
        BY <2>3, <2>4
<1>2. CASE LookUpStore
    <2>1. due \subseteq rows /\ (\A i \in due : i.seq = at) /\ UNCHANGED <<at, due>>
          /\ reader' = IF InStore(at) = {} THEN "notFound" ELSE "found"
        BY <1>2 DEF LookUpStore
    <2>2. InStore(at) = {} => due = {}
        BY <2>1 DEF InStore, SourceInv, FiniteStores
    <2> QED
        BY <2>1, <2>2
<1> QED
    BY <1>1, <1>2

LEMMA ReaderNext ==
    HubInv /\ SourceInv /\ ReaderInv /\ [ReadsNext]_readsVars => ReaderInv'
<1> SUFFICES ASSUME HubInv, SourceInv, ReaderInv, [ReadsNext]_readsVars
             PROVE  ReaderInv'
    OBVIOUS
<1> USE DEF ReaderInv, WalkInv, WalkMissesNothing, LookUpInv, LookUpFindsHeld
<1>1. CASE HubMoves
    BY <1>1, HubKeepsReader
<1>2. CASE BeginWalk
    BY <1>2 DEF BeginWalk, PageSource, vars, memVars, storeVars
<1>3. CASE \E asked \in Limits : NextPage(asked)
    BY <1>3, PageKeepsReader
<1>4. CASE PageFails \/ LookUpFails
    BY <1>4 DEF PageFails, LookUpFails, Forget
<1>5. CASE ReadAtOnce
    BY <1>5 DEF ReadAtOnce
<1>6. CASE (\E n \in 1 .. MaxSeq : LookUp(n)) \/ LookUpStore
    BY <1>6, LookUpKeepsReader
<1>7. CASE UNCHANGED readsVars
    BY <1>7 DEF readsVars, readVars, PageSource, vars, memVars, storeVars
<1> QED
    BY <1>1, <1>2, <1>3, <1>4, <1>5, <1>6, <1>7 DEF ReadsNext

LEMMA ReaderAlways == ReadsSpec => []ReaderInv
BY HubAlways, ReaderInit, ReaderNext, PTL DEF ReadsSpec

\* A client that follows the cursors to the end has seen every clip that was there
\* all the time, for every page size and history, however the hub changed meanwhile.
THEOREM WalkComplete == ReadsSpec => []WalkMissesNothing
BY ReaderAlways, PTL DEF ReaderInv, WalkInv

\* A look-up answers 404 only for a seq that was not held all the while.
THEOREM LookUpComplete == ReadsSpec => []LookUpFindsHeld
BY ReaderAlways, PTL DEF ReaderInv, LookUpInv

-----------------------------------------------------------------------------
LEMMA ReadsTypesNext ==
    HubInv /\ SourceInv /\ ReaderInv /\ ReadsTypeOK /\ [ReadsNext]_readsVars => ReadsTypeOK'
<1> SUFFICES ASSUME HubInv, SourceInv, ReaderInv, ReadsTypeOK, [ReadsNext]_readsVars
             PROVE  ReadsTypeOK'
    OBVIOUS
<1> USE DEF ReadsTypeOK
<1>1. at' \in Nat
    BY ReaderNext DEF ReaderInv
<1>2. /\ PageSource \subseteq Item
      /\ history \subseteq Item /\ rows \subseteq Item /\ CurrentAnswer \subseteq Item
    BY SourceBounds DEF HubInv, TypeOK, StoreTypeOK, CurrentAnswer, CurrentIsNewest
<1>3. CASE HubMoves
    BY <1>1, <1>3 DEF HubMoves, Forget
<1>4. CASE BeginWalk
    BY <1>1, <1>2, <1>4 DEF BeginWalk
<1>5. CASE \E asked \in Limits : NextPage(asked)
    <2>1. PICK asked \in Limits : NextPage(asked)
        BY <1>5
    <2>2. PageItems(Limit(asked), at) \subseteq PageSource
        BY NewestIsSubset DEF PageItems, Fetched
    <2> QED
        BY <1>1, <1>2, <2>1, <2>2 DEF NextPage
<1>6. CASE PageFails \/ LookUpFails
    BY <1>1, <1>6 DEF PageFails, LookUpFails, Forget
<1>7. CASE ReadAtOnce
    <2>1. \A limit : HistoryAnswer(limit) \subseteq history
        BY NewestIsSubset DEF HistoryAnswer
    <2> QED
        BY <1>1, <1>2, <1>7, <2>1 DEF ReadAtOnce
<1>8. CASE (\E n \in 1 .. MaxSeq : LookUp(n)) \/ LookUpStore
    BY <1>1, <1>2, <1>8 DEF LookUp, LookUpStore, InMemory, InStore, Held
<1>9. CASE UNCHANGED readsVars
    BY <1>9 DEF readsVars, readVars
<1> QED
    BY <1>3, <1>4, <1>5, <1>6, <1>7, <1>8, <1>9 DEF ReadsNext

\* What a reader holds are clips, and its cursor is a number, also that of the page
\* after a full one.
THEOREM ReadsTypes == ReadsSpec => []ReadsTypeOK
<1>1. ReadsInit => ReadsTypeOK
    BY DEF ReadsInit, ReadsTypeOK
<1> QED
    BY <1>1, ReadsTypesNext, HubAlways, ReaderAlways, PTL DEF ReadsSpec

=============================================================================
