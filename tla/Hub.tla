-------------------------------- MODULE Hub --------------------------------
(***************************************************************************)
(* The clipboard broker (internal/hub/hub.go) over its SQLite store.       *)
(*                                                                         *)
(* A put has two halves.  Under h.mu it commits the clip in memory         *)
(* (PutNew); with h.mu released it publishes it: it waits for its turn in  *)
(* sequence order, hands the clip to the subscribers (PublishDeliver) and  *)
(* saves it (PublishSave...), and only then does the request answer.       *)
(* Other puts, Clear, the TTL reaper, the goroutine that deletes expired   *)
(* rows, a crash and a restart come between any two of these steps.        *)
(*                                                                         *)
(* history is the slice h.history as a set: every put prepends under h.mu, *)
(* so the order of the slice is the descending order of seq.               *)
(*                                                                         *)
(* Time is a clock of whole seconds.  Within one second the order of two   *)
(* moments is known only for the expiry of two clips, which follows seq.   *)
(***************************************************************************)
EXTENDS ClipStore

CONSTANTS
    MaxHistory,      \* Config.MaxHistory
    TTLs,            \* the values Config.TTL may have, one choice per start
    Persistent,      \* Config.DBPath # ""
    DiskFaults,      \* may a statement of the store fail?
    Null,            \* a nil *ClipItem
    MaxSeq, MaxClock, MaxRuns   \* bounds: clips, seconds, starts of the hub

ASSUME MaxHistoryAssumption == MaxHistory \in Nat \ {0}
ASSUME TTLsAssumption == TTLs \subseteq Nat \ {0} /\ TTLs # {}
ASSUME SwitchesAssumption == Persistent \in BOOLEAN /\ DiskFaults \in BOOLEAN
ASSUME NullAssumption == Null \notin Item
ASSUME BoundsAssumption == MaxSeq \in Nat /\ MaxClock \in Nat /\ MaxRuns \in Nat

VARIABLES
    up, run,         \* is the hub running, and how many times it was started
    ttl,             \* h.ttl
    current,         \* h.current
    history,         \* h.history
    seq,             \* h.seq
    publishedSeq,    \* h.publishedSeq
    inflight,        \* clips committed by a Put whose publish has not returned
    saving,          \* the clip whose publish holds publishMu after the fan-out
    reaping,         \* the now of each goroutine about to call DeleteExpired
    clock,           \* the wall clock
    \* What the properties need to remember of the past:
    acked,           \* clips whose Put returned: the request answers 201
    lost,            \* clips whose SaveItem failed, which publish only logs
    wiped,           \* clips that some Clear found in the hub
    racing           \* the wiped ones whose publish was still under way

memVars == <<ttl, current, history, seq, publishedSeq, inflight, saving, reaping>>
ghostVars == <<acked, lost, wiped, racing>>
vars == <<up, run, memVars, clock, storeVars, ghostVars>>

TypeOK ==
    /\ StoreTypeOK
    /\ up \in BOOLEAN
    /\ run \in Nat /\ clock \in Nat /\ seq \in Nat /\ publishedSeq \in Nat
    /\ ttl \in TTLs
    /\ current \in Item \cup {Null}
    /\ saving \in Item \cup {Null}
    /\ history \subseteq Item /\ inflight \subseteq Item
    /\ reaping \subseteq Nat
    /\ acked \subseteq Item /\ lost \subseteq Item
    /\ wiped \subseteq Item /\ racing \subseteq Item

Init ==
    /\ StoreInit
    /\ up = FALSE /\ run = 0 /\ clock = 0
    /\ ttl \in TTLs
    /\ current = Null /\ history = {} /\ seq = 0
    /\ publishedSeq = 0 /\ inflight = {} /\ saving = Null
    /\ reaping = {}
    /\ acked = {} /\ lost = {} /\ wiped = {} /\ racing = {}

-----------------------------------------------------------------------------
\* The hub serves requests one half-step at a time.

Duplicate(p) == current # Null /\ current.payload = p

NewItem(p) == [seq |-> seq + 1, run |-> run, payload |-> p, exp |-> clock + ttl]

\* Mutant: the history is not cut to its depth.
PrependUncut(item) == history \cup {item}

\* Prepend, then truncate.
Prepend(item) == Newest(MaxHistory, history \cup {item})

\* Put, the part under h.mu.
PutNew(p) ==
    /\ up
    /\ seq < MaxSeq
    /\ ~ Duplicate(p)
    /\ seq' = seq + 1
    /\ current' = NewItem(p)
    /\ history' = Prepend(NewItem(p))
    /\ inflight' = inflight \cup {NewItem(p)}
    /\ UNCHANGED <<up, run, ttl, publishedSeq, saving, reaping, clock, storeVars, ghostVars>>

\* Put of what is current already: answers the current clip at once.
PutDuplicate(p) ==
    /\ up
    /\ Duplicate(p)
    /\ UNCHANGED vars

\* Mutant: a publish does not wait for its turn.
AnyTurn(item) == TRUE

\* The condition that publish waits for: the predecessor was published.
Turn(item) == item.seq = publishedSeq + 1

\* publish up to the fan-out; publishMu is held from here to the end of publish.
PublishDeliver(item) ==
    /\ up
    /\ item \in inflight
    /\ saving = Null
    /\ Turn(item)
    /\ saving' = item
    /\ UNCHANGED <<up, run, ttl, current, history, seq, publishedSeq, inflight, reaping,
                   clock, storeVars, ghostVars>>

\* The end of publish and of Put, whatever became of the save.
PublishEnd ==
    /\ up
    /\ saving # Null
    /\ publishedSeq' = saving.seq
    /\ inflight' = inflight \ {saving}
    /\ saving' = Null
    /\ acked' = acked \cup {saving}
    /\ UNCHANGED <<up, run, ttl, current, history, seq, reaping, clock, wiped, racing>>

\* The save, for a hub that has a store.
PublishSave ==
    /\ PublishEnd
    /\ IF Persistent THEN SaveItem(saving) ELSE UNCHANGED storeVars
    /\ UNCHANGED lost

PublishSaveFails ==
    /\ PublishEnd
    /\ Persistent /\ DiskFaults
    /\ lost' = lost \cup {saving}
    /\ UNCHANGED storeVars

Publish == PublishSave \/ PublishSaveFails

-----------------------------------------------------------------------------
\* Clear holds h.mu, so no Put commits meanwhile; it does not take publishMu.
Clear ==
    /\ up
    /\ DeleteAll
    /\ current' = Null
    /\ history' = {}
    /\ wiped' = wiped \cup history \cup rows \cup inflight
    /\ racing' = racing \cup inflight
    /\ UNCHANGED <<up, run, ttl, seq, publishedSeq, inflight, saving, reaping, clock,
                   acked, lost>>

\* DeleteAll fails: Clear returns before it touches the memory.
ClearFails ==
    /\ up
    /\ Persistent /\ DiskFaults
    /\ UNCHANGED vars

\* now.After(ExpiresAt), for a reaper whose now falls in this second after the
\* expiry of the clip numbered last and before that of the next one.
IsExpired(i, last) == i.exp < clock \/ (i.exp = clock /\ i.seq <= last)

\* Mutant: the reaper leaves current alone.
CurrentNeverReaped(last) == current

\* Mutant: current expires at its ExpiresAt, the history only after it.
CurrentReapedEarly(last) ==
    IF current # Null /\ current.exp <= clock THEN Null ELSE current

CurrentAfterReap(last) ==
    IF current # Null /\ IsExpired(current, last) THEN Null ELSE current

\* Mutant: no goroutine is started to delete the rows.
ReapersAsBefore == reaping

ReapersAfterReap == IF Persistent THEN reaping \cup {clock} ELSE reaping

\* reapExpired.  The rows are deleted later, by a goroutine of their own.
Reap(last) ==
    /\ up
    /\ current' = CurrentAfterReap(last)
    /\ history' = {i \in history : ~ IsExpired(i, last)}
    /\ reaping' = ReapersAfterReap
    /\ UNCHANGED <<up, run, ttl, seq, publishedSeq, inflight, saving, clock, storeVars,
                   ghostVars>>

\* The goroutine that Reap started.
ReapStore(now) ==
    /\ up
    /\ now \in reaping
    /\ reaping' = reaping \ {now}
    /\ \/ DeleteExpired(now)
       \/ DiskFaults /\ UNCHANGED storeVars
    /\ UNCHANGED <<up, run, ttl, current, history, seq, publishedSeq, inflight, saving,
                   clock, ghostVars>>

-----------------------------------------------------------------------------
Tick ==
    /\ clock < MaxClock
    /\ clock' = clock + 1
    /\ UNCHANGED <<up, run, memVars, storeVars, ghostVars>>

\* The process ends, between any two steps: everything but the store is gone.
\* A graceful stop is the case in which nothing is in flight.
Crash ==
    /\ up
    /\ run < MaxRuns
    /\ up' = FALSE
    /\ current' = Null /\ history' = {} /\ seq' = 0
    /\ publishedSeq' = 0 /\ inflight' = {} /\ saving' = Null
    /\ reaping' = {}
    /\ UNCHANGED <<run, ttl, clock, storeVars, ghostVars>>

\* Mutant: publishedSeq is left at its zero value.
PublishedFromZero == 0

\* What counts as published at a start: all that the store has counted.
PublishedAtStart == LoadSeq

\* items[0] of LoadState.
IsFirstRow(r) == \A s \in rows : s.seq <= r.seq

\* New: the counter and the newest rows, expired or not, come from the store.
Start ==
    /\ ~ up
    /\ up' = TRUE
    /\ run' = run + 1
    /\ ttl' \in TTLs
    /\ seq' = LoadSeq
    /\ publishedSeq' = PublishedAtStart
    /\ history' = Newest(MaxHistory, rows)
    /\ IF rows = {}
       THEN current' = Null
       ELSE \E r \in rows : IsFirstRow(r) /\ current' = r
    /\ UNCHANGED <<inflight, saving, reaping, clock, storeVars, ghostVars>>

Next ==
    \/ \E p \in Payloads : PutNew(p) \/ PutDuplicate(p)
    \/ \E item \in inflight : PublishDeliver(item)
    \/ Publish
    \/ Clear \/ ClearFails
    \/ \E last \in 0 .. seq : Reap(last)
    \/ \E now \in reaping : ReapStore(now)
    \/ Tick \/ Crash \/ Start

Spec == Init /\ [][Next]_vars

\* A goroutine that can run does run, a statement of SQLite returns, and the
\* ticker of reapLoop keeps ticking.  Of the deletions that are tried again and
\* again one succeeds.  Nothing forces a put, a Clear or a crash.
FairSpec ==
    /\ Spec
    /\ WF_vars(\E item \in inflight : PublishDeliver(item))
    /\ WF_vars(Publish)
    /\ WF_vars(\E last \in 0 .. seq : Reap(last))
    /\ WF_vars(\E now \in reaping : ReapStore(now))
    /\ SF_vars(\E now \in reaping : ReapStore(now) /\ DeleteExpired(now))

-----------------------------------------------------------------------------
(***************************************************************************)
(* What the hub promises.                                                  *)
(***************************************************************************)

\* A moment that is certainly after the expiry of i, or in the same second.
MayBeExpired(i) == i.exp <= clock

\* What GET /api/clip shows is always the first clip of the history: neither a
\* reaped history, nor a Clear, nor a restart leaves an older or a foreign
\* clip as current (Put, Clear, reapExpired and New each assign both fields).
CurrentIsNewest ==
    current # Null =>
        /\ current \in history
        /\ \A i \in history : i.seq <= current.seq
        /\ current.seq <= seq

\* With one TTL for the life of the store the converse holds as well: as long
\* as the history has a clip, current is not nil.
CurrentUnlessEmpty == history # {} => current # Null

\* A clip whose put was answered 201 stays in the store until it expires or a
\* Clear asks for its removal, through any crash and restart; the exception is
\* the failed save, which publish logs and answers 201 all the same.  It could
\* go wrong by INSERT OR REPLACE under a seq that was handed out twice.
AckedDurable ==
    Persistent => \A i \in acked \ lost : i \in rows \/ i \in wiped \/ MayBeExpired(i)

\* A new clip never takes the seq of a clip that was acknowledged and saved,
\* although Clear and the reaper empty the table and restarts read the counter
\* back from it (the comment of DeleteAll: "so future clips remain monotonic").
NewSeqAboveAcked ==
    [][\A i \in inflight' \ inflight, a \in acked \ lost :
          Persistent => i.seq > a.seq]_vars

\* Clips reach the table in sequence order, each one once, also across restarts,
\* and none overtakes a clip that was committed before it: the promise of
\* publishMu, that "persistence and subscriber delivery stay monotonic after h.mu
\* is released".
PersistInOrder ==
    [][\A r \in rows' \ rows : r.seq > storeSeq /\ \A i \in inflight : i.seq >= r.seq]_vars

\* What Clear removed stays removed, in memory and in the table and after any
\* restart, but for the clips whose publish was under way at that moment.
ClearedStaysCleared == (wiped \ racing) \cap (history \cup rows) = {}

\* The window that a restart would load is the window that the hub serves, as
\* soon as nothing is in flight: the memory and the table, which Put, Clear and
\* the reaper change at different moments, agree again on every clip that has
\* not expired and was neither raced by a Clear nor failed to be saved.
WindowSurvivesRestart ==
    LET Settled(items) == {i \in items \ racing : ~ MayBeExpired(i)}
    IN  (up /\ Persistent /\ inflight = {} /\ lost = {}) =>
            Settled(Newest(MaxHistory, rows)) = Settled(history)

\* The hub implements its contract: committed is h.seq and the log is the table.
Contract == INSTANCE HubContract
                WITH committed <- seq, published <- publishedSeq,
                     log <- rows, last <- storeSeq

\* Puts, publishes, Clears, reaps, crashes and starts are steps of HubContract or
\* leave its state alone: numbers are published without a gap, the table is
\* appended to in order, and every start resumes from the counter.
HubMeetsContract == Contract!Spec

\* As long as a committed number is not published, the clip whose turn it is is in
\* flight: a put whose turn nobody else would bring about would wait for ever.
NextIsInFlight ==
    up /\ publishedSeq < seq => \E item \in inflight : Turn(item)

\* No publish waits for ever: whatever the hub committed is published, unless
\* the hub goes down.  A seq that nobody publishes would block every later put.
EveryPutIsPublished ==
    \A n \in 1 .. MaxSeq : (up /\ seq >= n) ~> (publishedSeq >= n \/ ~ up)

\* An expired clip leaves the memory and the table, unless the hub goes down;
\* also one that was saved after the reaper of its second had run, and although
\* deletions fail from time to time: the next reaper tries again.
ExpiredIsDropped ==
    \A n \in 1 .. MaxSeq :
        (up /\ \E i \in history \cup rows : i.seq = n /\ i.exp < clock)
            ~> (~ up \/ ~ \E i \in history \cup rows : i.seq = n /\ i.exp < clock)

-----------------------------------------------------------------------------
(***************************************************************************)
(* The inductive invariant behind the safety properties.                   *)
(***************************************************************************)

\* sqlite_sequence is never behind the table, so that a start may rely on it.
RowsBelowCounter == \A r \in rows : r.seq <= storeSeq

\* The pipeline: the store is at most as far as publishedSeq, the clips in
\* flight are those of this process after publishedSeq, one for each seq.
PublishTurn ==
    /\ up => storeSeq <= publishedSeq /\ publishedSeq <= seq
    /\ ~ up => inflight = {} /\ saving = Null /\ history = {} /\ current = Null
    /\ \A i \in inflight : i.run = run /\ publishedSeq < i.seq /\ i.seq <= seq
    /\ \A i, j \in inflight : i.seq = j.seq => i = j
    /\ saving # Null => saving \in inflight /\ saving.seq = publishedSeq + 1

\* No clip of the history is numbered above h.seq, and no reaper is ahead of
\* the clock.
MemoryInBounds ==
    /\ \A i \in history : i.seq <= seq
    /\ \A now \in reaping : now <= clock

\* What was acknowledged and saved is counted by sqlite_sequence.
AckedCounted == Persistent => \A i \in acked \ lost : i.seq <= storeSeq

\* Every clip seen so far is distinguishable from the next one.
ClipsAreOld ==
    \A i \in history \cup rows \cup wiped :
        i.run <= run /\ (up /\ i.run = run => i.seq <= seq)

\* A wiped clip whose publish is still to come is known to race.
RacingKnown == inflight \cap wiped \subseteq racing

HubInv ==
    /\ TypeOK
    /\ RowsBelowCounter
    /\ PublishTurn
    /\ MemoryInBounds
    /\ CurrentIsNewest
    /\ AckedCounted
    /\ AckedDurable
    /\ ClipsAreOld
    /\ RacingKnown
    /\ ClearedStaysCleared

\* With one TTL for the life of the store, of two clips that the hub holds the one
\* with the higher seq does not expire first: seq is also the order of expiry.
InHub == history \cup rows \cup inflight

ExpiryFollowsSeq ==
    /\ \A i \in InHub : i.exp <= clock + ttl
    /\ \A i, j \in InHub : i.seq <= j.seq => i.exp <= j.exp

\* The clips of items with a higher seq than i: the rank of i.
Above(items, i) == {j \in items : j.seq > i.seq}

\* What the table will hold when nothing is in flight any more.
Settling == rows \cup inflight

\* The history is the top of it, no longer than its depth, ...
HistoryIsTop ==
    /\ \A h \in history : Cardinality(Above(history, h)) < MaxHistory
    /\ \A h \in history : Above(Settling, h) \subseteq history

\* ... and has all that a restart would load, but for what a Clear raced with.
TopIsInHistory ==
    (up /\ Persistent /\ lost = {}) =>
        \A i \in Settling \ racing :
            ~ MayBeExpired(i) /\ Cardinality(Above(Settling, i)) < MaxHistory => i \in history

WindowInv ==
    /\ IsFiniteSet(inflight)
    /\ ExpiryFollowsSeq
    /\ CurrentUnlessEmpty
    /\ HistoryIsTop
    /\ TopIsInHistory

-----------------------------------------------------------------------------
(***************************************************************************)
(* What the documents say of it and the code does not do.                  *)
(***************************************************************************)

\* "Clear removes the current clip and persisted history" (hub.go).
ClearIsFinal == wiped \cap (history \cup rows) = {}

=============================================================================
