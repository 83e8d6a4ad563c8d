------------------------------ MODULE HubReads ------------------------------
(***************************************************************************)
(* The requests that read the hub (internal/hub/handler.go, hub.go and     *)
(* store.go) and the client that sends them (internal/hubclient).          *)
(*                                                                         *)
(* Two of them are more than one step, with puts, Clears, the reaper and   *)
(* crashes in between: a client follows next_cursor through the pages of   *)
(* the history, and a look-up by seq searches the memory under h.mu, lets  *)
(* go of it and then asks the store.                                       *)
(***************************************************************************)
EXTENDS Hub

CONSTANTS
    Limits,          \* what a client asks for as limit, 0 when it names none
    DefaultLimit,    \* protocol.DefaultHistoryLimit
    MaxLimit         \* protocol.MaxHistoryPageLimit

ASSUME LimitsAssumption == Limits \subseteq Nat
ASSUME LimitAssumption ==
    DefaultLimit \in Nat \ {0} /\ MaxLimit \in Nat /\ DefaultLimit <= MaxLimit

VARIABLES
    reader,          \* what the client is at
    at,              \* its cursor, 0 on the first page; the seq it looks up
    got,             \* the clips it was answered
    due              \* for the properties: those that were there all the time

readVars == <<reader, at, got, due>>
readsVars == <<vars, readVars>>

ReadsTypeOK ==
    /\ reader \in {"idle", "walking", "walked", "missed", "found", "notFound"}
    /\ at \in Nat
    /\ got \subseteq Item /\ due \subseteq Item

ReadsInit ==
    /\ Init
    /\ reader = "idle" /\ at = 0 /\ got = {} /\ due = {}

\* The client is free to send another request.
AtRest == reader \in {"idle", "walked", "found", "notFound"}

\* The client has used its answer, or its request came to nothing.
Forget == reader' = "idle" /\ at' = 0 /\ got' = {} /\ due' = {}

\* The clips that the hub has in memory or in the table.
Held == history \cup rows

-----------------------------------------------------------------------------
\* parseLimitQuery, and the limit of a client that names none.
Limit(asked) ==
    IF asked = 0 THEN DefaultLimit ELSE IF asked > MaxLimit THEN MaxLimit ELSE asked

\* Where HistoryPage takes its items from.
PageSource == IF Persistent THEN rows ELSE history

\* One more than a page holds, to see whether there is another one.
Fetched(limit, before) ==
    Newest(limit + 1, {i \in PageSource : before = 0 \/ i.seq < before})

HasMore(limit, before) == Cardinality(Fetched(limit, before)) > limit

PageItems(limit, before) == Newest(limit, Fetched(limit, before))

\* Mutant: the cursor is the seq of the item that only tells of a next page.
NextCursorOfExtra(limit, before) == Min(Seqs(Fetched(limit, before)))

\* The next page starts below the last item of this one.
NextCursor(limit, before) == Min(Seqs(PageItems(limit, before)))

\* A client begins to walk through the history.
BeginWalk ==
    /\ AtRest
    /\ reader' = "walking"
    /\ at' = 0
    /\ got' = {}
    /\ due' = PageSource
    /\ UNCHANGED vars

\* GET /api/clip/history/page with the cursor of the page before.
NextPage(asked) ==
    /\ up
    /\ reader = "walking"
    /\ got' = got \cup PageItems(Limit(asked), at)
    /\ IF HasMore(Limit(asked), at)
       THEN at' = NextCursor(Limit(asked), at) /\ UNCHANGED reader
       ELSE reader' = "walked" /\ UNCHANGED at
    /\ UNCHANGED <<vars, due>>

\* The query fails: 500, and the client gives up.
PageFails ==
    /\ up
    /\ Persistent /\ DiskFaults
    /\ reader = "walking"
    /\ Forget
    /\ UNCHANGED vars

-----------------------------------------------------------------------------
\* GET /api/clip, /api/clip/history and the blob of the current clip are one
\* critical section each: no current clip is the answer 204, and the history is
\* its newest clips.
CurrentAnswer == IF current = Null THEN {} ELSE {current}

HistoryAnswer(limit) == Newest(limit, history)

ReadAtOnce ==
    /\ up
    /\ AtRest
    /\ \/ got' = CurrentAnswer
       \/ \E asked \in Limits : got' = HistoryAnswer(Limit(asked))
    /\ reader' = IF got' = {} THEN "notFound" ELSE "found"
    /\ at' = 0
    /\ due' = {}
    /\ UNCHANGED vars

\* Mutant: the look-up trusts the store alone.
InMemoryNever(n) == {}

\* GetBySeq, under h.mu.
InMemory(n) == {i \in history \cup CurrentAnswer : i.seq = n}

\* GetBySeq, afterwards: LoadItem.
InStore(n) == IF Persistent THEN {i \in rows : i.seq = n} ELSE {}

\* GET /api/clip/blob?seq=n, up to the unlock.
LookUp(n) ==
    /\ up
    /\ AtRest
    /\ at' = n
    /\ got' = InMemory(n)
    /\ reader' = IF InMemory(n) = {} THEN "missed" ELSE "found"
    /\ due' = {i \in Held : i.seq = n}
    /\ UNCHANGED vars

\* The rest of it: the row, or 404.
LookUpStore ==
    /\ up
    /\ reader = "missed"
    /\ got' = InStore(at)
    /\ reader' = IF InStore(at) = {} THEN "notFound" ELSE "found"
    /\ UNCHANGED <<vars, at, due>>

\* LoadItem fails: 500.
LookUpFails ==
    /\ up
    /\ Persistent /\ DiskFaults
    /\ reader = "missed"
    /\ Forget
    /\ UNCHANGED vars

-----------------------------------------------------------------------------
\* A step of the hub.  An answer is not kept; a crash ends a look-up, while a
\* client may go on with its cursor after the restart.
HubMoves ==
    /\ Next
    /\ CASE reader = "walking" ->
              due' = due \cap PageSource' /\ UNCHANGED <<reader, at, got>>
         [] reader = "missed" /\ up' ->
              due' = due \cap Held' /\ UNCHANGED <<reader, at, got>>
         [] OTHER -> Forget

ReadsNext ==
    \/ HubMoves
    \/ BeginWalk
    \/ \E asked \in Limits : NextPage(asked)
    \/ PageFails
    \/ ReadAtOnce
    \/ \E n \in 1 .. MaxSeq : LookUp(n)
    \/ LookUpStore \/ LookUpFails

ReadsSpec == ReadsInit /\ [][ReadsNext]_readsVars

-----------------------------------------------------------------------------
(***************************************************************************)
(* What a reader may rely on.                                              *)
(***************************************************************************)

\* A client that has followed the cursors to the end has seen every clip that
\* was in the history from its first page to its last, whatever was put, saved,
\* expired or cleared while it turned the pages, and across restarts: no clip
\* falls between two pages.
WalkMissesNothing == reader = "walked" => due \subseteq got

\* A look-up answers 404 only for a seq that was not held all the while: a clip
\* that moves out of the memory is in the store before the look-up asks there.
LookUpFindsHeld == reader = "notFound" => due = {}

\* Whatever the memory serves, as current, as history, or as the answer 200 to a
\* put of what is current, is in the table, or its save is still to come: the
\* paged history lags by the clips in flight and by nothing else, and only a
\* crash before that save, or its failure, loses what was answered.
PageLagsByInflight ==
    Persistent =>
        \A i \in (history \cup CurrentAnswer) \ lost :
            i \in rows \/ i \in inflight \/ MayBeExpired(i)

=============================================================================
