----------------------------- MODULE ClipStore -----------------------------
(***************************************************************************)
(* The SQLite store of the hub (internal/hub/store.go): the table clips    *)
(* and the AUTOINCREMENT counter that SQLite keeps for it.  Each operator  *)
(* below that primes a variable is one SQL statement, which SQLite runs    *)
(* atomically; the store survives a crash of the process.                  *)
(***************************************************************************)
EXTENDS Naturals, FiniteSets, FiniteSetsExt

CONSTANT Payloads    \* what deduplication compares: a MIME type and a hash

VARIABLES
    rows,            \* the rows of the table clips
    storeSeq         \* the row of sqlite_sequence for clips, 0 when there is none

storeVars == <<rows, storeSeq>>

\* A clip.  run names the hub process that created it and stands for
\* CreatedAt: it tells apart two clips that were given the same seq.
Item == [seq : Nat \ {0}, run : Nat, payload : Payloads, exp : Nat]

Seqs(items) == {i.seq : i \in items}

\* ORDER BY seq DESC LIMIT n, as a set: the rank of a clip is its seq.
Newest(n, items) ==
    {i \in items : Cardinality({j \in items : j.seq > i.seq}) < n}

StoreTypeOK ==
    /\ rows \subseteq Item
    /\ storeSeq \in Nat

StoreInit ==
    /\ rows = {}
    /\ storeSeq = 0

-----------------------------------------------------------------------------
\* Mutant: a table without AUTOINCREMENT has no counter to raise.
SaveItemUncounted(item) ==
    /\ rows' = {r \in rows : r.seq # item.seq} \cup {item}
    /\ UNCHANGED storeSeq

\* INSERT OR REPLACE with an explicit seq: the row with that seq is replaced,
\* and AUTOINCREMENT raises the counter to the seq, never lowers it.
SaveItem(item) ==
    /\ rows' = {r \in rows : r.seq # item.seq} \cup {item}
    /\ storeSeq' = IF item.seq > storeSeq THEN item.seq ELSE storeSeq

\* Mutant: nothing is deleted.
DeleteNone == UNCHANGED storeVars

\* DELETE FROM clips: SQLite keeps the counter.
DeleteAll ==
    /\ rows' = {}
    /\ UNCHANGED storeSeq

\* Mutant: rows that expire within the second after now go as well.
DeleteExpiredEarly(now) ==
    /\ rows' = {r \in rows : r.exp > now + 1}
    /\ UNCHANGED storeSeq

\* DELETE ... WHERE expires_at < now.  The two times are compared as
\* RFC 3339 text, which orders seconds but not the fractions of one second
\* ("05.1Z" < "05Z"): of the rows that expire in the second of now, any may go.
DeleteExpired(now) ==
    /\ \E tied \in SUBSET {r \in rows : r.exp = now} :
          rows' = {r \in rows : r.exp >= now} \ tied
    /\ UNCHANGED storeSeq

\* Mutant: the counter is derived from the table alone.
LoadSeqFromRows == Max(Seqs(rows) \cup {0})

\* The counter that a starting hub resumes from: the row of sqlite_sequence, or
\* the largest seq of the table when there is no such row.
LoadSeq == IF storeSeq > 0 THEN storeSeq ELSE Max(Seqs(rows) \cup {0})

=============================================================================
