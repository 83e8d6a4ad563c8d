# ClipHub in TLA+

ClipHub keeps the clipboards of several machines the same. A central *hub*
numbers, stores and broadcasts clips; an *agent* on every machine watches the
local clipboard, sends what the user copies and applies what the hub streams.
This directory holds TLA+ models of the Go implementation, the TLC
configurations that check them and machine-checked proofs about them. Paths are
relative to `src/`; `PROJECT.json` maps every definition to its lines.

## 1. The system

| Component | Source | State | Operations | Hard parts |
|---|---|---|---|---|
| Clip store | `internal/hub/store.go` | table `clips`, AUTOINCREMENT counter | `LoadState`, `SaveItem`, `DeleteExpired`, `DeleteAll`, `HistoryPage`, `LoadItem`, migration | survives crashes; times compared as text; statements may fail |
| Hub | `internal/hub/hub.go` | `current`, `history`, `seq` (under `mu`); `publishedSeq` (under `publishMu`); subscribers | `Put`, `publish`, `Clear`, `reapExpired`, `New`, reads | a put commits under one lock and takes effect outside under another; goroutines; crash between the halves |
| Stream | `internal/hub/handler.go` (`streamHandler`), `hub.go` (`Subscribe`) | one channel of 16 and a `replayedUpTo` per connection | catch-up, live loop | subscription racing publication, overflow, reconnects |
| REST handlers | `internal/hub/handler.go` | none of their own | put, blob, get, clear, history pages | the answer may be lost after the commit |
| Observer, lifecycle | `internal/hub/observer.go`, `cmd/cliphub/main.go` | counters, ready flag, shutdown context | `BeginShutdown`, `Shutdown`, `Close` | five seconds to drain, hijacked connections, goroutines on a closed store |
| Stream client | `internal/agent/wsclient.go` | `lastSeq`, back-off | connect, read, reconnect | resuming from `lastSeq` |
| Agent | `internal/agent/agent.go`, `cmd/clipd` | `bootstrapped`, `paused`, pause file | poll loop, `applyRemote`, bootstrap, privacy | two goroutines and the user share the clipboard |
| Clipboard monitor | `internal/agent/clipboard.go` | hashes last written, seen, pending | `Poll`, `MarkHandled`, `ApplyRemote`, `ClearLocal` | must tell an echo from a copy |
| Hub client | `internal/hubclient/client.go` | base URL | `Put`, `Current`, `Clear`, history pages | ten second timeout, answers that are lost, retries of the agent |
| Discovery | `internal/discover/discover.go`, `cmd/clipd` | cached status | `HubURL`, `SelfName` | a tailnet that changes, two nodes of one name, a start before Tailscale is up |
| Privacy | `internal/privacy/policy.go`, `handlePrivacy` | none | `Decide` | the context is read after the content, and may not be had |
| CLI, backends, context providers, iOS, release tooling, contributor scripts | `cmd/tailclip`, `internal/clipboard`, `internal/agent/context_provider*`, `ios`, `internal/release`, `.agents` | | | see PROJECT.json for why each is or is not modelled |

How they interact: an agent's poll loop calls the hub's REST API through the
hub client; `Put` fans the clip out to the channels of all stream handlers; each
handler writes to its WebSocket, whose client calls `applyRemote`, which writes
to the clipboard that the poll loop reads. The store is called by the hub only.


What makes each part correct, and where it could fail, is the list of hazards in
`PROJECT.json`, each at its line with the properties that speak of it. In short:

- *Store and hub*: an acknowledged clip survives crashes; no sequence number is
  handed out twice; memory and table agree; what was cleared stays cleared; no
  publish waits for ever.
- *Stream*: one connection delivers in order and without duplicates; nothing is
  passed over in silence; a slow client holds up nobody.
- *Reads*: no clip falls between two pages, or between the memory and the table.
- *Lifecycle*: the store is closed last; a clean exit loses nothing; the process
  ends whatever its clients do.
- *Monitor and agent*: nothing that the stream brought is sent back; no copy is
  forgotten because a put failed; nothing stale is sent at a start; in the end
  all clipboards show the current clip.
- *Privacy*: what the policy blocks does not reach the hub by a retry, by another
  application coming to the front, or because the context cannot be had.
- *Discovery*: `clipd` finds the hub unless a listed accident misled it, and is
  connected again within the longest back-off.

## 2. The modules

| Module | Extends | Models | Checked by |
|---|---|---|---|
| `ClipStore` | | the table and its counter, one operator per SQL statement | through `Hub` |
| `Hub` | `ClipStore` | `Put`/`publish`, `Clear`, reaper, `New`, crash | `MCHub*.cfg` |
| `HubContract` | | abstract: a numbered log | `MCReads.cfg`, as a property of `Hub` |
| `HubReads` | `Hub` | history pages, look-ups by seq, plain reads, with the client that sends them | `MCReads.cfg` |
| `HubLifecycle` | `Hub` | `main` of the hub: start, signal, drain, exit; connections; stream handlers at their end | `MCLifecycle.cfg` |
| `HubStream` | `Hub` | subscribers, stream handler, a reconnecting client | `MCStream*.cfg` |
| `ClipboardMonitor` | | clipboard and remembered hashes, one action per critical section or clipboard call | through `Agent` |
| `Agent` | `ClipboardMonitor` | poll loop, bootstrap, stream client, `applyRemote`, with an abstract hub | `MCAgent*.cfg` |
| `ClipContent` | | contents and MIME types, as `IsText` and `normalizeMimeType` tell them apart | through `Outbound` |
| `Privacy` | `ClipContent` | the policy as operators | through `Outbound` |
| `ClipPath` | `ClipContent` | requests, limits, types and refusals as operators | through `Outbound` |
| `Outbound` | `ClipboardMonitor`, `Privacy`, `ClipPath` | the way of a copy from an application to the hub | `MCOutbound.cfg` |
| `Discovery` | | start of `clipd`, resolver, back-off of the stream | `MCDiscovery.cfg` |
| `HubProofs`, `WindowProofs` | `Hub`, `TLAPS` | theorems about `Hub`; those that need one TTL | `tlapm` |
| `StreamProofs` | `HubStream`, `HubProofs` | theorems about the stream | `tlapm` |
| `ReadsProofs`, `LifecycleProofs` | `HubReads` or `HubLifecycle`, `HubProofs` | theorems about readers and about the process | `tlapm` |
| `AgentProofs` | `Agent`, `TLAPS` | theorems about `Agent` | `tlapm` |
| `OutboundProofs` | `Outbound`, `TLAPS` | theorems about the policy and what leaves a machine | `tlapm` |
| `DiscoveryProofs` | `Discovery`, `TLAPS` | theorems about the start of `clipd` and its back-off | `tlapm` |
| `MC...` | the above | symmetry sets, a view, platforms, policies and contents for TLC | |

Operators whose comment begins with "Mutant:" are not part of any specification;
each stands for a plausible bug of the definition that follows it and shows that
a property notices the bug (`PROJECT.json`, `mutants`).

### ClipStore and Hub

`rows` and `storeSeq` are the table and its `sqlite_sequence` row; they survive
`Crash`. The other variables are the fields of `Hub` and the goroutines that are
somewhere inside a method: `inflight` holds the clips between the commit of a
`Put` under `h.mu` and the return of its `publish`, `saving` the one whose
`publish` holds `publishMu`, `reaping` the goroutines between `reapExpired` and
`DeleteExpired`. `acked`, `lost`, `wiped`, `racing` are history variables.

| Code | Action |
|---|---|
| `Put` under `h.mu`; its early return | `PutNew`; `PutDuplicate` |
| `publish` to the fan-out; save and return | `PublishDeliver`; `PublishSave` (also without a store), `PublishSaveFails` |
| `Clear`; its return when `DeleteAll` fails | `Clear`; `ClearFails` |
| `reapExpired`; its goroutine | `Reap(last)`; `ReapStore(now)` |
| `New` | `Start` |
| end of the process, at any point | `Crash` |

Abstractions:

- `history` is a set, because every put prepends under `h.mu`: the order of the
  slice is descending `seq`. `run`, the number of the process, stands for
  `CreatedAt` and tells apart two clips with one `seq`.
- Time is a clock of whole seconds. The reaper's `now` falls into a second before
  or after the expiry of a clip of that second (`last` chooses); the store
  compares times as text, which orders seconds but not their fractions, so
  `DeleteExpired` may or may not take rows of the current second. Times whose
  offset differs are not modelled.
- `publish` from the save to the broadcast of its turn is one action, since
  `publishMu` is held; the state of the table between the statement and the
  assignment of `publishedSeq` is visible to `Clear` and the reaper only as an
  order of the statements, which the model has. `Clear` holds `h.mu`, and the
  two statements of other goroutines that may fall between its own and the
  assignments commute with them.
- A graceful stop is a `Crash` with nothing in flight; `HubLifecycle` says how
  `main` gets there.

### HubReads

One client next to the hub. `reader` is what it is at: `walking` through the pages
with its cursor `at`, or in the look-up by seq whose two halves `LookUp` (under
`h.mu`) and `LookUpStore` (`LoadItem`) are separate steps. `NextPage` is one request:
limit, query, `has_more` and cursor. `ReadAtOnce` is the reads that are one critical
section. `HubMoves` is a step of `Hub`; it ends a look-up when the process ends, but
not a walk, since a client may go on with its cursor at the next process. `due` is
kept for the properties only: what was in the history since the walk began.

### HubLifecycle

`phase` is where `main` is:

    down -StartProcess-> starting -Listen-> serving -Signal-> stopping
         -CallShutdown-> draining -CloseStore-> closed -CleanExit-> down
    starting -ListenFails-> down; serving -ServeFails-> down;
    draining -ForcedExit-> down; any -Killed-> down

Requests need a connection (`dialled`); the hub's `PutNew`, `Clear` and publish are
those of `Hub` with that condition, and every end of the process is `Crash` for the
hub. `http.Server` is external: `Shutdown` returns when no connection is new or
active (`Quiet`), streams are hijacked and not waited for. `slow` stands for any
request that takes its time, since the server limits only the headers. `handler`,
`subs`, `offered` are a stream handler, its subscriber, and whether it has a clip to
write, of the catch-up or the channel. `peer` is what has become of the other side:

    there -PeerVanishes-> gone -WriteClip-> awaited -LossReported-> lost -WriteFails-> none

The handler reads nothing, so it learns of the loss only by a write that fails. The
first write to a peer that is gone succeeds, into the buffer of the hub's system, which
then waits for an acknowledgement; only after it has given up, or a reset came back, does
the next write fail. `DeadStreamIsForgotten` therefore speaks of two clips. A peer may
also vanish with something unacknowledged (`PeerVanishes` straight to `awaited`), and the
keep-alive may report a loss with nothing written.
After `Shutdown` nothing waits for the handlers, so whether a stream is told good-bye
at a stop is a race.

### HubStream

Adds per client the handler (`conn`: accepted, subscribed, streaming), the channel
(`queue`), the rest of the catch-up (`replay`), `replayedUpTo`, and the client's
`lastSeq`. `FanOut` is `PublishDeliver` with its subscribers, `CatchUp` is
`h.Since`, `ReplayNext` and `LiveNext` are the loops of the handler, `Disconnect`
is any end of a connection. A clip that the handler writes is received at once: a
connection keeps the order, and what was under way when it broke looks to the
client like what was never written. The client dials with `since_seq` only when
`lastSeq > 0`. `Oversized` are the payloads that the hub takes and whose message is
above the client's read limit; reading one ends the connection (`ReadTooBig`).

### ClipboardMonitor and Agent

`board` is the clipboard of a machine, `lastWritten`, `lastSeen` and `pending` are
the hashes of the monitor with their MIME types (a content is both). `Poll`
reads inside its critical section and is one action; `ApplyRemote` is
`MarkWritten`, `WriteBoard`, the read and `CommitReadBack` or `CommitUnread`, with
the user and the poller in between; `ClearLocal` is `ClearBoard` and `ResetMonitor`.
`Reads` says what a platform reads back after a write.

`Agent` puts them into the two goroutines. `poller` is where the poll loop is:

    idle -Poll-> sending -SendNew-> waiting -Answer-> handled -Mark-> idle
                 sending -SendDuplicate-> handled;  sending, waiting -SendFails-> idle
    idle -Poll-> handled (blocked) | clearing -ClearLocalBoard-> cleared -ClearLocalReset-> idle

`applier` is where `ApplyRemote` is in the stream goroutine: idle, writing, reading,
committing. `conn`, `lastSeq` belong to `WSClient`, `boot` to `bootstrapped`. The
stream goroutine runs `OnConnected` before it reads, so `Deliver` waits for the
bootstrap, while the hub subscribes the stream on its own (`Subscribe` and
`Bootstrap` in either order).

- The hub is the sequence `clips`, of which the first `published` are published:
  what a client can tell of `Hub` and `HubStream` as long as nothing expires,
  overflows, is cleared or crashes. A put is answered when its clip is published.
- `next` is the sequence number the stream delivers next; it is kept when the
  stream breaks, for `ReconnectCatchesUp` only.
- `late` holds puts that their client gave up (ten second timeout, end of the
  process) and that may still reach the hub.
- The policy is the set `Sensitive`; `Outbound` has the policy in full.
- The five attempts of `bootstrap` are `Bootstrap` or, all failed,
  `BootstrapExhausted`; delays are in `Discovery`.
- `Others` are clients without a clipboard: `tailclip put`, the iOS application.
- What can go wrong is chosen per run by `Disturbances`: puts, gets or streams
  that fail, puts that arrive late, clipboard calls that fail, pauses, other
  programs that erase, restarts.
- `stale`, `touched`, `converted` and `writer` record the past for the properties; no
  guard reads them.

### Privacy, ClipPath and Outbound

`Privacy` has the policy as operators. A name is a model value, `Norm` is what
`normalize` makes of it and `Within` which word holds which, so that matching is what
`matchConfigured` decides without strings. What a content looks like (a one-time
code, a secret) is an attribute of the content: the regular expressions are not
modelled.

`ClipContent` has the MIME types: `Textual` are those that begin with `text/` as they are
written, `Parse` is what `mime.ParseMediaType` makes of each (external), and
`NormalizeMimeType` what the hub makes of it: a missing type or one that does not parse
becomes `application/octet-stream`.

`ClipPath` has what becomes of a content in a request: JSON or blob and the default types
(`Put`), the size that the limit counts, with base64 or escapes for JSON, the refusals
with 400, and what the hub stores (`StoredAs`). JSON keeps the type as it is written and
refuses a content in the field of the other kind (`WrongField`); it replaces the bytes of a
string that are not UTF-8. The type of a blob is normalised, and the normalised type says
whether its body is kept as text (`HubType`): data given as `Text/plain` becomes text.
`tailclip put` of binary standard input goes the way of text and is stored with its
bytes replaced. A JSON body with both fields, which no client here sends, is left out.

`Outbound` puts them between the user and the hub. `front` is the application in
front; `HandlePrivacy` reads it after the poll, `HandlePrivacyBlind` is the case in
which it cannot be had. `poller` goes idle, polled, sending, answered, or clearing.
A refused or failed put is tried again by the next poll. A put that was stored may lose
its answer, of whatever size (`AnswerLost`): the timeout of ten seconds, the connection, or
`do`, which cancels the context before the body is read. A put that was given up before
it was stored may still be stored later (`SendGivenUp`, `CommitLate`; `late` counts them), by
a process that is gone by then as well.

Of the hub there are the clips it accepted (`log`) and `current`. `LoseCurrent` is all that
changes `current` without a put: `Clear`, the reaper, and a restart, which finds nothing or
the newest row of the database; it may be any earlier clip, which is more than the hub can
do. A put of what is no longer current is stored again. The mishaps (a lost current, a put
given up, a restart of `clipd`) are bounded together.

`origin`, `excused`, `blocked`, `others` and `losses` record the past for the properties.
Clips of others do not reach the clipboard here: `Agent` has that.

### Discovery

The tailnet is external: `tailscaled` may not answer, `nodes` are the nodes with the
hub's host name, `hub` is the address (scheme and name) at which it listens.
`pc` is how far the start of `clipd` is: the status, the two probes, its own name,
running. `life` is what is left of the cached status, `selfKnown` whether it has a name
for this node: `SelfName` fails without one, and `clipd` then takes the operating system's
name (`NameSelf`), unless `--node` gave it one (`KeepName`). `conn`, `delay` and `wait` are
`WSClient.Run`: dialling, connected, connected to a dead peer (`half`), waiting.
Time passes in ticks, and only when the program waits, but for the lookups of the start,
which may take as long as they like. The URL that the resolver caches is left out: a
process asks for it once. The name that a node goes by stands for a unique DNS name.

## 3. What the runs show

All bounds are constants of the specification and appear in a guard
(`MaxSeq`, `MaxClock`, `MaxRuns`, `MaxCopies`, `MaxClips`, `MaxSwitches`, `MaxMoves`,
`MaxOthers`, `MaxMishaps`).

| Run | Bounds | Shows |
|---|---|---|
| `hub_safety` | 3 clips, history 2, 2 ticks, 2 starts | the inductive invariant, the durability of clips, `Clear`, the restored window, the order and freshness of numbers |
| `hub_reads` | 2 clips, history 1, 1 tick, 2 starts, failing statements, limits none and 5, default 1, maximum 2 | pages and look-ups miss nothing; the table lags the memory only by what is in flight; `Hub` implements `HubContract` |
| `hub_live` | 1 payload, 2 clips, history 1, 2 ticks, 2 starts, failing statements | no publish waits for ever; what expired leaves memory and table although deletions fail |
| `stream_safety` | 1 client, channel 1, 3 clips, 2 starts | the inductive invariant, order, no duplicate, no silent gap, over any number of connections |
| `stream_live` | 1 client, channel 1, 3 clips, one content unreadable, no store | puts do not wait for readers; who reads gets everything; who reconnects catches up as far as it can read |
| `lifecycle` | 1 payload, 2 clips, 1 tick, 2 runs, 1 stream | the store is closed last, a clean exit keeps everything, the signal ends the process, two clips at the latest rid the hub of a dead stream |
| `discovery` | 2 names, cache 2 ticks, delays 1 to 3, dial 1, one move of the hub | the right address unless misled, one lookup for both questions, reconnection within the cap |
| `outbound` | 2 policies, 2 applications, 3 contents, 6 MIME types, 2 copies, 1 switch, 3 clips, 1 of others, 2 mishaps | what the policy keeps local; what the hub is given it holds, in one of the forms that its routes make; how many clips the copies make |
| `agent_safety` | 1 machine, 2 copies, 2 clips, 1 restart, clear-on-block, every disturbance | the inductive invariants; no copy forgotten; nothing stale sent; nothing sent back |
| `agent_live` | 2 machines, one copied on twice, 2 clips, failing puts and streams | the copy reaches the hub; all show the current clip in the end |

`stream_poison` and `agent_swap` are about disagreements (below).

Why the bounds are enough. Two contents tell "the same again" from "something
else", which is all the deduplication and the monitor compare; progress does not
depend on contents, so that `hub_live` has one: a `Clear` or an expiry lies between two
puts in flight. A history of two and
three clips has a clip inside, one at the edge and one cut off. Two starts give a
crash at every point and what the next process makes of it. A channel of one is full
with one clip; a larger one only overflows later. One client suffices for the
stream, since handlers share nothing but the fan-out, which never waits. One
machine suffices for the safety of an agent, since the others reach it only as
clips of the hub, which `Others` put in any order; agreement needs two.
In `agent_safety` the clipboard starts empty or full, and two copies meet up to two
clips, its own or of others, in every order.
For `hub_reads` a page of one and two clips give a walk of several pages with a put, a
save, an expiry, a `Clear` and a restart between any two; the proofs of section 4
hold for all sizes. In `lifecycle` one put, one upload, one connection without a
request and one stream are every reason for a shutdown to wait or not to. In
`discovery` a second name is the node that the hub left behind; the ticks are as few
as tell the cache, the first delay, a doubled one and the cap apart. The contents of
`outbound` are a one-time code that is not UTF-8, text whose JSON is above the limit and
an image of just that size; the types are plain text, also in capitals, one that begins
with `text/` and does not parse, none, an image and `application/octet-stream`. The policies
are rules on applications and processes with codes (and a blank part in a list), and
password managers with codes and clear-on-block; one application matches by name or by substring, the other
not at all. Two mishaps are a put given up and a restart after it, a current clip lost
behind a late put, or two of a kind. One clip of others is
enough to come between a put and its repetition; section 4 has every number.

Payloads are symmetric in the safety runs of `MCHub` and `MCStream`. `StreamView`
leaves out the history variables of `Hub`, which no action and no property of
`HubStream` reads: states that agree otherwise have the same futures with respect
to them.

Deadlock is checked but in three runs: `agent_swap`, where nothing fails or
restarts, and `outbound`, where copies and clips are bounded, end when everything is
sent; `lifecycle` ends with its last process.

### Fairness

- `Hub!FairSpec`: goroutines that can run do run, statements of SQLite return, the
  ticker ticks: weak fairness of `PublishDeliver`, `Publish`, `Reap`, `ReapStore`; strong
  fairness of a deletion that succeeds, which every tick tries again. Nothing forces
  a put, a clear, a crash.
- `HubStream!StreamFairSpec` assumes no more: a client may stop reading at any time
  and for ever, since a blocked write is out of the code's control.
  `EveryClipArrives` has the reading as its premise: if the handler of a client keeps
  running (`Reads(c)`), the client gets every clip.
- `AgentFairSpec`: the poll loop and the stream goroutine run (weak fairness of their
  steps that cannot fail, taken together). A put, a subscription and a delivery get
  strong fairness: the code retries each of them for ever, at the next tick or after
  the back-off, and one of the attempts succeeds. `Disconnect` and `SendFails` are
  free to happen any number of times, and nothing forces the user to copy.

- `EveryClipArrives` and `ReconnectCatchesUpUnblocked` have their assumptions as
  premises: the handler and the client run (`Reads`), the client dials again and from
  some moment on nothing but an unreadable clip breaks the connection (`Persists`).
- `HubLifecycle!LifeFairSpec`: goroutines run, `Close` of a stream gives up on its peer,
  the timer of the shutdown fires, and TCP gives up waiting for an acknowledgement. A
  write with nothing left to acknowledge has room, one that cannot succeed fails. Nothing
  is assumed of clients: a connection or an upload may stay open for ever, a peer may read
  nothing.
- `Discovery!FairSpec`: the program runs, timers fire, probes time out, `tailscale status`
  returns, and the keep-alive of TCP finds a dead connection. Nothing is assumed of
  the tailnet or the hub.

### Where the code and its documents disagree

Runs with `expect: violation` check what a document or comment says; TLC finds a
behaviour of the code that contradicts it. `PROJECT.json` quotes each of them.

| Run | What happens |
|---|---|
| `stream_poison` | a clip whose message is above the client's read limit ends every connection at the same place; what comes after it never arrives |
| `agent_swap` | a machine applies an older clip over its own newer one and keeps it |

Four more were found; their properties are still stated in the modules, and adding
them to a configuration shows them:

- `ClearIsFinal` in `MCHub.cfg`: a clip whose publish is under way is saved after
  `Clear` and is back after a restart (`hub.go:206` says `Clear` removes the persisted
  history);
- `SeqIsMonotonic` in `MCStream.cfg`, without its symmetry and view: a crash between
  fan-out and save hands a sequence number out twice (`docs/architecture.md`);
- `NoEcho` in `MCAgent.cfg`, also with no `Disturbances` and nothing `Sensitive`:
  `MarkHandled` puts an older
  hash over what was applied during the put, and the applied clip is sent back
  (`docs/architecture.md`);
- `ReconnectCatchesUp` of `Agent` in `MCAgentLive.cfg` with a client in `Others`: a client
  that had received nothing reconnects without `since_seq` and is not bootstrapped
  again.

The models show more of the kind, for which no run is kept: the table is not cut
to the history depth (`docs/security.md:17`); a clip dropped at a full channel is
not asked for again while the connection lasts; a second reconnect is sent
committed but unpublished clips again; a poll between the write and the read-back
of `ApplyRemote` sends a converted clip as new (`clipboard.go:97`); copying an old
remote clip again counts as the agent's own write (`clipboard.go:56`);
clear-on-block clears what came after the blocked content (`clipboard.go:126`); a
new `clipd` has forgotten what the last one blocked and may send it from another
context, although "blocked items stay local" (`docs/architecture.md`); a copy that
the hub refuses is put again at every poll; a `clipd` that started before Tailscale
stays with `http://localhost:8080` (`cmd/clipd/main.go:56`); and an agent tells its own
clips by its host name, while the hub names their sender by its computed name
(`cmd/cliphub/main.go:108`), which may differ.

For this reason some properties that pass state their limits.
`ReachedMachinesAgree` speaks of one machine that is copied on, of streams that have
delivered once and of puts that do not arrive late. `ReceiverStaysSilent` speaks of
machines nobody copies on, whose clipboard was empty when `clipd` started (`touched`)
and whose platform reads back what was written. `KnownWasShared` and
`CopyReachesHub` except what was read back in place of a clip (`converted`).
`NoSilentGap` names the clips a full channel dropped. `ReconnectCatchesUpUnblocked`
speaks of clips with no unreadable one before them. `IgnoredContextKeptLocal` excepts a
user who left the application before the poll decided, one who copied the same again
during a put, and a context that could not be had; `BlockedStaysLocal` speaks of one
process. `FoundUnlessMisled` lists what may mislead a start. `OneCopyOneClip` allows one clip
more for each clip of others or of a put that was given up, and for each time the hub lost
its current clip. `DeadStreamIsForgotten` begins with a clip to write.

The hazards of `PROJECT.json` that are just such a limit name no property: their notes say
what the code does, and which property excepts it.

## 4. What is proved

Every theorem holds for all values of the constants that satisfy the assumptions named
in the modules. They say no more than the code does: a history depth, a TTL, a
capacity, a limit and a delay are positive, the bounds are natural numbers, the
contents and policies are of their type, the cap of the back-off is not below its
start. The theorems of `WindowProofs` and the two about silence have a further
hypothesis, given below.

| Module | Theorem | Property |
|---|---|---|
| `HubProofs` | `Invariance`, `TypeCorrect` | `HubInv`, `TypeOK` |
| | `CurrentCorrect`, `Durability`, `ClearCorrect` | `CurrentIsNewest`, `AckedDurable`, `ClearedStaysCleared` |
| | `SeqFresh`, `InOrder` | `NewSeqAboveAcked`, `PersistInOrder` |
| | `PublishNotStuck` | `NextIsInFlight` |
| | `Refinement` | `HubMeetsContract` |
| `WindowProofs` | `CurrentStays`, `WindowCorrect` | `CurrentUnlessEmpty`, `WindowSurvivesRestart`, for one TTL |
| `StreamProofs` | `StreamImplementsHub` | `Spec` of `Hub` |
| | `StreamInvariance`, `StreamOrder`, `NothingSilentlyLost` | `StreamInv`, `ReceivedInOrder`, `NoSilentGap` |
| `ReadsProofs` | `ReadsImplementHub`, `ReadsTypes` | `Spec` of `Hub`, `ReadsTypeOK` |
| | `PageLag`, `WalkComplete`, `LookUpComplete` | `PageLagsByInflight`, `WalkMissesNothing`, `LookUpFindsHeld` |
| `LifecycleProofs` | `LifecycleImplementsHub`, `ProcessInShape` | `Spec` of `Hub`, `ProcessShape` |
| | `StoreClosedLast`, `CleanExitSafe` | `StoreOutlivesPuts`, `CleanExitKeepsAll` |
| `AgentProofs` | `AgentInvariance`, `NothingForgotten`, `NothingStaleSent` | `AgentInv`, `KnownWasShared`, `StaleStaysLocal` |
| | `Silence`, `SilentInvariance` | `ReceiverStaysSilent`, `SilentInv`, for faithful platforms |
| | `AgentsRelyOnContract` | `HubWithinContract` |
| `OutboundProofs` | `NoContextBlocksNothing`, `UnusedContextBlocksNothing`, `RulesAreNormal` | about `Decide` and `NewConfig` |
| | `IgnoredContextsStay`, `FilteredStays`, `BlockedStays` | `IgnoredContextKeptLocal`, `FilteredKeptLocal`, `BlockedStaysLocal` |
| | `HeldFaithfully`, `NoCopyTwice` | `HeldAsGiven`, `OneCopyOneClip` |
| `DiscoveryProofs` | `FoundTheHub`, `NamedByOneLookup`, `Recovery` | `FoundUnlessMisled`, `OneLookupSuffices`, `RecoversWithinCap` |

With these every safety property of a passing run is a theorem. The specifications hang
together: `HubStream`, `HubReads` and `HubLifecycle` each implement `Hub`, so that its
theorems hold in all three; `Hub` implements `HubContract`; and what `Agent` takes for
granted of its hub are steps of `HubContract` (`AgentsRelyOnContract`).

### The hub

`CurrentIsNewest`, `AckedDurable` and `ClearedStaysCleared` are not inductive by
themselves. `AckedDurable` needs that no save replaces the row of another clip: clips in
flight are numbered above `publishedSeq` (`PublishTurn`), the counter is not above
`publishedSeq`, and every row and every acknowledged clip is not above the counter
(`RowsBelowCounter`, `AckedCounted`); after a restart the counter is what numbers start
from. `ClearedStaysCleared` needs that a new clip is none of the wiped ones
(`ClipsAreOld`) and that a wiped clip still in flight is among the racing ones
(`RacingKnown`). There is one lemma per action, one step per conjunct.

`Refinement` maps the end of a publish to `HubContract!Publish`, `PutNew` to `Commit`,
`Clear` and `ReapStore` to `Remove`; the rest stutters. `SourceAlways` (a lemma of the
other modules) says that whatever is in memory is in the table, in flight, expired or
lost.

`PublishNotStuck` is the part of `EveryPutIsPublished` that is about states: every number
that is not published has its clip in flight (`CounterInv`), hence also the next one,
and it is that clip's turn. What is left to fairness is that it takes its turn.

### The window

The memory and the table are cut by different rules: the memory to the newest
`MaxHistory` clips at every put, the table by expiry only, and both by `Clear` at
different moments. `WindowInv` has what makes them agree again. With one TTL clips
expire in the order of their numbers (`ExpiryFollowsSeq`), so that a reaper and a
deletion each take a lower part. The history is upwards closed in what the table will
hold when nothing is in flight (`HistoryIsTop` of `Settling`), and has everything of it
whose rank is below the depth (`TopIsInHistory`), but for what a `Clear` raced with. The
rank is the number of clips above (`Above`); `NewestByRank` turns it into what
`LoadState` selects.

The hypothesis `OneTTL` is needed. A hub that is restarted with a shorter TTL may
have its newest clip expire before older ones: then it has a history and no
current clip. The theorems of `HubProofs` allow the TTL to change at every start, while
the runs have one TTL.

### The stream

A client may miss a clip at four places: at the subscription, in the catch-up, in the
full channel, and when the live loop skips what was replayed. `ClientInv` has for each
that what is not on its way is handled, that is, received, dropped at a full
channel, passed over by a catch-up (it had left the history, or the client asked for
nothing because it had received nothing), or not above the number of a received clip
of an earlier run, which a crash gave out again: `BehindHandled` for what a
later catch-up would not list, `NotComingHandled` for what is published and neither in
the replay nor in the channel, `SkippedHandled` for what `AlreadyReplayed` skips. The
second needs the third, since a clip may be in the replay and in the channel, and the
third needs that the replay is taken after the subscription. Order follows from
`QueueInOrder`, `ReplayAhead` and `ReceivedBehind`; they rest on `FannedOut`, by which
everything that was published in this run is not above what was handed to the channels
(`Delivered`), and on `NumbersUnique`, since a number may mean two clips over a
restart but not within what one connection may write. The steps of the hub are proved in
four groups (those that add nothing, a commit, a load, a crash), the fan-out and each
step of a client on their own.

### Readers and the process

What a walking client has not got is below its cursor (`WalkInv`). The step of a page is
`PageLeavesNoGap`: the newest clips of a finite set are closed upwards
(`NewestIsUpward`), and fewer than were asked for are all there are (`NewestExhausts`),
since the highest one left out would have had room. The least number exists by the
well-foundedness of the naturals. What a look-up missed in the memory is in the table,
and does not come back into the memory while the process lives
(`MemoryRegainsNothing`), since a put makes a clip that is in no table.

Once the store is closed everything stays quiet (`LifeInv`): a put needs a connection.
At a clean exit the counter is at `h.seq` because every number that is not
published has its clip in flight, and nothing is in flight.

### Agents

`AgentInvariance` holds for any machines, contents, clients, policy and disturbances,
and for platforms that read back anything (`ReadsAssumption`). `KnownWasShared` needs to
know what a busy goroutine has in hand (`WorkInHand`): a put that waits for its answer is
at the hub, what is to be cleared is sensitive. `StaleStaysLocal` needs
`BootReplacesStale`: a bootstrap that counts as applied has written. `InHub` only grows
(`PutGrows`).

`Silence` and `SilentInvariance` assume that platforms read back what was written; one
that does not sends a converted clip as new (section 3). `SilentInv` is inductive
relative to `AgentInv`. It says where the clipboard of an untouched machine may be ahead
of the monitor: between write and commit, where it shows what `lastWritten` names. The
steps are proved in groups: poll loop, `ApplyRemote`, the rest of the stream, the user
and restarts, the hub and other clients.

### What leaves a machine

The three theorems about the policy alone say that the short cuts of `handlePrivacy`
change no decision: a policy that does not use the context would block none
(`UnusedContextBlocksNothing`), and the empty context, with which it decides
when it has none, is blocked by no rule (`NoContextBlocksNothing`), because its names are
blank and blank candidates are dropped before the rules are tried. `RulesAreNormal` says of
the rules themselves that a second normalisation makes the same.

In `OutInv`, `IgnoredContextKeptLocal` rests on `OriginIsFront`: a content whose context
nobody left was copied in the application in front, which is the one that
`handlePrivacy` asks. `BlockedStaysLocal` rests on `BlockedIsSeen`: while a blocked
content is on the clipboard the monitor has seen it, so that no poll finds it, or it is
about to be cleared. `HeldAsGiven` follows the request of each client through `Put`, the
refusals, `HubType` and `StoredAs`; that what `clipd` sends keeps its very type rests on the
three types under which it reads a clipboard, which normalisation does not change
(`ContentsAssumption`). `OneCopyOneClip` is about a number that a retry may raise, and is proved with
a potential: `CopiesCount` bounds the clips of `clipd` and those that it may still add
with nothing copied, nothing put by others and nothing lost (`StillToCome`, at most two:
what it has in hand and what is on the clipboard, each unless it is current then). A put
of what is current adds nothing; a copy, a clip of another client, a put that arrives late
and each loss of the current clip pay for one more. `FilteredKeptLocal` covers the late puts
too, because what was given up had passed the policy (`HandHolds`).

### Discovery

`RightSoFar` carries the right address, or the excuse, from one stage of the start to
the next. `CacheAges` relates what is left of the cached status to the time that the
start took, so that the second lookup is answered by the first. `LateInWait` is the
potential behind `RecoversWithinCap`: as long as the hub can be reached and is not
connected to, the time it has been so and the time that is left to wait add up to no
more than the cap and a dial.

### How it was checked, and what is only model-checked

Each inductive invariant was checked by TLC before it was proved. `HubInv`, `AgentInv`,
`SilentInv` and `StreamInv` are in the configurations; `WindowInv`, `DiscoveryInv`,
`OutInv`, `NextIsInFlight`, `ProcessShape` and `HubWithinContract` hold with the bounds of
`MCHub.cfg`, `MCDiscovery.cfg`, `MCOutbound.cfg`, `MCLifecycle.cfg` and `MCAgent.cfg`,
to which they can be added.

Only model-checked are the liveness properties: `EveryPutIsPublished`,
`ExpiredIsDropped`, `SlowClientBlocksNoPut`, `EveryClipArrives`,
`ReconnectCatchesUpUnblocked`, `SignalEndsProcess`, `DeadStreamIsForgotten`,
`ConnectsInTheEnd`, `CopyReachesHub` and `ReachedMachinesAgree`. Their proofs need
fairness, and with it `ENABLED`, which the prover does not support. That the agents'
hub is what a client sees of `HubStream`, and not only of the numbers and the log, is
checked by neither: the hub of `Agent` answers a put when its clip is published and
keeps every clip, which is a restriction of `HubStream` and no refinement of it.

## 5. What is not modelled, and the plan

Not modelled:

- The platform tools of clipboards and contexts: subprocesses. `ClipboardMonitor` and
  `Outbound` have what the code assumes of them, failure included.
- The order of timestamps with different offsets, which the store compares as text
  (`store.go:161`): the clock counts seconds of one offset.
- The migration of a table from before `AUTOINCREMENT` (`store.go:198`): one
  transaction at a start, after which the counter is that of the rows.
- Status, health, metrics, rate and connection counters of the observer, flags,
  environment and logging: they are read by nobody in the program.
- The URL that the resolver caches: every process asks for it once.
- The iOS companion beyond its puts. What its views hold depends on how Foundation
  decodes the hub's answers (dates with fractions of a second, a path that contains a
  question mark), and nothing in the repository builds or tests it.
- Release tooling and scripts for contributors: no part of the running system.

The runs are kept few: one for the safety and one for the progress of a component, and
a run about a disagreement gives way to them once its finding is recorded here.

Every safety property that a run checks is now a theorem. What is left, in this order:
the action properties that the liveness proofs would need as their steps (which step
of a goroutine lowers what is left to do, and that no other one raises it), a theorem
of what a stream does with a clip that its client cannot read, and a module for the
textual order of timestamps.
