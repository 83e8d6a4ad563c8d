------------------------------ MODULE Outbound ------------------------------
(***************************************************************************)
(* The way of a copy out of one machine: the user's applications, the poll *)
(* loop of clipd with its privacy policy (internal/agent/agent.go), the    *)
(* put, and the hub's answer.  tailclip put and the clients of other       *)
(* machines put in between.                                                *)
(*                                                                         *)
(* The policy looks at the application in front when a poll has found      *)
(* something new, not at the one the content was copied in: the user may   *)
(* have gone on by then, and a put that failed is decided upon anew.       *)
(*                                                                         *)
(* Of the hub only the clips it accepted are kept, in order, and which of  *)
(* them is current, if any.  What others put does not reach the clipboard  *)
(* here: that is module Agent's.                                           *)
(***************************************************************************)
EXTENDS ClipboardMonitor, Privacy, ClipPath, Sequences

CONSTANTS
    Me,              \* the machine
    Policies,        \* the policies that clipd may be started with
    Apps,            \* what the desktop reports of the applications
    Foreign,         \* what is put past clipd: tailclip, other machines
    MaxCopies, MaxSwitches, MaxClips, MaxOthers, MaxMishaps   \* bounds

\* The contents there can be: module ClipContent says what their fields are.
Content ==
    [id : {c.id : c \in Contents}, mime : MimeTypes, size : Nat, escapes : Nat,
     utf8 : BOOLEAN, blank : BOOLEAN, looks : SUBSET SensitiveClass]

\* clipd reads a clipboard under text/plain, text/html or image/png.
ASSUME ContentsAssumption ==
    Contents \subseteq {c \in Content : c.mime # NoType /\ NormalizeMimeType(c.mime) = c.mime}
ASSUME MeAssumption == Nodes = {Me}
ASSUME PoliciesAssumption == Policies \subseteq Config /\ Policies # {}
ASSUME ForeignAssumption == Foreign \subseteq Contents
ASSUME AppsAssumption == Apps \subseteq Context /\ Apps # {}

VARIABLES
    policy,          \* a.privacy
    front,           \* the application in front
    poller,          \* where the poll loop is
    log,             \* the clips of the hub
    current,         \* the content of h.current, or Empty
    late,            \* how many puts of each content are under way that clipd gave up
    copies,          \* what the user copied, with what was there before
    losses,          \* how often the hub lost its current clip
    switches, mishaps,    \* for the bounds
    \* What the properties need to remember of the past:
    origin,          \* where each content was copied last
    excused,         \* why a decision on it may not see its origin
    blocked,         \* contents this process has blocked and nobody copied since
    others           \* how many clips of the log are of no put that clipd waited for

hubVars == <<log, current, late>>
countVars == <<copies, losses, switches, mishaps>>
ghostVars == <<origin, excused, blocked, others>>
vars == <<monitorVars, policy, front, poller, hubVars, countVars, ghostVars>>

OutTypeOK ==
    /\ MonitorTypeOK
    /\ policy \in Policies
    /\ front \in Apps
    /\ poller \in {"idle", "polled", "clearing", "sending", "answered"}
    /\ log \in Seq([ct : Content, from : {"clipd", "late", "other"}])
    /\ current \in Content \cup {Empty}
    /\ late \in [Contents -> Nat]
    /\ copies \in Nat /\ losses \in Nat /\ switches \in Nat /\ mishaps \in Nat
    /\ origin \in [Contents -> Apps]
    /\ excused \in [Contents -> SUBSET {"left", "unavailable"}]
    /\ blocked \subseteq Contents
    /\ others \in Nat

OutInit ==
    /\ MonitorInit
    /\ policy \in Policies
    /\ front \in Apps
    /\ poller = "idle"
    /\ log = <<>> /\ current = Empty
    /\ late = [c \in Contents |-> 0]
    /\ copies = (IF board[Me] = Empty THEN 0 ELSE 1)
    /\ losses = 0 /\ switches = 0 /\ mishaps = 0
    /\ origin = [c \in Contents |-> front]
    /\ excused = [c \in Contents |-> IF c = board[Me] THEN {"left"} ELSE {}]
    /\ blocked = {} /\ others = 0

found == pending[Me]

\* Losses, restarts and puts given up are bounded together.
Mishap == mishaps < MaxMishaps /\ mishaps' = mishaps + 1

-----------------------------------------------------------------------------
\* The user.

CopyIn(c) ==
    /\ copies < MaxCopies
    /\ c.size > 0
    /\ copies' = copies + 1
    /\ Copy(Me, c)
    /\ origin' = [origin EXCEPT ![c] = front]
    /\ excused' = [excused EXCEPT ![c] = IF poller # "idle" /\ found = c THEN {"left"} ELSE {}]
    /\ blocked' = blocked \ {c}
    /\ UNCHANGED <<policy, front, poller, hubVars, losses, switches, mishaps, others>>

SwitchTo(app) ==
    /\ switches < MaxSwitches
    /\ app # front
    /\ switches' = switches + 1
    /\ front' = app
    /\ excused' = [c \in Contents |-> excused[c] \cup {"left"}]
    /\ UNCHANGED <<monitorVars, policy, poller, hubVars, copies, losses, mishaps, origin,
                   blocked, others>>

-----------------------------------------------------------------------------
\* The poll loop.

Poll ==
    /\ poller = "idle"
    /\ PollNew(Me)
    /\ poller' = "polled"
    /\ excused' = [excused EXCEPT ![board[Me]] = @ \ {"unavailable"}]
    /\ UNCHANGED <<policy, front, hubVars, countVars, origin, blocked, others>>

\* Mutant: a context that cannot be had does not block, whatever the content.
BlocksIfKnown(ctx) == ctx # NoContext /\ Blocks(policy, ctx, found)

BlocksIn(ctx) == Blocks(policy, ctx, found)

\* What handlePrivacy does with a verdict.  A put that is blocked is handled; with
\* ClearOnBlock the clipboard is cleared, and if that fails it is handled.
Decide(ctx) ==
    IF ~ BlocksIn(ctx)
    THEN poller' = "sending" /\ UNCHANGED <<monitorVars, blocked>>
    ELSE /\ blocked' = blocked \cup {found}
         /\ IF policy.clearOnBlock
            THEN poller' = "clearing" /\ UNCHANGED monitorVars
            ELSE poller' = "idle" /\ MarkHandled(Me)

\* The context is asked for only by a policy that uses it.
HandlePrivacy ==
    /\ poller = "polled"
    /\ Decide(IF UsesContext(policy) THEN front ELSE NoContext)
    /\ UNCHANGED <<policy, front, hubVars, countVars, origin, excused, others>>

\* CurrentContext fails: the rules on contexts are "best-effort".
HandlePrivacyBlind ==
    /\ poller = "polled"
    /\ UsesContext(policy)
    /\ Decide(NoContext)
    /\ excused' = [excused EXCEPT ![found] = @ \cup {"unavailable"}]
    /\ UNCHANGED <<policy, front, hubVars, countVars, origin, others>>

\* Whatever is on the clipboard by now is cleared.
ClearLocal ==
    /\ poller = "clearing"
    /\ board' = [board EXCEPT ![Me] = Empty]
    /\ writer' = [writer EXCEPT ![Me] = "agent"]
    /\ lastWritten' = [lastWritten EXCEPT ![Me] = Empty]
    /\ lastSeen' = [lastSeen EXCEPT ![Me] = Empty]
    /\ pending' = [pending EXCEPT ![Me] = Empty]
    /\ poller' = "idle"
    /\ UNCHANGED <<policy, front, hubVars, countVars, ghostVars>>

ClearLocalFails ==
    /\ poller = "clearing"
    /\ MarkHandled(Me)
    /\ poller' = "idle"
    /\ UNCHANGED <<policy, front, hubVars, countVars, ghostVars>>

-----------------------------------------------------------------------------
\* The hub.

IsCurrent(ct) == current = ct

\* Mutant: what is current is stored again.
AppendAlways(req, from) ==
    /\ log' = Append(log, [ct |-> StoredAs(req), from |-> from])
    /\ current' = StoredAs(req)

\* A request that is accepted: Put of the hub.
Stores(req, from) ==
    IF IsCurrent(StoredAs(req))
    THEN UNCHANGED <<log, current>>
    ELSE /\ log' = Append(log, [ct |-> StoredAs(req), from |-> from])
         /\ current' = StoredAs(req)

HasRoom(req) == Len(log) < MaxClips \/ IsCurrent(StoredAs(req))

\* The clip expires, DELETE /api/clip, a restart: nothing is current then, or what is
\* the newest clip in the database, which need not be the one that was.
LoseCurrent ==
    /\ Mishap
    /\ losses' = losses + 1
    /\ current # Empty
    /\ current' \in {Empty} \cup {log[k].ct : k \in DOMAIN log}
    /\ UNCHANGED <<monitorVars, policy, front, poller, log, late, copies, switches,
                   ghostVars>>

\* sendToHub, up to the answer.
Send ==
    /\ poller = "sending"
    /\ Accepts(PutByType(found))
    /\ HasRoom(PutByType(found))
    /\ Stores(PutByType(found), "clipd")
    /\ poller' = "answered"
    /\ UNCHANGED <<monitorVars, policy, front, late, countVars, ghostVars>>

\* 413 or 400, or no connection: to be tried again by the next poll, for ever.
SendFails ==
    /\ poller = "sending"
    /\ poller' = "idle"
    /\ UNCHANGED <<monitorVars, policy, front, hubVars, countVars, ghostVars>>

\* The put is given up, at the ten seconds of its timeout or with its connection, and
\* yet the hub may have the request already.  A process that is killed during a put
\* leaves one behind as well: this, then Restart.
SendGivenUp ==
    /\ poller = "sending"
    /\ Accepts(PutByType(found))
    /\ Mishap
    /\ late' = [late EXCEPT ![found] = @ + 1]
    /\ poller' = "idle"
    /\ UNCHANGED <<monitorVars, policy, front, log, current, copies, losses, switches,
                   ghostVars>>

\* The hub gets to a request that nobody waits for any more.
CommitLate(c) ==
    /\ late[c] > 0
    /\ HasRoom(PutByType(c))
    /\ Stores(PutByType(c), "late")
    /\ late' = [late EXCEPT ![c] = @ - 1]
    /\ others' = IF log' = log THEN others ELSE others + 1
    /\ UNCHANGED <<monitorVars, policy, front, poller, countVars, origin, excused, blocked>>

MarkSent ==
    /\ poller = "answered"
    /\ MarkHandled(Me)
    /\ poller' = "idle"
    /\ UNCHANGED <<policy, front, hubVars, countVars, ghostVars>>

\* The put was stored, but its answer did not come in time, or could not be read: do
\* cancels the context of the request when it returns, before the body is read.
AnswerLost ==
    /\ poller = "answered"
    /\ poller' = "idle"
    /\ UNCHANGED <<monitorVars, policy, front, hubVars, countVars, ghostVars>>

PutFrom(req, from) ==
    /\ Len(log) < MaxClips /\ others < MaxOthers
    /\ Accepts(req)
    /\ Stores(req, from)
    /\ others' = IF log' = log THEN others ELSE others + 1
    /\ UNCHANGED <<monitorVars, policy, front, poller, late, countVars, origin, excused, blocked>>

\* tailclip put: a file, or what is typed or piped in, under any type; without one, the
\* name of the file says it, or it is plain text.
TailclipRequests(c) ==
    UNION {{PutByType(GivenAs(c, mime)), PutText(GivenAs(c, mime))} : mime \in MimeTypes \ {NoType}}

TailclipPut(c) == \E req \in TailclipRequests(c) : PutFrom(req, "other")

\* Clients of their own, such as that of ios/: either route, with a type or without.
OtherRequests(c) ==
    {Blob(GivenAs(c, mime)) : mime \in MimeTypes} \cup
    {Json(GivenAs(c, mime), asData) : mime \in MimeTypes, asData \in BOOLEAN}

OtherPut(c) == \E req \in OtherRequests(c) : PutFrom(req, "other")

\* A new clipd, with no memory of what was blocked.  If its bootstrap applies no
\* clip, the clipboard is as it was.
Restart ==
    /\ Mishap
    /\ ResetMonitor(Me)
    /\ poller' = "idle"
    /\ blocked' = {}
    /\ UNCHANGED <<policy, front, hubVars, copies, losses, switches, origin, excused, others>>

OutNext ==
    \/ \E c \in Contents : CopyIn(c) \/ CommitLate(c)
    \/ \E c \in Foreign : TailclipPut(c) \/ OtherPut(c)
    \/ \E app \in Apps : SwitchTo(app)
    \/ Poll \/ HandlePrivacy \/ HandlePrivacyBlind \/ ClearLocal \/ ClearLocalFails
    \/ Send \/ SendFails \/ SendGivenUp \/ MarkSent \/ AnswerLost
    \/ LoseCurrent \/ Restart

OutSpec == OutInit /\ [][OutNext]_vars

-----------------------------------------------------------------------------
(***************************************************************************)
(* What the way out promises.                                              *)
(***************************************************************************)

InHand == poller \in {"sending", "answered"}

\* What was copied in a context that the policy blocks is not put, however often
\* its put failed, unless the user left that context before the decision, or copied
\* the same again during a put, or the context could not be had: --ignore-apps and
\* --ignore-processes "keep matching foreground contexts local" (docs/security.md).
IgnoredContextKeptLocal ==
    InHand /\ BlocksContext(policy, origin[found]) => excused[found] # {}

\* No clip that clipd put looks like a class that is filtered, wherever it was
\* copied, whether or not the context could be had, and however late it arrived.
FilteredKeptLocal ==
    \A k \in DOMAIN log : log[k].from # "other" => ~ BlocksText(policy, log[k].ct)

\* "Blocked items stay local" (docs/architecture.md): what this process blocked it
\* does not put later, from whatever context, until the user copies it again.  A
\* new process knows nothing of it.
BlockedStaysLocal == InHand => found \notin blocked

\* The forms in which the hub may hold a content: under the type it was given or what
\* normalizeMimeType makes of that (data given as "Text/plain" is text, text of a type
\* that cannot be parsed is data), plain text if there was none; and text may have had
\* what is not UTF-8 replaced.
Held(c) ==
    LET types == {c.mime, NormalizeMimeType(c.mime)}
        kept == IF c.mime = NoType THEN {OctetStream, PlainText} ELSE types
    IN {GivenAs(c, mime) : mime \in kept} \cup
       {[GivenAs(c, mime) EXCEPT !.utf8 = TRUE] : mime \in kept \cap Textual}

Given == {GivenAs(c, mime) : c \in Foreign, mime \in MimeTypes}

\* What the hub holds is what somebody gave: a string put as another kind than text is
\* refused, not stored empty, a type that cannot be parsed costs no content, nothing is
\* above the limit, by either route.  What clipd put is held under its very type.
HeldAsGiven ==
    \A k \in DOMAIN log :
        /\ log[k].ct.size \in 1 .. MaxContentSize
        /\ log[k].from # "other" => \E c \in Contents : log[k].ct \in Held(c)
        /\ log[k].from = "other" => \E c \in Given : log[k].ct \in Held(c)

\* A copy makes one clip, although its put is tried until an answer could be read
\* and clipd may be restarted.  For each clip more of a put that clipd waited for
\* there was another between, of somebody else or of a put that clipd had given up,
\* or the hub had lost its current clip and could not tell.
OwnClips == {k \in DOMAIN log : log[k].from = "clipd"}

OneCopyOneClip == Cardinality(OwnClips) <= copies + others + losses

-----------------------------------------------------------------------------
(***************************************************************************)
(* The inductive invariant behind the safety properties.                   *)
(***************************************************************************)

\* While the poll loop has something in hand, it is a content, and a decision that
\* let it pass still stands, for what clipd has given up as well.
HandHolds ==
    /\ poller # "idle" => found \in Contents
    /\ InHand => ~ BlocksText(policy, found)
    /\ \A c \in Contents : late[c] > 0 => Accepts(PutByType(c)) /\ ~ BlocksText(policy, c)

\* A content that nobody left the context of since it was copied was copied in the
\* application in front.
OriginIsFront == \A c \in Contents : "left" \notin excused[c] => origin[c] = front

\* What is blocked and still on the clipboard counts as seen, so that no poll finds
\* it, or is about to be cleared.
BlockedIsSeen ==
    /\ poller \in {"polled", "sending", "answered"} => {board[Me], found} \cap blocked = {}
    /\ board[Me] \in blocked =>
           board[Me] = (IF poller = "clearing" THEN found ELSE lastSeen[Me])

\* As what a put of clipd is stored.
Kept(c) == StoredAs(PutByType(c))

One(condition) == IF condition THEN 1 ELSE 0

\* How many clips clipd may still add with nothing copied, nothing put by others and
\* nothing lost: what it has in hand and then what is on the clipboard, unless it is
\* current then.
StillToCome ==
    IF poller \in {"polled", "sending"}
    THEN One(~ IsCurrent(Kept(found))) + One(board[Me] # Empty /\ Kept(board[Me]) # Kept(found))
    ELSE One(board[Me] # Empty /\ ~ IsCurrent(Kept(board[Me])))

CopiesCount == Cardinality(OwnClips) + StillToCome <= copies + others + losses

OutInv ==
    /\ OutTypeOK
    /\ HandHolds
    /\ FilteredKeptLocal
    /\ OriginIsFront
    /\ IgnoredContextKeptLocal
    /\ BlockedIsSeen
    /\ HeldAsGiven
    /\ CopiesCount

=============================================================================
